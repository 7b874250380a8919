----------------------------- MODULE HostedPage -----------------------------
(* One tab of the hosted workspace: App.tsx behind the gate, with what it  *)
(* asks of the Worker about published pages (createShare to listShares in  *)
(* worker/index.ts, share-client.ts) and the ways an author leaves:        *)
(* signing out, deleting the account and updating the application.         *)
(*                                                                         *)
(* WorkspaceSync models how a save is pushed and merged; here a save       *)
(* stores the workspace on the device and then reaches the server or not.  *)
EXTENDS SessionBoundary, Sequences, FiniteSets, FiniteSetsExt

CONSTANTS Slug,       \* pages the author may publish, 1 .. n
          MaxWords,   \* bound on what is written
          MaxMoves,   \* by plan, bound on faults, downloads and ways out
          Overlap,    \* what the author may do while an answer is awaited
          Plans       \* bound: an author publishes, or writes and leaves

ASSUME HostedPageAssumption ==
    /\ MaxWords \in Nat /\ MaxMoves \in [Plans -> Nat] /\ Slug \subseteq Nat \ {0}
    /\ Overlap \subseteq {"readers", "publish", "save"}
    /\ Plans \subseteq {"publishing", "leaving"}

VARIABLES stored,   \* the workspace on the server
          pages,    \* published_snapshots_v2
          erased,   \* the account was deleted
          device,   \* the record in IndexedDB, or None
          app,      \* React state, or Closed while the gate is shut
          saves,    \* store.save: the saves that are waiting, the first sent
          status,   \* the store's status
          base,     \* the store's base: the workspace last synchronized
          leave,    \* signOut, deleteAccount or an update under way
          calls,    \* requests to the Worker that someone waits for
          adrift,   \* requests whose page is gone
          files,    \* device recoveries the author downloaded
          told,     \* history: pages the author was told are revoked
          left,     \* history: workspaces the author left with
          moves     \* counter: faults, downloads and ways out, under a plan

hosted == <<stored, pages, erased>>
kept == <<device, saves, status, base, leave>>
history == <<files, told, left, moves>>
vars == <<gateVars, hosted, app, kept, calls, adrift, history>>

None == [words |-> 0]
Blank == [words |-> 0, link |-> 0, readers |-> "signed_in"]
Closed == [open |-> FALSE]
Opened(ws) == [open |-> TRUE, ws |-> ws, timer |-> TRUE]
Leaving(kind, step, ws, covered) == [kind |-> kind, step |-> step, ws |-> ws, covered |-> covered]
Staying == Leaving("none", "none", Blank, FALSE)
Call(kind, slug, readers) == [kind |-> kind, slug |-> slug, readers |-> readers, at |-> "sent"]

Waits(kinds) == \E c \in calls : c.kind \in kinds
plan == moves.plan
Moves == moves.n < MaxMoves[plan] /\ moves' = [moves EXCEPT !.n = @ + 1]
Shown(ws) == app' = [app EXCEPT !.ws = ws, !.timer = TRUE]
Panel == {"publish", "revoke"}

(***************************************************************************)
(* The gate and the page behind it.  A page that is unmounted clears its   *)
(* timer and closes its cache, so that saves and ways out that need the    *)
(* cache end there; requests already sent may still arrive.                *)
(***************************************************************************)
Unmounts(way) ==
    /\ app' = Closed /\ saves' = <<>> /\ status' = "synchronizing" /\ base' = None
    /\ leave' = IF way.step = "go" THEN way ELSE Staying
    /\ calls' = {} /\ adrift' = adrift \cup {c \in calls : c.at = "sent"}

Pending == device # None /\ device.pending
Mounts ==
    /\ app' = Opened(IF Pending THEN device.ws ELSE stored)
    /\ status' = IF Pending THEN "unsynced" ELSE "synchronized"
    /\ base' = IF Pending THEN base ELSE stored
    /\ device' = IF Pending THEN device ELSE [ws |-> stored, pending |-> FALSE]
    /\ UNCHANGED <<saves, leave, calls, adrift>>

(* A deleted account has another namespace, and so another page; what its  *)
(* author does there is not followed.                                      *)
Follows ==
    IF app.open /\ (gate'.shown # "open" \/ (erased /\ gate.asked = "yes" /\ gate'.asked = "none"))
    THEN Unmounts(leave) /\ UNCHANGED device
    ELSE IF ~app.open /\ leave = Staying /\ gate'.shown = "open" /\ ~erased THEN Mounts
    ELSE UNCHANGED <<app, kept, calls, adrift>>

Verification == /\ Verify \/ (online /\ (ServeSession \/ Verified))
                /\ Follows /\ UNCHANGED <<hosted, history>>
VerificationFails == /\ Unverified /\ Moves
                     /\ Follows /\ UNCHANGED <<hosted, files, told, left>>
Again == TryAgain /\ Follows /\ UNCHANGED <<hosted, history>>

Environment == /\ Moves /\ (SessionChanges \/ LineChanges)
               /\ UNCHANGED <<hosted, app, kept, calls, adrift, files, told, left>>

(***************************************************************************)
(* Writing and saving.                                                     *)
(***************************************************************************)
Write == /\ app.open /\ app.ws.words < MaxWords
         /\ Shown([app.ws EXCEPT !.words = @ + 1])
         /\ UNCHANGED <<gateVars, hosted, kept, calls, adrift, history>>

(* store.save.  What is synchronized and unchanged resolves at once.       *)
MaxSaves == IF plan = "leaving" THEN 2 ELSE 1
Unchanged(ws) == status = "synchronized" /\ base = ws
Enqueue(ws, by) == /\ saves' = Append(saves, [ws |-> ws, by |-> by])
                   /\ device' = [ws |-> ws, pending |-> TRUE]
                   /\ status' = "synchronizing"
                   /\ UNCHANGED base
MaySave == /\ app.open /\ Len(saves) < MaxSaves
           /\ leave.kind # "update" /\ (leave.covered \/ leave.step \in {"clear", "go"})
                 => "save" \in Overlap

AutoSave == /\ MaySave /\ app.timer
            /\ app' = [app EXCEPT !.timer = FALSE]
            /\ IF Unchanged(app.ws) THEN UNCHANGED <<device, saves, status, base>>
               ELSE Enqueue(app.ws, "timer")
            /\ UNCHANGED <<gateVars, hosted, leave, calls, adrift, history>>

Retry == /\ MaySave /\ status = "unsynced" /\ online
         /\ Enqueue(app.ws, "online")
         /\ UNCHANGED <<gateVars, hosted, app, leave, calls, adrift, history>>

(* What a way out does once its save settled with a status (1020-1024,     *)
(* 1066-1087).                                                             *)
SignsOutAnyway(way, result) == [way EXCEPT !.step = IF way.kind = "update" THEN "go" ELSE "clear"]  \* mutant
AfterSave(way, result) ==
    IF way.kind = "update"
    THEN IF result = "locked" THEN Staying ELSE [way EXCEPT !.step = "go"]
    ELSE IF result = "synchronized" \/ way.covered THEN [way EXCEPT !.step = "clear"] ELSE Staying

(* The first save reaches the server.                                      *)
SaveArrives == /\ saves # <<>> /\ signedIn /\ online /\ ~erased
               /\ stored' = Head(saves).ws
               /\ UNCHANGED <<gateVars, pages, erased, app, kept, calls, adrift, history>>

(* Its answer, or the failure of its request.  Only the newest save sets   *)
(* the record and the status.                                              *)
SaveEnds(result) ==
    LET save == Head(saves)
        newest == Len(saves) = 1
        after == IF newest THEN result ELSE status
    IN /\ saves # <<>>
       /\ result = "synchronized" => stored = save.ws /\ online /\ signedIn /\ ~erased
       /\ status' = after
       /\ base' = IF result = "synchronized" THEN save.ws ELSE base
       /\ device' = IF newest /\ result = "synchronized"
                    THEN [ws |-> save.ws, pending |-> FALSE] ELSE device
       /\ saves' = Tail(saves)
       /\ leave' = IF save.by = "leave" THEN AfterSave(leave, after) ELSE leave
       /\ UNCHANGED <<gateVars, hosted, app, calls, adrift, history>>

(* 401, or 410 from another workspace: the gate shuts.  A sign out covered *)
(* by a recovery may still clear the cache before it closes.               *)
SaveRefused ==
    /\ saves # <<>> /\ (~signedIn \/ erased) /\ online
    /\ LosesAuthentication /\ UNCHANGED <<signedIn, online>>
    /\ LET way == IF Head(saves).by = "leave" THEN AfterSave(leave, "locked") ELSE leave IN
       \/ Unmounts(way) /\ UNCHANGED device
       \/ /\ Head(saves).by = "leave" /\ way.step = "clear"
          /\ Unmounts([way EXCEPT !.step = "go"]) /\ device' = None
    /\ UNCHANGED <<hosted, history>>

Downloads == /\ app.open /\ plan = "leaving" /\ Moves
             /\ files' = files \cup {app.ws}
             /\ UNCHANGED <<gateVars, hosted, app, kept, calls, adrift, told, left>>

(***************************************************************************)
(* Published pages.                                                        *)
(***************************************************************************)
ReadersAnytime(who) == /\ app.open                                         \* mutant
                       /\ Shown([app.ws EXCEPT !.readers = who])
                       /\ UNCHANGED <<gateVars, hosted, kept, calls, adrift, history>>
Readers(who) == /\ app.open /\ plan = "publishing" /\ app.ws.link = 0 /\ who # app.ws.readers
                /\ Waits({"publish"}) => "readers" \in Overlap
                /\ Shown([app.ws EXCEPT !.readers = who])
                /\ UNCHANGED <<gateVars, hosted, kept, calls, adrift, history>>

Asks(c) == /\ calls' = calls \cup {c}
           /\ UNCHANGED <<gateVars, hosted, app, kept, adrift, history>>

(* A page gets a random slug, here the next one.                           *)
Pendings(kind) == {c \in calls \cup adrift : c.kind = kind}
Unused == {s \in Slug : pages[s].state = "free" /\ \A c \in Pendings("publish") : c.slug # s}
Publish == /\ app.open /\ plan = "publishing" /\ app.ws.link = 0 /\ ~Waits(Panel) /\ app.ws.words > 0 /\ ~erased
           /\ Pendings("erase") # {} => "publish" \in Overlap
           /\ Unused # {}
           /\ Asks(Call("publish", Min(Unused), app.ws.readers))
Revoke == /\ app.open /\ app.ws.link # 0 /\ ~Waits(Panel)
          /\ Asks(Call("revoke", app.ws.link, "none"))
(* The library shows every page it was told of, perhaps no longer so.      *)
RevokeListed(s) == /\ app.open /\ pages[s].state \in {"live", "revoked"} /\ s \notin told
                   /\ ~Waits({"library"})
                   /\ Asks(Call("library", s, "none"))

(* The Worker.  revokeShare finds nothing to revoke twice.                 *)
Live(s) == pages[s].state = "live"
Effect(c) == IF c.kind = "publish" THEN [pages EXCEPT ![c.slug] = [state |-> "live", readers |-> c.readers]]
             ELSE IF c.kind \in {"revoke", "library"} /\ Live(c.slug)
             THEN [pages EXCEPT ![c.slug].state = "revoked"]
             ELSE pages
Outcome(c) == IF ~signedIn THEN "unauthorized"
              ELSE IF c.kind \in {"revoke", "library"} /\ ~Live(c.slug) THEN "refused" ELSE "ok"

Reaches(c) == /\ online
              /\ pages' = IF signedIn THEN Effect(c) ELSE pages
              /\ UNCHANGED <<stored, erased>>
Serve(c) == /\ c \in calls /\ c.at = "sent" /\ c.kind # "erase"
            /\ Reaches(c)
            /\ calls' = (calls \ {c}) \cup {[c EXCEPT !.at = Outcome(c)]}
            /\ UNCHANGED <<gateVars, app, kept, adrift, history>>
Arrives(c) == /\ c \in adrift /\ c.kind # "erase"
              /\ adrift' = adrift \ {c}
              /\ Reaches(c)
              /\ UNCHANGED <<gateVars, app, kept, calls, history>>

(* What the page does with an answer (1122-1144, 1741-1782).               *)
Unlinked == [app.ws EXCEPT !.link = 0]
Applied(c) ==
    CASE c.kind = "publish" -> Shown([app.ws EXCEPT !.link = c.slug]) /\ UNCHANGED told
      [] c.kind = "revoke" -> Shown(Unlinked) /\ told' = told \cup {c.slug}
      [] c.kind = "library" -> /\ told' = told \cup {c.slug}
                               /\ IF app.ws.link = c.slug THEN Shown(Unlinked) ELSE UNCHANGED app

Answer(c) == /\ c \in calls /\ c.at \in {"ok", "refused"} /\ c.kind # "erase"
             /\ calls' = calls \ {c}
             /\ IF c.at = "ok" THEN Applied(c) ELSE UNCHANGED <<app, told>>
             /\ UNCHANGED <<gateVars, hosted, kept, adrift, files, left, moves>>

(* protectedFetch reports a refusal before its caller resumes.             *)
Unauthorized(c) == /\ c \in calls /\ c.at = "unauthorized"
                   /\ LosesAuthentication /\ UNCHANGED <<signedIn, online>>
                   /\ Unmounts(leave) /\ UNCHANGED device
                   /\ UNCHANGED <<hosted, history>>

(* A request or its answer is lost; the page shows an error.               *)
Lost(c) == /\ c \in calls /\ Moves
           /\ calls' = calls \ {c}
           /\ adrift' = IF c.at = "sent" THEN adrift \cup {c} ELSE adrift
           /\ leave' = IF c.kind = "erase" THEN Staying ELSE leave
           /\ UNCHANGED <<gateVars, hosted, app, device, saves, status, base, files, told, left>>

(***************************************************************************)
(* Leaving.                                                                *)
(***************************************************************************)
Begins(kind) == /\ app.open /\ leave = Staying /\ Len(saves) < MaxSaves /\ Moves
                /\ kind \in {"signOut", "update"} /\ plan = "leaving"
                /\ LET way == Leaving(kind, "save", app.ws, app.ws \in files) IN
                   IF Unchanged(app.ws)
                   THEN leave' = AfterSave(way, status) /\ UNCHANGED <<device, saves, status, base>>
                   ELSE leave' = way /\ Enqueue(app.ws, "leave")
                /\ UNCHANGED <<gateVars, hosted, app, calls, adrift, files, told, left>>

Erase == /\ app.open /\ leave = Staying /\ Moves
         /\ Pendings("publish") = {} \/ "publish" \in Overlap
         /\ leave' = Leaving("erase", "ask", app.ws, TRUE)
         /\ calls' = calls \cup {Call("erase", 0, "none")}
         /\ UNCHANGED <<gateVars, hosted, app, device, saves, status, base, adrift, files, told, left>>

(* deleteAccount in the Worker: pages, then mutations, then the workspace. *)
AllPages == [s \in Slug |-> IF pages[s].state = "free" THEN pages[s] ELSE [pages[s] EXCEPT !.state = "erased"]]
Erased == /\ pages' = AllPages /\ stored' = Blank /\ erased' = TRUE
ServeErase(c) ==
    /\ c \in calls \cup adrift /\ c.kind = "erase" /\ c.at = "sent"
    /\ online /\ IF signedIn THEN Erased ELSE UNCHANGED hosted
    /\ adrift' = adrift \ {c}
    /\ calls' = IF c \in calls THEN (calls \ {c}) \cup {[c EXCEPT !.at = Outcome(c)]} ELSE calls
    /\ UNCHANGED <<gateVars, app, kept, history>>
EraseAnswered(c) == /\ c \in calls /\ c.kind = "erase" /\ c.at = "ok"
                    /\ calls' = calls \ {c}
                    /\ leave' = [leave EXCEPT !.step = "clear"]
                    /\ UNCHANGED <<gateVars, hosted, app, device, saves, status, base, adrift, history>>

Clear == /\ leave.step = "clear"
         /\ \/ device' = None /\ leave' = [leave EXCEPT !.step = "go"]
            \/ leave' = Staying /\ UNCHANGED device
         /\ UNCHANGED <<gateVars, hosted, app, saves, status, base, calls, adrift, history>>

(* The document is replaced: by the platform's sign-out page, after which  *)
(* a new document verifies again, or by the new version.                   *)
Goes == /\ leave.step = "go"
        /\ left' = left \cup {[kind |-> leave.kind, ws |-> leave.ws, cached |-> device # None]}
        /\ signedIn' = IF leave.kind = "update" THEN signedIn ELSE FALSE
        /\ gate' = Shuts("loading", "sent")
        /\ Unmounts(Staying)
        /\ UNCHANGED <<online, hosted, device, files, told, moves>>

(***************************************************************************)
(* The specification.                                                      *)
(***************************************************************************)
Init == /\ GateInit /\ \E p \in Plans : moves = [plan |-> p, n |-> 0]
        /\ stored = [Blank EXCEPT !.words = IF plan = "publishing" THEN MaxWords ELSE 0]
        /\ erased = FALSE
        /\ pages = [s \in Slug |-> [state |-> "free", readers |-> "signed_in"]]
        /\ device = None /\ app = Closed /\ saves = <<>> /\ status = "synchronizing"
        /\ leave = Staying /\ calls = {} /\ adrift = {} /\ base = None
        /\ files = {} /\ told = {} /\ left = {}

Next == \/ Verification \/ VerificationFails \/ Again \/ Environment
        \/ Write \/ AutoSave \/ Retry \/ SaveArrives \/ SaveRefused \/ Downloads
        \/ \E result \in {"synchronized", "unsynced"} : SaveEnds(result)
        \/ \E who \in {"signed_in", "public"} : Readers(who)
        \/ Publish \/ Revoke \/ \E s \in Slug : RevokeListed(s)
        \/ \E c \in calls \cup adrift : \/ Serve(c) \/ Arrives(c) \/ Answer(c) \/ Unauthorized(c)
                                        \/ Lost(c) \/ ServeErase(c) \/ EraseAnswered(c)
        \/ \E kind \in {"signOut", "update"} : Begins(kind)
        \/ Erase \/ Clear \/ Goes

Spec == Init /\ [][Next]_vars
(* The interval fires and answers arrive while the line is up.             *)
FairSpec == Spec /\ WF_vars(Verification)

(***************************************************************************)
(* Properties.                                                             *)
(***************************************************************************)

(* Once the platform's session has ended for good and the line is up, the  *)
(* gate shuts for good, though an answer of an earlier verification may    *)
(* have opened it again after a refusal shut it (SessionBoundary.tsx:71;   *)
(* "locks private content when a focused window no longer has the same     *)
(* authenticated session").                                                *)
GateShuts == <>[](~signedIn /\ online) => <>[](~app.open)

(* What the panel shows of a page is true of the page: a link that works   *)
(* has the readers that are shown, a link the author was told is revoked   *)
(* never works, and none does once the account is deleted (createShare,    *)
(* revokeShare; "permanently deletes the hosted workspace and revokes      *)
(* every published link").                                                 *)
PagesAsShown ==
    /\ app.open => \A s \in Slug : app.ws.link = s /\ Live(s) => pages[s].readers = app.ws.readers
    /\ \A s \in told : ~Live(s)
    /\ erased => \A s \in Slug : ~Live(s)

(* What was written when the author chose to sign out or to update is kept *)
(* somewhere the author can find it: on the server, in a downloaded        *)
(* recovery or, for an update, in the device's own record.  Words given up *)
(* with a deleted account are exempt.  Signing out or deleting the account *)
(* leaves no copy on the device ("pauses sign out when writing changes     *)
(* after the device recovery download"; "a completed Sign out to clear my  *)
(* workspace cache").                                                      *)
Kept(words) == \/ stored.words >= words
               \/ device # None /\ device.ws.words >= words
               \/ \E file \in files : file.words >= words
LeavingKeepsWords ==
    \A way \in left : /\ way.kind = "erase" \/ erased \/ Kept(way.ws.words)
                      /\ way.kind = "update" \/ ~way.cached
=============================================================================
