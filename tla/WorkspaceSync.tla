--------------------------- MODULE WorkspaceSync ---------------------------
(***************************************************************************)
(* WorkspaceSynchronization (workspace-sync.ts) with the two effects of    *)
(* App.tsx that drive it: browser tabs of one account, each with a copy of *)
(* the workspace on screen, an IndexedDB record shared by the tabs of a    *)
(* device, and the server, whose compare-and-set is one step here: that is *)
(* the register WorkspaceServer implements.                                *)
(***************************************************************************)
EXTENDS Integers, Sequences, Reconcile

CONSTANTS
    Tab, Device,
    DeviceOf,       \* the device, with its cache, of each tab
    Doc,            \* the documents the account starts with
    Setting,        \* fields of a workspace that are not writing
    MaxEdits,       \* bound on the author's edits, in all tabs together
    Environment,    \* what may happen besides a patient author writing
    MaxFaults,      \* bound on lost requests, lost answers, crashes and SaveNow
    MaxSaves,       \* bound on the saves a tab has waiting
    Attempts,       \* requests of one push (16 in the code)
    None

ASSUME SyncAssumption ==
    /\ DeviceOf \in [Tab -> Device]
    /\ Environment \subseteq {"impatient", "request", "answer", "crash", "load", "saveNow"}
    /\ MaxEdits \in Nat /\ MaxFaults \in Nat /\ MaxSaves \in Nat \ {0} /\ Attempts \in Nat \ {0}
    /\ Absent \notin Int

VARIABLES
    history,    \* the server: the workspace of every revision, 0 first
    late,       \* requests nobody waits for that the server may still receive
    cache,      \* the record of each device
    writes,     \* each device's IndexedDB puts that have not completed
    phase, fetched,                 \* each tab: progress of load
    view, timer,                    \* each tab: React state, armed debounce
    status, base, rev,              \* each tab: the object's fields
    saves, push,                    \* each tab: queued saves, running push
    edits, seen, faults, copies    \* counters and history for the properties

serverVars == <<history, late>>
cacheVars  == <<cache, writes>>
screenVars == <<view, timer>>
fieldVars  == <<status, base, rev>>
queueVars  == <<saves, push>>
countVars  == <<edits, seen, faults, copies>>
vars == <<serverVars, cacheVars, phase, fetched, screenVars, fieldVars, queueVars, countVars>>

(* An edit's number stands for the material of a document; 0 is the        *)
(* material it starts with.  A setting has one of two values, 0 and 1.     *)
Edit == 0 .. MaxEdits
Documents(ws) == DOMAIN ws \ Setting
Latest == history[Len(history)]
Revision == Len(history) - 1

(* createInitialWorkspace: one blank document that no other tab has.       *)
Blank(t) == [x \in {Fresh(t, 0)} \cup Setting |-> 0]

Record(ws, bs, r, pending) == [ws |-> ws, base |-> bs, rev |-> r, pending |-> pending]
Else(x, y) == IF x = None THEN y ELSE x

Init ==
    /\ history = <<[x \in Doc \cup Setting |-> 0]>> /\ late = {}
    /\ cache = [v \in Device |-> None] /\ writes = [v \in Device |-> << >>]
    /\ phase = [t \in Tab |-> "closed"] /\ fetched = [t \in Tab |-> None]
    /\ view = [t \in Tab |-> None] /\ timer = [t \in Tab |-> FALSE]
    /\ status = [t \in Tab |-> "synchronizing"]
    /\ base = [t \in Tab |-> None] /\ rev = [t \in Tab |-> 0]
    /\ saves = [t \in Tab |-> << >>] /\ push = [t \in Tab |-> None]
    /\ edits = 0 /\ seen = [e \in Edit |-> {}] /\ faults = << >> /\ copies = 0

Fault(kind) == /\ kind \in Environment /\ Len(faults) < MaxFaults
               /\ faults' = Append(faults, kind)
Suffered == {faults[n] : n \in DOMAIN faults}

(* A put of the tab's, issued behind the device's others; then says which  *)
(* await it resumes.                                                       *)
Issue(t, queue, record, then) ==
    [queue EXCEPT ![DeviceOf[t]] = Append(@, [tab |-> t, record |-> record, then |-> then])]

-----------------------------------------------------------------------------
(* load (185-211).                                                         *)

Shows(t, ws) ==
    /\ phase' = [phase EXCEPT ![t] = "open"]
    /\ view' = [view EXCEPT ![t] = ws]
    /\ timer' = [timer EXCEPT ![t] = TRUE]
    /\ fetched' = [fetched EXCEPT ![t] = None]

Adopts(t, bs, r, st) ==
    /\ base' = [base EXCEPT ![t] = bs]
    /\ rev' = [rev EXCEPT ![t] = r]
    /\ status' = [status EXCEPT ![t] = st]

Open(t) ==
    /\ phase[t] = "closed"
    /\ phase' = [phase EXCEPT ![t] = "load"]
    /\ fetched' = [fetched EXCEPT ![t] = [cached |-> cache[DeviceOf[t]], remote |-> None]]
    /\ UNCHANGED <<serverVars, cacheVars, screenVars, fieldVars, queueVars, countVars>>

Fetch(t) ==
    /\ phase[t] = "load" /\ fetched[t].remote = None
    /\ fetched' = [fetched EXCEPT ![t].remote = [ws |-> Latest, rev |-> Revision]]
    /\ UNCHANGED <<serverVars, cacheVars, phase, screenVars, fieldVars, queueVars, countVars>>

(* The answer has come: a pending record of the device is kept and will be *)
(* saved again, otherwise the server's workspace replaces the record.      *)
Forgetful(t) == FALSE    \* mutant
Resumes(t) == fetched[t].cached # None /\ fetched[t].cached.pending

Loaded(t) ==
    LET cached == fetched[t].cached
        remote == fetched[t].remote
    IN /\ phase[t] = "load" /\ remote # None
       /\ IF Resumes(t)
          THEN /\ Adopts(t, cached.base, cached.rev, "unsynced")
               /\ Shows(t, cached.ws)
               /\ UNCHANGED writes
          ELSE /\ Adopts(t, remote.ws, remote.rev, status[t])
               /\ writes' = Issue(t, writes, Record(remote.ws, remote.ws, remote.rev, FALSE), "load")
               /\ phase' = [phase EXCEPT ![t] = "store"]
               /\ UNCHANGED <<fetched, screenVars>>
       /\ UNCHANGED <<serverVars, cache, queueVars, countVars>>

(* No answer: the record is shown instead.  Without one load throws, and   *)
(* App shows an error above the blank workspace it was created with.       *)
LoadFails(t) ==
    LET cached == fetched[t].cached
    IN /\ phase[t] = "load" /\ Fault("load")
       /\ IF cached = None
          THEN Shows(t, Blank(t)) /\ UNCHANGED fieldVars
          ELSE /\ Shows(t, cached.ws)
               /\ Adopts(t, cached.base, cached.rev, IF cached.pending THEN "unsynced" ELSE "synchronized")
       /\ UNCHANGED <<serverVars, cacheVars, queueVars, edits, seen, copies>>

-----------------------------------------------------------------------------
(* The author.                                                             *)

Idle(t) == phase[t] = "open" /\ ~timer[t] /\ saves[t] = << >> /\ push[t] = None
Saved(t) == Idle(t) /\ status[t] = "synchronized"

MayEdit(t) ==
    /\ phase[t] = "open" /\ edits < MaxEdits
    /\ "impatient" \in Environment \/ Saved(t)
    /\ edits' = edits + 1

(* Every edit of a document stamps it: its material is new.                *)
Write(t, d) ==
    /\ MayEdit(t)
    /\ view' = [view EXCEPT ![t][d] = edits + 1]
    /\ seen' = [seen EXCEPT ![edits + 1] = seen[view[t][d]] \cup {view[t][d]}]
    /\ timer' = [timer EXCEPT ![t] = TRUE]
    /\ UNCHANGED <<serverVars, cacheVars, phase, fetched, fieldVars, queueVars, faults, copies>>

(* A setting, the open document or a dictation draft carries no stamp, so   *)
(* that changing it back shows what was there before.                      *)
Toggle(t, f) ==
    /\ MayEdit(t)
    /\ view' = [view EXCEPT ![t][f] = 1 - @]
    /\ timer' = [timer EXCEPT ![t] = TRUE]
    /\ UNCHANGED <<serverVars, cacheVars, phase, fetched, fieldVars, queueVars, seen, faults, copies>>

-----------------------------------------------------------------------------
(* save (213-231).  apply says whether the caller puts the result on the   *)
(* screen; newest, that no later save has been called (saveSequence).      *)

Uncached(q) == {i \in DOMAIN q : ~q[i].cached}

Unpending(t, ws) == Record(ws, Else(base[t], ws), rev[t], FALSE)     \* mutant
Baseless(t, ws) == Record(ws, ws, rev[t], TRUE)                      \* mutant
PendingRecord(t, ws) == Record(ws, Else(base[t], ws), rev[t], TRUE)

Unchanged(t) == status[t] = "synchronized" /\ view[t] = base[t]

Save(t, apply) ==
    IF Unchanged(t)
    THEN UNCHANGED <<cacheVars, queueVars>>
    ELSE /\ Len(saves[t]) < MaxSaves
         /\ saves' = [saves EXCEPT ![t] =
              Append([i \in DOMAIN @ |-> [@[i] EXCEPT !.newest = FALSE]],
                     [ws |-> view[t], apply |-> apply, newest |-> TRUE, cached |-> FALSE])]
         /\ push' = [push EXCEPT ![t] = IF @ = None THEN None ELSE [@ EXCEPT !.newest = FALSE]]
         /\ writes' = IF Uncached(saves[t]) = {}
                      THEN Issue(t, writes, PendingRecord(t, view[t]), "save") ELSE writes
         /\ UNCHANGED cache

(* The debounced effect (974-1000).                                        *)
Debounced(t) ==
    /\ phase[t] = "open" /\ timer[t]
    /\ timer' = [timer EXCEPT ![t] = FALSE]
    /\ Save(t, TRUE)
    /\ UNCHANGED <<serverVars, phase, fetched, view, fieldVars, countVars>>

(* The online event, which saves what is unsynced (1002-1013).             *)
Online(t) ==
    /\ phase[t] = "open" /\ status[t] = "unsynced"
    /\ Environment \cap {"request", "answer", "load"} # {}
    /\ Save(t, FALSE)
    /\ UNCHANGED <<serverVars, phase, fetched, screenVars, fieldVars, countVars>>

(* Downloading the archive and updating the application save at any time.  *)
SaveNow(t) ==
    /\ phase[t] = "open" /\ Fault("saveNow")
    /\ Save(t, FALSE)
    /\ UNCHANGED <<serverVars, phase, fetched, screenVars, fieldVars, edits, seen, copies>>

-----------------------------------------------------------------------------
(* push (233-283), one at a time (syncQueue), once its record is stored.   *)

StartPush(t) ==
    /\ push[t] = None /\ saves[t] # << >> /\ Head(saves[t]).cached
    /\ LET save == Head(saves[t]) IN
       push' = [push EXCEPT ![t] =
          [ws |-> save.ws, apply |-> save.apply, newest |-> save.newest,
           candidate |-> save.ws, base |-> Else(base[t], save.ws), rev |-> rev[t],
           tries |-> 1, at |-> "sent", answer |-> None]]
    /\ saves' = [saves EXCEPT ![t] = Tail(@)]
    /\ UNCHANGED <<serverVars, cacheVars, phase, fetched, screenVars, fieldVars, countVars>>

(* The server's compare-and-set.                                           *)
Serve(t) ==
    /\ push[t] # None /\ push[t].at = "sent"
    /\ IF push[t].rev = Revision
       THEN /\ history' = Append(history, push[t].candidate)
            /\ push' = [push EXCEPT ![t].at = "saved", ![t].answer = [rev |-> Revision + 1, ws |-> push[t].candidate]]
       ELSE /\ push' = [push EXCEPT ![t].at = "conflict", ![t].answer = [rev |-> Revision, ws |-> Latest]]
            /\ UNCHANGED history
    /\ UNCHANGED <<late, cacheVars, phase, fetched, screenVars, fieldVars, saves, countVars>>

Unshown(t, ws) ==        \* mutant
    push' = [push EXCEPT ![t] = None] /\ UNCHANGED screenVars

(* What a push resolves to is put on the screen when its caller does that  *)
(* and the screen still shows what was saved; a change arms the debounce.  *)
Resolve(t, ws) ==
    LET shown == push[t].apply /\ view[t] = push[t].ws /\ ws # view[t]
    IN /\ view' = [view EXCEPT ![t] = IF shown THEN ws ELSE @]
       /\ timer' = [timer EXCEPT ![t] = @ \/ shown]
       /\ push' = [push EXCEPT ![t] = None]

SavedAnswer(t) ==
    LET p == push[t] IN
    /\ p # None /\ p.at = "saved"
    /\ Adopts(t, p.candidate, p.answer.rev, status[t])
    /\ IF p.newest
       THEN /\ writes' = Issue(t, writes, Record(p.candidate, p.candidate, p.answer.rev, FALSE), "saved")
            /\ push' = [push EXCEPT ![t].at = "store"]
       ELSE push' = [push EXCEPT ![t] = None] /\ UNCHANGED writes
    /\ UNCHANGED <<serverVars, cache, phase, fetched, screenVars, saves, countVars>>

Copies(server, local, bs, n) ==
    [y \in {Fresh(d, n) : d \in Conflicts(server, local, bs) \ Setting} |-> local[Original(y)]]
Reconciled(server, local, bs, n) ==
    With(ThreeWay(server, local, bs), Copies(server, local, bs, n))

(* The push continues from the revision that refused it.                   *)
Rebased(p, merged) ==
    [p EXCEPT !.candidate = merged, !.base = p.answer.ws, !.rev = p.answer.rev, !.answer = None]

(* The loop ends after its last try; only the newest save then says so.    *)
NoRetry(p) == TRUE                   \* mutant
LastTry(p) == p.tries = Attempts
NextTry(t, p) ==
    IF ~LastTry(p)
    THEN /\ push' = [push EXCEPT ![t] = [p EXCEPT !.at = "sent", !.tries = @ + 1]]
         /\ UNCHANGED <<status, screenVars>>
    ELSE IF p.newest
    THEN Resolve(t, p.candidate) /\ status' = [status EXCEPT ![t] = "unsynced"]
    ELSE push' = [push EXCEPT ![t] = None] /\ UNCHANGED <<status, screenVars>>

ConflictAnswer(t) ==
    LET p == push[t]
        merged == Reconciled(p.answer.ws, p.candidate, p.base, copies + 1)
        q == Rebased(p, merged)
    IN /\ p # None /\ p.at = "conflict"
       /\ base' = [base EXCEPT ![t] = p.answer.ws]
       /\ rev' = [rev EXCEPT ![t] = p.answer.rev]
       /\ copies' = IF Conflicts(p.answer.ws, p.candidate, p.base) \subseteq Setting THEN copies ELSE copies + 1
       /\ IF p.newest
          THEN /\ writes' = Issue(t, writes, Record(merged, p.answer.ws, p.answer.rev, TRUE), "merged")
               /\ push' = [push EXCEPT ![t] = [q EXCEPT !.at = "store"]]
               /\ UNCHANGED <<status, screenVars>>
          ELSE NextTry(t, q) /\ UNCHANGED writes
       /\ UNCHANGED <<serverVars, cache, phase, fetched, saves, edits, seen, faults>>

(* The request fails on its way or its answer does; a request may still    *)
(* reach the server afterwards.                                            *)
Fails(t) ==
    LET p == push[t] IN
    /\ p # None
    /\ \/ p.at = "sent" /\ Fault("request") /\ UNCHANGED late
       \/ p.at = "sent" /\ Fault("answer") /\ late' = late \cup {[ws |-> p.candidate, rev |-> p.rev]}
       \/ p.at \in {"saved", "conflict"} /\ Fault("answer") /\ UNCHANGED late
    /\ IF p.newest
       THEN Resolve(t, p.candidate) /\ status' = [status EXCEPT ![t] = "unsynced"]
       ELSE push' = [push EXCEPT ![t] = None] /\ UNCHANGED <<status, screenVars>>
    /\ UNCHANGED <<history, cacheVars, phase, fetched, base, rev, saves, edits, seen, copies>>

Late ==
    \E r \in late :
        /\ late' = late \ {r}
        /\ history' = IF r.rev = Revision THEN Append(history, r.ws) ELSE history
        /\ UNCHANGED <<cacheVars, phase, fetched, screenVars, fieldVars, queueVars, countVars>>

-----------------------------------------------------------------------------
(* The device's oldest put completes and the await on it resumes, if its   *)
(* tab is still there: a put of a tab that closed was aborted.             *)

LoadStored(t, rest) ==
    /\ Shows(t, base[t])
    /\ status' = [status EXCEPT ![t] = "synchronized"]
    /\ writes' = rest
    /\ UNCHANGED queueVars

SaveStored(t, rest) ==
    /\ LET first == CHOOSE i \in Uncached(saves[t]) : \A j \in Uncached(saves[t]) : i <= j
           left == Uncached(saves[t]) \ {first}
       IN /\ saves' = [saves EXCEPT ![t][first].cached = TRUE]
          /\ writes' = IF left = {} THEN rest
                       ELSE Issue(t, rest, PendingRecord(t, saves[t][first + 1].ws), "save")
    /\ status' = [status EXCEPT ![t] = "synchronizing"]
    /\ UNCHANGED <<phase, fetched, screenVars, push>>

ResultStored(t, rest) ==
    /\ Resolve(t, push[t].candidate)
    /\ status' = [status EXCEPT ![t] = "synchronized"]
    /\ writes' = rest
    /\ UNCHANGED <<phase, fetched, saves>>

MergeStored(t, rest) ==
    /\ NextTry(t, push[t])
    /\ writes' = rest
    /\ UNCHANGED <<phase, fetched, saves>>

Stored(v) ==
    /\ writes[v] # << >>
    /\ LET put == Head(writes[v])
           rest == [writes EXCEPT ![v] = Tail(@)]
       IN \/ /\ \/ put.then = "load" /\ LoadStored(put.tab, rest)
                \/ put.then = "save" /\ SaveStored(put.tab, rest)
                \/ put.then = "saved" /\ ResultStored(put.tab, rest)
                \/ put.then = "merged" /\ MergeStored(put.tab, rest)
             /\ cache' = [cache EXCEPT ![v] = put.record]
          \/ /\ put.then = "aborted" /\ writes' = rest
             /\ UNCHANGED <<cache, phase, fetched, screenVars, status, queueVars>>
    /\ UNCHANGED <<serverVars, base, rev, countVars>>

(* The tab closes, crashes or reloads: what IndexedDB holds is left.       *)
Close(t) ==
    /\ phase[t] # "closed" /\ Fault("crash")
    /\ writes' = [writes EXCEPT ![DeviceOf[t]] =
          [i \in DOMAIN @ |-> IF @[i].tab = t THEN [@[i] EXCEPT !.then = "aborted"] ELSE @[i]]]
    /\ late' = IF push[t] # None /\ push[t].at = "sent"
               THEN late \cup {[ws |-> push[t].candidate, rev |-> push[t].rev]} ELSE late
    /\ phase' = [phase EXCEPT ![t] = "closed"]
    /\ fetched' = [fetched EXCEPT ![t] = None]
    /\ view' = [view EXCEPT ![t] = None]
    /\ timer' = [timer EXCEPT ![t] = FALSE]
    /\ Adopts(t, None, 0, "synchronizing")
    /\ saves' = [saves EXCEPT ![t] = << >>]
    /\ push' = [push EXCEPT ![t] = None]
    /\ UNCHANGED <<history, cache, edits, seen, copies>>

-----------------------------------------------------------------------------

Protocol(t) ==
    \/ Fetch(t) \/ Loaded(t) \/ Debounced(t)
    \/ StartPush(t) \/ Serve(t) \/ SavedAnswer(t) \/ ConflictAnswer(t)

Next ==
    \/ \E t \in Tab :
          \/ Open(t) \/ Protocol(t) \/ LoadFails(t)
          \/ Online(t) \/ SaveNow(t) \/ Fails(t) \/ Close(t)
          \/ phase[t] = "open" /\ \E d \in Documents(view[t]) : Write(t, d)
          \/ \E f \in Setting : Toggle(t, f)
    \/ \E v \in Device : Stored(v)
    \/ Late

Spec == Init /\ [][Next]_vars

(* Promises settle: IndexedDB completes its puts, the server answers what  *)
(* is not lost, timers fire.  Nothing is assumed of the author or faults.  *)
Fairness ==
    /\ \A t \in Tab : WF_vars(Protocol(t))
    /\ \A v \in Device : WF_vars(Stored(v))

FairSpec == Spec /\ Fairness

-----------------------------------------------------------------------------
(* Properties.                                                             *)

(* A push is in one of the states of push() and has used no more than the  *)
(* attempts it is allowed; a tab knows no revision the server has not had. *)
TypeOK ==
    /\ phase \in [Tab -> {"closed", "load", "store", "open"}]
    /\ status \in [Tab -> {"synchronized", "synchronizing", "unsynced"}]
    /\ timer \in [Tab -> BOOLEAN]
    /\ rev \in [Tab -> 0 .. Revision]
    /\ edits \in Edit /\ seen \in [Edit -> SUBSET Edit]
    /\ \A t \in Tab : push[t] # None =>
          push[t].at \in {"sent", "saved", "conflict", "store"} /\ push[t].tries \in 1 .. Attempts

Words(ws) == {ws[d] : d \in Documents(ws)}
Covers(ws, e) == \E v \in Words(ws) : e = v \/ e \in seen[v]

(* No last writer wins: what the server holds at a revision is, at the     *)
(* next, still there or replaced by writing that was made over it.         *)
NothingOverwritten ==
    \A n \in 1 .. Len(history) - 1 : \A e \in Words(history[n]) \ {0} :
        Covers(history[n + 1], e)

(* The application never deletes a document: no revision is without one    *)
(* that held an author's words before.                                     *)
DocumentsStay ==
    \A n \in 1 .. Len(history) - 1 : \A d \in Documents(history[n]) :
        history[n][d] # 0 => d \in DOMAIN history[n + 1]

(* The types, and on the server no words and no document are lost between  *)
(* one revision and the next, however two authors' pushes interleave.      *)
WritingInv == TypeOK /\ NothingOverwritten /\ DocumentsStay

(* The base a merge compares with is the workspace of the revision that is *)
(* sent with it, in every tab and in every record a tab may resume from    *)
(* (a first load that failed takes an empty workspace for revision 0).     *)
IsRevision(ws, r) == r < Len(history) /\ history[r + 1] = ws

BaseIsARevision == "load" \notin Suffered =>
    /\ \A t \in Tab : base[t] # None => IsRevision(base[t], rev[t])
    /\ \A v \in Device : cache[v] # None => IsRevision(cache[v].base, cache[v].rev)
    /\ \A t \in Tab : push[t] # None => IsRevision(push[t].base, push[t].rev)

(* "Saved" on an idle screen means that the screen shows what the server   *)
(* was sent, and no more and no less.                                      *)
SavedMeansSaved == \A t \in Tab : Saved(t) => view[t] = base[t]

(* Some revision held these words, or writing over them.                   *)
OnServer(e) == \E n \in DOMAIN history : Covers(history[n], e)

(* "Saved on this device" on an idle screen means that closing it loses no *)
(* words: what they are on the screen, a record that will be saved again   *)
(* holds or the server has held.  (A merge that was saved may be on the    *)
(* screen while a later save, made of the screen before it, has put the    *)
(* words the server added out of the record, and its push has failed.)     *)
UnsyncedIsStored == "load" \notin Suffered =>
    \A t \in Tab : Idle(t) /\ status[t] = "unsynced" =>
        LET record == cache[DeviceOf[t]] IN
        /\ record # None /\ record.pending
        /\ \A e \in Words(view[t]) \ {0} : Covers(record.ws, e) \/ OnServer(e)

(* Writing that reached a device's record never leaves it for nothing: it  *)
(* is replaced by later writing over it, or has been on the server.        *)
(* (After a first load that failed, the empty workspace that was loaded    *)
(* instead may replace it: the second counterexample of the README.)       *)
RecordsKeep ==
    "load" \notin Suffered => \A v \in Device : cache[v] # None =>
        \A e \in Words(cache[v].ws) \ {0} :
           \/ Covers(cache'[v].ws, e)
           \/ \E n \in DOMAIN history' : Covers(history'[n], e)

(* The device keeps what it says it keeps, and keeps it as it goes on.     *)
DeviceKeepsWriting == []UnsyncedIsStored /\ [][RecordsKeep]_vars

(* A conflict copy keeps words that the document it was made from lost     *)
(* sight of: never words that document itself was saved with.              *)
NoNeedlessCopy ==
    \A n \in DOMAIN history : \A x \in Documents(history[n]) \ Doc :
        Original(x) \in DOMAIN history[n] =>
            LET e == history[n][x]
                v == history[n][Original(x)]
            IN e # v /\ e \notin seen[v]

(* Once the author stops, every open tab comes to show "Saved", whatever   *)
(* tab crashed or failed to load meanwhile.  (After a lost request the     *)
(* code waits for an edit or for "online"; SaveNow may give up too.)       *)
Settles == [](Suffered \subseteq {"load", "crash"})
               => <>[](\A t \in Tab : phase[t] = "open" => Saved(t))
=============================================================================
