---------------------------- MODULE Conversation ----------------------------
(* The local conversation: pages that share one IndexedDB database, each   *)
(* running the hook useSpecular (src/app/use-specular.ts) over a           *)
(* ConversationService (src/application/conversation-service.ts).          *)
(*                                                                         *)
(* A page has two calls at most in flight: one behind its controls, which  *)
(* are disabled while the hook has an activity, and one for the completed  *)
(* exchanges of a voice session, which are accepted one after the other    *)
(* whatever the controls do.  A call is a program counter: every await of  *)
(* the service that reads or writes the database, or waits for the         *)
(* provider, ends a step, and what a call read it keeps until it writes.   *)
(* Telemetry, titles and the provider's understanding are left out.        *)
EXTENDS LocalRepositories

CONSTANTS Page, MaxThreads, MaxTurns, MaxCapsules,
          GatherRequired,   \* accepted user turns a conclusion needs (2 in the code)
          Environment       \* subset of {"quota", "voice", "reload", "overlap"}

ASSUME ConversationAssumption ==
    /\ {MaxThreads, MaxTurns, MaxCapsules, GatherRequired} \subseteq Nat
    /\ Environment \subseteq {"quota", "voice", "reload", "overlap"}

VARIABLES db,      \* the stores
          call,    \* the call in each slot of each page, or None
          view,    \* what each page shows
          drawn    \* identifiers drawn so far

vars == <<db, call, view, drawn>>

Slot == Page \X {"ui", "voice"}
Ui(p) == <<p, "ui">>
NewCall(op, t, pc, arg) ==
    [op |-> op, thread |-> t, pc |-> pc, arg |-> arg, turn |-> None, snap |-> None,
     listed |-> {}]

EmptyView == [thread |-> None, conclusion |-> None, turns |-> {}, gathered |-> None,
              listening |-> FALSE, capsules |-> {}]
Busy(p) == call[Ui(p)] # None
Ids(store) == {r.id : r \in store}

Positions(rows) == {r.position : r \in rows}
NextPosition(rows) == IF rows = {} THEN 0
                      ELSE 1 + (CHOOSE n \in Positions(rows) : \A m \in Positions(rows) : m <= n)
AppendTwice(ids, id) == Append(ids, id)   \* mutant
AppendTurnId(ids, id) == IF \E i \in DOMAIN ids : ids[i] = id THEN ids ELSE Append(ids, id)
AcceptedTurns(rows) == {r.id : r \in {s \in rows : s.state = "accepted"}}   \* mutant
AcceptedUserTurns(rows) == {r.id : r \in {s \in rows : s.role = "user" /\ s.state = "accepted"}}
IsGatherEligible(accepted) == Cardinality(accepted) >= GatherRequired
MergeUnkeyed(shown, rows) == shown \cup rows   \* mutant
MergeTurns(shown, rows) == {r \in shown : r.id \notin Ids(rows)} \cup rows
Retryable(rows) == {r \in rows : r.role = "user" /\ r.state \in {"failed", "pending"}}
Latest(rows) == CHOOSE r \in rows : \A s \in rows : s.position <= r.position

(* The turns a range of a capsule covers, and what buildCapsule demands.   *)
First(rows) == CHOOSE r \in rows : \A s \in rows : r.position <= s.position
WithinRange(rows, first, last, provenance) ==
    /\ {first, last} \cup provenance \subseteq Ids(rows)
    /\ \A id \in provenance \cup {last} :
          Get(rows, id).position \in Get(rows, first).position .. Get(rows, last).position

(***************************************************************************)
(* How a step of a call ends.                                              *)
(***************************************************************************)
Goto(k, c) == call' = [call EXCEPT ![k] = c] /\ UNCHANGED view
Return(k, v) == /\ call' = [call EXCEPT ![k] = None]
                /\ view' = [view EXCEPT ![k[1]] = v]

(* A call that fails shows its error.  One that already stored the user's  *)
(* turn first marks it failed; one that was about to store it shows the    *)
(* stored turns again.                                                     *)
Refused(k) == LET c == call[k] IN
    /\ UNCHANGED <<db, drawn>>
    /\ IF c.op \in {"submit", "retry"}
       THEN CASE c.pc = "start" -> Return(k, view[k[1]])
              [] c.pc \in {"turn", "thread", "turns", "write", "pending"} ->
                    Goto(k, [c EXCEPT !.pc = "refresh", !.snap = None, !.listed = {}])
              [] OTHER -> Goto(k, [c EXCEPT !.pc = "fail", !.snap = None, !.listed = {}])
       ELSE Return(k, view[k[1]])

Commit(k, allowed, written, then) ==
    \/ allowed /\ db' = written /\ then
    \/ (~allowed \/ "quota" \in Environment) /\ Refused(k)

Draw(kind, n) == drawn' = [drawn EXCEPT ![kind] = @ + n]
Id(kind, n) == drawn[kind] + n

(* Between its reads and its write a call runs alone unless "overlap".     *)
InSection(c) == c # None /\ c.pc \in {"turns", "pending", "write", "turns2", "accept", "source"}
Undisturbed(slots) == "overlap" \in Environment \/ \A j \in slots : ~InSection(call[j])
At(k, pcs) == call[k] # None /\ call[k].pc \in pcs /\ Undisturbed(Slot \ {k})

(***************************************************************************)
(* What the page's controls start.                                         *)
(***************************************************************************)
Pending == Cardinality({k \in Slot : call[k] # None})
RoomForTurns == drawn.turn + 2 * (Pending + 1) <= MaxTurns

Start(p, c) == /\ ~Busy(p)
               /\ call' = [call EXCEPT ![Ui(p)] = c]
               /\ UNCHANGED <<db, view, drawn>>

Submit(p) == /\ RoomForTurns
             /\ view[p].thread = None => drawn.thread < MaxThreads
             /\ Start(p, NewCall("submit", view[p].thread,
                                 IF view[p].thread = None THEN "start" ELSE "thread", None))

Retry(p) == /\ RoomForTurns /\ Retryable(view[p].turns) # {}
            /\ Start(p, NewCall("retry", view[p].thread, "turn",
                                Latest(Retryable(view[p].turns)).id))

Challenge(p) == /\ RoomForTurns /\ view[p].thread # None
                /\ Start(p, NewCall("challenge", view[p].thread, "thread", None))

(* A thread that has a provisional conclusion shows it without a request.  *)
DraftConclusion(p) ==
    /\ view[p].thread # None
    /\ IF view[p].conclusion # None
       THEN /\ ~Busy(p)
            /\ view' = [view EXCEPT ![p].gathered = view[p].conclusion]
            /\ UNCHANGED <<db, call, drawn>>
       ELSE RoomForTurns /\ Start(p, NewCall("conclude", view[p].thread, "thread", None))

KeepDigging(p) ==
    /\ view[p].thread # None /\ view[p].gathered # None
    /\ Start(p, NewCall("keep", view[p].thread, "thread", view[p].gathered))

SaveCapsule(p) ==
    /\ view[p].thread # None /\ view[p].gathered # None /\ drawn.capsule < MaxCapsules
    /\ Start(p, NewCall("save", view[p].thread, "range", view[p].gathered))

Finish(p) ==
    /\ view[p].thread # None /\ view[p].gathered # None
    /\ drawn.capsule < MaxCapsules /\ drawn.thread < MaxThreads
    /\ Start(p, NewCall("finish", view[p].thread, "range", view[p].gathered))

(* The capsule library: continue or branch, test, edit.                    *)
Revisit(p, op) == \E c \in view[p].capsules :
    /\ op # "update" => drawn.thread < MaxThreads
    /\ op = "test" => RoomForTurns
    /\ ~Busy(p)
    /\ call' = [call EXCEPT ![Ui(p)] = NewCall(op, None, "capsule", c)]
    /\ view' = IF op = "update" THEN view ELSE [view EXCEPT ![p].gathered = None]
    /\ UNCHANGED <<db, drawn>>

(* Deletions are a single transaction.                                     *)
DeleteCurrentThread(p) ==
    /\ ~Busy(p) /\ Undisturbed(Slot) /\ view[p].thread # None
    /\ db' = DeleteThread(db, view[p].thread)
    /\ view' = [view EXCEPT ![p] = [EmptyView EXCEPT !.capsules = view[p].capsules]]
    /\ UNCHANGED <<call, drawn>>
DeleteOneCapsule(p) == \E c \in view[p].capsules :
    /\ ~Busy(p) /\ Undisturbed(Slot)
    /\ db' = DeleteCapsule(db, c)
    /\ view' = [view EXCEPT ![p].capsules = @ \ {c}]
    /\ UNCHANGED <<call, drawn>>
DeleteAll(p) == /\ ~Busy(p) /\ Undisturbed(Slot) /\ db # EmptyDb
                /\ db' = DeleteOwnerRows(db)
                /\ view' = [view EXCEPT ![p] = EmptyView]
                /\ UNCHANGED <<call, drawn>>

(* A voice session belongs to the thread it was started in.                *)
Listen(p) == /\ "voice" \in Environment /\ ~Busy(p)
             /\ view[p].thread # None /\ ~view[p].listening
             /\ view' = [view EXCEPT ![p].listening = TRUE]
             /\ UNCHANGED <<db, call, drawn>>
Exchange(p) == /\ view[p].listening /\ call[<<p, "voice">>] = None /\ RoomForTurns
               /\ call' = [call EXCEPT ![<<p, "voice">>] =
                              NewCall("voice", view[p].thread, "thread", None)]
               /\ UNCHANGED <<db, view, drawn>>

(***************************************************************************)
(* The steps of a call.                                                    *)
(***************************************************************************)
StartThread(k) == At(k, {"start"}) /\ LET t == NewThread(Id("thread", 1), None) IN
    Commit(k, TRUE, PutThread(db, t),
           /\ Draw("thread", 1)
           /\ view' = [view EXCEPT ![k[1]].thread = t.id, ![k[1]].conclusion = None]
           /\ call' = [call EXCEPT ![k].thread = t.id, ![k].pc = "thread"])

ReadTurn(k) == At(k, {"turn"}) /\ LET row == Get(db.turns, call[k].arg) IN
    IF row = None \/ row.state = "accepted" THEN Refused(k)
    ELSE /\ Goto(k, [call[k] EXCEPT !.turn = row, !.thread = row.thread, !.pc = "thread"])
         /\ UNCHANGED <<db, drawn>>

ReadRange(k) == At(k, {"range"}) /\ LET rows == TurnsOf(db, call[k].thread) IN
    IF rows = {} THEN Refused(k)
    ELSE /\ Goto(k, [call[k] EXCEPT !.turn = <<First(rows).id, Latest(rows).id>>, !.pc = "thread"])
         /\ UNCHANGED <<db, drawn>>

AfterThread(c) ==
    IF c.pc = "thread2" THEN "turns2"
    ELSE CASE c.op = "retry" -> "pending"
           [] c.op \in {"challenge", "conclude", "test"} -> "context"
           [] OTHER -> "turns"
RequireActiveThread(k) == At(k, {"thread", "thread2"}) /\
    LET c == call[k]  row == Get(db.threads, c.thread) IN
    IF row = None \/ row.state # "active" THEN Refused(k)
    ELSE /\ Goto(k, [c EXCEPT !.snap = row, !.pc = AfterThread(c)])
         /\ UNCHANGED <<db, drawn>>

ListTurns(k) == At(k, {"turns", "turns2"}) /\ LET c == call[k] IN
    /\ Goto(k, [c EXCEPT !.listed = TurnsOf(db, c.thread),
                         !.pc = IF c.pc = "turns2" \/ c.op = "voice" THEN "accept" ELSE "write"])
    /\ UNCHANGED <<db, drawn>>

PersistUserTurn(k) ==
    /\ \/ call[k] # None /\ call[k].op = "submit" /\ At(k, {"write"})
       \/ At(k, {"pending"})
    /\ LET c == call[k]
           turn == IF c.op = "submit"
                   THEN UserTurn(Id("turn", 1), c.thread, NextPosition(c.listed), "pending")
                   ELSE [c.turn EXCEPT !.state = "pending"]
           row == [c.snap EXCEPT !.turnIds = AppendTurnId(@, turn.id)]
       IN  Commit(k, PendingAllowed(row, turn), PersistPendingTurn(db, row, turn),
                  /\ Draw("turn", IF c.op = "submit" THEN 1 ELSE 0)
                  /\ Goto(k, [c EXCEPT !.turn = turn, !.snap = None, !.listed = {},
                                       !.pc = "context"]))

(* buildThreadContext: the listed turns of the thread, refused by the      *)
(* schema when two of them share a position.                               *)
BuildContext(k) == At(k, {"context"}) /\
    LET c == call[k]
        row == Get(db.threads, c.thread)
        turns == {r \in TurnsOf(db, c.thread) : \E i \in DOMAIN row.turnIds : row.turnIds[i] = r.id}
    IN  IF \/ row = None
           \/ \E r, s \in turns : r # s /\ r.position = s.position
           \/ c.op = "conclude" /\ ~IsGatherEligible(AcceptedUserTurns(turns))
        THEN Refused(k)
        ELSE /\ Goto(k, [c EXCEPT !.listed = AcceptedUserTurns(turns), !.snap = None,
                                  !.pc = "provider"])
             /\ UNCHANGED <<db, drawn>>

(* The provider answers, with immediate safety guidance (no conclusion) or *)
(* with notes that cite accepted user turns of the context; or it fails,   *)
(* times out or answers what the validation rejects.                       *)
Answer(k) == At(k, {"provider"}) /\ LET c == call[k] IN
    \/ \E provenance \in {None} \cup (IF c.op = "conclude" THEN SUBSET c.listed \ {{}} ELSE {}) :
          /\ Goto(k, [c EXCEPT !.arg = provenance, !.listed = {}, !.pc = "thread2"])
          /\ UNCHANGED <<db, drawn>>
    \/ Refused(k)

AcceptReply(k) == call[k] # None /\ call[k].op \in {"submit", "retry"} /\ At(k, {"accept"}) /\
    LET c == call[k]  v == view[k[1]]
        user == [c.turn EXCEPT !.state = "accepted"]
        reply == SpecularTurn(Id("turn", 1), c.thread, NextPosition(c.listed), user.id)
        row == [c.snap EXCEPT !.turnIds = AppendTurnId(AppendTurnId(@, user.id), reply.id)]
    IN  Commit(k, ExchangeAllowed(row, user, reply), AcceptExchange(db, row, user, reply),
               /\ Draw("turn", 1)
               /\ Return(k, [v EXCEPT !.thread = row.id, !.conclusion = row.conclusion,
                                      !.turns = MergeTurns(@, {user, reply})]))

AcceptVoice(k) == call[k] # None /\ call[k].op = "voice" /\ At(k, {"accept"}) /\
    LET c == call[k]  v == view[k[1]]
        user == UserTurn(Id("turn", 1), c.thread, NextPosition(c.listed), "accepted")
        reply == SpecularTurn(Id("turn", 2), c.thread, user.position + 1, user.id)
        row == [c.snap EXCEPT !.turnIds = AppendTurnId(AppendTurnId(@, user.id), reply.id)]
    IN  Commit(k, ExchangeAllowed(row, user, reply), AcceptExchange(db, row, user, reply),
               /\ Draw("turn", 2)
               /\ Return(k, IF v.thread # c.thread THEN v
                            ELSE [v EXCEPT !.conclusion = row.conclusion,
                                           !.turns = MergeTurns(@, {user, reply})]))

AcceptSpecular(k) ==
    /\ call[k] # None /\ call[k].op \in {"challenge", "conclude", "test"} /\ At(k, {"accept"})
    /\ LET c == call[k]  v == view[k[1]]
           reply == SpecularTurn(Id("turn", 1), c.thread, NextPosition(c.listed), None)
           row == [c.snap EXCEPT !.turnIds = AppendTurnId(@, reply.id),
                                 !.conclusion = IF c.arg # None THEN c.arg ELSE @]
       IN  Commit(k, SpecularAllowed(row, reply), PersistSpecularTurn(db, row, reply),
                  /\ Draw("turn", 1)
                  /\ Return(k, [v EXCEPT !.thread = row.id, !.conclusion = row.conclusion,
                                         !.gathered = IF c.op = "conclude" THEN c.arg ELSE @,
                                         !.turns = IF c.op = "test" THEN {reply}
                                                   ELSE MergeTurns(@, {reply})]))

(* failUserTurn puts the turn the call holds, whatever is stored by then.  *)
FailUserTurn(k) == At(k, {"fail"}) /\ LET c == call[k] IN
    /\ \/ db' = PutTurn(db, [c.turn EXCEPT !.state = "failed"])
       \/ "quota" \in Environment /\ UNCHANGED db
    /\ Goto(k, [c EXCEPT !.pc = "refresh"])
    /\ UNCHANGED drawn

RefreshSubmitOnly(k) == At(k, {"refresh"}) /\ call[k].op = "submit" /\   \* mutant
    /\ Return(k, [view[k[1]] EXCEPT !.turns = TurnsOf(db, call[k].thread),
                                    !.thread = call[k].thread])
    /\ UNCHANGED <<db, drawn>>
RefreshTurns(k) == At(k, {"refresh"}) /\ LET c == call[k]  v == view[k[1]] IN
    /\ Return(k, [v EXCEPT !.turns = TurnsOf(db, IF c.op = "submit" THEN c.thread ELSE v.thread),
                           !.thread = IF c.op = "submit" THEN c.thread ELSE @])
    /\ UNCHANGED <<db, drawn>>

KeepConclusion(k) == call[k] # None /\ call[k].op = "keep" /\ At(k, {"write"}) /\
    LET c == call[k]  row == [c.snap EXCEPT !.conclusion = c.arg] IN
    Commit(k, c.arg \subseteq AcceptedUserTurns(c.listed), PutThread(db, row),
           /\ Return(k, [view[k[1]] EXCEPT !.thread = row.id, !.conclusion = c.arg,
                                           !.gathered = None])
           /\ UNCHANGED drawn)

BuildCapsule(c) == [id |-> Id("capsule", 1), thread |-> c.thread, first |-> c.turn[1],
                    last |-> c.turn[2], provenance |-> c.arg]
CapsuleAllowed(c) == WithinRange(c.listed, c.turn[1], c.turn[2], c.arg)

StoreCapsule(k) == call[k] # None /\ call[k].op = "save" /\ At(k, {"write"}) /\
    LET c == call[k] IN
    Commit(k, CapsuleAllowed(c), PutCapsule(db, BuildCapsule(c)),
           /\ Draw("capsule", 1)
           /\ Return(k, [view[k[1]] EXCEPT !.capsules = @ \cup {Id("capsule", 1)}]))

SaveAndFinish(k) == call[k] # None /\ call[k].op = "finish" /\ At(k, {"write"}) /\
    LET c == call[k]
        capsule == BuildCapsule(c)
        completed == [c.snap EXCEPT !.state = "completed", !.conclusion = c.arg]
        fresh == NewThread(Id("thread", 1), None)
    IN  Commit(k, CapsuleAllowed(c) /\ FinishAllowed(completed, fresh, capsule),
               FinishAndStart(db, completed, fresh, capsule),
               /\ drawn' = [drawn EXCEPT !.thread = @ + 1, !.capsule = @ + 1]
               /\ Return(k, [EmptyView EXCEPT !.thread = fresh.id,
                                 !.capsules = view[k[1]].capsules \cup {capsule.id}]))

ReadCapsule(k) == At(k, {"capsule"}) /\ LET row == Get(db.capsules, call[k].arg) IN
    IF row = None THEN Refused(k)
    ELSE /\ Goto(k, [call[k] EXCEPT !.snap = row,
                        !.pc = IF call[k].op = "update" THEN "source" ELSE "write"])
         /\ UNCHANGED <<db, drawn>>

ContinueSource(k) == call[k] # None /\ call[k].op \in {"resume", "test"} /\   \* mutant
    At(k, {"write"}) /\ Get(db.threads, call[k].snap.thread) # None /\
    LET t == [Get(db.threads, call[k].snap.thread) EXCEPT !.state = "active"] IN
    Commit(k, TRUE, PutThread(db, t),
           /\ view' = [view EXCEPT ![k[1]].thread = t.id, ![k[1]].turns = TurnsOf(db, t.id)]
           /\ call' = [call EXCEPT ![k] = None] /\ UNCHANGED drawn)
StartFromCapsule(k) == call[k] # None /\ call[k].op \in {"resume", "test"} /\ At(k, {"write"}) /\
    LET c == call[k]  t == NewThread(Id("thread", 1), c.snap.provenance) IN
    Commit(k, TRUE, PutThread(db, t),
           /\ Draw("thread", 1)
           /\ view' = [view EXCEPT ![k[1]] = [EmptyView EXCEPT !.thread = t.id,
                          !.conclusion = t.conclusion, !.capsules = view[k[1]].capsules]]
           /\ call' = [call EXCEPT ![k] = IF c.op = "resume" THEN None
                                          ELSE NewCall("test", t.id, "thread", None)])

(* updateCapsule: the source is checked again before the edit is stored.   *)
CheckSource(k) == At(k, {"source"}) /\
    LET c == call[k]  r == c.snap  rows == TurnsOf(db, r.thread)
        known == IF Get(db.threads, r.thread) = None
                 THEN rows = {} /\ ({r.first, r.last} \cup r.provenance) \cap Ids(db.turns) = {}
                 ELSE WithinRange(rows, r.first, r.last, r.provenance)
    IN  IF known THEN Goto(k, [c EXCEPT !.pc = "write"]) /\ UNCHANGED <<db, drawn>>
        ELSE Refused(k)
UpdateCapsule(k) == call[k] # None /\ call[k].op = "update" /\ At(k, {"write"}) /\
    Commit(k, TRUE, PutCapsule(db, call[k].snap),
           Return(k, view[k[1]]) /\ UNCHANGED drawn)

(* The page is closed and opened again: its calls end where they are.      *)
Load(p, t) == [EmptyView EXCEPT !.capsules = Ids(db.capsules),
                  !.thread = IF t = None THEN None ELSE t.id,
                  !.conclusion = IF t = None THEN None ELSE t.conclusion,
                  !.turns = IF t = None THEN {} ELSE TurnsOf(db, t.id)]
Reload(p) == /\ "reload" \in Environment
             /\ \E t \in IF ActiveThreads(db) = {} THEN {None} ELSE ActiveThreads(db) :
                   view' = [view EXCEPT ![p] = Load(p, t)]
             /\ call' = [k \in Slot |-> IF k[1] = p THEN None ELSE call[k]]
             /\ UNCHANGED <<db, drawn>>

(***************************************************************************)
(* The specification.                                                      *)
(***************************************************************************)
Init == /\ db = EmptyDb
        /\ call = [k \in Slot |-> None]
        /\ view = [p \in Page |-> EmptyView]
        /\ drawn = [thread |-> 0, turn |-> 0, capsule |-> 0]

Progress(k) ==
    \/ StartThread(k) \/ ReadTurn(k) \/ ReadRange(k) \/ RequireActiveThread(k) \/ ListTurns(k)
    \/ PersistUserTurn(k) \/ BuildContext(k) \/ Answer(k)
    \/ AcceptReply(k) \/ AcceptVoice(k) \/ AcceptSpecular(k) \/ FailUserTurn(k) \/ RefreshTurns(k)
    \/ KeepConclusion(k) \/ StoreCapsule(k) \/ SaveAndFinish(k)
    \/ ReadCapsule(k) \/ StartFromCapsule(k) \/ CheckSource(k) \/ UpdateCapsule(k)

Next == \/ \E p \in Page :
              \/ Submit(p) \/ Retry(p) \/ Challenge(p) \/ DraftConclusion(p)
              \/ KeepDigging(p) \/ SaveCapsule(p) \/ Finish(p)
              \/ \E op \in {"resume", "test", "update"} : Revisit(p, op)
              \/ DeleteCurrentThread(p) \/ DeleteOneCapsule(p) \/ DeleteAll(p)
              \/ Listen(p) \/ Exchange(p) \/ Reload(p)
        \/ \E k \in Slot : Progress(k)

Spec == Init /\ [][Next]_vars
(* Requests settle: IndexedDB completes its transactions and a request to  *)
(* the provider is aborted after fifteen seconds.  Fairness is strong only *)
(* because a call waits for the section of another without "overlap".      *)
FairSpec == Spec /\ \A k \in Slot : SF_vars(Progress(k))

(***************************************************************************)
(* Properties.                                                             *)
(***************************************************************************)

(* The stores hold rows with distinct identifiers, none beyond those       *)
(* drawn, and a page's view is of the shape the hook gives it              *)
(* (SpecularViewModel, use-specular.ts:101).                               *)
TypeOK ==
    /\ \A kind \in {"thread", "turn", "capsule"} : drawn[kind] \in Nat
    /\ Ids(db.threads) \subseteq 1..drawn.thread /\ Cardinality(Ids(db.threads)) = Cardinality(db.threads)
    /\ Ids(db.turns) \subseteq 1..drawn.turn /\ Cardinality(Ids(db.turns)) = Cardinality(db.turns)
    /\ Ids(db.capsules) \subseteq 1..drawn.capsule
    /\ \A p \in Page : view[p].thread \in {None} \cup 1..drawn.thread

(* Whatever was called, failed, reloaded or deleted, what is stored passes *)
(* the integrity check of an export, which would otherwise refuse every    *)
(* later export of the database (parseSpecularExport, export.ts:371): no    *)
(* call in flight writes a turn of a deleted thread, none is lost from its *)
(* thread's list or listed twice, and positions are as distinct as drawn.  *)
AlwaysExportable == Exportable(db)

(* As long as its thread is stored, a capsule cites only turns the user    *)
(* wrote and Specular accepted, within its range (buildCapsule,            *)
(* updateCapsule).                                                         *)
CapsulesGrounded == \A c \in db.capsules :
    LET rows == TurnsOf(db, c.thread) IN
    Get(db.threads, c.thread) # None =>
        /\ \A r \in rows : r.id \in c.provenance => r.role = "user" /\ r.state = "accepted"
        /\ WithinRange(rows, c.first, c.last, c.provenance)

(* The three invariants of the stores, whatever was called, failed,        *)
(* reloaded or deleted in whatever order (conversation-service.ts).        *)
ConversationInv == TypeOK /\ AlwaysExportable /\ CapsulesGrounded

(* A user turn is accepted exactly when one reply to it is stored: a       *)
(* retry, a reload between the answer and the write, or a voice exchange   *)
(* in between never leaves two replies or an accepted turn without one     *)
(* (acceptExchange, failUserTurn).                                         *)
OneReplyEach == \A r \in db.turns : r.role = "user" =>
    Cardinality({s \in db.turns : s.to = r.id}) = IF r.state = "accepted" THEN 1 ELSE 0

(* When no call of a page is in flight it shows the thread and the turns   *)
(* as they are stored, after any mixture of failures, voice exchanges and  *)
(* activations (the setView of every operation of use-specular.ts).        *)
ShownIsStored == \A p \in Page :
    (\A k \in Slot : k[1] = p => call[k] = None) =>
        IF view[p].thread = None THEN view[p].turns = {}
        ELSE /\ view[p].thread \in Ids(ActiveThreads(db))
             /\ view[p].turns = TurnsOf(db, view[p].thread)
             /\ view[p].conclusion = Get(db.threads, view[p].thread).conclusion
             /\ view[p].capsules = Ids(db.capsules)

(* A finished thread is never written again, only deleted: no answer or    *)
(* exchange that was under way when it finished reaches it                 *)
(* (requireActiveThread before every write of an answer).                  *)
FinishedIsFinal == [][\A t \in db.threads : t.state = "completed" =>
    \/ Get(db'.threads, t.id) = None /\ TurnsOf(db', t.id) = {}
    \/ t \in db'.threads /\ TurnsOf(db', t.id) = TurnsOf(db, t.id)]_vars

(* Every call ends, so the controls are enabled again whatever failed      *)
(* (activity: null on every path of use-specular.ts).                      *)
CallsEnd == \A k \in Slot : call[k] # None ~> call[k] = None
=============================================================================
