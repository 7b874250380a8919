-------------------------- MODULE WorkspaceServer --------------------------
(***************************************************************************)
(* The hosted workspace of one author account, as the Worker keeps it in   *)
(* D1 (worker/index.ts).  Every request is served by its own handler, and  *)
(* handlers interleave between any two of their SQL statements: a statement *)
(* (or a batch, which D1 runs as one transaction) is the unit of atomicity, *)
(* so there is one action per statement.                                   *)
(*                                                                         *)
(* Tables are keyed by tenant, and no statement names two tenants, so one  *)
(* tenant is enough.  Whatever the payload parser refuses (400) never      *)
(* reaches a statement and is left out.                                    *)
(***************************************************************************)
EXTENDS Integers

CONSTANTS
    Saver,       \* handlers of PUT /api/workspace
    Reader,      \* handlers of GET /api/workspace, /api/session, /api/archive
    Eraser,      \* handlers of DELETE /api/account
    Mutation,    \* mutation ids the clients draw (random UUIDs)
    Content,     \* workspace states
    Blank,       \* the state of a new workspace
    Namespace,   \* cache namespaces the server draws (random UUIDs)
    NoRow,       \* no row for the tenant
    NoInput      \* a handler without a request

ASSUME BlankAssumption == Blank \in Content

Handler == Saver \cup Reader \cup Eraser

Row     == [ns: Namespace, rev: Nat, state: Content]
Request == [ns: Namespace, base: Nat, mid: Mutation, state: Content]
Receipt == [mid: Mutation, rev: Nat]
Commit  == [ns: Namespace, rev: Nat, mid: Mutation, state: Content]

ASSUME HandlerAssumption ==
    /\ Saver \cap Reader = {} /\ Saver \cap Eraser = {} /\ Reader \cap Eraser = {}
    /\ NoRow \notin Row
    /\ NoInput \notin Request

VARIABLES
    row,        \* author_workspaces
    receipts,   \* workspace_mutations
    pc,         \* the next statement of each handler
    input,      \* the parsed request of each saver
    cur,        \* the row its workspaceFor returned, a local of the handler
    lost,       \* its conditional update changed no row
    answer,     \* what it answered: a kind, and the row or revision in the body
    issued,     \* the namespaces drawn so far
    log         \* history: every conditional update that changed the row

tables == <<row, receipts>>
vars   == <<row, receipts, pc, input, cur, lost, answer, issued, log>>

Steps == {"idle", "select", "insert", "reselect", "lookup", "batch", "won",
          "relookup", "eraseShares", "eraseReceipts", "eraseRow", "done"}

Kinds == {"none", "workspace", "saved", "conflict", "gone", "failed", "erased"}

Init ==
    /\ row = NoRow
    /\ receipts = {}
    /\ pc = [h \in Handler |-> "idle"]
    /\ input = [h \in Saver |-> NoInput]
    /\ cur = [h \in Handler |-> NoRow]
    /\ lost = [h \in Saver |-> FALSE]
    /\ answer = [h \in Handler |-> [kind |-> "none", row |-> NoRow]]
    /\ issued = {}
    /\ log = {}

-----------------------------------------------------------------------------
(* Local bookkeeping of a handler.                                         *)

Goto(h, s) == pc' = [pc EXCEPT ![h] = s]

Reply(h, kind, body) ==
    /\ Goto(h, "done")
    /\ answer' = [answer EXCEPT ![h] = [kind |-> kind, row |-> body]]

Acknowledge(h, rev) ==
    Reply(h, "saved", [ns |-> input[h].ns, rev |-> rev, state |-> input[h].state])

(* What an author's devices may have learnt: a namespace with one of its   *)
(* revisions.  A cached pending change may carry any of them, however old. *)
Known == {<<answer[h].row.ns, answer[h].row.rev>> :
             h \in {g \in Saver \cup Reader :
                      answer[g].kind \in {"workspace", "saved", "conflict"}}}

HasReceipt(mid) == \E t \in receipts : t.mid = mid

-----------------------------------------------------------------------------
(* A save arrives: a new mutation, or the delivery for a second time of a  *)
(* request already sent (the same mutation id with the same body).         *)
SaveArrives(h) ==
    /\ pc[h] = "idle"
    /\ \/ \E k \in Known, m \in Mutation, c \in Content :
            /\ \A g \in Saver : input[g] # NoInput => input[g].mid # m
            /\ input' = [input EXCEPT ![h] =
                           [ns |-> k[1], base |-> k[2], mid |-> m, state |-> c]]
       \/ \E g \in Saver :
            /\ input[g] # NoInput
            /\ input' = [input EXCEPT ![h] = input[g]]
    /\ Goto(h, "select")
    /\ UNCHANGED <<tables, cur, lost, answer, issued, log>>

ReadArrives(h) ==
    /\ pc[h] = "idle"
    /\ Goto(h, "select")
    /\ UNCHANGED <<tables, input, cur, lost, answer, issued, log>>

EraseArrives(h) ==
    /\ pc[h] = "idle"
    /\ Goto(h, "eraseShares")
    /\ UNCHANGED <<tables, input, cur, lost, answer, issued, log>>

-----------------------------------------------------------------------------
(* workspaceFor: select; when there is no row, insert one and select again. *)

Returns(h, r) ==
    /\ cur' = [cur EXCEPT ![h] = r]
    /\ IF h \in Saver /\ ~lost[h]
       THEN Goto(h, "lookup") /\ UNCHANGED answer
       ELSE Reply(h, IF h \in Reader THEN "workspace" ELSE "conflict", r)

Select(h) ==
    /\ pc[h] = "select"
    /\ IF row = NoRow THEN Goto(h, "insert") /\ UNCHANGED <<cur, answer>>
                      ELSE Returns(h, row)
    /\ UNCHANGED <<tables, input, lost, issued, log>>

(* tenant_id is the primary key: the insert of a handler that lost the race *)
(* to create the row throws, and the route answers 503.                    *)
Insert(h) ==
    /\ pc[h] = "insert"
    /\ \E n \in Namespace \ issued :
         /\ issued' = issued \cup {n}
         /\ IF row = NoRow
            THEN LET created == [ns |-> n, rev |-> 0, state |-> Blank] IN
                 /\ row' = created
                 /\ cur' = [cur EXCEPT ![h] = created]
                 /\ Goto(h, "reselect")
                 /\ UNCHANGED answer
            ELSE Reply(h, "failed", NoRow) /\ UNCHANGED <<row, cur>>
    /\ UNCHANGED <<receipts, input, lost, log>>

Reselect(h) ==
    /\ pc[h] = "reselect"
    /\ Returns(h, IF row = NoRow THEN cur[h] ELSE row)
    /\ UNCHANGED <<tables, input, lost, issued, log>>

-----------------------------------------------------------------------------
(* The rest of saveWorkspace.                                              *)

(* The namespace is compared before the receipts are read, the revision    *)
(* after: a mutation already applied is acknowledged whatever came since.  *)
RevisionFirst(h) == HasReceipt(input[h].mid) /\ cur[h].rev = input[h].base  \* mutant
Applied(h) == HasReceipt(input[h].mid)

Lookup(h) ==
    /\ pc[h] = "lookup"
    /\ \/ /\ cur[h].ns # input[h].ns
          /\ Reply(h, "gone", NoRow)
       \/ /\ cur[h].ns = input[h].ns
          /\ Applied(h)
          /\ \E t \in receipts : t.mid = input[h].mid /\ Acknowledge(h, t.rev)
       \/ /\ cur[h].ns = input[h].ns
          /\ ~Applied(h)
          /\ cur[h].rev # input[h].base
          /\ Reply(h, "conflict", cur[h])
       \/ /\ cur[h].ns = input[h].ns
          /\ ~Applied(h)
          /\ cur[h].rev = input[h].base
          /\ Goto(h, "batch") /\ UNCHANGED answer
    /\ UNCHANGED <<tables, input, cur, lost, issued, log>>

(* The update names the tenant and the revision; the receipt is inserted   *)
(* when, after it, the row holds this very state at the next revision.     *)
AnyRevision(h) == row # NoRow  \* mutant: the update names the tenant only
Updates(h) == row # NoRow /\ row.rev = cur[h].rev
Updated(h) == IF Updates(h)
              THEN [ns |-> row.ns, rev |-> cur[h].rev + 1, state |-> input[h].state]
              ELSE row
NoExists(h)  == Updated(h) # NoRow  \* mutant: the receipt is inserted anyhow
NoReceipt(h) == FALSE               \* mutant: no receipt is inserted
Stamps(h)  == /\ Updated(h) # NoRow
              /\ Updated(h).rev = cur[h].rev + 1
              /\ Updated(h).state = input[h].state

Batch(h) ==
    /\ pc[h] = "batch"
    /\ IF Stamps(h) /\ HasReceipt(input[h].mid)
       THEN \* the receipt's primary key is taken: the transaction rolls back
            /\ Reply(h, "failed", NoRow)
            /\ UNCHANGED <<tables, lost, log>>
       ELSE /\ row' = Updated(h)
            /\ receipts' = IF Stamps(h)
                           THEN receipts \cup {[mid |-> input[h].mid, rev |-> cur[h].rev + 1]}
                           ELSE receipts
            /\ IF Updates(h)
               THEN /\ log' = log \cup {[ns |-> row.ns, rev |-> cur[h].rev + 1,
                                         mid |-> input[h].mid, state |-> input[h].state]}
                    /\ Goto(h, "won")
                    /\ UNCHANGED lost
               ELSE /\ lost' = [lost EXCEPT ![h] = TRUE]
                    /\ Goto(h, "relookup")
                    /\ UNCHANGED log
            /\ UNCHANGED answer
    /\ UNCHANGED <<input, cur, issued>>

Won(h) ==
    /\ pc[h] = "won"
    /\ Acknowledge(h, cur[h].rev + 1)
    /\ UNCHANGED <<tables, input, cur, lost, issued, log>>

(* changes # 1: a receipt may have appeared meanwhile; otherwise the latest *)
(* row goes back with the refusal, through workspaceFor once more.         *)
RelookupStale(h) ==  \* mutant: the row read first goes back with the refusal
    /\ pc[h] = "relookup"
    /\ Reply(h, "conflict", cur[h])
    /\ UNCHANGED <<tables, input, cur, lost, issued, log>>

Relookup(h) ==
    /\ pc[h] = "relookup"
    /\ \/ \E t \in receipts : t.mid = input[h].mid /\ Acknowledge(h, t.rev)
       \/ /\ ~HasReceipt(input[h].mid)
          /\ Goto(h, "select") /\ UNCHANGED answer
    /\ UNCHANGED <<tables, input, cur, lost, issued, log>>

-----------------------------------------------------------------------------
(* deleteAccount: three statements, each committed on its own.  The first  *)
(* empties the table of published snapshots, which is not kept here.       *)

EraseShares(h) ==
    /\ pc[h] = "eraseShares"
    /\ Goto(h, "eraseReceipts")
    /\ UNCHANGED <<tables, input, cur, lost, answer, issued, log>>

EraseReceipts(h) ==
    /\ pc[h] = "eraseReceipts"
    /\ receipts' = {}
    /\ Goto(h, "eraseRow")
    /\ UNCHANGED <<row, input, cur, lost, answer, issued, log>>

EraseRow(h) ==
    /\ pc[h] = "eraseRow"
    /\ row' = NoRow
    /\ Reply(h, "erased", NoRow)
    /\ UNCHANGED <<receipts, input, cur, lost, issued, log>>

(* A statement may throw, or the isolate be evicted, before any statement: *)
(* the route answers 503, or nobody, and what was committed stays.         *)
Fail(h) ==
    /\ pc[h] \notin {"idle", "done"}
    /\ Reply(h, "failed", NoRow)
    /\ UNCHANGED <<tables, input, cur, lost, issued, log>>

-----------------------------------------------------------------------------
Workspace(h) == Select(h) \/ Insert(h) \/ Reselect(h)
Save(h)  == SaveArrives(h) \/ Workspace(h) \/ Lookup(h) \/ Batch(h) \/ Won(h) \/ Relookup(h)
Read(h)  == ReadArrives(h) \/ Workspace(h)
Erase(h) == EraseArrives(h) \/ EraseShares(h) \/ EraseReceipts(h) \/ EraseRow(h)

Next ==
    \/ \E h \in Saver  : Save(h)
    \/ \E h \in Reader : Read(h)
    \/ \E h \in Eraser : Erase(h)
    \/ \E h \in Handler : Fail(h)

Spec == Init /\ [][Next]_vars

-----------------------------------------------------------------------------
(* Properties.                                                             *)

Answered(h, kind) == answer[h].kind = kind

(* Types of the tables, of each handler's locals and of what was committed. *)
TypeOK ==
    /\ row \in Row \cup {NoRow}
    /\ receipts \in SUBSET Receipt
    /\ pc \in [Handler -> Steps]
    /\ input \in [Saver -> Request \cup {NoInput}]
    /\ cur \in [Handler -> Row \cup {NoRow}]
    /\ lost \in [Saver -> BOOLEAN]
    /\ answer \in [Handler -> [kind: Kinds, row: Row \cup {NoRow}]]
    /\ issued \in SUBSET Namespace
    /\ log \in SUBSET Commit

(* The compare-and-set of saveWorkspace: within a generation no two saves  *)
(* ever become the same revision, whatever handlers overlap.               *)
OneCommitPerRevision ==
    \A e, f \in log : e.ns = f.ns /\ e.rev = f.rev => e = f

(* A device told "saved at revision n" may drop its pending copy: revision *)
(* n really held the state it sent, through its own commit, a receipt, or  *)
(* the identical concurrent winner saveWorkspace recognises.               *)
AcknowledgedWasCommitted ==
    \A h \in Saver : Answered(h, "saved") =>
        \E e \in log : e.rev = answer[h].row.rev /\ e.state = input[h].state

(* A device told "conflict" rebases its writing under a fresh mutation id: *)
(* the refused mutation must not have taken effect, then or later, or the  *)
(* same writing would enter the workspace twice.                           *)
RefusedNeverCommits ==
    \A h \in Saver : Answered(h, "conflict") =>
        \A e \in log : e.mid # input[h].mid

(* The row sent back with a conflict is one that was really committed and  *)
(* newer than the base of the save, so rebasing on it makes progress.      *)
ConflictMovesForward ==
    \A h \in Saver : Answered(h, "conflict") =>
        /\ answer[h].row.rev > input[h].base
        /\ \E e \in log : /\ e.ns = answer[h].row.ns
                          /\ e.rev = answer[h].row.rev
                          /\ e.state = answer[h].row.state

(* What saveWorkspace says of a stale generation (410): writing sent to a  *)
(* deleted generation of the account never enters the next one.  The       *)
(* namespace is compared on the row read first; the update is conditional  *)
(* on the tenant and the revision number only.                             *)
GenerationIsolation ==
    \A e \in log : \A h \in Saver :
        input[h] # NoInput /\ input[h].mid = e.mid => input[h].ns = e.ns

-----------------------------------------------------------------------------
(* What makes those invariants inductive, in named parts.  The first seven  *)
(* hold for any mix of handlers, the others while no account is deleted.   *)

(* The locals of a handler are those of its place in the code.             *)
LocalsOK ==
    /\ \A h \in Handler : pc[h] \in {"reselect", "lookup", "batch", "won"} => cur[h] # NoRow
    /\ \A h \in Saver : (pc[h] # "idle") <=> (input[h] # NoInput)
    /\ \A h \in Saver : pc[h] \in {"relookup"} => lost[h]
    /\ \A h \in Saver : pc[h] \in {"lookup", "batch", "won"} => ~lost[h]
    /\ \A h \in Handler : pc[h] \in {"lookup", "batch", "won", "relookup"} => h \in Saver
    /\ \A h \in Handler :
          answer[h].kind \in {"workspace", "saved", "conflict"} => answer[h].row # NoRow

(* A handler answers once, at its end.                                     *)
AnswersEndHandlers == \A h \in Handler : pc[h] # "done" => answer[h].kind = "none"

(* A namespace is drawn once, and only drawn namespaces are in the tables. *)
NamespacesDrawn ==
    /\ row # NoRow => row.ns \in issued
    /\ \A e \in log : e.ns \in issued

(* Within the current generation the row is ahead of every commit.         *)
RowIsLatest == row # NoRow => \A e \in log : e.ns = row.ns => e.rev <= row.rev

(* A row is new, or it is what the last commit of its generation wrote.    *)
RowWasCommitted ==
    row # NoRow /\ row.rev # 0 =>
        \E e \in log : e.ns = row.ns /\ e.rev = row.rev /\ e.state = row.state

(* A mutation id stands for one request, however often it is delivered.    *)
OneRequestPerMutation ==
    /\ \A g, h \in Saver : /\ input[g] # NoInput
                           /\ input[h] # NoInput
                           /\ input[g].mid = input[h].mid
                           => input[g] = input[h]
    /\ \A t \in receipts : \E h \in Saver : input[h] # NoInput /\ input[h].mid = t.mid
    /\ \A e \in log : \E h \in Saver : /\ input[h] # NoInput
                                     /\ input[h].mid = e.mid
                                     /\ input[h].state = e.state

(* A receipt, and a won update, name a committed revision with that state. *)
ReceiptsAreEarned ==
    /\ \A t \in receipts : \A h \in Saver :
          input[h] # NoInput /\ input[h].mid = t.mid =>
              \E e \in log : e.rev = t.rev /\ e.state = input[h].state
    /\ \A h \in Saver : pc[h] = "won" =>
          \E e \in log : e.rev = cur[h].rev + 1 /\ e.state = input[h].state

(* While nobody deletes the account its one row only grows.                *)
OneGeneration ==
    /\ \A h \in Handler : cur[h] # NoRow =>
          row # NoRow /\ row.ns = cur[h].ns /\ cur[h].rev <= row.rev
    /\ \A h \in Handler : answer[h].row # NoRow =>
          row # NoRow /\ row.ns = answer[h].row.ns /\ answer[h].row.rev <= row.rev
    /\ \A h \in Saver : input[h] # NoInput =>
          row # NoRow /\ row.ns = input[h].ns /\ input[h].base <= row.rev
    /\ \A e \in log : row # NoRow /\ row.ns = e.ns

(* A commit and its receipt are one transaction.                           *)
CommitsHaveReceipts == \A e \in log : HasReceipt(e.mid)

(* Every row a handler works from is at its request's base or past it, and *)
(* was committed; once the base is passed the request cannot commit.       *)
BasePassed ==
    /\ \A h \in Saver : cur[h] # NoRow => input[h] # NoInput /\ input[h].base <= cur[h].rev
    /\ \A h \in Saver : pc[h] = "batch" => cur[h].rev = input[h].base
    /\ \A h \in Saver : lost[h] \/ Answered(h, "conflict") =>
          input[h] # NoInput /\ row # NoRow /\ row.rev > input[h].base

RowsReadWereCommitted ==
    \A h \in Handler : cur[h] # NoRow /\ cur[h].rev # 0 =>
        \E e \in log : e.ns = cur[h].ns /\ e.rev = cur[h].rev /\ e.state = cur[h].state

(* The refusal is decided when no receipt is found after the lost update,  *)
(* and stands while workspaceFor reads the row to send back with it.       *)
Refusing(h) == lost[h] /\ pc[h] \in {"select", "insert", "reselect"}

RefusalIsFinal ==
    \A h \in Saver : Refusing(h) \/ Answered(h, "conflict") =>
        \A e \in log : e.mid # input[h].mid

ServerInv ==
    /\ TypeOK /\ LocalsOK /\ AnswersEndHandlers /\ NamespacesDrawn /\ RowIsLatest
    /\ RowWasCommitted /\ OneRequestPerMutation /\ ReceiptsAreEarned
    /\ OneCommitPerRevision /\ AcknowledgedWasCommitted

LivingAccountInv ==
    /\ OneGeneration /\ CommitsHaveReceipts /\ BasePassed
    /\ RowsReadWereCommitted /\ RefusalIsFinal /\ ConflictMovesForward

-----------------------------------------------------------------------------
(* The register the handlers implement while the account lives.            *)

Register == INSTANCE RevisionRegister WITH
    latest    <- IF row = NoRow THEN 0 ELSE row.rev,
    committed <- {[rev |-> e.rev, mid |-> e.mid, state |-> e.state] : e \in log},
    acked     <- {<<input[h].mid, answer[h].row.rev, input[h].state>> :
                     h \in {g \in Saver : Answered(g, "saved")}},
    refused   <- {<<input[h].mid, input[h].base, answer[h].row.rev, answer[h].row.state>> :
                     h \in {g \in Saver : Answered(g, "conflict")}}

(* The handlers, statement by statement, implement the numbered register.  *)
ImplementsRegister == Register!RSpec
=============================================================================
