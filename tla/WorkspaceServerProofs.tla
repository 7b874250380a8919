----------------------- MODULE WorkspaceServerProofs -----------------------
(***************************************************************************)
(* Theorems about WorkspaceServer, for any handlers, mutations, contents   *)
(* and namespaces.                                                         *)
(***************************************************************************)
EXTENDS WorkspaceServer, TLAPS

-----------------------------------------------------------------------------
(* A save that arrives carries a well-formed request, new or sent before.  *)
LEMMA ArrivalType ==
    ASSUME TypeOK, LocalsOK, NEW h \in Saver, SaveArrives(h)
    PROVE  \E q \in Request :
             /\ input' = [input EXCEPT ![h] = q]
             /\ \/ /\ \A g \in Saver : input[g] # NoInput => input[g].mid # q.mid
                   /\ <<q.ns, q.base>> \in Known
                \/ \E g \in Saver : input[g] = q
<1>1. ASSUME NEW k \in Known
      PROVE  k = <<k[1], k[2]>> /\ k[1] \in Namespace /\ k[2] \in Nat
  <2>1. PICK g \in Saver \cup Reader : /\ answer[g].kind \in {"workspace", "saved", "conflict"}
                                       /\ k = <<answer[g].row.ns, answer[g].row.rev>>
    BY DEF Known
  <2>2. answer[g].row \in Row
    BY <2>1 DEF LocalsOK, TypeOK, Handler
  <2> QED BY <2>1, <2>2 DEF Row
<1>2. CASE \E g \in Saver : input[g] # NoInput /\ input' = [input EXCEPT ![h] = input[g]]
  BY <1>2 DEF TypeOK
<1>3. ASSUME NEW k \in Known, NEW m \in Mutation, NEW c \in Content,
             \A g \in Saver : input[g] # NoInput => input[g].mid # m,
             input' = [input EXCEPT ![h] =
                          [ns |-> k[1], base |-> k[2], mid |-> m, state |-> c]]
      PROVE  \E q \in Request :
               /\ input' = [input EXCEPT ![h] = q]
               /\ \A g \in Saver : input[g] # NoInput => input[g].mid # q.mid
               /\ <<q.ns, q.base>> \in Known
  <2>1. [ns |-> k[1], base |-> k[2], mid |-> m, state |-> c] \in Request
    BY <1>1 DEF Request
  <2> QED BY <1>1, <1>3, <2>1
<1> QED BY <1>2, <1>3 DEF SaveArrives

-----------------------------------------------------------------------------
(* Every statement of the Worker leaves the tables, the handlers' locals   *)
(* and the answers in their types.                                         *)
LEMMA TypeStep == TypeOK /\ LocalsOK /\ [Next]_vars => TypeOK'
<1> SUFFICES ASSUME TypeOK, LocalsOK, [Next]_vars PROVE TypeOK'
  OBVIOUS
<1> DEFINE Answers == [kind: Kinds, row: Row \cup {NoRow}]
           Untouched == UNCHANGED <<tables, input, cur, lost, issued, log>>
<1>a. \A h \in Handler, s \in Steps : Goto(h, s) => pc' \in [Handler -> Steps]
  BY DEF Goto, TypeOK
<1>b. \A h \in Handler, kind \in Kinds, body \in Row \cup {NoRow} :
        Reply(h, kind, body) => pc' \in [Handler -> Steps] /\ answer' \in [Handler -> Answers]
  BY DEF Goto, Reply, Steps, TypeOK
<1>c. \A h \in Saver, n \in Nat : input[h] \in Request /\ Acknowledge(h, n) =>
        pc' \in [Handler -> Steps] /\ answer' \in [Handler -> Answers]
  BY <1>b DEF Acknowledge, Request, Row, Kinds, Handler
<1>d. pc' \in [Handler -> Steps] /\ (UNCHANGED answer \/ answer' \in [Handler -> Answers]) /\ Untouched
        => TypeOK'
  BY DEF TypeOK, tables
<1> HIDE DEF Answers
<1> USE DEF Handler
<1>1. ASSUME NEW h \in Saver, SaveArrives(h) PROVE TypeOK'
  <2>2. input' \in [Saver -> Request \cup {NoInput}]
    BY <1>1, ArrivalType DEF TypeOK
  <2> QED BY <1>1, <1>a, <2>2 DEF SaveArrives, TypeOK, tables, Steps
<1>2. ASSUME NEW h \in Handler, NEW r \in Row, Returns(h, r),
             UNCHANGED <<tables, input, lost, issued, log>>
      PROVE  TypeOK'
  <2>1. cur' \in [Handler -> Row \cup {NoRow}]
    BY <1>2 DEF Returns, TypeOK
  <2>2. CASE h \in Saver /\ ~lost[h]
    BY <1>a, <1>2, <2>1, <2>2 DEF Returns, TypeOK, Steps, tables
  <2>3. CASE ~(h \in Saver /\ ~lost[h])
    BY <1>b, <1>2, <2>1, <2>3 DEF Returns, TypeOK, Kinds, tables, Answers
  <2> QED BY <2>2, <2>3
<1>3. ASSUME NEW h \in Handler, Select(h) PROVE TypeOK'
  <2>1. CASE row = NoRow
    BY <1>a, <1>d, <1>3, <2>1 DEF Select, Steps
  <2>2. CASE row # NoRow
    BY <1>2, <1>3, <2>2 DEF Select, TypeOK
  <2> QED BY <2>1, <2>2
<1>4. ASSUME NEW h \in Handler, Insert(h) PROVE TypeOK'
  <2>1. PICK n \in Namespace \ issued : issued' = issued \cup {n} /\ Insert(h)!2!(n)
    BY <1>4 DEF Insert
  <2>2. CASE row = NoRow
    <3>1. [ns |-> n, rev |-> 0, state |-> Blank] \in Row
      BY BlankAssumption DEF Row
    <3> QED BY <1>a, <1>4, <2>1, <2>2, <3>1 DEF Insert, TypeOK, Steps
  <2>3. CASE row # NoRow
    BY <1>b, <1>4, <2>1, <2>3 DEF Insert, TypeOK, Kinds, Answers
  <2> QED BY <2>2, <2>3
<1>5. ASSUME NEW h \in Handler, Reselect(h) PROVE TypeOK'
  <2>1. cur[h] \in Row
    BY <1>5 DEF Reselect, LocalsOK, TypeOK
  <2> QED BY <1>2, <1>5, <2>1 DEF Reselect, TypeOK
<1>6. ASSUME NEW h \in Saver, Lookup(h) PROVE TypeOK'
  <2>1. input[h] \in Request /\ cur[h] \in Row
    BY <1>6 DEF Lookup, LocalsOK, TypeOK
  <2>2. \A t \in receipts : t.rev \in Nat
    BY DEF TypeOK, Receipt
  <2>3. {"gone", "conflict"} \subseteq Kinds /\ "batch" \in Steps
    BY DEF Kinds, Steps
  <2> QED BY <1>a, <1>b, <1>c, <1>d, <1>6, <2>1, <2>2, <2>3 DEF Lookup
<1>7. ASSUME NEW h \in Saver, Batch(h) PROVE TypeOK'
  <2>1. input[h] \in Request /\ cur[h] \in Row
    BY <1>7 DEF Batch, LocalsOK, TypeOK
  <2>2. Updated(h) \in Row \cup {NoRow}
    BY <2>1 DEF Updated, Updates, TypeOK, Row, Request
  <2>3. /\ [mid |-> input[h].mid, rev |-> cur[h].rev + 1] \in Receipt
        /\ Updates(h) => [ns |-> row.ns, rev |-> cur[h].rev + 1,
                          mid |-> input[h].mid, state |-> input[h].state] \in Commit
    BY <2>1 DEF Updates, TypeOK, Row, Request, Receipt, Commit
  <2>4. "failed" \in Kinds /\ {"won", "relookup"} \subseteq Steps
    BY DEF Kinds, Steps
  <2>5. CASE Stamps(h) /\ HasReceipt(input[h].mid)
    BY <1>b, <1>d, <1>7, <2>4, <2>5 DEF Batch
  <2>6. CASE ~(Stamps(h) /\ HasReceipt(input[h].mid))
    BY <1>a, <1>7, <2>2, <2>3, <2>4, <2>6 DEF Batch, TypeOK
  <2> QED BY <2>5, <2>6
<1>8. ASSUME NEW h \in Saver, Won(h) PROVE TypeOK'
  <2>1. input[h] \in Request /\ cur[h] \in Row
    BY <1>8 DEF Won, LocalsOK, TypeOK
  <2>2. cur[h].rev + 1 \in Nat
    BY <2>1 DEF Row
  <2> QED BY <1>c, <1>d, <1>8, <2>1, <2>2 DEF Won
<1>9. ASSUME NEW h \in Saver, Relookup(h) PROVE TypeOK'
  <2>1. input[h] \in Request
    BY <1>9 DEF Relookup, LocalsOK, TypeOK
  <2>2. \A t \in receipts : t.rev \in Nat
    BY DEF TypeOK, Receipt
  <2> QED BY <1>a, <1>c, <1>d, <1>9, <2>1, <2>2 DEF Relookup, Steps
<1>10. ASSUME NEW h \in Eraser, Erase(h) PROVE TypeOK'
  <2>1. CASE EraseRow(h)
    BY <1>b, <2>1 DEF EraseRow, TypeOK, Kinds, Answers
  <2>2. CASE EraseReceipts(h)
    BY <1>a, <2>2 DEF EraseReceipts, TypeOK, Steps
  <2>3. CASE EraseArrives(h) \/ EraseShares(h)
    BY <1>a, <1>d, <2>3 DEF EraseArrives, EraseShares, Steps
  <2> QED BY <1>10, <2>1, <2>2, <2>3 DEF Erase
<1>11. ASSUME NEW h \in Reader, ReadArrives(h) PROVE TypeOK'
  BY <1>a, <1>d, <1>11 DEF ReadArrives, Steps
<1>12. ASSUME NEW h \in Handler, Fail(h) PROVE TypeOK'
  BY <1>b, <1>d, <1>12 DEF Fail, Kinds
<1>13. CASE UNCHANGED vars
  BY <1>13 DEF vars, tables, TypeOK
<1> QED
  BY <1>1, <1>3, <1>4, <1>5, <1>6, <1>7, <1>8, <1>9, <1>10, <1>11, <1>12, <1>13
  DEF Next, Save, Read, Workspace

-----------------------------------------------------------------------------
(* A handler's locals are always those of its place in the code.           *)
LEMMA LocalsStep == TypeOK /\ LocalsOK /\ [Next]_vars => LocalsOK'
<1> SUFFICES ASSUME TypeOK, LocalsOK, [Next]_vars PROVE LocalsOK'
  OBVIOUS
<1>a. \A h \in Saver, n \in Nat : input[h] # NoInput =>
        [ns |-> input[h].ns, rev |-> n, state |-> input[h].state] # NoRow
  <2> SUFFICES ASSUME NEW h \in Saver, NEW n \in Nat, input[h] # NoInput
               PROVE  [ns |-> input[h].ns, rev |-> n, state |-> input[h].state] \in Row
    BY HandlerAssumption
  <2> QED BY DEF TypeOK, Row, Request
<1>b. \A n \in Namespace : [ns |-> n, rev |-> 0, state |-> Blank] # NoRow
  <2> SUFFICES ASSUME NEW n \in Namespace PROVE [ns |-> n, rev |-> 0, state |-> Blank] \in Row
    BY HandlerAssumption
  <2> QED BY BlankAssumption DEF Row
<1>c. \A h \in Saver : cur[h] # NoRow => cur[h].rev + 1 \in Nat
  BY DEF TypeOK, Row, Handler
<1>d. \A t \in receipts : t.rev \in Nat
  BY DEF TypeOK, Receipt
<1> USE DEF LocalsOK, Handler, Goto, Reply
<1>1. ASSUME NEW h \in Saver, SaveArrives(h) PROVE LocalsOK'
  <2>1. input' = [input EXCEPT ![h] = input'[h]] /\ input'[h] \in Request
    BY <1>1, ArrivalType, ZenonT(40) DEF TypeOK
  <2>2. input'[h] # NoInput
    BY <2>1, HandlerAssumption
  <2> QED BY <1>1, <2>1, <2>2, HandlerAssumption DEF SaveArrives, TypeOK
<1>2. ASSUME NEW h \in Saver \cup Reader, Workspace(h) PROVE LocalsOK'
  <2>1. CASE Select(h)
    BY <2>1, HandlerAssumption DEF Select, Returns, TypeOK
  <2>2. CASE Insert(h)
    <3>1. CASE row = NoRow
      BY <1>b, <2>2, <3>1, HandlerAssumption DEF Insert, TypeOK
    <3>2. CASE row # NoRow
      BY <2>2, <3>2, HandlerAssumption DEF Insert, TypeOK
    <3> QED BY <3>1, <3>2
  <2>3. CASE Reselect(h)
    BY <2>3, HandlerAssumption DEF Reselect, Returns, TypeOK
  <2> QED BY <1>2, <2>1, <2>2, <2>3 DEF Workspace
<1>6. ASSUME NEW h \in Saver, Lookup(h) PROVE LocalsOK'
  BY <1>a, <1>d, <1>6, HandlerAssumption DEF Lookup, Acknowledge, TypeOK
<1>7. ASSUME NEW h \in Saver, Batch(h) PROVE LocalsOK'
  BY <1>7, HandlerAssumption, SMTT(20) DEF Batch, TypeOK
<1>8. ASSUME NEW h \in Saver, Won(h) PROVE LocalsOK'
  BY <1>a, <1>c, <1>8, HandlerAssumption DEF Won, Acknowledge, TypeOK
<1>9. ASSUME NEW h \in Saver, Relookup(h) PROVE LocalsOK'
  BY <1>a, <1>d, <1>9, HandlerAssumption DEF Relookup, Acknowledge, TypeOK
<1>10. ASSUME NEW h \in Eraser, Erase(h) PROVE LocalsOK'
  BY <1>10, HandlerAssumption DEF Erase, EraseArrives, EraseShares, EraseReceipts, EraseRow, TypeOK
<1>11. ASSUME NEW h \in Reader, ReadArrives(h) PROVE LocalsOK'
  BY <1>11, HandlerAssumption DEF ReadArrives, TypeOK
<1>12. ASSUME NEW h \in Handler, Fail(h) PROVE LocalsOK'
  BY <1>12, HandlerAssumption DEF Fail, TypeOK
<1>13. CASE UNCHANGED vars
  BY <1>13 DEF vars, tables
<1> QED
  BY <1>1, <1>2, <1>6, <1>7, <1>8, <1>9, <1>10, <1>11, <1>12, <1>13
  DEF Next, Save, Read

-----------------------------------------------------------------------------
(* The compare-and-set: a commit is one past the row's revision, and a     *)
(* deleted namespace is never the row's again.                             *)
LEMMA TablesStep ==
    ASSUME TypeOK, LocalsOK, NamespacesDrawn, RowIsLatest, RowWasCommitted,
           OneCommitPerRevision, [Next]_vars
    PROVE  NamespacesDrawn' /\ RowIsLatest' /\ RowWasCommitted' /\ OneCommitPerRevision'
<1> DEFINE Tables == NamespacesDrawn /\ RowIsLatest /\ RowWasCommitted /\ OneCommitPerRevision
<1> USE DEF NamespacesDrawn, RowIsLatest, RowWasCommitted, OneCommitPerRevision
<1>1. ASSUME UNCHANGED <<row, issued, log>> PROVE Tables'
  BY <1>1
<1>2. ASSUME NEW h \in Handler, Insert(h) PROVE Tables'
  <2>1. PICK n \in Namespace \ issued :
           /\ issued' = issued \cup {n}
           /\ row = NoRow => row' = [ns |-> n, rev |-> 0, state |-> Blank]
           /\ row # NoRow => row' = row
    BY <1>2 DEF Insert
  <2>2. log' = log
    BY <1>2 DEF Insert
  <2> QED BY <2>1, <2>2
<1>3. ASSUME NEW h \in Saver, Batch(h) PROVE Tables'
  <2>1. cur[h] \in Row /\ input[h] \in Request /\ issued' = issued
    BY <1>3 DEF Batch, LocalsOK, TypeOK, Handler
  <2>2. CASE row' = row /\ log' = log
    BY <2>1, <2>2
  <2>3. CASE Updates(h) /\ row' = Updated(h)
             /\ log' = log \cup {[ns |-> row.ns, rev |-> cur[h].rev + 1,
                                 mid |-> input[h].mid, state |-> input[h].state]}
    <3>1. /\ row # NoRow /\ row \in Row /\ row.rev \in Nat /\ row.rev = cur[h].rev
          /\ row' = [ns |-> row.ns, rev |-> row.rev + 1, state |-> input[h].state]
          /\ log' = log \cup {[ns |-> row.ns, rev |-> row.rev + 1,
                              mid |-> input[h].mid, state |-> input[h].state]}
      BY <2>3 DEF Updates, Updated, TypeOK, Row
    <3>2. \A e \in log : e.ns = row.ns =>
              e.rev \in Nat /\ e.rev <= row.rev + 1 /\ e.rev # row.rev + 1
      BY <3>1 DEF TypeOK, Commit
    <3>3. NamespacesDrawn' /\ RowWasCommitted'
      <4>1. row'.ns = row.ns /\ row'.rev = row.rev + 1 /\ row'.state = input[h].state
        BY <3>1
      <4>2. \E e \in log' : e.ns = row.ns /\ e.rev = row.rev + 1 /\ e.state = input[h].state
        <5> DEFINE new == [ns |-> row.ns, rev |-> row.rev + 1,
                           mid |-> input[h].mid, state |-> input[h].state]
        <5>1. new.ns = row.ns /\ new.rev = row.rev + 1 /\ new.state = input[h].state
          OBVIOUS
        <5>2. new \in log'
          BY <3>1
        <5> QED BY <5>1, <5>2
      <4>3. \A e \in log' : e \in log \/ e.ns = row.ns
        BY <3>1
      <4>4. RowWasCommitted'
        BY <4>1, <4>2
      <4> QED BY <2>1, <3>1, <4>1, <4>3, <4>4
    <3>4. RowIsLatest'
      <4>1. row'.ns = row.ns /\ row'.rev = row.rev + 1
        BY <3>1
      <4>2. \A e \in log' : e \in log \/ e.rev = row.rev + 1
        BY <3>1
      <4> QED BY <3>1, <3>2, <4>1, <4>2
    <3>5. OneCommitPerRevision'
      BY <3>1, <3>2
    <3> QED BY <3>3, <3>4, <3>5
  <2> QED BY <1>3, <2>2, <2>3 DEF Batch, Updated, tables
<1>4. ASSUME NEW h \in Eraser, EraseRow(h) PROVE Tables'
  BY <1>4 DEF EraseRow
<1>5. UNCHANGED <<row, issued, log>> \/ (\E h \in Handler : Insert(h))
        \/ (\E h \in Saver : Batch(h)) \/ (\E h \in Eraser : EraseRow(h))
  BY DEF Next, Save, Read, Erase, Workspace, Handler, vars, tables, SaveArrives, ReadArrives,
         EraseArrives, Select, Reselect, Lookup, Won, Relookup, EraseShares, EraseReceipts, Fail
<1> QED BY <1>1, <1>2, <1>3, <1>4, <1>5

-----------------------------------------------------------------------------
(* A mutation id keeps standing for one request.                           *)
LEMMA RequestStep ==
    ASSUME TypeOK, LocalsOK, OneRequestPerMutation, [Next]_vars
    PROVE  OneRequestPerMutation'
<1> USE DEF OneRequestPerMutation
<1>1. ASSUME input' = input, log' = log, receipts' \subseteq receipts
      PROVE  OneRequestPerMutation'
  BY <1>1
<1>2. ASSUME NEW h \in Saver, SaveArrives(h) PROVE OneRequestPerMutation'
  <2>1. PICK q \in Request :
             /\ input' = [input EXCEPT ![h] = q]
             /\ \/ \A g \in Saver : input[g] # NoInput => input[g].mid # q.mid
                \/ \E g \in Saver : input[g] = q
    BY <1>2, ArrivalType, ZenonT(40)
  <2>2. input[h] = NoInput /\ q # NoInput /\ UNCHANGED <<receipts, log>>
    BY <1>2, HandlerAssumption DEF SaveArrives, LocalsOK, tables
  <2>3. \A g \in Saver : input'[g] = IF g = h THEN q ELSE input[g]
    BY <2>1 DEF TypeOK
  <2> QED BY <2>1, <2>2, <2>3
<1>3. ASSUME NEW h \in Saver, Batch(h) PROVE OneRequestPerMutation'
  <2>1. input[h] \in Request /\ input[h] # NoInput /\ input' = input
    BY <1>3 DEF Batch, LocalsOK, TypeOK
  <2>2. \A t \in receipts' : t \in receipts \/ t.mid = input[h].mid
    BY <1>3 DEF Batch, tables
  <2>3. \A e \in log' : e \in log \/ (e.mid = input[h].mid /\ e.state = input[h].state)
    BY <1>3 DEF Batch
  <2> QED BY <2>1, <2>2, <2>3
<1>4. (input' = input /\ log' = log /\ receipts' \subseteq receipts)
        \/ (\E h \in Saver : SaveArrives(h)) \/ (\E h \in Saver : Batch(h))
  BY DEF Next, Save, Read, Erase, Workspace, vars, tables, ReadArrives, EraseArrives, Select,
         Insert, Reselect, Lookup, Won, Relookup, EraseShares, EraseReceipts, EraseRow, Fail
<1> QED BY <1>1, <1>2, <1>3, <1>4

-----------------------------------------------------------------------------
(* A handler answers once, at its end.                                     *)
LEMMA AnswerStep ==
    ASSUME TypeOK, AnswersEndHandlers, [Next]_vars
    PROVE  AnswersEndHandlers'
<1> USE DEF AnswersEndHandlers
<1>1. ASSUME UNCHANGED <<pc, answer>> PROVE AnswersEndHandlers'
  BY <1>1
<1>2. ASSUME NEW h \in Handler, NEW s \in Steps \ {"done"}, pc[h] # "done",
             Goto(h, s), UNCHANGED answer
      PROVE  AnswersEndHandlers'
  BY <1>2 DEF Goto, TypeOK
<1>3. ASSUME NEW h \in Handler, NEW k, NEW r, Reply(h, k, r) PROVE AnswersEndHandlers'
  BY <1>3 DEF Goto, Reply, TypeOK
<1>4. ASSUME NEW h \in Saver, NEW n, Acknowledge(h, n) PROVE AnswersEndHandlers'
  BY <1>3, <1>4 DEF Acknowledge, Handler
<1>5. ASSUME NEW h \in Handler, NEW r, pc[h] # "done", Returns(h, r) PROVE AnswersEndHandlers'
  BY <1>2, <1>3, <1>5 DEF Returns, Steps
<1>6. ASSUME NEW h \in Handler, Workspace(h) PROVE AnswersEndHandlers'
  BY <1>2, <1>3, <1>5, <1>6 DEF Workspace, Select, Insert, Reselect, Steps
<1>7. ASSUME NEW h \in Saver, Save(h) PROVE AnswersEndHandlers'
  BY <1>2, <1>3, <1>4, <1>6, <1>7
  DEF Save, SaveArrives, Lookup, Batch, Won, Relookup, Steps, Handler
<1>8. ASSUME NEW h \in Reader, Read(h) PROVE AnswersEndHandlers'
  BY <1>2, <1>6, <1>8 DEF Read, ReadArrives, Steps, Handler
<1>9. ASSUME NEW h \in Eraser, Erase(h) PROVE AnswersEndHandlers'
  BY <1>2, <1>3, <1>9 DEF Erase, EraseArrives, EraseShares, EraseReceipts, EraseRow, Steps, Handler
<1>10. ASSUME NEW h \in Handler, Fail(h) PROVE AnswersEndHandlers'
  BY <1>3, <1>10 DEF Fail
<1> QED BY <1>1, <1>7, <1>8, <1>9, <1>10 DEF Next, vars

-----------------------------------------------------------------------------
(* Receipts are inserted for committed states only, and every              *)
(* acknowledgement comes from a receipt or from the handler's own commit.  *)
LEMMA ReceiptStep ==
    ASSUME TypeOK, LocalsOK, AnswersEndHandlers, RowWasCommitted, OneRequestPerMutation,
           ReceiptsAreEarned, AcknowledgedWasCommitted, [Next]_vars
    PROVE  ReceiptsAreEarned' /\ AcknowledgedWasCommitted'
<1> USE DEF Answered
<1> DEFINE Earned == ReceiptsAreEarned' /\ AcknowledgedWasCommitted'
           Kept(h) == /\ input' = input /\ log' = log /\ receipts' \subseteq receipts
                      /\ pc'[h] # "won"
                      /\ \A g \in Handler \ {h} : pc'[g] = pc[g] /\ cur'[g] = cur[g]
                                                  /\ answer'[g] = answer[g]
<1>1. ASSUME UNCHANGED vars PROVE Earned
  BY <1>1 DEF vars, ReceiptsAreEarned, AcknowledgedWasCommitted
<1>2. ASSUME NEW h \in Handler, Kept(h),
             h \in Saver /\ answer'[h].kind = "saved" =>
                \E e \in log : e.rev = answer'[h].row.rev /\ e.state = input[h].state
      PROVE  Earned
  BY <1>2 DEF ReceiptsAreEarned, AcknowledgedWasCommitted, Handler
<1>3. ASSUME NEW h \in Saver, SaveArrives(h) PROVE Earned
  <2>1. PICK q \in Request :
             /\ input' = [input EXCEPT ![h] = q]
             /\ \/ \A g \in Saver : input[g] # NoInput => input[g].mid # q.mid
                \/ \E g \in Saver : input[g] = q
    BY <1>3, ArrivalType
  <2>2. /\ answer[h].kind = "none" /\ UNCHANGED <<receipts, log, answer, cur>>
        /\ pc' = [pc EXCEPT ![h] = "select"] /\ q # NoInput
    BY <1>3, HandlerAssumption DEF SaveArrives, AnswersEndHandlers, tables, Goto, Handler
  <2>3. \A g \in Saver : input'[g] = IF g = h THEN q ELSE input[g]
    BY <2>1 DEF TypeOK
  <2>4. AcknowledgedWasCommitted'
    BY <2>2, <2>3 DEF AcknowledgedWasCommitted, Handler
  <2>5. ASSUME NEW t \in receipts, t.mid = q.mid
        PROVE  \E g \in Saver : input[g] = q
    BY <2>1, <2>5 DEF OneRequestPerMutation
  <2>6. \A g \in Saver : pc'[g] = "won" => g # h /\ pc[g] = "won"
    BY <2>2 DEF TypeOK, Handler
  <2> QED BY <2>2, <2>3, <2>4, <2>5, <2>6 DEF ReceiptsAreEarned
<1>4. ASSUME NEW h \in Saver, Batch(h) PROVE Earned
  <2>1. cur[h] \in Row /\ input[h] \in Request /\ input[h] # NoInput
    BY <1>4 DEF Batch, LocalsOK, TypeOK, Handler
  <2>2. CASE Stamps(h) /\ HasReceipt(input[h].mid)
    BY <1>2, <1>4, <2>2 DEF Batch, Reply, Goto, TypeOK, Handler, tables
  <2>3. CASE ~(Stamps(h) /\ HasReceipt(input[h].mid))
    <3>1. /\ input' = input /\ cur' = cur /\ answer' = answer /\ log \subseteq log'
          /\ \A g \in Saver \ {h} : pc'[g] = pc[g]
          /\ pc'[h] = "won" => Updates(h)
          /\ Updates(h) => [ns |-> row.ns, rev |-> cur[h].rev + 1, mid |-> input[h].mid,
                            state |-> input[h].state] \in log'
          /\ receipts' = IF Stamps(h)
                         THEN receipts \cup {[mid |-> input[h].mid, rev |-> cur[h].rev + 1]}
                         ELSE receipts
      BY <1>4, <2>3 DEF Batch, Goto, TypeOK, Handler
    <3>2. Stamps(h) => \E e \in log' : e.rev = cur[h].rev + 1 /\ e.state = input[h].state
      <4>1. CASE Updates(h)
        BY <3>1, <4>1
      <4>2. CASE ~Updates(h) /\ Stamps(h)
        BY <2>1, <3>1, <4>2 DEF Stamps, Updated, RowWasCommitted, Row
      <4> QED BY <4>1, <4>2
    <3>3. \A g \in Saver : input[g] # NoInput /\ input[g].mid = input[h].mid => input[g] = input[h]
      BY <2>1 DEF OneRequestPerMutation
    <3>4. AcknowledgedWasCommitted'
      BY <3>1 DEF AcknowledgedWasCommitted
    <3>5. ReceiptsAreEarned'
      BY <3>1, <3>2, <3>3 DEF ReceiptsAreEarned
    <3> QED BY <3>4, <3>5
  <2> QED BY <2>2, <2>3
<1>5. ASSUME NEW h \in Saver, Lookup(h) \/ Relookup(h) PROVE Earned
  <2>1. input[h] \in Request /\ input[h] # NoInput
    BY <1>5 DEF Lookup, Relookup, LocalsOK, TypeOK
  <2>2. CASE \E t \in receipts : t.mid = input[h].mid /\ Acknowledge(h, t.rev)
    <3>1. PICK t \in receipts : t.mid = input[h].mid /\ Acknowledge(h, t.rev)
      BY <2>2
    <3>2. \E e \in log : e.rev = t.rev /\ e.state = input[h].state
      BY <2>1, <3>1 DEF ReceiptsAreEarned
    <3>3. answer'[h].row.rev = t.rev
      BY <3>1 DEF Acknowledge, Reply, TypeOK, Handler
    <3>4. Kept(h)
      BY <1>5, <3>1 DEF Lookup, Relookup, Acknowledge, Reply, Goto, TypeOK, Handler, tables
    <3> QED BY <1>2, <3>2, <3>3, <3>4 DEF Handler
  <2>3. CASE ~\E t \in receipts : t.mid = input[h].mid /\ Acknowledge(h, t.rev)
    <3>1. Kept(h) /\ answer'[h].kind # "saved"
      BY <1>5, <2>3 DEF Lookup, Relookup, Reply, Goto, TypeOK, Handler, tables, AnswersEndHandlers
    <3> QED BY <1>2, <3>1 DEF Handler
  <2> QED BY <2>2, <2>3
<1>6. ASSUME NEW h \in Saver, Won(h) PROVE Earned
  <2>1. /\ \E e \in log : e.rev = cur[h].rev + 1 /\ e.state = input[h].state
        /\ answer'[h].row.rev = cur[h].rev + 1 /\ Kept(h)
    BY <1>6 DEF Won, ReceiptsAreEarned, Acknowledge, Reply, Goto, TypeOK, Handler, tables
  <2> QED BY <1>2, <2>1 DEF Handler
<1>7. ASSUME NEW h \in Handler, Workspace(h) \/ Fail(h) PROVE Earned
  <2>1. Kept(h) /\ answer'[h].kind # "saved"
    BY <1>7 DEF Workspace, Select, Insert, Reselect, Returns, Fail, Reply, Goto, TypeOK, Handler,
                tables, AnswersEndHandlers
  <2> QED BY <1>2, <2>1
<1>8. ASSUME NEW h \in Reader \cup Eraser, ReadArrives(h) \/ Erase(h) PROVE Earned
  <2>1. Kept(h) /\ h \notin Saver
    BY <1>8, HandlerAssumption
    DEF ReadArrives, Erase, EraseArrives, EraseShares, EraseReceipts, EraseRow, Reply, Goto,
        TypeOK, Handler, tables
  <2> QED BY <1>2, <1>8, <2>1 DEF Handler
<1> QED
  BY <1>1, <1>3, <1>4, <1>5, <1>6, <1>7, <1>8 DEF Next, Save, Read, Handler

-----------------------------------------------------------------------------
(* The invariant of any mix of handlers, account deletions included.       *)
LEMMA ServerInvInductive == ServerInv /\ [Next]_vars => ServerInv'
<1> SUFFICES ASSUME ServerInv, [Next]_vars PROVE ServerInv'
  OBVIOUS
<1>1. TypeOK' /\ LocalsOK' /\ AnswersEndHandlers'
  BY TypeStep, LocalsStep, AnswerStep DEF ServerInv
<1>2. NamespacesDrawn' /\ RowIsLatest' /\ RowWasCommitted' /\ OneCommitPerRevision'
  BY TablesStep DEF ServerInv
<1>3. OneRequestPerMutation' /\ ReceiptsAreEarned' /\ AcknowledgedWasCommitted'
  BY RequestStep, ReceiptStep DEF ServerInv
<1> QED BY <1>1, <1>2, <1>3 DEF ServerInv

LEMMA ServerInvInit == Init => ServerInv
<1> SUFFICES ASSUME Init PROVE ServerInv
  OBVIOUS
<1>1. TypeOK
  BY DEF Init, TypeOK, Steps, Kinds
<1>2. LocalsOK /\ AnswersEndHandlers
  BY DEF Init, LocalsOK, AnswersEndHandlers, Handler
<1>3. /\ NamespacesDrawn /\ RowIsLatest /\ RowWasCommitted /\ OneRequestPerMutation
      /\ ReceiptsAreEarned /\ OneCommitPerRevision /\ AcknowledgedWasCommitted
  BY DEF Init, NamespacesDrawn, RowIsLatest, RowWasCommitted, OneRequestPerMutation,
         ReceiptsAreEarned, OneCommitPerRevision, AcknowledgedWasCommitted, Answered, Handler
<1> QED BY <1>1, <1>2, <1>3 DEF ServerInv

(* saveWorkspace, readWorkspace and deleteAccount keep the server's        *)
(* invariant: types, one commit per revision, earned acknowledgements.     *)
THEOREM ServerInvariant == Spec => []ServerInv
<1>1. Init => ServerInv
  BY ServerInvInit
<1>2. ServerInv /\ [Next]_vars => ServerInv'
  BY ServerInvInductive
<1> QED BY <1>1, <1>2, PTL DEF Spec

(* No two saves ever become the same revision of one generation.           *)
THEOREM CompareAndSet == Spec => []OneCommitPerRevision
<1>1. ServerInv => OneCommitPerRevision
  BY DEF ServerInv
<1> QED BY <1>1, ServerInvariant, PTL

(* A save is acknowledged only with a revision that held its state.        *)
THEOREM AcknowledgementIsDurable == Spec => []AcknowledgedWasCommitted
<1>1. ServerInv => AcknowledgedWasCommitted
  BY DEF ServerInv
<1> QED BY <1>1, ServerInvariant, PTL

-----------------------------------------------------------------------------
(* While no account is deleted the one row only grows.                     *)
LEMMA RowGrows ==
    ASSUME Eraser = {}, TypeOK, LocalsOK, row # NoRow, [Next]_vars
    PROVE  row' # NoRow /\ row'.ns = row.ns /\ row.rev <= row'.rev
<1>1. row \in Row /\ row.rev \in Nat /\ row.rev <= row.rev
  BY DEF TypeOK, Row
<1>2. ASSUME NEW h \in Saver, Batch(h)
      PROVE  row' # NoRow /\ row'.ns = row.ns /\ row.rev <= row'.rev
  <2>1. cur[h] \in Row /\ input[h] \in Request
    BY <1>2 DEF Batch, LocalsOK, TypeOK, Handler
  <2>2. CASE Updates(h) /\ row' = Updated(h)
    <3>1. row' = [ns |-> row.ns, rev |-> row.rev + 1, state |-> input[h].state]
      BY <2>2 DEF Updates, Updated
    <3>2. row' \in Row
      BY <1>1, <2>1, <3>1 DEF Row, Request
    <3> QED BY <1>1, <3>1, <3>2, HandlerAssumption
  <2>3. CASE row' = row
    BY <1>1, <2>3
  <2> QED BY <1>2, <2>2, <2>3 DEF Batch, Updated, tables
<1>3. row' = row \/ \E h \in Saver : Batch(h)
  BY DEF Next, Save, Read, Workspace, vars, tables, SaveArrives, ReadArrives, Select, Insert,
         Reselect, Lookup, Won, Relookup, Fail
<1> QED BY <1>1, <1>2, <1>3

(* How the locals of the handlers change: a row comes from the table, a    *)
(* body from the table, from a local or from an acknowledgement.           *)
LEMMA CurMoves ==
    ASSUME TypeOK, [Next]_vars, NEW g \in Handler
    PROVE  cur'[g] = cur[g] \/ (cur'[g] = row' /\ pc[g] # "idle")
<1> USE DEF TypeOK, Handler
<1>1. ASSUME NEW h \in Saver \cup Reader, Workspace(h)
      PROVE  cur'[g] = cur[g] \/ (cur'[g] = row' /\ pc[g] # "idle")
  <2>1. CASE Select(h)
    BY <2>1 DEF Select, Returns, tables
  <2>2. CASE Insert(h)
    BY <2>2 DEF Insert
  <2>3. CASE Reselect(h)
    BY <2>3 DEF Reselect, Returns, tables
  <2> QED BY <1>1, <2>1, <2>2, <2>3 DEF Workspace
<1>2. cur' = cur \/ \E h \in Saver \cup Reader : Workspace(h)
  BY DEF Next, Save, Read, Erase, vars, SaveArrives, ReadArrives, EraseArrives, Lookup, Batch,
         Won, Relookup, EraseShares, EraseReceipts, EraseRow, Fail
<1> QED BY <1>1, <1>2

LEMMA AnswerMoves ==
    ASSUME TypeOK, LocalsOK, ReceiptsAreEarned, [Next]_vars, NEW g \in Handler
    PROVE  \/ answer'[g] = answer[g]
           \/ answer'[g].row = NoRow /\ answer'[g].kind \notin {"saved", "conflict"}
           \/ answer'[g].row \in {row', cur[g]} /\ answer'[g].kind # "saved"
           \/ /\ g \in Saver /\ answer'[g].kind = "saved" /\ input[g] # NoInput
              /\ \E e \in log : answer'[g].row =
                                 [ns |-> input[g].ns, rev |-> e.rev, state |-> input[g].state]
<1> USE DEF TypeOK, Handler
<1> DEFINE Moved ==
           \/ answer'[g] = answer[g]
           \/ answer'[g].row = NoRow /\ answer'[g].kind \notin {"saved", "conflict"}
           \/ answer'[g].row \in {row', cur[g]} /\ answer'[g].kind # "saved"
           \/ /\ g \in Saver /\ answer'[g].kind = "saved" /\ input[g] # NoInput
              /\ \E e \in log : answer'[g].row =
                                 [ns |-> input[g].ns, rev |-> e.rev, state |-> input[g].state]
<1>1. ASSUME NEW h \in Handler, NEW k \in {"gone", "failed", "erased"}, Reply(h, k, NoRow)
      PROVE  Moved
  BY <1>1 DEF Reply
<1>2. ASSUME NEW h \in Handler, NEW k \in {"workspace", "conflict"}, NEW r \in {row', cur[h]},
             Reply(h, k, r)
      PROVE  Moved
  BY <1>2 DEF Reply
<1>3. ASSUME NEW h \in Saver, input[h] # NoInput, NEW e \in log, Acknowledge(h, e.rev)
      PROVE  Moved
  BY <1>3 DEF Acknowledge, Reply
<1>4. ASSUME NEW h \in Handler, Workspace(h) PROVE Moved
  BY <1>1, <1>2, <1>4 DEF Workspace, Select, Insert, Reselect, Returns, tables
<1>5. ASSUME NEW h \in Saver, Lookup(h) \/ Relookup(h) \/ Won(h) PROVE Moved
  <2>1. input[h] # NoInput
    BY <1>5 DEF LocalsOK, Lookup, Relookup, Won
  <2>2. \A t \in receipts : t.mid = input[h].mid => \E e \in log : e.rev = t.rev
    BY <2>1 DEF ReceiptsAreEarned
  <2>3. pc[h] = "won" => \E e \in log : e.rev = cur[h].rev + 1
    BY DEF ReceiptsAreEarned
  <2> QED BY <1>1, <1>2, <1>3, <1>5, <2>1, <2>2, <2>3 DEF Lookup, Relookup, Won
<1>6. ASSUME NEW h \in Saver, Batch(h) PROVE Moved
  BY <1>1, <1>6 DEF Batch
<1>7. answer' = answer \/ (\E h \in Handler : Workspace(h)) \/ (\E h \in Saver : Batch(h))
        \/ (\E h \in Saver : Lookup(h) \/ Relookup(h) \/ Won(h))
        \/ (\E h \in Handler, k \in {"failed", "erased"} : Reply(h, k, NoRow))
  BY DEF Next, Save, Read, Erase, vars, SaveArrives, ReadArrives, EraseArrives,
         EraseShares, EraseReceipts, EraseRow, Fail
<1> QED BY <1>1, <1>4, <1>5, <1>6, <1>7

(* One generation: every row, answer and request is of the row's namespace *)
(* and no further than its revision.                                       *)
LEMMA GenerationStep ==
    ASSUME Eraser = {}, ServerInv, OneGeneration, [Next]_vars
    PROVE  OneGeneration'
<1> DEFINE Behind(r) == row # NoRow /\ row.ns = r.ns /\ r.rev <= row.rev
           BehindNow(r) == row' # NoRow /\ row'.ns = r.ns /\ r.rev <= row'.rev
<1>0. TypeOK /\ LocalsOK /\ ReceiptsAreEarned /\ RowIsLatest /\ TypeOK' /\ RowIsLatest'
      /\ OneRequestPerMutation
  BY TypeStep, TablesStep DEF ServerInv
<1>1. ASSUME NEW r, r.rev \in Nat, Behind(r) PROVE BehindNow(r)
  <2>1. row.rev \in Nat /\ row'.rev \in Nat
    BY <1>0, <1>1, RowGrows DEF TypeOK, Row
  <2> QED BY <1>0, <1>1, <2>1, RowGrows
<1>2. ASSUME row' # NoRow PROVE BehindNow(row')
  BY <1>0, <1>2 DEF TypeOK, Row
<1>3. ASSUME NEW h \in Handler, cur'[h] # NoRow PROVE BehindNow(cur'[h])
  <2>1. CASE cur'[h] = cur[h]
    BY <1>0, <1>1, <1>3, <2>1 DEF OneGeneration, TypeOK, Row
  <2>2. CASE cur'[h] = row'
    BY <1>2, <1>3, <2>2
  <2> QED BY <1>0, <2>1, <2>2, CurMoves
<1>4. ASSUME NEW h \in Handler, answer'[h].row # NoRow PROVE BehindNow(answer'[h].row)
  <2>1. CASE answer'[h] = answer[h]
    BY <1>0, <1>1, <1>4, <2>1 DEF OneGeneration, TypeOK, Row
  <2>2. CASE answer'[h].row = row'
    BY <1>2, <1>4, <2>2
  <2>3. CASE answer'[h].row = cur[h]
    BY <1>0, <1>1, <1>4, <2>3 DEF OneGeneration, TypeOK, Row
  <2>4. CASE h \in Saver /\ input[h] # NoInput
             /\ \E e \in log : answer'[h].row =
                              [ns |-> input[h].ns, rev |-> e.rev, state |-> input[h].state]
    <3>1. PICK e \in log : answer'[h].row =
                           [ns |-> input[h].ns, rev |-> e.rev, state |-> input[h].state]
      BY <2>4
    <3>2. e.rev \in Nat /\ row # NoRow /\ row.ns = e.ns /\ row.ns = input[h].ns /\ e.rev <= row.rev
      BY <1>0, <2>4, <3>1 DEF OneGeneration, RowIsLatest, TypeOK, Commit
    <3> QED BY <1>1, <3>1, <3>2
  <2> QED BY <1>0, <1>4, <2>1, <2>2, <2>3, <2>4, AnswerMoves
<1>5. ASSUME NEW h \in Saver, input'[h] # NoInput
      PROVE  row' # NoRow /\ row'.ns = input'[h].ns /\ input'[h].base <= row'.rev
  <2>1. ASSUME NEW q \in Request, row # NoRow, row.ns = q.ns, q.base <= row.rev
        PROVE  row' # NoRow /\ row'.ns = q.ns /\ q.base <= row'.rev
    <3>1. row.rev \in Nat /\ row'.rev \in Nat /\ q.base \in Nat
      BY <1>0, <2>1, RowGrows DEF TypeOK, Row, Request
    <3> QED BY <1>0, <2>1, <3>1, RowGrows
  <2>2. CASE input'[h] = input[h]
    BY <1>0, <1>5, <2>1, <2>2 DEF OneGeneration, TypeOK
  <2>3. CASE \E g \in Saver : SaveArrives(g) /\ input'[h] # input[h]
    <3>1. PICK g \in Saver : SaveArrives(g) /\ input'[h] # input[h]
      BY <2>3
    <3>2. PICK q \in Request :
             /\ input' = [input EXCEPT ![g] = q]
             /\ \/ <<q.ns, q.base>> \in Known
                \/ \E f \in Saver : input[f] = q
      BY <1>0, <3>1, ArrivalType
    <3>3. input'[h] = q
      BY <1>0, <3>1, <3>2 DEF TypeOK
    <3>4. CASE <<q.ns, q.base>> \in Known
      <4>1. PICK f \in Saver \cup Reader : /\ answer[f].kind \in {"workspace", "saved", "conflict"}
                                           /\ <<q.ns, q.base>> = <<answer[f].row.ns, answer[f].row.rev>>
        BY <3>4 DEF Known
      <4>2. answer[f].row # NoRow
        BY <1>0, <4>1 DEF LocalsOK, Handler
      <4> QED BY <2>1, <3>3, <4>1, <4>2 DEF OneGeneration, Handler
    <3>5. CASE \E f \in Saver : input[f] = q
      BY <2>1, <3>3, <3>5, HandlerAssumption DEF OneGeneration
    <3> QED BY <3>2, <3>4, <3>5
  <2>4. input' = input \/ \E g \in Saver : SaveArrives(g)
    BY DEF Next, Save, Read, Erase, Workspace, vars, ReadArrives, EraseArrives, Select, Insert,
           Reselect, Lookup, Batch, Won, Relookup, EraseShares, EraseReceipts, EraseRow, Fail
  <2> QED BY <2>2, <2>3, <2>4
<1>6. ASSUME NEW e \in log' PROVE row' # NoRow /\ row'.ns = e.ns
  <2>1. CASE e \in log
    BY <1>0, <2>1, RowGrows DEF OneGeneration
  <2>2. CASE e \notin log
    <3>1. PICK h \in Saver : Batch(h) /\ Updates(h) /\ e.ns = row.ns
      BY <2>2 DEF Next, Save, Read, Erase, Workspace, vars, SaveArrives, ReadArrives, EraseArrives,
             Select, Insert, Reselect, Lookup, Batch, Won, Relookup, EraseShares,
             EraseReceipts, EraseRow, Fail
    <3> QED BY <1>0, <3>1, RowGrows DEF Updates
  <2> QED BY <2>1, <2>2
<1> QED BY <1>3, <1>4, <1>5, <1>6 DEF OneGeneration

(* A commit takes the row one revision on, with its receipt, and only from *)
(* the base its request named.                                             *)
LEMMA CommitMoves ==
    ASSUME Eraser = {}, TypeOK, LocalsOK, [Next]_vars
    PROVE  /\ log \subseteq log' /\ receipts \subseteq receipts'
           /\ \A e \in log' \ log : \E h \in Saver :
                 /\ pc[h] = "batch" /\ row # NoRow /\ row.rev = cur[h].rev
                 /\ e.mid = input[h].mid /\ input[h] # NoInput
                 /\ \E t \in receipts' : t.mid = e.mid
<1>1. ASSUME NEW h \in Saver, Batch(h)
      PROVE  /\ log \subseteq log' /\ receipts \subseteq receipts'
             /\ \A e \in log' \ log :
                   /\ row # NoRow /\ row.rev = cur[h].rev /\ e.mid = input[h].mid
                   /\ [mid |-> input[h].mid, rev |-> cur[h].rev + 1] \in receipts'
  <2>1. CASE Stamps(h) /\ HasReceipt(input[h].mid)
    BY <1>1, <2>1 DEF Batch, tables
  <2>2. CASE ~(Stamps(h) /\ HasReceipt(input[h].mid))
    <3>1. input[h] \in Request
      BY <1>1 DEF Batch, LocalsOK, TypeOK
    <3>2. Updates(h) => Stamps(h)
      <4> SUFFICES ASSUME Updates(h) PROVE Stamps(h)
        OBVIOUS
      <4>1. Updated(h) = [ns |-> row.ns, rev |-> cur[h].rev + 1, state |-> input[h].state]
        BY DEF Updated
      <4>2. cur[h].rev + 1 \in Nat /\ row \in Row
        BY <1>1 DEF Batch, LocalsOK, TypeOK, Handler, Row, Updates
      <4>3. Updated(h) \in Row
        BY <3>1, <4>1, <4>2 DEF Row, Request
      <4> QED BY <4>1, <4>3, HandlerAssumption DEF Stamps
    <3> QED BY <1>1, <2>2, <3>2 DEF Batch, Updates
  <2> QED BY <2>1, <2>2
<1>2. (log' = log /\ receipts' = receipts) \/ \E h \in Saver : Batch(h)
  BY DEF Next, Save, Read, Workspace, vars, tables, SaveArrives, ReadArrives, Select, Insert,
         Reselect, Lookup, Won, Relookup, Fail
<1>3. ASSUME NEW h \in Saver, Batch(h) PROVE pc[h] = "batch" /\ input[h] # NoInput
  BY <1>3 DEF Batch, LocalsOK
<1> QED BY <1>1, <1>2, <1>3

LEMMA ReceiptedStep ==
    ASSUME Eraser = {}, TypeOK, LocalsOK, CommitsHaveReceipts, [Next]_vars
    PROVE  CommitsHaveReceipts'
  BY CommitMoves DEF CommitsHaveReceipts, HasReceipt

LEMMA RowsReadStep ==
    ASSUME Eraser = {}, TypeOK, LocalsOK, RowWasCommitted', RowsReadWereCommitted, [Next]_vars
    PROVE  RowsReadWereCommitted'
<1> SUFFICES ASSUME NEW h \in Handler, cur'[h] # NoRow, cur'[h].rev # 0
             PROVE  \E e \in log' : /\ e.ns = cur'[h].ns /\ e.rev = cur'[h].rev
                                   /\ e.state = cur'[h].state
  BY DEF RowsReadWereCommitted
<1>1. CASE cur'[h] = cur[h]
  BY <1>1, CommitMoves DEF RowsReadWereCommitted
<1>2. CASE cur'[h] = row'
  BY <1>2 DEF RowWasCommitted
<1> QED BY <1>1, <1>2, CurMoves

(* Once its base is passed a request is refused for good: the row only     *)
(* grows and a commit needs the row at the base.                           *)
LEMMA BaseStep ==
    ASSUME Eraser = {}, ServerInv, OneGeneration, OneGeneration', BasePassed, [Next]_vars
    PROVE  BasePassed'
<1>0. TypeOK /\ LocalsOK /\ AnswersEndHandlers /\ TypeOK' /\ LocalsOK' /\ ReceiptsAreEarned
  BY TypeStep, LocalsStep DEF ServerInv
<1> USE DEF Handler
<1>1. ASSUME NEW h \in Saver, input[h] # NoInput PROVE input'[h] = input[h]
  BY <1>0, <1>1 DEF Next, Save, Read, Erase, Workspace, vars, SaveArrives, ReadArrives, Select,
     Insert, Reselect, Lookup, Batch, Won, Relookup, Fail, LocalsOK, TypeOK
<1>2. \A h \in Saver : input[h] # NoInput => input[h].base \in Nat
  BY <1>0 DEF TypeOK, Request
<1>3. ASSUME NEW h \in Saver, cur'[h] # NoRow
      PROVE  input'[h] # NoInput /\ input'[h].base <= cur'[h].rev
  <2>1. CASE cur'[h] = cur[h]
    BY <1>1, <1>3, <2>1 DEF BasePassed
  <2>2. CASE cur'[h] = row' /\ pc[h] # "idle"
    BY <1>0, <1>1, <1>3, <2>2 DEF LocalsOK, OneGeneration
  <2> QED BY <1>0, <2>1, <2>2, CurMoves
<1>4. ASSUME NEW h \in Saver, pc'[h] = "batch" PROVE cur'[h].rev = input'[h].base
  <2>1. CASE pc[h] = "batch" /\ cur'[h] = cur[h]
    BY <1>0, <1>1, <2>1 DEF BasePassed, LocalsOK
  <2>2. CASE Lookup(h)
    BY <1>0, <1>4, <2>2 DEF Lookup, Reply, Acknowledge, Goto, TypeOK
  <2>3. (pc[h] = "batch" /\ cur'[h] = cur[h]) \/ Lookup(h)
    BY <1>0, <1>4, HandlerAssumption, SMTT(90)
    DEF Next, Save, Read, Workspace, vars, SaveArrives, ReadArrives, Select, Insert, Reselect,
        Returns, Lookup, Batch, Won, Relookup, Fail, Acknowledge, Reply, Goto, TypeOK
  <2> QED BY <2>1, <2>2, <2>3
<1>5. ASSUME NEW h \in Saver, lost'[h] \/ answer'[h].kind = "conflict"
      PROVE  input'[h] # NoInput /\ row' # NoRow /\ row'.rev > input'[h].base
  <2>1. ASSUME input[h] # NoInput, row # NoRow, row.rev > input[h].base
        PROVE  input'[h] # NoInput /\ row' # NoRow /\ row'.rev > input'[h].base
    <3>1. row.rev \in Nat /\ row'.rev \in Nat /\ row' # NoRow /\ row.rev <= row'.rev
      BY <1>0, <2>1, RowGrows DEF TypeOK, Row
    <3> QED BY <1>1, <1>2, <2>1, <3>1
  <2>2. CASE lost[h] \/ answer[h].kind = "conflict"
    BY <2>1, <2>2 DEF BasePassed, Answered
  <2>3. CASE Batch(h) /\ ~Updates(h)
    <3>1. /\ cur[h] \in Row /\ cur[h] # NoRow /\ row \in Row /\ row # NoRow
          /\ cur[h].rev <= row.rev /\ row.rev # cur[h].rev
      BY <1>0, <2>3 DEF Batch, LocalsOK, TypeOK, OneGeneration, Updates
    <3>2. input[h] # NoInput /\ input[h].base = cur[h].rev
      BY <1>0, <2>3 DEF Batch, LocalsOK, BasePassed
    <3> QED BY <2>1, <3>1, <3>2 DEF Row
  <2>4. CASE Lookup(h) /\ cur[h].rev # input[h].base
    <3>1. /\ cur[h] \in Row /\ cur[h] # NoRow /\ row \in Row /\ row # NoRow
          /\ cur[h].rev <= row.rev /\ input[h] # NoInput
          /\ input[h].base <= cur[h].rev
      BY <1>0, <2>4 DEF Lookup, LocalsOK, TypeOK, OneGeneration, BasePassed
    <3> QED BY <1>2, <2>1, <2>4, <3>1 DEF Row
  <2>5. lost'[h] => lost[h] \/ (Batch(h) /\ ~Updates(h))
    BY <1>0, HandlerAssumption
    DEF Next, Save, Read, Workspace, vars, SaveArrives, ReadArrives, Select, Insert, Reselect,
        Lookup, Batch, Won, Relookup, Fail, TypeOK
  <2>6. answer'[h].kind = "conflict" =>
           answer[h].kind = "conflict" \/ lost[h] \/ (Lookup(h) /\ cur[h].rev # input[h].base)
    BY <1>0, HandlerAssumption
    DEF Next, Save, Read, Workspace, vars, SaveArrives, ReadArrives, Select, Insert, Reselect,
        Returns, Lookup, Batch, Won, Relookup, Fail, Acknowledge, Reply, TypeOK
  <2> QED BY <1>5, <2>2, <2>3, <2>4, <2>5, <2>6
<1> QED BY <1>3, <1>4, <1>5 DEF BasePassed, Answered

(* A refused mutation is not in the log, and no other delivery of the same *)
(* request can put it there: its base has been passed.                     *)
LEMMA RefusalStep ==
    ASSUME Eraser = {}, ServerInv, OneGeneration, CommitsHaveReceipts, BasePassed,
           RowsReadWereCommitted, RefusalIsFinal, ConflictMovesForward,
           ServerInv', BasePassed', OneGeneration', [Next]_vars
    PROVE  RefusalIsFinal' /\ ConflictMovesForward'
<1>0. TypeOK /\ LocalsOK /\ AnswersEndHandlers /\ TypeOK' /\ LocalsOK' /\ OneRequestPerMutation
  BY DEF ServerInv
<1> USE DEF Handler
<1>1. ASSUME NEW h \in Saver, input[h] # NoInput PROVE input'[h] = input[h]
  BY <1>0, <1>1 DEF Next, Save, Read, Erase, Workspace, vars, SaveArrives, ReadArrives, Select,
     Insert, Reselect, Lookup, Batch, Won, Relookup, Fail, LocalsOK, TypeOK
<1>2. ASSUME NEW h \in Saver, lost[h] \/ answer[h].kind = "conflict",
             \A e \in log : e.mid # input[h].mid
      PROVE  \A e \in log' : e.mid # input'[h].mid
  <2>1. input[h] # NoInput /\ input'[h] = input[h] /\ row.rev > input[h].base
    BY <1>1, <1>2 DEF BasePassed, Answered
  <2>2. SUFFICES ASSUME NEW e \in log' \ log, e.mid = input[h].mid PROVE FALSE
    BY <1>2, <2>1
  <2>3. PICK g \in Saver : /\ pc[g] = "batch" /\ row # NoRow /\ row.rev = cur[g].rev
                           /\ e.mid = input[g].mid /\ input[g] # NoInput
    BY <1>0, <2>2, CommitMoves
  <2>4. input[g] = input[h]
    BY <1>0, <2>1, <2>2, <2>3 DEF OneRequestPerMutation
  <2>5. row.rev = input[h].base /\ row.rev \in Nat
    BY <1>0, <2>3, <2>4 DEF BasePassed, TypeOK, Row
  <2> QED BY <2>1, <2>5
<1>3. ASSUME NEW h \in Saver, ~HasReceipt(input[h].mid)
      PROVE  \A e \in log : e.mid # input[h].mid
  BY <1>3 DEF CommitsHaveReceipts
<1>4. ASSUME NEW h \in Saver, Refusing(h)' \/ answer'[h].kind = "conflict"
      PROVE  \A e \in log' : e.mid # input'[h].mid
  <2>1. CASE Refusing(h) \/ answer[h].kind = "conflict"
    BY <1>2, <2>1 DEF RefusalIsFinal, Refusing, Answered
  <2>2. CASE Relookup(h) /\ ~HasReceipt(input[h].mid)
    BY <1>0, <1>2, <1>3, <2>2 DEF Relookup, LocalsOK
  <2>3. CASE Lookup(h) /\ ~HasReceipt(input[h].mid)
    <3>1. log' = log /\ input' = input
      BY <2>3 DEF Lookup
    <3> QED BY <1>3, <2>3, <3>1
  <2>4. answer'[h].kind = "conflict" =>
          Refusing(h) \/ answer[h].kind = "conflict" \/ (Lookup(h) /\ ~HasReceipt(input[h].mid))
    BY <1>0, HandlerAssumption
    DEF Next, Save, Read, Workspace, vars, SaveArrives, ReadArrives, Select, Insert, Reselect,
        Returns, Lookup, Applied, Batch, Won, Relookup, Fail, Acknowledge, Reply, TypeOK, Refusing
  <2>5. Refusing(h)' => Refusing(h) \/ (Relookup(h) /\ ~HasReceipt(input[h].mid))
    <3>1. ASSUME Refusing(h)', SaveArrives(h) PROVE FALSE
      BY <1>0, <3>1 DEF SaveArrives, Refusing, BasePassed, LocalsOK
    <3>2. ASSUME NEW g \in Saver \cup Reader, Workspace(g), Refusing(h)' PROVE Refusing(h)
      BY <1>0, <3>2, HandlerAssumption
      DEF Workspace, Select, Insert, Reselect, Returns, Reply, Goto, TypeOK, Refusing
    <3>3. ASSUME NEW g \in Saver, Batch(g) \/ Lookup(g) \/ Won(g), Refusing(h)' PROVE Refusing(h)
      BY <1>0, <3>3 DEF Batch, Lookup, Won, Acknowledge, Reply, Goto, TypeOK, Refusing
    <3>4. ASSUME NEW g \in Saver, Relookup(g), Refusing(h)', ~Refusing(h)
          PROVE  Relookup(h) /\ ~HasReceipt(input[h].mid)
      BY <1>0, <3>4 DEF Relookup, Acknowledge, Reply, Goto, TypeOK, Refusing
    <3>5. ASSUME NEW g \in Handler, Fail(g), Refusing(h)' PROVE Refusing(h)
      BY <1>0, <3>5 DEF Fail, Reply, Goto, TypeOK, Refusing
    <3>7. ASSUME NEW g \in Reader, ReadArrives(g), Refusing(h)' PROVE Refusing(h)
      BY <1>0, <3>7, HandlerAssumption DEF ReadArrives, Goto, TypeOK, Refusing
    <3>6. ASSUME NEW g \in Saver, g # h, SaveArrives(g), Refusing(h)' PROVE Refusing(h)
      BY <1>0, <3>6 DEF SaveArrives, Goto, TypeOK, Refusing
    <3> QED BY <3>1, <3>2, <3>3, <3>4, <3>5, <3>6, <3>7 DEF Next, Save, Read, vars, Refusing
  <2> QED BY <1>4, <2>1, <2>2, <2>3, <2>4, <2>5
<1>5. ASSUME NEW h \in Saver, answer'[h].kind = "conflict"
      PROVE  /\ answer'[h].row.rev > input'[h].base
             /\ \E e \in log' : /\ e.ns = answer'[h].row.ns
                               /\ e.rev = answer'[h].row.rev
                               /\ e.state = answer'[h].row.state
  <2>1. CASE answer'[h] = answer[h]
    <3>1. input'[h] = input[h]
      BY <1>1, <1>5, <2>1 DEF BasePassed, Answered
    <3>2. log \subseteq log'
      BY <1>0, CommitMoves
    <3> QED BY <1>5, <2>1, <3>1, <3>2 DEF ConflictMovesForward, Answered
  <2>2. ASSUME NEW r \in {row', cur[h]}, r # NoRow, answer'[h].row = r, r.rev > input'[h].base,
               input'[h] # NoInput
        PROVE  /\ answer'[h].row.rev > input'[h].base
               /\ \E e \in log' : /\ e.ns = answer'[h].row.ns
                                 /\ e.rev = answer'[h].row.rev
                                 /\ e.state = answer'[h].row.state
    <3>1. r.rev # 0
      BY <1>0, <2>2 DEF TypeOK, Row, Request
    <3>2. log \subseteq log'
      BY <1>0, CommitMoves
    <3>3. CASE r = row'
      BY <2>2, <3>1, <3>3 DEF ServerInv, RowWasCommitted
    <3>4. CASE r = cur[h]
      BY <2>2, <3>1, <3>2, <3>4 DEF RowsReadWereCommitted
    <3> QED BY <2>2, <3>3, <3>4
  <2>3. CASE answer'[h].row = row'
    BY <1>5, <2>2, <2>3 DEF BasePassed, Answered
  <2>4. CASE Lookup(h) /\ answer'[h].row = cur[h] /\ cur[h].rev # input[h].base
    <3>1. /\ cur[h] # NoRow /\ input[h] # NoInput /\ input' = input
          /\ input[h].base <= cur[h].rev /\ input[h].base \in Nat /\ cur[h].rev \in Nat
      BY <1>0, <2>4 DEF Lookup, LocalsOK, BasePassed, TypeOK, Row, Request
    <3>2. cur[h].rev > input'[h].base
      BY <2>4, <3>1
    <3> QED BY <2>2, <2>4, <3>1, <3>2
  <2>5. \/ answer'[h] = answer[h] \/ answer'[h].row = row'
        \/ Lookup(h) /\ answer'[h].row = cur[h] /\ cur[h].rev # input[h].base
    <3>1. CASE answer[h].kind = "conflict"
      BY <1>0, <3>1, HandlerAssumption
      DEF AnswersEndHandlers, Next, Save, Read, Workspace, vars, SaveArrives, ReadArrives, Select,
          Insert, Reselect, Returns, Lookup, Batch, Won, Relookup, Fail, Acknowledge, Reply, TypeOK
    <3>2. CASE answer[h].kind # "conflict"
      <4>1. CASE \E g \in Saver \cup Reader : Workspace(g)
        BY <1>0, <1>5, <3>2, <4>1, HandlerAssumption
        DEF Workspace, Select, Insert, Reselect, Returns, Reply, TypeOK, tables, BasePassed,
            OneGeneration
      <4>2. CASE ~\E g \in Saver \cup Reader : Workspace(g)
        BY <1>0, <1>5, <3>2, <4>2, HandlerAssumption
        DEF Next, Save, Read, vars, SaveArrives, ReadArrives, Lookup, Batch, Won, Relookup, Fail,
            Acknowledge, Reply, TypeOK
      <4> QED BY <4>1, <4>2
    <3> QED BY <3>1, <3>2
  <2> QED BY <2>1, <2>3, <2>4, <2>5
<1> QED BY <1>4, <1>5 DEF RefusalIsFinal, ConflictMovesForward, Answered

LEMMA LivingAccountInductive ==
    ASSUME Eraser = {}, ServerInv, LivingAccountInv, [Next]_vars
    PROVE  LivingAccountInv'
<1>1. ServerInv'
  BY ServerInvInductive
<1>2. OneGeneration' /\ CommitsHaveReceipts'
  BY GenerationStep, ReceiptedStep DEF LivingAccountInv, ServerInv
<1>3. BasePassed'
  BY <1>2, BaseStep DEF LivingAccountInv
<1>4. RowsReadWereCommitted'
  BY <1>1, RowsReadStep DEF LivingAccountInv, ServerInv
<1>5. RefusalIsFinal' /\ ConflictMovesForward'
  BY <1>1, <1>2, <1>3, RefusalStep DEF LivingAccountInv
<1> QED BY <1>2, <1>3, <1>4, <1>5 DEF LivingAccountInv

LEMMA LivingAccountInit == Init => LivingAccountInv
  BY DEF Init, LivingAccountInv, OneGeneration, CommitsHaveReceipts, BasePassed,
         RowsReadWereCommitted, RefusalIsFinal, Refusing, ConflictMovesForward, Answered, Handler

(* While the account is not deleted: one growing row, receipts with every  *)
(* commit, refusals that stand.                                            *)
THEOREM LivingAccountInvariant == Eraser = {} => (Spec => [](ServerInv /\ LivingAccountInv))
<1> SUFFICES ASSUME Eraser = {} PROVE Spec => [](ServerInv /\ LivingAccountInv)
  OBVIOUS
<1>1. Init => ServerInv /\ LivingAccountInv
  BY ServerInvInit, LivingAccountInit
<1>2. ServerInv /\ LivingAccountInv /\ [Next]_vars => (ServerInv /\ LivingAccountInv)'
  BY ServerInvInductive, LivingAccountInductive
<1> QED BY <1>1, <1>2, PTL DEF Spec

(* A mutation told "conflict" has not taken effect and never will, so the  *)
(* device may send the same writing again under a fresh mutation id.       *)
THEOREM RefusalsStand == Eraser = {} => (Spec => []RefusedNeverCommits)
<1> SUFFICES ASSUME Eraser = {} PROVE Spec => []RefusedNeverCommits
  OBVIOUS
<1>1. LivingAccountInv => RefusedNeverCommits
  BY DEF LivingAccountInv, RefusalIsFinal, RefusedNeverCommits
<1> QED BY <1>1, LivingAccountInvariant, PTL

(* The row sent back with a conflict is newer than the base it answers.    *)
THEOREM ConflictsMoveForward == Eraser = {} => (Spec => []ConflictMovesForward)
<1> SUFFICES ASSUME Eraser = {} PROVE Spec => []ConflictMovesForward
  OBVIOUS
<1>1. LivingAccountInv => ConflictMovesForward
  BY DEF LivingAccountInv
<1> QED BY <1>1, LivingAccountInvariant, PTL

-----------------------------------------------------------------------------
(* Refinement: every statement is a step of the numbered register, or none. *)
LEMMA RegisterInit == Init => Register!RInit
  BY DEF Init, Register!RInit, Answered, Handler

LEMMA RegisterStep ==
    ASSUME Eraser = {}, ServerInv, LivingAccountInv, ServerInv', LivingAccountInv', [Next]_vars
    PROVE  [Register!RNext]_(Register!regVars)
<1> DEFINE latest      == IF row = NoRow THEN 0 ELSE row.rev
           Image(e)    == [rev |-> e.rev, mid |-> e.mid, state |-> e.state]
           committed   == {Image(e) : e \in log}
           Ack(h)      == <<input[h].mid, answer[h].row.rev, input[h].state>>
           acked       == {Ack(h) : h \in {g \in Saver : Answered(g, "saved")}}
           Refusal(h)  == <<input[h].mid, input[h].base, answer[h].row.rev, answer[h].row.state>>
           refused     == {Refusal(h) : h \in {g \in Saver : Answered(g, "conflict")}}
<1>0. TypeOK /\ LocalsOK /\ AnswersEndHandlers /\ TypeOK' /\ LocalsOK' /\ OneRequestPerMutation
  BY DEF ServerInv
<1> USE DEF Handler, Answered
<1>1. ASSUME NEW h \in Saver, input[h] # NoInput PROVE input'[h] = input[h]
  BY <1>0, <1>1 DEF Next, Save, Read, Erase, Workspace, vars, SaveArrives, ReadArrives, Select,
     Insert, Reselect, Lookup, Batch, Won, Relookup, Fail, LocalsOK, TypeOK
<1>2. \A h \in Saver : answer[h].kind # "none" => input[h] # NoInput /\ answer'[h] = answer[h]
  <2>1. \A h \in Saver : answer[h].kind # "none" => pc[h] = "done"
    BY <1>0 DEF AnswersEndHandlers
  <2>2. \A h \in Saver : pc[h] = "done" => input[h] # NoInput /\ answer'[h] = answer[h]
    BY <1>0, SMTT(20) DEF Next, Save, Read, Erase, Workspace, vars, SaveArrives, ReadArrives, Select,
       Insert, Reselect, Returns, Lookup, Batch, Won, Relookup, Fail, Acknowledge, Reply, TypeOK,
       LocalsOK
  <2> QED BY <2>1, <2>2
<1>3. acked \subseteq acked' /\ refused \subseteq refused'
  BY <1>1, <1>2
<1>4. ASSUME \A h \in Saver : answer'[h] = answer[h]
      PROVE  acked' = acked /\ refused' = refused
  <2>1. acked' \subseteq acked /\ refused' \subseteq refused
    BY <1>1, <1>2, <1>4
  <2> QED BY <1>3, <2>1
<1>5. ASSUME NEW h \in Saver, Batch(h), Updates(h), log' # log
      PROVE  Register!RNext
  <2>1. /\ ~HasReceipt(input[h].mid) /\ input[h] \in Request /\ input[h] # NoInput
        /\ row \in Row /\ row # NoRow /\ row.rev = cur[h].rev /\ pc[h] = "batch"
        /\ row' = Updated(h) /\ UNCHANGED answer
        /\ log' = log \cup {[ns |-> row.ns, rev |-> cur[h].rev + 1,
                            mid |-> input[h].mid, state |-> input[h].state]}
    <3>1. input[h] \in Request /\ input[h] # NoInput /\ Stamps(h)
      <4>1. input[h] \in Request /\ input[h] # NoInput /\ cur[h].rev + 1 \in Nat /\ row.ns \in Namespace
        BY <1>0, <1>5 DEF Batch, LocalsOK, TypeOK, Row, Updates
      <4>2. Updated(h) = [ns |-> row.ns, rev |-> cur[h].rev + 1, state |-> input[h].state]
        BY <1>5 DEF Updated
      <4>3. Updated(h) \in Row
        BY <4>1, <4>2 DEF Row, Request
      <4> QED BY <4>1, <4>2, <4>3, HandlerAssumption DEF Stamps
    <3> QED BY <1>0, <1>5, <3>1 DEF Batch, Updates, TypeOK
  <2>2. row' = [ns |-> row.ns, rev |-> row.rev + 1, state |-> input[h].state] /\ row' # NoRow
    BY <1>0, <1>5, <2>1, RowGrows DEF Updated
  <2>3. latest' = latest + 1
    BY <2>1, <2>2
  <2>4. committed' = committed \cup
                       {[rev |-> latest + 1, mid |-> input[h].mid, state |-> input[h].state]}
    <3> DEFINE new == [ns |-> row.ns, rev |-> cur[h].rev + 1,
                       mid |-> input[h].mid, state |-> input[h].state]
    <3>1. Image(new) = [rev |-> latest + 1, mid |-> input[h].mid, state |-> input[h].state]
      BY <2>1
    <3>2. log' = log \cup {new}
      BY <2>1
    <3> HIDE DEF new
    <3>3. committed' = committed \cup {Image(new)}
      BY <3>2
    <3> QED BY <3>1, <3>3
  <2>5. \A c \in committed : c.mid # input[h].mid
    BY <2>1 DEF LivingAccountInv, CommitsHaveReceipts
  <2>6. \A t \in refused : t[1] # input[h].mid
    <3>1. SUFFICES ASSUME NEW g \in Saver, answer[g].kind = "conflict",
                          input[g].mid = input[h].mid
                   PROVE  FALSE
      OBVIOUS
    <3>2. input[g] # NoInput /\ row.rev > input[g].base
      BY <3>1 DEF LivingAccountInv, BasePassed
    <3>3. input[g] = input[h]
      BY <1>0, <2>1, <3>1, <3>2 DEF OneRequestPerMutation
    <3>4. row.rev = input[h].base /\ row.rev \in Nat
      BY <2>1 DEF LivingAccountInv, BasePassed, Row
    <3> QED BY <3>2, <3>3, <3>4
  <2>7. acked' = acked /\ refused' = refused
    BY <1>4, <2>1
  <2>8. input[h].mid \in Mutation /\ input[h].state \in Content
    BY <2>1 DEF Request
  <2>9. PICK m \in Mutation, c \in Content : m = input[h].mid /\ c = input[h].state
    BY <2>8
  <2>10. Register!CommitNext(m, c)
    BY <2>3, <2>4, <2>5, <2>6, <2>7, <2>9 DEF Register!CommitNext
  <2> QED BY <2>10 DEF Register!RNext
<1>6. ASSUME NEW h \in Saver, answer'[h] # answer[h], row' = row \/ latest' = latest, log' = log,
             \A g \in Saver \ {h} : answer'[g] = answer[g]
      PROVE  Register!RNext \/ UNCHANGED Register!regVars
  <2>1. latest' = latest /\ committed' = committed
    BY <1>6
  <2>2. answer[h].kind = "none"
    BY <1>2, <1>6
  <2>3. CASE answer'[h].kind = "saved"
    <3>1. input[h] # NoInput /\ input'[h] = input[h] /\ input[h] \in Request
      <4>1. input[h] # NoInput
        BY <1>0, <1>6, <2>3 DEF Next, Save, Read, Erase, Workspace, vars, SaveArrives, ReadArrives,
           Select, Insert, Reselect, Returns, Lookup, Batch, Won, Relookup, Fail, Acknowledge,
           Reply, TypeOK, LocalsOK
      <4> QED BY <1>0, <1>1, <4>1 DEF TypeOK
    <3>2. PICK e \in log : e.rev = answer'[h].row.rev /\ e.state = input[h].state
      BY <1>6, <2>3, <3>1 DEF ServerInv, AcknowledgedWasCommitted
    <3>3. acked' = acked \cup {Ack(h)'} /\ refused' = refused
      <4>1. acked' \subseteq acked \cup {Ack(h)'} /\ refused' \subseteq refused
        BY <1>1, <1>2, <1>6, <2>3
      <4>2. Ack(h)' \in acked'
        BY <2>3
      <4> QED BY <1>3, <4>1, <4>2
    <3>4. Image(e) \in committed /\ Image(e).rev = e.rev /\ Image(e).state = e.state
      OBVIOUS
    <3>5. Register!AckOne(input[h].mid, Image(e))
      BY <2>1, <3>1, <3>2, <3>3, <3>4 DEF Register!AckOne
    <3> QED BY <3>1, <3>4, <3>5 DEF Register!RNext, Request
  <2>4. CASE answer'[h].kind = "conflict"
    <3>1. input'[h] # NoInput
      BY <2>4 DEF LivingAccountInv, BasePassed
    <3>2. input'[h] = input[h] /\ input[h] \in Request
      <4>1. input[h] # NoInput
        BY <1>0, <1>6, <2>4 DEF Next, Save, Read, Erase, Workspace, vars, SaveArrives, ReadArrives,
           Select, Insert, Reselect, Returns, Lookup, Batch, Won, Relookup, Fail, Acknowledge,
           Reply, TypeOK, LocalsOK
      <4> QED BY <1>0, <1>1, <4>1 DEF TypeOK
    <3>3. PICK e \in log : /\ e.rev = answer'[h].row.rev /\ e.state = answer'[h].row.state
                           /\ e.rev > input[h].base
      BY <1>6, <2>4, <3>2 DEF LivingAccountInv, ConflictMovesForward
    <3>4. refused' = refused \cup {Refusal(h)'} /\ acked' = acked
      <4>1. refused' \subseteq refused \cup {Refusal(h)'} /\ acked' \subseteq acked
        BY <1>1, <1>2, <1>6, <2>4
      <4>2. Refusal(h)' \in refused'
        BY <2>4
      <4> QED BY <1>3, <4>1, <4>2
    <3>5. \A d \in committed : d.mid # input[h].mid
      BY <1>6, <2>4, <3>2 DEF LivingAccountInv, RefusalIsFinal
    <3>6. Image(e) \in committed /\ Image(e).rev = e.rev /\ Image(e).state = e.state
      OBVIOUS
    <3>7. Register!RefuseOne(input[h].mid, input[h].base, Image(e))
      BY <2>1, <3>2, <3>3, <3>4, <3>5, <3>6 DEF Register!RefuseOne
    <3>8. input[h].base \in 0 .. Image(e).rev - 1 /\ input[h].mid \in Mutation
      BY <1>0, <3>2, <3>3, <3>6 DEF Request, TypeOK, Commit
    <3> QED BY <3>6, <3>7, <3>8 DEF Register!RNext
  <2>5. CASE answer'[h].kind \notin {"saved", "conflict"}
    <3>1. acked' \subseteq acked /\ refused' \subseteq refused
      BY <1>1, <1>2, <1>6, <2>5
    <3>2. acked' = acked /\ refused' = refused
      BY <1>3, <3>1
    <3> QED BY <2>1, <3>2 DEF Register!regVars
  <2> QED BY <2>3, <2>4, <2>5
<1>7. ASSUME latest' = latest, log' = log, \A g \in Saver : answer'[g] = answer[g]
      PROVE  UNCHANGED Register!regVars
  <2>1. committed' = committed
    BY <1>7
  <2> QED BY <1>4, <1>7, <2>1 DEF Register!regVars
<1>8. \/ \E h \in Saver : Batch(h) /\ Updates(h) /\ log' # log
      \/ log' = log /\ (row' = row \/ (row = NoRow /\ row'.rev = 0 /\ row' # NoRow))
  <2>1. ASSUME NEW h \in Saver, Batch(h), log' = log PROVE row' = row
    <3>1. CASE Updates(h)
      <4>1. \A e \in log : e.rev <= row.rev /\ e.rev \in Nat
        BY <1>0, <3>1 DEF ServerInv, LivingAccountInv, OneGeneration, RowIsLatest, TypeOK, Commit, Updates
      <4>2. row.rev = cur[h].rev /\ row.rev \in Nat
        BY <1>0, <3>1 DEF Updates, TypeOK, Row
      <4> DEFINE new == [ns |-> row.ns, rev |-> cur[h].rev + 1,
                         mid |-> input[h].mid, state |-> input[h].state]
      <4>3. new.rev = row.rev + 1
        BY <4>2
      <4>4. new \notin log
        BY <4>1, <4>2, <4>3
      <4>5. CASE Stamps(h) /\ HasReceipt(input[h].mid)
        BY <2>1, <4>5 DEF Batch, tables
      <4>6. CASE ~(Stamps(h) /\ HasReceipt(input[h].mid))
        BY <2>1, <3>1, <4>4, <4>6 DEF Batch
      <4> QED BY <4>5, <4>6
    <3>2. CASE ~Updates(h)
      BY <2>1, <3>2 DEF Batch, Updated, tables
    <3> QED BY <3>1, <3>2
  <2>2. ASSUME NEW h \in Handler, Insert(h)
        PROVE  log' = log /\ (row' = row \/ (row = NoRow /\ row'.rev = 0 /\ row' # NoRow))
    <3>1. CASE row = NoRow
      <4>1. PICK n \in Namespace : row' = [ns |-> n, rev |-> 0, state |-> Blank]
        BY <2>2, <3>1 DEF Insert
      <4>2. row' \in Row
        BY <4>1, BlankAssumption DEF Row
      <4> QED BY <2>2, <3>1, <4>1, <4>2, HandlerAssumption DEF Insert
    <3>2. CASE row # NoRow
      BY <2>2, <3>2 DEF Insert
    <3> QED BY <3>1, <3>2
  <2>3. (row' = row /\ log' = log) \/ (\E h \in Saver : Batch(h)) \/ (\E h \in Handler : Insert(h))
    BY DEF Next, Save, Read, Workspace, vars, tables, SaveArrives, ReadArrives, Select,
           Reselect, Lookup, Won, Relookup, Fail
  <2>4. ASSUME NEW h \in Saver, Batch(h), log' # log PROVE Updates(h)
    BY <2>4 DEF Batch
  <2> QED BY <2>1, <2>2, <2>3, <2>4
<1>9. \/ \A g \in Saver : answer'[g] = answer[g]
      \/ \E h \in Saver : answer'[h] # answer[h] /\ \A g \in Saver \ {h} : answer'[g] = answer[g]
  BY <1>0 DEF Next, Save, Read, Erase, Workspace, vars, SaveArrives, ReadArrives, Select, Insert,
     Reselect, Returns, Lookup, Batch, Won, Relookup, Fail, Acknowledge, Reply, TypeOK
<1>10. log' = log /\ (row' = row \/ (row = NoRow /\ row'.rev = 0 /\ row' # NoRow)) => latest' = latest
  OBVIOUS
<1> QED BY <1>5, <1>6, <1>7, <1>8, <1>9, <1>10

(* saveWorkspace, statement by statement, implements the numbered register *)
(* of RevisionRegister while the account is not deleted.                   *)
THEOREM ServerImplementsRegister == Eraser = {} => (Spec => ImplementsRegister)
<1> SUFFICES ASSUME Eraser = {} PROVE Spec => ImplementsRegister
  OBVIOUS
<1>1. Init => Register!RInit
  BY RegisterInit
<1>2. ServerInv /\ LivingAccountInv /\ (ServerInv /\ LivingAccountInv)' /\ [Next]_vars
        => [Register!RNext]_(Register!regVars)
  BY RegisterStep
<1>3. Spec => [](ServerInv /\ LivingAccountInv)
  BY LivingAccountInvariant
<1> QED BY <1>1, <1>2, <1>3, PTL DEF Spec, ImplementsRegister, Register!RSpec
=============================================================================
