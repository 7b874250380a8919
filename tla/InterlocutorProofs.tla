------------------------- MODULE InterlocutorProofs -------------------------
(***************************************************************************)
(* Theorems about InferenceQuota and about Interlocutor, which extends it. *)
(* The allowance is exact whatever reservations interleave.  A page's      *)
(* steps are steps of the allowance or leave it alone, so it is exact      *)
(* under the requests of a page; what the organizer answers replaces       *)
(* nothing of the author's; and the margin of a patient author is whole,   *)
(* for every number of blocks, edits, requests, words and reflections.     *)
(***************************************************************************)
EXTENDS Interlocutor, FiniteSetTheorems, SequenceTheorems, TLAPS

-----------------------------------------------------------------------------
(* The allowance: for any finite set of requests, any accounts and any     *)
(* limits.  At first no day has a row.                                     *)
LEMMA QuotaInit == Init => QuotaInv
<1> SUFFICES ASSUME Init PROVE QuotaInv
  OBVIOUS
<1> USE QuotaAssumption DEF Init
<1>1. TypeOK
  BY DEF TypeOK, Day, Steps
<1>2. CountersExact /\ GrantedOnce /\ RetryHasRow /\ RefusedOnlyAtLimit
  BY DEF CountersExact, GrantedOnce, RetryHasRow, RefusedOnlyAtLimit
<1> QED BY <1>1, <1>2 DEF QuotaInv

(* The requests of a set that are of one account.                          *)
OfAccount(D, t) == {q \in D : tenant[q] = t}

(* One more request in a day's set is one more in its count, and in the    *)
(* count of its account only.                                              *)
LEMMA CountOneMore ==
    ASSUME NEW D \in SUBSET Request, NEW r \in Request, r \notin D
    PROVE  /\ Cardinality(D) \in Nat
           /\ Cardinality(D \cup {r}) = Cardinality(D) + 1
           /\ \A t \in Tenant :
                /\ Cardinality(OfAccount(D, t)) \in Nat
                /\ Cardinality(OfAccount(D \cup {r}, t)) =
                     IF t = tenant[r] THEN Cardinality(OfAccount(D, t)) + 1
                                      ELSE Cardinality(OfAccount(D, t))
<1>1. IsFiniteSet(D) /\ \A t \in Tenant : IsFiniteSet(OfAccount(D, t))
  BY QuotaAssumption, FS_Subset DEF OfAccount
<1>2. ASSUME NEW t \in Tenant
      PROVE  /\ Cardinality(OfAccount(D, t)) \in Nat
             /\ Cardinality(OfAccount(D \cup {r}, t)) =
                  IF t = tenant[r] THEN Cardinality(OfAccount(D, t)) + 1
                                   ELSE Cardinality(OfAccount(D, t))
  <2> DEFINE old == OfAccount(D, t)
             new == OfAccount(D \cup {r}, t)
  <2>1. IsFiniteSet(old) /\ r \notin old
    BY <1>1 DEF OfAccount
  <2>2. CASE t = tenant[r]
    <3>1. new = old \cup {r}
      BY <2>2 DEF OfAccount
    <3> QED BY <2>1, <2>2, <3>1, FS_AddElement, FS_CardinalityType
  <2>3. CASE t # tenant[r]
    <3>1. new = old
      BY <2>3 DEF OfAccount
    <3> QED BY <2>1, <2>3, <3>1, FS_CardinalityType
  <2> QED BY <2>2, <2>3
<1> QED BY <1>1, <1>2, FS_AddElement, FS_CardinalityType

LEMMA QuotaStep == QuotaInv /\ [Next]_vars => QuotaInv'
<1> SUFFICES ASSUME QuotaInv, [Next]_vars PROVE QuotaInv'
  OBVIOUS
<1> USE QuotaAssumption
<1>0. TypeOK /\ CountersExact /\ GrantedOnce /\ RetryHasRow /\ RefusedOnlyAtLimit
  BY DEF QuotaInv
\* a request is counted: in the update, in the retried update or in the insert
<1>1. ASSUME NEW r \in Request, pc[r] \in {"update", "retry", "insert"},
             NEW u \in Usage,
             usage' = [usage EXCEPT ![day[r]] = u],
             granted' = [granted EXCEPT ![day[r]] = @ \cup {r}],
             Goto(r, "admitted"), UNCHANGED <<today, tenant, day>>,
             \/ usage[day[r]] # NoRow /\ Open(r, usage[day[r]]) /\ u = Counted(r, usage[day[r]])
             \/ usage[day[r]] = NoRow /\ u.global = 1
                  /\ \A t \in Tenant : u.counts[t] = IF t = tenant[r] THEN 1 ELSE 0
      PROVE  QuotaInv'
  <2>1. day[r] \in Day /\ r \notin granted[day[r]] /\ u # NoRow
    BY <1>0, <1>1, NoRowAssumption DEF TypeOK, GrantedOnce
  <2>2. TypeOK'
    BY <1>0, <1>1, <2>1 DEF TypeOK, Goto, Steps
  <2>3. /\ \A d \in Day \ {day[r]} : usage'[d] = usage[d] /\ granted'[d] = granted[d]
        /\ usage'[day[r]] = u /\ granted'[day[r]] = granted[day[r]] \cup {r}
    BY <1>0, <1>1, <2>1 DEF TypeOK
  <2>4. \A q \in Request : pc'[q] = IF q = r THEN "admitted" ELSE pc[q]
    BY <1>0, <1>1 DEF TypeOK, Goto
  <2>5. /\ u.global = Cardinality(granted[day[r]] \cup {r}) /\ u.global <= GlobalLimit
        /\ \A t \in Tenant : /\ u.counts[t] = Cardinality(OfAccount(granted[day[r]] \cup {r}, t))
                             /\ u.counts[t] <= Limit
    <3>0. PICK D \in SUBSET Request, v \in Usage \cup {NoRow}, T \in Tenant :
                D = granted[day[r]] /\ v = usage[day[r]] /\ T = tenant[r]
      BY <1>0, <2>1 DEF TypeOK
    <3>1. /\ Cardinality(D) \in Nat /\ Cardinality(D \cup {r}) = Cardinality(D) + 1
          /\ \A t \in Tenant :
               /\ Cardinality(OfAccount(D, t)) \in Nat
               /\ Cardinality(OfAccount(D \cup {r}, t)) =
                    IF t = T THEN Cardinality(OfAccount(D, t)) + 1
                             ELSE Cardinality(OfAccount(D, t))
      <4>1. r \notin D
        BY <2>1, <3>0
      <4>2. \A t \in Tenant : (t = tenant[r]) = (t = T)
        BY <3>0
      <4> QED BY <3>0, <4>1, <4>2, CountOneMore
    <3>2. CASE v # NoRow /\ Open(r, v) /\ u = Counted(r, v)
      <4>1. v \in Usage
        BY <1>0, <2>1, <3>0, <3>2 DEF TypeOK
      <4>2. /\ u.global = v.global + 1
            /\ \A t \in Tenant : u.counts[t] = IF t = T THEN v.counts[t] + 1 ELSE v.counts[t]
        BY <3>0, <3>2, <4>1 DEF Counted, Usage
      <4>3. /\ v.global = Cardinality(D)
            /\ \A t \in Tenant : /\ v.counts[t] = Cardinality(OfAccount(D, t))
                                 /\ v.counts[t] <= Limit /\ v.counts[t] \in Nat
        BY <1>0, <2>1, <3>0, <3>2, <4>1 DEF CountersExact, GrantedOf, OfAccount, Usage
      <4>4. v.global < GlobalLimit /\ v.counts[T] < Limit /\ v.global \in Nat
        BY <3>0, <3>2, <4>1 DEF Open, Usage
      <4>5. \A t \in Tenant : u.counts[t] <= Limit
        <5> SUFFICES ASSUME NEW t \in Tenant PROVE u.counts[t] <= Limit
          OBVIOUS
        <5>0. v.counts[T] \in Nat /\ Limit \in Nat /\ v.counts[T] + 1 <= Limit
          <6>1. v.counts[T] \in Nat /\ v.counts[T] < Limit
            BY <4>3, <4>4
          <6> DEFINE n == v.counts[T]
          <6>2. n \in Nat /\ n < Limit
            BY <6>1
          <6> HIDE DEF n
          <6>3. n \in Nat /\ Limit \in Nat /\ n + 1 <= Limit
            BY <6>2, QuotaAssumption
          <6> QED BY <6>3 DEF n
        <5>1. CASE t = T
          BY <4>2, <5>0, <5>1
        <5>2. CASE t # T
          BY <4>2, <4>3, <5>2
        <5> QED BY <5>1, <5>2
      <4>6. \A t \in Tenant : u.counts[t] = Cardinality(OfAccount(D \cup {r}, t))
        BY <3>1, <4>2, <4>3
      <4>7. u.global = Cardinality(D \cup {r}) /\ u.global <= GlobalLimit
        BY <3>1, <4>2, <4>3, <4>4
      <4> QED BY <3>0, <4>5, <4>6, <4>7
    <3>3. CASE v = NoRow /\ u.global = 1
                 /\ \A t \in Tenant : u.counts[t] = IF t = tenant[r] THEN 1 ELSE 0
      <4>1. D = {}
        BY <1>0, <2>1, <3>0, <3>3 DEF CountersExact
      <4>2. Cardinality(D) = 0 /\ \A t \in Tenant : OfAccount(D, t) = D
        BY <4>1, FS_EmptySet DEF OfAccount
      <4>3. \A t \in Tenant : u.counts[t] = Cardinality(OfAccount(D \cup {r}, t))
        <5> SUFFICES ASSUME NEW t \in Tenant
                     PROVE  u.counts[t] = Cardinality(OfAccount(D \cup {r}, t))
          OBVIOUS
        <5>1. Cardinality(OfAccount(D, t)) = 0
          BY <4>2
        <5>2. CASE t = T
          <6>1. Cardinality(OfAccount(D \cup {r}, t)) = Cardinality(OfAccount(D, t)) + 1
            BY <3>1, <5>2
          <6>2. Cardinality(OfAccount(D \cup {r}, t)) = 1
            BY <5>1, <6>1
          <6>3. u.counts[t] = 1
            BY <3>0, <3>3, <5>2
          <6> QED BY <6>2, <6>3
        <5>3. CASE t # T
          BY <3>0, <3>1, <3>3, <5>1, <5>3
        <5> QED BY <5>2, <5>3
      <4>4. \A t \in Tenant : u.counts[t] <= Limit
        BY <3>3
      <4>5. u.global = Cardinality(D \cup {r}) /\ u.global <= GlobalLimit
        BY <3>1, <3>3, <4>2
      <4> QED BY <3>0, <4>3, <4>4, <4>5
    <3> QED BY <1>1, <3>0, <3>2, <3>3
  <2>6. CountersExact'
    <3>0. \A t \in Tenant, d \in Day : GrantedOf(t, d)' = OfAccount(granted'[d], t)
      BY <1>1 DEF GrantedOf, OfAccount
    <3> SUFFICES ASSUME NEW d \in Day
                 PROVE  /\ usage'[d] = NoRow => granted'[d] = {}
                        /\ usage'[d] # NoRow =>
                             /\ usage'[d].global = Cardinality(granted'[d])
                             /\ usage'[d].global <= GlobalLimit
                             /\ \A t \in Tenant :
                                  /\ usage'[d].counts[t] = Cardinality(OfAccount(granted'[d], t))
                                  /\ usage'[d].counts[t] <= Limit
      BY <3>0 DEF CountersExact
    <3>1. CASE d = day[r]
      BY <2>1, <2>3, <2>5, <3>1
    <3>2. CASE d # day[r]
      BY <1>0, <2>3, <3>2 DEF CountersExact, GrantedOf, OfAccount
    <3> QED BY <3>1, <3>2
  <2>7. GrantedOnce'
    BY <1>0, <1>1, <2>1, <2>3, <2>4 DEF GrantedOnce, TypeOK
  <2>8. ASSUME NEW q \in Request, usage[day[q]] # NoRow
        PROVE  /\ usage'[day[q]] # NoRow
               /\ ~Open(q, usage[day[q]]) => ~Open(q, usage'[day[q]])
    <3>1. CASE day[q] = day[r]
      <4>1. u = Counted(r, usage[day[r]]) /\ usage[day[r]] \in Usage
        BY <1>0, <1>1, <2>1, <2>8, <3>1 DEF TypeOK
      <4>2. tenant[q] \in Tenant /\ tenant[r] \in Tenant
        BY <1>0 DEF TypeOK
      <4> QED BY <2>1, <2>3, <3>1, <4>1, <4>2 DEF Counted, Open, Usage
    <3>2. CASE day[q] # day[r]
      BY <1>0, <2>3, <2>8, <3>2 DEF TypeOK
    <3> QED BY <3>1, <3>2
  <2>9. RetryHasRow' /\ RefusedOnlyAtLimit'
    BY <1>0, <1>1, <2>4, <2>8 DEF RetryHasRow, RefusedOnlyAtLimit, Open
  <2> QED BY <2>2, <2>6, <2>7, <2>9 DEF QuotaInv
\* nothing is counted
<1>2. ASSUME UNCHANGED <<usage, granted, tenant>>, TypeOK',
             \A q \in Request :
                \/ pc'[q] = pc[q] /\ day'[q] = day[q]
                \/ pc[q] = "idle" /\ pc'[q] = "read"
                \/ /\ pc[q] \in {"read", "update", "insert", "retry"}
                   /\ pc'[q] \in {"update", "insert", "failed"} /\ day'[q] = day[q]
                \/ pc[q] = "admitted" /\ pc'[q] = "failed" /\ day'[q] = day[q]
                \/ pc[q] = "insert" /\ pc'[q] = "retry" /\ day'[q] = day[q] /\ usage[day[q]] # NoRow
                \/ /\ pc[q] \in {"read", "update", "retry"} /\ pc'[q] = "refused" /\ day'[q] = day[q]
                   /\ usage[day[q]] # NoRow /\ ~Open(q, usage[day[q]])
      PROVE  QuotaInv'
  <2>1. CountersExact'
    BY <1>0, <1>2 DEF CountersExact, GrantedOf
  <2>2. GrantedOnce'
    BY <1>0, <1>2 DEF GrantedOnce
  <2>3. RetryHasRow' /\ RefusedOnlyAtLimit'
    BY <1>0, <1>2 DEF RetryHasRow, RefusedOnlyAtLimit, Open
  <2> QED BY <1>2, <2>1, <2>2, <2>3 DEF QuotaInv
<1>3. ASSUME NEW r \in Request, Arrives(r) PROVE QuotaInv'
  BY <1>0, <1>2, <1>3 DEF Arrives, Goto, TypeOK, Steps
<1>4. ASSUME NEW r \in Request, ReadUsage(r) PROVE QuotaInv'
  BY <1>0, <1>2, <1>4 DEF ReadUsage, Goto, TypeOK, Steps
<1>5. ASSUME NEW r \in Request, Update(r) \/ Retry(r) PROVE QuotaInv'
  <2>1. CASE Reserve(r) /\ Open(r, usage[day[r]])
    <3>1. Counted(r, usage[day[r]]) \in Usage
      BY <1>0, <1>5, <2>1 DEF Reserve, TypeOK, Counted, Usage
    <3> QED BY <1>1, <1>5, <2>1, <3>1 DEF Reserve, Update, Retry
  <2>2. CASE Reserve(r) /\ ~Open(r, usage[day[r]])
    BY <1>0, <1>2, <1>5, <2>2 DEF Reserve, Update, Retry, Goto, TypeOK, Steps
  <2>3. CASE pc[r] = "update" /\ usage[day[r]] = NoRow /\ Goto(r, "insert")
             /\ UNCHANGED <<today, usage, tenant, day, granted>>
    BY <1>0, <1>2, <2>3 DEF Goto, TypeOK, Steps
  <2> QED BY <1>5, <2>1, <2>2, <2>3 DEF Update, Retry
<1>6. ASSUME NEW r \in Request, InsertUsage(r) PROVE QuotaInv'
  <2>1. CASE MayInsert(r)
    <3> DEFINE u == [global |-> 1, counts |-> [t \in Tenant |-> IF t = tenant[r] THEN 1 ELSE 0]]
    <3>1. u \in Usage /\ u.global = 1 /\ \A t \in Tenant : u.counts[t] = IF t = tenant[r] THEN 1 ELSE 0
      BY DEF Usage
    <3>2. usage' = [usage EXCEPT ![day[r]] = u]
      BY <1>6, <2>1 DEF InsertUsage
    <3> HIDE DEF u
    <3> QED BY <1>1, <1>6, <2>1, <3>1, <3>2 DEF InsertUsage, MayInsert
  <2>2. CASE ~MayInsert(r)
    BY <1>0, <1>2, <1>6, <2>2 DEF InsertUsage, MayInsert, Goto, TypeOK, Steps
  <2> QED BY <2>1, <2>2
<1>7. ASSUME NEW r \in Request, Fail(r) PROVE QuotaInv'
  BY <1>0, <1>2, <1>7 DEF Fail, Goto, TypeOK, Steps
<1>8. CASE Midnight
  BY <1>0, <1>2, <1>8 DEF Midnight, TypeOK, Day
<1>9. CASE UNCHANGED vars
  BY <1>0, <1>2, <1>9 DEF vars, TypeOK
<1> QED BY <1>3, <1>4, <1>5, <1>6, <1>7, <1>8, <1>9 DEF Next

(* The counters of a day's row are exact, whatever statements interleave.  *)
THEOREM QuotaInvariant == Spec => []QuotaInv
<1>1. Init => QuotaInv
  BY QuotaInit
<1>2. QuotaInv /\ [Next]_vars => QuotaInv'
  BY QuotaStep
<1> QED BY <1>1, <1>2, PTL DEF Spec

(* No day admits more model calls than the limits, for any number of       *)
(* requests and accounts.                                                  *)
THEOREM QuotaLimitsHold == Spec => []LimitsHold
<1>1. QuotaInv => LimitsHold
  <2> SUFFICES ASSUME QuotaInv, NEW d \in Day
               PROVE  /\ Cardinality(Admitted(d)) <= GlobalLimit
                      /\ \A t \in Tenant : Cardinality(AdmittedOf(t, d)) <= Limit
    BY DEF LimitsHold
  <2>1. TypeOK /\ CountersExact /\ GrantedOnce
    BY DEF QuotaInv
  <2>2. IsFiniteSet(granted[d]) /\ \A t \in Tenant : IsFiniteSet(GrantedOf(t, d))
    BY <2>1, QuotaAssumption, FS_Subset DEF TypeOK, GrantedOf
  <2>3. Admitted(d) \subseteq granted[d] /\ \A t \in Tenant : AdmittedOf(t, d) \subseteq GrantedOf(t, d)
    BY <2>1 DEF GrantedOnce, Admitted, AdmittedOf, GrantedOf
  <2>4. /\ Cardinality(Admitted(d)) <= Cardinality(granted[d])
        /\ \A t \in Tenant : Cardinality(AdmittedOf(t, d)) <= Cardinality(GrantedOf(t, d))
    BY <2>2, <2>3, FS_Subset
  <2>5. /\ Cardinality(Admitted(d)) \in Nat /\ Cardinality(granted[d]) \in Nat
        /\ \A t \in Tenant : /\ Cardinality(AdmittedOf(t, d)) \in Nat
                             /\ Cardinality(GrantedOf(t, d)) \in Nat
    BY <2>2, <2>3, FS_Subset, FS_CardinalityType
  <2>6. CASE usage[d] = NoRow
    <3>1. granted[d] = {} /\ Cardinality({}) = 0
      BY <2>1, <2>6, FS_EmptySet DEF CountersExact
    <3>2. \A t \in Tenant : GrantedOf(t, d) = {}
      BY <3>1 DEF GrantedOf
    <3> QED BY <2>4, <2>5, <3>1, <3>2, QuotaAssumption
  <2>7. CASE usage[d] # NoRow
    BY <2>1, <2>4, <2>5, <2>7, QuotaAssumption DEF CountersExact
  <2> QED BY <2>6, <2>7
<1> QED BY <1>1, QuotaInvariant, PTL

(* A refusal is never early: the day's row has reached a limit for good.   *)
THEOREM QuotaRefusesOnlyAtLimit == Spec => []RefusedOnlyAtLimit
<1>1. QuotaInv => RefusedOnlyAtLimit
  BY DEF QuotaInv
<1> QED BY <1>1, QuotaInvariant, PTL

(* The allowance is exact: no more than the limits and no less.            *)
THEOREM QuotaAllowance == Spec => []AllowanceInv
<1> QED BY QuotaLimitsHold, QuotaRefusesOnlyAtLimit, PTL DEF AllowanceInv

-----------------------------------------------------------------------------
(* Every step of the page leaves the allowance alone.                      *)
LEMMA PageStepsKeepUsage == PageSteps => UNCHANGED vars
<1> SUFFICES ASSUME PageSteps PROVE UNCHANGED vars
  OBVIOUS
<1>1. ASSUME NEW b \in Blocks, Write(b) \/ CorrectKind(b) \/ Select(b) \/ DeleteBlock(b)
      PROVE  UNCHANGED vars
  BY <1>1 DEF Write, CorrectKind, Select, DeleteBlock
<1>2. CASE Blur \/ SetTitle \/ Consents \/ AddBlock
  BY <1>2 DEF Blur, SetTitle, Consents, AddBlock
<1>3. ASSUME NEW r \in Request, Organize(r) \/ Reflect(r) \/ Checkpoint(r) \/ Hears(r) \/ Lost(r)
      PROVE  UNCHANGED vars
  BY <1>3 DEF Organize, Reflect, Checkpoint, Hears, Lost
<1>4. CASE Respond \/ SaveForLater \/ Dismiss \/ Follow \/ Type
  BY <1>4 DEF Respond, SaveForLater, Dismiss, Follow, Type
<1>5. CASE StartCorrection \/ Granted \/ Interrupted \/ FinishCorrection \/ Finished
  BY <1>5 DEF StartCorrection, Granted, Interrupted, FinishCorrection, Finished
<1> QED BY <1>1, <1>2, <1>3, <1>4, <1>5 DEF PageSteps

(* A page and the Worker's four routes implement the allowance: every step *)
(* is one of its statements, or none of them.                              *)
THEOREM PageImplementsQuota == PageSpec => Spec
<1>1. PageInit => Init
  BY DEF PageInit
<1>2. ASSUME [PageNext]_allVars PROVE [Next]_vars
  <2>1. CASE Between /\ PageSteps
    BY <2>1, PageStepsKeepUsage
  <2>2. ASSUME NEW r \in Request, Reserves(r) \/ Throws(r) PROVE [Next]_vars
    BY <2>2 DEF Reserves, Throws, Next
  <2>3. CASE Passes
    BY <2>3 DEF Passes, Next
  <2>4. CASE UNCHANGED allVars
    BY <2>4 DEF allVars
  <2> QED BY <1>2, <2>1, <2>2, <2>3, <2>4 DEF PageNext
<1> QED BY <1>1, <1>2, PTL DEF PageSpec, Spec

(* The allowance is exact under the requests of a page.                    *)
THEOREM PageAllowance == PageSpec => []AllowanceInv
BY PageImplementsQuota, QuotaAllowance, PTL

-----------------------------------------------------------------------------
(* The organizer.  What a step finds of a block and of the title.          *)

ABlock == [words: Nat, version: Nat, kind: Kinds, read: Nat]
Typed == /\ block \in [DOMAIN block -> ABlock]
         /\ title \in [source: {"empty", "generated", "author"}, version: Nat, read: Nat]

(* What MetadataOfTheseWords says of a step, and the stronger thing every  *)
(* step does but the organizer's answer: it generates nothing.             *)
Metadata ==
    /\ \A b \in DOMAIN block \cap DOMAIN block' :
          block'[b].kind = "generated" /\ block[b].kind # "generated" =>
              block[b].kind = "default" /\ block'[b].read = block[b].version
    /\ title'.source = "generated" /\ title.source # "generated" =>
           title.source = "empty" /\ title'.read = title.version
NothingGenerated ==
    /\ \A b \in DOMAIN block \cap DOMAIN block' :
          block'[b].kind = "generated" => block[b].kind = "generated"
    /\ title'.source = "generated" => title.source = "generated"

LEMMA NothingGeneratedIsMetadata == NothingGenerated => Metadata
BY DEF NothingGenerated, Metadata

LEMMA UntouchedKeeps ==
    ASSUME Typed, UNCHANGED <<block, title>> PROVE Typed' /\ NothingGenerated
BY DEF Typed, NothingGenerated

LEMMA TouchedTyped ==
    ASSUME Typed, Touched
    PROVE  /\ title' \in [source: {"empty", "generated", "author"}, version: Nat, read: Nat]
           /\ title'.source = title.source
BY DEF Typed, Touched

LEMMA NewBlockTyped == NewBlock \in ABlock /\ NewBlock.kind = "default"
BY DEF NewBlock, ABlock, Kinds

LEMMA InitTyped == PageInit => Typed
<1> SUFFICES ASSUME PageInit PROVE Typed
  OBVIOUS
<1>1. title \in [source: {"empty", "generated", "author"}, version: Nat, read: Nat]
  BY DEF PageInit
<1>2. CASE FirstTime
  <2>1. block = [x \in {1} |-> NewBlock]
    BY <1>2 DEF FirstTime
  <2> QED BY <1>1, <2>1, NewBlockTyped DEF Typed
<1>3. CASE Loaded
  <2> DEFINE W == [NewBlock EXCEPT !.words = MaxWords]
  <2>1. W \in ABlock
    BY InterlocutorAssumption DEF NewBlock, ABlock, Kinds
  <2> HIDE DEF W
  <2>2. block = [x \in {1, 2} |-> IF x = 1 THEN W ELSE NewBlock]
    BY <1>3 DEF Loaded, W
  <2> QED BY <1>1, <2>1, <2>2, NewBlockTyped DEF Typed
<1> QED BY <1>2, <1>3 DEF PageInit

LEMMA WriteKeeps ==
    ASSUME Typed, NEW b \in Blocks, Write(b) PROVE Typed' /\ NothingGenerated
<1>1. PICK w \in 0 .. MaxWords : block' = [block EXCEPT ![b].words = w, ![b].version = @ + 1]
  BY DEF Write
<1>2. w \in Nat
  BY InterlocutorAssumption
<1>3. /\ DOMAIN block' = DOMAIN block
      /\ \A x \in DOMAIN block : block'[x] \in ABlock /\ block'[x].kind = block[x].kind
  BY <1>1, <1>2 DEF Typed, ABlock
<1>4. Touched
  BY DEF Write
<1>5. block' \in [DOMAIN block' -> ABlock]
  BY <1>1, <1>3
<1> QED BY <1>3, <1>4, <1>5, TouchedTyped DEF Typed, NothingGenerated

LEMMA CorrectKindKeeps ==
    ASSUME Typed, NEW b \in Blocks, CorrectKind(b) PROVE Typed' /\ NothingGenerated
<1>1. block' = [block EXCEPT ![b].kind = "author", ![b].version = @ + 1] /\ Touched
  BY DEF CorrectKind
<1>2. /\ DOMAIN block' = DOMAIN block
      /\ \A x \in DOMAIN block : /\ block'[x] \in ABlock
                                 /\ block'[x].kind \in {block[x].kind, "author"}
  BY <1>1 DEF Typed, ABlock, Kinds
<1>3. block' \in [DOMAIN block' -> ABlock]
  BY <1>1, <1>2
<1> QED BY <1>1, <1>2, <1>3, TouchedTyped DEF Typed, NothingGenerated

LEMMA AddsKeeps == ASSUME Typed, Adds PROVE Typed' /\ NothingGenerated
<1> DEFINE n == made.blocks + 1
<1>1. block' = [x \in DOMAIN block \cup {n} |-> IF x = n THEN NewBlock ELSE block[x]] /\ Touched
  BY DEF Adds
<1> HIDE DEF n
<1>2. /\ block' \in [DOMAIN block' -> ABlock]
      /\ \A x \in DOMAIN block : block'[x] = block[x] \/ block'[x].kind = "default"
  BY <1>1, NewBlockTyped DEF Typed
<1> QED BY <1>1, <1>2, TouchedTyped DEF Typed, NothingGenerated

LEMMA DeleteKeeps ==
    ASSUME Typed, NEW b \in Blocks, DeleteBlock(b) PROVE Typed' /\ NothingGenerated
<1> DEFINE n == made.blocks + 1
<1>1. Touched /\ (block' = [x \in {n} |-> NewBlock] \/ block' = [x \in DOMAIN block \ {b} |-> block[x]])
  BY DEF DeleteBlock
<1> HIDE DEF n
<1>2. CASE block' = [x \in {n} |-> NewBlock]
  BY <1>1, <1>2, TouchedTyped, NewBlockTyped DEF Typed, NothingGenerated
<1>3. CASE block' = [x \in DOMAIN block \ {b} |-> block[x]]
  BY <1>1, <1>3, TouchedTyped DEF Typed, NothingGenerated
<1> QED BY <1>1, <1>2, <1>3

LEMMA SetTitleKeeps == ASSUME Typed, SetTitle PROVE Typed' /\ NothingGenerated
<1> DEFINE T == [source: {"empty", "generated", "author"}, version: Nat, read: Nat]
           named == [title EXCEPT !.source = "author"]
<1>1. named \in T /\ named.source = "author"
  BY DEF Typed
<1>2. title' = [named EXCEPT !.version = title.version + 1] /\ title.version \in Nat
  BY DEF SetTitle, Typed
<1>3. block' = block
  BY DEF SetTitle
<1> HIDE DEF named
<1>4. title' \in T /\ title'.source = "author"
  BY <1>1, <1>2
<1> QED BY <1>3, <1>4 DEF Typed, NothingGenerated

(* The organizer's answer: the only step that generates anything, and only *)
(* over the version it was asked about.                                    *)
LEMMA OrganizedKeeps ==
    ASSUME Typed, NEW r \in Request, NEW reply, Organized(r, reply) PROVE Typed' /\ Metadata
<1> DEFINE q == asked[r]
<1>1. block' = [b \in DOMAIN block |->
                  IF b \in reply.has /\ Classifiable(q, b)
                  THEN [block[b] EXCEPT !.kind = "generated", !.read = q.versions[b]]
                  ELSE block[b]]
  BY DEF Organized
<1>2. title' = IF reply.ok /\ Nameable(q)
               THEN [title EXCEPT !.source = "generated", !.read = q.named] ELSE title
  BY DEF Organized
<1>3. Nameable(q) => q.named = title.version /\ title.source = "empty"
  BY DEF Nameable
<1>4. \A b : Classifiable(q, b) => q.versions[b] = block[b].version /\ block[b].kind = "default"
  BY DEF Classifiable
<1> HIDE DEF q
<1>5. ASSUME NEW b \in DOMAIN block
      PROVE  /\ block'[b] \in ABlock
             /\ \/ block'[b] = block[b]
                \/ block[b].kind = "default" /\ block'[b].read = block[b].version
  <2>1. CASE b \in reply.has /\ Classifiable(q, b)
    <3>1. block'[b] = [block[b] EXCEPT !.kind = "generated", !.read = block[b].version]
      BY <1>1, <1>4, <2>1
    <3> QED BY <1>4, <2>1, <3>1 DEF Typed, ABlock, Kinds
  <2>2. CASE ~(b \in reply.has /\ Classifiable(q, b))
    BY <1>1, <2>2 DEF Typed
  <2> QED BY <2>1, <2>2
<1>6. block' \in [DOMAIN block' -> ABlock] /\ DOMAIN block' = DOMAIN block
  BY <1>1, <1>5
<1>7. /\ title' \in [source: {"empty", "generated", "author"}, version: Nat, read: Nat]
      /\ title' = title \/ (title.source = "empty" /\ title'.read = title.version)
  <2>1. CASE reply.ok /\ Nameable(q)
    BY <1>2, <1>3, <2>1 DEF Typed
  <2>2. CASE ~(reply.ok /\ Nameable(q))
    BY <1>2, <2>2 DEF Typed
  <2> QED BY <2>1, <2>2
<1> QED BY <1>5, <1>6, <1>7 DEF Typed, Metadata

(* Every other answer leaves the words and the title alone.                *)
LEMMA ContinuesKeeps ==
    ASSUME Typed, NEW r \in Request, NEW reply, Continues(r, reply)
    PROVE  Typed' /\ Metadata
<1>1. CASE Organized(r, reply)
  BY <1>1, OrganizedKeeps
<1>2. CASE UNCHANGED <<block, title>>
  BY <1>2, UntouchedKeeps, NothingGeneratedIsMetadata
<1>3. Reflected(r, reply) => UNCHANGED <<block, title>>
  BY DEF Reflected
<1>4. Transcribed(r, reply) => UNCHANGED <<block, title>>
  BY DEF Transcribed, document
<1>5. Cleaned(r) => UNCHANGED <<block, title>>
  BY DEF Cleaned, document
<1>6. UNCHANGED document => UNCHANGED <<block, title>>
  BY DEF document
<1> QED BY <1>1, <1>2, <1>3, <1>4, <1>5, <1>6 DEF Continues

LEMMA PageStepKeeps == Typed /\ [PageNext]_allVars => Typed' /\ Metadata
<1> SUFFICES ASSUME Typed, [PageNext]_allVars PROVE Typed' /\ Metadata
  OBVIOUS
<1> USE NothingGeneratedIsMetadata
<1>1. CASE UNCHANGED <<block, title>>
  BY <1>1, UntouchedKeeps
<1>2. ASSUME NEW b \in Blocks, Write(b) \/ CorrectKind(b) \/ Select(b) \/ DeleteBlock(b)
      PROVE  Typed' /\ Metadata
  <2>1. CASE Select(b)
    BY <1>1, <2>1 DEF Select
  <2> QED BY <1>2, <2>1, WriteKeeps, CorrectKindKeeps, DeleteKeeps
<1>3. CASE Blur
  <2>1. block' = block /\ Touched
    BY <1>3 DEF Blur
  <2> QED BY <2>1, TouchedTyped DEF Typed, NothingGenerated
<1>4. CASE SetTitle
  BY <1>4, SetTitleKeeps
<1>5. CASE AddBlock \/ Follow
  BY <1>5, AddsKeeps DEF AddBlock, Follow
<1>6. ASSUME NEW r \in Request, Hears(r) \/ Lost(r) PROVE Typed' /\ Metadata
  BY <1>6, ContinuesKeeps DEF Hears, Lost
<1>7. ASSUME NEW r \in Request, Organize(r) \/ Reflect(r) \/ Checkpoint(r)
      PROVE  Typed' /\ Metadata
  BY <1>1, <1>7 DEF Organize, Reflect, Checkpoint, document
<1>8. CASE Consents \/ Respond \/ SaveForLater \/ Dismiss \/ Type
  BY <1>1, <1>8 DEF Consents, Respond, SaveForLater, Dismiss, Type, document
<1>9. CASE StartCorrection \/ Granted \/ Interrupted \/ FinishCorrection \/ Finished
  BY <1>1, <1>9 DEF StartCorrection, Granted, Interrupted, FinishCorrection, Finished, document
<1>10. CASE PageSteps
  BY <1>2, <1>3, <1>4, <1>5, <1>6, <1>7, <1>8, <1>9, <1>10 DEF PageSteps
<1>11. ASSUME NEW r \in Request, Reserves(r) \/ Throws(r) PROVE Typed' /\ Metadata
  BY <1>1, <1>11 DEF Reserves, Throws, pageVars, document
<1>12. CASE Passes \/ UNCHANGED allVars
  BY <1>1, <1>12 DEF Passes, allVars, pageVars, document
<1> QED BY <1>10, <1>11, <1>12 DEF PageNext

(* Whatever the author does while the organizer is asked, a kind or title  *)
(* it generates replaces none of the author's and is of the very text that *)
(* is on the page (the guards of App.tsx:1180-1196).                       *)
THEOREM GeneratedMetadataIsOfTheseWords == PageSpec => MetadataOfTheseWords
<1>1. PageSpec => []Typed
  BY InitTyped, PageStepKeeps, PTL DEF PageSpec
<1>2. Typed /\ [PageNext]_allVars => [Metadata]_allVars
  BY PageStepKeeps
<1>3. PageSpec => [][Metadata]_allVars
  BY <1>1, <1>2, PTL DEF PageSpec
<1> QED BY <1>3 DEF MetadataOfTheseWords, Metadata
-----------------------------------------------------------------------------
(* The margin of a patient author, who keeps the block that is reflected   *)
(* on and stays where a correction is being dictated.                      *)

PatientAuthor == Environment = {}

(* Nothing is a value without structure, as null is: neither a request nor *)
(* a session of the dictation is Nothing.                                  *)
NothingHasNoFields == Nothing # [x \in DOMAIN Nothing |-> Nothing[x]]

(* The blocks, their order and what is attached to them.                   *)
BlocksInv ==
    /\ block \in [DOMAIN block -> [words: 0 .. MaxWords, version: Nat, kind: Kinds, read: Nat]]
    /\ title \in [source: {"empty", "generated", "author"}, version: Nat, read: Nat]
    /\ consent \in {"undecided", "enabled", "disabled"}
    /\ DOMAIN made = {"edits", "blocks", "annotations"} /\ made = [x \in DOMAIN made |-> made[x]]
    /\ made.blocks \in Nat /\ made.annotations \in Nat
    /\ order \in Seq(DOMAIN block) /\ Len(order) > 0
    /\ \A i, j \in DOMAIN order : order[i] = order[j] => i = j
    /\ DOMAIN block \subseteq ToSet(order) /\ DOMAIN block \subseteq 1 .. made.blocks
    /\ annotation \subseteq [id: 1 .. made.annotations, block: DOMAIN block, turns: Nat,
                             status: {"open", "saved", "followed", "dismissed"}]
    /\ \A r \in Awaited("reflect") : asked[r].of \in DOMAIN block

(* What is awaited, and the flags that show it.                            *)
AskFields == {"kind", "of", "about", "versions", "named"}
AskKinds == {"reflect", "organize", "transcribe", "unwanted", "clean", "done"}
IsAsk(q) == /\ q = [x \in DOMAIN q |-> q[x]] /\ DOMAIN q = AskFields
            /\ q.kind \in AskKinds
Single(S) == \A x, y \in S : x = y
AsksInv ==
    /\ DOMAIN asked = Request
    /\ \A r \in Request : asked[r] # Nothing => IsAsk(asked[r])
    /\ DOMAIN organizer = {"busy", "last"} /\ organizer = [x \in DOMAIN organizer |-> organizer[x]]
    /\ busy = (Awaited("reflect") # {}) /\ Single(Awaited("reflect"))
    /\ organizer.busy = (Awaited("organize") # {}) /\ Single(Awaited("organize"))
    /\ (finishing.step = "cleaning") = (Awaited("clean") # {}) /\ Single(Awaited("clean"))

(* The correction: everything of it is of the reflection that is shown.    *)
Here(ids) == ids \subseteq {Current} \ {0}
IsSession(s) == /\ s = [x \in DOMAIN s |-> s[x]] /\ DOMAIN s = {"prefix", "said"}
                /\ Here(Value(s))
CorrectionInv ==
    /\ correction = [x \in DOMAIN correction |-> correction[x]]
    /\ DOMAIN correction = {"field", "session", "status"}
    /\ correction.status \in {"idle", "requesting", "recording", "processing", "interrupted"}
    /\ mic \in {"off", "asked", "on"} /\ finishing.step \in {"none", "waiting", "cleaning"}
    /\ Here(correction.field)
    /\ correction.session # Nothing =>
          /\ IsSession(correction.session)
          /\ \A r \in Awaited("transcribe") : Here({asked[r].about})
    /\ mic = "asked" <=> correction.status = "requesting"
    /\ mic = "on" <=> correction.status = "recording"
    /\ mic # "off" => Current # 0 /\ ~busy /\ correction.session # Nothing /\ finishing = NotFinishing
    /\ correction.status = "processing" => finishing # NotFinishing
    /\ finishing # NotFinishing => Current # 0 /\ finishing.step # "none"
    /\ finishing.step = "cleaning" => IsSession(finishing.said)
    /\ \A r \in Awaited("reflect") : asked[r].about = 0 => finishing = NotFinishing

(* The inductive invariant of MarginInv.                                   *)
MarginInd == BlocksInv /\ AsksInv /\ CorrectionInv

LEMMA SingleIsOne == ASSUME NEW S, Single(S) PROVE Cardinality(S) <= 1
<1>1. CASE S = {}
  BY <1>1, FS_EmptySet
<1>2. CASE S # {}
  <2>1. PICK x \in S : S = {x}
    BY <1>2 DEF Single
  <2> QED
    BY <2>1, FS_Singleton
<1> QED
  BY <1>1, <1>2

LEMMA BlocksAreOrdered ==
    BlocksInv => Blocks = DOMAIN block /\ DOMAIN order = 1 .. Len(order) /\ Len(order) \in Nat
<1> SUFFICES ASSUME BlocksInv PROVE Blocks = DOMAIN block /\ DOMAIN order = 1 .. Len(order) /\ Len(order) \in Nat
  OBVIOUS
<1>1. DOMAIN order = 1 .. Len(order) /\ Len(order) \in Nat /\ \A i \in DOMAIN order : order[i] \in DOMAIN block
  BY DEF BlocksInv
<1>2. \A b : b \in ToSet(order) <=> \E i \in DOMAIN order : b = order[i]
  BY DEF ToSet
<1>3. \A b \in DOMAIN block : b \in ToSet(order)
  BY DEF BlocksInv
<1> QED
  BY <1>1, <1>2, <1>3 DEF Blocks

LEMMA MarginIndIsMarginInv == MarginInd => MarginInv
<1> SUFFICES ASSUME MarginInd PROVE MarginInv
  OBVIOUS
<1>1. ToSet(order) = DOMAIN block
  BY BlocksAreOrdered DEF MarginInd, Blocks
<1>2. Anchored
  BY <1>1 DEF MarginInd, BlocksInv, Anchored, Blocks
<1>3. PageTypeOK
  <2>1. annotation \subseteq [id: 1 .. made.annotations, block: 1 .. made.blocks, turns: Nat,
                              status: {"open", "saved", "followed", "dismissed"}]
    BY DEF MarginInd, BlocksInv
  <2>2. busy \in BOOLEAN /\ organizer.busy \in BOOLEAN
    BY DEF MarginInd, AsksInv
  <2> QED
    BY <1>1, <2>1, <2>2 DEF MarginInd, BlocksInv, CorrectionInv, PageTypeOK
<1>4. CorrectionStaysPut /\ MicrophoneShown
  BY DEF MarginInd, CorrectionInv, Here, CorrectionStaysPut, MicrophoneShown
<1>5. OneOfEach
  BY SingleIsOne DEF MarginInd, AsksInv, OneOfEach
<1> QED
  BY <1>2, <1>3, <1>4, <1>5 DEF MarginInv

-----------------------------------------------------------------------------
(* What is awaited after a request, an answer or a cancelled dictation.    *)

AwaitedIn(as, kind) == {r \in Request : as[r] # Nothing /\ as[r].kind = kind}
Live == AskKinds \ {"done"}
Asks(as) == DOMAIN as = Request /\ \A r \in Request : as[r] # Nothing => IsAsk(as[r])

LEMMA AwaitedNow == \A kind \in Live : Awaited(kind) = AwaitedIn(asked, kind)
BY DEF Awaited, Waiting, AwaitedIn, Live

LEMMA AskIsAsk ==
    ASSUME NEW kind \in AskKinds, NEW of, NEW about
    PROVE  LET q == Ask(kind, of, about) IN
           IsAsk(q) /\ q.kind = kind /\ q.of = of /\ q.about = about
BY DEF Ask, IsAsk, AskFields

LEMMA AskIsSomething == ASSUME NothingHasNoFields, NEW q, IsAsk(q) PROVE q # Nothing
BY DEF NothingHasNoFields, IsAsk

(* One more is asked, and one is answered.                                 *)
AsksAlso(as2, as, r, q) ==
    /\ Asks(as2) /\ as2[r] = q /\ \A x \in Request : x # r => as2[x] = as[x]
    /\ \A kind \in Live : \A x :
          x \in AwaitedIn(as2, kind) <=> x \in AwaitedIn(as, kind) \/ (x = r /\ kind = q.kind)
Answers(as2, as, r) ==
    /\ Asks(as2) /\ as2[r] # Nothing /\ \A x \in Request : x # r => as2[x] = as[x]
    /\ \A kind \in Live : \A x :
          x \in AwaitedIn(as2, kind) <=> x \in AwaitedIn(as, kind) /\ x # r

LEMMA SentIsAwaited ==
    ASSUME NothingHasNoFields, NEW as, Asks(as), NEW r \in Request, as[r] = Nothing,
           NEW q, IsAsk(q), NEW as2, as2 = [as EXCEPT ![r] = q]
    PROVE  AsksAlso(as2, as, r, q)
<1>1. as2[r] = q /\ \A x \in Request : x # r => as2[x] = as[x]
  BY DEF Asks
<1>2. Asks(as2)
  BY <1>1 DEF Asks
<1>3. q # Nothing
  BY AskIsSomething
<1> QED
  BY <1>1, <1>2, <1>3 DEF AwaitedIn, AsksAlso

LEMMA OverIsNotAwaited ==
    ASSUME NothingHasNoFields, NEW as, Asks(as), NEW r \in Request,
           NEW q, IsAsk(q), q.kind = "done", NEW as2, as2 = [as EXCEPT ![r] = q]
    PROVE  Answers(as2, as, r)
<1>1. as2[r] = q /\ \A x \in Request : x # r => as2[x] = as[x]
  BY DEF Asks
<1>2. Asks(as2) /\ q # Nothing
  BY <1>1, AskIsSomething DEF Asks
<1> QED
  BY <1>1, <1>2 DEF AwaitedIn, Live, Answers

LEMMA UnwantedIsNotAwaited ==
    ASSUME NothingHasNoFields, Asks(asked), Unwanted
    PROVE  /\ Asks(asked') /\ Awaited("transcribe")' = {}
           /\ \A kind \in Live \ {"transcribe", "unwanted"} :
                 /\ AwaitedIn(asked', kind) = AwaitedIn(asked, kind)
                 /\ \A r \in AwaitedIn(asked, kind) : asked'[r] = asked[r]
<1>1. /\ DOMAIN asked' = Request
      /\ \A r \in Request : asked'[r] = IF r \in Awaited("transcribe")
                                        THEN [asked[r] EXCEPT !.kind = "unwanted"] ELSE asked[r]
  BY DEF Unwanted
<1>2. \A r \in Request : r \in Awaited("transcribe") <=> asked[r] # Nothing /\ asked[r].kind = "transcribe"
  BY DEF Awaited, Waiting
<1>3. ASSUME NEW r \in Request, r \in Awaited("transcribe")
      PROVE  IsAsk(asked'[r]) /\ asked'[r].kind = "unwanted"
  <2>1. IsAsk(asked[r])
    BY <1>2, <1>3 DEF Asks
  <2> QED
    BY <1>1, <1>3, <2>1 DEF IsAsk, AskFields, AskKinds
<1>4. Asks(asked')
  BY <1>1, <1>3 DEF Asks
<1>5. Awaited("transcribe")' = {}
  BY <1>1, <1>2, <1>3 DEF Awaited, Waiting
<1>6. \A r \in Request : r \in Awaited("transcribe") => asked'[r].kind = "unwanted" /\ asked'[r] # Nothing
  BY <1>3, AskIsSomething
<1> QED
  BY <1>1, <1>2, <1>4, <1>5, <1>6 DEF AwaitedIn, Live

-----------------------------------------------------------------------------
(* What leaves the margin alone.                                           *)

LEMMA AsksStay ==
    ASSUME AsksInv, UNCHANGED <<asked, busy, organizer, finishing>> PROVE AsksInv'
BY DEF AsksInv, Awaited, Waiting

LEMMA SameReflection ==
    ASSUME UNCHANGED <<selected, order, annotation>> PROVE Current' = Current
BY DEF Current, Selected

LEMMA BlocksStay ==
    ASSUME BlocksInv, UNCHANGED <<document, made, annotation>>,
           \A r \in Awaited("reflect")' : asked'[r].of \in DOMAIN block
    PROVE  BlocksInv'
BY DEF BlocksInv, document

(* The correction while its reflection stays: nothing new is awaited for   *)
(* it, and no reflection is asked for while it is being dictated.          *)
LEMMA CorrectionStays ==
    ASSUME CorrectionInv, Current' = Current, UNCHANGED <<correction, mic, finishing>>,
           busy' => busy \/ mic = "off",
           \A r \in Awaited("transcribe")' : r \in Awaited("transcribe") /\ asked'[r] = asked[r],
           \A r \in Awaited("reflect")' : asked'[r].about = 0 =>
               finishing = NotFinishing \/ (r \in Awaited("reflect") /\ asked'[r] = asked[r])
    PROVE  CorrectionInv'
<1>1. \A ids : Here(ids)' <=> Here(ids)
  BY DEF Here
<1>2. \A s : IsSession(s) => IsSession(s)'
  BY <1>1 DEF IsSession
<1>3. /\ Here(correction.field)'
      /\ correction'.session # Nothing =>
            /\ IsSession(correction.session)'
            /\ \A r \in Awaited("transcribe")' : Here({asked[r].about})'
  BY <1>1, <1>2 DEF CorrectionInv
<1>4. finishing'.step = "cleaning" => IsSession(finishing.said)'
  BY <1>2 DEF CorrectionInv
<1>5. \A r \in Awaited("reflect")' : asked'[r].about = 0 => finishing' = NotFinishing
  BY DEF CorrectionInv
<1> QED
  BY <1>3, <1>4, <1>5 DEF CorrectionInv

(* The same of a page that shows another reflection, when none is dictated. *)
LEMMA CorrectionShown ==
    ASSUME CorrectionInv, mic = "off", finishing = NotFinishing,
           correction' = Shown(correction), UNCHANGED <<mic, finishing>>,
           \A r \in Awaited("transcribe")' : r \in Awaited("transcribe") /\ asked'[r] = asked[r]
    PROVE  CorrectionInv'
<1>1. CASE Current' = Current
  <2>1. correction' = correction
    BY <1>1 DEF Shown, Current, Selected
  <2> QED
    BY <1>1, <2>1, CorrectionStays
<1>2. CASE Current' # Current
  <2>1. correction' = Quiet
    BY <1>2 DEF Shown, Current, Selected
  <2>2. correction.status # "requesting" /\ correction.status # "recording" /\ finishing.step = "none"
    BY DEF CorrectionInv, NotFinishing
  <2> QED
    BY <2>1, <2>2 DEF CorrectionInv, Quiet, Here
<1> QED
  BY <1>1, <1>2

-----------------------------------------------------------------------------
(* The order of the blocks.                                                *)

Distinct(q) == \A i, j \in DOMAIN q : q[i] = q[j] => i = j
Orders(q, S) == q \in Seq(S) /\ Distinct(q) /\ S \subseteq ToSet(q)

LEMMA PieceOf ==
    ASSUME NEW S, NEW q \in Seq(S), NEW m \in 1 .. Len(q) + 1, NEW n \in m - 1 .. Len(q),
           NEW T, S \subseteq T, NEW l \in Nat, l = n - m + 1
    PROVE  /\ SubSeq(q, m, n) \in Seq(T) /\ Len(SubSeq(q, m, n)) = l
           /\ \A k \in 1 .. l : SubSeq(q, m, n)[k] = q[m - 1 + k]
<1>1. Len(q) \in Nat /\ m \in Int /\ n \in Int
  OBVIOUS
<1>2. \A k \in m .. n : q[k] \in T
  BY <1>1
<1>3. /\ SubSeq(q, m, n) \in Seq(T) /\ Len(SubSeq(q, m, n)) = IF m <= n THEN n - m + 1 ELSE 0
      /\ \A k \in 1 .. n - m + 1 : SubSeq(q, m, n)[k] = q[m + k - 1]
  BY <1>1, <1>2, SubSeqProperties
<1>4. \A k \in 1 .. l : m + k - 1 = m - 1 + k
  BY <1>1
<1> QED
  BY <1>1, <1>3, <1>4

LEMMA RestOf ==
    ASSUME NEW S, NEW q \in Seq(S), NEW i \in 0 .. Len(q), NEW T, S \subseteq T
    PROVE  /\ SubSeq(q, i + 1, Len(q)) \in Seq(T) /\ Len(SubSeq(q, i + 1, Len(q))) = Len(q) - i
           /\ \A k \in 1 .. Len(q) - i : SubSeq(q, i + 1, Len(q))[k] = q[i + k]
<1> DEFINE l == Len(q) - i
           m == i + 1
           n == Len(q)
<1>1. m \in 1 .. Len(q) + 1 /\ n \in m - 1 .. Len(q) /\ l \in Nat /\ l = n - m + 1 /\ i \in Nat
  OBVIOUS
<1>2. \A k \in 1 .. l : m - 1 + k = i + k
  BY <1>1
<1> HIDE DEF l, m, n
<1>3. SubSeq(q, m, n) \in Seq(T) /\ Len(SubSeq(q, m, n)) = l /\ \A k \in 1 .. l : SubSeq(q, m, n)[k] = q[m - 1 + k]
  BY <1>1, PieceOf
<1> QED
  BY <1>2, <1>3 DEF l, m, n

LEMMA Joined ==
    ASSUME NEW S, NEW q \in Seq(S), NEW p \in Seq(S)
    PROVE  /\ q \o p \in Seq(S) /\ Len(q \o p) = Len(q) + Len(p) /\ DOMAIN (q \o p) = 1 .. Len(q) + Len(p)
           /\ \A k \in 1 .. Len(q) + Len(p) : (q \o p)[k] = IF k <= Len(q) THEN q[k] ELSE p[k - Len(q)]
BY ConcatProperties

LEMMA OrderInserted ==
    ASSUME NEW S, NEW q, Orders(q, S), NEW b, b \notin S, NEW i \in 1 .. Len(q)
    PROVE  Orders(InsertAt(q, i + 1, b), S \cup {b}) /\ Len(InsertAt(q, i + 1, b)) = Len(q) + 1
<1> DEFINE w == InsertAt(q, i + 1, b)
           T == S \cup {b}
<1>1. q \in Seq(S) /\ q \in Seq(T) /\ Len(q) \in Nat /\ DOMAIN q = 1 .. Len(q) /\ i \in Nat
  BY DEF Orders
<1> b \in T
  OBVIOUS
<1> HIDE DEF T
<1> DEFINE u == SubSeq(q, 1, i)
           v == SubSeq(q, i + 1, Len(q))
           ub == u \o <<b>>
<1>2. u \in Seq(T) /\ Len(u) = i /\ \A k \in 1 .. i : u[k] = q[k]
  <2>1. 1 \in 1 .. Len(q) + 1 /\ i \in 1 - 1 .. Len(q) /\ i = i - 1 + 1 /\ S \subseteq T
    BY <1>1 DEF T
  <2>2. u \in Seq(T) /\ Len(u) = i /\ \A k \in 1 .. i : u[k] = q[1 - 1 + k]
    BY <1>1, <2>1, PieceOf
  <2>3. \A k \in 1 .. i : 1 - 1 + k = k
    OBVIOUS
  <2> QED
    BY <2>2, <2>3
<1>3. v \in Seq(T) /\ Len(v) = Len(q) - i /\ \A k \in 1 .. Len(q) - i : v[k] = q[i + k]
  <2>1. i \in 0 .. Len(q) /\ S \subseteq T
    BY <1>1 DEF T
  <2> QED
    BY <1>1, <2>1, RestOf
<1>4. w = ub \o v
  <2>1. i + 1 - 1 = i /\ <<b>> \in Seq(T)
    BY <1>1
  <2>2. w = ub \o v \/ w = u \o (<<b>> \o v)
    BY <2>1 DEF InsertAt
  <2> HIDE DEF w, u, v
  <2>3. (u \o <<b>>) \o v = u \o (<<b>> \o v)
    BY <1>2, <1>3, <2>1, ConcatAssociative
  <2> QED
    BY <2>2, <2>3
<1> HIDE DEF w, u, v
<1>0. /\ ub \in Seq(T) /\ Len(ub) = i + 1
      /\ \A k \in 1 .. i + 1 : ub[k] = IF k <= i THEN q[k] ELSE b
  <2>1. <<b>> \in Seq(T) /\ Len(<<b>>) = 1 /\ <<b>>[1] = b
    OBVIOUS
  <2> QED
    BY <1>1, <1>2, <2>1, Joined
<1> HIDE DEF ub
<1>5. w \in Seq(T) /\ Len(w) = Len(q) + 1
      /\ \A k \in DOMAIN w : w[k] = IF k <= i THEN q[k] ELSE IF k = i + 1 THEN b ELSE q[k - 1]
  <2>1. /\ w \in Seq(T) /\ Len(w) = Len(ub) + Len(v) /\ DOMAIN w = 1 .. Len(ub) + Len(v)
        /\ \A k \in 1 .. Len(ub) + Len(v) : w[k] = IF k <= Len(ub) THEN ub[k] ELSE v[k - Len(ub)]
    BY <1>0, <1>3, <1>4, Joined, ZenonT(40)
  <2>2. Len(ub) + Len(v) = Len(q) + 1
    BY <1>0, <1>1, <1>3
  <2>3. ASSUME NEW k \in 1 .. Len(q) + 1
        PROVE  w[k] = IF k <= i THEN q[k] ELSE IF k = i + 1 THEN b ELSE q[k - 1]
    <3>1. CASE k <= i + 1
      BY <1>0, <1>1, <1>3, <2>1, <2>2, <3>1
    <3>2. CASE k > i + 1
      <4>1. k - (i + 1) \in 1 .. Len(q) - i /\ i + (k - (i + 1)) = k - 1
        BY <1>1, <3>2
      <4>2. w[k] = v[k - (i + 1)]
        BY <1>0, <1>1, <2>1, <2>2, <3>2
      <4> QED
        BY <1>1, <1>3, <3>2, <4>1, <4>2
    <3> QED
      BY <1>1, <3>1, <3>2
  <2> QED
    BY <2>1, <2>2, <2>3
<1>9. DOMAIN w = 1 .. Len(q) + 1
  BY <1>1, <1>5
<1>6. \A k \in DOMAIN q : q[k] \in S
  BY <1>1
<1>7. ASSUME NEW k \in DOMAIN w, NEW l \in DOMAIN w, w[k] = w[l] PROVE k = l
  <2> DEFINE From(x) == IF x <= i THEN x ELSE x - 1
  <2>1. \A x \in DOMAIN w : x # i + 1 => From(x) \in DOMAIN q /\ w[x] = q[From(x)] /\ w[x] # b
    BY <1>1, <1>5, <1>6, <1>9
  <2>2. w[i + 1] = b
    BY <1>1, <1>5, <1>9, SMTT(20)
  <2>3. CASE k = i + 1 \/ l = i + 1
    BY <1>7, <2>1, <2>2, <2>3
  <2>4. CASE k # i + 1 /\ l # i + 1
    <3>1. From(k) = From(l)
      BY <1>7, <2>1, <2>4 DEF Orders, Distinct
    <3> QED
      BY <1>1, <1>9, <2>4, <3>1
  <2> QED
    BY <2>3, <2>4
<1>8. ASSUME NEW x \in S \cup {b} PROVE \E k \in DOMAIN w : w[k] = x
  <2>1. CASE x = b
    BY <1>1, <1>5, <1>9, <2>1
  <2>2. CASE x # b
    <3>1. PICK k \in DOMAIN q : q[k] = x
      BY <2>2 DEF Orders, ToSet
    <3>2. (k \in DOMAIN w /\ w[k] = x) \/ (k + 1 \in DOMAIN w /\ w[k + 1] = x)
      BY <1>1, <1>5, <1>9, <3>1
    <3> QED
      BY <3>2
  <2> QED
    BY <2>1, <2>2
<1> QED
  BY <1>5, <1>7, <1>8, SMTT(20) DEF Orders, Distinct, ToSet, w, T

LEMMA OrderAppended ==
    ASSUME NEW S, NEW q, Orders(q, S), NEW b, b \notin S
    PROVE  Orders(Append(q, b), S \cup {b}) /\ Len(Append(q, b)) = Len(q) + 1
<1> DEFINE w == Append(q, b)
           T == S \cup {b}
<1>1. q \in Seq(T) /\ q \in Seq(S) /\ Len(q) \in Nat /\ DOMAIN q = 1 .. Len(q) /\ b \in T
  BY DEF Orders
<1>2. w \in Seq(T) /\ Len(w) = Len(q) + 1
      /\ \A k \in DOMAIN w : w[k] = IF k <= Len(q) THEN q[k] ELSE b
  BY <1>1
<1> HIDE DEF w
<1>3. \A k \in DOMAIN q : q[k] \in S
  BY <1>1
<1>4. Distinct(w)
  BY <1>1, <1>2, <1>3 DEF Orders, Distinct
<1>5. ASSUME NEW x \in T PROVE \E k \in DOMAIN w : w[k] = x
  <2>1. CASE x = b
    BY <1>1, <1>2, <2>1
  <2>2. CASE x # b
    <3>1. PICK k \in DOMAIN q : q[k] = x
      BY <2>2 DEF Orders, ToSet
    <3> QED
      BY <1>1, <1>2, <3>1
  <2> QED
    BY <2>1, <2>2
<1> QED
  BY <1>2, <1>4, <1>5 DEF Orders, ToSet, w

LEMMA OrderWithout ==
    ASSUME NEW S, NEW q, Orders(q, S), NEW i \in DOMAIN q
    PROVE  Orders(RemoveAt(q, i), S \ {q[i]}) /\ Len(RemoveAt(q, i)) = Len(q) - 1
<1> DEFINE w == RemoveAt(q, i)
           T == S \ {q[i]}
<1>1. q \in Seq(S) /\ Len(q) \in Nat /\ DOMAIN q = 1 .. Len(q) /\ i \in Nat /\ i \in 1 .. Len(q)
  BY DEF Orders
<1> DEFINE u == SubSeq(q, 1, i - 1)
           v == SubSeq(q, i + 1, Len(q))
<1>2. u \in Seq(S) /\ Len(u) = i - 1 /\ \A k \in 1 .. i - 1 : u[k] = q[k]
  <2> DEFINE l == i - 1
  <2>1. 1 \in 1 .. Len(q) + 1 /\ l \in 1 - 1 .. Len(q) /\ l \in Nat /\ l = l - 1 + 1
    BY <1>1
  <2> HIDE DEF l
  <2>2. SubSeq(q, 1, l) \in Seq(S) /\ Len(SubSeq(q, 1, l)) = l /\ \A k \in 1 .. l : SubSeq(q, 1, l)[k] = q[1 - 1 + k]
    BY <1>1, <2>1, PieceOf
  <2>3. \A k \in 1 .. l : 1 - 1 + k = k
    OBVIOUS
  <2> QED
    BY <2>2, <2>3 DEF l
<1>3. v \in Seq(S) /\ Len(v) = Len(q) - i /\ \A k \in 1 .. Len(q) - i : v[k] = q[i + k]
  <2>1. i \in 0 .. Len(q) /\ S \subseteq S
    BY <1>1
  <2> QED
    BY <1>1, <2>1, RestOf
<1>4. w = u \o v
  BY DEF RemoveAt
<1> HIDE DEF w, u, v
<1>5. w \in Seq(S) /\ Len(w) = Len(q) - 1
      /\ \A k \in DOMAIN w : w[k] = IF k < i THEN q[k] ELSE q[k + 1]
  <2>1. /\ w \in Seq(S) /\ Len(w) = Len(u) + Len(v) /\ DOMAIN w = 1 .. Len(u) + Len(v)
        /\ \A k \in 1 .. Len(u) + Len(v) : w[k] = IF k <= Len(u) THEN u[k] ELSE v[k - Len(u)]
    BY <1>2, <1>3, <1>4, Joined
  <2>2. Len(u) + Len(v) = Len(q) - 1
    BY <1>1, <1>2, <1>3
  <2>3. ASSUME NEW k \in 1 .. Len(q) - 1 PROVE w[k] = IF k < i THEN q[k] ELSE q[k + 1]
    <3>1. CASE k < i
      BY <1>1, <1>2, <2>1, <2>2, <3>1
    <3>2. CASE k >= i
      <4>1. k - (i - 1) \in 1 .. Len(q) - i /\ i + (k - (i - 1)) = k + 1
        BY <1>1, <3>2
      <4>2. w[k] = v[k - (i - 1)]
        BY <1>1, <1>2, <2>1, <2>2, <3>2
      <4> QED
        BY <1>1, <1>3, <3>2, <4>1, <4>2
    <3> QED
      BY <1>1, <3>1, <3>2
  <2> QED
    BY <2>1, <2>2, <2>3
<1>6. DOMAIN w = 1 .. Len(q) - 1
  BY <1>1, <1>5
<1>7. Distinct(w)
  BY <1>1, <1>5, <1>6 DEF Orders, Distinct
<1>8. \A k \in DOMAIN w : w[k] \in T
  BY <1>1, <1>5, <1>6 DEF Orders, Distinct
<1>9. w \in Seq(T)
  BY <1>1, <1>5, <1>6, <1>8
<1>10. ASSUME NEW x \in T PROVE \E k \in DOMAIN w : w[k] = x
  <2>1. PICK k \in DOMAIN q : q[k] = x
    BY DEF Orders, ToSet
  <2>2. k # i
    BY <2>1
  <2>3. (k \in DOMAIN w /\ w[k] = x) \/ (k - 1 \in DOMAIN w /\ w[k - 1] = x)
    BY <1>1, <1>5, <1>6, <2>1, <2>2
  <2> QED
    BY <2>3
<1> QED
  BY <1>5, <1>7, <1>9, <1>10 DEF Orders, ToSet, w

-----------------------------------------------------------------------------
(* What the author writes disturbs neither what is awaited nor the margin. *)

Titles == [source: {"empty", "generated", "author"}, version: Nat, read: Nat]
BlockTypes == [words: 0 .. MaxWords, version: Nat, kind: Kinds, read: Nat]
Counts(m) == /\ DOMAIN m = {"edits", "blocks", "annotations"} /\ m = [x \in DOMAIN m |-> m[x]]
             /\ m.blocks \in Nat /\ m.annotations \in Nat

LEMMA Undisturbed ==
    ASSUME MarginInd, UNCHANGED <<asked, busy, organizer, finishing, correction, mic, selected, order, annotation>>
    PROVE  AsksInv' /\ CorrectionInv'
<1>1. Current' = Current
  BY SameReflection
<1>2. \A kind : Awaited(kind)' = Awaited(kind)
  BY DEF Awaited, Waiting
<1> QED
  BY <1>1, <1>2, AsksStay, CorrectionStays DEF MarginInd

LEMMA BlocksKept ==
    ASSUME BlocksInv, UNCHANGED <<order, annotation, asked>>,
           block' \in [DOMAIN block -> BlockTypes], title' \in Titles,
           consent' \in {"undecided", "enabled", "disabled"},
           Counts(made'), made'.blocks = made.blocks, made'.annotations = made.annotations
    PROVE  BlocksInv'
<1> DEFINE D == DOMAIN block
<1>1. DOMAIN block' = D /\ block' \in [D -> BlockTypes]
  OBVIOUS
<1>2. /\ order \in Seq(D) /\ Len(order) > 0 /\ \A i, j \in DOMAIN order : order[i] = order[j] => i = j
      /\ D \subseteq ToSet(order) /\ D \subseteq 1 .. made.blocks
      /\ annotation \subseteq [id: 1 .. made.annotations, block: D, turns: Nat,
                               status: {"open", "saved", "followed", "dismissed"}]
  BY DEF BlocksInv
<1>3. \A r \in Awaited("reflect")' : asked'[r].of \in D
  BY DEF BlocksInv, Awaited, Waiting
<1>4. ToSet(order)' = ToSet(order)
  BY DEF ToSet
<1> HIDE DEF D
<1>5. block' \in [DOMAIN block' -> BlockTypes]
  BY <1>1
<1>6. /\ order' \in Seq(DOMAIN block') /\ Len(order') > 0
      /\ \A i, j \in DOMAIN order' : order'[i] = order'[j] => i = j
      /\ DOMAIN block' \subseteq ToSet(order)' /\ DOMAIN block' \subseteq 1 .. made'.blocks
  BY <1>1, <1>2, <1>4
<1>7. annotation' \subseteq [id: 1 .. made'.annotations, block: DOMAIN block', turns: Nat,
                             status: {"open", "saved", "followed", "dismissed"}]
  BY <1>1, <1>2
<1>8. \A r \in Awaited("reflect")' : asked'[r].of \in DOMAIN block'
  BY <1>1, <1>3
<1> QED
  BY <1>5, <1>6, <1>7, <1>8 DEF BlocksInv, Counts, BlockTypes, Titles

LEMMA EditsCount ==
    ASSUME BlocksInv, Edits
    PROVE  Counts(made') /\ made'.blocks = made.blocks /\ made'.annotations = made.annotations
BY DEF BlocksInv, Edits, Counts

LEMMA TouchedTitle == ASSUME title \in Titles, Touched PROVE title' \in Titles
BY DEF Touched, Titles

LEMMA WriteMargin ==
    ASSUME MarginInd, NEW b \in Blocks, Write(b) \/ CorrectKind(b) PROVE MarginInd'
<1>1. /\ UNCHANGED <<asked, busy, organizer, finishing, correction, mic, selected, order, annotation, consent>>
      /\ Edits /\ Touched
  BY DEF Write, CorrectKind, margin, wire
<1>2. block' \in [DOMAIN block -> BlockTypes]
  <2>1. \A x \in DOMAIN block : block[x] \in BlockTypes
    BY DEF MarginInd, BlocksInv, BlockTypes
  <2>2. CASE Write(b)
    <3>1. PICK w \in 0 .. MaxWords : block' = [block EXCEPT ![b].words = w, ![b].version = @ + 1]
      BY <2>2 DEF Write
    <3>2. DOMAIN block' = DOMAIN block /\ \A x \in DOMAIN block : block'[x] \in BlockTypes
      BY <2>1, <3>1 DEF BlockTypes
    <3> QED
      BY <3>1, <3>2
  <2>3. CASE CorrectKind(b)
    <3>1. block' = [block EXCEPT ![b].kind = "author", ![b].version = @ + 1]
      BY <2>3 DEF CorrectKind
    <3>2. DOMAIN block' = DOMAIN block /\ \A x \in DOMAIN block : block'[x] \in BlockTypes
      BY <2>1, <3>1 DEF BlockTypes, Kinds
    <3> QED
      BY <3>1, <3>2
  <2> QED
    BY <2>2, <2>3
<1>3. consent' \in {"undecided", "enabled", "disabled"}
  BY <1>1 DEF MarginInd, BlocksInv
<1>4. title' \in Titles /\ Counts(made') /\ made'.blocks = made.blocks /\ made'.annotations = made.annotations
  BY <1>1, EditsCount, TouchedTitle DEF MarginInd, BlocksInv, Titles
<1>5. BlocksInv'
  BY <1>1, <1>2, <1>3, <1>4, BlocksKept DEF MarginInd
<1> QED
  BY <1>1, <1>5, Undisturbed DEF MarginInd

LEMMA WordlessMargin ==
    ASSUME MarginInd, Blur \/ SetTitle \/ Consents PROVE MarginInd'
<1>0. Blur \/ SetTitle \/ Consents
  OBVIOUS
<1>1. /\ UNCHANGED <<asked, busy, organizer, finishing, correction, mic, selected, order, annotation, block>>
      /\ Edits
  BY DEF Blur, SetTitle, Consents, margin, wire
<1>2. title' \in Titles
  <2>0. title \in Titles
    BY DEF MarginInd, BlocksInv, Titles
  <2>1. CASE Blur
    BY <2>0, <2>1, TouchedTitle DEF Blur
  <2>2. CASE SetTitle
    <3> DEFINE named == [title EXCEPT !.source = "author"]
    <3>1. named \in Titles
      BY <2>0 DEF Titles
    <3>2. title' = [named EXCEPT !.version = title.version + 1] /\ title.version \in Nat
      BY <2>0, <2>2 DEF SetTitle, Titles
    <3> HIDE DEF named
    <3> QED
      BY <3>1, <3>2 DEF Titles
  <2>3. CASE Consents
    BY <2>0, <2>3 DEF Consents
  <2> QED
    BY <1>0, <2>1, <2>2, <2>3
<1>3. consent' \in {"undecided", "enabled", "disabled"} /\ block' \in [DOMAIN block -> BlockTypes]
  BY <1>1 DEF Blur, SetTitle, Consents, MarginInd, BlocksInv, BlockTypes
<1>4. BlocksInv'
  BY <1>1, <1>2, <1>3, EditsCount, BlocksKept DEF MarginInd
<1> QED
  BY <1>1, <1>4, Undisturbed DEF MarginInd

(* A patient author turns elsewhere only when nothing is being dictated.   *)
LEMMA PatientIsQuiet ==
    ASSUME PatientAuthor, CorrectionInv, Patient PROVE mic = "off" /\ finishing = NotFinishing
BY DEF PatientAuthor, CorrectionInv, Patient, Dictating

LEMMA ElsewhereMargin ==
    ASSUME MarginInd, mic = "off", finishing = NotFinishing, correction' = Shown(correction),
           UNCHANGED <<asked, busy, organizer, finishing, mic>>
    PROVE  AsksInv' /\ CorrectionInv'
<1>1. \A kind : Awaited(kind)' = Awaited(kind)
  BY DEF Awaited, Waiting
<1> QED
  BY <1>1, AsksStay, CorrectionShown DEF MarginInd

LEMMA SelectMargin ==
    ASSUME PatientAuthor, MarginInd, NEW b \in Blocks, Select(b) PROVE MarginInd'
<1>1. /\ Patient /\ correction' = Shown(correction)
      /\ UNCHANGED <<asked, busy, organizer, finishing, mic, order, annotation, block, title, consent, made>>
  BY DEF Select, wire
<1>2. mic = "off" /\ finishing = NotFinishing
  BY <1>1, PatientIsQuiet DEF MarginInd
<1>3. /\ block' \in [DOMAIN block -> BlockTypes] /\ title' \in Titles
      /\ consent' \in {"undecided", "enabled", "disabled"} /\ Counts(made')
  BY <1>1 DEF MarginInd, BlocksInv, BlockTypes, Titles, Counts
<1>4. BlocksInv'
  BY <1>1, <1>3, BlocksKept DEF MarginInd
<1> QED
  BY <1>1, <1>2, <1>4, ElsewhereMargin DEF MarginInd

-----------------------------------------------------------------------------
(* Blocks that come and go.                                                *)

Annotations(n, D) == [id: 1 .. n, block: D, turns: Nat,
                      status: {"open", "saved", "followed", "dismissed"}]

LEMMA BlocksInvIs ==
    BlocksInv <=> /\ block \in [DOMAIN block -> BlockTypes] /\ title \in Titles
                  /\ consent \in {"undecided", "enabled", "disabled"} /\ Counts(made)
                  /\ Orders(order, DOMAIN block) /\ Len(order) > 0
                  /\ DOMAIN block \subseteq 1 .. made.blocks
                  /\ annotation \subseteq Annotations(made.annotations, DOMAIN block)
                  /\ \A r \in Awaited("reflect") : asked[r].of \in DOMAIN block
BY DEF BlocksInv, BlockTypes, Titles, Counts, Orders, Distinct, Annotations

LEMMA BlocksInvThen ==
    ASSUME block' \in [DOMAIN block' -> BlockTypes], title' \in Titles,
           consent' \in {"undecided", "enabled", "disabled"}, Counts(made'),
           Orders(order', DOMAIN block'), Len(order') > 0,
           DOMAIN block' \subseteq 1 .. made'.blocks,
           annotation' \subseteq Annotations(made'.annotations, DOMAIN block'),
           \A r \in Awaited("reflect")' : asked'[r].of \in DOMAIN block'
    PROVE  BlocksInv'
<1>1. /\ block' \in [DOMAIN block' -> [words: 0 .. MaxWords, version: Nat, kind: Kinds, read: Nat]]
      /\ title' \in [source: {"empty", "generated", "author"}, version: Nat, read: Nat]
      /\ DOMAIN made' = {"edits", "blocks", "annotations"} /\ made' = [x \in DOMAIN made' |-> made'[x]]
      /\ made'.blocks \in Nat /\ made'.annotations \in Nat
  BY DEF BlockTypes, Titles, Counts
<1>2. /\ order' \in Seq(DOMAIN block') /\ \A i, j \in DOMAIN order' : order'[i] = order'[j] => i = j
      /\ DOMAIN block' \subseteq ToSet(order)'
  BY DEF Orders, Distinct, ToSet
<1>3. annotation' \subseteq [id: 1 .. made'.annotations, block: DOMAIN block', turns: Nat,
                             status: {"open", "saved", "followed", "dismissed"}]
  BY DEF Annotations
<1> QED
  BY <1>1, <1>2, <1>3 DEF BlocksInv

LEMMA NewBlockIsBlock == NewBlock \in BlockTypes
BY InterlocutorAssumption DEF NewBlock, BlockTypes, Kinds

LEMMA MarkedAnnotations ==
    ASSUME NEW n, NEW D, annotation \subseteq Annotations(n, D),
           NEW status \in {"saved", "followed", "dismissed"}, Marked(status)
    PROVE  annotation' \subseteq Annotations(n, D)
BY DEF Marked, Annotations

LEMMA AddsBlocks ==
    ASSUME BlocksInv, Adds, UNCHANGED <<consent, asked>>,
           Orders(order', DOMAIN block \cup {made.blocks + 1}), Len(order') > 0,
           annotation' \subseteq Annotations(made.annotations, DOMAIN block)
    PROVE  BlocksInv'
<1> DEFINE n == made.blocks + 1
           D == DOMAIN block
           counted == [made EXCEPT !.edits = @ + 1]
<1>1. /\ made' = [counted EXCEPT !.blocks = n]
      /\ block' = [x \in D \cup {n} |-> IF x = n THEN NewBlock ELSE block[x]]
      /\ Touched
  BY DEF Adds
<1>2. /\ block \in [D -> BlockTypes] /\ title \in Titles /\ consent \in {"undecided", "enabled", "disabled"}
      /\ Counts(made) /\ D \subseteq 1 .. made.blocks
      /\ \A r \in Awaited("reflect") : asked[r].of \in D
  BY BlocksInvIs
<1>3. n \in Nat /\ n = made.blocks + 1 /\ made.blocks \in Nat /\ Counts(counted) /\ counted.annotations = made.annotations
  BY <1>2 DEF Counts
<1>4. Orders(order', D \cup {n}) /\ annotation' \subseteq Annotations(made.annotations, D)
  OBVIOUS
<1> HIDE DEF n, D, counted
<1>5. Counts(made') /\ made'.blocks = n /\ made'.annotations = made.annotations
  BY <1>1, <1>3 DEF Counts
<1>6. DOMAIN block' = D \cup {n} /\ block' \in [D \cup {n} -> BlockTypes]
  BY <1>1, <1>2, NewBlockIsBlock
<1>7. D \cup {n} \subseteq 1 .. n
  BY <1>2, <1>3, SMTT(20)
<1>8. annotation' \subseteq Annotations(made.annotations, D \cup {n})
  BY <1>4 DEF Annotations
<1>9. \A r \in Awaited("reflect")' : asked'[r].of \in D \cup {n}
  BY <1>2 DEF Awaited, Waiting
<1>10. title' \in Titles /\ consent' \in {"undecided", "enabled", "disabled"}
  BY <1>1, <1>2, TouchedTitle
<1> QED
  BY <1>4, <1>5, <1>6, <1>7, <1>8, <1>9, <1>10, BlocksInvThen

LEMMA AddBlockMargin ==
    ASSUME PatientAuthor, MarginInd, AddBlock PROVE MarginInd'
<1> DEFINE n == made.blocks + 1
<1>1. /\ Patient /\ Adds /\ correction' = Shown(correction)
      /\ UNCHANGED <<asked, busy, organizer, finishing, mic, consent, annotation>>
  BY DEF AddBlock, wire
<1>2. mic = "off" /\ finishing = NotFinishing
  BY <1>1, PatientIsQuiet DEF MarginInd
<1>3. PICK i \in 1 .. Len(order) : order' = InsertAt(order, i + 1, n)
  BY DEF AddBlock
<1>4. /\ Orders(order, DOMAIN block) /\ n \notin DOMAIN block /\ Len(order) \in Nat
      /\ annotation \subseteq Annotations(made.annotations, DOMAIN block)
  BY BlocksInvIs DEF MarginInd, Counts, Orders
<1>5. Orders(order', DOMAIN block \cup {n}) /\ Len(order') = Len(order) + 1
  BY <1>3, <1>4, OrderInserted
<1>6. BlocksInv'
  BY <1>1, <1>4, <1>5, AddsBlocks DEF MarginInd
<1> QED
  BY <1>1, <1>2, <1>6, ElsewhereMargin DEF MarginInd

LEMMA FollowMargin ==
    ASSUME PatientAuthor, MarginInd, Follow PROVE MarginInd'
<1> DEFINE n == made.blocks + 1
<1>1. /\ Patient /\ Adds /\ correction' = Shown(correction) /\ Marked("followed")
      /\ order' = Append(order, n)
      /\ UNCHANGED <<asked, busy, organizer, finishing, mic, consent>>
  BY DEF Follow, wire
<1>2. mic = "off" /\ finishing = NotFinishing
  BY <1>1, PatientIsQuiet DEF MarginInd
<1>4. /\ Orders(order, DOMAIN block) /\ n \notin DOMAIN block /\ Len(order) \in Nat
      /\ annotation \subseteq Annotations(made.annotations, DOMAIN block)
  BY BlocksInvIs DEF MarginInd, Counts, Orders
<1>5. Orders(order', DOMAIN block \cup {n}) /\ Len(order') = Len(order) + 1
  BY <1>1, <1>4, OrderAppended
<1>6. annotation' \subseteq Annotations(made.annotations, DOMAIN block)
  BY <1>1, <1>4, MarkedAnnotations
<1>7. BlocksInv'
  BY <1>1, <1>4, <1>5, <1>6, AddsBlocks DEF MarginInd
<1> QED
  BY <1>1, <1>2, <1>7, ElsewhereMargin DEF MarginInd

(* The only block is replaced; with it go all annotations.                 *)
LEMMA LastBlockReplaced ==
    ASSUME PatientAuthor, BlocksInv, NEW b \in Blocks, DeleteBlock(b), Len(order) = 1
    PROVE  BlocksInv'
<1> DEFINE n == made.blocks + 1
<1>1. DOMAIN block = {b}
  <2>1. Blocks = DOMAIN block /\ DOMAIN order = 1 .. 1
    BY BlocksAreOrdered
  <2>2. \A x \in Blocks : x = order[1]
    BY <2>1 DEF Blocks, ToSet
  <2> QED
    BY <2>1, <2>2
<1>2. /\ order' = <<n>> /\ block' = [x \in {n} |-> NewBlock]
      /\ made' = [made EXCEPT !.edits = @ + 1, !.blocks = n]
      /\ Touched /\ UNCHANGED <<consent, asked>>
      /\ annotation' = {a \in annotation : a.block # b}
      /\ \A r \in Awaited("reflect") : asked[r].of # b
  BY DEF DeleteBlock, OfOthers, PatientAuthor, wire
<1>3. /\ title \in Titles /\ consent \in {"undecided", "enabled", "disabled"} /\ Counts(made)
      /\ annotation \subseteq Annotations(made.annotations, DOMAIN block)
      /\ \A r \in Awaited("reflect") : asked[r].of \in DOMAIN block
  BY BlocksInvIs
<1>4. annotation' = {} /\ Awaited("reflect")' = {}
  BY <1>1, <1>2, <1>3 DEF Annotations, Awaited, Waiting
<1>5. n \in Nat /\ n > 0
  BY <1>3 DEF Counts
<1>6. Counts(made') /\ made'.blocks = n
  <2> DEFINE counted == [made EXCEPT !.edits = @ + 1]
  <2>1. Counts(counted) /\ made' = [counted EXCEPT !.blocks = n]
    BY <1>2, <1>3 DEF Counts
  <2> HIDE DEF n, counted
  <2> QED
    BY <1>5, <2>1 DEF Counts
<1> HIDE DEF n
<1>7. Orders(order', {n}) /\ Len(order') > 0
  BY <1>2 DEF Orders, Distinct, ToSet
<1>8. DOMAIN block' = {n} /\ block' \in [{n} -> BlockTypes]
  BY <1>2, NewBlockIsBlock
<1>9. title' \in Titles /\ consent' \in {"undecided", "enabled", "disabled"}
  BY <1>2, <1>3, TouchedTitle
<1>10. {n} \subseteq 1 .. n
  BY <1>5
<1> QED
  BY <1>4, <1>6, <1>7, <1>8, <1>9, <1>10, BlocksInvThen

LEMMA BlockRemoved ==
    ASSUME PatientAuthor, BlocksInv, NEW b \in Blocks, DeleteBlock(b), Len(order) # 1
    PROVE  BlocksInv'
<1> DEFINE D == DOMAIN block \ {b}
<1>1. /\ order' = RemoveAt(order, At(b)) /\ block' = [x \in D |-> block[x]]
      /\ made' = [made EXCEPT !.edits = @ + 1]
      /\ Touched /\ UNCHANGED <<consent, asked>>
      /\ annotation' = {a \in annotation : a.block # b}
      /\ \A r \in Awaited("reflect") : asked[r].of # b
  BY DEF DeleteBlock, OfOthers, PatientAuthor, Rest, wire
<1>2. /\ title \in Titles /\ consent \in {"undecided", "enabled", "disabled"} /\ Counts(made)
      /\ block \in [DOMAIN block -> BlockTypes]
      /\ Orders(order, DOMAIN block) /\ Len(order) \in Nat /\ Len(order) > 0
      /\ DOMAIN block \subseteq 1 .. made.blocks
      /\ annotation \subseteq Annotations(made.annotations, DOMAIN block)
      /\ \A r \in Awaited("reflect") : asked[r].of \in DOMAIN block
  BY BlocksInvIs, BlocksAreOrdered
<1>3. At(b) \in DOMAIN order /\ order[At(b)] = b
  <2>1. \E i \in DOMAIN order : order[i] = b
    BY DEF Blocks, ToSet
  <2> QED
    BY <2>1 DEF At
<1>4. Orders(order', D) /\ Len(order') > 0
  <2> DEFINE i == At(b)
  <2>1. i \in DOMAIN order /\ order[i] = b /\ order' = RemoveAt(order, i)
    BY <1>1, <1>3
  <2> HIDE DEF i
  <2>2. Orders(order', DOMAIN block \ {b}) /\ Len(order') = Len(order) - 1
    BY <1>2, <2>1, OrderWithout
  <2> QED
    BY <1>2, <2>2
<1>5. DOMAIN block' = D /\ block' \in [D -> BlockTypes]
  BY <1>1, <1>2
<1>6. Counts(made') /\ made'.blocks = made.blocks /\ made'.annotations = made.annotations
  BY <1>1, <1>2 DEF Counts
<1>7. title' \in Titles /\ consent' \in {"undecided", "enabled", "disabled"}
  BY <1>1, <1>2, TouchedTitle
<1>8. annotation' \subseteq Annotations(made.annotations, D)
  BY <1>1, <1>2 DEF Annotations
<1>9. \A r \in Awaited("reflect")' : asked'[r].of \in D
  BY <1>1, <1>2 DEF Awaited, Waiting
<1>10. D \subseteq 1 .. made.blocks
  BY <1>2
<1> HIDE DEF D
<1> QED
  BY <1>4, <1>5, <1>6, <1>7, <1>8, <1>9, <1>10, BlocksInvThen

LEMMA DeleteMargin ==
    ASSUME PatientAuthor, MarginInd, NEW b \in Blocks, DeleteBlock(b) PROVE MarginInd'
<1>1. /\ Patient /\ correction' = Shown(correction)
      /\ UNCHANGED <<asked, busy, organizer, finishing, mic>>
  BY DEF DeleteBlock, wire
<1>2. mic = "off" /\ finishing = NotFinishing
  BY <1>1, PatientIsQuiet DEF MarginInd
<1>3. BlocksInv'
  BY LastBlockReplaced, BlockRemoved DEF MarginInd
<1> QED
  BY <1>1, <1>2, <1>3, ElsewhereMargin DEF MarginInd

-----------------------------------------------------------------------------
(* Requests and their answers.                                             *)

LEMMA AwaitedThen == \A kind \in Live : Awaited(kind)' = AwaitedIn(asked', kind)
BY DEF Awaited, Waiting, AwaitedIn, Live

LEMMA LiveKinds == /\ "reflect" \in Live /\ "organize" \in Live /\ "clean" \in Live
                   /\ "transcribe" \in Live /\ "unwanted" \in Live
BY DEF Live, AskKinds

Organizer(o) == DOMAIN o = {"busy", "last"} /\ o = [x \in DOMAIN o |-> o[x]]

LEMMA AsksInvIs ==
    AsksInv <=> /\ Asks(asked) /\ Organizer(organizer)
                /\ busy = (AwaitedIn(asked, "reflect") # {}) /\ Single(AwaitedIn(asked, "reflect"))
                /\ organizer.busy = (AwaitedIn(asked, "organize") # {})
                /\ Single(AwaitedIn(asked, "organize"))
                /\ (finishing.step = "cleaning") = (AwaitedIn(asked, "clean") # {})
                /\ Single(AwaitedIn(asked, "clean"))
<1>1. /\ Awaited("reflect") = AwaitedIn(asked, "reflect")
      /\ Awaited("organize") = AwaitedIn(asked, "organize")
      /\ Awaited("clean") = AwaitedIn(asked, "clean")
  BY AwaitedNow, LiveKinds
<1> QED
  BY <1>1 DEF AsksInv, Asks, Organizer

LEMMA AsksInvThen ==
    ASSUME Asks(asked'), Organizer(organizer'),
           busy' = (AwaitedIn(asked', "reflect") # {}), Single(AwaitedIn(asked', "reflect")),
           organizer'.busy = (AwaitedIn(asked', "organize") # {}),
           Single(AwaitedIn(asked', "organize")),
           (finishing'.step = "cleaning") = (AwaitedIn(asked', "clean") # {}),
           Single(AwaitedIn(asked', "clean"))
    PROVE  AsksInv'
<1>1. /\ Awaited("reflect")' = AwaitedIn(asked', "reflect")
      /\ Awaited("organize")' = AwaitedIn(asked', "organize")
      /\ Awaited("clean")' = AwaitedIn(asked', "clean")
  BY AwaitedThen, LiveKinds
<1> QED
  BY <1>1 DEF AsksInv, Asks, Organizer

(* A request or an answer of a kind that shows as no flag.                 *)
LEMMA AsksOfOtherKinds ==
    ASSUME AsksInv, Asks(asked'), UNCHANGED <<busy, organizer>>,
           (finishing'.step = "cleaning") <=> (finishing.step = "cleaning"),
           \A kind \in {"reflect", "organize", "clean"} :
              AwaitedIn(asked', kind) = AwaitedIn(asked, kind)
    PROVE  AsksInv'
<1>1. /\ AwaitedIn(asked', "reflect") = AwaitedIn(asked, "reflect")
      /\ AwaitedIn(asked', "organize") = AwaitedIn(asked, "organize")
      /\ AwaitedIn(asked', "clean") = AwaitedIn(asked, "clean")
  OBVIOUS
<1>2. (finishing'.step = "cleaning") = (finishing.step = "cleaning")
  OBVIOUS
<1> QED
  BY <1>1, <1>2, AsksInvIs, AsksInvThen

LEMMA SelectedIsBlock == BlocksInv => Selected \in DOMAIN block
<1> SUFFICES ASSUME BlocksInv PROVE Selected \in DOMAIN block
  OBVIOUS
<1>1. order \in Seq(DOMAIN block) /\ Len(order) > 0 /\ DOMAIN block \subseteq ToSet(order)
  BY DEF BlocksInv
<1>2. Blocks = DOMAIN block /\ 1 \in DOMAIN order
  BY <1>1, BlocksAreOrdered
<1>3. order[1] \in Blocks
  BY <1>2 DEF Blocks, ToSet
<1> QED
  BY <1>2, <1>3 DEF Selected, SelectedOf, Blocks, BlocksInv

LEMMA FreeIsUnsent == ASSUME NEW r, Free(r) PROVE r \in Request /\ asked[r] = Nothing
<1>1. r \in Unsent
  BY DEF Free
<1> QED
  BY <1>1 DEF Unsent

LEMMA OrganizeMargin ==
    ASSUME NothingHasNoFields, MarginInd, NEW r \in Request, Organize(r) PROVE MarginInd'
<1>1. /\ ~organizer.busy /\ Free(r) /\ organizer' = [busy |-> TRUE, last |-> Fingerprint]
      /\ UNCHANGED <<document, order, selected, made, annotation, busy, correction, mic, finishing>>
  BY DEF Organize, document, margin
<1>2. PICK q : IsAsk(q) /\ q.kind = "organize" /\ asked' = [asked EXCEPT ![r] = q]
  <2> DEFINE a == Ask("organize", 0, 0)
             v == [b \in Written |-> block[b].version]
             n == IF TitleEligible THEN title.version ELSE 0
             w == [a EXCEPT !.versions = v]
             q == [w EXCEPT !.named = n]
  <2>1. IsAsk(a) /\ a.kind = "organize"
    BY AskIsAsk DEF AskKinds
  <2>2. asked' = [asked EXCEPT ![r] = q]
    BY DEF Organize, Sends
  <2> HIDE DEF a, v, n
  <2>3. IsAsk(w) /\ w.kind = "organize"
    BY <2>1 DEF IsAsk, AskFields
  <2> HIDE DEF w
  <2>4. IsAsk(q) /\ q.kind = "organize"
    BY <2>3 DEF IsAsk, AskFields
  <2> QED
    BY <2>2, <2>4
<1>3. AsksInv /\ Asks(asked) /\ AwaitedIn(asked, "organize") = {}
  BY <1>1, AsksInvIs DEF MarginInd
<1>4. AsksAlso(asked', asked, r, q)
  <2>1. asked[r] = Nothing /\ Asks(asked) /\ IsAsk(q) /\ asked' = [asked EXCEPT ![r] = q]
    BY <1>1, <1>2, <1>3, FreeIsUnsent
  <2> QED
    BY <2>1, SentIsAwaited
<1>5. /\ AwaitedIn(asked', "organize") = {r} /\ AwaitedIn(asked', "reflect") = AwaitedIn(asked, "reflect")
      /\ AwaitedIn(asked', "clean") = AwaitedIn(asked, "clean")
      /\ AwaitedIn(asked', "transcribe") = AwaitedIn(asked, "transcribe")
  BY <1>2, <1>3, <1>4, LiveKinds DEF AsksAlso
<1>6. AsksInv'
  <2>1. Organizer(organizer') /\ organizer'.busy = TRUE /\ Single({r})
    BY <1>1 DEF Organizer, Single
  <2> QED
    BY <1>1, <1>3, <1>4, <1>5, <2>1, AsksInvIs, AsksInvThen DEF AsksAlso
<1>7. /\ Awaited("reflect")' = Awaited("reflect") /\ Awaited("transcribe")' = Awaited("transcribe")
      /\ \A x \in Awaited("reflect") \cup Awaited("transcribe") : asked'[x] = asked[x]
  <2>1. \A x \in AwaitedIn(asked, "reflect") \cup AwaitedIn(asked, "transcribe") : x # r
    BY <1>1, FreeIsUnsent DEF AwaitedIn
  <2>2. \A x \in AwaitedIn(asked, "reflect") \cup AwaitedIn(asked, "transcribe") : asked'[x] = asked[x]
    BY <1>4, <2>1 DEF AwaitedIn, AsksAlso
  <2> QED
    BY <1>5, <2>2, AwaitedNow, AwaitedThen, LiveKinds
<1>8. BlocksInv'
  BY <1>1, <1>7, BlocksStay DEF MarginInd, BlocksInv
<1>9. CorrectionInv'
  BY <1>1, <1>7, SameReflection, CorrectionStays DEF MarginInd
<1> QED
  BY <1>6, <1>8, <1>9 DEF MarginInd

(* An answer: nothing else is awaited than before, and what is stays.      *)
LEMMA AnsweredIsOver ==
    ASSUME NothingHasNoFields, MarginInd, NEW r \in Request, Waiting(r), asked' = Over(r)
    PROVE  /\ Asks(asked') /\ r \in AwaitedIn(asked, asked[r].kind) /\ asked[r].kind \in Live
           /\ \A kind \in Live : \A x :
                 x \in AwaitedIn(asked', kind) <=> x \in AwaitedIn(asked, kind) /\ x # r
           /\ \A kind \in Live : \A x : x \in Awaited(kind)' <=> x \in Awaited(kind) /\ x # r
           /\ \A kind \in Live : \A x \in Awaited(kind)' : asked'[x] = asked[x]
<1>1. Asks(asked) /\ IsAsk(asked[r])
  BY AsksInvIs DEF MarginInd, Asks, Waiting
<1>2. Answers(asked', asked, r)
  <2> DEFINE q == Ask("done", 0, 0)
  <2>1. asked' = [asked EXCEPT ![r] = q]
    BY DEF Over
  <2>2. IsAsk(q) /\ q.kind = "done"
    BY AskIsAsk DEF AskKinds
  <2> HIDE DEF q
  <2> QED
    BY <1>1, <2>1, <2>2, OverIsNotAwaited
<1>3. r \in AwaitedIn(asked, asked[r].kind) /\ asked[r].kind \in Live
  BY <1>1 DEF AwaitedIn, Waiting, Live, IsAsk
<1>4. \A kind \in Live : \A x : x \in Awaited(kind)' <=> x \in Awaited(kind) /\ x # r
  BY <1>2, AwaitedNow, AwaitedThen DEF Answers
<1>5. \A kind \in Live : \A x \in Awaited(kind)' : x \in Request /\ x # r
  BY <1>4 DEF Awaited
<1> QED
  BY <1>1, <1>2, <1>3, <1>4, <1>5 DEF Answers

LEMMA OrganizedMargin ==
    ASSUME NothingHasNoFields, MarginInd, NEW r \in Request, Waiting(r), asked[r].kind = "organize",
           NEW reply, Organized(r, reply)
    PROVE  MarginInd'
<1>1. /\ asked' = Over(r) /\ organizer' = [organizer EXCEPT !.busy = FALSE]
      /\ UNCHANGED <<order, consent, selected, made, annotation, busy, correction, mic, finishing>>
  BY DEF Organized, margin
<1>2. /\ Asks(asked') /\ r \in AwaitedIn(asked, "organize")
      /\ \A kind \in Live : \A x :
            x \in AwaitedIn(asked', kind) <=> x \in AwaitedIn(asked, kind) /\ x # r
      /\ \A kind \in Live : \A x : x \in Awaited(kind)' <=> x \in Awaited(kind) /\ x # r
      /\ \A kind \in Live : \A x \in Awaited(kind)' : asked'[x] = asked[x]
  BY <1>1, AnsweredIsOver
<1>3. AsksInv'
  <2>1. AsksInv
    BY DEF MarginInd
  <2>2. Organizer(organizer') /\ organizer'.busy = FALSE
    BY <1>1, <2>1, AsksInvIs DEF Organizer
  <2>3. r \notin AwaitedIn(asked, "reflect") /\ r \notin AwaitedIn(asked, "clean")
    BY DEF AwaitedIn
  <2>4. /\ AwaitedIn(asked', "reflect") = AwaitedIn(asked, "reflect")
        /\ AwaitedIn(asked', "clean") = AwaitedIn(asked, "clean")
        /\ AwaitedIn(asked', "organize") = {}
    <3>1. Single(AwaitedIn(asked, "organize"))
      BY <2>1, AsksInvIs
    <3> QED
      BY <1>2, <2>3, <3>1, LiveKinds, SMTT(20) DEF Single
  <2>5. Single({})
    BY DEF Single
  <2> QED
    BY <1>1, <1>2, <2>1, <2>2, <2>4, <2>5, AsksInvIs, AsksInvThen
<1>4. CorrectionInv'
  <2>1. /\ \A x \in Awaited("transcribe")' : x \in Awaited("transcribe") /\ asked'[x] = asked[x]
        /\ \A x \in Awaited("reflect")' : x \in Awaited("reflect") /\ asked'[x] = asked[x]
    BY <1>2, LiveKinds
  <2> QED
    BY <1>1, <2>1, SameReflection, CorrectionStays DEF MarginInd
<1>5. BlocksInv'
  <2> DEFINE q == asked[r]
  <2>1. block' = [b \in DOMAIN block |->
                    IF b \in reply.has /\ Classifiable(q, b)
                    THEN [block[b] EXCEPT !.kind = "generated", !.read = q.versions[b]]
                    ELSE block[b]]
    BY DEF Organized
  <2>2. title' = IF reply.ok /\ Nameable(q)
                 THEN [title EXCEPT !.source = "generated", !.read = q.named] ELSE title
    BY DEF Organized
  <2>3. Nameable(q) => q.named = title.version
    BY DEF Nameable
  <2>4. \A b : Classifiable(q, b) => q.versions[b] = block[b].version
    BY DEF Classifiable
  <2>5. block \in [DOMAIN block -> BlockTypes] /\ title \in Titles
    BY BlocksInvIs DEF MarginInd
  <2> HIDE DEF q
  <2>6. ASSUME NEW b \in DOMAIN block PROVE block'[b] \in BlockTypes
    <3>1. CASE b \in reply.has /\ Classifiable(q, b)
      <4>1. block'[b] = [block[b] EXCEPT !.kind = "generated", !.read = block[b].version]
        BY <2>1, <2>4, <3>1
      <4> QED
        BY <2>5, <4>1 DEF BlockTypes, Kinds
    <3>2. CASE ~(b \in reply.has /\ Classifiable(q, b))
      BY <2>1, <2>5, <3>2
    <3> QED
      BY <3>1, <3>2
  <2>7. title' \in Titles
    BY <2>2, <2>3, <2>5 DEF Titles
  <2>8. block' \in [DOMAIN block' -> BlockTypes] /\ DOMAIN block' = DOMAIN block
    BY <2>1, <2>6
  <2>9. /\ consent \in {"undecided", "enabled", "disabled"} /\ Counts(made)
        /\ Orders(order, DOMAIN block) /\ Len(order) > 0 /\ DOMAIN block \subseteq 1 .. made.blocks
        /\ annotation \subseteq Annotations(made.annotations, DOMAIN block)
        /\ \A x \in Awaited("reflect") : asked[x].of \in DOMAIN block
    BY BlocksInvIs DEF MarginInd
  <2>10. \A x \in Awaited("reflect")' : asked'[x].of \in DOMAIN block'
    BY <1>2, <2>8, <2>9, LiveKinds
  <2> QED
    BY <1>1, <2>7, <2>8, <2>9, <2>10, BlocksInvThen
<1> QED
  BY <1>3, <1>4, <1>5 DEF MarginInd

-----------------------------------------------------------------------------
(* A correction of the reflection that stays.                              *)

IsCorrection(c) ==
    /\ c = [x \in DOMAIN c |-> c[x]] /\ DOMAIN c = {"field", "session", "status"}
    /\ c.status \in {"idle", "requesting", "recording", "processing", "interrupted"}
Microphone(c, m) ==
    /\ m \in {"off", "asked", "on"}
    /\ m = "asked" <=> c.status = "requesting"
    /\ m = "on" <=> c.status = "recording"

LEMMA CorrectionThen ==
    ASSUME Current' = Current, IsCorrection(correction'), Microphone(correction', mic'),
           finishing'.step \in {"none", "waiting", "cleaning"}, Here(correction'.field),
           correction'.session # Nothing =>
              /\ IsSession(correction'.session)
              /\ \A r \in Awaited("transcribe")' : Here({asked'[r].about}),
           mic' # "off" => /\ Current # 0 /\ ~busy' /\ correction'.session # Nothing
                           /\ finishing' = NotFinishing,
           correction'.status = "processing" => finishing' # NotFinishing,
           finishing' # NotFinishing => Current # 0 /\ finishing'.step # "none",
           finishing'.step = "cleaning" => IsSession(finishing'.said),
           \A r \in Awaited("reflect")' : asked'[r].about = 0 => finishing' = NotFinishing
    PROVE  CorrectionInv'
<1>1. \A ids : Here(ids)' <=> Here(ids)
  BY DEF Here
<1>2. \A s : IsSession(s) => IsSession(s)'
  BY <1>1 DEF IsSession
<1>3. /\ Here(correction.field)'
      /\ correction'.session # Nothing =>
            /\ IsSession(correction.session)'
            /\ \A r \in Awaited("transcribe")' : Here({asked[r].about})'
  BY <1>1, <1>2
<1>4. finishing'.step = "cleaning" => IsSession(finishing.said)'
  BY <1>2
<1> QED
  BY <1>3, <1>4 DEF CorrectionInv, IsCorrection, Microphone

LEMMA CorrectionInvIs ==
    CorrectionInv => IsCorrection(correction) /\ Microphone(correction, mic)
BY DEF CorrectionInv, IsCorrection, Microphone

(* One more request.                                                       *)
LEMMA AnotherIsAsked ==
    ASSUME NothingHasNoFields, MarginInd, NEW r \in Request, Free(r), NEW q, IsAsk(q),
           asked' = [asked EXCEPT ![r] = q]
    PROVE  /\ Asks(asked') /\ asked'[r] = q
           /\ \A kind \in Live : \A x :
                 x \in AwaitedIn(asked', kind) <=> x \in AwaitedIn(asked, kind) \/ (x = r /\ kind = q.kind)
           /\ \A kind \in Live : \A x :
                 x \in Awaited(kind)' <=> x \in Awaited(kind) \/ (x = r /\ kind = q.kind)
           /\ \A kind \in Live : \A x \in Awaited(kind) : asked'[x] = asked[x]
<1>1. asked[r] = Nothing /\ Asks(asked)
  BY FreeIsUnsent, AsksInvIs DEF MarginInd
<1>2. AsksAlso(asked', asked, r, q)
  BY <1>1, SentIsAwaited
<1>3. \A kind \in Live : \A x :
         x \in Awaited(kind)' <=> x \in Awaited(kind) \/ (x = r /\ kind = q.kind)
  BY <1>2, AwaitedNow, AwaitedThen, ZenonT(40) DEF AsksAlso
<1>4. \A kind \in Live : \A x \in Awaited(kind) : x \in Request /\ x # r
  BY <1>1 DEF Awaited, Waiting
<1> QED
  BY <1>2, <1>3, <1>4 DEF AsksAlso

(* A reflection is asked for while none is.                                *)
LEMMA ReflectionAsked ==
    ASSUME NothingHasNoFields, MarginInd, NEW r \in Request, NEW about, ~busy,
           RunReflection(r, about), UNCHANGED <<finishing, organizer>>
    PROVE  /\ AsksInv' /\ \A x \in Awaited("reflect")' : asked'[x].of = Selected /\ asked'[x].about = about
           /\ \A x \in Awaited("transcribe")' : x \in Awaited("transcribe") /\ asked'[x] = asked[x]
<1> DEFINE q == Ask("reflect", Selected, about)
<1>1. Free(r) /\ asked' = [asked EXCEPT ![r] = q] /\ busy' = TRUE
  BY DEF RunReflection, Sends
<1>2. IsAsk(q) /\ q.kind = "reflect" /\ q.of = Selected /\ q.about = about
  BY AskIsAsk DEF AskKinds
<1> HIDE DEF q
<1>3. /\ Asks(asked') /\ asked'[r] = q
      /\ \A kind \in Live : \A x :
            x \in AwaitedIn(asked', kind) <=> x \in AwaitedIn(asked, kind) \/ (x = r /\ kind = q.kind)
      /\ \A kind \in Live : \A x :
            x \in Awaited(kind)' <=> x \in Awaited(kind) \/ (x = r /\ kind = q.kind)
      /\ \A kind \in Live : \A x \in Awaited(kind) : asked'[x] = asked[x]
  BY <1>1, <1>2, AnotherIsAsked
<1>4. AsksInv /\ AwaitedIn(asked, "reflect") = {} /\ Awaited("reflect") = {}
  BY AsksInvIs, AwaitedNow, LiveKinds DEF MarginInd
<1>5. /\ AwaitedIn(asked', "reflect") = {r}
      /\ AwaitedIn(asked', "organize") = AwaitedIn(asked, "organize")
      /\ AwaitedIn(asked', "clean") = AwaitedIn(asked, "clean")
  BY <1>2, <1>3, <1>4, LiveKinds
<1>6. Single({r})
  BY DEF Single
<1>7. AsksInv'
  BY <1>1, <1>3, <1>4, <1>5, <1>6, AsksInvIs, AsksInvThen
<1>8. \A x \in Awaited("reflect")' : x = r
  BY <1>3, <1>4, LiveKinds
<1>9. \A x \in Awaited("transcribe")' : x \in Awaited("transcribe")
  BY <1>2, <1>3, LiveKinds
<1> QED
  BY <1>2, <1>3, <1>7, <1>8, <1>9, LiveKinds

LEMMA ReflectMargin ==
    ASSUME NothingHasNoFields, MarginInd, NEW r \in Request, Reflect(r) PROVE MarginInd'
<1>1. /\ ~busy /\ Current = 0 /\ RunReflection(r, 0)
      /\ UNCHANGED <<document, selected, order, made, annotation, correction, mic, finishing, organizer>>
  BY DEF Reflect, document
<1>2. /\ AsksInv' /\ \A x \in Awaited("reflect")' : asked'[x].of = Selected /\ asked'[x].about = 0
      /\ \A x \in Awaited("transcribe")' : x \in Awaited("transcribe") /\ asked'[x] = asked[x]
  BY <1>1, ReflectionAsked
<1>3. finishing = NotFinishing /\ mic = "off"
  BY <1>1 DEF MarginInd, CorrectionInv
<1>4. CorrectionInv'
  BY <1>1, <1>2, <1>3, SameReflection, CorrectionStays DEF MarginInd
<1>5. BlocksInv'
  BY <1>1, <1>2, SelectedIsBlock, BlocksStay DEF MarginInd
<1> QED
  BY <1>2, <1>4, <1>5 DEF MarginInd

(* The field of the reflection that stays, while nothing is dictated.      *)
LEMMA FieldChanged ==
    ASSUME CorrectionInv, ~Dictating, Current' = Current, UNCHANGED <<mic, finishing>>,
           NEW field, Here(field), correction' = [correction EXCEPT !.field = field],
           \A r \in Awaited("transcribe")' : r \in Awaited("transcribe") /\ asked'[r] = asked[r],
           \A r \in Awaited("reflect")' : asked'[r].about = 0 =>
               r \in Awaited("reflect") /\ asked'[r] = asked[r]
    PROVE  CorrectionInv'
<1>1. IsCorrection(correction) /\ Microphone(correction, mic)
  BY CorrectionInvIs
<1>2. /\ IsCorrection(correction') /\ correction'.field = field
      /\ correction'.session = correction.session /\ correction'.status = correction.status
  BY <1>1 DEF IsCorrection
<1>3. Microphone(correction', mic') /\ mic = "off"
  BY <1>1, <1>2 DEF Microphone, Dictating
<1>4. correction'.session # Nothing =>
         /\ IsSession(correction'.session)
         /\ \A r \in Awaited("transcribe")' : Here({asked'[r].about})
  BY <1>2 DEF CorrectionInv
<1>5. \A r \in Awaited("reflect")' : asked'[r].about = 0 => finishing' = NotFinishing
  BY DEF CorrectionInv
<1>6. finishing'.step = "cleaning" => IsSession(finishing'.said)
  BY DEF CorrectionInv
<1>7. /\ correction'.status = "processing" => finishing' # NotFinishing
      /\ finishing' # NotFinishing => Current # 0 /\ finishing'.step # "none"
      /\ finishing'.step \in {"none", "waiting", "cleaning"}
  BY <1>2 DEF CorrectionInv
<1> QED
  BY <1>2, <1>3, <1>4, <1>5, <1>6, <1>7, CorrectionThen

LEMMA RespondMargin ==
    ASSUME NothingHasNoFields, MarginInd, Respond PROVE MarginInd'
<1>1. /\ ~busy /\ ~Dictating /\ Current # 0 /\ correction' = [correction EXCEPT !.field = {}]
      /\ UNCHANGED <<document, selected, order, made, annotation, mic, finishing, organizer>>
  BY DEF Respond, document
<1>2. /\ AsksInv'
      /\ \A x \in Awaited("reflect")' : asked'[x].of = Selected /\ asked'[x].about # 0
      /\ \A x \in Awaited("transcribe")' : x \in Awaited("transcribe") /\ asked'[x] = asked[x]
  <2>1. CASE block[Selected].words > 0
    <3>1. PICK r \in Request : RunReflection(r, Current)
      BY <2>1 DEF Respond
    <3> QED
      BY <1>1, <3>1, ReflectionAsked
  <2>2. CASE ~(block[Selected].words > 0)
    <3>1. UNCHANGED <<busy, asked>>
      BY <2>2 DEF Respond
    <3>2. \A kind : Awaited(kind)' = Awaited(kind)
      BY <3>1 DEF Awaited, Waiting
    <3>3. Awaited("reflect") = {}
      BY <1>1 DEF MarginInd, AsksInv
    <3> QED
      BY <1>1, <3>1, <3>2, <3>3, AsksStay DEF MarginInd
  <2> QED
    BY <2>1, <2>2
<1>3. Here({}) /\ Current' = Current
  BY <1>1, SameReflection DEF Here
<1>4. CorrectionInv'
  BY <1>1, <1>2, <1>3, FieldChanged DEF MarginInd
<1>5. BlocksInv'
  BY <1>1, <1>2, SelectedIsBlock, BlocksStay DEF MarginInd
<1> QED
  BY <1>2, <1>4, <1>5 DEF MarginInd

LEMMA TypeMargin == ASSUME MarginInd, Type PROVE MarginInd'
<1>1. /\ ~Dictating /\ Current # 0
      /\ correction' = [correction EXCEPT !.field = correction.field \cup {Current}]
      /\ UNCHANGED <<document, selected, order, made, annotation, busy, mic, finishing, organizer, asked>>
  BY DEF Type, document, wire
<1>2. \A kind : Awaited(kind)' = Awaited(kind)
  BY <1>1 DEF Awaited, Waiting
<1>3. Here(correction.field \cup {Current}) /\ Current' = Current
  BY <1>1, SameReflection DEF Here, MarginInd, CorrectionInv
<1>4. CorrectionInv'
  BY <1>1, <1>2, <1>3, FieldChanged DEF MarginInd
<1>5. \A r \in Awaited("reflect")' : asked'[r].of \in DOMAIN block
  BY <1>1, <1>2 DEF MarginInd, BlocksInv
<1> QED
  BY <1>1, <1>4, <1>5, AsksStay, BlocksStay DEF MarginInd

-----------------------------------------------------------------------------
(* Dictating a correction.                                                 *)

(* A cancelled dictation's transcripts are no longer awaited.              *)
LEMMA UnwantedAsks ==
    ASSUME NothingHasNoFields, MarginInd, Unwanted, UNCHANGED <<busy, organizer, finishing>>
    PROVE  /\ AsksInv' /\ Awaited("transcribe")' = {}
           /\ \A x : x \in Awaited("reflect")' <=> x \in Awaited("reflect")
           /\ \A x \in Awaited("reflect") : asked'[x] = asked[x]
<1>1. AsksInv /\ Asks(asked)
  BY AsksInvIs DEF MarginInd
<1>2. /\ Asks(asked') /\ Awaited("transcribe")' = {}
      /\ \A kind \in Live \ {"transcribe", "unwanted"} :
            /\ AwaitedIn(asked', kind) = AwaitedIn(asked, kind)
            /\ \A r \in AwaitedIn(asked, kind) : asked'[r] = asked[r]
  BY <1>1, UnwantedIsNotAwaited
<1>3. \A kind \in {"reflect", "organize", "clean"} : kind \in Live \ {"transcribe", "unwanted"}
  BY LiveKinds
<1>4. \A kind \in {"reflect", "organize", "clean"} : AwaitedIn(asked', kind) = AwaitedIn(asked, kind)
  BY <1>2, <1>3
<1>5. Awaited("reflect")' = AwaitedIn(asked', "reflect") /\ Awaited("reflect") = AwaitedIn(asked, "reflect")
  BY AwaitedNow, AwaitedThen, LiveKinds
<1>6. AsksInv'
  BY <1>1, <1>2, <1>4, AsksOfOtherKinds
<1> QED
  BY <1>2, <1>3, <1>4, <1>5, <1>6

LEMMA BlocksAsBefore ==
    ASSUME BlocksInv, UNCHANGED <<document, made, annotation>>,
           \A x \in Awaited("reflect")' : x \in Awaited("reflect") /\ asked'[x] = asked[x]
    PROVE  BlocksInv'
<1>1. \A x \in Awaited("reflect")' : asked'[x].of \in DOMAIN block
  BY DEF BlocksInv
<1> QED
  BY <1>1, BlocksStay

LEMMA StartMargin ==
    ASSUME NothingHasNoFields, PatientAuthor, MarginInd, StartCorrection PROVE MarginInd'
<1> DEFINE s == [prefix |-> correction.field, said |-> {}]
           listening == [correction EXCEPT !.session = s]
<1>1. /\ Current # 0 /\ ~busy /\ finishing = NotFinishing
      /\ correction' = [listening EXCEPT !.status = "requesting"]
      /\ mic' = "asked" /\ Unwanted
      /\ UNCHANGED <<document, selected, order, made, annotation, busy, finishing, organizer>>
  BY DEF StartCorrection, PatientAuthor, document
<1>2. /\ AsksInv' /\ Awaited("transcribe")' = {}
      /\ \A x \in Awaited("reflect")' : x \in Awaited("reflect") /\ asked'[x] = asked[x]
  BY <1>1, UnwantedAsks
<1>3. IsCorrection(correction) /\ Here(correction.field)
  BY CorrectionInvIs DEF MarginInd, CorrectionInv
<1>4. IsSession(s) /\ s # Nothing
  BY <1>3 DEF IsSession, Value, Here, NothingHasNoFields
<1>5. IsCorrection(listening) /\ listening.session = s /\ listening.field = correction.field
  BY <1>3 DEF IsCorrection
<1> HIDE DEF s, listening
<1>6. /\ IsCorrection(correction') /\ correction'.session = s /\ correction'.field = correction.field
      /\ correction'.status = "requesting"
  BY <1>1, <1>5 DEF IsCorrection
<1>7. Microphone(correction', mic')
  BY <1>1, <1>6 DEF Microphone
<1>8. \A x \in Awaited("transcribe")' : Here({asked'[x].about})
  BY <1>2
<1>9. finishing' = NotFinishing /\ finishing'.step = "none" /\ Current' = Current /\ ~busy'
  BY <1>1, SameReflection DEF NotFinishing
<1>10. CorrectionInv'
  BY <1>1, <1>3, <1>4, <1>6, <1>7, <1>8, <1>9, CorrectionThen
<1>11. BlocksInv'
  BY <1>1, <1>2, BlocksAsBefore DEF MarginInd
<1> QED
  BY <1>2, <1>10, <1>11 DEF MarginInd

LEMMA GrantedMargin == ASSUME MarginInd, Granted PROVE MarginInd'
<1>1. /\ mic = "asked" /\ mic' = "on" /\ correction' = [correction EXCEPT !.status = "recording"]
      /\ UNCHANGED <<document, selected, order, made, annotation, busy, finishing, organizer, asked>>
  BY DEF Granted, document, wire
<1>2. \A kind : Awaited(kind)' = Awaited(kind)
  BY <1>1 DEF Awaited, Waiting
<1>3. IsCorrection(correction)
  BY CorrectionInvIs DEF MarginInd
<1>4. /\ IsCorrection(correction') /\ correction'.session = correction.session
      /\ correction'.field = correction.field /\ correction'.status = "recording"
  BY <1>1, <1>3 DEF IsCorrection
<1>5. Microphone(correction', mic')
  BY <1>1, <1>4 DEF Microphone
<1>6. /\ Current # 0 /\ ~busy' /\ correction.session # Nothing /\ finishing' = NotFinishing
      /\ Here(correction.field) /\ IsSession(correction.session)
      /\ \A x \in Awaited("transcribe")' : Here({asked'[x].about})
  BY <1>1, <1>2 DEF MarginInd, CorrectionInv
<1>7. finishing'.step = "none" /\ Current' = Current
  BY <1>1, <1>6, SameReflection DEF NotFinishing
<1>8. CorrectionInv'
  BY <1>4, <1>5, <1>6, <1>7, CorrectionThen
<1>9. \A x \in Awaited("reflect")' : x \in Awaited("reflect") /\ asked'[x] = asked[x]
  BY <1>1, <1>2
<1> QED
  BY <1>1, <1>8, <1>9, AsksStay, BlocksAsBefore DEF MarginInd

(* What a recorder asks: a transcript for the reflection that is shown.    *)
Asked(waits) ==
    /\ Asks(asked')
    /\ \A kind \in {"reflect", "organize", "clean"} :
          /\ \A x : x \in AwaitedIn(asked', kind) <=> x \in AwaitedIn(waits, kind)
          /\ \A x \in AwaitedIn(waits, kind) : asked'[x] = waits[x]
    /\ \A x \in AwaitedIn(asked', "transcribe") :
          \/ x \in AwaitedIn(waits, "transcribe") /\ asked'[x] = waits[x]
          \/ mic = "on" /\ asked'[x].about = Current

LEMMA TranscribeAsks ==
    ASSUME NothingHasNoFields, NEW waits, Asks(waits),
           \A x \in Request : asked[x] = Nothing => waits[x] = Nothing,
           NEW r \in Request, Transcribe(r, waits), mic = "on"
    PROVE  Asked(waits)
<1> DEFINE q == Ask("transcribe", Selected, Current)
<1>1. Free(r) /\ asked' = [waits EXCEPT ![r] = q]
  BY DEF Transcribe
<1>2. IsAsk(q) /\ q.kind = "transcribe" /\ q.about = Current
  BY AskIsAsk DEF AskKinds
<1> HIDE DEF q
<1>3. waits[r] = Nothing
  BY <1>1, FreeIsUnsent
<1>4. AsksAlso(asked', waits, r, q)
  BY <1>1, <1>2, <1>3, SentIsAwaited
<1>5. \A kind \in Live : \A x \in AwaitedIn(waits, kind) : x \in Request /\ x # r
  BY <1>3 DEF AwaitedIn
<1>6. "reflect" # q.kind /\ "organize" # q.kind /\ "clean" # q.kind
  BY <1>2
<1> QED
  BY <1>2, <1>4, <1>5, <1>6, LiveKinds DEF AsksAlso, Asked

LEMMA StopsAsks ==
    ASSUME NothingHasNoFields, NEW waits, Asks(waits),
           \A x \in Request : asked[x] = Nothing => waits[x] = Nothing, Stops(waits)
    PROVE  Asked(waits)
<1>1. CASE asked' = waits
  BY <1>1 DEF Asked
<1>2. CASE mic = "on" /\ \E r \in Request : Transcribe(r, waits)
  BY <1>2, TranscribeAsks
<1> QED
  BY <1>1, <1>2 DEF Stops

(* While the page waits for nothing else than before.                      *)
LEMMA AskedNothingElse ==
    ASSUME MarginInd, Asked(asked), UNCHANGED <<busy, organizer>>,
           (finishing'.step = "cleaning") <=> (finishing.step = "cleaning")
    PROVE  /\ AsksInv'
           /\ \A x : x \in Awaited("reflect")' => x \in Awaited("reflect") /\ asked'[x] = asked[x]
           /\ \A x \in Awaited("transcribe")' :
                 \/ x \in Awaited("transcribe") /\ asked'[x] = asked[x]
                 \/ mic = "on" /\ asked'[x].about = Current
<1>1. \A kind \in {"reflect", "organize", "clean"} : AwaitedIn(asked', kind) = AwaitedIn(asked, kind)
  BY DEF Asked
<1>2. AsksInv'
  BY <1>1, AsksOfOtherKinds DEF MarginInd, Asked
<1> QED
  BY <1>2, AwaitedNow, AwaitedThen, LiveKinds DEF Asked

(* What is awaited for the session there is stays about its reflection.    *)
LEMMA HeardHere ==
    ASSUME CorrectionInv, correction.session # Nothing,
           \A x \in Awaited("transcribe")' :
              \/ x \in Awaited("transcribe") /\ asked'[x] = asked[x]
              \/ mic = "on" /\ asked'[x].about = Current
    PROVE  \A x \in Awaited("transcribe")' : Here({asked'[x].about})
<1>1. mic = "on" => Current # 0
  BY DEF CorrectionInv
<1>2. \A x \in Awaited("transcribe") : Here({asked[x].about})
  BY DEF CorrectionInv
<1> QED
  BY <1>1, <1>2 DEF Here

LEMMA CheckpointMargin ==
    ASSUME NothingHasNoFields, MarginInd, NEW r \in Request, Checkpoint(r) PROVE MarginInd'
<1>1. /\ mic = "on" /\ Transcribe(r, asked)
      /\ UNCHANGED <<document, selected, order, made, annotation, busy, correction, mic, finishing, organizer>>
  BY DEF Checkpoint, document, margin
<1>2. Asked(asked)
  BY <1>1, TranscribeAsks, AsksInvIs DEF MarginInd
<1>3. /\ AsksInv'
      /\ \A x \in Awaited("reflect")' : x \in Awaited("reflect") /\ asked'[x] = asked[x]
      /\ \A x \in Awaited("transcribe")' :
            \/ x \in Awaited("transcribe") /\ asked'[x] = asked[x]
            \/ mic = "on" /\ asked'[x].about = Current
  BY <1>1, <1>2, AskedNothingElse
<1>4. IsCorrection(correction') /\ Microphone(correction', mic')
  BY <1>1, CorrectionInvIs DEF MarginInd
<1>5. /\ Current # 0 /\ ~busy' /\ correction.session # Nothing /\ finishing' = NotFinishing
      /\ Here(correction.field) /\ IsSession(correction.session)
      /\ finishing'.step = "none" /\ Current' = Current /\ correction'.status = "recording"
  BY <1>1, SameReflection DEF MarginInd, CorrectionInv, NotFinishing
<1>6. \A x \in Awaited("transcribe")' : Here({asked'[x].about})
  BY <1>3, <1>5, HeardHere DEF MarginInd
<1>7. CorrectionInv'
  BY <1>1, <1>4, <1>5, <1>6, CorrectionThen
<1> QED
  BY <1>1, <1>3, <1>7, BlocksAsBefore DEF MarginInd

(* The field and the session stay; what shows and what is held changes.    *)
LEMMA StatusChanged ==
    ASSUME NothingHasNoFields, MarginInd, Current' = Current, NEW status,
           correction' = [correction EXCEPT !.status = status],
           status \in {"interrupted", "processing"}, mic' = "off",
           \A x \in Awaited("reflect")' : x \in Awaited("reflect") /\ asked'[x] = asked[x],
           \A x \in Awaited("transcribe")' :
              \/ x \in Awaited("transcribe") /\ asked'[x] = asked[x]
              \/ mic = "on" /\ asked'[x].about = Current,
           finishing' \in {finishing, NotFinishing, [step |-> "waiting", said |-> Nothing]},
           finishing'.step = "waiting" => Current # 0,
           status = "processing" => finishing'.step = "waiting",
           finishing' \notin {finishing, NotFinishing} => ~busy
    PROVE  CorrectionInv'
<1>1. IsCorrection(correction)
  BY CorrectionInvIs DEF MarginInd
<1>2. /\ IsCorrection(correction') /\ correction'.session = correction.session
      /\ correction'.field = correction.field /\ correction'.status = status
  BY <1>1 DEF IsCorrection
<1>3. Microphone(correction', mic')
  BY <1>2 DEF Microphone
<1>4. correction.session # Nothing => \A x \in Awaited("transcribe")' : Here({asked'[x].about})
  BY HeardHere DEF MarginInd
<1>5. Here(correction.field) /\ (correction.session # Nothing => IsSession(correction.session))
  BY DEF MarginInd, CorrectionInv
<1>6. /\ finishing'.step \in {"none", "waiting", "cleaning"}
      /\ finishing' # NotFinishing => Current # 0 /\ finishing'.step # "none"
      /\ finishing'.step = "cleaning" => IsSession(finishing'.said)
  BY DEF MarginInd, CorrectionInv, NotFinishing
<1>7. status = "processing" => finishing' # NotFinishing
  BY DEF NotFinishing
<1>8. \A x \in Awaited("reflect")' : asked'[x].about = 0 => finishing' = NotFinishing
  <2>1. CASE finishing' \in {finishing, NotFinishing}
    BY <2>1 DEF MarginInd, CorrectionInv
  <2>2. CASE finishing' \notin {finishing, NotFinishing}
    BY <2>2 DEF MarginInd, AsksInv
  <2> QED
    BY <2>1, <2>2
<1> QED
  BY <1>2, <1>3, <1>4, <1>5, <1>6, <1>7, <1>8, CorrectionThen

LEMMA InterruptedMargin == ASSUME NothingHasNoFields, MarginInd, Interrupted PROVE MarginInd'
<1>1. /\ Stops(asked) /\ mic' = "off" /\ correction' = [correction EXCEPT !.status = "interrupted"]
      /\ UNCHANGED <<document, selected, order, made, annotation, busy, finishing, organizer>>
  BY DEF Interrupted, Interrupt, document
<1>2. Asked(asked)
  BY <1>1, StopsAsks, AsksInvIs DEF MarginInd
<1>3. /\ AsksInv'
      /\ \A x \in Awaited("reflect")' : x \in Awaited("reflect") /\ asked'[x] = asked[x]
      /\ \A x \in Awaited("transcribe")' :
            \/ x \in Awaited("transcribe") /\ asked'[x] = asked[x]
            \/ mic = "on" /\ asked'[x].about = Current
  BY <1>1, <1>2, AskedNothingElse
<1>4. finishing'.step = "waiting" => Current # 0
  BY <1>1 DEF MarginInd, CorrectionInv, NotFinishing
<1>5. Current' = Current
  BY <1>1, SameReflection
<1>6. CorrectionInv'
  BY <1>1, <1>3, <1>4, <1>5, StatusChanged
<1> QED
  BY <1>1, <1>3, <1>6, BlocksAsBefore DEF MarginInd

LEMMA FinishMargin == ASSUME NothingHasNoFields, MarginInd, FinishCorrection PROVE MarginInd'
<1>1. /\ Stops(asked) /\ mic' = "off" /\ correction' = [correction EXCEPT !.status = "processing"]
      /\ correction.status = "recording" /\ ~busy
      /\ finishing' = [step |-> "waiting", said |-> Nothing]
      /\ UNCHANGED <<document, selected, order, made, annotation, busy, organizer>>
  BY DEF FinishCorrection, document
<1>2. Asked(asked)
  BY <1>1, StopsAsks, AsksInvIs DEF MarginInd
<1>3. Current # 0 /\ finishing.step = "none" /\ finishing'.step = "waiting"
  BY <1>1 DEF MarginInd, CorrectionInv, NotFinishing
<1>4. /\ AsksInv'
      /\ \A x \in Awaited("reflect")' : x \in Awaited("reflect") /\ asked'[x] = asked[x]
      /\ \A x \in Awaited("transcribe")' :
            \/ x \in Awaited("transcribe") /\ asked'[x] = asked[x]
            \/ mic = "on" /\ asked'[x].about = Current
  BY <1>1, <1>2, <1>3, AskedNothingElse
<1>5. Current' = Current
  BY <1>1, SameReflection
<1>6. CorrectionInv'
  BY <1>1, <1>3, <1>4, <1>5, StatusChanged
<1> QED
  BY <1>1, <1>4, <1>6, BlocksAsBefore DEF MarginInd

(* The dictation is over, and what was said is in the field.               *)
LEMMA EnteredHere ==
    ASSUME NothingHasNoFields, Current' = Current, NEW s, IsSession(s), Entered(s), mic' = "off"
    PROVE  CorrectionInv'
<1> DEFINE c == [field |-> Value(s), session |-> Nothing, status |-> "idle"]
<1>1. correction' = c /\ finishing' = NotFinishing
  BY DEF Entered
<1>2. IsCorrection(c) /\ c.field = Value(s) /\ c.session = Nothing /\ c.status = "idle" /\ Here(c.field)
  BY DEF IsCorrection, IsSession
<1> HIDE DEF c
<1>3. Microphone(correction', mic')
  BY <1>1, <1>2 DEF Microphone
<1>4. finishing'.step = "none"
  BY <1>1 DEF NotFinishing
<1> QED
  BY <1>1, <1>2, <1>3, <1>4, CorrectionThen

LEMMA FinishedMargin == ASSUME NothingHasNoFields, MarginInd, Finished PROVE MarginInd'
<1>1. /\ finishing.step = "waiting"
      /\ UNCHANGED <<document, selected, order, made, annotation, busy, mic, organizer>>
  BY DEF Finished, document
<1>2. /\ Current # 0 /\ finishing # NotFinishing /\ mic' = "off" /\ Current' = Current
      /\ Awaited("clean") = {}
  BY <1>1, SameReflection DEF MarginInd, CorrectionInv, AsksInv, NotFinishing
<1>3. CASE NoWords
  <2>1. /\ correction' = [correction EXCEPT !.status = "interrupted"]
        /\ finishing' = NotFinishing /\ UNCHANGED asked
    BY <1>3 DEF Finished
  <2>2. \A kind : Awaited(kind)' = Awaited(kind)
    BY <2>1 DEF Awaited, Waiting
  <2>3. finishing'.step = "none"
    BY <2>1 DEF NotFinishing
  <2>4. CorrectionInv'
    BY <1>2, <2>1, <2>2, <2>3, StatusChanged
  <2>5. AsksInv'
    <3>1. Asks(asked') /\ \A kind \in {"reflect", "organize", "clean"} : AwaitedIn(asked', kind) = AwaitedIn(asked, kind)
      BY <2>1, AsksInvIs DEF MarginInd
    <3> QED
      BY <1>1, <2>3, <3>1, AsksOfOtherKinds DEF MarginInd
  <2> QED
    BY <1>1, <2>1, <2>2, <2>4, <2>5, BlocksAsBefore DEF MarginInd
<1>4. CASE ~NoWords /\ Entered(correction.session) /\ UNCHANGED asked
  <2>1. \A kind : Awaited(kind)' = Awaited(kind)
    BY <1>4 DEF Awaited, Waiting
  <2>2. IsSession(correction.session)
    BY <1>4 DEF NoWords, MarginInd, CorrectionInv
  <2>3. CorrectionInv'
    BY <1>2, <1>4, <2>2, EnteredHere
  <2>4. finishing'.step = "none"
    BY <1>4 DEF Entered, NotFinishing
  <2>5. AsksInv'
    <3>1. Asks(asked') /\ \A kind \in {"reflect", "organize", "clean"} : AwaitedIn(asked', kind) = AwaitedIn(asked, kind)
      BY <1>4, AsksInvIs DEF MarginInd
    <3> QED
      BY <1>1, <2>4, <3>1, AsksOfOtherKinds DEF MarginInd
  <2> QED
    BY <1>1, <1>4, <2>1, <2>3, <2>5, BlocksAsBefore DEF MarginInd
<1>5. ASSUME ~NoWords, NEW r \in Request, Free(r), Sends(r, Ask("clean", Selected, Current)),
             finishing' = [step |-> "cleaning", said |-> correction.session], UNCHANGED correction
      PROVE  MarginInd'
  <2> DEFINE q == Ask("clean", Selected, Current)
  <2>1. asked' = [asked EXCEPT ![r] = q]
    BY <1>5 DEF Sends
  <2>2. IsAsk(q) /\ q.kind = "clean"
    BY AskIsAsk DEF AskKinds
  <2> HIDE DEF q
  <2>3. /\ Asks(asked') /\ asked'[r] = q
        /\ \A kind \in Live : \A x :
              x \in AwaitedIn(asked', kind) <=> x \in AwaitedIn(asked, kind) \/ (x = r /\ kind = q.kind)
        /\ \A kind \in Live : \A x :
              x \in Awaited(kind)' <=> x \in Awaited(kind) \/ (x = r /\ kind = q.kind)
        /\ \A kind \in Live : \A x \in Awaited(kind) : asked'[x] = asked[x]
    BY <1>5, <2>1, <2>2, AnotherIsAsked
  <2>4. AsksInv /\ AwaitedIn(asked, "clean") = {}
    BY <1>2, AwaitedNow, LiveKinds DEF MarginInd
  <2>5. /\ AwaitedIn(asked', "clean") = {r}
        /\ AwaitedIn(asked', "organize") = AwaitedIn(asked, "organize")
        /\ AwaitedIn(asked', "reflect") = AwaitedIn(asked, "reflect")
    BY <2>2, <2>3, <2>4, LiveKinds
  <2>6. Single({r}) /\ finishing'.step = "cleaning"
    BY <1>5 DEF Single
  <2>7. AsksInv'
    BY <1>1, <2>3, <2>4, <2>5, <2>6, AsksInvIs, AsksInvThen
  <2>8. /\ \A x \in Awaited("reflect")' : x \in Awaited("reflect") /\ asked'[x] = asked[x]
        /\ \A x \in Awaited("transcribe")' : x \in Awaited("transcribe") /\ asked'[x] = asked[x]
    BY <2>2, <2>3, LiveKinds
  <2>9. CorrectionInv'
    <3>1. IsCorrection(correction') /\ Microphone(correction', mic')
      BY <1>1, <1>5, CorrectionInvIs DEF MarginInd
    <3>2. correction.session # Nothing
      BY <1>5 DEF NoWords
    <3>3. /\ Here(correction'.field) /\ IsSession(correction'.session)
          /\ \A x \in Awaited("transcribe")' : Here({asked'[x].about})
      BY <1>5, <2>8, <3>2 DEF MarginInd, CorrectionInv
    <3>4. finishing'.said = correction'.session /\ finishing' # NotFinishing
      BY <1>5 DEF NotFinishing
    <3>5. \A x \in Awaited("reflect")' : asked'[x].about # 0
      BY <1>2, <2>8 DEF MarginInd, CorrectionInv
    <3> QED
      BY <1>2, <2>6, <3>1, <3>2, <3>3, <3>4, <3>5, CorrectionThen
  <2> QED
    BY <1>1, <2>7, <2>8, <2>9, BlocksAsBefore DEF MarginInd
<1> QED
  BY <1>3, <1>4, <1>5 DEF Finished

-----------------------------------------------------------------------------
(* The answers.                                                            *)

LEMMA HeardIsOfTheAsk ==
    ASSUME NEW q, q.kind = "transcribe", NEW reply \in Handle(q) \cup {Failed}
    PROVE  reply.has \subseteq {q.about}
<1>1. Handle(q) = HandleTranscription(q)
  BY DEF Handle
<1> QED
  BY <1>1 DEF HandleTranscription, Answer, Failed

(* An answer to a request of which the page shows nothing.                 *)
LEMMA AnswersElsewhere ==
    ASSUME NothingHasNoFields, MarginInd, NEW r \in Request, Waiting(r),
           asked[r].kind \in {"transcribe", "unwanted"}, asked' = Over(r),
           UNCHANGED <<busy, organizer, finishing>>
    PROVE  /\ AsksInv'
           /\ \A x \in Awaited("reflect")' : x \in Awaited("reflect") /\ asked'[x] = asked[x]
           /\ \A x \in Awaited("transcribe")' : x \in Awaited("transcribe") /\ asked'[x] = asked[x]
<1>1. /\ Asks(asked')
      /\ \A kind \in Live : \A x :
            x \in AwaitedIn(asked', kind) <=> x \in AwaitedIn(asked, kind) /\ x # r
      /\ \A kind \in Live : \A x : x \in Awaited(kind)' <=> x \in Awaited(kind) /\ x # r
      /\ \A kind \in Live : \A x \in Awaited(kind)' : asked'[x] = asked[x]
  BY AnsweredIsOver
<1>2. \A kind \in {"reflect", "organize", "clean"} : kind \in Live /\ r \notin AwaitedIn(asked, kind)
  BY LiveKinds DEF AwaitedIn
<1>3. \A kind \in {"reflect", "organize", "clean"} : AwaitedIn(asked', kind) = AwaitedIn(asked, kind)
  BY <1>1, <1>2
<1>4. AsksInv'
  BY <1>1, <1>3, AsksOfOtherKinds DEF MarginInd
<1> QED
  BY <1>1, <1>4, LiveKinds

LEMMA TranscribedMargin ==
    ASSUME NothingHasNoFields, MarginInd, NEW r \in Request, Waiting(r), asked[r].kind = "transcribe",
           NEW reply \in Handle(asked[r]) \cup {Failed}, Transcribed(r, reply)
    PROVE  MarginInd'
<1>1. /\ UNCHANGED <<document, selected, order, made, annotation, busy, finishing, organizer>>
      /\ Current' = Current
  <2>1. UNCHANGED <<document, selected, order, made, annotation, busy, finishing, organizer>>
    BY DEF Transcribed, document
  <2> QED
    BY <2>1, SameReflection
<1>2. r \in Awaited("transcribe")
  BY DEF Awaited
<1>3. CASE reply.ok
  <2> DEFINE s == correction.session
             longer == [s EXCEPT !.said = s.said \cup reply.has]
             heard == [correction EXCEPT !.session = longer]
  <2>1. /\ asked' = Over(r) /\ mic' = mic
        /\ correction' = IF s = Nothing THEN correction
                         ELSE [correction EXCEPT !.session = longer, !.field = Value(longer)]
    BY <1>3 DEF Transcribed
  <2>2. /\ AsksInv'
        /\ \A x \in Awaited("reflect")' : x \in Awaited("reflect") /\ asked'[x] = asked[x]
        /\ \A x \in Awaited("transcribe")' : x \in Awaited("transcribe") /\ asked'[x] = asked[x]
    BY <1>1, <2>1, AnswersElsewhere
  <2>3. CASE s = Nothing
    <3>1. correction' = correction
      BY <2>1, <2>3
    <3>2. \A x \in Awaited("reflect")' : asked'[x].about = 0 => finishing = NotFinishing
      BY <2>2 DEF MarginInd, CorrectionInv
    <3>3. CorrectionInv'
      BY <1>1, <2>1, <2>2, <3>1, CorrectionStays DEF MarginInd
    <3> QED
      BY <1>1, <2>2, <3>3, BlocksAsBefore DEF MarginInd
  <2>4. CASE s # Nothing
    <3>1. IsSession(s) /\ Here({asked[r].about}) /\ reply.has \subseteq {asked[r].about}
      BY <1>2, <2>4, HeardIsOfTheAsk DEF MarginInd, CorrectionInv
    <3>2. IsSession(longer) /\ longer # Nothing
      BY <3>1 DEF IsSession, Value, Here, NothingHasNoFields
    <3>3. correction' = [heard EXCEPT !.field = Value(longer)]
      BY <2>1, <2>4
    <3>4. IsCorrection(correction) /\ Microphone(correction, mic)
      BY CorrectionInvIs DEF MarginInd
    <3> HIDE DEF longer
    <3>5. IsCorrection(heard) /\ heard.session = longer /\ heard.status = correction.status
      BY <3>4 DEF IsCorrection
    <3> HIDE DEF heard
    <3>6. /\ IsCorrection(correction') /\ correction'.session = longer
          /\ correction'.field = Value(longer) /\ correction'.status = correction.status
      BY <3>3, <3>5 DEF IsCorrection
    <3>7. Microphone(correction', mic') /\ Here(correction'.field)
      BY <2>1, <3>2, <3>4, <3>6 DEF Microphone, IsSession
    <3>8. \A x \in Awaited("transcribe")' : Here({asked'[x].about})
      BY <2>2, <2>4 DEF MarginInd, CorrectionInv
    <3>9. /\ mic' # "off" => Current # 0 /\ ~busy' /\ finishing' = NotFinishing
          /\ correction'.status = "processing" => finishing' # NotFinishing
          /\ finishing' # NotFinishing => Current # 0 /\ finishing'.step # "none"
          /\ finishing'.step = "cleaning" => IsSession(finishing'.said)
          /\ finishing'.step \in {"none", "waiting", "cleaning"}
          /\ \A x \in Awaited("reflect")' : asked'[x].about = 0 => finishing' = NotFinishing
      BY <1>1, <2>1, <2>2, <3>6 DEF MarginInd, CorrectionInv
    <3>10. CorrectionInv'
      BY <1>1, <3>2, <3>6, <3>7, <3>8, <3>9, CorrectionThen
    <3> QED
      BY <1>1, <2>2, <3>10, BlocksAsBefore DEF MarginInd
  <2> QED
    BY <2>3, <2>4
<1>4. CASE ~reply.ok
  <2>1. Stops(Over(r)) /\ mic' = "off" /\ correction' = [correction EXCEPT !.status = "interrupted"]
    BY <1>4 DEF Transcribed, Interrupt
  <2> DEFINE waits == Over(r)
             q == Ask("done", 0, 0)
  <2>2. IsAsk(q) /\ q.kind = "done" /\ waits = [asked EXCEPT ![r] = q]
    BY AskIsAsk DEF AskKinds, Over
  <2>3. Asks(asked) /\ asked[r] # Nothing
    BY AsksInvIs DEF MarginInd, Waiting
  <2> HIDE DEF q, waits
  <2>4. Answers(waits, asked, r)
    BY <2>2, <2>3, OverIsNotAwaited
  <2>5. Asks(waits) /\ \A x \in Request : asked[x] = Nothing => waits[x] = Nothing
    BY <2>3, <2>4 DEF Answers
  <2>6. Asked(waits)
    BY <2>1, <2>5, StopsAsks DEF waits
  <2>7. \A kind \in {"reflect", "organize", "clean"} : kind \in Live /\ r \notin AwaitedIn(asked, kind)
    BY LiveKinds DEF AwaitedIn
  <2>8. \A kind \in {"reflect", "organize", "clean"} : AwaitedIn(asked', kind) = AwaitedIn(asked, kind)
    BY <2>4, <2>6, <2>7 DEF Asked, Answers
  <2>9. AsksInv'
    BY <1>1, <2>6, <2>8, AsksOfOtherKinds DEF MarginInd, Asked
  <2>10. \A kind \in Live : \A x \in AwaitedIn(waits, kind) : x \in AwaitedIn(asked, kind) /\ waits[x] = asked[x]
    BY <2>4 DEF Answers, AwaitedIn
  <2>11. /\ \A x \in Awaited("reflect")' : x \in Awaited("reflect") /\ asked'[x] = asked[x]
         /\ \A x \in Awaited("transcribe")' :
               \/ x \in Awaited("transcribe") /\ asked'[x] = asked[x]
               \/ mic = "on" /\ asked'[x].about = Current
    <3>1. /\ Awaited("reflect")' = AwaitedIn(asked', "reflect") /\ Awaited("reflect") = AwaitedIn(asked, "reflect")
          /\ Awaited("transcribe")' = AwaitedIn(asked', "transcribe")
          /\ Awaited("transcribe") = AwaitedIn(asked, "transcribe")
      BY AwaitedNow, AwaitedThen, LiveKinds
    <3>2. \A x \in AwaitedIn(asked', "reflect") : x \in AwaitedIn(waits, "reflect") /\ asked'[x] = waits[x]
      BY <2>6 DEF Asked
    <3>3. \A x \in AwaitedIn(asked', "transcribe") :
             \/ x \in AwaitedIn(waits, "transcribe") /\ asked'[x] = waits[x]
             \/ mic = "on" /\ asked'[x].about = Current
      BY <2>6 DEF Asked
    <3> QED
      BY <2>10, <3>1, <3>2, <3>3, LiveKinds
  <2>12. finishing'.step = "waiting" => Current # 0
    BY <1>1 DEF MarginInd, CorrectionInv, NotFinishing
  <2>13. CorrectionInv'
    BY <1>1, <2>1, <2>11, <2>12, StatusChanged
  <2> QED
    BY <1>1, <2>9, <2>11, <2>13, BlocksAsBefore DEF MarginInd
<1> QED
  BY <1>3, <1>4

LEMMA CleanedMargin ==
    ASSUME NothingHasNoFields, MarginInd, NEW r \in Request, Waiting(r), asked[r].kind = "clean",
           Cleaned(r)
    PROVE  MarginInd'
<1>1. /\ Entered(finishing.said) /\ asked' = Over(r)
      /\ UNCHANGED <<document, selected, order, made, annotation, busy, mic, organizer>>
  BY DEF Cleaned, document
<1>2. /\ Asks(asked') /\ r \in AwaitedIn(asked, "clean")
      /\ \A kind \in Live : \A x :
            x \in AwaitedIn(asked', kind) <=> x \in AwaitedIn(asked, kind) /\ x # r
      /\ \A kind \in Live : \A x : x \in Awaited(kind)' <=> x \in Awaited(kind) /\ x # r
      /\ \A kind \in Live : \A x \in Awaited(kind)' : asked'[x] = asked[x]
  BY <1>1, AnsweredIsOver
<1>0. AsksInv /\ Single(AwaitedIn(asked, "clean"))
  BY AsksInvIs DEF MarginInd
<1>3. finishing.step = "cleaning"
  BY <1>0, <1>2, AsksInvIs
<1>4. IsSession(finishing.said) /\ mic' = "off" /\ Current' = Current
  BY <1>1, <1>3, SameReflection DEF MarginInd, CorrectionInv, NotFinishing
<1>5. CorrectionInv'
  BY <1>1, <1>4, EnteredHere
<1>6. finishing'.step = "none"
  BY <1>1 DEF Entered, NotFinishing
<1>7. r \notin AwaitedIn(asked, "reflect") /\ r \notin AwaitedIn(asked, "organize")
  BY DEF AwaitedIn
<1>8. /\ AwaitedIn(asked', "reflect") = AwaitedIn(asked, "reflect")
      /\ AwaitedIn(asked', "organize") = AwaitedIn(asked, "organize")
      /\ AwaitedIn(asked', "clean") = {}
  BY <1>0, <1>2, <1>7, LiveKinds, ZenonT(40) DEF Single
<1>9. Single({})
  BY DEF Single
<1>10. AsksInv'
  BY <1>0, <1>1, <1>2, <1>6, <1>8, <1>9, AsksInvIs, AsksInvThen
<1>11. \A x \in Awaited("reflect")' : x \in Awaited("reflect") /\ asked'[x] = asked[x]
  BY <1>2, LiveKinds
<1> QED
  BY <1>1, <1>5, <1>10, <1>11, BlocksAsBefore DEF MarginInd

LEMMA UnwantedMargin ==
    ASSUME NothingHasNoFields, MarginInd, NEW r \in Request, Waiting(r), asked[r].kind = "unwanted",
           asked' = Over(r), UNCHANGED <<document, made, margin, organizer>>
    PROVE  MarginInd'
<1>1. UNCHANGED <<document, selected, order, made, annotation, busy, correction, mic, finishing, organizer>>
  BY DEF document, margin
<1>2. /\ AsksInv'
      /\ \A x \in Awaited("reflect")' : x \in Awaited("reflect") /\ asked'[x] = asked[x]
      /\ \A x \in Awaited("transcribe")' : x \in Awaited("transcribe") /\ asked'[x] = asked[x]
  BY <1>1, AnswersElsewhere
<1>3. CorrectionInv'
  BY <1>1, <1>2, SameReflection, CorrectionStays DEF MarginInd
<1> QED
  BY <1>1, <1>2, <1>3, BlocksAsBefore DEF MarginInd

-----------------------------------------------------------------------------
(* The annotations.                                                        *)

(* A set of ids has a newest one: of the sets of ids above one of them,     *)
(* the smallest is empty.                                                  *)
LEMMA NewestIsThere ==
    ASSUME NEW n \in Nat, NEW S \in SUBSET (1 .. n), S # {} PROVE Max(S) \in S
<1> DEFINE Above(k) == {x \in S : x > k}
           Aboves == {Above(k) : k \in S}
           R == StrictSubsetOrdering(S)
<1>1. IsFiniteSet(S)
  <2>1. IsFiniteSet(1 .. n) /\ S \in SUBSET (1 .. n)
    BY FS_Interval
  <2> QED
    BY <2>1, FS_Subset
<1>2. IsWellFoundedOn(R, SUBSET S)
  <2>1. IsWellFoundedOn(R, FiniteSubsetsOf(S))
    BY FS_StrictSubsetOrderingWellFounded
  <2>2. FiniteSubsetsOf(S) = SUBSET S
    BY <1>1, FS_FiniteSubsetsOfFinite
  <2> QED
    BY <2>1, <2>2
<1>3. PICK least \in Aboves : \A A \in Aboves : ~(<<A, least>> \in R)
  <2>1. Aboves # {}
    <3>1. PICK k : k \in S
      OBVIOUS
    <3>2. Above(k) \in Aboves
      BY <3>1
    <3> QED
      BY <3>2
  <2>2. Aboves \subseteq SUBSET S
    OBVIOUS
  <2> HIDE DEF Aboves, R
  <2> QED
    BY <1>2, <2>1, <2>2, WFMin
<1>4. PICK m \in S : least = Above(m)
  OBVIOUS
<1>5. ASSUME NEW y \in S PROVE m >= y
  <2>1. CASE y > m
    <3> DEFINE A == Above(y)
               B == Above(m)
    <3>1. y \in Int /\ m \in Int /\ \A x \in S : x \in Int
      OBVIOUS
    <3>2. A \in Aboves /\ A \in SUBSET S /\ B \in SUBSET S /\ least = B
      BY <1>4
    <3> HIDE DEF Aboves
    <3>3. A \subseteq B
      <4>1. \A x \in S : x > y => x > m
        BY <2>1, <3>1
      <4> QED
        BY <4>1
    <3>5. y \in B
      BY <2>1
    <3>6. y \notin A
      BY <3>1
    <3> HIDE DEF A, B, Above
    <3>4. <<A, B>> \in R
      BY <3>2, <3>3, <3>5, <3>6 DEF StrictSubsetOrdering
    <3> QED
      BY <1>3, <3>2, <3>4
  <2> QED
    BY <2>1
<1> QED
  BY <1>5 DEF Max

ShownIds(s, as) == {a.id : a \in {x \in as : x.block = s /\ x.status \in {"open", "saved"}}}

LEMMA CurrentIsShown ==
    /\ Current = IF ShownIds(Selected, annotation) = {} THEN 0 ELSE Max(ShownIds(Selected, annotation))
    /\ Current' = IF ShownIds(Selected', annotation') = {} THEN 0 ELSE Max(ShownIds(Selected', annotation'))
BY DEF Current, CurrentOf, ShownIds

(* The turns of a reflection, and saving the one that is shown, leave it.  *)
LEMMA TurnsKeepCurrent ==
    ASSUME UNCHANGED <<selected, order>>, NEW about, NEW D, NEW n,
           annotation \subseteq Annotations(n, D),
           annotation' = {IF a.id = about THEN [a EXCEPT !.turns = @ + 1] ELSE a : a \in annotation}
    PROVE  Current' = Current /\ annotation' \subseteq Annotations(n, D)
<1> DEFINE F(a) == IF a.id = about THEN [a EXCEPT !.turns = @ + 1] ELSE a
<1>1. \A a \in annotation : /\ F(a) \in Annotations(n, D) /\ F(a).id = a.id
                            /\ F(a).block = a.block /\ F(a).status = a.status
  BY DEF Annotations
<1>2. Selected' = Selected
  BY DEF Selected
<1>3. annotation' = {F(a) : a \in annotation}
  OBVIOUS
<1> HIDE DEF F
<1>4. ShownIds(Selected, annotation') = ShownIds(Selected, annotation)
  BY <1>1, <1>3 DEF ShownIds
<1>5. annotation' \subseteq Annotations(n, D)
  BY <1>1, <1>3
<1> QED
  BY <1>2, <1>4, <1>5, CurrentIsShown

LEMMA SavedKeepsCurrent ==
    ASSUME UNCHANGED <<selected, order>>, NEW D, NEW n \in Nat,
           annotation \subseteq Annotations(n, D), Marked("saved"), Current # 0
    PROVE  Current' = Current
<1> DEFINE F(a) == IF a.id = Current THEN [a EXCEPT !.status = "saved"] ELSE a
           S == ShownIds(Selected, annotation)
<1>1. \A a \in annotation : F(a).id = a.id /\ F(a).block = a.block
                            /\ F(a).status = IF a.id = Current THEN "saved" ELSE a.status
  BY DEF Annotations
<1>2. Selected' = Selected
  BY DEF Selected
<1>3. annotation' = {F(a) : a \in annotation}
  BY DEF Marked
<1>4. Current \in S
  <2>1. S \in SUBSET (1 .. n)
    BY DEF ShownIds, Annotations
  <2>2. S # {} /\ Current = Max(S)
    BY CurrentIsShown
  <2> HIDE DEF S
  <2> QED
    BY <2>1, <2>2, NewestIsThere
<1> HIDE DEF F
<1>5. ShownIds(Selected, annotation') \subseteq S
  BY <1>1, <1>3, <1>4 DEF ShownIds
<1>6. S \subseteq ShownIds(Selected, annotation')
  BY <1>1, <1>3 DEF ShownIds
<1> QED
  BY <1>2, <1>5, <1>6, CurrentIsShown

LEMMA BlocksMarked ==
    ASSUME BlocksInv, UNCHANGED <<order, block, title, consent>>, Counts(made'),
           made'.blocks = made.blocks,
           annotation' \subseteq Annotations(made'.annotations, DOMAIN block),
           \A x \in Awaited("reflect")' : x \in Awaited("reflect") /\ asked'[x] = asked[x]
    PROVE  BlocksInv'
<1>1. /\ block \in [DOMAIN block -> BlockTypes] /\ title \in Titles
      /\ consent \in {"undecided", "enabled", "disabled"}
      /\ Orders(order, DOMAIN block) /\ Len(order) > 0 /\ DOMAIN block \subseteq 1 .. made.blocks
      /\ \A x \in Awaited("reflect") : asked[x].of \in DOMAIN block
  BY BlocksInvIs
<1>2. \A x \in Awaited("reflect")' : asked'[x].of \in DOMAIN block'
  BY <1>1
<1> QED
  BY <1>1, <1>2, BlocksInvThen

LEMMA SaveMargin == ASSUME MarginInd, SaveForLater PROVE MarginInd'
<1>1. /\ Current # 0 /\ Edits /\ Marked("saved")
      /\ UNCHANGED <<order, block, title, consent, selected, busy, correction, mic, finishing, organizer, asked>>
  BY DEF SaveForLater, document, wire
<1>2. Counts(made) /\ made.annotations \in Nat /\ annotation \subseteq Annotations(made.annotations, DOMAIN block)
  BY BlocksInvIs DEF MarginInd, Counts
<1>3. Current' = Current
  BY <1>1, <1>2, SavedKeepsCurrent
<1>4. \A kind : Awaited(kind)' = Awaited(kind)
  BY <1>1 DEF Awaited, Waiting
<1>5. CorrectionInv'
  BY <1>1, <1>3, <1>4, CorrectionStays DEF MarginInd
<1>6. Counts(made') /\ made'.blocks = made.blocks /\ made'.annotations = made.annotations
  BY <1>1, EditsCount DEF MarginInd
<1>7. annotation' \subseteq Annotations(made.annotations, DOMAIN block)
  BY <1>1, <1>2, MarkedAnnotations
<1>8. BlocksInv'
  BY <1>1, <1>4, <1>6, <1>7, BlocksMarked DEF MarginInd
<1> QED
  BY <1>1, <1>5, <1>8, AsksStay DEF MarginInd

LEMMA DismissMargin ==
    ASSUME NothingHasNoFields, PatientAuthor, MarginInd, Dismiss PROVE MarginInd'
<1>1. /\ finishing = NotFinishing /\ Marked("dismissed") /\ correction' = Shown(Quiet)
      /\ mic' = (IF Dictating THEN "off" ELSE mic)
      /\ UNCHANGED <<order, selected, block, title, consent, made, busy, finishing, organizer>>
  BY DEF Dismiss, PatientAuthor
<1>2. IF Dictating THEN Unwanted ELSE UNCHANGED asked
  BY DEF Dismiss
<1>3. /\ AsksInv'
      /\ \A x \in Awaited("reflect")' : x \in Awaited("reflect") /\ asked'[x] = asked[x]
  <2>1. CASE Dictating
    BY <1>1, <1>2, <2>1, UnwantedAsks
  <2>2. CASE ~Dictating
    <3>1. \A kind : Awaited(kind)' = Awaited(kind)
      BY <1>2, <2>2 DEF Awaited, Waiting
    <3> QED
      BY <1>1, <1>2, <2>2, <3>1, AsksStay DEF MarginInd
  <2> QED
    BY <2>1, <2>2
<1>4. correction' = Quiet /\ mic' = "off"
  BY <1>1 DEF Shown, Dictating, MarginInd, CorrectionInv
<1>5. finishing'.step = "none" /\ finishing' = NotFinishing
  BY <1>1 DEF NotFinishing
<1>6. CorrectionInv'
  BY <1>4, <1>5 DEF CorrectionInv, Quiet, Here
<1>7. Counts(made) /\ annotation \subseteq Annotations(made.annotations, DOMAIN block)
  BY BlocksInvIs DEF MarginInd
<1>8. annotation' \subseteq Annotations(made'.annotations, DOMAIN block) /\ Counts(made')
  BY <1>1, <1>7, MarkedAnnotations
<1>9. BlocksInv'
  BY <1>1, <1>3, <1>8, BlocksMarked DEF MarginInd
<1> QED
  BY <1>3, <1>6, <1>9 DEF MarginInd

LEMMA ReflectedMargin ==
    ASSUME NothingHasNoFields, MarginInd, NEW r \in Request, Waiting(r), asked[r].kind = "reflect",
           NEW reply, Reflected(r, reply)
    PROVE  MarginInd'
<1> DEFINE q == asked[r]
           id == made.annotations + 1
<1>1. /\ correction' = Shown(correction) /\ busy' = FALSE /\ asked' = Over(r)
      /\ UNCHANGED <<order, selected, block, title, consent, mic, finishing, organizer>>
  BY DEF Reflected, Rested
<1>2. /\ Asks(asked') /\ r \in AwaitedIn(asked, "reflect")
      /\ \A kind \in Live : \A x :
            x \in AwaitedIn(asked', kind) <=> x \in AwaitedIn(asked, kind) /\ x # r
      /\ \A kind \in Live : \A x : x \in Awaited(kind)' <=> x \in Awaited(kind) /\ x # r
      /\ \A kind \in Live : \A x \in Awaited(kind)' : asked'[x] = asked[x]
  BY <1>1, AnsweredIsOver
<1>0. AsksInv /\ Single(AwaitedIn(asked, "reflect"))
  BY AsksInvIs DEF MarginInd
<1>3. busy /\ r \in Awaited("reflect")
  BY <1>0, <1>2, AsksInvIs, AwaitedNow, LiveKinds
<1>4. r \notin AwaitedIn(asked, "clean") /\ r \notin AwaitedIn(asked, "organize")
  BY DEF AwaitedIn
<1>5. /\ AwaitedIn(asked', "clean") = AwaitedIn(asked, "clean")
      /\ AwaitedIn(asked', "organize") = AwaitedIn(asked, "organize")
      /\ AwaitedIn(asked', "reflect") = {}
  BY <1>0, <1>2, <1>4, LiveKinds, ZenonT(40) DEF Single
<1>6. Single({})
  BY DEF Single
<1>7. AsksInv'
  BY <1>0, <1>1, <1>2, <1>5, <1>6, AsksInvIs, AsksInvThen
<1>8. /\ \A x \in Awaited("reflect")' : x \in Awaited("reflect") /\ asked'[x] = asked[x]
      /\ \A x \in Awaited("transcribe")' : x \in Awaited("transcribe") /\ asked'[x] = asked[x]
  BY <1>2, LiveKinds
<1>9. /\ Counts(made) /\ made.annotations \in Nat /\ q.of \in DOMAIN block
      /\ annotation \subseteq Annotations(made.annotations, DOMAIN block)
  BY <1>3, BlocksInvIs DEF MarginInd, Counts
<1>10. Current' = Current => CorrectionInv'
  <2> SUFFICES ASSUME Current' = Current PROVE CorrectionInv'
    OBVIOUS
  <2>1. correction' = correction
    BY <1>1 DEF Shown, Current, Selected
  <2> QED
    BY <1>1, <1>8, <2>1, CorrectionStays DEF MarginInd
<1>11. CASE UNCHANGED <<annotation, made>>
  <2>1. CorrectionInv'
    BY <1>1, <1>10, <1>11, SameReflection
  <2>2. BlocksInv'
    BY <1>1, <1>8, <1>9, <1>11, BlocksMarked DEF MarginInd
  <2> QED
    BY <1>7, <2>1, <2>2 DEF MarginInd
<1>12. CASE /\ q.about = 0
            /\ annotation' = annotation \cup
                  {[id |-> id, block |-> q.of, status |-> "open", turns |-> 0]}
            /\ made' = [made EXCEPT !.annotations = id]
  <2>1. finishing = NotFinishing /\ mic = "off"
    BY <1>3, <1>12 DEF MarginInd, CorrectionInv
  <2>2. CorrectionInv'
    BY <1>1, <1>8, <2>1, CorrectionShown DEF MarginInd
  <2>3. Counts(made') /\ made'.blocks = made.blocks /\ made'.annotations = id
    BY <1>9, <1>12 DEF Counts
  <2>4. annotation' \subseteq Annotations(made'.annotations, DOMAIN block)
    <3>1. annotation \subseteq Annotations(id, DOMAIN block)
      BY <1>9 DEF Annotations
    <3>2. [id |-> id, block |-> q.of, status |-> "open", turns |-> 0] \in Annotations(id, DOMAIN block)
      BY <1>9 DEF Annotations
    <3> QED
      BY <1>12, <2>3, <3>1, <3>2
  <2>5. BlocksInv'
    BY <1>1, <1>8, <2>3, <2>4, BlocksMarked DEF MarginInd
  <2> QED
    BY <1>7, <2>2, <2>5 DEF MarginInd
<1>13. CASE /\ annotation' = {IF a.id = q.about THEN [a EXCEPT !.turns = @ + 1] ELSE a : a \in annotation}
            /\ UNCHANGED made
  <2>1. Current' = Current /\ annotation' \subseteq Annotations(made.annotations, DOMAIN block)
    <3> HIDE DEF q
    <3> QED
      BY <1>1, <1>9, <1>13, TurnsKeepCurrent
  <2>2. BlocksInv'
    BY <1>1, <1>8, <1>9, <1>13, <2>1, BlocksMarked DEF MarginInd
  <2> QED
    BY <1>7, <1>10, <2>1, <2>2 DEF MarginInd
<1> QED
  BY <1>11, <1>12, <1>13 DEF Reflected

-----------------------------------------------------------------------------
(* Every step of a page.                                                   *)

LEMMA QuietStepMargin == ASSUME MarginInd, UNCHANGED pageVars PROVE MarginInd'
<1>1. UNCHANGED <<order, block, title, consent, selected, made, annotation, busy, correction,
                  mic, finishing, organizer, asked, document>>
  BY DEF pageVars, document, margin, wire
<1>2. \A kind : Awaited(kind)' = Awaited(kind)
  BY <1>1 DEF Awaited, Waiting
<1> QED
  BY <1>1, <1>2, AsksStay, SameReflection, CorrectionStays, BlocksAsBefore DEF MarginInd

LEMMA ContinuesMargin ==
    ASSUME NothingHasNoFields, MarginInd, NEW r \in Request, Waiting(r),
           NEW reply \in Handle(asked[r]) \cup {Failed}, Continues(r, reply)
    PROVE  MarginInd'
<1>1. CASE asked[r].kind = "organize" /\ Organized(r, reply)
  BY <1>1, OrganizedMargin
<1>2. CASE asked[r].kind = "reflect" /\ Reflected(r, reply)
  BY <1>2, ReflectedMargin
<1>3. CASE asked[r].kind = "transcribe" /\ Transcribed(r, reply)
  BY <1>3, TranscribedMargin
<1>4. CASE asked[r].kind = "unwanted" /\ asked' = Over(r) /\ UNCHANGED <<document, made, margin, organizer>>
  BY <1>4, UnwantedMargin
<1>5. CASE asked[r].kind = "clean" /\ Cleaned(r)
  BY <1>5, CleanedMargin
<1> QED
  BY <1>1, <1>2, <1>3, <1>4, <1>5 DEF Continues

LEMMA AnswerMargin ==
    ASSUME NothingHasNoFields, MarginInd, NEW r \in Request, Hears(r) \/ Lost(r) PROVE MarginInd'
<1>1. CASE Hears(r)
  <2>1. PICK reply \in IF pc[r] = "admitted" THEN Handle(asked[r]) ELSE {Failed} : Continues(r, reply)
    BY <1>1 DEF Hears
  <2>2. Waiting(r) /\ reply \in Handle(asked[r]) \cup {Failed}
    BY <1>1 DEF Hears
  <2> QED
    BY <2>1, <2>2, ContinuesMargin
<1>2. CASE Lost(r)
  <2>1. Waiting(r) /\ Continues(r, Failed) /\ Failed \in Handle(asked[r]) \cup {Failed}
    BY <1>2 DEF Lost
  <2> QED
    BY <2>1, ContinuesMargin
<1> QED
  BY <1>1, <1>2

LEMMA PageStepMargin ==
    ASSUME NothingHasNoFields, PatientAuthor, MarginInd, [PageNext]_allVars PROVE MarginInd'
<1>1. ASSUME NEW b \in Blocks, Write(b) \/ CorrectKind(b) \/ Select(b) \/ DeleteBlock(b)
      PROVE  MarginInd'
  BY <1>1, WriteMargin, SelectMargin, DeleteMargin
<1>2. CASE Blur \/ SetTitle \/ Consents
  BY <1>2, WordlessMargin
<1>3. CASE AddBlock \/ Follow
  BY <1>3, AddBlockMargin, FollowMargin
<1>4. ASSUME NEW r \in Request, Organize(r) \/ Reflect(r) \/ Checkpoint(r) PROVE MarginInd'
  BY <1>4, OrganizeMargin, ReflectMargin, CheckpointMargin
<1>5. ASSUME NEW r \in Request, Hears(r) \/ Lost(r) PROVE MarginInd'
  BY <1>5, AnswerMargin
<1>6. CASE Respond \/ SaveForLater \/ Dismiss \/ Type
  BY <1>6, RespondMargin, SaveMargin, DismissMargin, TypeMargin
<1>7. CASE StartCorrection \/ Granted \/ Interrupted \/ FinishCorrection \/ Finished
  BY <1>7, StartMargin, GrantedMargin, InterruptedMargin, FinishMargin, FinishedMargin
<1>8. CASE PageSteps
  BY <1>1, <1>2, <1>3, <1>4, <1>5, <1>6, <1>7, <1>8 DEF PageSteps
<1>9. ASSUME NEW r \in Request, Reserves(r) \/ Throws(r) PROVE MarginInd'
  BY <1>9, QuietStepMargin DEF Reserves, Throws
<1>10. CASE Passes \/ UNCHANGED allVars
  BY <1>10, QuietStepMargin DEF Passes, allVars
<1> QED
  BY <1>8, <1>9, <1>10 DEF PageNext

LEMMA InitMargin == PageInit => MarginInd
<1> SUFFICES ASSUME PageInit PROVE MarginInd
  OBVIOUS
<1>1. /\ title = [source |-> "empty", version |-> 1, read |-> 0]
      /\ organizer = [busy |-> FALSE, last |-> Nothing] /\ busy = FALSE
      /\ correction = Quiet /\ mic = "off" /\ finishing = NotFinishing
      /\ asked = [r \in Request |-> Nothing] /\ (FirstTime \/ Loaded)
  BY DEF PageInit
<1>2. \A kind : Awaited(kind) = {}
  BY <1>1 DEF Awaited, Waiting
<1>3. finishing.step = "none" /\ Single({})
  BY <1>1 DEF NotFinishing, Single
<1>4. AsksInv
  BY <1>1, <1>2, <1>3 DEF AsksInv
<1>5. CorrectionInv
  BY <1>1, <1>2, <1>3 DEF CorrectionInv, Quiet, Here, NotFinishing
<1>6. title \in Titles /\ consent \in {"undecided", "enabled", "disabled"}
  BY <1>1 DEF Titles, FirstTime, Loaded
<1>7. CASE FirstTime
  <2>1. order = <<1>> /\ block = [b \in {1} |-> NewBlock] /\ annotation = {}
        /\ made = [edits |-> 0, blocks |-> 1, annotations |-> 0]
    BY <1>7 DEF FirstTime
  <2>2. Counts(made) /\ made.blocks = 1
    BY <2>1 DEF Counts
  <2>3. DOMAIN block = {1} /\ block \in [DOMAIN block -> BlockTypes] /\ {1} \subseteq 1 .. 1
    BY <2>1, NewBlockIsBlock
  <2>4. Orders(order, {1}) /\ Len(order) > 0
    BY <2>1 DEF Orders, Distinct, ToSet
  <2> QED
    BY <1>2, <1>4, <1>5, <1>6, <2>1, <2>2, <2>3, <2>4, BlocksInvIs DEF MarginInd
<1>8. CASE Loaded
  <2> DEFINE W == [NewBlock EXCEPT !.words = MaxWords]
  <2>1. order = <<1, 2>> /\ block = [b \in {1, 2} |-> IF b = 1 THEN W ELSE NewBlock]
        /\ annotation = {[id |-> 1, block |-> 1, status |-> "open", turns |-> 0]}
        /\ made = [edits |-> 0, blocks |-> 2, annotations |-> 1]
    BY <1>8 DEF Loaded
  <2>2. Counts(made) /\ made.blocks = 2 /\ made.annotations = 1
    BY <2>1 DEF Counts
  <2>3. W \in BlockTypes
    BY InterlocutorAssumption DEF NewBlock, BlockTypes, Kinds
  <2> HIDE DEF W
  <2>4. DOMAIN block = {1, 2} /\ block \in [DOMAIN block -> BlockTypes] /\ {1, 2} \subseteq 1 .. 2
    BY <2>1, <2>3, NewBlockIsBlock
  <2>5. Orders(order, {1, 2}) /\ Len(order) > 0
    BY <2>1 DEF Orders, Distinct, ToSet
  <2>6. annotation \subseteq Annotations(1, {1, 2})
    BY <2>1 DEF Annotations
  <2> QED
    BY <1>2, <1>4, <1>5, <1>6, <2>2, <2>4, <2>5, <2>6, BlocksInvIs DEF MarginInd
<1> QED
  BY <1>1, <1>7, <1>8

(* The page of a patient author, whatever is refused, fails or is lost: an *)
(* annotation belongs to a block that is there, a correction stays under   *)
(* the reflection it corrects, a live microphone shows as recording, and   *)
(* nothing is asked twice or shows as busy for ever (App.tsx:1588-1870).   *)
THEOREM MarginOfAPatientAuthor ==
    ASSUME NothingHasNoFields, PatientAuthor PROVE PageSpec => []MarginInv
<1>1. PageInit => MarginInd
  BY InitMargin
<1>2. MarginInd /\ [PageNext]_allVars => MarginInd'
  BY PageStepMargin
<1>3. MarginInd => MarginInv
  BY MarginIndIsMarginInv
<1> QED
  BY <1>1, <1>2, <1>3, PTL DEF PageSpec
=============================================================================
