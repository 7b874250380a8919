--------------------------- MODULE InferenceQuota ---------------------------
(***************************************************************************)
(* allowInference (worker/index.ts): the daily allowance of model calls,   *)
(* per account and for the whole deployment, reserved in one D1 row per    *)
(* day.  Requests of all accounts interleave between SQL statements; the   *)
(* day a request counts for is read once, at its start.                    *)
(***************************************************************************)
EXTENDS Integers, FiniteSets

CONSTANTS
    Request,        \* inference requests; each draws its own reservation id
    Tenant,         \* author accounts
    LastDay,        \* bound on the clock: the last UTC day that is explored
    Limit,          \* INFERENCE_DAILY_LIMIT
    GlobalLimit,    \* INFERENCE_GLOBAL_DAILY_LIMIT
    NoRow

ASSUME QuotaAssumption ==
    /\ IsFiniteSet(Request)
    /\ LastDay \in Nat
    /\ Limit \in Nat \ {0} /\ GlobalLimit \in Nat \ {0}

Day == 0 .. LastDay

VARIABLES
    today,      \* the UTC day of the Worker's clock
    usage,      \* inference_daily_usage, by day
    tenant,     \* the account of each request
    day,        \* the day each request computed
    pc,         \* the next statement of each request
    granted     \* history: the requests counted in a day's row

vars == <<today, usage, tenant, day, pc, granted>>

Usage == [global: Nat, counts: [Tenant -> Nat]]

ASSUME NoRowAssumption == NoRow \notin Usage

Steps == {"idle", "read", "update", "insert", "retry", "admitted", "refused", "failed"}

Init ==
    /\ today = 0
    /\ usage = [d \in Day |-> NoRow]
    /\ tenant \in [Request -> Tenant]
    /\ day = [r \in Request |-> 0]
    /\ pc = [r \in Request |-> "idle"]
    /\ granted = [d \in Day |-> {}]

Goto(r, s) == pc' = [pc EXCEPT ![r] = s]

(* Both limits are still open for the request in the row u.                *)
TenantOnly(r, u) == u.counts[tenant[r]] < Limit            \* mutant
GlobalOnly(r, u) == u.global < GlobalLimit                 \* mutant
OffByOne(r, u) == /\ u.global <= GlobalLimit               \* mutant
                  /\ u.counts[tenant[r]] <= Limit
Open(r, u) == u.global < GlobalLimit /\ u.counts[tenant[r]] < Limit

Arrives(r) ==
    /\ pc[r] = "idle"
    /\ day' = [day EXCEPT ![r] = today]
    /\ Goto(r, "read")
    /\ UNCHANGED <<today, usage, tenant, granted>>

(* SELECT: a refusal is already certain when a limit has been reached.     *)
ReadUsage(r) ==
    /\ pc[r] = "read"
    /\ Goto(r, IF usage[day[r]] # NoRow /\ ~Open(r, usage[day[r]]) THEN "refused" ELSE "update")
    /\ UNCHANGED <<today, usage, tenant, day, granted>>

(* UPDATE ... SET CASE ... RETURNING: tests and counts in one statement.   *)
Counted(r, u) == [global |-> u.global + 1,
                  counts |-> [u.counts EXCEPT ![tenant[r]] = @ + 1]]

Reserve(r) ==
    LET u == usage[day[r]] IN
    /\ u # NoRow
    /\ IF Open(r, u)
       THEN /\ usage' = [usage EXCEPT ![day[r]] = Counted(r, u)]
            /\ granted' = [granted EXCEPT ![day[r]] = @ \cup {r}]
            /\ Goto(r, "admitted")
       ELSE /\ Goto(r, "refused")
            /\ UNCHANGED <<usage, granted>>

Update(r) ==
    /\ pc[r] = "update"
    /\ \/ Reserve(r)
       \/ /\ usage[day[r]] = NoRow
          /\ Goto(r, "insert")
          /\ UNCHANGED <<usage, granted>>
    /\ UNCHANGED <<today, tenant, day>>

(* INSERT ... ON CONFLICT DO NOTHING RETURNING: the day's first request    *)
(* counts itself; one that finds the row already there updates once more.  *)
Replaces(r) == TRUE  \* mutant: ON CONFLICT ... DO UPDATE writes the first row again
MayInsert(r) == usage[day[r]] = NoRow

InsertUsage(r) ==
    /\ pc[r] = "insert"
    /\ IF MayInsert(r)
       THEN /\ usage' = [usage EXCEPT ![day[r]] =
                           [global |-> 1,
                            counts |-> [t \in Tenant |-> IF t = tenant[r] THEN 1 ELSE 0]]]
            /\ granted' = [granted EXCEPT ![day[r]] = @ \cup {r}]
            /\ Goto(r, "admitted")
       ELSE Goto(r, "retry") /\ UNCHANGED <<usage, granted>>
    /\ UNCHANGED <<today, tenant, day>>

Retry(r) ==
    /\ pc[r] = "retry"
    /\ Reserve(r)
    /\ UNCHANGED <<today, tenant, day>>

(* Any statement may throw, before it takes effect or after: the route     *)
(* answers 503, and a reservation already counted stays counted.           *)
Fail(r) ==
    /\ pc[r] \in {"read", "update", "insert", "retry", "admitted"}
    /\ Goto(r, "failed")
    /\ UNCHANGED <<today, usage, tenant, day, granted>>

Midnight ==
    /\ today < LastDay
    /\ today' = today + 1
    /\ UNCHANGED <<usage, tenant, day, pc, granted>>

Next ==
    \/ \E r \in Request : Arrives(r) \/ ReadUsage(r) \/ Update(r) \/ InsertUsage(r) \/ Retry(r)
                            \/ Fail(r)
    \/ Midnight

Spec == Init /\ [][Next]_vars

-----------------------------------------------------------------------------
(* Properties.                                                             *)

(* Types of the day's rows and of each request's locals.                   *)
TypeOK ==
    /\ today \in Day
    /\ usage \in [Day -> Usage \cup {NoRow}]
    /\ tenant \in [Request -> Tenant]
    /\ day \in [Request -> Day]
    /\ pc \in [Request -> Steps]
    /\ granted \in [Day -> SUBSET Request]

Admitted(d)    == {r \in Request : pc[r] = "admitted" /\ day[r] = d}
AdmittedOf(t, d) == {r \in Admitted(d) : tenant[r] = t}

(* However requests of any accounts interleave, no day admits more model   *)
(* calls than the deployment's limit, nor more for one account than its    *)
(* own: the test that was passed before the count cannot be stale.         *)
LimitsHold ==
    \A d \in Day :
        /\ Cardinality(Admitted(d)) <= GlobalLimit
        /\ \A t \in Tenant : Cardinality(AdmittedOf(t, d)) <= Limit

(* A request is refused only on a day whose row is really at a limit, and  *)
(* at that limit for good: nothing refuses work the allowance would cover. *)
RefusedOnlyAtLimit ==
    \A r \in Request : pc[r] = "refused" =>
        usage[day[r]] # NoRow /\ ~Open(r, usage[day[r]])

(* The allowance: neither more than the limits, nor less.                  *)
AllowanceInv == LimitsHold /\ RefusedOnlyAtLimit

(* What makes LimitsHold inductive: the row's counters are exactly the     *)
(* requests counted, every admitted request is one of them, and a request  *)
(* is counted on its own day only.                                         *)
GrantedOf(t, d) == {r \in granted[d] : tenant[r] = t}

CountersExact ==
    \A d \in Day :
        /\ usage[d] = NoRow => granted[d] = {}
        /\ usage[d] # NoRow =>
             /\ usage[d].global = Cardinality(granted[d])
             /\ usage[d].global <= GlobalLimit
             /\ \A t \in Tenant : /\ usage[d].counts[t] = Cardinality(GrantedOf(t, d))
                                  /\ usage[d].counts[t] <= Limit

GrantedOnce ==
    \A d \in Day, r \in Request :
        /\ pc[r] = "admitted" /\ day[r] = d => r \in granted[d]
        /\ r \in granted[d] => pc[r] \in {"admitted", "failed"} /\ day[r] = d

RetryHasRow == \A r \in Request : pc[r] = "retry" => usage[day[r]] # NoRow

QuotaInv == TypeOK /\ CountersExact /\ GrantedOnce /\ RetryHasRow /\ RefusedOnlyAtLimit
=============================================================================
