---------------------------- MODULE LegacyServer ----------------------------
(* The native Specular server: the handling of one HTTP request from its   *)
(* headers to its answer (server/http.ts), the operation behind it with    *)
(* its single repair (server/operation-service.ts), the credential of a    *)
(* voice session (server/realtime.ts) and the limiter all requests share   *)
(* (server/rate-limit.ts).                                                 *)
(*                                                                         *)
(* The provider, the body of a request, its client and the MCP transport   *)
(* are the environment.  What the code does between two awaits is one      *)
(* action: the whole of the header checks and the limiter, for instance.   *)
(* Names that other modules have too are qualified (ServerInit, ServerNext)*)
(* so that NativeProofs can extend this module beside them.                *)
EXTENDS Naturals, Sequences, FiniteSets, SequencesExt, FiniteSetsExt

CONSTANTS Request,      \* requests in progress at a time
          Address,
          Maximum,      \* requests an address may make in a window
          MaximumKeys,  \* addresses the limiter remembers
          Window,       \* length of a window, in ticks
          MaxTime,      \* bound on the clock
          MaxServed     \* bound on the admissions of an address

ASSUME LegacyServerAssumption ==
    /\ {Maximum, MaximumKeys, Window, MaxTime, MaxServed} \subseteq Nat \ {0}

VARIABLES req,         \* what the server knows of each request
          entries,     \* the limiter's Map, in insertion order
          clock,
          configured,  \* the provider has a key
          served       \* history: per address, the times it was admitted

serverVars == <<req, entries, clock, configured, served>>

Route == {"next_question", "conclusion", "realtime", "mcp", "readyz"}
Idle == [stage |-> "idle", route |-> "none", cut |-> "no", answer |-> 0, to |-> 0,
         attempts |-> 0, valid |-> FALSE, log |-> <<>>, closes |-> 0]

Free(r) == req[r].stage \in {"idle", "done"}
Goes(r, stage) == [req[r] EXCEPT !.stage = stage]
Becomes(r, record) == req' = [req EXCEPT ![r] = record]

(* sendJson writes nothing to a response that was ended or destroyed.      *)
SendAnyway(record, status) == [record EXCEPT !.stage = "done", !.answer = status]  \* mutant
Sent(record, status) ==
    [record EXCEPT !.stage = "done", !.answer = IF record.cut = "client" THEN 0 ELSE status]

(***************************************************************************)
(* The limiter.                                                            *)
(***************************************************************************)
EntryOf(key) == {i \in DOMAIN entries : entries[i].key = key}
Live(entry) == clock < entry.resetAt

(* makeRoom: expired entries first, then the oldest ones.                  *)
Alive(others) ==
    LET alive[n \in 0..Len(others)] ==
            IF n = 0 THEN <<>>
            ELSE IF Live(others[n]) THEN Append(alive[n - 1], others[n]) ELSE alive[n - 1]
    IN alive[Len(others)]

NoRoom(others) == others                                                   \* mutant
ForgetsAll(others) == IF Len(others) < MaximumKeys THEN others ELSE <<>>   \* mutant
ForgetsNewest(others) ==                                                   \* mutant
    IF Len(others) < MaximumKeys THEN others
    ELSE LET alive == Alive(others) IN SubSeq(alive, 1, MaximumKeys - 1)
MakeRoom(others) ==
    IF Len(others) < MaximumKeys THEN others
    ELSE LET alive == Alive(others)
         IN  IF Len(alive) < MaximumKeys THEN alive
             ELSE SubSeq(alive, Len(alive) - MaximumKeys + 2, Len(alive))

AdmitsOneMore(key) ==                                                      \* mutant
    \A i \in EntryOf(key) : Live(entries[i]) => entries[i].count <= Maximum
Admits(key) == \A i \in EntryOf(key) : Live(entries[i]) => entries[i].count < Maximum
(* entries.delete(key), of which there is one at most.                     *)
Deleted(key) == IF EntryOf(key) = {} THEN entries
                ELSE RemoveAt(entries, CHOOSE i \in EntryOf(key) : TRUE)
ConsumedStale(key) ==                                                      \* mutant
    IF EntryOf(key) # {}
    THEN [i \in DOMAIN entries |->
             IF i \notin EntryOf(key) THEN entries[i]
             ELSE [key |-> key, count |-> entries[i].count + 1,
                   resetAt |-> IF Live(entries[i]) THEN entries[i].resetAt ELSE clock + Window]]
    ELSE Append(MakeRoom(entries), [key |-> key, count |-> 1, resetAt |-> clock + Window])
Consumed(key) ==
    IF \E i \in EntryOf(key) : Live(entries[i])
    THEN [i \in DOMAIN entries |-> IF i \in EntryOf(key) THEN [entries[i] EXCEPT !.count = @ + 1]
                                   ELSE entries[i]]
    ELSE Append(MakeRoom(Deleted(key)),
                [key |-> key, count |-> 1, resetAt |-> clock + Window])

(***************************************************************************)
(* Headers.  A request with a fault is refused before the limiter counts   *)
(* it; readiness is not limited at all.                                    *)
(***************************************************************************)
Refusal == [origin |-> 403, method |-> 405, type |-> 415, preflight |-> 204]

Refused(r, route, fault) ==
    /\ Free(r)
    /\ Becomes(r, Sent([Idle EXCEPT !.route = route], Refusal[fault]))
    /\ UNCHANGED <<entries, clock, configured, served>>

Ready(r) == /\ Free(r)
            /\ Becomes(r, Sent([Idle EXCEPT !.route = "readyz"], IF configured THEN 200 ELSE 503))
            /\ UNCHANGED <<entries, clock, configured, served>>

(* A GET or DELETE of the MCP endpoint has no body to wait for.            *)
Admitted(r, route, key, stage) ==
    /\ Free(r) /\ Admits(key) /\ Len(served[key]) < MaxServed
    /\ stage = "handling" => route = "mcp"
    /\ entries' = Consumed(key)
    /\ served' = [served EXCEPT ![key] = Append(@, clock)]
    /\ Becomes(r, [Idle EXCEPT !.route = route, !.stage = stage])
    /\ UNCHANGED <<clock, configured>>

Limited(r, route, key) == /\ Free(r) /\ ~Admits(key)
                          /\ Becomes(r, Sent([Idle EXCEPT !.route = route], 429))
                          /\ UNCHANGED <<entries, clock, configured, served>>

(***************************************************************************)
(* Bodies and the operation.  Recorded(record, outcome, status) is the     *)
(* call of recordSafely with the answer that follows it.                   *)
(***************************************************************************)
Recording(record, outcome, status) ==
    [record EXCEPT !.stage = "recording", !.to = status,
                   !.log = Append(@, [outcome |-> outcome, success |-> status = 200])]
Fails(record, status) == Recording(record, "not_checked", status)

Execute(record, content) ==
    IF content = "danger" THEN Recording(record, "valid", 200)
    ELSE IF content = "ungathered" THEN Sent(record, 502)
    ELSE IF ~configured THEN Fails(record, 503)
    ELSE [record EXCEPT !.stage = "provider", !.attempts = 1]
RealtimeCredential(record) == IF configured THEN [record EXCEPT !.stage = "provider", !.attempts = 1]
                      ELSE Fails(record, 503)

Content(route) == CASE route = "next_question" -> {"danger", "plain"}
                    [] route = "conclusion" -> {"danger", "ungathered", "plain"}
                    [] OTHER -> {"plain"}

BodyRead(r, content) ==
    /\ req[r].stage = "body" /\ content \in Content(req[r].route)
    /\ Becomes(r, CASE req[r].route = "mcp" -> Goes(r, "handling")
                    [] req[r].route = "realtime" -> RealtimeCredential(req[r])
                    [] OTHER -> Execute(req[r], content))
    /\ UNCHANGED <<entries, clock, configured, served>>

(* Too long (413), broken off by an error or not the route's schema (400). *)
BodyRefused(r, status) == /\ req[r].stage = "body" /\ status \in {400, 413}
                          /\ Becomes(r, Sent(req[r], status))
                          /\ UNCHANGED <<entries, clock, configured, served>>

(***************************************************************************)
(* The provider.  An output that fails validation is repaired once; a      *)
(* credential is checked once.  "null" is an empty completed output.       *)
(***************************************************************************)
Repairs(record) == record.route # "realtime" /\ record.attempts = 1
RepairsAgain(record) == record.route # "realtime"                          \* mutant
MayRepair(record) == Repairs(record)

Valid(r) == /\ req[r].stage = "provider"
            /\ Becomes(r, Recording([req[r] EXCEPT !.valid = TRUE], "valid", 200))
            /\ UNCHANGED <<entries, clock, configured, served>>

SendUnchecked(r) == /\ req[r].stage = "provider"                           \* mutant
                    /\ Becomes(r, IF Repairs(req[r]) THEN [req[r] EXCEPT !.attempts = @ + 1]
                                  ELSE Recording(req[r], "valid", 200))
                    /\ UNCHANGED <<entries, clock, configured, served>>
Invalid(r) == /\ req[r].stage = "provider"
              /\ Becomes(r, IF MayRepair(req[r]) THEN [req[r] EXCEPT !.attempts = @ + 1]
                            ELSE Recording(req[r], "invalid", 502))
              /\ UNCHANGED <<entries, clock, configured, served>>

ProviderFails(r, status) ==
    /\ req[r].stage = "provider"
    /\ status \in IF req[r].route = "realtime" THEN {503, 504} ELSE {502, 503, 504}
    /\ Becomes(r, Fails(req[r], status))
    /\ UNCHANGED <<entries, clock, configured, served>>

Recorded(r) == /\ req[r].stage = "recording"
               /\ Becomes(r, Sent(req[r], req[r].to))
               /\ UNCHANGED <<entries, clock, configured, served>>

(***************************************************************************)
(* The MCP endpoint: one server per request, closed at the first of the    *)
(* response's end, the abort of the request and an error of the transport. *)
(***************************************************************************)
Close(record) == [record EXCEPT !.closes = 1]

TransportAnswers(r) == /\ req[r].stage = "handling" /\ req[r].closes = 0
                       /\ Becomes(r, [Goes(r, "closing") EXCEPT !.answer = 200])
                       /\ UNCHANGED <<entries, clock, configured, served>>

TransportThrows(r) ==
    /\ req[r].stage = "handling"
    /\ Becomes(r, [Sent(Close(req[r]), IF req[r].cut = "no" THEN 500 ELSE 504) EXCEPT !.stage = "closing"])
    /\ UNCHANGED <<entries, clock, configured, served>>

(* The response's "close", which an answer or the loss of the client ends. *)
ResponseClosed(r) == /\ \/ req[r].stage = "closing"
                        \/ req[r].stage = "handling" /\ req[r].cut = "client"
                     /\ Becomes(r, [Close(req[r]) EXCEPT !.stage = "done"])
                     /\ UNCHANGED <<entries, clock, configured, served>>

(***************************************************************************)
(* The AbortController: the whole-request timeout, or the client left.     *)
(* While telemetry is recorded, and once MCP answered, nothing listens.    *)
(***************************************************************************)
Deafly(r, cut) == [req[r] EXCEPT !.cut = cut]                              \* mutant
Aborted(r, cut) ==
    LET record == [req[r] EXCEPT !.cut = cut] IN
    CASE record.stage = "body" -> Sent(record, 504)
      [] record.stage = "provider" -> Fails(record, 504)
      [] record.stage = "handling" -> Close(record)
      [] OTHER -> record

Abort(r, cut) == /\ ~Free(r) /\ req[r].cut = "no"
                 /\ Becomes(r, Aborted(r, cut))
                 /\ UNCHANGED <<entries, clock, configured, served>>

Tick == /\ clock < MaxTime
        /\ clock' = clock + 1
        /\ UNCHANGED <<req, entries, configured, served>>

(***************************************************************************)
(* The specification.                                                      *)
(***************************************************************************)
ServerInit ==
    /\ req = [r \in Request |-> Idle]
    /\ entries = <<>>
    /\ clock = 0
    /\ configured \in BOOLEAN
    /\ served = [key \in Address |-> <<>>]

ServerNext ==
    \/ Tick
    \/ \E r \in Request :
        \/ \E route \in Route \ {"readyz"} :
              \/ \E fault \in DOMAIN Refusal : Refused(r, route, fault)
              \/ \E key \in Address :
                    \/ Limited(r, route, key)
                    \/ \E stage \in {"body", "handling"} : Admitted(r, route, key, stage)
        \/ Ready(r)
        \/ \E content \in {"danger", "ungathered", "plain"} : BodyRead(r, content)
        \/ \E status \in {400, 413} : BodyRefused(r, status)
        \/ Valid(r) \/ Invalid(r) \/ \E status \in {502, 503, 504} : ProviderFails(r, status)
        \/ Recorded(r)
        \/ TransportAnswers(r) \/ TransportThrows(r) \/ ResponseClosed(r)
        \/ \E cut \in {"timeout", "client"} : Abort(r, cut)

ServerSpec == ServerInit /\ [][ServerNext]_serverVars
(* Timers fire, the sink returns and a response that was ended closes.     *)
(* Neither the client, nor the provider, nor the transport owes a step.    *)
Scheduled == \A r \in Request : /\ WF_serverVars(Abort(r, "timeout"))
                              /\ WF_serverVars(Recorded(r) \/ ResponseClosed(r))

(***************************************************************************)
(* Properties.                                                             *)
(***************************************************************************)

(* What the caller is told is what happened.  A provider's output reaches  *)
(* a caller only if it passed validation, the first time or after the one  *)
(* repair ("repairs one invalid result exactly once"); an operation that   *)
(* was executed is recorded exactly once, as a success exactly when the    *)
(* answer was 200; and a caller who left is sent nothing: whenever the     *)
(* deadline or the departure falls between the provider, the record and    *)
(* the answer (execute, operation-service.ts:236).                         *)
HonestAnswer == \A r \in Request :
    LET q == req[r] IN
    /\ q.attempts <= 2
    /\ q.answer = 200 /\ q.attempts > 0 => q.valid
    /\ Len(q.log) <= 1
    /\ q.stage = "done" /\ q.attempts > 0 => Len(q.log) = 1
    /\ q.log # <<>> /\ q.answer # 0 => Head(q.log).success = (q.answer = 200)
    /\ q.cut = "client" /\ q.route # "mcp" => q.answer = 0

(* The limiter is bounded, and fair to an address.  It never remembers     *)
(* more than its bound of them.  An entry never counts more requests       *)
(* than its address really made in the window it stands for, so an address *)
(* is refused only once it spent its allowance, whichever entries were     *)
(* evicted or expired meanwhile.  And while no more addresses come than    *)
(* the limiter remembers, none is admitted more often than its allowance   *)
(* at an instant, nor twice its allowance in an interval as long as a      *)
(* window: the first request of a window opens it (rate-limit.ts:49).      *)
Since(key, time) == Cardinality({n \in DOMAIN served[key] : served[key][n] >= time})
Between(key, from, to) ==
    Cardinality({n \in DOMAIN served[key] : served[key][n] >= from /\ served[key][n] < to})
Remembered == Cardinality({key \in Address : served[key] # <<>>}) <= MaximumKeys
FairLimiter ==
    /\ Len(entries) <= MaximumKeys
    /\ \A i \in DOMAIN entries :
          entries[i].count <= Since(entries[i].key, entries[i].resetAt - Window)
    /\ Remembered => \A key \in Address, time \in 0..clock :
          /\ Between(key, time, time + 1) <= Maximum
          /\ Between(key, time, time + Window) < 2 * Maximum

(* The limiter forgets a window that still counts only when it is full of  *)
(* such windows, and then only the one that ends first, whoever renewed    *)
(* theirs meanwhile: an address cannot be let off because others expired,  *)
(* nor several at once (makeRoom and the order of the Map,                 *)
(* rate-limit.ts:30).                                                      *)
ForgetsOldest ==
    \A key \in Address, i \in DOMAIN entries :
        i \in EntryOf(key) /\ Live(entries[i]) /\ EntryOf(key)' = {} =>
            /\ Len(entries) = MaximumKeys
            /\ \A other \in Address \ {key}, j \in DOMAIN entries : j \in EntryOf(other) =>
                  /\ Live(entries[j]) /\ entries[i].resetAt <= entries[j].resetAt
                  /\ EntryOf(other)' # {}
OldestForgotten == [][ForgetsOldest]_serverVars

(* Every request that was admitted ends, however long its body, its client *)
(* or the provider takes: "times out a stalled request body within the     *)
(* whole-request deadline" and "even when an injected provider ignores     *)
(* abort" (http.test.ts:747, 759).  Of MCP, whose transport answers, the   *)
(* server's release is promised.                                           *)
Answered == \A r \in Request :
    /\ req[r].stage \in {"body", "provider", "recording"} ~> req[r].stage \in {"done", "handling"}
    /\ req[r].stage = "handling" ~> req[r].closes > 0
=============================================================================
