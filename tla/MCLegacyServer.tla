--------------------------- MODULE MCLegacyServer ---------------------------
(* The limiter does not see how a request goes on after its headers, nor   *)
(* do the others see its entries.  Requests are therefore explored on      *)
(* every route and at every stage while few of them were admitted; after   *)
(* that they end at their body, by the timeout, and what is explored is    *)
(* the limiter: addresses that come in their order, as they are all alike, *)
(* and of which one goes on when it has spent its allowance.               *)
EXTENDS LegacyServer

Admissions == FoldSet(LAMBDA key, n : n + Len(served[key]), 0, Address)
Few == Admissions <= Maximum

LimiterNext == \/ Tick
               \/ \E r \in Request : \/ \E key \in Address : Admitted(r, "realtime", key, "body")
                                     \/ Abort(r, "timeout")
ComeInOrder == \A key \in Address \ {1} : served[key] # <<>> => served[key - 1] # <<>>
OneGoesOn == Cardinality({key \in Address : Len(served[key]) > Maximum}) <= 1

MCNext == /\ (Few /\ ServerNext) \/ LimiterNext
          /\ ComeInOrder' /\ OneGoesOn'
MCServer == ServerInit /\ [][MCNext]_serverVars /\ Scheduled
=============================================================================
