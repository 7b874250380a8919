--------------------------- MODULE MCInterlocutor ---------------------------
(* The page of one account, which makes two requests of its own, or one    *)
(* from its first workspace while two other accounts make one each: with   *)
(* one reservation to an account and two in all, the former are refused by *)
(* the account's limit, the latter by the global one.  Which request is    *)
(* whose makes no difference.  The others come before the page's request   *)
(* has its reservation or refusal, as later ones meet nobody, and in their *)
(* order.                                                                  *)
EXTENDS Interlocutor, Sequences

CONSTANTS Second, Third    \* the other accounts

Alone == tenant = <<Author, Author, Author>>
Crowded == tenant = <<Author, Second, Third>>
Own == {r \in Request : tenant[r] = Author /\ asked[r] # Nothing}
Arriving == {r \in Request : pc[r] = "idle" /\ pc'[r] = "read"}
Reserved(r) == pc[r] \in {"admitted", "refused", "failed"}

MCInit == PageInit /\ (Alone \/ (Crowded /\ FirstTime))
MCNext == /\ PageNext
          /\ Cardinality(Own') <= 2
          /\ \A r \in Arriving \ Own : /\ \E q \in Own : ~Reserved(q)
                                       /\ \A q \in 2 .. r - 1 : pc[q] # "idle"
MCSpec == MCInit /\ [][MCNext]_allVars
=============================================================================
