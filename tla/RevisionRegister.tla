-------------------------- MODULE RevisionRegister --------------------------
(***************************************************************************)
(* What the hosted workspace promises a device, whatever handlers,         *)
(* statements and receipts stand behind it: a register of numbered states. *)
(* A mutation either becomes the next revision or is refused, never both;  *)
(* it is acknowledged only with a revision that holds its state.           *)
(***************************************************************************)
EXTENDS Integers

CONSTANTS Mutation, Content

VARIABLES
    latest,     \* the latest revision
    committed,  \* [rev, mid, state]: the mutation that made each revision
    acked,      \* <<mid, rev, state>>: acknowledgements given
    refused     \* <<mid, base, rev, state>>: conflicts given, with the row sent back

regVars == <<latest, committed, acked, refused>>

RInit ==
    /\ latest = 0
    /\ committed = {}
    /\ acked = {}
    /\ refused = {}

CommitNext(m, c) ==
    /\ \A e \in committed : e.mid # m
    /\ \A t \in refused : t[1] # m
    /\ latest' = latest + 1
    /\ committed' = committed \cup {[rev |-> latest + 1, mid |-> m, state |-> c]}
    /\ UNCHANGED <<acked, refused>>

(* Some commit made a revision with the very state the mutation carries.   *)
AckOne(m, e) ==
    /\ e \in committed
    /\ acked' = acked \cup {<<m, e.rev, e.state>>}
    /\ UNCHANGED <<latest, committed, refused>>

RefuseOne(m, base, e) ==
    /\ \A d \in committed : d.mid # m
    /\ e \in committed
    /\ refused' = refused \cup {<<m, base, e.rev, e.state>>}
    /\ UNCHANGED <<latest, committed, acked>>

RNext == \E m \in Mutation :
    \/ \E c \in Content : CommitNext(m, c)
    \/ \E e \in committed :
         \/ AckOne(m, e)
         \/ \E base \in 0 .. e.rev - 1 : RefuseOne(m, base, e)

RSpec == RInit /\ [][RNext]_regVars
=============================================================================
