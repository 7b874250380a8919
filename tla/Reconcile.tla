----------------------------- MODULE Reconcile -----------------------------
(***************************************************************************)
(* Three-way reconciliation (workspace-sync.ts): the server's workspace    *)
(* and the device's, both grown from a base the device last saw.  A        *)
(* collection is a function from the ids it holds to what is stored there. *)
(***************************************************************************)

CONSTANT Absent         \* what a collection holds at an id it does not have

At(C, x) == IF x \in DOMAIN C THEN C[x] ELSE Absent

Changed(C, base, x) == At(C, x) # At(base, x)

EveryChange(server, local, base) == {x \in DOMAIN local : Changed(local, base, x)}   \* mutant

(* Changed here while the server still holds the base.                     *)
LocalWins(server, local, base) ==
    {x \in DOMAIN local : Changed(local, base, x) /\ ~Changed(server, base, x)}

NotHere(server, local, base) == DOMAIN server \ DOMAIN local                         \* mutant

(* Removed here while the server still holds the base.                     *)
LocalDrops(server, local, base) ==
    {x \in DOMAIN base \ DOMAIN local : ~Changed(server, base, x)}

(* One-sided changes are taken, the server's value stands everywhere else. *)
ThreeWay(server, local, base) ==
    LET wins == LocalWins(server, local, base)
        held == (DOMAIN server \cup wins) \ LocalDrops(server, local, base)
    IN [x \in held |-> IF x \in wins THEN local[x] ELSE server[x]]

(* Documents of the device that both sides changed: each is preserved as a *)
(* copy under an id that nothing else has.                                 *)
ServerPreferred(server, local, base) == {}                                          \* mutant
Conflicts(server, local, base) ==
    {x \in DOMAIN local : Changed(local, base, x) /\ Changed(server, base, x)}

Fresh(x, n) == <<x, n>>
Original(y) == y[1]

With(kept, copies) ==
    [x \in DOMAIN kept \cup DOMAIN copies |->
        IF x \in DOMAIN copies THEN copies[x] ELSE kept[x]]
=============================================================================
