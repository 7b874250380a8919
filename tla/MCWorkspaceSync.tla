-------------------------- MODULE MCWorkspaceSync --------------------------
(* Two tabs, on a device each or sharing one.                              *)
EXTENDS WorkspaceSync, TLC

CONSTANTS t1, t2, v1, v2, d1, d2, s1

TwoDevices == (t1 :> v1) @@ (t2 :> v2)
OneTab == t1 :> v1
OneDevice == (t1 :> v1) @@ (t2 :> v1)
SameDocuments == Permutations(Doc)
=============================================================================
