------------------------- MODULE MCWorkspaceServer -------------------------
EXTENDS WorkspaceServer, TLC

(* Handlers of one route are interchangeable, and so are the values the    *)
(* clients and the server draw at random.                                  *)
Symmetry == Permutations(Saver) \cup Permutations(Reader)
            \cup Permutations(Mutation) \cup Permutations(Namespace)
=============================================================================
