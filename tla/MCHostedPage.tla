---------------------------- MODULE MCHostedPage ----------------------------
(* One tab, one page, and the bounds on what happens besides.              *)
EXTENDS HostedPage

Bounds == [leaving |-> 3, publishing |-> 1]
=============================================================================
