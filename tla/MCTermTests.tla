---------------------------- MODULE MCTermTests -----------------------------
(* The test programs on three of the terminals. *)
EXTENDS TermTests

Typed3 == [u \in {0, 1, 2} |-> IF u = 0 THEN <<2, 3, 2>> ELSE <<3, 2>>]
=============================================================================
