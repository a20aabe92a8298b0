----------------------------- MODULE MCTerminal -----------------------------
(* A small instance of a terminal for TLC. *)
EXTENDS TermTeletype

Wr(n) == [op |-> "write", unit |-> 0, buffer |-> TRUE, len |-> n]
Rd(n) == [op |-> "read", unit |-> 0, buffer |-> TRUE, len |-> n]

(* A read, a write of two characters, and a refused call. *)
SomeCalls == {Rd(1), Wr(2), Wr(0)}
=============================================================================
