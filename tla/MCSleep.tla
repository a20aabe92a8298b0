------------------------------ MODULE MCSleep -------------------------------
(* Small instances of the sleep system for TLC. *)
EXTENDS Sleep

(* A refused argument, no time at all, and a second. *)
SomeSeconds == {-1, 0, 1}
=============================================================================
