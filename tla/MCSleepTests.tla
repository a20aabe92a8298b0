---------------------------- MODULE MCSleepTests ----------------------------
(* The test programs, on a table of the real size. *)
EXTENDS SleepTests

(* A refused argument, no time at all, and a second. *)
SomeSeconds == {-1, 0, 1}
=============================================================================
