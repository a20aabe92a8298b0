---------------------------- MODULE MCDiskTests -----------------------------
(* The test programs on the disks that the .out files were made with. *)
EXTENDS DiskTests

RealTracks == [u \in {0, 1} |-> 16 * (u + 1)]
=============================================================================
