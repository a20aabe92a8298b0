------------------------------- MODULE MCDisk -------------------------------
(* Small instances of the disk system for TLC. *)
EXTENDS DiskOrder, TLC

CONSTANTS p1, p2, p3, p4

Rd(u, t, f, n) == [op |-> "read", unit |-> u, track |-> t, first |-> f, sectors |-> n]
Wr(u, t, f, n) == [op |-> "write", unit |-> u, track |-> t, first |-> f, sectors |-> n]
Sz(u) == [op |-> "size", unit |-> u, track |-> 0, first |-> 0, sectors |-> 0]

Two == {p1, p2}
Three == {p1, p2, p3}
Four == {p1, p2, p3, p4}
Symmetry4 == Permutations(Four)

(* Disk 0 has three tracks and disk 1 two, of two sectors each. *)
SmallTracks == [u \in {0, 1} |-> 3 - u]

(* Three tracks to order, without transfers, so that four requests can     *)
(* compete.                                                                *)
Tracks == {Rd(0, t, 0, 0) : t \in 0..2}

(* Both disks; requests that cross into the next track or name no disk; a  *)
(* size query.                                                             *)
BothDisks == {Rd(0, 0, 1, 2), Wr(0, 1, 0, 3), Rd(3, 0, 1, 2), Wr(3, 0, 0, 1), Sz(1)}

(* Two tracks to order, one with a transfer. *)
Short == {Rd(0, 0, 0, 0), Wr(0, 1, 1, 1)}

(* The calls that the documentation and the tests promise more of. *)
Sizes == {Sz(0), Sz(1)}
Refused == {Rd(0, 0, 5, 1), Wr(0, 2, 1, 2)}
=============================================================================
