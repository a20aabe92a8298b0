------------------------------ MODULE Elevator ------------------------------
(***************************************************************************)
(* What the disk queue of src/phase4.c promises: a disk serves its         *)
(* requests as a one-way elevator.  The arm goes up; a request for the     *)
(* arm's track or one above it is met on this sweep, one below it on the   *)
(* next; requests for one track are served in the order they came.         *)
(***************************************************************************)
EXTENDS Integers

CONSTANTS Proc, None, Track

VARIABLES at,      \* the request being served, or None
          waiting, \* the other requests
          older    \* the pairs of them on one track, in order of arrival

vars == <<at, waiting, older>>

Stop == [proc : Proc, track : Track]

TypeOK ==
  /\ at \in Stop \cup {None}
  /\ waiting \in SUBSET Stop
  /\ older \in SUBSET (Proc \X Proc)

Init == at = None /\ waiting = {} /\ older = {}

Arrive(s) ==
  \/ /\ at = None
     /\ at' = s
     /\ UNCHANGED <<waiting, older>>
  \/ /\ at # None
     /\ UNCHANGED at
     /\ waiting' = waiting \cup {s}
     /\ older' = older \cup {<<w.proc, s.proc>> : w \in {v \in waiting :
                                                           v.track = s.track}}

(* The arm, on track t, meets r before s: r is ahead and s is behind, or   *)
(* both are on the same side and r is the lower.                           *)
Sooner(t, r, s) ==
  \/ r.track >= t /\ s.track < t
  \/ (r.track >= t <=> s.track >= t) /\ r.track < s.track

(* Nobody waiting is met sooner than s, or came earlier for its track. *)
IsNext(s) ==
  \A r \in waiting : /\ ~Sooner(at.track, r, s)
                     /\ <<r.proc, s.proc>> \notin older

Finish ==
  /\ at # None
  /\ \/ /\ at' = None /\ waiting = {}
        /\ UNCHANGED <<waiting, older>>
     \/ \E s \in waiting :
          /\ at' = s /\ IsNext(s)
          /\ waiting' = waiting \ {s}
          /\ older' = {o \in older : o[1] # s.proc}

Next == Finish \/ \E s \in Stop : Arrive(s)

Spec == Init /\ [][Next]_vars
=============================================================================
