----------------------------- MODULE DiskOrder ------------------------------
(***************************************************************************)
(* The pointer-level queue of module Disk implements the elevator: the     *)
(* refinement mapping.  A request arrives when Insert links it and is      *)
(* finished when Unlink takes it out; the list's head is the request being *)
(* served, and the order of the list is the order of service.              *)
(***************************************************************************)
EXTENDS Disk

(* The null pointer is none of the stops that the elevator makes. *)
ASSUME NullIsNoStop == NULL \notin [proc : Proc, track : Int]

StopOf(p) == [proc |-> p, track |-> req[p].track]

Behind(u) == Queued(u) \ {head[u]}

At(u) == IF head[u] = NULL THEN NULL ELSE StopOf(head[u])

Waiting(u) == {StopOf(p) : p \in Behind(u)}

Older(u) ==
  {o \in Behind(u) \X Behind(u) :
     /\ o[1] # o[2] /\ req[o[1]].track = req[o[2]].track
     /\ o[2] \in Walked(o[1], Proc)}

Queue(u) == INSTANCE Elevator WITH
  None <- NULL,
  Track <- {c.track : c \in Request},
  at <- At(u), waiting <- Waiting(u), older <- Older(u)

(* Whatever the interleaving of arrivals and completions, requests are     *)
(* served in elevator order: what diskQueueHelper keeps its list sorted    *)
(* for, and the order test16.out and test18.out print.  This is            *)
(* Queue(u)!Spec for every disk u at once.                                 *)
ElevatorOrder ==
  /\ \A u \in Unit : Queue(u)!Init
  /\ [][\A u \in Unit : [Queue(u)!Next]_(Queue(u)!vars)]_vars
=============================================================================
