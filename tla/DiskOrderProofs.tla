--------------------------- MODULE DiskOrderProofs ---------------------------
(***************************************************************************)
(* The queue of each disk implements the elevator: every step of module    *)
(* Disk is a step of module Elevator or changes nothing there, for every   *)
(* set of processes, requests and disks.                                   *)
(***************************************************************************)
EXTENDS DiskOrder, DiskProofs

-----------------------------------------------------------------------------
(* Lists of rows, whatever variable holds their links: n is a next field,  *)
(* h a head and Q the rows of the list.                                    *)

Links == [Proc -> Proc \cup {NULL}]
KeepsTo(n, S) == \A z \in S : n[z] # NULL => n[z] \in S
Reach(n, x) == {y \in Proc : \A S \in SUBSET Proc : x \in S /\ KeepsTo(n, S) => y \in S}

List(n, h, Q) ==
  /\ n \in Links /\ Q \subseteq Proc /\ h \in Q
  /\ \A z \in Q : n[z] # NULL => n[z] \in Q /\ n[z] # h
  /\ \A y, z \in Q : n[y] # NULL /\ n[y] = n[z] => y = z
  /\ Q \subseteq Reach(n, h)

LEMMA ReachSelf == ASSUME NEW n, NEW x \in Proc PROVE x \in Reach(n, x)
  BY DEF Reach

LEMMA ReachNext ==
  ASSUME NEW n \in Links, NEW x, NEW y \in Reach(n, x), n[y] # NULL
  PROVE  n[y] \in Reach(n, x)
  BY DEF Reach, KeepsTo, Links

LEMMA ReachLeast ==
  ASSUME NEW n, NEW x, NEW S \in SUBSET Proc, x \in S, KeepsTo(n, S)
  PROVE  Reach(n, x) \subseteq S
  BY DEF Reach

LEMMA ReachKeeps ==
  ASSUME NEW n \in Links, NEW x
  PROVE  Reach(n, x) \in SUBSET Proc /\ KeepsTo(n, Reach(n, x))
  BY ReachNext DEF Reach, KeepsTo

LEMMA ReachOn ==
  ASSUME NEW n \in Links, NEW x, NEW y \in Reach(n, x)
  PROVE  Reach(n, y) \subseteq Reach(n, x)
  BY ReachKeeps, ReachLeast

(* What is reached from x is x itself or reached from the row after it. *)
LEMMA ReachFirst ==
  ASSUME NEW n \in Links, NEW x \in Proc, NEW y \in Reach(n, x), y # x
  PROVE  n[x] # NULL /\ y \in Reach(n, n[x])
<1>1. ASSUME n[x] = NULL PROVE FALSE
  <2>1. KeepsTo(n, {x})
    BY <1>1 DEF KeepsTo
  <2> QED
    BY <2>1, ReachLeast
<1>2. CASE n[x] # NULL
  <2>1. n[x] \in Proc
    BY <1>2 DEF Links
  <2> DEFINE S == {x} \cup Reach(n, n[x])
  <2>2. S \in SUBSET Proc
    BY DEF Reach
  <2>3. KeepsTo(n, S)
    BY <2>1, ReachSelf, ReachNext DEF KeepsTo
  <2> QED
    BY <1>2, <2>2, <2>3, ReachLeast
<1> QED
  BY <1>1, <1>2

(* Nothing is reached from outside a list's rows, and no row reaches back  *)
(* to itself.                                                              *)
LEMMA ListKeeps ==
  ASSUME NEW n, NEW h, NEW Q, List(n, h, Q), NEW x \in Q
  PROVE  x \in Proc /\ Reach(n, x) \subseteq Q
  BY ReachLeast DEF List, KeepsTo

LEMMA Acyclic ==
  ASSUME NEW n, NEW h, NEW Q, List(n, h, Q), NEW x \in Q, n[x] # NULL
  PROVE  x \notin Reach(n, n[x])
<1>0. n \in Links /\ Q \in SUBSET Proc /\ n[x] \in Q
  BY DEF List
<1> SUFFICES ASSUME x \in Reach(n, n[x]) PROVE FALSE
  OBVIOUS
<1> DEFINE C == Reach(n, n[x])
           D == {z \in C : \E y \in C : n[y] = z}
<1>1. C \subseteq Q /\ C \in SUBSET Proc
  BY <1>0, ListKeeps, ReachKeeps
<1>2. n[x] \in C
  BY <1>0, ReachSelf
<1>3. n[x] \in D
  BY <1>2
<1>4. KeepsTo(n, D)
  BY <1>0, ReachNext DEF KeepsTo
<1>5. C \subseteq D
  BY <1>1, <1>3, <1>4, ReachLeast
<1>6. \A z \in Q \ C : n[z] # NULL => n[z] \in Q \ C
  BY <1>1, <1>5 DEF List
<1>7. h \in Q \ C
  <2>1. \A y \in C : n[y] # h
    BY <1>0, <1>1, NullAssumption DEF List
  <2> QED
    BY <1>5, <2>1 DEF List
<1>8. Q \subseteq Q \ C
  <2>1. Q \ C \in SUBSET Proc /\ KeepsTo(n, Q \ C)
    BY <1>0, <1>6 DEF KeepsTo
  <2> QED
    BY <1>7, <2>1, ReachLeast DEF List
<1> QED
  BY <1>1, <1>2, <1>8

(* Of two rows of a list, one comes before the other. *)
LEMMA Linear ==
  ASSUME NEW n, NEW h, NEW Q, List(n, h, Q), NEW x \in Q, NEW y \in Q
  PROVE  y \in Reach(n, x) \/ x \in Reach(n, y)
<1>0. n \in Links /\ Q \in SUBSET Proc /\ h \in Q /\ Q \subseteq Reach(n, h)
  BY DEF List
<1> DEFINE S == {z \in Q : z \in Reach(n, x) \/ x \in Reach(n, z)}
<1>1. h \in S
  BY <1>0
<1>2. ASSUME NEW z \in S, n[z] # NULL PROVE n[z] \in S
  <2>1. n[z] \in Q
    BY <1>2 DEF List
  <2>2. CASE z \in Reach(n, x)
    BY <1>0, <1>2, <2>1, <2>2, ReachNext
  <2>3. CASE x \in Reach(n, z) /\ z # x
    BY <1>0, <2>1, <2>3, ReachFirst
  <2>4. CASE z = x
    BY <1>0, <1>2, <2>1, <2>4, ReachSelf, ReachNext
  <2> QED
    BY <1>2, <2>2, <2>3, <2>4
<1>3. Reach(n, h) \subseteq S
  <2>1. KeepsTo(n, S)
    BY <1>2 DEF KeepsTo
  <2> QED
    BY <1>0, <1>1, <2>1, ReachLeast
<1> QED
  BY <1>0, <1>3

LEMMA Antisymmetric ==
  ASSUME NEW n, NEW h, NEW Q, List(n, h, Q), NEW x \in Q, NEW y \in Reach(n, x), x \in Reach(n, y)
  PROVE  x = y
<1> SUFFICES ASSUME x # y PROVE FALSE
  OBVIOUS
<1>0. n \in Links /\ x \in Proc
  BY ListKeeps DEF List
<1>1. n[x] # NULL /\ y \in Reach(n, n[x])
  BY <1>0, ReachFirst
<1>2. x \in Reach(n, n[x])
  BY <1>0, <1>1, ReachOn
<1> QED
  BY <1>1, <1>2, Acyclic

-----------------------------------------------------------------------------
(* What a change of links does to a list. *)

(* Rows whose links, and those of all rows they reach, did not change. *)
LEMMA ReachSame ==
  ASSUME NEW n \in Links, NEW m \in Links, NEW Q \in SUBSET Proc, KeepsTo(n, Q),
         \A z \in Q : m[z] = n[z], NEW x \in Q
  PROVE  Reach(m, x) = Reach(n, x)
<1>1. KeepsTo(m, Q)
  BY DEF KeepsTo
<1>2. Reach(n, x) \subseteq Q /\ Reach(m, x) \subseteq Q
  BY <1>1, ReachLeast
<1>3. KeepsTo(m, Reach(n, x)) /\ KeepsTo(n, Reach(m, x))
  BY <1>2, ReachKeeps DEF KeepsTo
<1>4. x \in Reach(n, x) /\ x \in Reach(m, x)
  BY ReachSelf
<1> QED
  BY <1>3, <1>4, ReachKeeps, ReachLeast

(* A row p linked behind row x: the others keep their order, p comes after *)
(* x and those before it, and before those after it.                       *)
LEMMA InsertReach ==
  ASSUME NEW n, NEW h, NEW Q, List(n, h, Q), NEW p \in Proc \ Q, NEW x \in Q,
         NEW m \in Links, m[p] = n[x], m[x] = p, \A z \in Q \ {x} : m[z] = n[z]
  PROVE  /\ \A a, b \in Q : b \in Reach(m, a) <=> b \in Reach(n, a)
         /\ \A a \in Q : p \in Reach(m, a) <=> x \in Reach(n, a)
         /\ \A b \in Q : b \in Reach(m, p) => n[x] # NULL /\ b \in Reach(n, n[x])
<1>0. n \in Links /\ Q \in SUBSET Proc /\ x \in Proc /\ x # p /\ p # NULL
  BY NullAssumption DEF List
<1>1. m \in Links /\ m[p] = n[x] /\ m[x] = p /\ \A z \in Q \ {x} : m[z] = n[z]
  OBVIOUS
<1>2. ASSUME NEW a \in Q PROVE Reach(n, a) \subseteq Reach(m, a)
  <2>1. KeepsTo(n, Reach(m, a) \cap Q)
    <3>1. ASSUME NEW z \in Reach(m, a) \cap Q, n[z] # NULL PROVE n[z] \in Reach(m, a) \cap Q
      <4>1. n[z] \in Q
        BY <3>1 DEF List
      <4>2. CASE z # x
        BY <1>1, <3>1, <4>1, <4>2, ReachNext
      <4>3. CASE z = x
        <5>0. x \in Reach(m, a) /\ m[x] # NULL
          BY <1>0, <1>1, <4>3
        <5>1. p \in Reach(m, a)
          BY <1>1, <5>0, ReachNext
        <5> QED
          BY <1>1, <3>1, <4>1, <4>3, <5>1, ReachNext
      <4> QED
        BY <4>2, <4>3
    <3> QED
      BY <3>1 DEF KeepsTo
  <2>2. a \in Reach(m, a) \cap Q /\ Reach(m, a) \cap Q \in SUBSET Proc
    BY <1>0, ReachSelf
  <2> QED
    BY <2>1, <2>2, ReachLeast
<1>3. ASSUME NEW a \in Q
      PROVE  Reach(m, a) \subseteq Reach(n, a) \cup (IF x \in Reach(n, a) THEN {p} ELSE {})
  <2> DEFINE R == Reach(n, a) \cup (IF x \in Reach(n, a) THEN {p} ELSE {})
  <2>1. Reach(n, a) \subseteq Q /\ a \in Reach(n, a)
    BY <1>0, ListKeeps, ReachSelf
  <2>2. ASSUME NEW z \in R, m[z] # NULL PROVE m[z] \in R
    <3>1. CASE z = p
      <4>1. x \in Reach(n, a)
        BY <2>1, <3>1
      <4> QED
        BY <1>0, <1>1, <2>2, <3>1, <4>1, ReachNext
    <3>2. CASE z # p
      <4>1. z \in Reach(n, a) /\ z \in Q
        BY <2>1, <3>2
      <4>2. CASE z = x
        BY <1>1, <4>1, <4>2
      <4>3. CASE z # x
        BY <1>0, <1>1, <2>2, <4>1, <4>3, ReachNext
      <4> QED
        BY <4>2, <4>3
    <3> QED
      BY <3>1, <3>2
  <2>3. KeepsTo(m, R) /\ R \in SUBSET Proc /\ a \in R
    BY <1>0, <2>1, <2>2 DEF KeepsTo
  <2> QED
    BY <2>3, ReachLeast
<1>4. ASSUME NEW a \in Q, x \in Reach(n, a) PROVE p \in Reach(m, a)
  <2>1. x \in Reach(m, a) /\ m[x] # NULL
    BY <1>0, <1>1, <1>2, <1>4
  <2> QED
    BY <1>1, <2>1, ReachNext
<1>5. ASSUME NEW b \in Q, b \in Reach(m, p)
      PROVE  n[x] # NULL /\ b \in Reach(n, n[x])
  <2>1. b # p
    OBVIOUS
  <2>2. m[p] # NULL /\ b \in Reach(m, m[p])
    BY <1>1, <1>5, <2>1, ReachFirst
  <2>3. n[x] \in Q
    BY <1>1, <2>2 DEF List
  <2> QED
    BY <1>1, <1>3, <2>1, <2>2, <2>3
<1>6. \A a, b \in Q : b \in Reach(m, a) <=> b \in Reach(n, a)
  BY <1>2, <1>3
<1>7. \A a \in Q : p \in Reach(m, a) <=> x \in Reach(n, a)
  <2>1. \A a \in Q : p \notin Reach(n, a)
    BY ListKeeps
  <2> QED
    BY <1>3, <1>4, <2>1
<1> QED
  BY <1>1, <1>5, <1>6, <1>7

-----------------------------------------------------------------------------
(* The elevator's order of tracks, seen from track t. *)

Before(t, a, b) == (a >= t /\ b < t) \/ ((a >= t <=> b >= t) /\ a < b)

LEMMA NotBefore ==
  ASSUME NEW t \in Int, NEW a \in Int, NEW b \in Int, NEW c \in Int
  PROVE  /\ ~Before(t, a, a) /\ ~Before(t, a, t)
         /\ ~Before(t, b, a) /\ ~Before(t, c, b) => ~Before(t, c, a)
         /\ ~Before(t, b, a) /\ ~Before(t, a, b) => a = b
  BY DEF Before

(* The order seen from the next stop. *)
LEMMA NextBefore ==
  ASSUME NEW t \in Int, NEW s \in Int, NEW a \in Int, NEW b \in Int,
         ~Before(t, a, s), ~Before(t, b, s), ~Before(t, b, a)
  PROVE  ~Before(s, b, a)
  BY DEF Before

(* A list that is sorted link by link, k being the rows' tracks. *)
Sorted(n, t, k, Q) == \A z \in Q : n[z] # NULL => ~Before(t, k[n[z]], k[z])

LEMMA SortedReach ==
  ASSUME NEW n, NEW h, NEW Q, List(n, h, Q), NEW t \in Int, NEW k \in [Q -> Int],
         Sorted(n, t, k, Q), NEW x \in Q, NEW y \in Reach(n, x)
  PROVE  y \in Q /\ ~Before(t, k[y], k[x])
<1> DEFINE S == {z \in Q : ~Before(t, k[z], k[x])}
<1>1. x \in S
  BY NotBefore
<1>2. ASSUME NEW z \in S, n[z] # NULL PROVE n[z] \in S
  <2>1. n[z] \in Q /\ z \in Q
    BY <1>2 DEF List
  <2>2. ~Before(t, k[n[z]], k[z])
    BY <1>2, <2>1 DEF Sorted
  <2>3. k[n[z]] \in Int /\ k[z] \in Int /\ k[x] \in Int
    BY <2>1
  <2>4. ~Before(t, k[n[z]], k[x])
    BY <1>2, <2>2, <2>3, NotBefore
  <2> QED
    BY <2>1, <2>4
<1>3. Reach(n, x) \subseteq S
  <2>1. KeepsTo(n, S)
    BY <1>2 DEF KeepsTo
  <2>2. S \in SUBSET Proc
    BY DEF List
  <2> QED
    BY <1>1, <2>1, <2>2, ReachLeast
<1> QED
  BY <1>3

-----------------------------------------------------------------------------
(* The queue of a disk as such a list. *)

ListInv ==
  /\ next \in Links
  /\ \A x \in Proc : Walked(x, Proc) = Reach(next, x)
  /\ \A u \in Unit : /\ head[u] = NULL => Queued(u) = {}
                     /\ head[u] # NULL => List(next, head[u], Queued(u))
                     /\ \A q \in Queued(u) : q \in Proc /\ req[q].track \in Int
                                             /\ req[q] \in Request

LEMMA QueueList == Inv => ListInv
<1> SUFFICES ASSUME Inv PROVE ListInv
  OBVIOUS
<1>0. TypeOK /\ CallInv /\ LinkInv /\ ChainInv
  BY DEF Inv
<1>1. next \in Links
  BY <1>0 DEF TypeOK, ProcType, Links
<1>2. \A S \in SUBSET Proc : KeepsTo(next, S) <=> \A z \in S : next[z] \in Proc => next[z] \in S
  BY <1>1, NullAssumption DEF KeepsTo, Links
<1>3. \A x \in Proc : Walked(x, Proc) = Reach(next, x)
  BY <1>2 DEF Walked, Reach
<1>4. ASSUME NEW u \in Unit, head[u] = NULL PROVE Queued(u) = {}
  <2>1. Closed({}) /\ {} \in SUBSET Proc
    BY DEF Closed
  <2>2. Queued(u) \subseteq {}
    BY <1>0, <1>4, <2>1 DEF ChainInv
  <2> QED
    BY <2>2
<1>5. ASSUME NEW u \in Unit, head[u] # NULL PROVE List(next, head[u], Queued(u))
  <2>1. head[u] \in Queued(u) /\ Queued(u) \in SUBSET Proc /\ head[u] \in Proc
    BY <1>0, <1>5 DEF LinkInv, Queued
  <2>2. \A z \in Queued(u) : next[z] # NULL => next[z] \in Queued(u) /\ next[z] # head[u]
    BY NextInQueue
  <2>3. Queued(u) \subseteq Reach(next, head[u])
    <3>1. Closed(Reach(next, head[u])) /\ head[u] \in Reach(next, head[u])
      BY <1>1, <2>1, ReachSelf, ReachNext DEF Closed
    <3> QED
      BY <1>0, <1>1, <3>1, ReachKeeps DEF ChainInv
  <2>4. \A y, z \in Queued(u) : next[y] # NULL /\ next[y] = next[z] => y = z
    BY <1>0, <2>1 DEF LinkInv
  <2> QED
    BY <1>1, <2>1, <2>2, <2>3, <2>4 DEF List
<1>6. \A u \in Unit : \A q \in Queued(u) : q \in Proc /\ req[q] \in Request /\ req[q].track \in Int
  BY <1>0, RequestAssumption DEF CallInv, Queued
<1> QED
  BY <1>1, <1>3, <1>4, <1>5, <1>6 DEF ListInv

LEMMA QueueListNext == Inv' => ListInv'
  BY QueueList, PTL

TrackOf(u) == [q \in Queued(u) |-> req[q].track]

(* The list is in elevator order, seen from its head. *)
SortedQueue(u) ==
  head[u] # NULL => Sorted(next, req[head[u]].track, TrackOf(u), Queued(u))

SortInv == \A u \in Unit : SortedQueue(u)

LEMMA InitSort == Init => SortInv
  BY DEF Init, SortInv, SortedQueue

(* A walk meets only rows of P after its first. *)
LEMMA WalkEndIn ==
  ASSUME NEW x \in Proc, NEW P \in SUBSET Proc, NEW y \in WalkEnd(x, P)
  PROVE  (y = x \/ y \in P) /\ next[y] \notin P
<1> DEFINE S == {x} \cup P
<1>1. S \in SUBSET Proc /\ x \in S /\ \A z \in S : next[z] \in P => next[z] \in S
  OBVIOUS
<1>2. y \in S
  BY <1>1 DEF WalkEnd, Walked
<1> QED
  BY <1>2 DEF WalkEnd

(* diskQueueHelper finds a place behind rows that are met no later and     *)
(* before one that is met later.                                           *)
LEMMA InsertPlace ==
  ASSUME Inv, SortInv, NEW p \in Proc, Insert(p), NEW u \in Unit, u = UnitOf(req[p]),
         head[u] # NULL, NEW t \in Int, t = req[head[u]].track,
         NEW s \in Int, s = req[p].track
  PROVE  /\ head' = head
         /\ \E x \in Queued(u) : /\ LinkAfter(p, x)
                                 /\ ~Before(t, s, req[x].track)
                                 /\ next[x] # NULL => Before(t, s, req[next[x]].track)
<1>1. /\ head[u] \in Queued(u) /\ next[p] = NULL /\ p \notin Queued(u)
      /\ \A q \in Queued(u) : q \in Proc /\ req[q].track \in Int
      /\ \A q \in Queued(u) : next[q] # NULL =>
           next[q] \in Queued(u) /\ ~Before(t, req[next[q]].track, req[q].track)
  <2>1. next[p] = NULL /\ p \notin Queued(u)
    BY InsertShape
  <2>2. ListInv /\ List(next, head[u], Queued(u)) /\ Sorted(next, t, TrackOf(u), Queued(u))
    BY QueueList DEF ListInv, SortInv, SortedQueue
  <2> QED
    BY <2>1, <2>2 DEF ListInv, List, Sorted, TrackOf
<1>2. \A x \in Queued(u), P \in SUBSET Proc : WalkEnd(x, P) \subseteq Queued(u)
  BY WalkInQueue DEF WalkEnd
<1>3. next \in [Proc -> Proc \cup {NULL}]
  BY DEF Inv, TypeOK, ProcType
<1>4. CASE /\ t <= s /\ UNCHANGED head
           /\ \E x \in WalkEnd(head[u], UpTo(t, s)) : LinkAfter(p, x)
  <2>0. UpTo(t, s) \in SUBSET Proc
    BY DEF UpTo
  <2>1. PICK x \in WalkEnd(head[u], UpTo(t, s)) : LinkAfter(p, x)
    BY <1>4
  <2>2. x \in Queued(u)
    BY <1>1, <1>2, <2>0, <2>1
  <2>3. req[x].track \in t..s
    BY <1>1, <1>4, <2>0, <2>1, WalkEndIn DEF UpTo
  <2>4. next[x] # NULL => next[x] \in Queued(u) /\ req[next[x]].track \notin t..s
    BY <1>1, <2>0, <2>1, <2>2, WalkEndIn DEF UpTo
  <2> QED
    BY <1>1, <1>4, <2>1, <2>2, <2>3, <2>4 DEF Before
<1>5. CASE /\ t > s /\ UNCHANGED head
           /\ \E x \in WalkEnd(head[u], ThisSweep(t)) :
                IF next[x] = NULL
                THEN next' = [next EXCEPT ![x] = p]
                ELSE \E y \in WalkEnd(x, NextSweep(s)) : LinkAfter(p, y)
  <2>0. ThisSweep(t) \in SUBSET Proc /\ NextSweep(s) \in SUBSET Proc
    BY DEF ThisSweep, NextSweep
  <2>1. PICK x \in WalkEnd(head[u], ThisSweep(t)) :
          IF next[x] = NULL THEN next' = [next EXCEPT ![x] = p]
          ELSE \E y \in WalkEnd(x, NextSweep(s)) : LinkAfter(p, y)
    BY <1>5
  <2>2. x \in Queued(u) /\ x \in Proc
    BY <1>1, <1>2, <2>0, <2>1
  <2>3. req[x].track >= t
    BY <1>1, <2>0, <2>1, WalkEndIn DEF ThisSweep
  <2>4. next[x] # NULL => next[x] \in Queued(u) /\ req[next[x]].track < t
    BY <1>1, <2>0, <2>1, <2>2, WalkEndIn DEF ThisSweep
  <2>5. CASE next[x] = NULL
    <3>1. x # p
      BY <1>1, <2>2
    <3>2. LinkAfter(p, x)
      BY <1>1, <1>3, <2>1, <2>2, <2>5, <3>1 DEF LinkAfter
    <3> QED
      BY <1>1, <1>5, <2>2, <2>3, <2>5, <3>2 DEF Before
  <2>6. CASE next[x] # NULL
    <3>1. PICK y \in WalkEnd(x, NextSweep(s)) : LinkAfter(p, y)
      BY <2>1, <2>6
    <3>2. y \in Queued(u)
      BY <1>2, <2>0, <2>2, <3>1
    <3>3. y = x \/ req[y].track <= s
      BY <2>0, <2>2, <3>1, WalkEndIn DEF NextSweep
    <3>4. next[y] # NULL => next[y] \in Queued(u) /\ req[next[y]].track > s
      BY <1>1, <2>0, <2>2, <3>1, <3>2, WalkEndIn DEF NextSweep
    <3>5. next[y] # NULL => req[next[y]].track < t
      <4>1. CASE y = x
        BY <2>4, <4>1
      <4>2. CASE req[y].track <= s
        BY <1>1, <1>5, <3>2, <4>2 DEF Before
      <4> QED
        BY <3>3, <4>1, <4>2
    <3>6. ~Before(t, s, req[y].track)
      BY <1>1, <1>5, <2>3, <3>2, <3>3 DEF Before
    <3>7. next[y] # NULL => Before(t, s, req[next[y]].track)
      BY <1>1, <1>5, <3>4, <3>5 DEF Before
    <3> QED
      BY <1>5, <3>1, <3>2, <3>6, <3>7
  <2> QED
    BY <2>5, <2>6
<1> QED
  BY <1>4, <1>5 DEF Insert, Enqueue

-----------------------------------------------------------------------------
(* What a queued request asks for does not change. *)
LEMMA ReqFrame ==
  ASSUME Inv, [Next]_vars, NEW u \in Unit, NEW q \in Queued(u)
  PROVE  req'[q] = req[q]
<1>0. q \in Proc /\ pc[q] # "user" /\ req \in [Proc -> Request \cup {NoCall}]
  BY DEF Queued, Inv, TypeOK, ProcType
<1>1. ASSUME NEW p \in Proc, Start(p) PROVE req'[q] = req[q]
  BY <1>0, <1>1 DEF Start, StartIO, RejectIO, StartSize, Call
<1>2. ASSUME NEW p \in Proc, Handler(p) \/ LockQueue(p) PROVE req' = req
  BY <1>2 DEF Handler, FinishSize, Insert, Wake, Return, LockQueue
<1>3. ASSUME NEW v \in Unit, Daemon(v) \/ AllMoved(v) PROVE req' = req
  BY <1>3 DEF Daemon, AllMoved, Boot, BootDone, Awake, QueueEmpty, TakeHead, Seek, SeekDone,
     NextTrack, Transfer, TransferDone, Unlink, Post, procVars
<1>4. ASSUME NEW v \in Unit, DeviceDone(v) PROVE req' = req
  BY <1>4 DEF DeviceDone, procVars
<1>5. CASE UNCHANGED vars
  BY <1>5 DEF vars, procVars
<1> QED
  BY <1>1, <1>2, <1>3, <1>4, <1>5 DEF Next

(* A step that leaves a disk's list alone. *)
LEMMA SameQueue ==
  ASSUME Inv, Inv', [Next]_vars, NEW u \in Unit, Queued(u)' = Queued(u), head'[u] = head[u],
         \A q \in Queued(u) : next'[q] = next[q]
  PROVE  /\ At(u)' = At(u) /\ Waiting(u)' = Waiting(u) /\ Older(u)' = Older(u)
         /\ SortedQueue(u) => SortedQueue(u)'
<1>0. ListInv /\ ListInv'
  BY QueueList, QueueListNext
<1>1. \A q \in Queued(u) : req'[q] = req[q] /\ StopOf(q)' = StopOf(q)
  BY ReqFrame DEF StopOf
<1>2. head[u] # NULL => head[u] \in Queued(u)
  BY <1>0 DEF ListInv, List
<1>3. At(u)' = At(u)
  BY <1>1, <1>2 DEF At
<1>4. Behind(u)' = Behind(u) /\ Behind(u) \subseteq Queued(u)
  BY DEF Behind
<1>5. Waiting(u)' = Waiting(u)
  BY <1>1, <1>4 DEF Waiting
<1>6. ASSUME NEW x \in Queued(u) PROVE Walked(x, Proc)' = Walked(x, Proc)
  <2>1. head[u] # NULL /\ List(next, head[u], Queued(u)) /\ next' \in Links
    BY <1>0 DEF ListInv
  <2>2. Reach(next', x) = Reach(next, x)
    BY <2>1, ReachSame DEF List, KeepsTo
  <2>3. x \in Proc
    BY <2>1 DEF List
  <2> QED
    BY <1>0, <2>2, <2>3 DEF ListInv
<1>7. Older(u)' = Older(u)
  BY <1>1, <1>4, <1>6 DEF Older
<1>8. ASSUME SortedQueue(u) PROVE SortedQueue(u)'
  <2>1. \A q \in Queued(u) : next[q] # NULL => next[q] \in Queued(u)
    BY <1>0 DEF ListInv, List
  <2> QED
    BY <1>1, <1>2, <1>8, <2>1 DEF SortedQueue, Sorted, TrackOf
<1> QED
  BY <1>3, <1>5, <1>7, <1>8

(* The pairs that Older holds. *)
LEMMA OlderPairs ==
  ASSUME Inv, NEW u \in Unit
  PROVE  /\ \A a, b : <<a, b>> \in Older(u) <=>
              /\ a \in Behind(u) /\ b \in Behind(u) /\ a # b
              /\ req[a].track = req[b].track /\ b \in Reach(next, a)
         /\ \A o \in Older(u) : o = <<o[1], o[2]>>
<1>1. Behind(u) \subseteq Proc
  BY DEF Behind, Queued
<1> QED
  BY <1>1, QueueList DEF Older, ListInv

LEMMA OlderPairsNext ==
  ASSUME Inv', NEW u \in Unit
  PROVE  /\ \A a, b : <<a, b>> \in Older(u)' <=>
              /\ a \in Behind(u)' /\ b \in Behind(u)' /\ a # b
              /\ req'[a].track = req'[b].track /\ b \in Reach(next', a)
         /\ \A o \in Older(u)' : o = <<o[1], o[2]>>
<1>1. Behind(u)' \subseteq Proc
  BY DEF Behind, Queued
<1> QED
  BY <1>1, QueueListNext DEF Older, ListInv

LEMMA StopNotNull ==
  ASSUME NEW q \in Proc, req[q].track \in Int
  PROVE  StopOf(q) # NULL
  BY NullIsNoStop DEF StopOf

(* An insertion is an arrival. *)
LEMMA Arrives ==
  ASSUME Inv, Inv', SortInv, [Next]_vars, NEW p \in Proc, Insert(p), NEW u \in Unit,
         u = UnitOf(req[p])
  PROVE  Queue(u)!Arrive(StopOf(p)) /\ StopOf(p) \in Queue(u)!Stop /\ SortedQueue(u)'
<1>0. ListInv /\ ListInv' /\ p # NULL
  BY QueueList, QueueListNext, NullAssumption
<1>1. /\ p \notin Queued(u) /\ Queued(u)' = Queued(u) \cup {p} /\ next[p] = NULL
      /\ req' = req
  BY InsertShape DEF Insert
<1>2. req[p] \in Request /\ req[p].track \in Int
  BY RequestAssumption DEF Insert, Inv, CallInv
<1>3. StopOf(p) \in Queue(u)!Stop
  BY <1>2 DEF StopOf, Queue!Stop
<1>4. CASE head[u] = NULL
  <2>1. Queued(u) = {} /\ Queued(u)' = {p} /\ head'[u] = p /\ next' = next
    BY <1>0, <1>1, <1>4, InsertShape DEF ListInv
  <2>2. At(u) = NULL /\ At(u)' = StopOf(p)
    BY <1>0, <1>1, <1>4, <2>1 DEF At, StopOf
  <2>3. Behind(u) = {} /\ Behind(u)' = {}
    BY <2>1 DEF Behind
  <2>4. Waiting(u)' = Waiting(u) /\ Older(u)' = Older(u)
    BY <2>3 DEF Waiting, Older
  <2>5. SortedQueue(u)'
    BY <1>1, <2>1 DEF SortedQueue, Sorted
  <2> QED
    BY <1>3, <2>2, <2>4, <2>5 DEF Queue!Arrive
<1>5. CASE head[u] # NULL
  <2>0. /\ List(next, head[u], Queued(u)) /\ head[u] \in Queued(u) /\ Queued(u) \subseteq Proc
        /\ next \in Links /\ \A q \in Queued(u) : req[q].track \in Int
    BY <1>0, <1>5 DEF ListInv, List
  <2>1. PICK t, s : t = req[head[u]].track /\ s = req[p].track
    OBVIOUS
  <2>2. t \in Int /\ s \in Int
    BY <1>2, <2>0, <2>1
  <2>3. head' = head
    BY <1>5, <2>1, <2>2, InsertPlace
  <2>4. PICK x \in Queued(u) : /\ LinkAfter(p, x)
                               /\ ~Before(t, s, req[x].track)
                               /\ next[x] # NULL => Before(t, s, req[next[x]].track)
    BY <1>5, <2>1, <2>2, InsertPlace
  <2>5. next' = [next EXCEPT ![p] = next[x], ![x] = p]
    BY <2>4 DEF LinkAfter
  <2>6. /\ \A a, b \in Queued(u) : b \in Reach(next', a) <=> b \in Reach(next, a)
        /\ \A a \in Queued(u) : p \in Reach(next', a) <=> x \in Reach(next, a)
        /\ \A b \in Queued(u) : b \in Reach(next', p) =>
                                  next[x] # NULL /\ b \in Reach(next, next[x])
    <3>1. PICK n, m, h, Q : n = next /\ m = next' /\ h = head[u] /\ Q = Queued(u)
      OBVIOUS
    <3>2. List(n, h, Q) /\ p \in Proc \ Q /\ x \in Q /\ n \in Links /\ Q \subseteq Proc
      BY <1>1, <2>0, <3>1
    <3>4. m \in Links /\ m[p] = n[x] /\ m[x] = p /\ \A z \in Q \ {x} : m[z] = n[z]
      <4>1. m = [n EXCEPT ![p] = n[x], ![x] = p] /\ m \in Links
        BY <1>0, <2>5, <3>1 DEF ListInv
      <4> QED
        BY <3>2, <4>1 DEF Links
    <3>3. /\ \A a, b \in Q : b \in Reach(m, a) <=> b \in Reach(n, a)
          /\ \A a \in Q : p \in Reach(m, a) <=> x \in Reach(n, a)
          /\ \A b \in Q : b \in Reach(m, p) => n[x] # NULL /\ b \in Reach(n, n[x])
      BY <3>2, <3>4, InsertReach
    <3> QED
      BY <3>1, <3>3
  <2>7. Sorted(next, t, TrackOf(u), Queued(u)) /\ TrackOf(u) \in [Queued(u) -> Int]
    BY <1>5, <2>0, <2>1 DEF SortInv, SortedQueue, TrackOf
  \* The others for p's track come before p.
  <2>8. ASSUME NEW b \in Queued(u), next[x] # NULL, b \in Reach(next, next[x])
        PROVE  req[b].track # s
    <3>1. next[x] \in Queued(u)
      BY <2>0, <2>8 DEF List
    <3>2. ~Before(t, TrackOf(u)[b], TrackOf(u)[next[x]])
      BY <2>0, <2>2, <2>7, <2>8, <3>1, SortedReach
    <3>3. ~Before(t, req[b].track, req[next[x]].track)
      BY <3>1, <3>2 DEF TrackOf
    <3> QED
      BY <2>4, <2>8, <3>3
  <2>9. ASSUME NEW a \in Queued(u), req[a].track = s PROVE x \in Reach(next, a)
    <3>1. CASE a = x
      BY <2>0, <3>1, ReachSelf
    <3>2. CASE a # x /\ a \in Reach(next, x)
      BY <2>0, <2>8, <2>9, <3>2, ReachFirst
    <3> QED
      BY <2>0, <3>1, <3>2, Linear
  <2>10. At(u)' = At(u) /\ At(u) # NULL
    <3>1. At(u)' = At(u) /\ At(u) = StopOf(head[u])
      BY <1>1, <1>5, <2>3 DEF At, StopOf
    <3> QED
      BY <2>0, <3>1, StopNotNull
  <2>11. Behind(u)' = Behind(u) \cup {p} /\ p \notin Behind(u) /\ Behind(u) \subseteq Queued(u)
    BY <1>1, <2>0, <2>3 DEF Behind
  <2>12. Waiting(u)' = Waiting(u) \cup {StopOf(p)}
    BY <1>1, <2>11 DEF Waiting, StopOf
  <2>13. Older(u)' = Older(u) \cup {<<w.proc, p>> : w \in {v \in Waiting(u) : v.track = s}}
    <3> DEFINE New == {<<w.proc, p>> : w \in {v \in Waiting(u) : v.track = s}}
    <3>1. ASSUME NEW a, NEW b
          PROVE  <<a, b>> \in New <=> b = p /\ a \in Behind(u) /\ req[a].track = s
      <4>1. \A w \in Waiting(u) : \E q \in Behind(u) : w.proc = q /\ w.track = req[q].track
        BY DEF Waiting, StopOf
      <4>2. \A q \in Behind(u) : /\ StopOf(q) \in Waiting(u)
                                 /\ StopOf(q).proc = q /\ StopOf(q).track = req[q].track
        BY DEF Waiting, StopOf
      <4>3. ASSUME <<a, b>> \in New PROVE b = p /\ a \in Behind(u) /\ req[a].track = s
        BY <4>1, <4>3
      <4>4. ASSUME b = p, a \in Behind(u), req[a].track = s PROVE <<a, b>> \in New
        BY <4>2, <4>4
      <4> QED
        BY <4>3, <4>4
    <3>2. \A o \in New : o = <<o[1], o[2]>>
      OBVIOUS
    <3> HIDE DEF New
    <3>3. ASSUME NEW a, NEW b
          PROVE  <<a, b>> \in Older(u)' <=> <<a, b>> \in Older(u) \/ <<a, b>> \in New
      <4>1. <<a, b>> \in Older(u)' <=>
              /\ a \in Behind(u)' /\ b \in Behind(u)' /\ a # b
              /\ req[a].track = req[b].track /\ b \in Reach(next', a)
        BY <1>1, OlderPairsNext
      <4>2. <<a, b>> \in Older(u) <=>
              /\ a \in Behind(u) /\ b \in Behind(u) /\ a # b
              /\ req[a].track = req[b].track /\ b \in Reach(next, a)
        BY OlderPairs
      <4>3. CASE a = p
        BY <2>1, <2>6, <2>8, <2>11, <3>1, <4>1, <4>2, <4>3
      <4>4. CASE a # p /\ b = p
        BY <2>1, <2>6, <2>9, <2>11, <3>1, <4>1, <4>2, <4>4
      <4>5. CASE a # p /\ b # p
        BY <2>6, <2>11, <3>1, <4>1, <4>2, <4>5
      <4> QED
        BY <4>3, <4>4, <4>5
    <3>4. \A o \in Older(u)' : o = <<o[1], o[2]>>
      BY OlderPairsNext
    <3>5. \A o \in Older(u) : o = <<o[1], o[2]>>
      BY OlderPairs
    <3>6. ASSUME NEW o PROVE o \in Older(u)' <=> o \in Older(u) \/ o \in New
      BY <3>2, <3>3, <3>4, <3>5
    <3>7. Older(u)' \subseteq Older(u) \cup New /\ Older(u) \cup New \subseteq Older(u)'
      BY <3>6
    <3>8. Older(u)' = Older(u) \cup New
      BY <3>7
    <3> QED
      BY <3>8 DEF New
  <2>14. SortedQueue(u)'
    <3>1. ASSUME NEW z \in Queued(u) \cup {p}, next'[z] # NULL
          PROVE  ~Before(t, req[next'[z]].track, req[z].track)
      <4>1. next'[p] = next[x] /\ next'[x] = p /\ (z # p /\ z # x => next'[z] = next[z])
        BY <1>1, <2>0, <2>5 DEF Links
      <4>2. CASE z = p
        <5>1. Before(t, s, req[next[x]].track) /\ req[next[x]].track \in Int
          BY <2>0, <2>4, <3>1, <4>1, <4>2 DEF List
        <5> QED
          BY <2>1, <2>2, <4>1, <4>2, <5>1 DEF Before
      <4>3. CASE z = x
        BY <1>1, <2>1, <2>4, <4>1, <4>3
      <4>4. CASE z # p /\ z # x
        <5>1. z \in Queued(u) /\ next[z] \in Queued(u)
          BY <2>0, <3>1, <4>1, <4>4 DEF List
        <5> QED
          BY <2>7, <3>1, <4>1, <4>4, <5>1 DEF Sorted, TrackOf
      <4> QED
        BY <4>2, <4>3, <4>4
    <3>2. ASSUME NEW z \in Queued(u)', next'[z] # NULL PROVE next'[z] \in Queued(u)'
      BY <1>0, <1>5, <2>3, <3>2 DEF ListInv, List
    <3>3. \A z \in Queued(u)' : TrackOf(u)'[z] = req[z].track
      BY <1>1 DEF TrackOf
    <3> QED
      BY <1>1, <2>1, <2>3, <3>1, <3>2, <3>3 DEF SortedQueue, Sorted
  <2> QED
    BY <1>3, <2>1, <2>10, <2>12, <2>13, <2>14 DEF Queue!Arrive, StopOf
<1> QED
  BY <1>4, <1>5

(* A removal is a finish: the row behind the head is the elevator's next   *)
(* stop.                                                                   *)
LEMMA Departs ==
  ASSUME Inv, Inv', SortInv, [Next]_vars, NEW u \in Unit, Unlink(u)
  PROVE  Queue(u)!Finish /\ SortedQueue(u)'
<1>0. ListInv /\ ListInv'
  BY QueueList, QueueListNext
<1>1. /\ head[u] \in Queued(u) /\ Queued(u)' = Queued(u) \ {head[u]}
      /\ head' = [head EXCEPT ![u] = next[head[u]]]
      /\ next' = [next EXCEPT ![head[u]] = NULL]
      /\ req' = req
  BY UnlinkShape DEF Unlink
<1>2. PICK h, g, Q, n, m, t : /\ h = head[u] /\ g = next[h] /\ Q = Queued(u) /\ n = next
                              /\ m = next' /\ t = req[h].track
  OBVIOUS
<1>3. /\ List(n, h, Q) /\ h \in Q /\ h \in Proc /\ Q \subseteq Proc /\ h # NULL
      /\ n \in Links /\ m \in Links /\ g = n[h]
      /\ \A q \in Q : req[q].track \in Int
  BY <1>0, <1>1, <1>2, NullAssumption DEF ListInv, List
<1>4. /\ head'[u] = g /\ Queued(u)' = Q \ {h}
      /\ \A z \in Q \ {h} : m[z] = n[z]
  <2>1. head'[u] = g
    BY <1>1, <1>2 DEF Inv, TypeOK, QueueType
  <2>2. \A z \in Q \ {h} : m[z] = n[z]
    BY <1>1, <1>2, <1>3 DEF Links
  <2> QED
    BY <1>1, <1>2, <2>1, <2>2
<1>5. At(u) = StopOf(h) /\ At(u) # NULL /\ Behind(u) = Q \ {h}
  BY <1>2, <1>3, StopNotNull DEF At, Behind
<1>6. At(u).track = t
  BY <1>2, <1>5 DEF StopOf
<1>7. CASE g = NULL
  <2>1. Q \ {h} = {}
    <3>1. ASSUME NEW q \in Q, q # h PROVE FALSE
      <4>1. q \in Reach(n, h)
        BY <1>3 DEF List
      <4> QED
        BY <1>3, <1>7, <3>1, <4>1, ReachFirst
    <3> QED
      BY <3>1
  <2>2. Behind(u) = {} /\ Behind(u)' = {}
    BY <1>4, <1>5, <2>1 DEF Behind
  <2>3. Waiting(u) = {} /\ Waiting(u)' = {} /\ Older(u)' = Older(u)
    BY <2>2 DEF Waiting, Older
  <2>4. At(u)' = NULL
    BY <1>4, <1>7 DEF At
  <2>5. SortedQueue(u)'
    BY <1>4, <1>7 DEF SortedQueue
  <2> QED
    BY <1>5, <2>3, <2>4, <2>5 DEF Queue!Finish
<1>8. CASE g # NULL
  <2>1. g \in Q /\ g # h /\ g \in Proc
    BY <1>3, <1>8 DEF List
  <2>2. \A q \in Q \ {h} : q \in Reach(n, g)
    <3>1. \A q \in Q : q \in Reach(n, h)
      BY <1>3 DEF List
    <3> QED
      BY <1>3, <3>1, ReachFirst
  <2>3. PICK k : k = TrackOf(u)
    OBVIOUS
  <2>4. Sorted(n, t, k, Q) /\ k \in [Q -> Int] /\ \A q \in Q : k[q] = req[q].track
    BY <1>2, <1>3, <2>3 DEF SortInv, SortedQueue, TrackOf
  <2>5. t \in Int
    BY <1>2, <1>3
  <2>6. \A q \in Q \ {h} : ~Before(t, req[q].track, req[g].track)
    BY <1>3, <2>1, <2>2, <2>4, <2>5, SortedReach
  <2>7. At(u)' = StopOf(g)
    BY <1>1, <1>4, <1>8 DEF At, StopOf
  <2>8. Behind(u)' = Behind(u) \ {g}
    BY <1>4, <1>5 DEF Behind
  <2>9. StopOf(g) \in Waiting(u) /\ Waiting(u)' = Waiting(u) \ {StopOf(g)}
    <3>1. \A q : StopOf(q)' = StopOf(q) /\ StopOf(q).proc = q
      BY <1>1 DEF StopOf
    <3>2. g \in Behind(u)
      BY <1>5, <2>1
    <3>3. StopOf(g) \in Waiting(u)
      BY <3>2 DEF Waiting
    <3>4. \A w : w \in Waiting(u)' <=> w \in Waiting(u) \ {StopOf(g)}
      BY <2>8, <3>1 DEF Waiting
    <3>5. Waiting(u)' \subseteq Waiting(u) \ {StopOf(g)} /\ Waiting(u) \ {StopOf(g)} \subseteq Waiting(u)'
      BY <3>4
    <3> QED
      BY <3>3, <3>5
  \* Nothing comes before the row behind the head.
  <2>10. \A a : <<a, g>> \notin Older(u)
    <3>1. ASSUME NEW a, <<a, g>> \in Older(u) PROVE FALSE
      <4>1. a \in Behind(u) /\ a # g /\ g \in Reach(next, a)
        BY <3>1, OlderPairs
      <4>2. a \in Q /\ a \in Reach(n, g) /\ g \in Reach(n, a)
        BY <1>2, <1>5, <2>2, <4>1
      <4> QED
        BY <1>3, <2>1, <4>1, <4>2, Antisymmetric
    <3> QED
      BY <3>1
  <2>11. Queue(u)!IsNext(StopOf(g))
    <3>1. ASSUME NEW r \in Waiting(u)
          PROVE  /\ ~Queue(u)!Sooner(At(u).track, r, StopOf(g))
                 /\ <<r.proc, StopOf(g).proc>> \notin Older(u)
      <4>1. PICK q \in Behind(u) : r = StopOf(q)
        BY <3>1 DEF Waiting
      <4>2. r.track = req[q].track /\ StopOf(g).track = req[g].track /\ StopOf(g).proc = g
        BY <4>1 DEF StopOf
      <4>3. ~Before(t, r.track, StopOf(g).track)
        BY <1>5, <2>6, <4>1, <4>2
      <4>4. ~Queue(u)!Sooner(At(u).track, r, StopOf(g))
        BY <1>6, <4>3 DEF Queue!Sooner, Before
      <4> QED
        BY <2>10, <4>2, <4>4
    <3> QED
      BY <3>1 DEF Queue!IsNext
  <2>12. Older(u)' = {o \in Older(u) : o[1] # StopOf(g).proc}
    <3>1. StopOf(g).proc = g
      BY DEF StopOf
    <3>2. ASSUME NEW a \in Q \ {h} PROVE Reach(m, a) = Reach(n, a)
      <4>1. KeepsTo(n, Q \ {h}) /\ Q \ {h} \in SUBSET Proc
        BY <1>3 DEF List, KeepsTo
      <4> QED
        BY <1>3, <1>4, <4>1, ReachSame
    <3>3. ASSUME NEW a, NEW b
          PROVE  <<a, b>> \in Older(u)' <=> <<a, b>> \in Older(u) /\ a # g
      <4>1. <<a, b>> \in Older(u)' <=>
              /\ a \in Behind(u)' /\ b \in Behind(u)' /\ a # b
              /\ req[a].track = req[b].track /\ b \in Reach(m, a)
        <5>1. <<a, b>> \in Older(u)' <=>
                /\ a \in Behind(u)' /\ b \in Behind(u)' /\ a # b
                /\ req'[a].track = req'[b].track /\ b \in Reach(next', a)
          BY OlderPairsNext
        <5> QED
          BY <1>1, <1>2, <5>1
      <4>2. <<a, b>> \in Older(u) <=>
              /\ a \in Behind(u) /\ b \in Behind(u) /\ a # b
              /\ req[a].track = req[b].track /\ b \in Reach(n, a)
        BY <1>2, OlderPairs
      <4> QED
        BY <1>5, <2>8, <2>10, <3>2, <4>1, <4>2
    <3>4. \A o \in Older(u)' : o = <<o[1], o[2]>>
      BY OlderPairsNext
    <3>5. \A o \in Older(u) : o = <<o[1], o[2]>>
      BY OlderPairs
    <3>6. ASSUME NEW o PROVE o \in Older(u)' <=> o \in Older(u) /\ o[1] # g
      BY <3>3, <3>4, <3>5
    <3>7. Older(u)' \subseteq {o \in Older(u) : o[1] # g} /\ {o \in Older(u) : o[1] # g} \subseteq Older(u)'
      BY <3>6
    <3>8. Older(u)' = {o \in Older(u) : o[1] # g}
      BY <3>7
    <3> QED
      BY <3>1, <3>8
  <2>13. SortedQueue(u)'
    <3>1. ASSUME NEW z \in Q \ {h}, m[z] # NULL
          PROVE  m[z] \in Q \ {h} /\ ~Before(req[g].track, req[m[z]].track, req[z].track)
      <4>1. n[z] \in Q \ {h} /\ m[z] = n[z]
        BY <1>3, <1>4, <3>1 DEF List
      <4>2. ~Before(t, req[n[z]].track, req[z].track)
        BY <2>4, <3>1, <4>1 DEF Sorted
      <4>3. req[g].track \in Int /\ req[n[z]].track \in Int /\ req[z].track \in Int
        BY <1>3, <2>1, <4>1
      <4>4. ~Before(req[g].track, req[n[z]].track, req[z].track)
        BY <2>5, <2>6, <4>1, <4>2, <4>3, NextBefore
      <4> QED
        BY <4>1, <4>4
    <3>2. \A z \in Queued(u)' : TrackOf(u)'[z] = req[z].track
      BY <1>1 DEF TrackOf
    <3> QED
      BY <1>1, <1>2, <1>4, <3>1, <3>2 DEF SortedQueue, Sorted
  <2> QED
    BY <1>5, <2>7, <2>9, <2>11, <2>12, <2>13 DEF Queue!Finish
<1> QED
  BY <1>7, <1>8

-----------------------------------------------------------------------------
(* Every step, as the elevator of one disk sees it. *)
LEMMA ElevatorStep ==
  ASSUME Inv, Inv', SortInv, [Next]_vars, NEW u \in Unit
  PROVE  [Queue(u)!Next]_(Queue(u)!vars) /\ SortedQueue(u)'
<1>0. SortedQueue(u)
  BY DEF SortInv
<1>1. ASSUME NEW p \in Proc, Insert(p)
      PROVE  [Queue(u)!Next]_(Queue(u)!vars) /\ SortedQueue(u)'
  <2>1. PICK v \in Unit : v = UnitOf(req[p])
    BY <1>1, UnitOfQueued DEF Insert, Inv
  <2>2. CASE v = u
    BY <1>1, <2>1, <2>2, Arrives DEF Queue!Next
  <2>3. CASE v # u
    <3>1. /\ Queued(u)' = Queued(u) /\ head'[u] = head[u] /\ p \notin Queued(u)
          /\ (UNCHANGED next \/ \E x \in Queued(v) : LinkAfter(p, x))
      BY <1>1, <2>1, <2>3, InsertShape
    <3>2. \A q \in Queued(u) : q \in Proc /\ q \notin Queued(v)
      BY <2>3, QueuedUnit
    <3>3. \A q \in Queued(u) : next'[q] = next[q]
      BY <3>1, <3>2 DEF LinkAfter, Inv, TypeOK, ProcType
    <3> QED
      BY <1>0, <3>1, <3>3, SameQueue DEF Queue!vars
  <2> QED
    BY <2>2, <2>3
<1>2. ASSUME NEW v \in Unit, Unlink(v)
      PROVE  [Queue(u)!Next]_(Queue(u)!vars) /\ SortedQueue(u)'
  <2>1. CASE v = u
    BY <1>2, <2>1, Departs DEF Queue!Next
  <2>2. CASE v # u
    <3>1. /\ head[v] \in Queued(v) /\ Queued(u)' = Queued(u)
          /\ head' = [head EXCEPT ![v] = next[head[v]]]
          /\ next' = [next EXCEPT ![head[v]] = NULL]
      BY <1>2, <2>2, UnlinkShape
    <3>2. \A q \in Queued(u) : q \in Proc /\ q # head[v]
      BY <2>2, <3>1, QueuedUnit
    <3>3. head'[u] = head[u] /\ \A q \in Queued(u) : next'[q] = next[q]
      BY <2>2, <3>1, <3>2 DEF Inv, TypeOK, ProcType, QueueType
    <3> QED
      BY <1>0, <3>1, <3>3, SameQueue DEF Queue!vars
  <2> QED
    BY <2>1, <2>2
<1>3. CASE (\A p \in Proc : ~Insert(p)) /\ (\A v \in Unit : ~Unlink(v))
  BY <1>0, <1>3, QueueFrame, SameQueue DEF Queue!vars
<1> QED
  BY <1>1, <1>2, <1>3

LEMMA InitElevator == ASSUME NEW u \in Unit PROVE Init => Queue(u)!Init
  BY DEF Init, Queue!Init, At, Waiting, Older, Behind, Queued

LEMMA SortStep == Inv /\ Inv' /\ SortInv /\ [Next]_vars => SortInv'
  BY ElevatorStep DEF SortInv

(* The list of each disk implements the elevator: Insert is an arrival,    *)
(* Unlink the end of a service, and no other step shows.                   *)
THEOREM ServesAsElevator == ASSUME NEW u \in Unit PROVE Spec => Queue(u)!Spec
<1>1. Init => Queue(u)!Init
  BY InitElevator
<1>2. Inv /\ Inv' /\ SortInv /\ [Next]_vars => [Queue(u)!Next]_(Queue(u)!vars)
  BY ElevatorStep
<1> QED
  BY <1>1, <1>2, InitSort, SortStep, Invariance, PTL DEF Spec, Queue!Spec

(* Whatever the interleaving of arrivals and completions, the requests of  *)
(* every disk are served in elevator order.                                *)
THEOREM ElevatorsImplemented == Spec => ElevatorOrder
<1>1. Init => \A u \in Unit : Queue(u)!Init
  BY InitElevator
<1>2. Inv /\ Inv' /\ SortInv /\ [Next]_vars =>
        [\A u \in Unit : [Queue(u)!Next]_(Queue(u)!vars)]_vars
  BY ElevatorStep
<1> QED
  BY <1>1, <1>2, InitSort, SortStep, Invariance, PTL DEF Spec, ElevatorOrder
=============================================================================
