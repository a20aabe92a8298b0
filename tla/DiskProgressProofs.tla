------------------------- MODULE DiskProgressProofs -------------------------
(***************************************************************************)
(* The users of a disk never all wait for each other: module Disk's        *)
(* NobodyStuck, for every set of processes, requests and disks.            *)
(***************************************************************************)
EXTENDS DiskOrderProofs

(* Each of the other mailboxes is full only while somebody will empty it.  *)
GateInv ==
  \A u \in Unit :
    /\ qLock[u] = 1 => dpc[u] = "unlink" \/ Inserting(u) # {}
    /\ mutex[u] = IF dpc[u] \in {"seekWait", "xferWait"} THEN 1 ELSE 0
    /\ dpc[u] \in {"boot", "bootWait"} => trackMbox[u] = 0

LEMMA InitGate == Init => GateInv
  BY DEF Init, GateInv

LEMMA GateHandlers ==
  ASSUME Inv, GateInv, NEW p \in Proc, Start(p) \/ Handler(p) \/ LockQueue(p)
  PROVE  GateInv'
<1> USE DEF Inv, TypeOK, ProcType, QueueType, DaemonType, GateInv, Inserting
<1>1. ASSUME NEW c \in Request, StartIO(p, c) \/ RejectIO(p, c) \/ StartSize(p, c)
      PROVE  GateInv'
  <2>1. UNCHANGED <<qLock, dpc, mutex, trackMbox>>
    BY <1>1 DEF StartIO, RejectIO, StartSize, Call, queueVars, daemonVars
  <2>2. /\ pc[p] = "user" /\ pc'[p] # "insert"
        /\ \A q \in Proc \ {p} : pc'[q] = pc[q] /\ req'[q] = req[q]
    BY <1>1 DEF StartIO, RejectIO, StartSize, Call
  <2>3. \A v \in Unit : Inserting(v)' = Inserting(v)
    BY <2>2
  <2> QED
    BY <2>1, <2>3
<1>2. ASSUME FinishSize(p) PROVE GateInv'
  BY <1>2 DEF FinishSize, Recv, queueVars, daemonVars
<1>3. ASSUME LockQueue(p) PROVE GateInv'
  <2>1. /\ qLock' = [qLock EXCEPT ![UnitOf(req[p])] = 1]
        /\ pc' = [pc EXCEPT ![p] = "insert"]
        /\ UNCHANGED <<req, dpc, mutex, trackMbox>>
    BY <1>3 DEF LockQueue, Send, daemonVars
  <2> QED
    BY <2>1
<1>4. ASSUME Insert(p) PROVE GateInv'
  <2>1. /\ qLock' = [qLock EXCEPT ![UnitOf(req[p])] = 0]
        /\ pc' = [pc EXCEPT ![p] = "wake"] /\ pc[p] = "insert"
        /\ UNCHANGED <<req, dpc, mutex, trackMbox>>
    BY <1>4 DEF Insert, Recv, daemonVars
  <2>2. \A u \in Unit \ {UnitOf(req[p])} : qLock'[u] = qLock[u] /\ Inserting(u)' = Inserting(u)
    BY <2>1
  <2>3. UnitOf(req[p]) \in Unit => qLock'[UnitOf(req[p])] = 0
    BY <2>1
  <2> QED
    BY <2>1, <2>2, <2>3
<1>5. ASSUME Wake(p) \/ Return(p) PROVE GateInv'
  BY <1>5 DEF Wake, Return, queueVars, daemonVars
<1> QED
  BY <1>1, <1>2, <1>3, <1>4, <1>5 DEF Start, Handler

LEMMA GateDaemons ==
  ASSUME Inv, GateInv, NEW u \in Unit, Daemon(u) \/ AllMoved(u) \/ DeviceDone(u)
  PROVE  GateInv'
<1> USE DEF Inv, TypeOK, ProcType, QueueType, DaemonType, GateInv, Inserting, Goto
<1>1. ASSUME Boot(u) \/ Awake(u) \/ QueueEmpty(u) \/ TakeHead(u) \/ NextTrack(u) \/ Post(u)
      PROVE  GateInv'
  BY <1>1 DEF Boot, Awake, QueueEmpty, TakeHead, NextTrack, Post, procVars, queueVars
<1>2. ASSUME BootDone(u) PROVE GateInv'
  BY <1>2 DEF BootDone, Send, procVars, queueVars
<1>3. ASSUME Seek(u) \/ Transfer(u) PROVE GateInv'
  BY <1>3 DEF Seek, Transfer, Send, procVars, queueVars
<1>4. ASSUME SeekDone(u) \/ TransferDone(u) PROVE GateInv'
  BY <1>4 DEF SeekDone, TransferDone, Recv, procVars, queueVars
<1>5. ASSUME AllMoved(u) PROVE GateInv'
  BY <1>5 DEF AllMoved, Send, procVars
<1>6. ASSUME Unlink(u) PROVE GateInv'
  BY <1>6 DEF Unlink, Recv
<1>7. ASSUME DeviceDone(u) PROVE GateInv'
  BY <1>7 DEF DeviceDone, procVars, queueVars, daemonVars
<1> QED
  BY <1>1, <1>2, <1>3, <1>4, <1>5, <1>6, <1>7 DEF Daemon

LEMMA GateStep == Inv /\ GateInv /\ [Next]_vars => GateInv'
<1> SUFFICES ASSUME Inv, GateInv, [Next]_vars PROVE GateInv'
  OBVIOUS
<1>1. CASE UNCHANGED vars
  BY <1>1 DEF vars, procVars, queueVars, daemonVars, GateInv, Inserting
<1> QED
  BY <1>1, GateHandlers, GateDaemons DEF Next

(* A walk along a list stops, whichever rows it goes through: it would     *)
(* otherwise go through the last.                                          *)
LEMMA WalkStops ==
  ASSUME Inv, NEW u \in Unit, NEW x \in Queued(u), NEW P \in SUBSET Proc
  PROVE  WalkEnd(x, P) # {}
<1> SUFFICES ASSUME WalkEnd(x, P) = {} PROVE FALSE
  OBVIOUS
<1> DEFINE W == Walked(x, P)
<1>0. ListInv /\ ChainInv /\ x \in Proc
  BY QueueList, QueuedUnit DEF Inv
<1>1. head[u] # NULL /\ List(next, head[u], Queued(u)) /\ next \in Links
  BY <1>0 DEF ListInv
<1>2. W \in SUBSET Proc /\ x \in W
  BY <1>0 DEF Walked
<1>3. \A z \in W : next[z] \in W
  <2>1. \A z \in W : next[z] \in P
    BY DEF WalkEnd
  <2> QED
    BY <2>1 DEF Walked
<1>4. Reach(next, x) \subseteq W
  BY <1>2, <1>3, ReachLeast DEF KeepsTo
<1>5. PICK z \in Queued(u) : next[z] = NULL
  BY <1>0 DEF ChainInv
<1>6. z \in Reach(next, x)
  <2>1. CASE x \in Reach(next, z)
    BY <1>0, <1>1, <1>5, <2>1, ReachFirst, QueuedUnit
  <2>2. CASE z \in Reach(next, x)
    BY <2>2
  <2> QED
    BY <1>1, <1>5, <2>1, <2>2, Linear
<1> QED
  BY <1>2, <1>3, <1>4, <1>5, <1>6, NullAssumption

LEMMA WalksStop == ASSUME Inv, NEW u \in Unit PROVE WalksEnd(u)
<1>1. Linked(u) \subseteq Queued(u)
  <2>1. CASE head[u] = NULL
    BY <2>1 DEF Linked
  <2>2. CASE head[u] # NULL
    BY <2>2, WalkInQueue DEF Linked, Inv, LinkInv
  <2> QED
    BY <2>1, <2>2
<1> QED
  BY <1>1, WalkStops DEF WalksEnd

-----------------------------------------------------------------------------
(* Whoever waits, waits for somebody: for the lock's holder, who can give  *)
(* it back, or for the daemon, who sleeps only beside an empty queue.      *)
LEMMA Unstuck == Inv /\ GateInv /\ NoLostWakeup /\ AnswersPaired => NobodyStuck
<1> SUFFICES ASSUME Inv, GateInv, NoLostWakeup, AnswersPaired, NEW u \in Unit,
                    NEW p \in Callers(u), ~dev[u].busy, ~DaemonFree(u),
                    \A q \in Callers(u) : ~CallerFree(q, u)
             PROVE  FALSE
  BY DEF NobodyStuck
<1>0. TypeOK /\ LockInv /\ DaemonInv
  BY DEF Inv
<1>1. Inserting(u) = {}
  <2>1. \A q \in Inserting(u) : q \in Callers(u) /\ qLock[u] = 1 /\ WalksEnd(u)
    BY <1>0, WalksStop DEF Inserting, Callers, LockInv, TypeOK, QueueType
  <2> QED
    BY <2>1 DEF CallerFree, Inserting
<1>2. dpc[u] # "unlink" /\ qLock[u] = 0
  <2>1. dpc[u] # "unlink"
    BY <1>0 DEF DaemonFree, LockInv, TypeOK, QueueType
  <2> QED
    BY <1>0, <1>1, <2>1 DEF GateInv, TypeOK, QueueType
<1>3. \A q \in Callers(u) : q \in Proc /\ pc[q] = "wait" /\ mboxID[q] = 0
  BY <1>0, <1>1, <1>2 DEF Callers, CallerFree, Inserting, TypeOK, ProcType
<1>4. dpc[u] = "idle" /\ diskMbox[u] # 1
  <2>1. dpc[u] \notin {"boot", "scan", "seek", "sector"}
    BY <1>2 DEF DaemonFree, GateInv
  <2>2. dpc[u] \notin {"bootWait", "seekWait", "xferWait"}
    BY DEF DaemonFree, GateInv, AnswersPaired
  <2>3. dpc[u] # "post"
    BY <1>0 DEF DaemonFree, DaemonInv
  <2>4. dpc[u] \in DaemonPC
    BY <1>0 DEF TypeOK, DaemonType
  <2>5. dpc[u] = "idle"
    BY <1>2, <2>1, <2>2, <2>3, <2>4 DEF DaemonPC
  <2> QED
    BY <2>5 DEF DaemonFree
<1>5. head[u] = NULL
  <2>1. \A q \in Queued(u) : pc[q] # "wake"
    BY <1>3 DEF Queued, Callers
  <2> QED
    BY <1>4, <2>1 DEF NoLostWakeup
<1>6. p \in Queued(u)
  BY <1>3, <1>4 DEF Queued, Callers
<1> QED
  BY <1>5, <1>6, QueueList DEF ListInv

(* No deadlock among the users of a disk: while a read or write is under   *)
(* way, a caller, the daemon or the disk can go on, and no insertion walks *)
(* its list for ever.                                                      *)
THEOREM NobodyIsStuck == Spec => []NobodyStuck
  BY InitGate, GateStep, Unstuck, Invariance, WakeupKept, AnswersArePaired, PTL DEF Spec
=============================================================================
