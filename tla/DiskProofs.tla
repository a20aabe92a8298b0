----------------------------- MODULE DiskProofs -----------------------------
(***************************************************************************)
(* Proofs about module Disk, for every set of processes, every set of      *)
(* requests and every size of the disks.                                   *)
(***************************************************************************)
EXTENDS Disk, TLAPS

(* A process in a handler has passed checked arguments, and its completion *)
(* is posted only while it waits for it.                                   *)
CallInv ==
  \A p \in Proc :
    /\ pc[p] # "user" => req[p] \in Request
    /\ pc[p] \in {"lock", "insert", "wake", "wait"} => req[p].op \in DiskOp
    /\ mboxID[p] = 1 => pc[p] \in {"wake", "wait"}

(* The lock is taken while somebody is between its MboxSend and MboxRecv. *)
LockInv ==
  \A u \in Unit :
    /\ qLock[u] = 0 => Inserting(u) = {} /\ dpc[u] # "unlink"
    /\ \A p, q \in Inserting(u) : p = q
    /\ dpc[u] = "unlink" => Inserting(u) = {}

(* What the daemon holds in cur. *)
DaemonInv ==
  \A u \in Unit :
    /\ Serving(u) => /\ cur[u] \in Proc /\ head[u] = cur[u]
                     /\ job[u].op = req[cur[u]].op
    /\ dpc[u] = "post" => /\ cur[u] \in Proc
                          /\ pc[cur[u]] \in {"wake", "wait"}
                          /\ UnitOf(req[cur[u]]) = u
                          /\ mboxID[cur[u]] = 0

(* The list, one link at a time: the head is queued and nobody's next, a   *)
(* next stays in the same queue, and no row is the next of two.            *)
LinkInv ==
  /\ \A u \in Unit : head[u] # NULL => head[u] \in Queued(u)
  /\ \A p \in Proc : next[p] # NULL =>
       \E u \in Unit : /\ p \in Queued(u) /\ next[p] \in Queued(u)
                       /\ next[p] # head[u]
  /\ \A p, q \in Proc : next[p] # NULL /\ next[p] = next[q] => p = q

(* The list as a whole: it has a last row, and a set that holds the head   *)
(* and with each row the next one holds the queue.                         *)
Closed(S) == \A z \in S : next[z] # NULL => next[z] \in S

ChainInv ==
  \A u \in Unit :
    /\ Queued(u) # {} => \E p \in Queued(u) : next[p] = NULL
    /\ \A S \in SUBSET Proc :
         Closed(S) /\ (head[u] = NULL \/ head[u] \in S) => Queued(u) \subseteq S

Inv == TypeOK /\ CallInv /\ LockInv /\ DaemonInv /\ LinkInv /\ ChainInv

LEMMA UnitOfQueued == ASSUME TypeOK, CallInv, NEW p \in Proc, pc[p] # "user"
                      PROVE  UnitOf(req[p]) \in Unit
  BY RequestAssumption DEF CallInv

LEMMA InitInv == Init => Inv
<1> SUFFICES ASSUME Init PROVE Inv
  OBVIOUS
<1>1. TypeOK
  BY DEF Init, TypeOK, ProcType, QueueType, DaemonType, DeviceType, NoCall, PC, DaemonPC, Job, Device, DiskOp
<1>2. CallInv /\ LockInv /\ DaemonInv
  BY DEF Init, CallInv, LockInv, DaemonInv, Serving, Inserting
<1>3. \A u \in Unit : Queued(u) = {}
  BY DEF Init, Queued
<1>4. LinkInv /\ ChainInv
  BY <1>3 DEF Init, LinkInv, ChainInv
<1> QED
  BY <1>1, <1>2, <1>4 DEF Inv

(* A request to the device keeps its type, accepted or refused. *)
LEMMA DeviceOutputType ==
  ASSUME DeviceType, NEW u \in Unit, NEW op \in DiskOp \cup {"seek", "tracks"},
         NEW r \in Int, DeviceOutput(u, op, r)
  PROVE  dev' \in [Unit -> Device]
<1>1. CASE dev[u].busy
  BY <1>1 DEF DeviceOutput, DeviceType
<1>2. CASE ~dev[u].busy
  <2> DEFINE d == [busy |-> TRUE, op |-> op, reg1 |-> r, arm |-> dev[u].arm]
  <2>1. dev[u] \in Device
    BY DEF DeviceType
  <2>2. d \in Device
    BY <2>1 DEF Device
  <2>3. dev' = [dev EXCEPT ![u] = d]
    BY <1>2 DEF DeviceOutput
  <2> QED
    BY <2>2, <2>3 DEF DeviceType
<1> QED
  BY <1>1, <1>2

(* No step takes a variable out of its type. *)
LEMMA TypeStep == Inv /\ [Next]_vars => TypeOK'
<1> SUFFICES ASSUME Inv, [Next]_vars PROVE TypeOK'
  OBVIOUS
<1> USE RequestAssumption, TrackAssumption, UnitAssumption
    DEF Inv, TypeOK, procVars, queueVars, daemonVars, deviceVars
<1>1. ASSUME NEW p \in Proc, NEW c \in Request, StartIO(p, c) PROVE TypeOK'
  <2>1. ProcType'
    BY <1>1 DEF ProcType, StartIO, Call, PC
  <2>2. QueueType'
    BY <1>1 DEF QueueType, StartIO, Call
  <2>3. DaemonType'
    BY <1>1 DEF DaemonType, StartIO, Call
  <2>4. DeviceType'
    BY <1>1 DEF DeviceType, StartIO, Call, TypeOK
  <2> QED
    BY <2>1, <2>2, <2>3, <2>4
<1>2. ASSUME NEW p \in Proc, NEW c \in Request, RejectIO(p, c) PROVE TypeOK'
  <2>1. ProcType'
    BY <1>2 DEF ProcType, RejectIO, Call, Untouched
  <2>2. QueueType'
    BY <1>2 DEF QueueType, RejectIO, Call
  <2>3. DaemonType'
    BY <1>2 DEF DaemonType, RejectIO, Call
  <2>4. DeviceType'
    BY <1>2 DEF DeviceType, RejectIO, Call
  <2> QED
    BY <2>1, <2>2, <2>3, <2>4
<1>3. ASSUME NEW p \in Proc, NEW c \in Request, StartSize(p, c) PROVE TypeOK'
  <2>1. ProcType'
    BY <1>3 DEF ProcType, StartSize, Call, PC
  <2>2. QueueType'
    BY <1>3 DEF QueueType, StartSize, Call
  <2>3. DaemonType'
    BY <1>3 DEF DaemonType, StartSize, Call
  <2>4. DeviceType'
    BY <1>3 DEF DeviceType, StartSize, Call
  <2> QED
    BY <2>1, <2>2, <2>3, <2>4
<1>4. ASSUME NEW p \in Proc, FinishSize(p) PROVE TypeOK'
  <2>0. UnitOf(req[p]) \in Unit
    BY <1>4, UnitOfQueued DEF FinishSize, Recv
  <2>1. ProcType'
    BY <1>4, <2>0 DEF ProcType, FinishSize, Recv, PC, DeviceType
  <2>2. QueueType'
    BY <1>4, <2>0 DEF QueueType, FinishSize, Recv
  <2>3. DaemonType'
    BY <1>4 DEF DaemonType, FinishSize, Recv
  <2>4. DeviceType'
    BY <1>4 DEF DeviceType, FinishSize, Recv
  <2> QED
    BY <2>1, <2>2, <2>3, <2>4
<1>5. ASSUME NEW p \in Proc, LockQueue(p) PROVE TypeOK'
  <2>0. UnitOf(req[p]) \in Unit
    BY <1>5, UnitOfQueued DEF LockQueue, Send
  <2>1. ProcType'
    BY <1>5, <2>0 DEF ProcType, LockQueue, Send, PC
  <2>2. QueueType'
    BY <1>5, <2>0 DEF QueueType, LockQueue, Send
  <2>3. DaemonType'
    BY <1>5 DEF DaemonType, LockQueue, Send
  <2>4. DeviceType'
    BY <1>5 DEF DeviceType, LockQueue, Send
  <2> QED
    BY <2>1, <2>2, <2>3, <2>4
<1>6. ASSUME NEW p \in Proc, Insert(p) PROVE TypeOK'
  <2>0. UnitOf(req[p]) \in Unit
    BY <1>6, UnitOfQueued DEF Insert, Recv
  <2>1. ProcType'
    BY <1>6, <2>0 DEF ProcType, Insert, Recv, PC, Enqueue, LinkAfter, WalkEnd, Walked
  <2>2. QueueType'
    BY <1>6, <2>0 DEF QueueType, Insert, Recv, Enqueue
  <2>3. DaemonType'
    BY <1>6 DEF DaemonType, Insert, Recv
  <2>4. DeviceType'
    BY <1>6 DEF DeviceType, Insert, Recv
  <2> QED
    BY <2>1, <2>2, <2>3, <2>4
<1>7. ASSUME NEW p \in Proc, Wake(p) PROVE TypeOK'
  <2>0. UnitOf(req[p]) \in Unit
    BY <1>7, UnitOfQueued DEF Wake, CondSend
  <2>1. ProcType'
    BY <1>7, <2>0 DEF ProcType, Wake, CondSend, PC
  <2>2. QueueType'
    BY <1>7, <2>0 DEF QueueType, Wake, CondSend
  <2>3. DaemonType'
    BY <1>7 DEF DaemonType, Wake, CondSend
  <2>4. DeviceType'
    BY <1>7 DEF DeviceType, Wake, CondSend
  <2> QED
    BY <2>1, <2>2, <2>3, <2>4
<1>8. ASSUME NEW p \in Proc, Return(p) PROVE TypeOK'
  <2>1. ProcType'
    BY <1>8 DEF ProcType, Return, Recv, PC
  <2>2. QueueType'
    BY <1>8 DEF QueueType, Return, Recv
  <2>3. DaemonType'
    BY <1>8 DEF DaemonType, Return, Recv
  <2>4. DeviceType'
    BY <1>8 DEF DeviceType, Return, Recv
  <2> QED
    BY <2>1, <2>2, <2>3, <2>4
<1>9. ASSUME NEW u \in Unit, Boot(u) PROVE TypeOK'
  <2>0. dev' \in [Unit -> Device]
    BY <1>9, DeviceOutputType DEF Boot
  <2>1. ProcType'
    BY <1>9 DEF ProcType, Boot, Goto, DeviceOutput
  <2>2. QueueType'
    BY <1>9 DEF QueueType, Boot, Goto, DeviceOutput
  <2>3. DaemonType'
    BY <1>9, <2>0 DEF DaemonType, Boot, Goto, DeviceOutput, DaemonPC
  <2>4. DeviceType'
    BY <1>9, <2>0 DEF DeviceType, Boot, Goto, DeviceOutput, Device
  <2> QED
    BY <2>1, <2>2, <2>3, <2>4
<1>10. ASSUME NEW u \in Unit, BootDone(u) PROVE TypeOK'
  <2>1. ProcType'
    BY <1>10 DEF ProcType, BootDone, Goto, Send, WaitDevice
  <2>2. QueueType'
    BY <1>10 DEF QueueType, BootDone, Goto, Send, WaitDevice
  <2>3. DaemonType'
    BY <1>10 DEF DaemonType, BootDone, Goto, Send, WaitDevice, DaemonPC
  <2>4. DeviceType'
    BY <1>10 DEF DeviceType, BootDone, Goto, Send, WaitDevice
  <2> QED
    BY <2>1, <2>2, <2>3, <2>4
<1>11. ASSUME NEW u \in Unit, Awake(u) PROVE TypeOK'
  <2>1. ProcType'
    BY <1>11 DEF ProcType, Awake, Goto, Recv
  <2>2. QueueType'
    BY <1>11 DEF QueueType, Awake, Goto, Recv
  <2>3. DaemonType'
    BY <1>11 DEF DaemonType, Awake, Goto, Recv, DaemonPC
  <2>4. DeviceType'
    BY <1>11 DEF DeviceType, Awake, Goto, Recv
  <2> QED
    BY <2>1, <2>2, <2>3, <2>4
<1>12. ASSUME NEW u \in Unit, QueueEmpty(u) PROVE TypeOK'
  <2>1. ProcType'
    BY <1>12 DEF ProcType, QueueEmpty, Goto
  <2>2. QueueType'
    BY <1>12 DEF QueueType, QueueEmpty, Goto
  <2>3. DaemonType'
    BY <1>12 DEF DaemonType, QueueEmpty, Goto, DaemonPC
  <2>4. DeviceType'
    BY <1>12 DEF DeviceType, QueueEmpty, Goto
  <2> QED
    BY <2>1, <2>2, <2>3, <2>4
<1>13. ASSUME NEW u \in Unit, TakeHead(u) PROVE TypeOK'
  <2>1. ProcType'
    BY <1>13 DEF ProcType, TakeHead, Goto
  <2>2. QueueType'
    BY <1>13 DEF QueueType, TakeHead, Goto
  <2>3. DaemonType'
    BY <1>13 DEF DaemonType, TakeHead, Goto, DaemonPC, Job, LinkInv, Queued, CallInv, QueueType
  <2>4. DeviceType'
    BY <1>13 DEF DeviceType, TakeHead, Goto
  <2> QED
    BY <2>1, <2>2, <2>3, <2>4
<1>14. ASSUME NEW u \in Unit, Seek(u) PROVE TypeOK'
  <2>0. dev' \in [Unit -> Device]
    BY <1>14, DeviceOutputType DEF Seek, DaemonType, Job
  <2>1. ProcType'
    BY <1>14 DEF ProcType, Seek, Goto, Send, DeviceOutput
  <2>2. QueueType'
    BY <1>14 DEF QueueType, Seek, Goto, Send, DeviceOutput
  <2>3. DaemonType'
    BY <1>14, <2>0 DEF DaemonType, Seek, Goto, Send, DeviceOutput, DaemonPC
  <2>4. DeviceType'
    BY <1>14, <2>0 DEF DeviceType, Seek, Goto, Send, DeviceOutput, Device, DaemonType, Job
  <2> QED
    BY <2>1, <2>2, <2>3, <2>4
<1>15. ASSUME NEW u \in Unit, SeekDone(u) PROVE TypeOK'
  <2>1. ProcType'
    BY <1>15 DEF ProcType, SeekDone, Goto, Recv, WaitDevice
  <2>2. QueueType'
    BY <1>15 DEF QueueType, SeekDone, Goto, Recv, WaitDevice
  <2>3. DaemonType'
    BY <1>15 DEF DaemonType, SeekDone, Goto, Recv, WaitDevice, DaemonPC
  <2>4. DeviceType'
    BY <1>15 DEF DeviceType, SeekDone, Goto, Recv, WaitDevice
  <2> QED
    BY <2>1, <2>2, <2>3, <2>4
<1>16. ASSUME NEW u \in Unit, NextTrack(u) PROVE TypeOK'
  <2>0. job'[u] \in Job
    BY <1>16 DEF NextTrack, DaemonType, Job
  <2>1. ProcType'
    BY <1>16 DEF ProcType, NextTrack, Goto
  <2>2. QueueType'
    BY <1>16 DEF QueueType, NextTrack, Goto
  <2>3. DaemonType'
    BY <1>16, <2>0 DEF DaemonType, NextTrack, Goto, DaemonPC, Job
  <2>4. DeviceType'
    BY <1>16 DEF DeviceType, NextTrack, Goto
  <2> QED
    BY <2>1, <2>2, <2>3, <2>4
<1>17. ASSUME NEW u \in Unit, Transfer(u) PROVE TypeOK'
  <2>0. dev' \in [Unit -> Device]
    BY <1>17, DeviceOutputType DEF Transfer, DaemonType, Job
  <2>1. ProcType'
    BY <1>17 DEF ProcType, Transfer, Goto, Send, DeviceOutput
  <2>2. QueueType'
    BY <1>17 DEF QueueType, Transfer, Goto, Send, DeviceOutput
  <2>3. DaemonType'
    BY <1>17, <2>0 DEF DaemonType, Transfer, Goto, Send, DeviceOutput, DaemonPC
  <2>4. DeviceType'
    BY <1>17, <2>0 DEF DeviceType, Transfer, Goto, Send, DeviceOutput, Device, DaemonType, Job
  <2> QED
    BY <2>1, <2>2, <2>3, <2>4
<1>18. ASSUME NEW u \in Unit, TransferDone(u) PROVE TypeOK'
  <2>0. job'[u] \in Job
    BY <1>18 DEF TransferDone, DaemonType, Job
  <2>1. ProcType'
    BY <1>18 DEF ProcType, TransferDone, Goto, Recv, WaitDevice
  <2>2. QueueType'
    BY <1>18 DEF QueueType, TransferDone, Goto, Recv, WaitDevice
  <2>3. DaemonType'
    BY <1>18, <2>0 DEF DaemonType, TransferDone, Goto, Recv, WaitDevice, DaemonPC, Job
  <2>4. DeviceType'
    BY <1>18, <2>0 DEF DeviceType, TransferDone, Goto, Recv, WaitDevice
  <2> QED
    BY <2>1, <2>2, <2>3, <2>4
<1>19. ASSUME NEW u \in Unit, AllMoved(u) PROVE TypeOK'
  <2>1. ProcType'
    BY <1>19 DEF ProcType, AllMoved, Goto, Send
  <2>2. QueueType'
    BY <1>19 DEF QueueType, AllMoved, Goto, Send
  <2>3. DaemonType'
    BY <1>19 DEF DaemonType, AllMoved, Goto, Send, DaemonPC
  <2>4. DeviceType'
    BY <1>19 DEF DeviceType, AllMoved, Goto, Send
  <2> QED
    BY <2>1, <2>2, <2>3, <2>4
<1>20. ASSUME NEW u \in Unit, Unlink(u) PROVE TypeOK'
  <2>1. ProcType'
    BY <1>20 DEF ProcType, Unlink, Goto, Recv
  <2>2. QueueType'
    BY <1>20 DEF QueueType, Unlink, Goto, Recv, ProcType, DaemonInv, Serving
  <2>3. DaemonType'
    BY <1>20 DEF DaemonType, Unlink, Goto, Recv, DaemonPC
  <2>4. DeviceType'
    BY <1>20 DEF DeviceType, Unlink, Goto, Recv
  <2> QED
    BY <2>1, <2>2, <2>3, <2>4
<1>21. ASSUME NEW u \in Unit, Post(u) PROVE TypeOK'
  <2>1. ProcType'
    BY <1>21 DEF ProcType, Post, Goto, Send, DaemonInv
  <2>2. QueueType'
    BY <1>21 DEF QueueType, Post, Goto, Send
  <2>3. DaemonType'
    BY <1>21 DEF DaemonType, Post, Goto, Send, DaemonPC
  <2>4. DeviceType'
    BY <1>21 DEF DeviceType, Post, Goto, Send
  <2> QED
    BY <2>1, <2>2, <2>3, <2>4
<1>22. ASSUME NEW u \in Unit, DeviceDone(u) PROVE TypeOK'
  <2>0. dev'[u] \in Device
    BY <1>22 DEF DeviceDone, DeviceType, Device
  <2>1. ProcType'
    BY <1>22 DEF ProcType, DeviceDone
  <2>2. QueueType'
    BY <1>22 DEF QueueType, DeviceDone
  <2>3. DaemonType'
    BY <1>22 DEF DaemonType, DeviceDone
  <2>4. DeviceType'
    <3> DEFINE a == IF Legal(u, dev[u].op, dev[u].reg1)
                    THEN dev[u].arm * TrackSize + dev[u].reg1 ELSE Failed
    <3>1. a \in Int
      BY DEF DeviceType, Device, Failed
    <3>2. \A p \in Proc : Append(moved[p], a) \in Seq(Int)
      <4> HIDE DEF a
      <4> QED
        BY <3>1 DEF DeviceType
    <3>3. moved' = moved \/ moved' = [moved EXCEPT ![cur[u]] = Append(@, a)]
      BY <1>22 DEF DeviceDone
    <3>4. moved' \in [Proc -> Seq(Int)]
      <4> HIDE DEF a
      <4>1. moved \in [Proc -> Seq(Int)]
        BY DEF DeviceType
      <4>2. \A c : [moved EXCEPT ![c] = Append(@, a)] =
                  [p \in Proc |-> IF p = c THEN Append(moved[p], a) ELSE moved[p]]
        BY <4>1
      <4>3. CASE moved' = [moved EXCEPT ![cur[u]] = Append(@, a)]
        <5> DEFINE b(p) == IF p = cur[u] THEN Append(moved[p], a) ELSE moved[p]
        <5>1. moved' = [p \in Proc |-> b(p)]
          BY <4>2, <4>3
        <5>2. \A p \in Proc : b(p) \in Seq(Int)
          BY <3>2, <4>1
        <5> QED
          BY <5>1, <5>2
      <4> QED
        BY <3>3, <4>1, <4>3
    <3>5. dev' \in [Unit -> Device]
      BY <1>22, <2>0 DEF DeviceDone, DeviceType
    <3>6. globaldisk' \in Int /\ devMbox' \in [Unit -> {"none", "ready", "error"}]
      BY <1>22 DEF DeviceDone, DeviceType
    <3> QED
      BY <3>4, <3>5, <3>6 DEF DeviceType
  <2> QED
    BY <2>1, <2>2, <2>3, <2>4
<1>23. CASE UNCHANGED vars
  BY <1>23 DEF vars, ProcType, QueueType, DaemonType, DeviceType
<1> QED
  BY <1>1, <1>2, <1>3, <1>4, <1>5, <1>6, <1>7, <1>8, <1>9, <1>10, <1>11, <1>12, <1>13, <1>14, <1>15, <1>16, <1>17, <1>18, <1>19, <1>20, <1>21, <1>22, <1>23 DEF Next, Start, Handler, Daemon

(* Only Post sends to a completion mailbox, and only a waiter's. *)
LEMMA CallStep == Inv /\ [Next]_vars => CallInv'
<1> SUFFICES ASSUME Inv, [Next]_vars PROVE CallInv'
  OBVIOUS
<1> USE DEF Inv, TypeOK, ProcType, CallInv, PC
<1>1. ASSUME NEW p \in Proc, NEW c \in Request, StartIO(p, c) PROVE CallInv'
  BY <1>1 DEF StartIO, Call
<1>2. ASSUME NEW p \in Proc, NEW c \in Request, RejectIO(p, c) PROVE CallInv'
  BY <1>2 DEF RejectIO, Call
<1>3. ASSUME NEW p \in Proc, NEW c \in Request, StartSize(p, c) PROVE CallInv'
  BY <1>3 DEF StartSize, Call
<1>4. ASSUME NEW p \in Proc, FinishSize(p) PROVE CallInv'
  BY <1>4 DEF FinishSize
<1>5. ASSUME NEW p \in Proc, LockQueue(p) PROVE CallInv'
  BY <1>5 DEF LockQueue
<1>6. ASSUME NEW p \in Proc, Insert(p) PROVE CallInv'
  BY <1>6 DEF Insert
<1>7. ASSUME NEW p \in Proc, Wake(p) PROVE CallInv'
  BY <1>7 DEF Wake
<1>8. ASSUME NEW p \in Proc, Return(p) PROVE CallInv'
  BY <1>8 DEF Return, Recv
<1>9. ASSUME NEW u \in Unit, Post(u) PROVE CallInv'
  BY <1>9 DEF Post, Goto, Send, DaemonInv
<1>10. CASE UNCHANGED <<pc, req, mboxID>>
  BY <1>10
<1>11. ASSUME NEW u \in Unit, Daemon(u) \/ AllMoved(u) \/ DeviceDone(u), ~Post(u)
       PROVE  UNCHANGED <<pc, req, mboxID>>
  BY <1>11 DEF Daemon, Boot, BootDone, Awake, QueueEmpty, TakeHead, Seek, SeekDone,
     NextTrack, Transfer, TransferDone, AllMoved, Unlink, DeviceDone, procVars
<1>12. UNCHANGED vars => UNCHANGED <<pc, req, mboxID>>
  BY DEF vars, procVars
<1> QED
  BY <1>1, <1>2, <1>3, <1>4, <1>5, <1>6, <1>7, <1>8, <1>9, <1>10, <1>11, <1>12
  DEF Next, Start, Handler

(* The lock admits one handler or the daemon, and stays taken meanwhile. *)
LEMMA LockStep == Inv /\ [Next]_vars => LockInv'
<1> SUFFICES ASSUME Inv, [Next]_vars PROVE LockInv'
  OBVIOUS
<1> USE UnitAssumption
    DEF Inv, TypeOK, ProcType, QueueType, DaemonType, LockInv, Inserting
<1>1. ASSUME NEW p \in Proc, NEW c \in Request, StartIO(p, c) PROVE LockInv'
  BY <1>1 DEF StartIO, Call, queueVars, daemonVars
<1>2. ASSUME NEW p \in Proc, NEW c \in Request, RejectIO(p, c) PROVE LockInv'
  BY <1>2 DEF RejectIO, Call, queueVars, daemonVars
<1>3. ASSUME NEW p \in Proc, NEW c \in Request, StartSize(p, c) PROVE LockInv'
  BY <1>3 DEF StartSize, Call, queueVars, daemonVars
<1>4. ASSUME NEW p \in Proc, FinishSize(p) PROVE LockInv'
  BY <1>4 DEF FinishSize, queueVars, daemonVars
<1>5. ASSUME NEW p \in Proc, LockQueue(p) PROVE LockInv'
  BY <1>5 DEF LockQueue, Send, daemonVars
<1>6. ASSUME NEW p \in Proc, Insert(p) PROVE LockInv'
  BY <1>6 DEF Insert, Recv, daemonVars
<1>7. ASSUME NEW p \in Proc, Wake(p) PROVE LockInv'
  BY <1>7 DEF Wake, daemonVars
<1>8. ASSUME NEW p \in Proc, Return(p) PROVE LockInv'
  BY <1>8 DEF Return, queueVars, daemonVars
<1>9. ASSUME NEW u \in Unit, AllMoved(u) PROVE LockInv'
  BY <1>9 DEF AllMoved, Goto, Send, procVars
<1>10. ASSUME NEW u \in Unit, Unlink(u) PROVE LockInv'
  BY <1>10 DEF Unlink, Goto, Recv
<1>11. ASSUME NEW u \in Unit, Daemon(u) \/ DeviceDone(u), ~Unlink(u)
       PROVE  /\ UNCHANGED <<pc, req, qLock>>
              /\ \A v \in Unit : dpc'[v] = "unlink" <=> dpc[v] = "unlink"
  BY <1>11 DEF Daemon, Boot, BootDone, Awake, QueueEmpty, TakeHead, Seek, SeekDone,
     NextTrack, Transfer, TransferDone, Post, DeviceDone, Goto, procVars, queueVars,
     daemonVars
<1>12. ASSUME UNCHANGED <<pc, req, qLock>>,
              \A v \in Unit : dpc'[v] = "unlink" <=> dpc[v] = "unlink"
       PROVE  LockInv'
  BY <1>12
<1>13. CASE UNCHANGED vars
  BY <1>13 DEF vars, procVars, queueVars, daemonVars
<1> QED
  BY <1>1, <1>2, <1>3, <1>4, <1>5, <1>6, <1>7, <1>8, <1>9, <1>10, <1>11, <1>12,
  <1>13 DEF Next, Start, Handler

(* What a daemon is serving stays at the head of its list and keeps its    *)
(* row; what it has unlinked waits until Post.                             *)
LEMMA DaemonStep == Inv /\ [Next]_vars => DaemonInv'
<1> SUFFICES ASSUME Inv, [Next]_vars PROVE DaemonInv'
  OBVIOUS
<1> DEFINE Held == \A u \in Unit :
             /\ Serving(u) => pc[cur[u]] \in {"wake", "wait"} /\ mboxID[cur[u]] = 0
             /\ Serving(u) \/ dpc[u] = "post" => UnitOf(req[cur[u]]) = u
<1>0. Held
  <2>1. \A u \in Unit : head[u] # NULL => head[u] \in Queued(u)
    BY DEF Inv, LinkInv
  <2>2. \A u \in Unit : Serving(u) => cur[u] \in Proc /\ head[u] = cur[u]
    BY DEF Inv, DaemonInv
  <2>3. \A u \in Unit : Serving(u) => cur[u] \in Queued(u)
    BY <2>1, <2>2, NullAssumption
  <2> QED
    BY <2>3 DEF Queued, Inv, DaemonInv
<1> USE NullAssumption, UnitAssumption
    DEF Inv, TypeOK, ProcType, QueueType, DaemonType, DaemonInv, Serving
<1>1. ASSUME NEW p \in Proc, NEW c \in Request, StartIO(p, c) PROVE DaemonInv'
  BY <1>0, <1>1 DEF StartIO, Call, queueVars, daemonVars
<1>2. ASSUME NEW p \in Proc, NEW c \in Request, RejectIO(p, c) PROVE DaemonInv'
  BY <1>0, <1>2 DEF RejectIO, Call, queueVars, daemonVars
<1>3. ASSUME NEW p \in Proc, NEW c \in Request, StartSize(p, c) PROVE DaemonInv'
  BY <1>0, <1>3 DEF StartSize, Call, queueVars, daemonVars
<1>4. ASSUME NEW p \in Proc, FinishSize(p) PROVE DaemonInv'
  BY <1>0, <1>4 DEF FinishSize, queueVars, daemonVars
<1>5. ASSUME NEW p \in Proc, LockQueue(p) PROVE DaemonInv'
  BY <1>0, <1>5 DEF LockQueue, daemonVars
<1>6. ASSUME NEW p \in Proc, Insert(p) PROVE DaemonInv'
  <2>1. \A u \in Unit : head[u] # NULL => head'[u] = head[u]
    BY <1>6 DEF Insert, Enqueue
  <2> QED
    BY <1>0, <1>6, <2>1 DEF Insert, daemonVars
<1>7. ASSUME NEW p \in Proc, Wake(p) PROVE DaemonInv'
  BY <1>0, <1>7 DEF Wake, daemonVars
<1>8. ASSUME NEW p \in Proc, Return(p) PROVE DaemonInv'
  BY <1>0, <1>8 DEF Return, Recv, queueVars, daemonVars
<1>9. ASSUME NEW u \in Unit, Boot(u) \/ BootDone(u) \/ Awake(u) \/ QueueEmpty(u)
                             \/ Seek(u) \/ SeekDone(u) \/ Transfer(u) \/ AllMoved(u)
       PROVE  DaemonInv'
  BY <1>9 DEF Boot, BootDone, Awake, QueueEmpty, Seek, SeekDone, Transfer, AllMoved,
     Goto, procVars, queueVars
<1>10. ASSUME NEW u \in Unit, TakeHead(u) PROVE DaemonInv'
  BY <1>10 DEF TakeHead, Goto, procVars, queueVars
<1>11. ASSUME NEW u \in Unit, NextTrack(u) \/ TransferDone(u) PROVE DaemonInv'
  BY <1>11 DEF NextTrack, TransferDone, Goto, procVars, queueVars
<1>12. ASSUME NEW u \in Unit, Unlink(u) PROVE DaemonInv'
  BY <1>0, <1>12 DEF Unlink, Goto
<1>13. ASSUME NEW u \in Unit, Post(u) PROVE DaemonInv'
  <2>1. \A v \in Unit \ {u} : Serving(v) \/ dpc[v] = "post" => cur[v] # cur[u]
    BY <1>0, <1>13 DEF Post, Goto
  <2> QED
    BY <1>0, <1>13, <2>1 DEF Post, Goto, Send, queueVars
<1>14. ASSUME NEW u \in Unit, DeviceDone(u) PROVE DaemonInv'
  BY <1>14 DEF DeviceDone, procVars, queueVars, daemonVars
<1>15. CASE UNCHANGED vars
  BY <1>15 DEF vars, procVars, queueVars, daemonVars
<1> QED
  BY <1>1, <1>2, <1>3, <1>4, <1>5, <1>6, <1>7, <1>8, <1>9, <1>10, <1>11, <1>12,
  <1>13, <1>14, <1>15 DEF Next, Start, Handler, Daemon

-----------------------------------------------------------------------------
(* The queue changes in two places only. *)

LEMMA QueuedUnit == \A u \in Unit : \A p \in Queued(u) : p \in Proc /\ UnitOf(req[p]) = u
  BY DEF Queued

(* A row's next is in the row's own queue. *)
LEMMA NextInQueue == ASSUME Inv, NEW u \in Unit, NEW z \in Queued(u), next[z] # NULL
                     PROVE  next[z] \in Queued(u) /\ next[z] # head[u]
  BY QueuedUnit DEF Inv, LinkInv

LEMMA QueueFrame ==
  ASSUME Inv, [Next]_vars, \A p \in Proc : ~Insert(p), \A u \in Unit : ~Unlink(u)
  PROVE  UNCHANGED <<head, next>> /\ \A u \in Unit : Queued(u)' = Queued(u)
<1> DEFINE Same == UNCHANGED <<head, next>> /\ \A u \in Unit : Queued(u)' = Queued(u)
<1> USE UnitAssumption DEF Queued
<1>0. TypeOK /\ CallInv /\ DaemonInv
  BY DEF Inv
<1>1. ASSUME NEW p \in Proc, NEW c \in Request, StartIO(p, c) PROVE Same
  BY <1>0, <1>1 DEF StartIO, Call, queueVars, daemonVars, TypeOK, ProcType, CallInv
<1>2. ASSUME NEW p \in Proc, NEW c \in Request, RejectIO(p, c) PROVE Same
  BY <1>0, <1>2 DEF RejectIO, Call, queueVars, daemonVars, TypeOK, ProcType, CallInv
<1>3. ASSUME NEW p \in Proc, NEW c \in Request, StartSize(p, c) PROVE Same
  BY <1>0, <1>3 DEF StartSize, Call, queueVars, daemonVars, TypeOK, ProcType, CallInv
<1>4. ASSUME NEW p \in Proc, FinishSize(p) PROVE Same
  BY <1>0, <1>4 DEF FinishSize, queueVars, daemonVars, TypeOK, ProcType
<1>5. ASSUME NEW p \in Proc, LockQueue(p) PROVE Same
  BY <1>0, <1>5 DEF LockQueue, daemonVars, TypeOK, ProcType
<1>6. ASSUME NEW p \in Proc, Wake(p) PROVE Same
  BY <1>0, <1>6 DEF Wake, daemonVars, TypeOK, ProcType
<1>7. ASSUME NEW p \in Proc, Return(p) PROVE Same
  BY <1>0, <1>7 DEF Return, Recv, queueVars, daemonVars, TypeOK, ProcType
<1>8. ASSUME NEW u \in Unit, Post(u) PROVE Same
  BY <1>0, <1>8 DEF Post, Goto, Send, queueVars, TypeOK, ProcType, DaemonType,
     DaemonInv
<1>9. ASSUME NEW u \in Unit, TakeHead(u) PROVE Same
  BY <1>0, <1>9 DEF TakeHead, Goto, procVars, queueVars, TypeOK, DaemonType
<1>10. ASSUME NEW u \in Unit,
              Daemon(u) \/ AllMoved(u), ~Unlink(u), ~Post(u), ~TakeHead(u)
       PROVE  Same
  BY <1>0, <1>10 DEF Daemon, Boot, BootDone, Awake, QueueEmpty, Seek, SeekDone,
     NextTrack, Transfer, TransferDone, AllMoved, Goto, procVars, queueVars, TypeOK,
     DaemonType
<1>11. ASSUME NEW u \in Unit, DeviceDone(u) PROVE Same
  BY <1>11 DEF DeviceDone, procVars, queueVars, daemonVars
<1>12. CASE UNCHANGED vars
  BY <1>12 DEF vars, procVars, queueVars, daemonVars
<1> QED
  BY <1>1, <1>2, <1>3, <1>4, <1>5, <1>6, <1>7, <1>8, <1>9, <1>10, <1>11, <1>12
  DEF Next, Start, Handler

(* A walk from a queued row stays in its queue. *)
LEMMA WalkInQueue ==
  ASSUME Inv, NEW u \in Unit, NEW x \in Queued(u), NEW P \in SUBSET Proc
  PROVE  Walked(x, P) \subseteq Queued(u)
<1>1. Queued(u) \in SUBSET Proc
  BY DEF Queued
<1>2. \A z \in Queued(u) : next[z] \in P => next[z] \in Queued(u)
  BY NextInQueue, NullAssumption
<1> QED
  BY <1>1, <1>2 DEF Walked

(* Insert puts a row that was in no queue into its own: as the only one,   *)
(* or behind a row of it.                                                  *)
LEMMA InsertShape ==
  ASSUME Inv, NEW p \in Proc, Insert(p), NEW u \in Unit, u = UnitOf(req[p])
  PROVE  /\ \A v \in Unit : p \notin Queued(v)
         /\ Queued(u)' = Queued(u) \cup {p}
         /\ \A v \in Unit \ {u} : Queued(v)' = Queued(v) /\ head'[v] = head[v]
         /\ next[p] = NULL
         /\ \/ /\ head[u] = NULL /\ head'[u] = p
               /\ UNCHANGED next
            \/ /\ head[u] # NULL /\ head'[u] = head[u]
               /\ \E x \in Queued(u) : LinkAfter(p, x)
<1>0. TypeOK /\ CallInv /\ DaemonInv /\ LinkInv
  BY DEF Inv
<1>1. \A v \in Unit : p \notin Queued(v)
  BY DEF Insert, Queued
<1>2. mboxID[p] = 0
  BY <1>0 DEF Insert, TypeOK, ProcType, CallInv
<1>3. \A v \in Unit : dpc[v] = "post" => cur[v] # p
  BY <1>0 DEF Insert, DaemonInv
<1>4. Queued(u)' = Queued(u) \cup {p} /\ \A v \in Unit \ {u} : Queued(v)' = Queued(v)
  BY <1>0, <1>2, <1>3 DEF Insert, Queued, daemonVars, TypeOK, ProcType
<1>5. next[p] = NULL
  BY <1>0, <1>1 DEF LinkInv
<1>6. \A v \in Unit \ {u} : head'[v] = head[v]
  BY <1>0 DEF Insert, Enqueue, TypeOK, QueueType
<1>7. CASE head[u] = NULL
  BY <1>0, <1>1, <1>4, <1>5, <1>6, <1>7 DEF Insert, Enqueue, TypeOK, QueueType
<1>8. CASE head[u] # NULL
  <2>1. head[u] \in Queued(u)
    BY <1>0, <1>8 DEF LinkInv
  <2>2. \A x \in Queued(u), P \in SUBSET Proc : Walked(x, P) \subseteq Queued(u)
    BY WalkInQueue
  <2>3. \A a, b : UpTo(a, b) \in SUBSET Proc /\ ThisSweep(a) \in SUBSET Proc
                  /\ NextSweep(b) \in SUBSET Proc
    BY DEF UpTo, ThisSweep, NextSweep
  <2>4. \A a, b : \A x \in Queued(u) :
          /\ WalkEnd(x, UpTo(a, b)) \subseteq Queued(u)
          /\ WalkEnd(x, ThisSweep(a)) \subseteq Queued(u)
          /\ WalkEnd(x, NextSweep(b)) \subseteq Queued(u)
    BY <2>2, <2>3 DEF WalkEnd
  <2>5. ASSUME NEW x \in Queued(u), next[x] = NULL, next' = [next EXCEPT ![x] = p]
        PROVE  LinkAfter(p, x)
    <3>1. x # p /\ x \in Proc
      BY <1>1 DEF Queued
    <3> QED
      BY <1>0, <1>5, <2>5, <3>1 DEF LinkAfter, TypeOK, ProcType
  <2>6. head' = head /\ \E x \in Queued(u) : LinkAfter(p, x)
    BY <1>8, <2>1, <2>4, <2>5 DEF Insert, Enqueue
  <2> QED
    BY <1>1, <1>4, <1>5, <1>6, <1>8, <2>6
<1> QED
  BY <1>7, <1>8

(* Unlink takes the head out of its queue. *)
LEMMA UnlinkShape ==
  ASSUME Inv, NEW u \in Unit, Unlink(u)
  PROVE  /\ head[u] \in Queued(u)
         /\ head' = [head EXCEPT ![u] = next[head[u]]]
         /\ next' = [next EXCEPT ![head[u]] = NULL]
         /\ Queued(u)' = Queued(u) \ {head[u]}
         /\ \A v \in Unit \ {u} : Queued(v)' = Queued(v)
<1>0. TypeOK /\ DaemonInv /\ LinkInv
  BY DEF Inv
<1>1. head[u] = cur[u] /\ cur[u] \in Proc
  BY <1>0 DEF Unlink, Goto, DaemonInv, Serving
<1>2. head[u] \in Queued(u)
  BY <1>0, <1>1, NullAssumption DEF LinkInv
<1>3. dpc[u] = "unlink" /\ dpc' = [dpc EXCEPT ![u] = "post"]
  BY DEF Unlink, Goto
<1>4. UNCHANGED <<pc, req, mboxID, cur>>
  BY DEF Unlink
<1>5. /\ Queued(u)' = Queued(u) \ {head[u]}
      /\ \A v \in Unit \ {u} : Queued(v)' = Queued(v)
  BY <1>0, <1>1, <1>3, <1>4 DEF Queued, TypeOK, DaemonType
<1> QED
  BY <1>1, <1>2, <1>5 DEF Unlink

(* The list's links are kept by an insertion and by a removal. *)
LEMMA LinkStep == Inv /\ [Next]_vars => LinkInv'
<1> SUFFICES ASSUME Inv, [Next]_vars PROVE LinkInv'
  OBVIOUS
<1>0. TypeOK /\ LinkInv /\ ChainInv
  BY DEF Inv
<1>1. CASE \E p \in Proc : Insert(p)
  <2> PICK p \in Proc : Insert(p)
    BY <1>1
  <2>1. UnitOf(req[p]) \in Unit
    BY UnitOfQueued DEF Insert, Inv
  <2> PICK u \in Unit : u = UnitOf(req[p])
    BY <2>1
  <2>2. /\ \A v \in Unit : p \notin Queued(v)
        /\ Queued(u)' = Queued(u) \cup {p}
        /\ \A v \in Unit \ {u} : Queued(v)' = Queued(v) /\ head'[v] = head[v]
        /\ next[p] = NULL
        /\ \/ head[u] = NULL /\ head'[u] = p /\ UNCHANGED next
           \/ /\ head[u] # NULL /\ head'[u] = head[u]
              /\ \E x \in Queued(u) : LinkAfter(p, x)
    BY InsertShape
  <2>3. CASE head[u] = NULL
    <3>1. /\ head'[u] = p /\ next' = next
      BY <2>2, <2>3
    <3>2. \A q \in Proc : next[q] # p
      BY <1>0, <2>2, NullAssumption DEF LinkInv
    <3>3. \A v \in Unit : head'[v] # NULL => head'[v] \in Queued(v)'
      BY <1>0, <2>2, <3>1 DEF LinkInv
    <3>4. \A q \in Proc : next'[q] # NULL =>
            \E v \in Unit : /\ q \in Queued(v)' /\ next'[q] \in Queued(v)'
                            /\ next'[q] # head'[v]
      BY <1>0, <2>2, <3>1, <3>2 DEF LinkInv
    <3> QED
      BY <1>0, <3>1, <3>3, <3>4 DEF LinkInv
  <2>4. CASE head[u] # NULL
    <3> PICK x \in Queued(u) : LinkAfter(p, x)
      BY <2>2, <2>4
    <3>1. x \in Proc /\ x # p /\ p # NULL
      BY <2>1, <2>2, QueuedUnit, NullAssumption
    <3>2. \A q \in Proc : next'[q] = IF q = x THEN p ELSE IF q = p THEN next[x] ELSE next[q]
      BY <1>0, <3>1 DEF LinkAfter, TypeOK, ProcType
    <3>3. \A q \in Proc : next[q] # p
      BY <1>0, <2>2, NullAssumption DEF LinkInv
    <3>4. \A v \in Unit : head'[v] = head[v] /\ Queued(v) \subseteq Queued(v)'
      BY <2>1, <2>2, <2>4
    <3>5. \A v \in Unit : head'[v] # NULL => head'[v] \in Queued(v)'
      BY <1>0, <3>4 DEF LinkInv
    <3>6. head[u] # p
      BY <1>0, <2>1, <2>2, <2>4 DEF LinkInv
    <3>7. next[x] # NULL => next[x] \in Queued(u) /\ next[x] # head[u]
      BY <2>1, NextInQueue
    <3>8. ASSUME NEW q \in Proc, next'[q] # NULL
          PROVE  \E v \in Unit : /\ q \in Queued(v)' /\ next'[q] \in Queued(v)'
                                 /\ next'[q] # head'[v]
      <4>1. CASE q = x
        BY <2>1, <2>2, <3>1, <3>2, <3>4, <3>6, <4>1
      <4>2. CASE q = p /\ q # x
        BY <2>1, <2>2, <3>2, <3>4, <3>7, <3>8, <4>2
      <4>3. CASE q # p /\ q # x
        BY <1>0, <3>2, <3>4, <3>8, <4>3 DEF LinkInv
      <4> QED
        BY <4>1, <4>2, <4>3
    <3>9. \A q, r \in Proc : next'[q] # NULL /\ next'[q] = next'[r] => q = r
      BY <1>0, <3>1, <3>2, <3>3 DEF LinkInv
    <3> QED
      BY <3>5, <3>8, <3>9 DEF LinkInv
  <2> QED
    BY <2>3, <2>4
<1>2. CASE \E u \in Unit : Unlink(u)
  <2> PICK u \in Unit : Unlink(u)
    BY <1>2
  <2>1. /\ head[u] \in Queued(u)
        /\ head' = [head EXCEPT ![u] = next[head[u]]]
        /\ next' = [next EXCEPT ![head[u]] = NULL]
        /\ Queued(u)' = Queued(u) \ {head[u]}
        /\ \A v \in Unit \ {u} : Queued(v)' = Queued(v)
    BY UnlinkShape
  <2>2. \A q \in Proc : next'[q] = IF q = head[u] THEN NULL ELSE next[q]
    BY <1>0, <2>1 DEF TypeOK, ProcType
  <2>3. \A v \in Unit : head'[v] = IF v = u THEN next[head[u]] ELSE head[v]
    BY <1>0, <2>1 DEF TypeOK, QueueType
  <2>4. next[head[u]] # NULL => next[head[u]] \in Queued(u) /\ next[head[u]] # head[u]
    BY <2>1, NextInQueue
  <2>5. \A v \in Unit : head'[v] # NULL => head'[v] \in Queued(v)'
    BY <1>0, <2>1, <2>3, <2>4 DEF LinkInv
  <2>6. ASSUME NEW q \in Proc, next'[q] # NULL
        PROVE  \E v \in Unit : /\ q \in Queued(v)' /\ next'[q] \in Queued(v)'
                               /\ next'[q] # head'[v]
    <3>1. q # head[u] /\ next'[q] = next[q]
      BY <2>2, <2>6
    <3>2. PICK v \in Unit : /\ q \in Queued(v) /\ next[q] \in Queued(v)
                            /\ next[q] # head[v]
      BY <1>0, <2>6, <3>1 DEF LinkInv
    <3>3. CASE v = u
      <4>1. next[q] # next[head[u]]
        BY <1>0, <2>1, <2>6, <3>1, QueuedUnit DEF LinkInv
      <4> QED
        BY <2>1, <2>3, <3>1, <3>2, <3>3, <4>1
    <3>4. CASE v # u
      BY <2>1, <2>3, <3>1, <3>2, <3>4
    <3> QED
      BY <3>3, <3>4
  <2>7. \A q, r \in Proc : next'[q] # NULL /\ next'[q] = next'[r] => q = r
    BY <1>0, <2>2 DEF LinkInv
  <2> QED
    BY <2>5, <2>6, <2>7 DEF LinkInv
<1>3. CASE (\A p \in Proc : ~Insert(p)) /\ (\A u \in Unit : ~Unlink(u))
  BY <1>0, <1>3, QueueFrame DEF LinkInv
<1> QED
  BY <1>1, <1>2, <1>3

(* The chain from the head still reaches every queued row, and ends. *)
LEMMA ChainStep == Inv /\ [Next]_vars => ChainInv'
<1> SUFFICES ASSUME Inv, [Next]_vars PROVE ChainInv'
  OBVIOUS
<1>0. TypeOK /\ LinkInv /\ ChainInv
  BY DEF Inv
<1> DEFINE Last(v) == Queued(v) # {} => \E q \in Queued(v) : next[q] = NULL
           Reach(v) == \A S \in SUBSET Proc :
             Closed(S) /\ (head[v] = NULL \/ head[v] \in S) => Queued(v) \subseteq S
<1>a. \A v \in Unit : Last(v) /\ Reach(v)
  BY <1>0 DEF ChainInv
<1>b. ASSUME \A v \in Unit : Last(v)' /\ Reach(v)' PROVE ChainInv'
  BY <1>b DEF ChainInv
<1>1. CASE \E p \in Proc : Insert(p)
  <2> PICK p \in Proc : Insert(p)
    BY <1>1
  <2>1. UnitOf(req[p]) \in Unit
    BY UnitOfQueued DEF Insert, Inv
  <2> PICK u \in Unit : u = UnitOf(req[p])
    BY <2>1
  <2>2. /\ \A v \in Unit : p \notin Queued(v)
        /\ Queued(u)' = Queued(u) \cup {p}
        /\ \A v \in Unit \ {u} : Queued(v)' = Queued(v) /\ head'[v] = head[v]
        /\ next[p] = NULL
        /\ \/ head[u] = NULL /\ head'[u] = p /\ UNCHANGED next
           \/ /\ head[u] # NULL /\ head'[u] = head[u]
              /\ \E x \in Queued(u) : LinkAfter(p, x)
    BY InsertShape
  <2>3. CASE head[u] = NULL
    <3>1. head'[u] = p /\ next' = next /\ Closed({})
      BY <2>2, <2>3 DEF Closed
    <3>2. Queued(u) = {}
      BY <1>a, <2>3, <3>1
    <3>3. \A v \in Unit : Last(v)'
      BY <1>a, <2>2, <3>1, <3>2
    <3>4. Reach(u)'
      BY <2>2, <3>1, <3>2, NullAssumption
    <3>5. \A v \in Unit \ {u} : Reach(v)'
      BY <1>a, <2>2, <3>1 DEF Closed
    <3> QED
      BY <1>b, <3>3, <3>4, <3>5
  <2>4. CASE head[u] # NULL
    <3> PICK x \in Queued(u) : LinkAfter(p, x)
      BY <2>2, <2>4
    <3>1. x \in Proc /\ x # p /\ p # NULL
      BY <2>1, <2>2, QueuedUnit, NullAssumption
    <3>2. \A q \in Proc : next'[q] = IF q = x THEN p ELSE IF q = p THEN next[x] ELSE next[q]
      BY <1>0, <3>1 DEF LinkAfter, TypeOK, ProcType
    <3>3. \A q \in Proc : next[q] # p
      BY <1>0, <2>2, NullAssumption DEF LinkInv
    <3>4. \A v \in Unit : head'[v] = head[v] /\ head[v] # p
      BY <1>0, <2>1, <2>2, <2>4, NullAssumption DEF LinkInv
    <3>5. ASSUME NEW v \in Unit PROVE Last(v)'
      <4>1. CASE v = u
        <5>1. PICK q \in Queued(u) : next[q] = NULL
          BY <1>a
        <5>2. CASE q = x
          BY <2>2, <3>1, <3>2, <4>1, <5>1, <5>2
        <5>3. CASE q # x
          BY <2>2, <3>1, <3>2, <4>1, <5>1, <5>3, QueuedUnit
        <5> QED
          BY <5>2, <5>3
      <4>2. CASE v # u
        BY <1>a, <2>2, <3>1, <3>2, <4>2, QueuedUnit
      <4> QED
        BY <4>1, <4>2
    <3>6. ASSUME NEW v \in Unit, NEW S \in SUBSET Proc, Closed(S)',
                 head'[v] = NULL \/ head'[v] \in S
          PROVE  Queued(v)' \subseteq S
      <4> DEFINE T == S \ {p}
      <4>1. T \in SUBSET Proc /\ (head[v] = NULL \/ head[v] \in T)
        BY <3>4, <3>6
      <4>2. Closed(T)
        <5> SUFFICES ASSUME NEW z \in T, next[z] # NULL PROVE next[z] \in T
          BY DEF Closed
        <5>1. \A y \in S : next'[y] # NULL => next'[y] \in S
          BY <3>6 DEF Closed
        <5>2. CASE z = x
          BY <3>1, <3>2, <3>3, <5>1, <5>2
        <5>3. CASE z # x
          BY <3>2, <3>3, <5>1, <5>3
        <5> QED
          BY <5>2, <5>3
      <4>3. Queued(v) \subseteq T
        BY <1>a, <4>1, <4>2
      <4>4. CASE v = u
        <5>1. x \in S /\ next'[x] = p
          BY <3>1, <3>2, <4>3, <4>4
        <5>2. p \in S
          BY <3>1, <3>6, <5>1 DEF Closed
        <5> QED
          BY <2>2, <4>3, <4>4, <5>2
      <4>5. CASE v # u
        BY <2>2, <4>3, <4>5
      <4> QED
        BY <4>4, <4>5
    <3>7. \A v \in Unit : Reach(v)'
      BY <3>6
    <3> QED
      BY <1>b, <3>5, <3>7
  <2> QED
    BY <2>3, <2>4
<1>2. CASE \E u \in Unit : Unlink(u)
  <2> PICK u \in Unit : Unlink(u)
    BY <1>2
  <2>1. /\ head[u] \in Queued(u)
        /\ head' = [head EXCEPT ![u] = next[head[u]]]
        /\ next' = [next EXCEPT ![head[u]] = NULL]
        /\ Queued(u)' = Queued(u) \ {head[u]}
        /\ \A v \in Unit \ {u} : Queued(v)' = Queued(v)
    BY UnlinkShape
  <2>2. \A q \in Proc : next'[q] = IF q = head[u] THEN NULL ELSE next[q]
    BY <1>0, <2>1 DEF TypeOK, ProcType
  <2>3. \A v \in Unit : head'[v] = IF v = u THEN next[head[u]] ELSE head[v]
    BY <1>0, <2>1 DEF TypeOK, QueueType
  <2>4. head[u] \in Proc /\ head[u] # NULL
    BY <2>1, QueuedUnit, NullAssumption
  <2>5. ASSUME next[head[u]] = NULL PROVE Queued(u) = {head[u]}
    <3>1. Closed({head[u]}) /\ {head[u]} \in SUBSET Proc
      BY <2>4, <2>5 DEF Closed
    <3> QED
      BY <1>a, <2>1, <3>1
  <2>6. \A v \in Unit : Last(v)'
    <3>1. Last(u)'
      BY <1>a, <2>1, <2>2, <2>5, QueuedUnit
    <3>2. \A v \in Unit \ {u} : Last(v)'
      BY <1>a, <2>1, <2>2, QueuedUnit
    <3> QED
      BY <3>1, <3>2
  <2>7. ASSUME NEW v \in Unit, NEW S \in SUBSET Proc, Closed(S)',
               head'[v] = NULL \/ head'[v] \in S
        PROVE  Queued(v)' \subseteq S
    <3>1. \A y \in S : next'[y] # NULL => next'[y] \in S
      BY <2>7 DEF Closed
    <3>2. CASE v = u
      <4>1. CASE next[head[u]] = NULL
        BY <2>1, <2>5, <3>2, <4>1
      <4>2. CASE next[head[u]] # NULL
        <5> DEFINE T == S \cup {head[u]}
        <5>1. T \in SUBSET Proc /\ head[u] \in T
          BY <2>4
        <5>2. Closed(T)
          BY <2>2, <2>3, <2>7, <3>1, <3>2, <4>2 DEF Closed
        <5>3. Queued(u) \subseteq T
          BY <1>a, <5>1, <5>2
        <5> QED
          BY <2>1, <3>2, <5>3
      <4> QED
        BY <4>1, <4>2
    <3>3. CASE v # u
      <4> DEFINE T == S \cup Queued(u)
      <4>1. T \in SUBSET Proc /\ (head[v] = NULL \/ head[v] \in T)
        BY <2>3, <2>7, <3>3, QueuedUnit
      <4>2. Closed(T)
        <5> SUFFICES ASSUME NEW z \in T, next[z] # NULL PROVE next[z] \in T
          BY DEF Closed
        <5>1. CASE z \in Queued(u)
          BY <5>1, NextInQueue
        <5>2. CASE z \notin Queued(u)
          BY <2>1, <2>2, <3>1, <5>2
        <5> QED
          BY <5>1, <5>2
      <4>3. Queued(v) \subseteq T
        BY <1>a, <4>1, <4>2
      <4>4. Queued(v) \cap Queued(u) = {}
        BY <3>3, QueuedUnit
      <4> QED
        BY <2>1, <3>3, <4>3, <4>4
    <3> QED
      BY <3>2, <3>3
  <2>8. \A v \in Unit : Reach(v)'
    BY <2>7
  <2> QED
    BY <1>b, <2>6, <2>8
<1>3. CASE (\A p \in Proc : ~Insert(p)) /\ (\A u \in Unit : ~Unlink(u))
  BY <1>0, <1>3, QueueFrame DEF ChainInv, Closed
<1> QED
  BY <1>1, <1>2, <1>3

-----------------------------------------------------------------------------
(* The invariant holds, and what follows from it. *)

THEOREM Invariance == Spec => []Inv
<1>1. Init => Inv
  BY InitInv
<1>2. Inv /\ [Next]_vars => Inv'
  BY TypeStep, CallStep, LockStep, DaemonStep, LinkStep, ChainStep DEF Inv
<1> QED
  BY <1>1, <1>2, PTL DEF Spec

(* Every variable keeps its type, for any number of processes and requests. *)
THEOREM TypeCorrect == Spec => []TypeOK
<1>1. Inv => TypeOK
  BY DEF Inv
<1> QED
  BY <1>1, Invariance, PTL

(* The queue locks exclude: however many processes call, no two of them    *)
(* are inside diskQueueHelper for one disk, nor one while its daemon       *)
(* unlinks.                                                                *)
THEOREM Exclusion == Spec => []LockExclusion
<1>1. Inv => LockExclusion
  BY DEF Inv, LockInv, LockExclusion
<1> QED
  BY <1>1, Invariance, PTL

(* The lists are exact: each holds its outstanding requests, once each, *)
(* whatever insertions and removals were made.                          *)
THEOREM QueuesExact == Spec => []QueueExact
<1>1. ASSUME Inv, NEW u \in Unit PROVE Linked(u) = Queued(u)
  <2>0. LinkInv /\ ChainInv
    BY <1>1 DEF Inv
  <2>1. CASE head[u] = NULL
    <3>1. Closed({})
      BY DEF Closed
    <3> QED
      BY <2>0, <2>1, <3>1 DEF ChainInv, Linked
  <2>2. CASE head[u] # NULL
    <3>1. head[u] \in Queued(u)
      BY <2>0, <2>2 DEF LinkInv
    <3>2. Walked(head[u], Proc) \subseteq Queued(u)
      BY <1>1, <3>1, WalkInQueue
    <3>3. ASSUME NEW S \in SUBSET Proc, head[u] \in S,
                 \A z \in S : next[z] \in Proc => next[z] \in S
          PROVE  Queued(u) \subseteq S
      <4>1. Closed(S)
        BY <1>1, <3>3 DEF Closed, Inv, TypeOK, ProcType
      <4> QED
        BY <2>0, <3>3, <4>1 DEF ChainInv
    <3>4. Queued(u) \subseteq Walked(head[u], Proc)
      BY <3>3, QueuedUnit DEF Walked
    <3> QED
      BY <2>2, <3>2, <3>4 DEF Linked
  <2> QED
    BY <2>1, <2>2
<1>2. Inv => QueueExact
  BY <1>1 DEF QueueExact, Inv, LinkInv, ChainInv
<1> QED
  BY <1>2, Invariance, PTL

(* The row that a daemon will unlink is the row it serves, though it reads *)
(* the head without the lock.                                              *)
THEOREM ServesHead == Spec => []HeadIsServed
<1>1. Inv => HeadIsServed
  BY DEF Inv, DaemonInv, HeadIsServed
<1> QED
  BY <1>1, Invariance, PTL

(* A process outside the queue may fill in its row: no list and no daemon *)
(* refers to it.                                                          *)
THEOREM RowsFree == Spec => []RowFree
<1>1. ASSUME Inv, NEW p \in Proc, pc[p] \in {"user", "lock", "insert", "size"}
      PROVE  /\ mboxID[p] = 0 /\ next[p] = NULL
             /\ \A u \in Unit : /\ head[u] # p
                                /\ Serving(u) \/ dpc[u] = "post" => cur[u] # p
             /\ \A q \in Proc : next[q] # p
  <2>0. TypeOK /\ CallInv /\ DaemonInv /\ LinkInv
    BY <1>1 DEF Inv
  <2>1. \A u \in Unit : p \notin Queued(u)
    BY <1>1 DEF Queued
  <2>2. mboxID[p] = 0
    BY <1>1, <2>0 DEF TypeOK, ProcType, CallInv
  <2>3. next[p] = NULL /\ \A q \in Proc : next[q] # p
    BY <2>0, <2>1, NullAssumption DEF LinkInv
  <2>4. \A u \in Unit : head[u] # p
    BY <2>0, <2>1, NullAssumption DEF LinkInv
  <2>5. \A u \in Unit : Serving(u) \/ dpc[u] = "post" => cur[u] # p
    BY <1>1, <2>0, <2>4 DEF DaemonInv
  <2> QED
    BY <2>2, <2>3, <2>4, <2>5
<1>2. Inv => RowFree
  BY <1>1 DEF RowFree
<1> QED
  BY <1>2, Invariance, PTL

-----------------------------------------------------------------------------
(* The daemon's waits. *)

(* While it boots or sleeps, a queued request has its wake-up. *)
WakeInv ==
  \A u \in Unit :
    dpc[u] \in {"boot", "bootWait", "idle"} /\ head[u] # NULL =>
      diskMbox[u] = 1 \/ \E p \in Queued(u) : pc[p] = "wake"

LEMMA WakeStep == Inv /\ WakeInv /\ [Next]_vars => WakeInv'
<1> SUFFICES ASSUME Inv, WakeInv, [Next]_vars PROVE WakeInv'
  OBVIOUS
<1>0. TypeOK /\ LinkInv
  BY DEF Inv
<1>1. CASE \E p \in Proc : Insert(p)
  <2> PICK p \in Proc : Insert(p)
    BY <1>1
  <2>1. UnitOf(req[p]) \in Unit
    BY UnitOfQueued DEF Insert, Inv
  <2> PICK u \in Unit : u = UnitOf(req[p])
    BY <2>1
  <2>2. /\ Queued(u)' = Queued(u) \cup {p}
        /\ \A v \in Unit \ {u} : Queued(v)' = Queued(v) /\ head'[v] = head[v]
    BY InsertShape
  <2>3. /\ pc' = [pc EXCEPT ![p] = "wake"] /\ UNCHANGED <<diskMbox, dpc>>
    BY DEF Insert, daemonVars
  <2>4. pc'[p] = "wake" /\ \A q \in Proc : pc[q] = "wake" => pc'[q] = "wake"
    BY <1>0, <2>3 DEF TypeOK, ProcType
  <2> QED
    BY <2>2, <2>3, <2>4, QueuedUnit DEF WakeInv
<1>2. CASE \E u \in Unit : Unlink(u)
  <2> PICK u \in Unit : Unlink(u)
    BY <1>2
  <2>1. /\ \A v \in Unit \ {u} : Queued(v)' = Queued(v)
        /\ head' = [head EXCEPT ![u] = next[head[u]]]
    BY UnlinkShape
  <2>2. dpc' = [dpc EXCEPT ![u] = "post"] /\ UNCHANGED <<pc, diskMbox>>
    BY DEF Unlink, Goto
  <2> QED
    BY <1>0, <2>1, <2>2 DEF WakeInv, TypeOK, QueueType, DaemonType
<1>3. CASE (\A p \in Proc : ~Insert(p)) /\ (\A u \in Unit : ~Unlink(u))
  <2>1. UNCHANGED head /\ \A u \in Unit : Queued(u)' = Queued(u)
    BY <1>3, QueueFrame
  <2>2. ASSUME NEW p \in Proc, NEW c \in Request,
               StartIO(p, c) \/ RejectIO(p, c) \/ StartSize(p, c)
        PROVE  WakeInv'
    <3>1. UNCHANGED <<diskMbox, dpc>> /\ \A q \in Proc : pc[q] = "wake" => pc'[q] = "wake"
      BY <1>0, <2>2 DEF StartIO, RejectIO, StartSize, Call, queueVars, daemonVars, TypeOK,
         ProcType
    <3> QED
      BY <2>1, <3>1, QueuedUnit DEF WakeInv
  <2>3. ASSUME NEW p \in Proc, FinishSize(p) \/ LockQueue(p) \/ Return(p) PROVE WakeInv'
    <3>1. UNCHANGED <<diskMbox, dpc>> /\ \A q \in Proc : pc[q] = "wake" => pc'[q] = "wake"
      BY <1>0, <2>3 DEF FinishSize, LockQueue, Return, queueVars, daemonVars, TypeOK,
         ProcType
    <3> QED
      BY <2>1, <3>1, QueuedUnit DEF WakeInv
  <2>4. ASSUME NEW p \in Proc, Wake(p) PROVE WakeInv'
    <3>1. /\ UNCHANGED dpc /\ diskMbox' = [diskMbox EXCEPT ![UnitOf(req[p])] = 1]
          /\ \A q \in Proc \ {p} : pc'[q] = pc[q]
      BY <1>0, <2>4 DEF Wake, CondSend, daemonVars, TypeOK, ProcType
    <3>2. \A u \in Unit : p \in Queued(u) => diskMbox'[u] = 1
      BY <1>0, <3>1 DEF Queued, TypeOK, QueueType
    <3>3. \A u \in Unit : diskMbox[u] = 1 => diskMbox'[u] = 1
      BY <1>0, <3>1 DEF TypeOK, QueueType
    <3> QED
      BY <2>1, <3>1, <3>2, <3>3, QueuedUnit DEF WakeInv
  <2>5. ASSUME NEW u \in Unit, Awake(u) PROVE WakeInv'
    BY <1>0, <2>1, <2>5 DEF Awake, Goto, Recv, procVars, WakeInv, TypeOK, QueueType,
       DaemonType
  <2>6. ASSUME NEW u \in Unit, QueueEmpty(u) PROVE WakeInv'
    BY <1>0, <2>1, <2>6 DEF QueueEmpty, Goto, procVars, queueVars, WakeInv, TypeOK,
       DaemonType
  <2>7. ASSUME NEW u \in Unit,
               Daemon(u) \/ AllMoved(u), ~Awake(u), ~QueueEmpty(u), ~Unlink(u)
        PROVE  /\ UNCHANGED <<pc, diskMbox>>
               /\ \A v \in Unit : dpc'[v] \in {"boot", "bootWait", "idle"} =>
                                    dpc[v] \in {"boot", "bootWait", "idle"}
    BY <1>0, <2>7 DEF Daemon, Boot, BootDone, TakeHead, Seek, SeekDone, NextTrack,
       Transfer, TransferDone, AllMoved, Post, Goto, procVars, queueVars, TypeOK,
       DaemonType
  <2>8. UNCHANGED vars \/ (\E u \in Unit : DeviceDone(u)) => UNCHANGED <<pc, diskMbox, dpc>>
    BY DEF vars, DeviceDone, procVars, queueVars, daemonVars
  <2>9. ASSUME UNCHANGED <<pc, diskMbox>>,
               \A v \in Unit : dpc'[v] \in {"boot", "bootWait", "idle"} =>
                                 dpc[v] \in {"boot", "bootWait", "idle"}
        PROVE  WakeInv'
    BY <2>1, <2>9 DEF WakeInv
  <2> QED
    BY <1>3, <2>2, <2>3, <2>4, <2>5, <2>6, <2>7, <2>8, <2>9 DEF Next, Start, Handler
<1> QED
  BY <1>1, <1>2, <1>3

(* No wake-up is lost: no order of queueing, signalling and emptying the   *)
(* queue puts the daemon to sleep on a request.                            *)
THEOREM WakeupKept == Spec => []NoLostWakeup
<1>1. Init => WakeInv
  BY DEF Init, WakeInv
<1>2. WakeInv => NoLostWakeup
  BY DEF WakeInv, NoLostWakeup
<1> QED
  BY <1>1, <1>2, WakeStep, Invariance, PTL DEF Spec

(* Requests to the device and answers from it alternate: neither a busy    *)
(* disk nor a full status slot is ever met, so the results that the daemon *)
(* does not look at lose nothing to the order of events.                   *)
THEOREM AnswersArePaired == Spec => []AnswersPaired
<1>1. Init => AnswersPaired
  BY DEF Init, AnswersPaired
<1>2. Inv /\ AnswersPaired /\ [Next]_vars => AnswersPaired'
  <2> SUFFICES ASSUME Inv, AnswersPaired, [Next]_vars PROVE AnswersPaired'
    OBVIOUS
  <2>0. /\ dpc \in [Unit -> DaemonPC]
        /\ dev \in [Unit -> Device]
        /\ devMbox \in [Unit -> {"none", "ready", "error"}]
    BY DEF Inv, TypeOK, DaemonType, DeviceType
  <2>1. ASSUME NEW p \in Proc, Start(p) \/ Handler(p) \/ LockQueue(p)
        PROVE  UNCHANGED <<dpc, dev, devMbox>>
    BY <2>1 DEF Start, StartIO, RejectIO, StartSize, Call, Handler, FinishSize, LockQueue,
       Insert, Wake, Return, daemonVars, deviceVars
  <2>2. ASSUME NEW u \in Unit, NEW op, NEW r, NEW to \in {"bootWait", "seekWait", "xferWait"},
               dpc[u] \in {"boot", "seek", "sector"}, dpc' = [dpc EXCEPT ![u] = to],
               DeviceOutput(u, op, r), UNCHANGED devMbox
        PROVE  AnswersPaired'
    <3>1. ~dev[u].busy /\ devMbox[u] = "none"
      BY <2>2 DEF AnswersPaired
    <3>2. dev' = [dev EXCEPT ![u] = [busy |-> TRUE, op |-> op, reg1 |-> r,
                                     arm |-> dev[u].arm]]
      BY <2>2, <3>1 DEF DeviceOutput
    <3>3. dev'[u].busy /\ \A v \in Unit \ {u} : dev'[v] = dev[v] /\ dpc'[v] = dpc[v]
      BY <2>0, <2>2, <3>2
    <3>4. devMbox' = devMbox /\ dpc'[u] \in {"bootWait", "seekWait", "xferWait"}
      BY <2>0, <2>2
    <3> QED
      BY <3>1, <3>3, <3>4 DEF AnswersPaired
  <2>3. ASSUME NEW u \in Unit, Boot(u) \/ Seek(u) \/ Transfer(u) PROVE AnswersPaired'
    BY <2>2, <2>3 DEF Boot, Seek, Transfer, Goto
  <2>4. ASSUME NEW u \in Unit, BootDone(u) \/ SeekDone(u) \/ TransferDone(u)
        PROVE  AnswersPaired'
    <3>1. /\ dpc[u] \in {"bootWait", "seekWait", "xferWait"} /\ devMbox[u] # "none"
          /\ devMbox' = [devMbox EXCEPT ![u] = "none"] /\ UNCHANGED dev
      BY <2>4 DEF BootDone, SeekDone, TransferDone, Goto, WaitDevice
    <3>2. PICK to \in {"idle", "sector"} : dpc' = [dpc EXCEPT ![u] = to]
      BY <2>4 DEF BootDone, SeekDone, TransferDone, Goto
    <3>3. ~dev[u].busy
      BY <3>1 DEF AnswersPaired
    <3> QED
      BY <2>0, <3>1, <3>2, <3>3 DEF AnswersPaired
  <2>5. ASSUME NEW u \in Unit, DeviceDone(u) PROVE AnswersPaired'
    <3>1. dev[u].busy /\ UNCHANGED dpc
      BY <2>5 DEF DeviceDone, daemonVars
    <3>2. dpc[u] \in {"bootWait", "seekWait", "xferWait"} /\ devMbox[u] = "none"
      BY <3>1 DEF AnswersPaired
    <3>3. ~dev'[u].busy /\ devMbox'[u] # "none"
      BY <2>0, <2>5, <3>2 DEF DeviceDone
    <3>4. \A v \in Unit \ {u} : dev'[v] = dev[v] /\ devMbox'[v] = devMbox[v]
      BY <2>0, <2>5 DEF DeviceDone
    <3> QED
      BY <3>1, <3>2, <3>3, <3>4 DEF AnswersPaired
  <2>6. ASSUME NEW u \in Unit, Awake(u) \/ QueueEmpty(u) \/ TakeHead(u) \/ NextTrack(u)
                               \/ AllMoved(u) \/ Unlink(u) \/ Post(u)
        PROVE  AnswersPaired'
    <3>1. UNCHANGED <<dev, devMbox>>
      BY <2>6 DEF Awake, QueueEmpty, TakeHead, NextTrack, AllMoved, Unlink, Post, deviceVars
    <3>2. \A v \in Unit : dpc'[v] \in {"bootWait", "seekWait", "xferWait"} <=>
                            dpc[v] \in {"bootWait", "seekWait", "xferWait"}
      BY <2>0, <2>6 DEF Awake, QueueEmpty, TakeHead, NextTrack, AllMoved, Unlink, Post, Goto
    <3> QED
      BY <3>1, <3>2 DEF AnswersPaired
  <2>7. UNCHANGED vars => UNCHANGED <<dpc, dev, devMbox>>
    BY DEF vars, daemonVars, deviceVars
  <2>8. UNCHANGED <<dpc, dev, devMbox>> => AnswersPaired'
    BY DEF AnswersPaired
  <2> QED
    BY <2>1, <2>3, <2>4, <2>5, <2>6, <2>7, <2>8 DEF Next, Daemon
<1> QED
  BY <1>1, <1>2, Invariance, PTL DEF Spec
=============================================================================
