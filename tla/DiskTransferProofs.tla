------------------------- MODULE DiskTransferProofs -------------------------
(***************************************************************************)
(* Proofs about what a disk's daemon moves for a request: module Disk,     *)
(* for every set of processes and requests and every size of the disks.    *)
(***************************************************************************)
EXTENDS DiskProofs

(* The daemon has a request in its hands. *)
Busy(u) == Serving(u) \/ dpc[u] = "post"
InHand(p) == \E u \in Unit : Busy(u) /\ cur[u] = p

(* Nothing is moved for a request before its turn. *)
PatientInv ==
  \A p \in Proc : pc[p] \in {"lock", "insert", "wake", "wait"} /\ mboxID[p] = 0 /\ ~InHand(p) =>
                    moved[p] = <<>>

(* What a disk works on is what its daemon waits for. *)
DeviceInv(u) ==
  dev[u].busy =>
    \/ dpc[u] = "bootWait" /\ dev[u].op = "tracks"
    \/ dpc[u] = "seekWait" /\ dev[u].op = "seek" /\ dev[u].reg1 = job[u].track
    \/ dpc[u] = "xferWait" /\ dev[u].op = job[u].op /\ dev[u].reg1 = job[u].reg1

(* The first sector of a call, and the sectors that the daemon has counted *)
(* for its request: one less than were moved while an answer is posted.    *)
Base(c) == c.track * TrackSize + c.first

Uncounted(u) == IF dpc[u] = "xferWait" /\ ~dev[u].busy THEN 1 ELSE 0
Counted(u) == Len(moved[cur[u]]) - Uncounted(u)

(* The daemon's locals stand at the next sector, or at the end. *)
Position(u, c) ==
  /\ Counted(u) \in Nat
  /\ job[u].track * TrackSize + job[u].reg1 = Base(c) + Counted(u)
  /\ job[u].left = c.sectors - Counted(u)
  /\ Counted(u) > 0 => job[u].left >= 0
  /\ job[u].track \in 0..NumTracks[u] - 1 /\ job[u].reg1 \in 0..TrackSize
  /\ dpc[u] = "xferWait" => job[u].left > 0 /\ job[u].reg1 # TrackSize
  /\ dpc[u] = "unlink" => job[u].left <= 0

(* The arm stands on the daemon's track, once it has been moved. *)
OnTrack(u) ==
  dpc[u] \in {"sector", "xferWait"} \/ (dpc[u] = "seekWait" /\ ~dev[u].busy) =>
    dev[u].arm = job[u].track

(* What was moved is a prefix of what was asked for. *)
Prefix(m, c) == \A i \in 1..Len(m) : m[i] = Base(c) + i - 1

ServeInv(u) ==
  Serving(u) /\ InRange(req[cur[u]]) =>
    Prefix(moved[cur[u]], req[cur[u]]) /\ Position(u, req[cur[u]]) /\ OnTrack(u)

(* What is about to be posted is complete. *)
PostInv(u) ==
  dpc[u] = "post" /\ InRange(req[cur[u]]) => moved[cur[u]] = Expected(req[cur[u]])

UnitInv(u) == DeviceInv(u) /\ ServeInv(u) /\ PostInv(u)

TransferInv == PatientInv /\ CompletionExact /\ \A u \in Unit : UnitInv(u)

-----------------------------------------------------------------------------
LEMMA InitTransfer == Init => TransferInv
<1> SUFFICES ASSUME Init PROVE TransferInv
  OBVIOUS
<1>1. PatientInv /\ CompletionExact
  BY DEF Init, PatientInv, CompletionExact
<1>2. \A u \in Unit : UnitInv(u)
  BY DEF Init, UnitInv, DeviceInv, ServeInv, PostInv, Serving
<1> QED
  BY <1>1, <1>2 DEF TransferInv

(* The request in a daemon's hands is for its disk and not yet completed,  *)
(* so no two daemons have the same one.                                    *)
LEMMA Holder ==
  ASSUME Inv, NEW u \in Unit, Busy(u)
  PROVE  /\ cur[u] \in Proc /\ pc[cur[u]] \in {"wake", "wait"}
         /\ UnitOf(req[cur[u]]) = u /\ mboxID[cur[u]] = 0
         /\ req[cur[u]] \in Request /\ req[cur[u]].op \in DiskOp
<1>1. CASE Serving(u)
  <2>1. cur[u] \in Proc /\ head[u] = cur[u]
    BY <1>1 DEF Inv, DaemonInv
  <2>2. cur[u] \in Queued(u)
    BY <2>1, NullAssumption DEF Inv, LinkInv
  <2> QED
    BY <2>1, <2>2 DEF Inv, CallInv, Queued
<1>2. CASE dpc[u] = "post"
  BY <1>2 DEF Inv, DaemonInv, CallInv
<1> QED
  BY <1>1, <1>2 DEF Busy

(* A disk whose daemon, locals, device and request did not change. *)
LEMMA Steady ==
  ASSUME NEW u \in Unit, UnitInv(u),
         dpc'[u] = dpc[u], cur'[u] = cur[u], job'[u] = job[u], dev'[u] = dev[u],
         Busy(u) => moved'[cur[u]] = moved[cur[u]] /\ req'[cur[u]] = req[cur[u]]
  PROVE  UnitInv(u)'
<1>1. DeviceInv(u)'
  BY DEF UnitInv, DeviceInv
<1>2. CASE ~Busy(u)
  BY <1>1, <1>2 DEF UnitInv, ServeInv, PostInv, Busy, Serving
<1>3. CASE Busy(u)
  <2>1. PICK p, c : p = cur[u] /\ c = req[p]
    OBVIOUS
  <2>2. cur'[u] = p /\ req'[p] = c /\ moved'[p] = moved[p]
    BY <1>3, <2>1
  <2>3. Serving(u) /\ InRange(c) => Prefix(moved[p], c) /\ Position(u, c) /\ OnTrack(u)
    BY <2>1 DEF UnitInv, ServeInv
  <2>4. Serving(u)' = Serving(u) /\ OnTrack(u)' = OnTrack(u)
    BY DEF Serving, OnTrack
  <2>5. Counted(u)' = Counted(u)
    BY <2>1, <2>2 DEF Counted, Uncounted
  <2>6. Position(u, c)' <=> Position(u, c)
    BY <2>5 DEF Position, Base
  <2>7. ServeInv(u)'
    BY <2>2, <2>3, <2>4, <2>6 DEF ServeInv, Position
  <2>8. PostInv(u)'
    BY <2>1, <2>2 DEF UnitInv, PostInv
  <2> QED
    BY <1>1, <2>7, <2>8 DEF UnitInv
<1> QED
  BY <1>2, <1>3

-----------------------------------------------------------------------------
(* The handlers touch neither a daemon nor a request in its hands. *)
LEMMA TransferHandlers ==
  ASSUME Inv, Inv', TransferInv, NEW p \in Proc, Start(p) \/ Handler(p) \/ LockQueue(p)
  PROVE  TransferInv'
<1>0. ProcType /\ DeviceType
  BY DEF Inv, TypeOK
<1>1. UNCHANGED <<dpc, cur, job, dev>>
  BY DEF Start, StartIO, RejectIO, StartSize, Call, Handler, FinishSize, LockQueue,
     Insert, Wake, Return, daemonVars, deviceVars
<1>2. \A q \in Proc \ {p} : req'[q] = req[q] /\ moved'[q] = moved[q] /\ pc'[q] = pc[q]
                            /\ mboxID'[q] = mboxID[q]
  BY <1>0 DEF Start, StartIO, RejectIO, StartSize, Call, Handler, FinishSize, LockQueue,
     Insert, Wake, Return, Recv, deviceVars, ProcType, DeviceType
<1>3. pc[p] # "user" => /\ req'[p] = req[p] /\ moved'[p] = moved[p]
                        /\ mboxID'[p] = mboxID[p] \/ (pc'[p] = "user" /\ mboxID'[p] = 0)
                        /\ pc'[p] \in {"lock", "insert", "wake", "wait"} =>
                             pc[p] \in {"lock", "insert", "wake", "wait"}
  BY <1>0 DEF Start, StartIO, RejectIO, StartSize, Call, Handler, FinishSize, LockQueue,
     Insert, Wake, Return, Recv, deviceVars, ProcType
<1>4. pc[p] = "user" => moved'[p] = <<>> /\ mboxID'[p] = mboxID[p]
  BY <1>0 DEF Start, StartIO, RejectIO, StartSize, Call, Handler, FinishSize, LockQueue,
     Insert, Wake, Return, DeviceType
<1>5. \A u \in Unit : UnitInv(u)'
  <2>1. ASSUME NEW u \in Unit, Busy(u)
        PROVE  moved'[cur[u]] = moved[cur[u]] /\ req'[cur[u]] = req[cur[u]]
    BY <1>2, <1>3, <2>1, Holder
  <2> QED
    BY <1>1, <2>1, Steady DEF TransferInv
<1>6. \A q \in Proc : InHand(q)' = InHand(q)
  BY <1>1 DEF InHand, Busy, Serving
<1>7. PatientInv'
  BY <1>2, <1>3, <1>4, <1>6 DEF TransferInv, PatientInv
<1>8. CompletionExact'
  <2>1. ASSUME NEW q \in Proc, mboxID'[q] = 1
        PROVE  /\ pc'[q] \in {"wake", "wait"}
               /\ InRange(req'[q]) => moved'[q] = Expected(req'[q])
    <3>1. pc'[q] \in {"wake", "wait"}
      BY <2>1 DEF Inv, CallInv
    <3>2. mboxID[q] = 1
      BY <1>2, <1>3, <1>4, <2>1
    <3>3. pc[q] \in {"wake", "wait"}
      BY <3>2 DEF Inv, CallInv
    <3>4. req'[q] = req[q] /\ moved'[q] = moved[q]
      BY <1>2, <1>3, <3>3
    <3> QED
      BY <3>1, <3>2, <3>4 DEF TransferInv, CompletionExact
  <2> QED
    BY <2>1 DEF CompletionExact
<1> QED
  BY <1>5, <1>7, <1>8 DEF TransferInv

-----------------------------------------------------------------------------
(* Arithmetic of tracks and sectors. *)
LEMMA TrackBelow ==
  ASSUME NEW t \in Int, NEW n \in Nat, NEW r \in Nat, NEW s \in Nat \ {0},
         t * s + r < n * s
  PROVE  t < n
<1>1. ASSUME t >= n PROVE FALSE
  <2>1. t * s = n * s + (t - n) * s
    OBVIOUS
  <2>2. (t - n) * s >= 0
    BY <1>1
  <2>3. t * s \in Int /\ n * s \in Int
    OBVIOUS
  <2> QED
    BY <2>1, <2>2, <2>3
<1> QED
  BY <1>1

LEMMA NextTrackStart ==
  ASSUME NEW t \in Int, NEW s \in Int
  PROVE  (t + 1) * s + 0 = t * s + s
  OBVIOUS

(* What was moved is exactly what was asked for, when it is as much. *)
LEMMA PrefixWhole ==
  ASSUME NEW c, c.sectors \in Int, c.track \in Int, c.first \in Int, NEW m \in Seq(Int),
         Prefix(m, c), Len(m) = c.sectors \/ (Len(m) = 0 /\ c.sectors <= 0)
  PROVE  m = Expected(c)
<1>1. 1..Len(m) = 1..c.sectors
  OBVIOUS
<1>2. m = [i \in 1..Len(m) |-> m[i]]
  OBVIOUS
<1>3. \A i \in 1..Len(m) : m[i] = c.track * TrackSize + c.first + i - 1
  BY DEF Prefix, Base
<1> QED
  BY <1>1, <1>2, <1>3 DEF Expected

-----------------------------------------------------------------------------
(* What a daemon's step leaves alone, and how requests come into its hands *)
(* and leave them.                                                         *)
LEMMA DaemonFrame ==
  ASSUME Inv, NEW u \in Unit, Daemon(u) \/ AllMoved(u)
  PROVE  /\ UNCHANGED <<pc, req, moved>>
         /\ \A v \in Unit \ {u} : /\ dpc'[v] = dpc[v] /\ cur'[v] = cur[v]
                                  /\ job'[v] = job[v] /\ dev'[v] = dev[v]
         /\ \A q \in Proc : mboxID'[q] = mboxID[q] \/ (dpc[u] = "post" /\ q = cur[u])
         /\ Busy(u) => \/ Busy(u)' /\ cur'[u] = cur[u]
                       \/ mboxID'[cur[u]] = 1
<1> USE DEF procVars, queueVars, deviceVars
<1>0. /\ ProcType /\ DaemonType /\ DeviceType
      /\ dpc[u] = "post" => cur[u] \in Proc
  BY DEF Inv, TypeOK, DaemonInv
<1>1. UNCHANGED <<pc, req, moved>>
  BY DEF Daemon, AllMoved, Boot, BootDone, Awake, QueueEmpty, TakeHead, Seek, SeekDone,
     NextTrack, Transfer, TransferDone, Unlink, Post
<1>2. ASSUME NEW v \in Unit, v # u
      PROVE  dpc'[v] = dpc[v] /\ cur'[v] = cur[v] /\ job'[v] = job[v] /\ dev'[v] = dev[v]
  BY <1>0, <1>2 DEF Daemon, AllMoved, Boot, BootDone, Awake, QueueEmpty, TakeHead, Seek,
     SeekDone, NextTrack, Transfer, TransferDone, Unlink, Post, Goto, DeviceOutput, ProcType,
     DaemonType, DeviceType
<1>3. CASE Post(u)
  <2>1. \A q \in Proc : mboxID'[q] = mboxID[q] \/ q = cur[u]
    BY <1>0, <1>3 DEF Post, Send, ProcType
  <2>2. dpc[u] = "post" /\ mboxID'[cur[u]] = 1
    BY <1>0, <1>3 DEF Post, Goto, Send, ProcType
  <2> QED
    BY <1>1, <1>2, <2>1, <2>2
<1>4. CASE ~Post(u)
  <2>1. UNCHANGED mboxID
    BY <1>4 DEF Daemon, AllMoved, Boot, BootDone, Awake, QueueEmpty, TakeHead, Seek, SeekDone,
       NextTrack, Transfer, TransferDone, Unlink
  <2>2. Busy(u) => Busy(u)' /\ cur'[u] = cur[u]
    BY <1>0, <1>4 DEF Daemon, AllMoved, Boot, BootDone, Awake, QueueEmpty, TakeHead, Seek,
       SeekDone, NextTrack, Transfer, TransferDone, Unlink, Goto, DaemonType, Busy, Serving
  <2> QED
    BY <1>1, <1>2, <2>1, <2>2
<1> QED
  BY <1>3, <1>4

(* A daemon that goes on with its request, nothing being moved. *)
LEMMA GoesOn ==
  ASSUME TransferInv, NEW u \in Unit, Serving(u), dpc'[u] # "post",
         UNCHANGED <<req, moved>>, cur'[u] = cur[u], DeviceInv(u)',
         InRange(req[cur[u]]) /\ Position(u, req[cur[u]]) /\ OnTrack(u) =>
           \A c : c = req[cur[u]] => Position(u, c)' /\ OnTrack(u)'
  PROVE  UnitInv(u)'
<1>1. PICK c : c = req[cur[u]]
  OBVIOUS
<1>2. PICK m : m = moved[cur[u]]
  OBVIOUS
<1>3. req'[cur'[u]] = c /\ moved'[cur'[u]] = m
  BY <1>1, <1>2
<1>4. InRange(c) => Prefix(m, c) /\ Position(u, c) /\ OnTrack(u)
  BY <1>1, <1>2 DEF TransferInv, UnitInv, ServeInv
<1>5. InRange(c) => Prefix(m, c) /\ Position(u, c)' /\ OnTrack(u)'
  BY <1>1, <1>4
<1>6. ServeInv(u)'
  BY <1>3, <1>5 DEF ServeInv, Position
<1> QED
  BY <1>6 DEF UnitInv, PostInv

(* The locals of a daemon at work are numbers. *)
LEMMA LocalsType ==
  ASSUME Inv, NEW u \in Unit, NEW p \in Proc
  PROVE  /\ job[u] \in Job /\ job[u].track \in Int /\ job[u].reg1 \in Int
         /\ job[u].left \in Int /\ job[u].op \in DiskOp
         /\ moved[p] \in Seq(Int) /\ Len(moved[p]) \in Nat
         /\ dev[u] \in Device /\ u \in {0, 1} /\ NumTracks[u] \in Nat \ {0}
         /\ TrackSize \in Nat \ {0}
<1>1. job[u] \in Job /\ dev[u] \in Device /\ moved[p] \in Seq(Int)
  BY DEF Inv, TypeOK, DaemonType, DeviceType
<1>2. /\ job[u].track \in Int /\ job[u].reg1 \in Int
      /\ job[u].left \in Int /\ job[u].op \in DiskOp
  BY <1>1 DEF Job
<1>3. u \in {0, 1} /\ NumTracks[u] \in Nat \ {0} /\ TrackSize \in Nat \ {0}
  BY UnitAssumption, TrackAssumption
<1> QED
  BY <1>1, <1>2, <1>3

(* A daemon that has no request in its hands after the step. *)
LEMMA HandsFree ==
  ASSUME Inv, AnswersPaired, TransferInv, NEW u \in Unit,
         Boot(u) \/ BootDone(u) \/ Awake(u) \/ QueueEmpty(u) \/ Post(u)
  PROVE  UnitInv(u)'
<1>0. DaemonType /\ DeviceType
  BY DEF Inv, TypeOK
<1>1. DeviceInv(u)'
  BY <1>0 DEF AnswersPaired, TransferInv, UnitInv, DeviceInv, Boot, BootDone, Awake,
     QueueEmpty, Post, Goto, DeviceOutput, WaitDevice, deviceVars, DaemonType, DeviceType
<1>2. dpc'[u] \in {"bootWait", "idle", "scan"}
  BY <1>0 DEF Boot, BootDone, Awake, QueueEmpty, Post, Goto, DaemonType
<1> QED
  BY <1>1, <1>2 DEF UnitInv, ServeInv, PostInv, Serving

(* A request taken from the head of the list has not been touched. *)
LEMMA Takes ==
  ASSUME Inv, AnswersPaired, TransferInv, NEW u \in Unit, TakeHead(u)
  PROVE  UnitInv(u)'
<1>0. DaemonType /\ DeviceType /\ QueueType
  BY DEF Inv, TypeOK
<1>1. PICK p : p = head[u]
  OBVIOUS
<1>2. p \in Queued(u) /\ p \in Proc /\ dpc[u] = "scan"
  BY <1>0, <1>1 DEF TakeHead, Goto, Inv, LinkInv, QueueType
<1>3. pc[p] \in {"wake", "wait"} /\ mboxID[p] = 0 /\ UnitOf(req[p]) = u
  BY <1>2 DEF Queued
<1>4. ~InHand(p)
  BY <1>2, <1>3, Holder DEF InHand, Busy, Serving
<1>5. moved[p] = <<>>
  BY <1>2, <1>3, <1>4 DEF TransferInv, PatientInv
<1>6. PICK c : c = req[p]
  OBVIOUS
<1>7. c \in Request /\ c.track \in Int /\ c.first \in Int /\ c.sectors \in Int
  <2>1. c \in Request
    BY <1>2, <1>3, <1>6 DEF Inv, CallInv
  <2> QED
    BY <2>1, RequestAssumption
<1>8. /\ dpc'[u] = "seek" /\ cur'[u] = p /\ req' = req /\ moved' = moved /\ dev' = dev
      /\ job'[u] = [op |-> c.op, track |-> c.track, reg1 |-> c.first, left |-> c.sectors]
  BY <1>0, <1>1, <1>6 DEF TakeHead, Goto, DaemonType, procVars, deviceVars
<1>9. job'[u].track = c.track /\ job'[u].reg1 = c.first /\ job'[u].left = c.sectors
  BY <1>8
<1>10. Counted(u)' = 0
  BY <1>5, <1>8 DEF Counted, Uncounted
<1>11. ASSUME InRange(c) PROVE Position(u, c)'
  <2>1. c.track \in 0..NumTracks[u] - 1 /\ c.first \in 0..TrackSize
    BY <1>3, <1>6, <1>11, TrackAssumption DEF InRange
  <2>2. c.track * TrackSize \in Int
    BY <1>7, TrackAssumption
  <2> QED
    BY <1>7, <1>8, <1>9, <1>10, <2>1, <2>2 DEF Position, Base
<1>12. Prefix(<<>>, c)
  BY DEF Prefix
<1>13. OnTrack(u)'
  BY <1>8 DEF OnTrack
<1>14. DeviceInv(u)'
  BY <1>2, <1>8 DEF AnswersPaired, DeviceInv
<1>15. req'[cur'[u]] = c /\ moved'[cur'[u]] = <<>>
  BY <1>5, <1>6, <1>8
<1>16. ServeInv(u)'
  BY <1>11, <1>12, <1>13, <1>15 DEF ServeInv, Position
<1> QED
  BY <1>8, <1>14, <1>16 DEF UnitInv, PostInv

(* The arm is sent to the daemon's track, and has got there. *)
LEMMA Seeks ==
  ASSUME Inv, AnswersPaired, TransferInv, NEW u \in Unit, Seek(u) \/ SeekDone(u)
  PROVE  UnitInv(u)'
<1>0. DaemonType /\ DeviceType
  BY DEF Inv, TypeOK
<1>1. /\ UNCHANGED <<req, moved, cur, job>>
      /\ dpc[u] \in {"seek", "seekWait"} /\ dpc'[u] \in {"seekWait", "sector"}
  BY <1>0 DEF Seek, SeekDone, Goto, DaemonType, procVars
<1>2. DeviceInv(u)' /\ (OnTrack(u) => OnTrack(u)')
  <2>1. CASE Seek(u)
    <3>1. ~dev[u].busy /\ dpc'[u] = "seekWait"
      BY <1>0, <2>1 DEF Seek, Goto, AnswersPaired, DaemonType
    <3>2. dev'[u].busy /\ dev'[u].op = "seek" /\ dev'[u].reg1 = job[u].track
      BY <1>0, <2>1, <3>1 DEF Seek, DeviceOutput, DeviceType
    <3> QED
      BY <1>1, <3>1, <3>2 DEF DeviceInv, OnTrack
  <2>2. CASE SeekDone(u)
    <3>1. ~dev[u].busy /\ dev' = dev /\ dpc[u] = "seekWait"
      BY <1>0, <2>2 DEF SeekDone, Goto, WaitDevice, AnswersPaired, DaemonType
    <3> QED
      BY <1>1, <3>1 DEF DeviceInv, OnTrack
  <2> QED
    BY <2>1, <2>2
<1>3. ASSUME NEW c, Position(u, c) PROVE Position(u, c)'
  <2>1. Counted(u)' = Counted(u)
    BY <1>1 DEF Counted, Uncounted
  <2> QED
    BY <1>1, <1>3, <2>1 DEF Position
<1> QED
  BY <1>1, <1>2, <1>3, GoesOn DEF Serving

(* A track that is used up leads to the next one, which the disk has, as   *)
(* there are sectors left to do.                                           *)
LEMMA TurnsTrack ==
  ASSUME Inv, AnswersPaired, TransferInv, NEW u \in Unit, NextTrack(u)
  PROVE  UnitInv(u)'
<1>0. DaemonType /\ DeviceType
  BY DEF Inv, TypeOK
<1>1. /\ UNCHANGED <<req, moved, cur, dev>>
      /\ dpc[u] = "sector" /\ dpc'[u] = "seek"
      /\ job[u].left > 0 /\ job[u].reg1 = TrackSize
      /\ job'[u].track = job[u].track + 1 /\ job'[u].reg1 = 0 /\ job'[u].left = job[u].left
  BY <1>0 DEF NextTrack, Goto, DaemonType, procVars, deviceVars
<1>2. DeviceInv(u)' /\ OnTrack(u)'
  BY <1>1 DEF AnswersPaired, DeviceInv, OnTrack
<1>3. Busy(u) /\ Serving(u)
  BY <1>1 DEF Busy, Serving
<1>4. ASSUME InRange(req[cur[u]]), Position(u, req[cur[u]]), NEW c, c = req[cur[u]]
      PROVE  Position(u, c)'
  <2>1. c \in Request /\ UnitOf(c) = u /\ cur[u] \in Proc /\ c.op \in DiskOp
    BY <1>3, <1>4, Holder
  <2>2. c.track \in Int /\ c.first \in Int /\ c.sectors \in Int
    BY <2>1, RequestAssumption
  <2>3. PICK t, n, k, b, s : /\ t = job[u].track /\ n = Counted(u) /\ k = NumTracks[u]
                             /\ b = Base(c) /\ s = c.sectors
    OBVIOUS
  <2>4. t \in Int /\ n \in Nat /\ k \in Nat /\ s \in Int /\ TrackSize \in Nat \ {0}
    BY <1>4, <2>1, <2>2, <2>3, LocalsType DEF Position
  <2>5. b \in Int
    BY <2>2, <2>3, <2>4 DEF Base
  <2>6. t * TrackSize + TrackSize = b + n /\ s - n > 0 /\ t \in 0..k - 1
    BY <1>1, <1>4, <2>3 DEF Position
  <2>7. b + s <= k * TrackSize
    BY <1>4, <2>1, <2>3 DEF InRange, Base
  <2>8. (t + 1) * TrackSize + 0 = b + n
    BY <2>4, <2>6, NextTrackStart
  <2>9. (t + 1) * TrackSize + 0 < k * TrackSize
    <3>1. PICK z : z = (t + 1) * TrackSize + 0
      OBVIOUS
    <3>2. PICK y : y = k * TrackSize
      OBVIOUS
    <3>3. z = b + n /\ b + s <= y /\ z \in Int /\ y \in Int
      BY <2>4, <2>7, <2>8, <3>1, <3>2
    <3>4. z < y
      BY <2>4, <2>5, <2>6, <3>3
    <3> QED
      BY <3>1, <3>2, <3>4
  <2>10. t + 1 < k
    BY <2>4, <2>9, TrackBelow
  <2>11. t + 1 \in 0..k - 1 /\ 0 \in 0..TrackSize
    BY <2>4, <2>6, <2>10
  <2>12. Counted(u)' = n
    BY <1>1, <2>3 DEF Counted, Uncounted
  <2> QED
    BY <1>1, <1>4, <2>3, <2>4, <2>8, <2>11, <2>12 DEF Position
<1> QED
  BY <1>1, <1>2, <1>3, <1>4, GoesOn

(* A sector is asked for. *)
LEMMA Transfers ==
  ASSUME Inv, AnswersPaired, TransferInv, NEW u \in Unit, Transfer(u)
  PROVE  UnitInv(u)'
<1>0. DaemonType /\ DeviceType
  BY DEF Inv, TypeOK
<1>1. /\ UNCHANGED <<req, moved, cur, job>>
      /\ dpc[u] = "sector" /\ dpc'[u] = "xferWait"
      /\ job[u].left > 0 /\ job[u].reg1 # TrackSize
  BY <1>0 DEF Transfer, Goto, DaemonType, procVars
<1>2. ~dev[u].busy
  BY <1>1 DEF AnswersPaired
<1>3. /\ dev'[u].busy /\ dev'[u].op = job[u].op /\ dev'[u].reg1 = job[u].reg1
      /\ dev'[u].arm = dev[u].arm
  BY <1>0, <1>2 DEF Transfer, DeviceOutput, DeviceType
<1>4. DeviceInv(u)' /\ (OnTrack(u) => OnTrack(u)')
  BY <1>1, <1>3 DEF DeviceInv, OnTrack
<1>5. Counted(u)' = Counted(u)
  BY <1>1, <1>3 DEF Counted, Uncounted
<1>6. ASSUME NEW c, Position(u, c) PROVE Position(u, c)'
  BY <1>1, <1>5, <1>6 DEF Position
<1> QED
  BY <1>1, <1>4, <1>6, GoesOn DEF Serving

(* The answer has come: the sector is counted. *)
LEMMA Counts ==
  ASSUME Inv, AnswersPaired, TransferInv, NEW u \in Unit, TransferDone(u)
  PROVE  UnitInv(u)'
<1>0. DaemonType /\ DeviceType
  BY DEF Inv, TypeOK
<1>1. /\ UNCHANGED <<req, moved, cur, dev>>
      /\ dpc[u] = "xferWait" /\ dpc'[u] = "sector" /\ devMbox[u] # "none"
      /\ job'[u].track = job[u].track /\ job'[u].reg1 = job[u].reg1 + 1
      /\ job'[u].left = job[u].left - 1
  BY <1>0 DEF TransferDone, WaitDevice, Goto, DaemonType, procVars
<1>2. ~dev[u].busy
  BY <1>1 DEF AnswersPaired
<1>3. DeviceInv(u)' /\ (OnTrack(u) => OnTrack(u)')
  BY <1>1, <1>2 DEF DeviceInv, OnTrack
<1>4. Busy(u) /\ Serving(u)
  BY <1>1 DEF Busy, Serving
<1>5. ASSUME InRange(req[cur[u]]), Position(u, req[cur[u]]), NEW c, c = req[cur[u]]
      PROVE  Position(u, c)'
  <2>1. c \in Request /\ UnitOf(c) = u /\ cur[u] \in Proc /\ c.op \in DiskOp
    BY <1>4, <1>5, Holder
  <2>2. c.track \in Int /\ c.first \in Int /\ c.sectors \in Int
    BY <2>1, RequestAssumption
  <2>3. PICK l, n : l = Len(moved[cur[u]]) /\ n = Counted(u)
    OBVIOUS
  <2>4. l \in Int /\ n \in Nat /\ n = l - 1
    BY <1>1, <1>2, <1>5, <2>1, <2>3, LocalsType DEF Counted, Uncounted, Position
  <2>5. Counted(u)' = l
    BY <1>1, <2>3, <2>4 DEF Counted, Uncounted
  <2>6. Counted(u)' = n + 1
    BY <2>4, <2>5
  <2>7. PICK g, b, r, f : g = job[u].track * TrackSize /\ b = Base(c) /\ r = job[u].reg1 /\ f = job[u].left
    OBVIOUS
  <2>8. g \in Int /\ b \in Int /\ r \in Int /\ f \in Int
    BY <2>1, <2>2, <2>7, LocalsType DEF Base
  <2>9. /\ g + r = b + n /\ f = c.sectors - n /\ f > 0 /\ r \in 0..TrackSize /\ r # TrackSize
        /\ job[u].track \in 0..NumTracks[u] - 1
    BY <1>1, <1>5, <2>3, <2>7 DEF Position
  <2>10. /\ g + (r + 1) = b + (n + 1) /\ f - 1 = c.sectors - (n + 1) /\ f - 1 >= 0
         /\ r + 1 \in 0..TrackSize
    BY <2>2, <2>4, <2>8, <2>9, TrackAssumption
  <2> QED
    BY <1>1, <2>4, <2>6, <2>7, <2>9, <2>10 DEF Position
<1> QED
  BY <1>1, <1>3, <1>4, <1>5, GoesOn

(* The last sector has been counted. *)
LEMMA Finishes ==
  ASSUME Inv, AnswersPaired, TransferInv, NEW u \in Unit, AllMoved(u)
  PROVE  UnitInv(u)'
<1>0. DaemonType
  BY DEF Inv, TypeOK
<1>1. /\ UNCHANGED <<req, moved, cur, dev, job>>
      /\ dpc[u] = "sector" /\ dpc'[u] = "unlink" /\ job[u].left <= 0
  BY <1>0 DEF AllMoved, Goto, DaemonType, procVars, deviceVars
<1>2. DeviceInv(u)' /\ OnTrack(u)'
  BY <1>1 DEF AnswersPaired, DeviceInv, OnTrack
<1>3. Counted(u)' = Counted(u)
  BY <1>1 DEF Counted, Uncounted
<1>4. ASSUME NEW c, Position(u, c) PROVE Position(u, c)'
  BY <1>1, <1>3, <1>4 DEF Position
<1> QED
  BY <1>1, <1>2, <1>4, GoesOn DEF Serving

LEMMA Unlinks ==
  ASSUME Inv, AnswersPaired, TransferInv, NEW u \in Unit, Unlink(u)
  PROVE  UnitInv(u)'
<1>0. DaemonType
  BY DEF Inv, TypeOK
<1>1. /\ UNCHANGED <<req, moved, cur, dev, job>>
      /\ dpc[u] = "unlink" /\ dpc'[u] = "post"
  BY <1>0 DEF Unlink, Goto, DaemonType, deviceVars
<1>2. Busy(u) /\ Serving(u)
  BY <1>1 DEF Busy, Serving
<1>3. DeviceInv(u)' /\ ServeInv(u)'
  BY <1>1 DEF AnswersPaired, DeviceInv, ServeInv, Serving
<1>4. PICK c, m : c = req[cur[u]] /\ m = moved[cur[u]]
  OBVIOUS
<1>5. c \in Request /\ cur[u] \in Proc /\ m \in Seq(Int) /\ Len(m) \in Nat
  BY <1>2, <1>4, Holder, LocalsType
<1>6. c.track \in Int /\ c.first \in Int /\ c.sectors \in Int
  BY <1>2, <1>4, Holder, RequestAssumption
<1>7. ASSUME InRange(c) PROVE m = Expected(c)
  <2>1. Prefix(m, c) /\ Position(u, c)
    BY <1>2, <1>4, <1>7 DEF TransferInv, UnitInv, ServeInv
  <2>2. Counted(u) = Len(m)
    BY <1>1, <1>4, <1>5 DEF Counted, Uncounted
  <2>3. Len(m) = c.sectors \/ (Len(m) = 0 /\ c.sectors <= 0)
    <3>1. PICK f : f = job[u].left
      OBVIOUS
    <3>2. f = c.sectors - Len(m) /\ f <= 0 /\ (Len(m) > 0 => f >= 0)
      BY <1>1, <2>1, <2>2, <3>1 DEF Position
    <3> QED
      BY <1>5, <1>6, <3>2
  <2> QED
    BY <1>5, <1>6, <2>1, <2>3, PrefixWhole
<1>8. PostInv(u)'
  BY <1>1, <1>4, <1>7 DEF PostInv
<1> QED
  BY <1>3, <1>8 DEF UnitInv

-----------------------------------------------------------------------------
LEMMA TransferDaemons ==
  ASSUME Inv, Inv', AnswersPaired, TransferInv, NEW u \in Unit, Daemon(u) \/ AllMoved(u)
  PROVE  TransferInv'
<1>1. UNCHANGED <<pc, req, moved>>
  BY DaemonFrame
<1>2. UnitInv(u)'
  BY HandsFree, Takes, Seeks, TurnsTrack, Transfers, Counts, Finishes, Unlinks DEF Daemon
<1>3. ASSUME NEW v \in Unit, v # u PROVE UnitInv(v)'
  <2>1. UnitInv(v)
    BY DEF TransferInv
  <2>2. dpc'[v] = dpc[v] /\ cur'[v] = cur[v] /\ job'[v] = job[v] /\ dev'[v] = dev[v]
    BY <1>3, DaemonFrame
  <2> QED
    BY <1>1, <2>1, <2>2, Steady
<1>4. PatientInv'
  <2>1. ASSUME NEW p \in Proc, pc'[p] \in {"lock", "insert", "wake", "wait"},
               mboxID'[p] = 0, ~InHand(p)'
        PROVE  moved'[p] = <<>>
    <3>1. mboxID[p] = 0
      BY <2>1, DaemonFrame, Holder DEF Busy
    <3>2. ASSUME NEW v \in Unit, Busy(v), cur[v] = p PROVE FALSE
      <4>1. CASE v = u
        <5>1. ~(Busy(u)' /\ cur'[u] = cur[u])
          BY <2>1, <3>2, <4>1 DEF InHand
        <5> QED
          BY <2>1, <3>2, <4>1, <5>1, DaemonFrame
      <4>2. CASE v # u
        <5>1. dpc'[v] = dpc[v] /\ cur'[v] = cur[v]
          BY <4>2, DaemonFrame
        <5>2. Busy(v)' /\ cur'[v] = p
          BY <3>2, <5>1 DEF Busy, Serving
        <5> QED
          BY <2>1, <5>2 DEF InHand
      <4> QED
        BY <4>1, <4>2
    <3> QED
      BY <1>1, <2>1, <3>1, <3>2 DEF TransferInv, PatientInv, InHand
  <2> QED
    BY <2>1 DEF PatientInv
<1>5. CompletionExact'
  <2>1. ASSUME NEW q \in Proc, mboxID'[q] = 1
        PROVE  /\ pc'[q] \in {"wake", "wait"}
               /\ InRange(req'[q]) => moved'[q] = Expected(req'[q])
    <3>1. pc'[q] \in {"wake", "wait"}
      BY <2>1 DEF Inv, CallInv
    <3>2. mboxID[q] = 1 \/ (dpc[u] = "post" /\ q = cur[u])
      BY <2>1, DaemonFrame
    <3>3. InRange(req[q]) => moved[q] = Expected(req[q])
      BY <3>2 DEF TransferInv, CompletionExact, UnitInv, PostInv
    <3> QED
      BY <1>1, <3>1, <3>3
  <2> QED
    BY <2>1 DEF CompletionExact
<1> QED
  BY <1>2, <1>3, <1>4, <1>5 DEF TransferInv

(* The disk answers: it has moved its arm to the daemon's track, or the    *)
(* next sector of the call.                                                *)
LEMMA DeviceFrame ==
  ASSUME Inv, AnswersPaired, TransferInv, NEW u \in Unit, DeviceDone(u)
  PROVE  /\ UNCHANGED <<pc, req, mboxID, dpc, cur, job>>
         /\ dpc[u] \in {"bootWait", "seekWait", "xferWait"} /\ dev[u].busy
         /\ \A v \in Unit \ {u} : dev'[v] = dev[v]
         /\ \A q \in Proc : moved'[q] = moved[q] \/ (Busy(u) /\ q = cur[u])
         /\ ~dev'[u].busy
         /\ dpc[u] # "xferWait" => moved' = moved
<1>0. DeviceType
  BY DEF Inv, TypeOK
<1>1. UNCHANGED <<pc, req, mboxID, dpc, cur, job>> /\ dev[u].busy
  BY DEF DeviceDone, procVars, daemonVars
<1>2. dpc[u] \in {"bootWait", "seekWait", "xferWait"}
  BY <1>1 DEF AnswersPaired
<1>3. dpc[u] # "xferWait" => dev[u].op \notin DiskOp
  BY <1>1, <1>2 DEF TransferInv, UnitInv, DeviceInv, DiskOp
<1>4. dpc[u] # "xferWait" => moved' = moved
  BY <1>3 DEF DeviceDone
<1>5. \A v \in Unit \ {u} : dev'[v] = dev[v]
  BY <1>0 DEF DeviceDone, DeviceType
<1>6. ~dev'[u].busy
  BY <1>0 DEF DeviceDone, DeviceType
<1>7. \A q \in Proc : moved'[q] = moved[q] \/ q = cur[u]
  BY <1>0 DEF DeviceDone, DeviceType
<1>8. dpc[u] = "xferWait" => Busy(u)
  BY DEF Busy, Serving
<1> QED
  BY <1>1, <1>2, <1>4, <1>5, <1>6, <1>7, <1>8

LEMMA DeviceSeeks ==
  ASSUME Inv, AnswersPaired, TransferInv, NEW u \in Unit, DeviceDone(u), dpc[u] = "seekWait"
  PROVE  UnitInv(u)'
<1>0. DeviceType
  BY DEF Inv, TypeOK
<1>1. /\ UNCHANGED <<req, moved, cur, job, dpc>>
      /\ dev[u].busy /\ ~dev'[u].busy
  BY DeviceFrame
<1>2. dev[u].op = "seek" /\ dev[u].reg1 = job[u].track
  BY <1>1 DEF TransferInv, UnitInv, DeviceInv
<1>3. DeviceInv(u)'
  BY <1>1 DEF DeviceInv
<1>4. ASSUME NEW c, Position(u, c) PROVE Position(u, c)' /\ OnTrack(u)'
  <2>1. Legal(u, dev[u].op, dev[u].reg1)
    BY <1>2, <1>4 DEF Legal, Position, DiskOp
  <2>2. dev'[u].arm = job[u].track
    BY <1>0, <1>2, <2>1 DEF DeviceDone, DeviceType
  <2>3. Counted(u)' = Counted(u)
    BY <1>1 DEF Counted, Uncounted
  <2> QED
    BY <1>1, <1>4, <2>2, <2>3 DEF Position, OnTrack
<1> QED
  BY <1>1, <1>3, <1>4, GoesOn DEF Serving

LEMMA DeviceMoves ==
  ASSUME Inv, AnswersPaired, TransferInv, NEW u \in Unit, DeviceDone(u), dpc[u] = "xferWait"
  PROVE  UnitInv(u)'
<1>0. DeviceType
  BY DEF Inv, TypeOK
<1>1. /\ UNCHANGED <<req, cur, job, dpc>>
      /\ dev[u].busy /\ ~dev'[u].busy
  BY DeviceFrame
<1>2. Busy(u) /\ Serving(u)
  BY DEF Busy, Serving
<1>3. PICK p, c, m : p = cur[u] /\ c = req[p] /\ m = moved[p]
  OBVIOUS
<1>4. p \in Proc /\ c \in Request /\ UnitOf(c) = u /\ m \in Seq(Int) /\ Len(m) \in Nat
  BY <1>2, <1>3, Holder, LocalsType
<1>5. dev[u].op = job[u].op /\ dev[u].reg1 = job[u].reg1 /\ job[u].op \in DiskOp
  BY <1>1, <1>4, LocalsType DEF TransferInv, UnitInv, DeviceInv
<1>6. DeviceInv(u)'
  BY <1>1 DEF DeviceInv
<1>7. ASSUME InRange(c) PROVE Prefix(moved'[p], c) /\ Position(u, c)' /\ OnTrack(u)'
  <2>1. Prefix(m, c) /\ Position(u, c) /\ OnTrack(u)
    BY <1>2, <1>3, <1>7 DEF TransferInv, UnitInv, ServeInv
  <2>2. dev[u].arm = job[u].track
    BY <2>1 DEF OnTrack
  <2>3. job[u].reg1 \in 0..TrackSize - 1
    BY <2>1, TrackAssumption DEF Position
  <2>4. Legal(u, dev[u].op, dev[u].reg1)
    BY <1>5, <2>3 DEF Legal, DiskOp
  <2>5. PICK x : x = job[u].track * TrackSize + job[u].reg1
    OBVIOUS
  <2>6. moved'[p] = Append(m, x)
    <3>1. dev[u].op \in DiskOp
      BY <1>5
    <3>2. moved' = [moved EXCEPT ![cur[u]] = Append(@, dev[u].arm * TrackSize + dev[u].reg1)]
      BY <2>4, <3>1 DEF DeviceDone
    <3> QED
      BY <1>0, <1>3, <1>4, <1>5, <2>2, <2>5, <3>2 DEF DeviceType
  <2>7. Counted(u) = Len(m) /\ Len(m) \in Nat
    BY <1>1, <1>3, <1>4 DEF Counted, Uncounted
  <2>8. x = Base(c) + Len(m) /\ Base(c) \in Int
    <3>1. c.track \in Int /\ c.first \in Int
      BY <1>4, RequestAssumption
    <3> QED
      BY <2>1, <2>5, <2>7, <3>1, TrackAssumption DEF Position, Base
  <2>9. x \in Int
    BY <2>7, <2>8
  <2>10. Len(Append(m, x)) = Len(m) + 1
    BY <1>4, <2>9
  <2>11. \A i \in 1..Len(m) + 1 : Append(m, x)[i] = IF i = Len(m) + 1 THEN x ELSE m[i]
    BY <1>4, <2>9
  <2>12. Prefix(Append(m, x), c)
    BY <2>1, <2>7, <2>8, <2>10, <2>11 DEF Prefix
  <2>13. Counted(u)' = Counted(u)
    BY <1>1, <1>3, <2>6, <2>7, <2>10 DEF Counted, Uncounted
  <2>14. dev'[u].arm = dev[u].arm
    BY <1>0, <1>5 DEF DeviceDone, DeviceType, DiskOp
  <2> QED
    BY <1>1, <2>1, <2>2, <2>6, <2>12, <2>13, <2>14 DEF Position, OnTrack
<1>8. ServeInv(u)'
  BY <1>1, <1>3, <1>7 DEF ServeInv, Prefix, Position
<1> QED
  BY <1>1, <1>6, <1>8 DEF UnitInv, PostInv

LEMMA TransferDevice ==
  ASSUME Inv, Inv', AnswersPaired, TransferInv, NEW u \in Unit, DeviceDone(u)
  PROVE  TransferInv'
<1>1. /\ UNCHANGED <<pc, req, mboxID, dpc, cur, job>>
      /\ dpc[u] \in {"bootWait", "seekWait", "xferWait"}
      /\ \A q \in Proc : moved'[q] = moved[q] \/ (Busy(u) /\ q = cur[u])
      /\ ~dev'[u].busy
  BY DeviceFrame
<1>2. ASSUME dpc[u] = "bootWait" PROVE UnitInv(u)'
  BY <1>1, <1>2 DEF UnitInv, DeviceInv, ServeInv, PostInv, Serving
<1>3. UnitInv(u)'
  BY <1>1, <1>2, DeviceSeeks, DeviceMoves
<1>4. ASSUME NEW v \in Unit, v # u PROVE UnitInv(v)'
  <2>1. UnitInv(v) /\ dev'[v] = dev[v]
    BY <1>4, DeviceFrame DEF TransferInv
  <2>2. ASSUME Busy(v) PROVE moved'[cur[v]] = moved[cur[v]]
    <3>1. cur[v] \in Proc /\ UnitOf(req[cur[v]]) = v
      BY <2>2, Holder
    <3>2. Busy(u) => cur[u] # cur[v]
      BY <1>4, <3>1, Holder
    <3> QED
      BY <1>1, <3>1, <3>2
  <2> QED
    BY <1>1, <2>1, <2>2, Steady
<1>5. \A p \in Proc : InHand(p)' = InHand(p)
  BY <1>1 DEF InHand, Busy, Serving
<1>6. PatientInv'
  BY <1>1, <1>5 DEF TransferInv, PatientInv, InHand
<1>7. ASSUME NEW q \in Proc, mboxID[q] = 1 PROVE moved'[q] = moved[q]
  BY <1>1, <1>7, Holder
<1>8. CompletionExact'
  BY <1>1, <1>7 DEF TransferInv, CompletionExact
<1> QED
  BY <1>3, <1>4, <1>6, <1>8 DEF TransferInv

-----------------------------------------------------------------------------
LEMMA TransferStep == Inv /\ Inv' /\ AnswersPaired /\ TransferInv /\ [Next]_vars => TransferInv'
<1> SUFFICES ASSUME Inv, Inv', AnswersPaired, TransferInv, [Next]_vars PROVE TransferInv'
  OBVIOUS
<1>1. CASE UNCHANGED vars
  <2>1. UNCHANGED <<pc, req, mboxID, dpc, cur, job, dev, moved>>
    BY <1>1 DEF vars, procVars, daemonVars, deviceVars
  <2>2. \A u \in Unit : UnitInv(u)'
    BY <2>1, Steady DEF TransferInv
  <2>3. \A p \in Proc : InHand(p)' = InHand(p)
    BY <2>1 DEF InHand, Busy, Serving
  <2>4. PatientInv' /\ CompletionExact'
    BY <2>1, <2>3 DEF TransferInv, PatientInv, CompletionExact
  <2> QED
    BY <2>2, <2>4 DEF TransferInv
<1>2. CASE Next
  BY <1>2, TransferHandlers, TransferDaemons, TransferDevice DEF Next
<1> QED
  BY <1>1, <1>2

(* A process is released when its own sectors, all of them and in order,   *)
(* have been moved: nothing done by the other processes, the other daemon  *)
(* or the disks between its call and its release is moved in their place.  *)
THEOREM CompletionsExact == Spec => []CompletionExact
<1>1. TransferInv => CompletionExact
  BY DEF TransferInv
<1> QED
  BY <1>1, InitTransfer, TransferStep, Invariance, AnswersArePaired, PTL DEF Spec
=============================================================================
