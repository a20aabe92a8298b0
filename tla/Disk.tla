-------------------------------- MODULE Disk --------------------------------
(***************************************************************************)
(* The disk half of src/phase4.c: the DiskSize, DiskRead and DiskWrite     *)
(* system calls, the request queue of each disk, and the two disk daemons  *)
(* (diskHelperMain) that drive the USLOSS disks.                           *)
(*                                                                         *)
(* The queue is modelled at the level of the C pointers: head[u] is the    *)
(* variable disk0Req or disk1Req and next[p] the next field of row p of    *)
(* diskRequestsTable.  A row belongs to one process (pid % MAXPROC), so    *)
(* rows and processes are the same values.                                 *)
(*                                                                         *)
(* A 1-slot, 0-byte mailbox is a number: 1 when its slot holds a message.  *)
(* MboxSend waits for 0 and sets 1, MboxRecv waits for 1 and sets 0, and   *)
(* MboxCondSend sets 1 and never waits.                                    *)
(***************************************************************************)
EXTENDS Integers, Sequences, FiniteSets

CONSTANTS Proc,        \* the processes that make system calls
          Unit,        \* the disks in use: 0, 1 or both
          NULL,        \* the null pointer
          Request,     \* the argument records a process may pass
          NumTracks,   \* tracks of each disk, as the device knows them
          CodedTracks, \* tracks of each disk, as diskWriteHandler has them
          TrackSize    \* USLOSS_DISK_TRACK_SIZE, sectors in a track

DiskOp == {"read", "write"}
Untouched == -2    \* the caller's own arg1, which an early return leaves there
Failed == -1       \* a sector the device refused to transfer

ASSUME NullAssumption == NULL \notin Proc
ASSUME ProcAssumption == IsFiniteSet(Proc)
ASSUME UnitAssumption == Unit \subseteq {0, 1}
ASSUME TrackAssumption ==
  /\ TrackSize \in Nat \ {0}
  /\ NumTracks \in [{0, 1} -> Nat \ {0}]
  /\ CodedTracks \in [{0, 1} -> Nat \ {0}]
(* Every unit that is not 0 is taken for disk 1. *)
UnitOf(c) == IF c.unit = 0 THEN 0 ELSE 1

ASSUME RequestAssumption ==
  /\ Request \subseteq [op : DiskOp \cup {"size"}, unit : Int, track : Int,
                        first : Int, sectors : Int]
  /\ \A c \in Request : UnitOf(c) \in Unit

VARIABLES
  pc,         \* where the process is in its handler
  req,        \* arguments of its latest call; its table row while queued
  next,       \* its table row's next
  mboxID,     \* its table row's completion mailbox
  ret,        \* what its latest call returned: arg4, and arg1 (size: arg3)
  head,       \* disk0Req, disk1Req
  qLock,      \* disk0Q, disk1Q
  diskMbox,   \* disk0, disk1: wakes the daemon
  mutex,      \* disk0Mutex, disk1Mutex
  trackMbox,  \* disk0MutexTrack, disk1MutexTrack
  globaldisk, \* the one word both daemons let the device write
  dpc,        \* where the daemon is
  cur,        \* the daemon's diskQ
  job,        \* its locals op and track, request.reg1, and sectors still to do
  dev,        \* the USLOSS disk: the request it works on and its arm
  devMbox,    \* the status slot that waitDevice empties
  moved       \* history: the sectors moved for the process's latest call

procVars == <<pc, req, next, mboxID, ret>>
queueVars == <<head, qLock, diskMbox>>
daemonVars == <<dpc, cur, job, mutex>>
deviceVars == <<dev, devMbox, globaldisk, moved>>
vars == <<procVars, queueVars, daemonVars, trackMbox, deviceVars>>

\* A row of the zero-initialised table.
NoCall == [op |-> "read", unit |-> 0, track |-> 0, first |-> 0, sectors |-> 0]

Job == [op : DiskOp, track : Int, reg1 : Int, left : Int]
Device == [busy : BOOLEAN, op : DiskOp \cup {"seek", "tracks"}, reg1 : Int,
           arm : Int]
PC == {"user", "lock", "insert", "wake", "wait", "size"}
DaemonPC == {"boot", "bootWait", "idle", "scan", "seek", "seekWait",
             "sector", "xferWait", "unlink", "post"}

Init ==
  /\ pc = [p \in Proc |-> "user"]
  /\ req = [p \in Proc |-> NoCall]
  /\ next = [p \in Proc |-> NULL]
  /\ mboxID = [p \in Proc |-> 0]
  /\ ret = [p \in Proc |-> [code |-> 0, out |-> 0]]
  /\ head = [u \in Unit |-> NULL]
  /\ qLock = [u \in Unit |-> 0]
  /\ diskMbox = [u \in Unit |-> 0]
  /\ mutex = [u \in Unit |-> 0]
  /\ trackMbox = [u \in Unit |-> 0]
  /\ globaldisk = 0
  /\ dpc = [u \in Unit |-> "boot"]
  /\ cur = [u \in Unit |-> NULL]
  /\ job = [u \in Unit |-> [op |-> "read", track |-> 0, reg1 |-> 0, left |-> 0]]
  /\ dev = [u \in Unit |-> [busy |-> FALSE, op |-> "seek", reg1 |-> 0, arm |-> 0]]
  /\ devMbox = [u \in Unit |-> "none"]
  /\ moved = [p \in Proc |-> <<>>]

-----------------------------------------------------------------------------
(* Mailboxes: the three operations on the slot box[u]. *)

Send(box, u) == box[u] = 0 /\ box' = [box EXCEPT ![u] = 1]
Recv(box, u) == box[u] = 1 /\ box' = [box EXCEPT ![u] = 0]
CondSend(box, u) == box' = [box EXCEPT ![u] = 1]

-----------------------------------------------------------------------------
(* The request queue. *)

(* The rows a walk from row x visits that follows next only through rows   *)
(* of P: those in every set that holds x and is closed under such steps.   *)
Walked(x, P) ==
  LET Closed == {S \in SUBSET Proc :
                   x \in S /\ \A z \in S : next[z] \in P => next[z] \in S}
  IN  {y \in Proc : \A S \in Closed : y \in S}

(* The row at which that walk stops.  None, if it goes round for ever. *)
WalkEnd(x, P) == {y \in Walked(x, P) : next[y] \notin P}

(* The queue's track order seen from its head, which is on track curr:     *)
(* requests that the arm still meets on its way up, and those before them. *)
UpTo(curr, saved) == {q \in Proc : req[q].track \in curr..saved}
ThisSweep(curr) == {q \in Proc : req[q].track >= curr}

\* Mutant: < for <=, so that the latest request for a track goes first.
NextSweepStrict(saved) == {q \in Proc : req[q].track < saved}

NextSweep(saved) == {q \in Proc : req[q].track <= saved}

\* Mutant: the assignment to p's next is forgotten.
LinkAfterOnly(p, x) == next' = [next EXCEPT ![x] = p]

(* Links row p behind row x. *)
LinkAfter(p, x) == next' = [next EXCEPT ![p] = next[x], ![x] = p]

\* Mutant: a request below the head's track goes before the head.
EnqueueInFront(u, p) ==
  IF head[u] = NULL
  THEN head' = [head EXCEPT ![u] = p] /\ UNCHANGED next
  ELSE LET curr == req[head[u]].track
           saved == req[p].track
       IN  \/ /\ curr <= saved
              /\ UNCHANGED head
              /\ \E x \in WalkEnd(head[u], UpTo(curr, saved)) : LinkAfter(p, x)
           \/ /\ curr > saved
              /\ head' = [head EXCEPT ![u] = p]
              /\ next' = [next EXCEPT ![p] = head[u]]

(* diskQueueHelper.  At the end of the list only x's next is written: p's  *)
(* own is taken to be NULL already.                                        *)
Enqueue(u, p) ==
  IF head[u] = NULL
  THEN head' = [head EXCEPT ![u] = p] /\ UNCHANGED next
  ELSE LET curr == req[head[u]].track
           saved == req[p].track
       IN  /\ UNCHANGED head
           /\ \/ /\ curr <= saved
                 /\ \E x \in WalkEnd(head[u], UpTo(curr, saved)) : LinkAfter(p, x)
              \/ /\ curr > saved
                 /\ \E x \in WalkEnd(head[u], ThisSweep(curr)) :
                      IF next[x] = NULL
                      THEN next' = [next EXCEPT ![x] = p]
                      ELSE \E y \in WalkEnd(x, NextSweep(saved)) : LinkAfter(p, y)

-----------------------------------------------------------------------------
(* The handlers.  They run with interrupts off, so a process is suspended  *)
(* only in a mailbox operation; each such point is a value of pc.          *)

(* diskWriteHandler's checks.  diskReadHandler has none. *)
Accepted(c) ==
  c.op = "write" => /\ c.unit \in {0, 1}
                    /\ c.track \in 0..CodedTracks[c.unit] - 1
                    /\ c.first \in 0..TrackSize - 1

(* The call is taken down: the process's arguments, or its table row. *)
Call(p, c) ==
  /\ pc[p] = "user"
  /\ req' = [req EXCEPT ![p] = c]
  /\ moved' = [moved EXCEPT ![p] = <<>>]
  /\ UNCHANGED <<next, mboxID, queueVars, daemonVars, trackMbox, dev, devMbox,
                 globaldisk>>

StartIO(p, c) ==
  /\ c.op \in DiskOp /\ Accepted(c)
  /\ Call(p, c)
  /\ pc' = [pc EXCEPT ![p] = "lock"]
  /\ UNCHANGED ret

RejectIO(p, c) ==
  /\ c.op \in DiskOp /\ ~Accepted(c)
  /\ Call(p, c)
  /\ ret' = [ret EXCEPT ![p] = [code |-> -1, out |-> Untouched]]
  /\ UNCHANGED pc

StartSize(p, c) ==
  /\ c.op = "size"
  /\ Call(p, c)
  /\ pc' = [pc EXCEPT ![p] = "size"]
  /\ UNCHANGED ret

FinishSize(p) ==
  /\ pc[p] = "size"
  /\ Recv(trackMbox, UnitOf(req[p]))
  /\ ret' = [ret EXCEPT ![p] = [code |-> 0, out |-> globaldisk]]
  /\ pc' = [pc EXCEPT ![p] = "user"]
  /\ UNCHANGED <<req, next, mboxID, queueVars, daemonVars, deviceVars>>

\* Mutant: the MboxSend that takes the lock is forgotten.
LockQueueFree(p) ==
  /\ pc[p] = "lock"
  /\ pc' = [pc EXCEPT ![p] = "insert"]
  /\ UNCHANGED <<req, next, mboxID, ret, queueVars, daemonVars, trackMbox,
                 deviceVars>>

LockQueue(p) ==
  /\ pc[p] = "lock"
  /\ Send(qLock, UnitOf(req[p]))
  /\ pc' = [pc EXCEPT ![p] = "insert"]
  /\ UNCHANGED <<req, next, mboxID, ret, head, diskMbox, daemonVars, trackMbox,
                 deviceVars>>

Insert(p) ==
  /\ pc[p] = "insert"
  /\ Enqueue(UnitOf(req[p]), p)
  /\ Recv(qLock, UnitOf(req[p]))
  /\ pc' = [pc EXCEPT ![p] = "wake"]
  /\ UNCHANGED <<req, mboxID, ret, diskMbox, daemonVars, trackMbox, deviceVars>>

\* Mutant: the daemon is signalled only when it is found asleep.
WakeIdle(p) ==
  /\ pc[p] = "wake"
  /\ LET u == UnitOf(req[p])
     IN  IF dpc[u] = "idle" THEN CondSend(diskMbox, u) ELSE UNCHANGED diskMbox
  /\ pc' = [pc EXCEPT ![p] = "wait"]
  /\ UNCHANGED <<req, next, mboxID, ret, head, qLock, daemonVars, trackMbox,
                 deviceVars>>

\* Mutant: disk0 and disk1 are made with a slot for each request.
WakeCounted(p) ==
  /\ pc[p] = "wake"
  /\ diskMbox' = [diskMbox EXCEPT ![UnitOf(req[p])] = @ + 1]
  /\ pc' = [pc EXCEPT ![p] = "wait"]
  /\ UNCHANGED <<req, next, mboxID, ret, head, qLock, daemonVars, trackMbox,
                 deviceVars>>

Wake(p) ==
  /\ pc[p] = "wake"
  /\ CondSend(diskMbox, UnitOf(req[p]))
  /\ pc' = [pc EXCEPT ![p] = "wait"]
  /\ UNCHANGED <<req, next, mboxID, ret, head, qLock, daemonVars, trackMbox,
                 deviceVars>>

Return(p) ==
  /\ pc[p] = "wait"
  /\ Recv(mboxID, p)
  /\ ret' = [ret EXCEPT ![p] = [code |-> 0, out |-> 0]]
  /\ pc' = [pc EXCEPT ![p] = "user"]
  /\ UNCHANGED <<req, next, queueVars, daemonVars, trackMbox, deviceVars>>

-----------------------------------------------------------------------------
(* The device: USLOSS_DeviceOutput, the completion, and waitDevice. *)

(* A request to a busy disk is refused; the result is never looked at. *)
DeviceOutput(u, op, reg1) ==
  IF dev[u].busy
  THEN UNCHANGED dev
  ELSE dev' = [dev EXCEPT ![u] = [busy |-> TRUE, op |-> op, reg1 |-> reg1,
                                  arm |-> @.arm]]

Legal(u, op, reg1) ==
  CASE op = "seek" -> reg1 \in 0..NumTracks[u] - 1
    [] op \in DiskOp -> reg1 \in 0..TrackSize - 1
    [] OTHER -> TRUE

(* The disk finishes: it has moved its arm, a sector or the track count,   *)
(* and the interrupt posts its status, which is lost when one is there.    *)
DeviceDone(u) ==
  LET d == dev[u]
      ok == Legal(u, d.op, d.reg1)
  IN  /\ d.busy
      /\ dev' = [dev EXCEPT ![u] =
                   [busy |-> FALSE, op |-> d.op, reg1 |-> d.reg1,
                    arm |-> IF ok /\ d.op = "seek" THEN d.reg1 ELSE d.arm]]
      /\ devMbox' = [devMbox EXCEPT ![u] =
                       IF @ = "none" THEN IF ok THEN "ready" ELSE "error" ELSE @]
      /\ globaldisk' = IF d.op = "tracks" THEN NumTracks[u] ELSE globaldisk
      /\ moved' = IF d.op \in DiskOp
                  THEN [moved EXCEPT ![cur[u]] =
                          Append(@, IF ok THEN d.arm * TrackSize + d.reg1 ELSE Failed)]
                  ELSE moved
      /\ UNCHANGED <<procVars, queueVars, daemonVars, trackMbox>>

WaitDevice(u) == devMbox[u] # "none" /\ devMbox' = [devMbox EXCEPT ![u] = "none"]

-----------------------------------------------------------------------------
(* The daemon of disk u. *)

Goto(u, from, to) == dpc[u] = from /\ dpc' = [dpc EXCEPT ![u] = to]

Boot(u) ==
  /\ Goto(u, "boot", "bootWait")
  /\ DeviceOutput(u, "tracks", 0)
  /\ UNCHANGED <<procVars, queueVars, cur, job, mutex, trackMbox, devMbox,
                 globaldisk, moved>>

(* Its copies of globaldisk, disk0NumTracks and disk1NumTracks, are never read. *)
BootDone(u) ==
  /\ Goto(u, "bootWait", "idle")
  /\ WaitDevice(u)
  /\ Send(trackMbox, u)
  /\ UNCHANGED <<procVars, queueVars, cur, job, mutex, dev, globaldisk, moved>>

Awake(u) ==
  /\ Goto(u, "idle", "scan")
  /\ Recv(diskMbox, u)
  /\ UNCHANGED <<procVars, head, qLock, cur, job, mutex, trackMbox, deviceVars>>

(* The head is read without the queue's lock. *)
QueueEmpty(u) ==
  /\ Goto(u, "scan", "idle")
  /\ head[u] = NULL
  /\ UNCHANGED <<procVars, queueVars, cur, job, mutex, trackMbox, deviceVars>>

TakeHead(u) ==
  /\ Goto(u, "scan", "seek")
  /\ head[u] # NULL
  /\ cur' = [cur EXCEPT ![u] = head[u]]
  /\ job' = LET r == req[head[u]]
            IN  [job EXCEPT ![u] = [op |-> r.op, track |-> r.track,
                                    reg1 |-> r.first, left |-> r.sectors]]
  /\ UNCHANGED <<procVars, queueVars, mutex, trackMbox, deviceVars>>

Seek(u) ==
  /\ Goto(u, "seek", "seekWait")
  /\ Send(mutex, u)
  /\ DeviceOutput(u, "seek", job[u].track)
  /\ UNCHANGED <<procVars, queueVars, cur, job, trackMbox, devMbox, globaldisk,
                 moved>>

SeekDone(u) ==
  /\ Goto(u, "seekWait", "sector")
  /\ WaitDevice(u)
  /\ Recv(mutex, u)
  /\ UNCHANGED <<procVars, queueVars, cur, job, trackMbox, dev, globaldisk, moved>>

\* Mutant: the arm is not moved to the next track.
NextTrackNoSeek(u) ==
  /\ dpc[u] = "sector"
  /\ job[u].left > 0 /\ job[u].reg1 = TrackSize
  /\ job' = [job EXCEPT ![u] = [op |-> @.op, track |-> @.track + 1, reg1 |-> 0,
                               left |-> @.left]]
  /\ UNCHANGED <<procVars, queueVars, dpc, cur, mutex, trackMbox, deviceVars>>

NextTrack(u) ==
  /\ Goto(u, "sector", "seek")
  /\ job[u].left > 0 /\ job[u].reg1 = TrackSize
  /\ job' = [job EXCEPT ![u] = [op |-> @.op, track |-> @.track + 1, reg1 |-> 0,
                               left |-> @.left]]
  /\ UNCHANGED <<procVars, queueVars, cur, mutex, trackMbox, deviceVars>>

Transfer(u) ==
  /\ Goto(u, "sector", "xferWait")
  /\ job[u].left > 0 /\ job[u].reg1 # TrackSize
  /\ Send(mutex, u)
  /\ DeviceOutput(u, job[u].op, job[u].reg1)
  /\ UNCHANGED <<procVars, queueVars, cur, job, trackMbox, devMbox, globaldisk,
                 moved>>

\* Mutant: waitDevice is forgotten.
TransferDoneEarly(u) ==
  /\ Goto(u, "xferWait", "sector")
  /\ Recv(mutex, u)
  /\ job' = [job EXCEPT ![u] = [op |-> @.op, track |-> @.track, reg1 |-> @.reg1 + 1,
                               left |-> @.left - 1]]
  /\ UNCHANGED <<procVars, queueVars, cur, trackMbox, deviceVars>>

TransferDone(u) ==
  /\ Goto(u, "xferWait", "sector")
  /\ WaitDevice(u)
  /\ Recv(mutex, u)
  /\ job' = [job EXCEPT ![u] = [op |-> @.op, track |-> @.track, reg1 |-> @.reg1 + 1,
                               left |-> @.left - 1]]
  /\ UNCHANGED <<procVars, queueVars, cur, trackMbox, dev, globaldisk, moved>>

AllMoved(u) ==
  /\ Goto(u, "sector", "unlink")
  /\ job[u].left <= 0
  /\ Send(qLock, u)
  /\ UNCHANGED <<procVars, head, diskMbox, cur, job, mutex, trackMbox, deviceVars>>

\* Mutant: the removed row keeps its next.
UnlinkKeepNext(u) ==
  /\ Goto(u, "unlink", "post")
  /\ head' = [head EXCEPT ![u] = next[head[u]]]
  /\ Recv(qLock, u)
  /\ UNCHANGED <<procVars, diskMbox, cur, job, mutex, trackMbox, deviceVars>>

Unlink(u) ==
  /\ Goto(u, "unlink", "post")
  /\ head' = [head EXCEPT ![u] = next[head[u]]]
  /\ next' = [next EXCEPT ![cur[u]] = NULL]
  /\ Recv(qLock, u)
  /\ UNCHANGED <<pc, req, mboxID, ret, diskMbox, cur, job, mutex, trackMbox,
                 deviceVars>>

\* Mutant: one request is served for each wake-up.
PostAndSleep(u) ==
  /\ Goto(u, "post", "idle")
  /\ Send(mboxID, cur[u])
  /\ UNCHANGED <<pc, req, next, ret, queueVars, cur, job, mutex, trackMbox,
                 deviceVars>>

Post(u) ==
  /\ Goto(u, "post", "scan")
  /\ Send(mboxID, cur[u])
  /\ UNCHANGED <<pc, req, next, ret, queueVars, cur, job, mutex, trackMbox,
                 deviceVars>>

-----------------------------------------------------------------------------
Start(p) == \E c \in Request : StartIO(p, c) \/ RejectIO(p, c) \/ StartSize(p, c)

Handler(p) == FinishSize(p) \/ Insert(p) \/ Wake(p) \/ Return(p)

Daemon(u) ==
  \/ Boot(u) \/ BootDone(u) \/ Awake(u) \/ QueueEmpty(u) \/ TakeHead(u)
  \/ Seek(u) \/ SeekDone(u) \/ NextTrack(u) \/ Transfer(u) \/ TransferDone(u)
  \/ Unlink(u) \/ Post(u)

Next ==
  \/ \E p \in Proc : Start(p) \/ Handler(p) \/ LockQueue(p)
  \/ \E u \in Unit : Daemon(u) \/ AllMoved(u) \/ DeviceDone(u)

Spec == Init /\ [][Next]_vars

(* A process or daemon that can run does run, the device answers, and the  *)
(* queue lock is handed to its waiters in order: strong fairness for those *)
(* who take it.  No process has to make a call.                            *)
Fairness ==
  /\ \A p \in Proc : WF_vars(Handler(p)) /\ SF_vars(LockQueue(p))
  /\ \A u \in Unit : /\ WF_vars(Daemon(u)) /\ WF_vars(DeviceDone(u))
                     /\ SF_vars(AllMoved(u))

FairSpec == Spec /\ Fairness

-----------------------------------------------------------------------------
(* Properties. *)

(* Every variable keeps the shape of the C object it stands for. *)
ProcType ==
  /\ pc \in [Proc -> PC]
  /\ req \in [Proc -> Request \cup {NoCall}]
  /\ next \in [Proc -> Proc \cup {NULL}]
  /\ mboxID \in [Proc -> 0..1]
  /\ ret \in [Proc -> [code : {0, -1}, out : Int]]

QueueType ==
  /\ head \in [Unit -> Proc \cup {NULL}]
  /\ qLock \in [Unit -> 0..1]
  /\ diskMbox \in [Unit -> 0..1]
  /\ trackMbox \in [Unit -> 0..1]

DaemonType ==
  /\ dpc \in [Unit -> DaemonPC]
  /\ cur \in [Unit -> Proc \cup {NULL}]
  /\ job \in [Unit -> Job]
  /\ mutex \in [Unit -> 0..1]

DeviceType ==
  /\ dev \in [Unit -> Device]
  /\ devMbox \in [Unit -> {"none", "ready", "error"}]
  /\ globaldisk \in Int
  /\ moved \in [Proc -> Seq(Int)]

TypeOK == ProcType /\ QueueType /\ DaemonType /\ DeviceType

(* The processes between LockQueue and Insert, on disk u. *)
Inserting(u) == {p \in Proc : pc[p] = "insert" /\ UnitOf(req[p]) = u}

(* Two handlers never change a disk's queue together, nor a handler and    *)
(* the daemon: disk0Q and disk1Q are locks, though nobody owns a message.  *)
LockExclusion ==
  \A u \in Unit :
    /\ \A p, q \in Inserting(u) : p = q
    /\ dpc[u] = "unlink" => Inserting(u) = {}

(* The processes whose request for disk u has been queued and not yet      *)
(* taken out by the daemon.                                                *)
Queued(u) ==
  {p \in Proc : /\ pc[p] \in {"wake", "wait"} /\ UnitOf(req[p]) = u
                /\ mboxID[p] = 0
                /\ ~(dpc[u] = "post" /\ cur[u] = p)}

Linked(u) == IF head[u] = NULL THEN {} ELSE Walked(head[u], Proc)

(* The list of each disk holds exactly its outstanding requests and ends:  *)
(* no insertion or removal loses a request, links one twice, or leaves the *)
(* stale next that diskQueueHelper's append would run into.                *)
QueueExact ==
  /\ \A u \in Unit :
       /\ Linked(u) = Queued(u)
       /\ Linked(u) # {} => \E p \in Linked(u) : next[p] = NULL
  /\ \A p \in Proc : next[p] # NULL => \E u \in Unit : p \in Queued(u)

Serving(u) == dpc[u] \in {"seek", "seekWait", "sector", "xferWait", "unlink"}

(* What the daemon works on stays the head of the list while requests come *)
(* in, so the row it unlinks is the row it served; and every locked update *)
(* of the disk is made by the daemon alone.                                *)
HeadIsServed ==
  \A u \in Unit : Serving(u) => /\ cur[u] \in Proc /\ head[u] = cur[u]
                                /\ job[u].op = req[cur[u]].op

(* The daemon does not go to sleep on a request: if its queue has one, its *)
(* mailbox holds a message or a handler is about to put one there.         *)
NoLostWakeup ==
  \A u \in Unit :
    dpc[u] = "idle" /\ head[u] # NULL =>
      diskMbox[u] = 1 \/ \E p \in Queued(u) : pc[p] = "wake"

(* The request and its answer stay paired: the daemon waits exactly while  *)
(* the disk is working or its status is posted, never both, so no request  *)
(* is refused as busy and no status is lost.                               *)
AnswersPaired ==
  \A u \in Unit :
    IF dpc[u] \in {"bootWait", "seekWait", "xferWait"}
    THEN dev[u].busy <=> devMbox[u] = "none"
    ELSE ~dev[u].busy /\ devMbox[u] = "none"

(* The processes with a read or write of disk u under way. *)
Callers(u) ==
  {p \in Proc : /\ pc[p] \in {"lock", "insert", "wake", "wait"}
                /\ UnitOf(req[p]) = u}

(* The walks of diskQueueHelper, from any row of the list, come to a stop. *)
WalksEnd(u) ==
  \A x \in Linked(u) : \A P \in SUBSET Proc : WalkEnd(x, P) # {}

(* What the next step of a caller and of the daemon waits for. *)
CallerFree(p, u) ==
  \/ pc[p] = "lock" /\ qLock[u] = 0
  \/ pc[p] = "insert" /\ qLock[u] = 1 /\ WalksEnd(u)
  \/ pc[p] = "wake"
  \/ pc[p] = "wait" /\ mboxID[p] = 1

DaemonFree(u) ==
  \/ dpc[u] \in {"boot", "scan"}
  \/ dpc[u] = "bootWait" /\ devMbox[u] # "none" /\ trackMbox[u] = 0
  \/ dpc[u] = "idle" /\ diskMbox[u] = 1
  \/ dpc[u] = "seek" /\ mutex[u] = 0
  \/ dpc[u] \in {"seekWait", "xferWait"} /\ devMbox[u] # "none" /\ mutex[u] = 1
  \/ dpc[u] = "sector" /\ IF job[u].left <= 0 THEN qLock[u] = 0
                          ELSE job[u].reg1 = TrackSize \/ mutex[u] = 0
  \/ dpc[u] = "unlink" /\ qLock[u] = 1
  \/ dpc[u] = "post" /\ mboxID[cur[u]] = 0

(* Those who use a disk never all wait for each other: while a read or     *)
(* write is under way, one of its callers, its daemon or the disk itself   *)
(* can take its next step.                                                 *)
NobodyStuck ==
  \A u \in Unit : Callers(u) # {} =>
    \/ dev[u].busy \/ DaemonFree(u)
    \/ \E p \in Callers(u) : CallerFree(p, u)

(* The sectors that a call asks for, in order. *)
Expected(c) == [i \in 1..c.sectors |-> c.track * TrackSize + c.first + i - 1]

(* The call stays on the disk. *)
InRange(c) ==
  /\ c.track \in 0..NumTracks[UnitOf(c)] - 1
  /\ c.first \in 0..TrackSize - 1
  /\ c.track * TrackSize + c.first + c.sectors <= NumTracks[UnitOf(c)] * TrackSize

(* A process is released when its own sectors, all of them and in order,   *)
(* have been moved, and not before, whoever else used the disk meanwhile.  *)
CompletionExact ==
  \A p \in Proc :
    mboxID[p] = 1 => /\ pc[p] \in {"wake", "wait"}
                     /\ InRange(req[p]) => moved[p] = Expected(req[p])

(* A released process's row is out of the list and out of the daemon's     *)
(* hands, so its next call may overwrite it.                               *)
RowFree ==
  \A p \in Proc : pc[p] \in {"user", "lock", "insert", "size"} =>
    /\ mboxID[p] = 0 /\ next[p] = NULL
    /\ \A u \in Unit : /\ head[u] # p
                       /\ Serving(u) \/ dpc[u] = "post" => cur[u] # p
    /\ \A q \in Proc : next[q] # p

(* Once no new call is made, every started read and write returns.  While  *)
(* calls go on, those for the arm's own track can keep it there.           *)
ServedWhenQuiet ==
  <>[][~\E p \in Proc : Start(p)]_vars =>
    <>[](\A p \in Proc : pc[p] \in {"user", "size"})

-----------------------------------------------------------------------------
(* What the documentation and the tests say, which the code does not do.   *)

(* phase4.c:333-335: DiskSize "queries the size of a given disk".  The     *)
(* tracks it returns are those of the disk it was asked about.             *)
SizeIsOwn ==
  \A p \in Proc : pc[p] = "user" /\ req[p].op = "size" =>
                    ret[p].out = NumTracks[UnitOf(req[p])]

(* phase4_usermode.c:186: DiskSize returns, with 0 or -1. *)
SizeReturns == \A p \in Proc : pc[p] = "size" ~> pc[p] = "user"

(* phase4_usermode.c:115-118: "completion status", and "0 means success";  *)
(* test15.c:34-35: what the disk could not do has "a bad status".  A read  *)
(* or write that returns 0, with status 0, has moved its sectors.  (It says*)
(* nothing of a call that returns -1: see TooHigh in DiskTests.)           *)
StatusTells ==
  \A p \in Proc :
    pc[p] = "user" /\ req[p].op \in DiskOp /\ ret[p] = [code |-> 0, out |-> 0] =>
      moved[p] = Expected(req[p])
=============================================================================
