------------------------------ MODULE DiskTests ------------------------------
(***************************************************************************)
(* The disk system of module Disk under the test programs of src/          *)
(* testcases that use the disks: 09 to 16, 18, 24, and the disk children   *)
(* of 23.  They run on disks of the real size, on the dispatcher of module *)
(* Users, with the data that is written and read back.                     *)
(*                                                                         *)
(* A program is a sequence of statements.  A disk call has its arguments,  *)
(* and the sectors that it writes or that the test expects it to read.     *)
(***************************************************************************)
EXTENDS Disk, TLC

CONSTANTS Tests,  \* the test programs
          Slow    \* those that are also run when tasks are slow

VARIABLES
  test,            \* the number of the test program
  forked, life, line, fast, readyQ,
  store,           \* what is on the disks: <<unit, sector>> to data
  copy,            \* the sectors that each process's latest call has read
  diskSize         \* start4's variable, which DiskSize sets

Kids == <<"k1", "k2", "k3", "k4", "k5", "k6", "k7", "k8">>
Daemons == <<"Disk Driver 0", "Disk Driver 1">>
Driver(u) == Daemons[u + 1]
\* Mutant: the drivers are below init.
LowPriority == 7

DriverPriority == 2 \* of each daemon
U == INSTANCE Users

userVars == <<forked, life, line>>
testVars == <<test, userVars, fast, readyQ, store, copy, diskSize>>
allVars == <<vars, testVars>>

-----------------------------------------------------------------------------
(* The wrappers of phase4_usermode.c. *)

Io(op, data, unit, track, first, sectors) ==
  <<[do |-> "call", data |-> data,
     call |-> [op |-> op, unit |-> unit, track |-> track, first |-> first,
               sectors |-> sectors]]>>

DiskRead(buf, unit, track, first, sectors) ==
  Io("read", buf, unit, track, first, sectors)
DiskWrite(buf, unit, track, first, sectors) ==
  Io("write", buf, unit, track, first, sectors)
DiskSize(unit) == Io("size", <<>>, unit, 0, 0, 0)

-----------------------------------------------------------------------------
(* The test programs. *)

Texts == <<"This is a test", "Does it work?", "One last chance">>
Changed == <<"something different", "another change", "one last change">>
XXbuf == <<"flew East", "flew West", "coo-coo's nest", "did it work?">>

test09 == DiskSize(0) \o DiskSize(1)

test10 ==
  test09 \o DiskWrite(<<"A wonderful message">>, 0, 5, 0, 1)
         \o DiskRead(<<"A wonderful message">>, 0, 5, 0, 1)

test11 ==
  DiskWrite(Texts, 0, 4, 2, 3) \o DiskRead(Texts, 0, 4, 2, 3) \o
  DiskWrite(Texts, 1, 4, 2, 3) \o DiskRead(Texts, 1, 4, 2, 3)

\* sectors[i] = (i % 13) * 3456: the three sectors begin at different i % 13.
test12 ==
  LET sectors == <<"i % 13 from 0", "from 5", "from 10">>
  IN  DiskWrite(sectors, 0, 4, 2, 3) \o DiskRead(sectors, 0, 4, 2, 3) \o
      DiskWrite(sectors, 1, 4, 2, 3) \o DiskRead(sectors, 1, 4, 2, 3)

test13 ==
  DiskWrite(Texts, 0, 4, 15, 3) \o
  DiskWrite(<<Texts[1]>>, 1, 4, 15, 1) \o DiskWrite(<<Texts[2]>>, 1, 5, 0, 1) \o
  DiskWrite(<<Texts[3]>>, 1, 5, 1, 1) \o DiskRead(Texts, 0, 4, 15, 3) \o
  DiskWrite(Changed, 1, 4, 15, 3) \o DiskRead(Changed, 1, 4, 15, 3)

(* A test whose start4 spawns children is the sequence of their programs.  *)
(* Those of test14 write sector t % 4 of track t % 4 of disk 1.            *)
ubiq14(t) == DiskWrite(<<XXbuf[(t % 4) + 1]>>, 1, t % 4, t % 4, 1)

tracks14 ==
  <<<<0, 3, 0, 5, 0, 5, 0>>, <<5, 4, 1, 6, 1, 6, 1>>,
    <<9, 9, 2, 7, 2, 7, 2>>, <<2, 9, 3, 8, 3, 8, 3>>>>

test14 == [k \in 1..4 |-> U!Concat([i \in 1..7 |-> ubiq14(tracks14[k][i])])]

ReadBack ==
  U!Concat([j \in 1..4 |-> DiskRead(<<XXbuf[j]>>, 1, j - 1, j - 1, 1)])

(* An invalid unit, an invalid sector, and a track that is too high. *)
test15 ==
  DiskWrite(<<"buffer">>, 3, 1, 1, 1) \o DiskWrite(<<"buffer">>, 0, 1, 17, 1) \o
  DiskWrite(<<"buffer">>, 0, 1776, 1, 1)

tracks16 == <<5, 3, 9, 0, 7, 2, 1, 6>>
ubiq16(t) == DiskWrite(<<XXbuf[(t % 4) + 1]>>, 1, t, 4, 1)
test16 == [k \in 1..8 |-> ubiq16(tracks16[k])]

tracks18 == <<<<0, 5>>, <<0, 3>>, <<0, 9>>, <<1, 4>>, <<1, 2>>, <<1, 8>>>>
ubiq18(unit, t) == DiskWrite(<<XXbuf[(t % 4) + 1]>>, unit, t, 4, 1)
test18 == [k \in 1..6 |-> ubiq18(tracks18[k][1], tracks18[k][2])]

\* ChildDW0, ChildDW1, ChildDR0, ChildDR1
test23 ==
  <<DiskWrite(<<"ChildDW0">>, 0, 5, 0, 1), DiskWrite(<<"ChildDW1">>, 1, 5, 0, 1),
    DiskRead(<<"ChildDW0">>, 0, 5, 0, 1), DiskRead(<<"ChildDW1">>, 1, 5, 0, 1)>>

test24 ==
  DiskSize(1) \o
  U!Concat([t \in 1..diskSize |-> DiskWrite(<<ToString(t - 1)>>, 1, t - 1, 0, 1)])

Children ==
  CASE test = 14 -> test14 [] test = 16 -> test16 [] test = 18 -> test18
    [] test = 23 -> test23 [] OTHER -> <<>>

Spawning == U!SpawnAndWait(SubSeq(Kids, 1, Len(Children)))

Start4 ==
  CASE test = 9 -> test09 [] test = 10 -> test10 [] test = 11 -> test11
    [] test = 12 -> test12 [] test = 13 -> test13
    [] test = 14 -> Spawning \o ReadBack
    [] test = 15 -> test15 [] test = 24 -> test24
    [] OTHER -> Spawning

Number(p) == CHOOSE k \in 1..Len(Kids) : Kids[k] = p
Program(p) == IF p = U!Root THEN Start4 ELSE Children[Number(p)]

ChildPriority(c) ==
  CASE test = 14 -> 4 [] test = 23 -> IF Number(c) > 2 THEN 4 ELSE 2 [] OTHER -> 1

Priority(t) ==
  CASE t = U!InitProc -> 6
    [] t = U!Root -> 3
    [] \E u \in Unit : t = Driver(u) -> DriverPriority
    [] OTHER -> ChildPriority(t)

-----------------------------------------------------------------------------
TestInit ==
  /\ Init /\ U!Init
  /\ test \in Tests /\ (test \in Slow \/ fast)
  /\ store = <<>>
  /\ copy = [p \in Proc |-> <<>>]
  /\ diskSize = 0

InProgram(p) == pc[p] = "user" /\ U!InProgram(p, Program(p))

(* One step of a process: a system call of phase 3, one of a disk from its *)
(* beginning to its end, or what comes after the last statement.           *)
Phase3(p) ==
  /\ pc[p] = "user" /\ U!Phase3(p, Program(p), Proc \ {p})
  /\ UNCHANGED <<vars, copy, diskSize>>

Begin(p) ==
  /\ InProgram(p)
  /\ LET s == Program(p)[line[p]]
     IN  /\ s.do = "call"
         /\ StartIO(p, s.call) \/ StartSize(p, s.call)
  /\ copy' = [copy EXCEPT ![p] = <<>>]
  /\ UNCHANGED <<userVars, diskSize>>

Refuse(p) ==
  /\ InProgram(p)
  /\ LET s == Program(p)[line[p]] IN s.do = "call" /\ RejectIO(p, s.call)
  /\ U!NextLine(p)
  /\ UNCHANGED <<forked, life, copy, diskSize>>

End(p) ==
  /\ \/ Return(p) /\ UNCHANGED diskSize
     \/ FinishSize(p) /\ diskSize' = globaldisk
  /\ U!NextLine(p)
  /\ UNCHANGED <<forked, life, copy>>

ProcStep(p) ==
  \/ Phase3(p) \/ Begin(p) \/ Refuse(p) \/ End(p)
  \/ /\ LockQueue(p) \/ Insert(p) \/ Wake(p)
     /\ UNCHANGED <<userVars, copy, diskSize>>

DriverStep(u) ==
  /\ U!Forked(Driver(u))
  /\ Daemon(u) \/ AllMoved(u)
  /\ UNCHANGED <<userVars, copy, diskSize>>

InitStep ==
  /\ U!Fork \/ U!ForkStart4({})
  /\ UNCHANGED <<vars, copy, diskSize>>

TaskStep(t) ==
  \/ t = U!InitProc /\ InitStep
  \/ t \in Proc /\ ProcStep(t)
  \/ \E u \in Unit : t = Driver(u) /\ DriverStep(u)

(* The tasks that are not blocked. *)
ProcReady(p) ==
  CASE pc[p] = "lock" -> qLock[UnitOf(req[p])] = 0
    [] pc[p] = "wait" -> mboxID[p] = 1
    [] pc[p] = "size" -> trackMbox[UnitOf(req[p])] = 1
    [] pc[p] \in {"insert", "wake"} -> TRUE
    [] OTHER -> U!Runnable(p, Program(p), Proc \ {p})

DriverReady(u) ==
  /\ U!Forked(Driver(u))
  /\ CASE dpc[u] \in {"bootWait", "seekWait", "xferWait"} -> devMbox[u] # "none"
       [] dpc[u] = "idle" -> diskMbox[u] = 1
       [] dpc[u] = "sector" -> job[u].left <= 0 => qLock[u] = 0
       [] OTHER -> TRUE

Ready ==
  {p \in Proc : ProcReady(p)}
  \cup {Driver(u) : u \in {v \in Unit : DriverReady(v)}}
  \cup (IF U!MayFork THEN {U!InitProc} ELSE {})

(* A transfer moves the data of one sector, from or to where the caller's  *)
(* buffer is during its call.                                              *)
Buffer(p, i) ==
  LET data == IF pc[p] = "user" THEN <<>> ELSE Program(p)[line[p]].data
  IN  IF i \in DOMAIN data THEN data[i] ELSE "other data"

Contents(a) == IF a \in DOMAIN store THEN store[a] ELSE "zeros"

Complete(u) ==
  LET p == cur[u]
      a == <<u, dev[u].arm * TrackSize + dev[u].reg1>>
      i == Len(moved[p]) + 1
  IN  /\ DeviceDone(u)
      /\ store' = IF dev[u].busy /\ dev[u].op = "write"
                  THEN (a :> Buffer(p, i)) @@ store ELSE store
      /\ copy' = IF dev[u].busy /\ dev[u].op = "read"
                 THEN [copy EXCEPT ![p] = Append(@, Contents(a))] ELSE copy
      /\ UNCHANGED <<userVars, diskSize>>

TestNext ==
  /\ ~U!Ended /\ UNCHANGED test
  /\ \E ready \in {Ready} :
       \/ \E t \in ready : /\ U!Dispatch(t, ready, [q \in ready |-> Priority(q)])
                           /\ TaskStep(t) /\ UNCHANGED store
       \/ /\ U!MayInterrupt(ready)
          /\ \E u \in Unit : Complete(u)
  /\ U!Requeue(Ready')

TestSpec == TestInit /\ [][TestNext]_allVars /\ WF_allVars(TestNext)

-----------------------------------------------------------------------------
(* Properties. *)

(* The statements of p that have been carried out. *)
Past(p) == 1..line[p] - 1

(* The disk calls that have returned last, one of each process at most. *)
Returned ==
  {p \in Proc : pc[p] = "user" /\ line[p] > 1 /\ Program(p)[line[p] - 1].do = "call"}
Latest(p) == Program(p)[line[p] - 1]

(* test15.c:37-40 expects 0 and an error status for a track that is too    *)
(* high; the code refuses it with -1 (phase4.c:419-422).                   *)
TooHigh(c) == c.op = "write" /\ c.unit \in Unit /\ c.track >= NumTracks[c.unit]

(* Reads and writes, except the one that is TooHigh, return what the tests *)
(* print or compare: 0, or -1 for the invalid arguments of test15, and the *)
(* data that was written.  If tasks are fast, the first size that a test   *)
(* asks for is that disk's, though the drivers' queries are still under    *)
(* way.  Not all sizes are: test09.out:3-4 and test10.out:3-4 print 16 for *)
(* unit 0 and 32 for unit 1, which the code does not keep to (SizeIsOwn).  *)
ResultsAsTested ==
  \A p \in Returned :
    LET c == Latest(p).call
    IN  /\ TooHigh(c) \/ ret[p].code = IF test = 15 THEN -1 ELSE 0
        /\ c.op = "read" => copy[p] = Latest(p).data
        /\ c.op = "size" /\ fast /\ line[p] = 2 => ret[p].out = NumTracks[c.unit]

(* What is on the disks at the end of a test is what its calls wrote, each *)
(* sector at its place, and no older call of a process over a newer one.   *)
Written(p, k) ==
  LET s == Program(p)[k]
  IN  IF s.do = "call" /\ s.call.op = "write" /\ Accepted(s.call)
      THEN {<<<<s.call.unit, Expected(s.call)[i]>>, s.data[i]>> :
              i \in 1..s.call.sectors}
      ELSE {}

DataInPlace ==
  U!Ended =>
    \A p \in Proc : \A k \in Past(p) : \A w \in Written(p, k) :
      \E q \in Proc : \E j \in Past(q) :
        /\ q = p => j >= k
        /\ <<w[1], Contents(w[1])>> \in Written(q, j)

(* test16.out and test18.out: the requests that came while the arm was on  *)
(* track 5 (and 4, on disk 1) are served upwards from there, then from 0.  *)
Orders ==
  CASE test = 16 -> {<<"k1", "k8", "k5", "k3", "k4", "k7", "k6", "k2">>}
    [] test = 18 -> {<<"k1", "k3", "k2">>, <<"k4", "k6", "k5">>}
    [] OTHER -> {}

Over(p) == mboxID[p] = 1 \/ line[p] > 1

ServiceOrder ==
  fast => \A o \in Orders : \A i, j \in DOMAIN o : i < j /\ Over(o[j]) => Over(o[i])

(* phase4.c:183-193: each driver has its own unit: init, which is below    *)
(* them, has not yet gone on when they read the buffer they share.         *)
OwnUnit ==
  [][\A u \in Unit : dpc[u] = "boot" /\ dpc'[u] # "boot" =>
                        U!ArgumentIs(Driver(u))]_allVars

(* Every test comes to its end: nobody waits for ever. *)
TestEnds == <>U!Ended
=============================================================================
