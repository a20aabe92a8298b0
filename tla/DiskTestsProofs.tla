-------------------------- MODULE DiskTestsProofs ---------------------------
(***************************************************************************)
(* Proofs about the disk system under init and the test programs, whatever *)
(* these are: for every size of the disks and every set of processes.      *)
(***************************************************************************)
EXTENDS DiskTests, TLAPS

(* A driver that was forked and has not run yet is the one forked last: it *)
(* is above init, which cannot go on before the driver has.                *)
BootInv ==
  /\ dpc \in [Unit -> DaemonPC] /\ forked \in Nat
  /\ \A u \in Unit : dpc[u] = "boot" /\ U!Forked(Driver(u)) => U!ArgumentIs(Driver(u))

LEMMA InitBoot == TestInit => BootInv
  BY DEF TestInit, Init, U!Init, BootInv, DaemonPC, U!Forked

-----------------------------------------------------------------------------
(* The three kinds of steps: init's, which it takes when nobody above it   *)
(* is ready; a driver's, once it is forked; and the others.                *)
InitTurn ==
  /\ U!InitProc \in Ready /\ \A q \in Ready : Priority(U!InitProc) <= Priority(q)
  /\ forked' = forked + 1 /\ UNCHANGED dpc

DriverTurn(u) ==
  /\ U!Forked(Driver(u)) /\ UNCHANGED forked
  /\ \E c \in DaemonPC \ {"boot"} : dpc' = [dpc EXCEPT ![u] = c]

LEMMA ProcTurn == ASSUME NEW p \in Proc, ProcStep(p) PROVE UNCHANGED <<forked, dpc>>
<1>1. ASSUME Phase3(p) PROVE UNCHANGED <<forked, dpc>>
  <2>1. dpc' = dpc
    BY <1>1 DEF Phase3, vars, daemonVars
  <2>2. U!Phase3(p, Program(p), Proc \ {p})
    BY <1>1 DEF Phase3
  <2>3. forked' = forked
    BY <2>2 DEF U!Phase3, U!Trampoline, U!Spawn, U!Wait, U!Terminate
  <2> QED
    BY <2>1, <2>3
<1>2. ASSUME Begin(p) \/ Refuse(p) PROVE UNCHANGED <<forked, dpc>>
  BY <1>2 DEF Begin, Refuse, StartIO, StartSize, RejectIO, Call, daemonVars, userVars
<1>3. ASSUME End(p) PROVE UNCHANGED <<forked, dpc>>
  BY <1>3 DEF End, Return, FinishSize, daemonVars
<1>4. ASSUME LockQueue(p) \/ Insert(p) \/ Wake(p), UNCHANGED userVars
      PROVE  UNCHANGED <<forked, dpc>>
  BY <1>4 DEF LockQueue, Insert, Wake, daemonVars, userVars
<1> QED
  BY <1>1, <1>2, <1>3, <1>4 DEF ProcStep

LEMMA DriverSteps == ASSUME NEW u \in Unit, DriverStep(u) PROVE DriverTurn(u)
<1>1. U!Forked(Driver(u)) /\ UNCHANGED forked
  BY DEF DriverStep, userVars
<1>2. \E c \in DaemonPC \ {"boot"} : dpc' = [dpc EXCEPT ![u] = c]
  BY DEF DriverStep, Daemon, Boot, BootDone, Awake, QueueEmpty, TakeHead, Seek, SeekDone,
     NextTrack, Transfer, TransferDone, AllMoved, Unlink, Post, Goto, DaemonPC
<1> QED
  BY <1>1, <1>2 DEF DriverTurn

LEMMA Turns ==
  ASSUME [TestNext]_allVars
  PROVE  UNCHANGED <<forked, dpc>> \/ InitTurn \/ \E u \in Unit : DriverTurn(u)
<1>1. ASSUME UNCHANGED allVars PROVE UNCHANGED <<forked, dpc>>
  BY <1>1 DEF allVars, vars, daemonVars, testVars, userVars
<1>2. ASSUME NEW t \in Ready, U!Dispatch(t, Ready, [q \in Ready |-> Priority(q)]), TaskStep(t)
      PROVE  UNCHANGED <<forked, dpc>> \/ InitTurn \/ \E u \in Unit : DriverTurn(u)
  <2>1. ASSUME t = U!InitProc, InitStep PROVE InitTurn
    <3>1. \A q \in Ready : Priority(t) <= Priority(q)
      BY <1>2 DEF U!Dispatch
    <3>2. forked' = forked + 1 /\ UNCHANGED dpc
      BY <2>1 DEF InitStep, U!Fork, U!ForkStart4, vars, daemonVars
    <3> QED
      BY <1>2, <2>1, <3>1, <3>2 DEF InitTurn
  <2> QED
    BY <1>2, <2>1, ProcTurn, DriverSteps DEF TaskStep
<1>3. ASSUME NEW u \in Unit, Complete(u) PROVE UNCHANGED <<forked, dpc>>
  BY <1>3 DEF Complete, DeviceDone, daemonVars, userVars
<1> QED
  BY <1>1, <1>2, <1>3 DEF TestNext

(* Drivers that have not run keep init from forking the next. *)
LEMMA DriverAboveInit ==
  ASSUME NEW u \in Unit, dpc[u] = "boot", U!Forked(Driver(u))
  PROVE  Driver(u) \in Ready /\ ~(Priority(U!InitProc) <= Priority(Driver(u)))
<1>1. Daemons[1] = "Disk Driver 0" /\ Daemons[2] = "Disk Driver 1"
  BY DEF Daemons
<1>2. ASSUME NEW v \in Unit PROVE Driver(v) \in {"Disk Driver 0", "Disk Driver 1"}
  <2>1. v + 1 = 1 \/ v + 1 = 2
    BY UnitAssumption
  <2> QED
    BY <1>1, <2>1 DEF Driver
<1>3. Driver(u) \in Ready
  <2>1. u \in {v \in Unit : DriverReady(v)}
    BY DEF DriverReady
  <2> DEFINE R == {Driver(v) : v \in {w \in Unit : DriverReady(w)}}
  <2>2. Driver(u) \in R
    BY <2>1
  <2>3. R \subseteq Ready
    BY Zenon DEF Ready
  <2> HIDE DEF R
  <2> QED
    BY <2>2, <2>3
<1>4. Priority(U!InitProc) = 6
  <2>1. "init" # U!Root /\ \A v \in Unit : "init" # Driver(v)
    BY <1>2 DEF U!Root
  <2> QED
    BY <2>1 DEF Priority, U!InitProc
<1>5. Priority(Driver(u)) = 2
  BY <1>2 DEF Priority, U!InitProc, U!Root, DriverPriority
<1> QED
  BY <1>3, <1>4, <1>5

LEMMA BootStep == BootInv /\ [TestNext]_allVars => BootInv'
<1> SUFFICES ASSUME BootInv, [TestNext]_allVars PROVE BootInv'
  OBVIOUS
<1>1. CASE UNCHANGED <<forked, dpc>>
  BY <1>1 DEF BootInv, U!Forked, U!ArgumentIs
<1>2. CASE InitTurn
  <2>1. /\ forked \in Nat /\ forked' = forked + 1 /\ UNCHANGED dpc
        /\ \A u \in Unit : ~(dpc[u] = "boot" /\ U!Forked(Driver(u)))
    BY <1>2, DriverAboveInit DEF InitTurn, BootInv
  <2>2. ASSUME NEW u \in Unit, dpc[u] = "boot", U!Forked(Driver(u))'
        PROVE  U!ArgumentIs(Driver(u))'
    BY <2>1, <2>2 DEF U!Forked, U!ArgumentIs
  <2> QED
    BY <2>1, <2>2 DEF BootInv
<1>3. ASSUME NEW v \in Unit, DriverTurn(v) PROVE BootInv'
  BY <1>3 DEF DriverTurn, BootInv, U!Forked, U!ArgumentIs
<1> QED
  BY <1>1, <1>2, <1>3, Turns

(* Each driver reads its own unit in the buffer that all of them are given *)
(* (phase4.c:183-193), though init writes it anew for the next one and     *)
(* leaves it: no driver is ever late.                                      *)
THEOREM DriversOwnUnits == TestSpec => OwnUnit
<1>1. BootInv /\ [TestNext]_allVars =>
        [\A u \in Unit : dpc[u] = "boot" /\ dpc'[u] # "boot" => U!ArgumentIs(Driver(u))]_allVars
  <2> SUFFICES ASSUME BootInv, [TestNext]_allVars, NEW u \in Unit, dpc[u] = "boot", dpc'[u] # "boot"
               PROVE  U!ArgumentIs(Driver(u))
    OBVIOUS
  <2>1. PICK v \in Unit : DriverTurn(v)
    BY Turns DEF InitTurn
  <2>2. v = u
    BY <2>1 DEF DriverTurn, BootInv
  <2> QED
    BY <2>1, <2>2 DEF DriverTurn, BootInv
<1> QED
  BY <1>1, InitBoot, BootStep, PTL DEF TestSpec, OwnUnit
=============================================================================
