------------------------------- MODULE Sleep --------------------------------
(***************************************************************************)
(* The Sleep system call and the clock daemon of src/phase4.c.             *)
(*                                                                         *)
(* Sleepers are rows of sleepRequestsTable, linked by next from            *)
(* sleepRequests; the daemon walks the list each time the clock device has *)
(* an answer and posts to the mailbox of every row that is due.  Time is   *)
(* counted in units of which Second make a second; currentTime wraps round *)
(* as the int that it is.                                                  *)
(***************************************************************************)
EXTENDS Integers, FiniteSets

CONSTANTS Proc, NULL,
          Rows,      \* MAXPROC, the rows of the table
          Seconds,   \* the arguments a process may pass
          Second,    \* units of time in a second
          Period,    \* units of time between two answers of the clock
          IntSpan,   \* the values of an int: 2^32 in the program
          MaxTime,   \* bound on the time that passes
          MaxSleeps  \* bound on the accepted calls

Before == -1 \* the memory in front of the table, where row -1 would be
Row == Before..Rows - 1
Box == 1..MaxSleeps

ASSUME SleepNull == NULL \notin Row
ASSUME SleepNumbers ==
  /\ Rows \in Nat \ {0} /\ Second \in Nat \ {0} /\ Period \in Nat \ {0}
  /\ IntSpan \in Nat \ {0} /\ MaxTime \in Nat /\ MaxSleeps \in Nat
  /\ Seconds \subseteq Int

VARIABLES
  now,        \* the time since the start
  clockMbox,  \* 1 when the clock device has an answer for waitDevice
  status, wakeUpTime, next, mutex, \* the fields of each row
  sleepRequests, curSleeperIdx,
  box,        \* the mailboxes made so far: 1 when its slot holds a message
  made,       \* how many of them there are
  pc,         \* "user", or "asleep" in MboxRecv
  waitsOn,    \* the mailbox in which a process waits, else 0
  until,      \* history: the time at which its sleep is over, else 0
  ret,        \* what its latest call returned in arg4
  dpc, proc   \* where the daemon is, and its pointer into the list

clockVars == <<now, clockMbox>>
rowVars == <<status, wakeUpTime, next, mutex>>
callVars == <<pc, waitsOn, until, ret>>
daemonVars == <<dpc, proc>>
vars == <<clockVars, rowVars, sleepRequests, curSleeperIdx, box, made, callVars,
          daemonVars>>

Init ==
  /\ now = 0 /\ clockMbox = 0
  /\ status = [r \in Row |-> "FREE"]
  /\ wakeUpTime = [r \in Row |-> 0]
  /\ next = [r \in Row |-> NULL]
  /\ mutex = [r \in Row |-> 0]
  /\ sleepRequests = NULL
  /\ curSleeperIdx = 0
  /\ box = [b \in Box |-> 0]
  /\ made = 0
  /\ pc = [p \in Proc |-> "user"]
  /\ waitsOn = [p \in Proc |-> 0]
  /\ until = [p \in Proc |-> 0]
  /\ ret = [p \in Proc |-> 0]
  /\ dpc = "wait"
  /\ proc = NULL

(* An int holds the low bits of the time: it jumps from its greatest value *)
(* to its least.                                                           *)
AsInt(t) == ((t + IntSpan \div 2) % IntSpan) - IntSpan \div 2
currentTime == AsInt(now)

\* Mutant: the sum is an int too.
WakeTimeInt(s) == AsInt(currentTime + s * Second)

(* The sum is a long, which has room for it. *)
WakeTime(s) == currentTime + s * Second

(* getNextSleeper: the first free row from curSleeperIdx on, else -1.      *)
(* curSleeperIdx is kept modulo Rows, as every use of it takes it.         *)
getNextSleeper ==
  LET nth(k) == (curSleeperIdx + k) % Rows
      free == {k \in 0..Rows - 1 : status[nth(k)] = "FREE"}
  IN  IF free = {} THEN Before
      ELSE nth(CHOOSE k \in free : \A j \in free : k <= j)

-----------------------------------------------------------------------------
(* Up to its MboxRecv the handler runs with interrupts off: one step. *)

\* Mutant: the new row becomes the list without the old list behind it.
PushAlone(r) == sleepRequests' = r /\ UNCHANGED next

\* Mutant: the new row is put behind the first one.
PushBehind(r) ==
  IF sleepRequests = NULL
  THEN sleepRequests' = r /\ UNCHANGED next
  ELSE next' = [next EXCEPT ![sleepRequests] = r] /\ UNCHANGED sleepRequests

Push(r) ==
  /\ next' = IF sleepRequests = NULL THEN next ELSE [next EXCEPT ![r] = sleepRequests]
  /\ sleepRequests' = r

(* A full table gives row -1, which is written all the same.  What the     *)
(* build keeps there is not known: it is taken as memory of no other use.  *)
StartSleep(p, s) ==
  /\ pc[p] = "user" /\ s >= 0 /\ made < MaxSleeps
  /\ LET r == getNextSleeper
     IN  /\ wakeUpTime' = [wakeUpTime EXCEPT ![r] = WakeTime(s)]
         /\ mutex' = [mutex EXCEPT ![r] = made + 1]
         /\ status' = [status EXCEPT ![r] = "ASLEEP"]
         /\ Push(r)
         /\ curSleeperIdx' = IF r = Before THEN curSleeperIdx ELSE r
  /\ made' = made + 1
  /\ pc' = [pc EXCEPT ![p] = "asleep"]
  /\ waitsOn' = [waitsOn EXCEPT ![p] = made + 1]
  /\ until' = [until EXCEPT ![p] = now + s * Second]
  /\ UNCHANGED <<clockVars, box, ret, daemonVars>>

RejectSleep(p, s) ==
  /\ pc[p] = "user" /\ s < 0
  /\ ret' = [ret EXCEPT ![p] = -1]
  /\ UNCHANGED <<clockVars, rowVars, sleepRequests, curSleeperIdx, box, made, pc,
                 waitsOn, until, daemonVars>>

EndSleep(p) ==
  /\ pc[p] = "asleep" /\ box[waitsOn[p]] = 1
  /\ box' = [box EXCEPT ![waitsOn[p]] = 0]
  /\ pc' = [pc EXCEPT ![p] = "user"]
  /\ waitsOn' = [waitsOn EXCEPT ![p] = 0]
  /\ until' = [until EXCEPT ![p] = 0]
  /\ ret' = [ret EXCEPT ![p] = 0]
  /\ UNCHANGED <<clockVars, rowVars, sleepRequests, curSleeperIdx, made, daemonVars>>

-----------------------------------------------------------------------------
(* Time, and the clock device: an answer that is not taken is replaced. *)

\* Mutant: the answers that are not taken are kept.
TimePassesKept ==
  /\ now < MaxTime
  /\ now' = now + 1
  /\ clockMbox' = IF now' % Period = 0 THEN clockMbox + 1 ELSE clockMbox
  /\ UNCHANGED <<rowVars, sleepRequests, curSleeperIdx, box, made, callVars,
                 daemonVars>>

TimePasses ==
  /\ now < MaxTime
  /\ now' = now + 1
  /\ clockMbox' = IF now' % Period = 0 THEN 1 ELSE clockMbox
  /\ UNCHANGED <<rowVars, sleepRequests, curSleeperIdx, box, made, callVars,
                 daemonVars>>

-----------------------------------------------------------------------------
(* The daemon.  It can be interrupted between any two of its steps. *)

StartPass ==
  /\ dpc = "wait" /\ clockMbox = 1
  /\ clockMbox' = 0
  /\ proc' = sleepRequests
  /\ dpc' = "visit"
  /\ UNCHANGED <<now, rowVars, sleepRequests, curSleeperIdx, box, made, callVars>>

EndPass ==
  /\ dpc = "visit" /\ proc = NULL
  /\ dpc' = "wait"
  /\ UNCHANGED <<clockVars, rowVars, sleepRequests, curSleeperIdx, box, made,
                 callVars, proc>>

\* Mutant: a woken row is due again.
DueAgain(r) == wakeUpTime[r] < currentTime

\* Mutant: the times are compared in whole seconds.
DueRounded(r) ==
  status[r] = "ASLEEP" /\ wakeUpTime[r] \div Second <= currentTime \div Second

\* Mutant: the daemon must look at the very moment.
DueOnTheDot(r) == status[r] = "ASLEEP" /\ wakeUpTime[r] = currentTime

Due(r) == status[r] = "ASLEEP" /\ wakeUpTime[r] < currentTime

PassOver ==
  /\ dpc = "visit" /\ proc # NULL /\ ~Due(proc)
  /\ dpc' = "advance"
  /\ UNCHANGED <<clockVars, rowVars, sleepRequests, curSleeperIdx, box, made,
                 callVars, proc>>

Rouse ==
  /\ dpc = "visit" /\ proc # NULL /\ Due(proc)
  /\ status' = [status EXCEPT ![proc] = "AWAKE"]
  /\ dpc' = "post"
  /\ UNCHANGED <<clockVars, wakeUpTime, next, mutex, sleepRequests, curSleeperIdx,
                 box, made, callVars, proc>>

PostSleeper ==
  /\ dpc = "post" /\ box[mutex[proc]] = 0
  /\ box' = [box EXCEPT ![mutex[proc]] = 1]
  /\ dpc' = "advance"
  /\ UNCHANGED <<clockVars, rowVars, sleepRequests, curSleeperIdx, made, callVars,
                 proc>>

Advance ==
  /\ dpc = "advance"
  /\ proc' = next[proc]
  /\ dpc' = "visit"
  /\ UNCHANGED <<clockVars, rowVars, sleepRequests, curSleeperIdx, box, made,
                 callVars>>

Daemon == StartPass \/ EndPass \/ PassOver \/ Rouse \/ PostSleeper \/ Advance

Next ==
  \/ \E p \in Proc : \/ \E s \in Seconds : StartSleep(p, s) \/ RejectSleep(p, s)
                     \/ EndSleep(p)
  \/ TimePasses
  \/ Daemon

Spec == Init /\ [][Next]_vars

(* Time goes on, the daemon runs when it can, a woken process returns. *)
FairSpec ==
  /\ Spec
  /\ WF_vars(TimePasses) /\ WF_vars(Daemon)
  /\ \A p \in Proc : WF_vars(EndSleep(p))

-----------------------------------------------------------------------------
(* Properties. *)

(* Every variable keeps the shape of the C object it stands for. *)
TypeOK ==
  /\ now \in 0..MaxTime /\ clockMbox \in 0..1
  /\ status \in [Row -> {"FREE", "ASLEEP", "AWAKE"}]
  /\ wakeUpTime \in [Row -> Int]
  /\ next \in [Row -> Row \cup {NULL}]
  /\ mutex \in [Row -> Box \cup {0}]
  /\ sleepRequests \in Row \cup {NULL}
  /\ curSleeperIdx \in 0..Rows - 1
  /\ box \in [Box -> 0..1]
  /\ made \in 0..MaxSleeps
  /\ pc \in [Proc -> {"user", "asleep"}]
  /\ waitsOn \in [Proc -> Box \cup {0}]
  /\ until \in [Proc -> Int]
  /\ ret \in [Proc -> {0, -1}]
  /\ dpc \in {"wait", "visit", "post", "advance"}
  /\ proc \in Row \cup {NULL}

(* A message in a mailbox is for a process that still waits there, and     *)
(* whose time is over: nobody is woken early, nor a second time.           *)
WakeExact ==
  \A b \in Box : box[b] = 1 =>
    \E p \in Proc : pc[p] = "asleep" /\ waitsOn[p] = b /\ now > until[p]

(* The rows that the daemon can still come to: those in every set that     *)
(* holds the first and with each row the one after it.                     *)
Linked(S) == /\ sleepRequests # NULL => sleepRequests \in S
             /\ \A r \in S : next[r] # NULL => next[r] \in S

Listed == {r \in Row : \A S \in SUBSET Row : Linked(S) => r \in S}

(* No sleeper is forgotten: its row is in the list and asleep, or it is    *)
(* being posted, or its message is there.                                  *)
SleeperListed ==
  \A p \in Proc : pc[p] = "asleep" =>
    \/ box[waitsOn[p]] = 1
    \/ \E r \in Listed : /\ mutex[r] = waitsOn[p]
                         /\ status[r] = "ASLEEP" \/ (dpc = "post" /\ proc = r)

(* phase4.c:201-202: Sleep "pauses the current process for the specified   *)
(* number of seconds" and "the delay is approximate": it ends, if the      *)
(* bound on time lets it.  A wake-up time is a long and may be past every  *)
(* int, and then it never comes; one that the daemon misses because the    *)
(* clock value wraps round comes again.                                    *)
GreatestInt == IntSpan - 1 - IntSpan \div 2

Comes(p) == \A r \in Row : mutex[r] = waitsOn[p] => wakeUpTime[r] < GreatestInt

Wakes ==
  \A p \in Proc :
    pc[p] = "asleep" /\ until[p] < MaxTime /\ Comes(p) ~> pc[p] = "user"
=============================================================================
