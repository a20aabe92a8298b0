----------------------------- MODULE SleepTests ------------------------------
(***************************************************************************)
(* The sleep system of module Sleep under the test programs 00, 01, 02 and *)
(* the sleepers of 23, with the process that ends a test which takes too   *)
(* long.                                                                   *)
(***************************************************************************)
EXTENDS Sleep, Sequences

CONSTANTS Tests,     \* the test programs
          Slow,      \* those that are also run when tasks are slow
          SlowKids,  \* bound on the children then
          SlowTime   \* bound on the time that passes then

VARIABLES
  test,             \* the test program
  forked, life, line, fast, readyQ,
  carg,             \* test02's variable, the argument of all its children
  seconds,          \* the variable of each child that its argument sets
  testcase_timeout

Kids == <<"k0", "k1", "k2", "k3", "k4", "k5", "k6", "k7", "k8", "k9">>
Timeout == "testcase_timeout"
Daemons == <<"SleepHelper">>
U == INSTANCE Users

userVars == <<forked, life, line>>
localVars == <<carg, seconds, testcase_timeout>>
testVars == <<test, userVars, fast, readyQ, localVars>>
allVars == <<vars, testVars>>

-----------------------------------------------------------------------------
(* The test programs. *)

SleepFor(s) == <<[do |-> "sleep", seconds |-> s]>>
SetTimeout(s) == <<[do |-> "timeout", value |-> s]>>
SpawnAndWait(n) == U!SpawnAndWait(SubSeq(Kids, 1, n))

test00 == SleepFor(5)

(* How many of its n children a test has. *)
Bounded(n) == IF fast \/ n < SlowKids THEN n ELSE SlowKids

test01 == SetTimeout(15) \o SpawnAndWait(Bounded(5))
Child01 == SleepFor(10)

(* sprintf writes the next argument over the last one. *)
test02 ==
  LET n == Bounded(10)
      loop(k) == IF k % 2 = 1 THEN [do |-> "sprintf", value |-> 10 - n + k \div 2]
                 ELSE SpawnAndWait(n)[k \div 2]
  IN  [k \in 1..2 * n |-> loop(k)] \o SubSeq(SpawnAndWait(n), n + 1, 2 * n)

Child02 == <<[do |-> "atoi"], [do |-> "own"]>>

test23 == SetTimeout(60) \o SpawnAndWait(Bounded(5))
ChildS(n) == SleepFor(5 - n)

testcase_timeout_proc == SleepFor(1) \o SleepFor(testcase_timeout - 1)

Number(p) == CHOOSE k \in 1..Len(Kids) : Kids[k] = p

Start4 ==
  CASE test = "00" -> test00 [] test = "01" -> test01 [] test = "02" -> test02
    [] OTHER -> test23

Child(p) ==
  CASE test = "01" -> Child01 [] test = "02" -> Child02
    [] OTHER -> ChildS(Number(p) - 1)

Program(p) ==
  CASE p = Timeout -> testcase_timeout_proc
    [] p = U!Root -> Start4
    [] OTHER -> Child(p)

\* Mutant: the children of test02 are above start4.
ChildPriorityAbove == [t \in Tests |-> IF t = "01" THEN 4 ELSE 2]

ChildPriority == [t \in Tests |-> CASE t = "01" -> 4 [] t = "02" -> 3 [] OTHER -> 2]

Priority(t) ==
  CASE t = U!InitProc -> 6
    [] t = Timeout -> 5
    [] t = U!Root -> 3
    [] t = Daemons[1] -> 2
    [] OTHER -> ChildPriority[test]

-----------------------------------------------------------------------------
TestInit ==
  /\ Init /\ U!Init
  /\ test \in Tests
  /\ test \in Slow \/ fast
  /\ carg = 0
  /\ seconds = [p \in Proc |-> 0]
  /\ testcase_timeout = 10

Over == U!Ended \/ line[Timeout] = 3

InProgram(p) == pc[p] = "user" /\ U!InProgram(p, Program(p))

(* What a process does outside of its sleeps.  The timeout process is no   *)
(* child of start4.                                                        *)
Phase3(p) ==
  /\ pc[p] = "user" /\ U!Phase3(p, Program(p), Proc \ {p, Timeout})
  /\ UNCHANGED localVars

Assign(p) ==
  /\ InProgram(p)
  /\ LET s == Program(p)[line[p]]
     IN  \/ /\ s.do = "sprintf" /\ carg' = s.value
            /\ UNCHANGED <<seconds, testcase_timeout>>
         \/ /\ s.do = "timeout" /\ testcase_timeout' = s.value
            /\ UNCHANGED <<carg, seconds>>
         \/ /\ s.do = "atoi" /\ seconds' = [seconds EXCEPT ![p] = (10 - carg) * 3]
            /\ UNCHANGED <<carg, testcase_timeout>>
  /\ U!NextLine(p) /\ UNCHANGED <<forked, life>>

(* The arguments that a Sleep may have. *)
Argument(p) ==
  LET s == Program(p)[line[p]]
  IN  CASE s.do = "sleep" -> {s.seconds}
        [] s.do = "own" -> {seconds[p]}
        [] OTHER -> {}

ProcStep(p) ==
  \/ (Phase3(p) \/ Assign(p)) /\ UNCHANGED vars
  \/ /\ InProgram(p)
     /\ \E s \in Argument(p) : StartSleep(p, s)
     /\ UNCHANGED <<userVars, localVars>>
  \/ EndSleep(p) /\ U!NextLine(p) /\ UNCHANGED <<forked, life, localVars>>

InitStep == U!Fork \/ U!ForkStart4({Timeout})

TaskStep(t) ==
  \/ t = U!InitProc /\ InitStep /\ UNCHANGED <<vars, localVars>>
  \/ t \in Proc /\ ProcStep(t)
  \/ t = Daemons[1] /\ U!Forked(t) /\ Daemon /\ UNCHANGED <<userVars, localVars>>

(* The tasks that are not blocked. *)
ProcReady(p) ==
  IF pc[p] = "asleep" THEN box[waitsOn[p]] = 1
  ELSE U!Runnable(p, Program(p), Proc \ {p, Timeout})

DaemonReady ==
  /\ U!Forked(Daemons[1])
  /\ CASE dpc = "wait" -> clockMbox = 1
       [] dpc = "post" -> box[mutex[proc]] = 0
       [] OTHER -> TRUE

Ready ==
  {p \in Proc : ProcReady(p)}
  \cup (IF DaemonReady THEN {Daemons[1]} ELSE {})
  \cup (IF U!MayFork THEN {U!InitProc} ELSE {})

TestNext ==
  /\ ~Over /\ UNCHANGED test
  /\ \E ready \in {Ready} :
       \/ \E t \in ready : U!Dispatch(t, ready, [q \in ready |-> Priority(q)]) /\ TaskStep(t)
       \/ /\ U!MayInterrupt(ready)
          /\ fast \/ now < SlowTime
          /\ TimePasses
          /\ UNCHANGED <<userVars, localVars>>
  /\ U!Requeue(Ready')

TestSpec == TestInit /\ [][TestNext]_allVars /\ WF_allVars(TestNext)

-----------------------------------------------------------------------------
(* Properties. *)

(* The comparisons of test00.c:42-44 and test01.c:30-31: a sleep takes its *)
(* time, whatever interferes, and if tasks are fast at most a second more. *)
SleptAsTested ==
  [][\A p \in Proc : pc[p] = "asleep" /\ pc'[p] = "user" =>
       until[p] <= now /\ (fast => now <= until[p] + Second)]_allVars

(* test02.out: every child of test02 says "Child9" and sleeps 3 seconds:   *)
(* the children, which are not above start4, read the argument they share  *)
(* when it has been written for the last of them.                          *)
LastArgument ==
  test = "02" /\ fast => \A p \in Proc : seconds[p] \in {0, 3}

(* test01.out, test02.out, test23.out: children that are due together are  *)
(* woken from the last to the first, as the list has them, and one that    *)
(* sleeps less before one that sleeps more.                                *)
LastWokenFirst ==
  fast => \A i, j \in DOMAIN Kids :
            i < j /\ line[Kids[i]] > Len(Program(Kids[i])) /\ life[Kids[j]] # "none"
              => line[Kids[j]] > Len(Program(Kids[j]))

(* Every test comes to its end, and before its timeout does: that process, *)
(* started with the first value of testcase_timeout, follows the new one.  *)
TestEnds == fast => <>U!Ended
=============================================================================
