------------------------------- MODULE Users --------------------------------
(***************************************************************************)
(* The processes around the system calls: init, which forks the daemons in *)
(* phase4_start_service_processes and then lets testcase_main fork start4, *)
(* and start4 with its children, by the wrappers of phase3_usermode.c.     *)
(* Each process follows its own list of statements.                        *)
(*                                                                         *)
(* The dispatcher of phase 1 runs the ready task of the highest priority,  *)
(* which has the lowest number, and of several the one that came first.    *)
(***************************************************************************)
EXTENDS Integers, Sequences, SequencesExt

CONSTANTS Proc,    \* the processes: start4, its children and others like them
          Daemons  \* the daemons, in the order in which they are forked

Root == "start4"
InitProc == "init"
Task == Proc \cup {Daemons[i] : i \in DOMAIN Daemons} \cup {InitProc}

VARIABLES
  forked, \* how many daemons init has forked, and 1 more when that is over
  life,   \* of each process: none, kernel (forked), user, quit, joined
  line,   \* the statement each is at
  fast,   \* whether tasks are so fast that no device and no end of a time
          \* slice comes between two steps of one
  readyQ  \* if they are, the ready tasks in the order they became ready

userVars == <<forked, life, line, fast, readyQ>>

Init ==
  /\ forked = 0
  /\ life = [p \in Proc |-> "none"]
  /\ line = [p \in Proc |-> 1]
  /\ fast \in BOOLEAN
  /\ readyQ = IF fast THEN <<InitProc>> ELSE <<>>

-----------------------------------------------------------------------------
(* The dispatcher: t may run, one of the tasks that are ready.  It gives   *)
(* way to a higher priority at once, and to its own when its slice is over.*)
Dispatch(t, ready, prio) ==
  /\ \A q \in ready : prio[t] <= prio[q]
  /\ fast => t = SelectSeq(readyQ, LAMBDA q : prio[q] = prio[t])[1]

(* Whether a device, or the clock, may come in. *)
MayInterrupt(ready) == fast => ready = {}

(* After each step: what has become ready goes to the end. *)
Requeue(ready) ==
  /\ UNCHANGED fast
  /\ IF ~fast THEN UNCHANGED readyQ
     ELSE \E new \in SetToSeqs(ready \ ToSet(readyQ)) :
            readyQ' = SelectSeq(readyQ, LAMBDA q : q \in ready) \o new

-----------------------------------------------------------------------------
NextLine(p) == line' = [line EXCEPT ![p] = @ + 1]

Forked(d) == \E i \in 1..forked : i <= Len(Daemons) /\ Daemons[i] = d

(* init's next step.  A driver's argument is a buffer that the loop writes *)
(* anew for the next one, and that is gone when the function returns; the  *)
(* driver reads it in its first step, and gets its own if ArgumentIs.      *)
MayFork == forked <= Len(Daemons)

Fork ==
  /\ forked < Len(Daemons)
  /\ forked' = forked + 1
  /\ UNCHANGED <<life, line>>

ArgumentIs(d) == forked \in 1..Len(Daemons) /\ Daemons[forked] = d

ForkStart4(others) ==
  /\ forked = Len(Daemons)
  /\ forked' = forked + 1
  /\ life' = [p \in Proc |-> IF p \in others \cup {Root} THEN "kernel" ELSE "none"]
  /\ UNCHANGED line

(* The trampolines: user mode, then the program. *)
Trampoline(p) ==
  /\ life[p] = "kernel"
  /\ life' = [life EXCEPT ![p] = "user"]
  /\ UNCHANGED <<forked, line>>

Spawn(p, c) ==
  /\ life[p] = "user" /\ life[c] = "none"
  /\ life' = [life EXCEPT ![c] = "user"]
  /\ NextLine(p)
  /\ UNCHANGED forked

MayWait == \E c \in Proc : life[c] = "quit"

Wait(p) ==
  /\ life[p] = "user"
  /\ \E c \in Proc : life[c] = "quit" /\ life' = [life EXCEPT ![c] = "joined"]
  /\ NextLine(p)
  /\ UNCHANGED forked

(* Phase 3 joins what children are left. *)
MayTerminate(p, children) == p = Root => \A c \in children : life[c] # "user"

Terminate(p, children) ==
  /\ life[p] = "user" /\ MayTerminate(p, children)
  /\ life' = [life EXCEPT ![p] = "quit"]
  /\ UNCHANGED <<forked, line>>

Ended == life[Root] = "quit"

-----------------------------------------------------------------------------
(* A program is a sequence of statements, and these are some of them. *)

SpawnAndWait(kids) ==
  [i \in DOMAIN kids |-> [do |-> "spawn", child |-> kids[i]]] \o
  [i \in DOMAIN kids |-> [do |-> "wait"]]

Concat(parts) == [i \in DOMAIN parts |-> parts[i][1]] \* of one-statement parts

(* A step of p outside of the calls of phase 4; what comes after its last  *)
(* statement is Terminate.                                                 *)
InProgram(p, program) == life[p] = "user" /\ line[p] <= Len(program)

Phase3(p, program, children) ==
  \/ Trampoline(p)
  \/ /\ InProgram(p, program)
     /\ LET s == program[line[p]]
        IN  \/ s.do = "spawn" /\ Spawn(p, s.child)
            \/ s.do = "wait" /\ Wait(p)
  \/ line[p] > Len(program) /\ Terminate(p, children)

Runnable(p, program, children) ==
  \/ life[p] = "kernel"
  \/ /\ life[p] = "user"
     /\ IF InProgram(p, program) THEN program[line[p]].do = "wait" => MayWait
        ELSE MayTerminate(p, children)
=============================================================================
