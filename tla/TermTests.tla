------------------------------ MODULE TermTests ------------------------------
(***************************************************************************)
(* The terminal system of module Terminal under the test programs of src/  *)
(* testcases that use the terminals: 03 to 08, 19 to 22, and the terminal  *)
(* children of 23, on the dispatcher of module Users, with the input that  *)
(* the tests find on the terminals.                                        *)
(***************************************************************************)
EXTENDS Terminal, FiniteSets

CONSTANTS Tests,    \* the test programs
          Slow,     \* those that are also run when tasks are slow
          Terms,    \* bound: the loops are over this many of the 4 terminals
          Often,    \* bound: on the lines of 20 to 22, which are 5 and 10
          WriteLen, \* the length of the text that is written
          Input     \* of each terminal, the lengths of the lines to be typed

VARIABLES
  test,             \* the number of the test program
  forked, life, line, fast, readyQ,
  out,              \* of each process, what its latest call gave back
  printed           \* history: whose text each terminal has sent to its end

Kids == <<"k1", "k2", "k3", "k4">>
Daemons == <<"Terminal Driver 0", "Terminal Driver 1", "Terminal Driver 2">>
Driver(u) == Daemons[u + 1]
U == INSTANCE Users

userVars == <<forked, life, line>>
testVars == <<test, userVars, fast, readyQ, out, printed>>
allVars == <<vars, testVars>>

-----------------------------------------------------------------------------
(* The wrappers of phase4_usermode.c. *)

Io(op, len, unit) ==
  <<[do |-> "call", call |-> [op |-> op, unit |-> unit, buffer |-> TRUE, len |-> len]]>>

TermRead(len, unit) == Io("read", len, unit)
TermWrite(len, unit) == Io("write", len, unit)

-----------------------------------------------------------------------------
(* The test programs. *)

\* A loop that runs its body n times.
Repeat(n, body) == [i \in 1..n * Len(body) |-> body[((i - 1) % Len(body)) + 1]]
OnEach(program) == [i \in 1..Terms |-> program[i - 1][1]]

\* TermWrite(buf, strlen(buf), term, &size) of the line that was just read.
Echo(unit) == <<[do |-> "echo", unit |-> unit]>>

(* A test whose start4 spawns children is the sequence of their programs.  *)
test03 == <<TermRead(MaxLine, 2)>>
test04 == TermRead(-13, 1) \o TermRead(MaxLine, 5) \o TermRead(0, 0)
test05 == TermRead(1, 1)
test06 == <<TermWrite(WriteLen, 1), TermRead(MaxLine, 1)>>
test07 == [k \in 1..Terms |-> OnEach([i \in 0..Terms - 1 |-> TermWrite(WriteLen, i)])]
test08 == [k \in 1..Terms |-> TermRead(MaxLine, k - 1)]
test19 ==
  [k \in 1..2 * Terms |->
     LET i == (k - 1) \div 2
     IN  IF k % 2 = 1 THEN TermRead(MaxLine, i) ELSE TermWrite(WriteLen, i)]
test20 == [k \in 1..2 * Terms |-> Repeat(Often, test19[k])]
ReadAndWrite(term) == Repeat(Often, TermRead(MaxLine, term) \o Echo(term))
test21 == <<ReadAndWrite(0)>>
test22 == [k \in 1..Terms |-> ReadAndWrite(k - 1)]
\* ChildTR, ChildTW
test23 == <<OnEach([i \in 0..Terms - 1 |-> TermRead(MaxLine, i)]),
            OnEach([i \in 0..Terms - 1 |-> TermWrite(WriteLen, i)])>>

Children ==
  CASE test = 3 -> test03 [] test = 6 -> test06 [] test = 7 -> test07
    [] test = 8 -> test08 [] test = 19 -> test19 [] test = 20 -> test20
    [] test = 21 -> test21 [] test = 22 -> test22 [] test = 23 -> test23
    [] OTHER -> <<>>

Start4 ==
  CASE test = 4 -> test04 [] test = 5 -> test05
    [] OTHER -> U!SpawnAndWait(SubSeq(Kids, 1, Len(Children)))

Number(p) == CHOOSE k \in 1..Len(Kids) : Kids[k] = p
Program(p) == IF p = U!Root THEN Start4 ELSE Children[Number(p)]

(* Whether the callers are below the daemons. *)
CallersBelow == test <= 8

Priority(t) ==
  CASE t = U!InitProc -> 6
    [] t = U!Root -> 3
    [] t \in Proc \ {U!Root} -> IF CallersBelow THEN 4 ELSE 2
    [] OTHER -> 2

\* Bound: nothing is typed on terminals that the test does not use.
Used ==
  CASE test = 3 -> {2} [] test = 4 -> {} [] test \in {5, 6} -> {1} [] test = 21 -> {0}
    [] OTHER -> 0..Terms - 1

\* The character that ends line k of a terminal's input.
LineEnd(u) ==
  LET end[k \in 0..Len(Input[u])] == IF k = 0 THEN 0 ELSE end[k - 1] + Input[u][k]
  IN  end

-----------------------------------------------------------------------------
TestInit ==
  /\ Init /\ U!Init
  /\ test \in Tests /\ (test \in Slow \/ fast) /\ below = CallersBelow
  /\ out = [p \in Proc |-> [code |-> 0, size |-> 0, text |-> <<>>]]
  /\ printed = [u \in Unit |-> <<>>]

InProgram(p) == pc[p] = "user" /\ U!InProgram(p, Program(p))

(* The call that a statement of p makes now. *)
CallAt(p, k) ==
  LET s == Program(p)[k]
  IN  CASE s.do = "call" -> {s.call}
        [] s.do = "echo" -> {TermWrite(Len(out[p].text), s.unit)[1].call}
        [] OTHER -> {}

Phase3(p) ==
  /\ pc[p] = "user" /\ U!Phase3(p, Program(p), Proc \ {p})
  /\ UNCHANGED <<vars, out>>

Begin(p) ==
  /\ InProgram(p)
  /\ \E c \in CallAt(p, line[p]) : Start(p, c)
  /\ UNCHANGED <<userVars, out>>

Refuse(p) ==
  /\ InProgram(p)
  /\ \E c \in CallAt(p, line[p]) : Reject(p, c)
  /\ out' = [out EXCEPT ![p].code = -1]
  /\ U!NextLine(p)
  /\ UNCHANGED <<forked, life>>

End(p) ==
  /\ \/ FinishRead(p) /\ out' = [out EXCEPT ![p] =
           [code |-> 0, size |-> Len(LineRead(p)), text |-> LineRead(p)]]
     \/ EndWrite(p) /\ out' = [out EXCEPT ![p].code = 0, ![p].size = args[p].len]
  /\ U!NextLine(p)
  /\ UNCHANGED <<forked, life>>

TaskStep(t) ==
  \/ /\ t = U!InitProc
     /\ U!Fork \/ U!ForkStart4({})
     /\ UNCHANGED <<vars, out>>
  \/ /\ t \in Proc
     /\ \/ Phase3(t) \/ Begin(t) \/ Refuse(t) \/ End(t)
        \/ (LockTerm(t) \/ WriteChar(t)) /\ UNCHANGED <<userVars, out>>
  \/ \E u \in Unit : /\ t = Driver(u) /\ U!Forked(t)
                     /\ Daemon(u) /\ UNCHANGED <<userVars, out>>

(* The tasks that are not blocked. *)
ProcReady(p) ==
  CASE pc[p] = "read" -> termRead[args[p].unit] # <<>>
    [] pc[p] = "lock" -> termWriteMutex[args[p].unit] = 0
    [] pc[p] = "write" -> AllSent(p) \/ termReadyWrite[args[p].unit] = 1
    [] OTHER -> U!Runnable(p, Program(p), Proc \ {p})

DriverReady(u) == U!Forked(Driver(u)) /\ (dpc[u] # "wait" \/ devMbox[u] # NULL)

Ready ==
  {p \in Proc : ProcReady(p)}
  \cup {Driver(u) : u \in {v \in Unit : DriverReady(v)}}
  \cup (IF U!MayFork THEN {U!InitProc} ELSE {})

(* The next character of the input, or the end of sending one. *)
TermInput(u) ==
  LET end == LineEnd(u)
  IN  /\ u \in Used /\ typed[u] < end[Len(Input[u])]
      /\ Type(u, \E k \in DOMAIN Input[u] : end[k] = typed[u] + 1, Transmitter(u))
      /\ UNCHANGED printed

TermOutput(u) ==
  /\ XmitDone(u)
  /\ printed' = IF xmit[u].i = xmit[u].len
                THEN [printed EXCEPT ![u] = Append(@, xmit[u].proc)] ELSE printed

TestNext ==
  /\ ~U!Ended /\ UNCHANGED test
  /\ \E ready \in {Ready} :
       \/ \E t \in ready : /\ U!Dispatch(t, ready, [q \in ready |-> Priority(q)])
                           /\ TaskStep(t) /\ UNCHANGED printed
       \/ /\ U!MayInterrupt(ready)
          /\ \E u \in Unit : TermInput(u) \/ TermOutput(u)
          /\ UNCHANGED <<userVars, out>>
  /\ U!Requeue(Ready')

TestSpec == TestInit /\ [][TestNext]_allVars /\ WF_allVars(TestNext)

-----------------------------------------------------------------------------
(* Properties. *)

(* The calls of p before its statement k, on a terminal. *)
Calls(p, k, op, u) ==
  {j \in 1..k - 1 : \E c \in CallAt(p, j) : c.op = op /\ c.unit = u}

(* Each call gives back what the tests print or compare: a read the next   *)
(* line of its terminal, as much of it as the buffer takes, with no        *)
(* character of it lost or left for the next read; a write the length of   *)
(* its text; the calls of test04 give -1.                                  *)
ResultsAsTested ==
  \A p \in Proc : pc[p] = "user" /\ line[p] > 1 =>
    \A c \in CallAt(p, line[p] - 1) :
      /\ out[p].code = IF test = 4 THEN -1 ELSE 0
      /\ test # 4 /\ c.op = "write" => out[p].size = c.len
      /\ test # 4 /\ c.op = "read" =>
           LET k == Cardinality(Calls(p, line[p], "read", c.unit))
               n == Input[c.unit][k]
           IN  [i \in DOMAIN out[p].text |-> out[p].text[i].n] =
                 [i \in 1..IF c.len < n THEN c.len ELSE n |->
                    LineEnd(c.unit)[k - 1] + i]

(* When a test is over, every text that it wrote has been sent, once, but  *)
(* for a last character on its way.                                        *)
AllPrinted ==
  U!Ended => \A u \in Unit : \A p \in Proc \ {U!Root} : life[p] # "none" =>
    LET last == xmit[u] # NULL /\ xmit[u].proc = p
    IN  /\ last => xmit[u].i = xmit[u].len
        /\ Cardinality(Calls(p, line[p], "write", u)) =
             Len(SelectSeq(printed[u], LAMBDA q : q = p)) + (IF last THEN 1 ELSE 0)

(* Every test comes to its end: no process waits for ever for a line, for  *)
(* a terminal to be ready or for its turn to write.                        *)
TestEnds == <>U!Ended
=============================================================================
