------------------------------ MODULE Terminal ------------------------------
(***************************************************************************)
(* The terminals of src/phase4.c: the TermRead and TermWrite system calls, *)
(* the daemon of each terminal (termHelperMain) and the USLOSS terminals.  *)
(*                                                                         *)
(* A character that is typed is its number and whether it is a newline;    *)
(* one that is written is its place in its call's buffer.                  *)
(***************************************************************************)
EXTENDS Integers, Sequences

CONSTANTS Proc, NULL,
          Unit,     \* the terminals in use, of the four that there are
          Call,     \* the calls a process may make
          MaxLine,  \* MAXLINE
          Lines,    \* the slots of a termRead mailbox: 10
          MaxInput  \* bound on the characters that are typed on a terminal

Units == 0..3 \* below USLOSS_TERM_UNITS

(* buffer: the buffer is not NULL. *)
CallRecord == [op : {"read", "write"}, unit : Int, buffer : BOOLEAN, len : Int]

ASSUME TerminalNumbers ==
  /\ MaxLine \in Nat \ {0} /\ Lines \in Nat \ {0} /\ MaxInput \in Nat
  /\ Unit \subseteq Units
ASSUME TerminalCalls ==
  Call \subseteq CallRecord /\ \A c \in Call : c.unit \in Units => c.unit \in Unit

VARIABLES
  below,     \* whether every caller's priority is below the daemons'
  halted,    \* a daemon has halted the simulation
  pc,        \* where the process is in its handler
  args,      \* the arguments of the call it is in, or NULL
  sent,      \* how many of its characters it has put out
  termRead, termReadyWrite, termWriteMutex, \* the mailboxes
  termLine,  \* termLines, termLineIdx characters of it
  dpc,       \* where the daemon is
  status,    \* the status the daemon works on, or NULL
  devMbox,   \* the slot that waitDevice empties: a status or NULL
  typed,     \* how many characters were typed
  xmit,      \* the character the terminal is sending, or NULL
  xmitInt,   \* whether it interrupts when it has sent one
  lastRead,  \* history: the last character that a read took
  lastSent   \* history: the last character that the terminal sent

callVars == <<pc, args, sent>>
mboxVars == <<termRead, termReadyWrite, termWriteMutex>>
daemonVars == <<termLine, dpc, status, halted>>
deviceVars == <<devMbox, typed, xmit, xmitInt, lastSent>>
vars == <<below, callVars, mboxVars, daemonVars, deviceVars, lastRead>>

Char == [n : 1..MaxInput, nl : BOOLEAN]
Output == [proc : Proc, i : Nat, len : Nat]
Status == [recv : Char \cup {NULL}, broken : BOOLEAN, xmit : {"ready", "busy", "error"}]

ASSUME TerminalNull == NULL \notin Call \cup Char \cup Output \cup Status

(* At first the terminals interrupt for input only. *)
Init ==
  /\ below \in BOOLEAN
  /\ halted = FALSE
  /\ pc = [p \in Proc |-> "user"]
  /\ args = [p \in Proc |-> NULL]
  /\ sent = [p \in Proc |-> 0]
  /\ termRead = [u \in Unit |-> <<>>]
  /\ termReadyWrite = [u \in Unit |-> 0]
  /\ termWriteMutex = [u \in Unit |-> 0]
  /\ termLine = [u \in Unit |-> <<>>]
  /\ dpc = [u \in Unit |-> "wait"]
  /\ status = [u \in Unit |-> NULL]
  /\ devMbox = [u \in Unit |-> NULL]
  /\ typed = [u \in Unit |-> 0]
  /\ xmit = [u \in Unit |-> NULL]
  /\ xmitInt = [u \in Unit |-> FALSE]
  /\ lastRead = [u \in Unit |-> 0]
  /\ lastSent = [u \in Unit |-> NULL]

(* A daemon above the callers has dealt with a status before anybody runs  *)
(* and before a terminal, which is slow, has another.                      *)
MayRun == below => \A u \in Unit : dpc[u] = "wait" /\ devMbox[u] = NULL

-----------------------------------------------------------------------------
(* The handlers.  They run with interrupts off, so a process is suspended  *)
(* only in a mailbox operation.                                            *)

Accepted(c) == c.buffer /\ c.len > 0 /\ c.unit \in Units

(* A call that is not accepted returns -1 and changes nothing. *)
Reject(p, c) ==
  /\ MayRun /\ pc[p] = "user" /\ ~Accepted(c)
  /\ UNCHANGED vars

(* The place from which an accepted call goes on. *)
Start(p, c) ==
  /\ MayRun /\ pc[p] = "user" /\ Accepted(c)
  /\ args' = [args EXCEPT ![p] = c]
  /\ pc' = [pc EXCEPT ![p] = IF c.op = "read" THEN "read" ELSE "lock"]
  /\ UNCHANGED <<below, sent, mboxVars, daemonVars, deviceVars, lastRead>>

Return(p) ==
  /\ args' = [args EXCEPT ![p] = NULL]
  /\ pc' = [pc EXCEPT ![p] = "user"]

\* Mutant: the buffer's length is not looked at.
LineReadLong(p) == Head(termRead[args[p].unit])

(* What a read returns: the part of the line for which its buffer has room. *)
LineRead(p) ==
  LET line == Head(termRead[args[p].unit])
  IN  SubSeq(line, 1, IF args[p].len < Len(line) THEN args[p].len ELSE Len(line))

(* The line is gone from the mailbox, however little of it is returned. *)
FinishRead(p) ==
  /\ MayRun /\ pc[p] = "read"
  /\ LET u == args[p].unit
         line == Head(termRead[u])
     IN  /\ termRead[u] # <<>>
         /\ termRead' = [termRead EXCEPT ![u] = Tail(@)]
         /\ lastRead' = [lastRead EXCEPT ![u] = line[Len(line)].n]
  /\ Return(p)
  /\ UNCHANGED <<below, sent, termReadyWrite, termWriteMutex, daemonVars, deviceVars>>

\* Mutant: the MboxSend that takes the lock is forgotten.
LockTermFree(p) ==
  /\ MayRun /\ pc[p] = "lock"
  /\ pc' = [pc EXCEPT ![p] = "write"]
  /\ UNCHANGED <<below, args, sent, mboxVars, daemonVars, deviceVars, lastRead>>

LockTerm(p) ==
  /\ MayRun /\ pc[p] = "lock" /\ termWriteMutex[args[p].unit] = 0
  /\ termWriteMutex' = [termWriteMutex EXCEPT ![args[p].unit] = 1]
  /\ pc' = [pc EXCEPT ![p] = "write"]
  /\ UNCHANGED <<below, args, sent, termRead, termReadyWrite, daemonVars,
                 deviceVars, lastRead>>

(* The control word 0x7 also enables both interrupts.  A character that is *)
(* put out while another is being sent is lost.                            *)
\* Mutant: without 0x4, the transmit interrupt stays off.
DeviceOutputNoInt(u, c) ==
  /\ xmit' = [xmit EXCEPT ![u] = IF @ = NULL THEN c ELSE @]
  /\ UNCHANGED xmitInt

DeviceOutput(u, c) ==
  /\ xmit' = [xmit EXCEPT ![u] = IF @ = NULL THEN c ELSE @]
  /\ xmitInt' = [xmitInt EXCEPT ![u] = TRUE]

WriteChar(p) ==
  /\ MayRun /\ pc[p] = "write" /\ sent[p] < args[p].len
  /\ LET u == args[p].unit
     IN  /\ termReadyWrite[u] = 1
         /\ termReadyWrite' = [termReadyWrite EXCEPT ![u] = 0]
         /\ DeviceOutput(u, [proc |-> p, i |-> sent[p] + 1, len |-> args[p].len])
  /\ sent' = [sent EXCEPT ![p] = @ + 1]
  /\ UNCHANGED <<below, pc, args, termRead, termWriteMutex, daemonVars, devMbox,
                 typed, lastSent, lastRead>>

\* Mutant: i <= locationLen - 2, the last character is forgotten.
AllSentEarly(p) == sent[p] >= args[p].len - 1

AllSent(p) == sent[p] = args[p].len

EndWrite(p) ==
  /\ MayRun /\ pc[p] = "write" /\ AllSent(p)
  /\ termWriteMutex[args[p].unit] = 1
  /\ termWriteMutex' = [termWriteMutex EXCEPT ![args[p].unit] = 0]
  /\ Return(p)
  /\ sent' = [sent EXCEPT ![p] = 0]
  /\ UNCHANGED <<below, termRead, termReadyWrite, daemonVars, deviceVars, lastRead>>

-----------------------------------------------------------------------------
(* The terminals.  A status goes to waitDevice's slot, and is lost when    *)
(* another one is there.                                                   *)

Interrupt(u, stat) == devMbox' = [devMbox EXCEPT ![u] = IF @ = NULL THEN stat ELSE @]

Received(c, trans) == [recv |-> c, broken |-> FALSE, xmit |-> trans]

Transmitter(u) == IF xmit[u] = NULL THEN "ready" ELSE "busy"

(* The transmit field tells of the transmitter, or of its failure. *)
Type(u, nl, trans) ==
  /\ MayRun /\ typed[u] < MaxInput
  /\ typed' = [typed EXCEPT ![u] = @ + 1]
  /\ Interrupt(u, Received([n |-> typed[u] + 1, nl |-> nl], trans))
  /\ UNCHANGED <<below, callVars, mboxVars, daemonVars, xmit, xmitInt, lastSent,
                 lastRead>>

XmitDone(u) ==
  /\ MayRun /\ xmit[u] # NULL
  /\ xmit' = [xmit EXCEPT ![u] = NULL]
  /\ lastSent' = [lastSent EXCEPT ![u] = xmit[u]]
  /\ IF xmitInt[u] THEN Interrupt(u, Received(NULL, "ready")) ELSE UNCHANGED devMbox
  /\ UNCHANGED <<below, callVars, mboxVars, daemonVars, typed, xmitInt, lastRead>>

(* USLOSS_DEV_ERROR in one of the two fields of a status without character.*)
Break(u) ==
  /\ MayRun
  /\ \/ Interrupt(u, [Received(NULL, Transmitter(u)) EXCEPT !.broken = TRUE])
     \/ Interrupt(u, Received(NULL, "error"))
  /\ UNCHANGED <<below, callVars, mboxVars, daemonVars, typed, xmit, xmitInt,
                 lastSent, lastRead>>

-----------------------------------------------------------------------------
(* The daemon: one step for each half of its loop. *)

WaitDevice(u) ==
  /\ dpc[u] = "wait" /\ devMbox[u] # NULL
  /\ status' = [status EXCEPT ![u] = devMbox[u]]
  /\ devMbox' = [devMbox EXCEPT ![u] = NULL]
  /\ dpc' = [dpc EXCEPT ![u] = "recv"]
  /\ UNCHANGED <<below, halted, callVars, mboxVars, termLine, typed, xmit, xmitInt,
                 lastSent, lastRead>>

\* Mutant: > MAXLINE for == MAXLINE.
FullLate(u) == Len(termLine[u]) > MaxLine

(* A character ends the line if it is a newline, or finds the line full    *)
(* and is dropped.                                                         *)
Full(u) == Len(termLine[u]) = MaxLine
Ends(u, c) == c.nl \/ Full(u)

\* Mutant: the newline is not stored.
ExtendedBare(u, c) ==
  IF Full(u) \/ c.nl THEN termLine[u] ELSE Append(termLine[u], c)

Extended(u, c) == IF Full(u) THEN termLine[u] ELSE Append(termLine[u], c)

\* Mutant: termLineIdx is not reset.
NextLineOn(u, c) == termLine' = [termLine EXCEPT ![u] = Extended(u, c)]

NextLine(u, c) ==
  termLine' = [termLine EXCEPT ![u] = IF Ends(u, c) THEN <<>> ELSE Extended(u, c)]

\* Mutant: the oldest line makes room for the newest.
KeptNewest(lines, l) == Append(IF Len(lines) < Lines THEN lines ELSE Tail(lines), l)

(* MboxCondSend: a line that finds the mailbox full is lost. *)
Kept(lines, l) == IF Len(lines) < Lines THEN Append(lines, l) ELSE lines

Receive(u) ==
  /\ dpc[u] = "recv" /\ ~status[u].broken
  /\ LET c == status[u].recv
     IN  IF c = NULL
         THEN UNCHANGED <<termRead, termLine>>
         ELSE /\ NextLine(u, c)
              /\ termRead' = [termRead EXCEPT ![u] =
                    IF Ends(u, c) THEN Kept(@, Extended(u, c)) ELSE @]
  /\ dpc' = [dpc EXCEPT ![u] = "xmit"]
  /\ UNCHANGED <<below, halted, callVars, termReadyWrite, termWriteMutex, status,
                 deviceVars, lastRead>>

\* Mutant: every interrupt is taken for a ready terminal.
TransmitReadyAlways(u) == TRUE

TransmitReady(u) == status[u].xmit = "ready"

\* Mutant: a status that brings a character is not looked at further.
TransmitErrorAlone(u) == status[u].xmit = "error" /\ status[u].recv = NULL

TransmitError(u) == status[u].xmit = "error"

Transmit(u) ==
  /\ dpc[u] = "xmit" /\ ~TransmitError(u)
  /\ termReadyWrite' = [termReadyWrite EXCEPT ![u] = IF TransmitReady(u) THEN 1 ELSE @]
  /\ dpc' = [dpc EXCEPT ![u] = "wait"]
  /\ status' = [status EXCEPT ![u] = NULL]
  /\ UNCHANGED <<below, halted, callVars, termRead, termWriteMutex, termLine,
                 deviceVars, lastRead>>

Halt(u) ==
  /\ \/ dpc[u] = "recv" /\ status[u].broken
     \/ dpc[u] = "xmit" /\ TransmitError(u)
  /\ halted' = TRUE
  /\ UNCHANGED <<below, callVars, mboxVars, termLine, dpc, status, deviceVars,
                 lastRead>>

Daemon(u) == WaitDevice(u) \/ Receive(u) \/ Transmit(u) \/ Halt(u)

-----------------------------------------------------------------------------
Next ==
  /\ ~halted
  /\ \/ \E p \in Proc : \/ \E c \in Call : Start(p, c) \/ Reject(p, c)
                       \/ FinishRead(p) \/ LockTerm(p) \/ WriteChar(p) \/ EndWrite(p)
     \/ \E u \in Unit : \/ \E nl \in BOOLEAN : \E trans \in {Transmitter(u), "error"} :
                            Type(u, nl, trans)
                       \/ XmitDone(u) \/ Break(u) \/ Daemon(u)

Spec == Init /\ [][Next]_vars

Running(A) == ~halted /\ A

(* What is blocked in termWriteMutex waits in the order of arrival. *)
FairSpec ==
  /\ Spec
  /\ \A u \in Unit : WF_vars(Running(XmitDone(u))) /\ WF_vars(Running(Daemon(u)))
  /\ \A p \in Proc : /\ WF_vars(Running(WriteChar(p))) /\ WF_vars(Running(EndWrite(p)))
                     /\ SF_vars(Running(LockTerm(p)))

-----------------------------------------------------------------------------
(* Properties. *)

(* Every variable keeps the shape of the C object it stands for: the line  *)
(* stays inside its MAXLINE characters.                                    *)
CallType ==
  /\ below \in BOOLEAN
  /\ pc \in [Proc -> {"user", "read", "lock", "write"}]
  /\ args \in [Proc -> CallRecord \cup {NULL}]
  /\ sent \in [Proc -> Nat]

MboxType ==
  /\ termRead \in [Unit -> Seq(Seq(Char))] /\ \A u \in Unit : Len(termRead[u]) <= Lines
  /\ termReadyWrite \in [Unit -> 0..1] /\ termWriteMutex \in [Unit -> 0..1]
  /\ lastRead \in [Unit -> 0..MaxInput]

DaemonType ==
  /\ termLine \in [Unit -> Seq(Char)] /\ \A u \in Unit : Len(termLine[u]) <= MaxLine
  /\ dpc \in [Unit -> {"wait", "recv", "xmit"}]
  /\ status \in [Unit -> Status \cup {NULL}]
  /\ halted \in BOOLEAN

DeviceType ==
  /\ devMbox \in [Unit -> Status \cup {NULL}]
  /\ typed \in [Unit -> 0..MaxInput]
  /\ xmit \in [Unit -> Output \cup {NULL}]
  /\ xmitInt \in [Unit -> BOOLEAN]
  /\ lastSent \in [Unit -> Output \cup {NULL}]

TypeOK == CallType /\ MboxType /\ DaemonType /\ DeviceType

(* In order of typing, with nothing between them unless a status was lost. *)
Typed(l) ==
  \A i \in 1..Len(l) - 1 : IF below THEN l[i + 1].n = l[i].n + 1
                                    ELSE l[i + 1].n > l[i].n

(* phase4.c:245-246: what a read gets is an entire line, which ends with   *)
(* its only newline or is exactly MAXLINE characters long.                 *)
WholeLine(l) ==
  /\ Typed(l) /\ l # <<>>
  /\ \A i \in 1..Len(l) - 1 : ~l[i].nl
  /\ l[Len(l)].nl \/ Len(l) = MaxLine

LinesWhole == \A u \in Unit : \A k \in 1..Len(termRead[u]) : WholeLine(termRead[u][k])

(* The lines from the oldest in the mailbox to the one that is being typed,*)
(* and the last character before each.                                     *)
LineAt(u, k) == IF k > Len(termRead[u]) THEN termLine[u] ELSE termRead[u][k]

LastBefore(u, k) ==
  IF k = 1 THEN lastRead[u] ELSE termRead[u][k - 1][Len(termRead[u][k - 1])].n

(* Characters are read in the order they were typed and no more than once, *)
(* however many processes read: what waits in the mailbox comes after what *)
(* was read, and the line that is being typed after that.                  *)
ReadOnce ==
  \A u \in Unit : \A k \in 1..Len(termRead[u]) + 1 :
    \A i \in 1..Len(LineAt(u, k)) : LineAt(u, k)[i].n > LastBefore(u, k)

(* One process at a time is between the two lines of termWriteMutex. *)
Writers(u) == {p \in Proc : pc[p] = "write" /\ args[p].unit = u}

WriteExclusion ==
  \A u \in Unit : /\ \A p, q \in Writers(u) : p = q
                 /\ termWriteMutex[u] = 1 <=> Writers(u) # {}

(* No character goes to a terminal that is busy, while callers' priorities *)
(* are below the daemon's.                                                 *)
ReadyIsFresh ==
  below => \A u \in Unit : termReadyWrite[u] = 1 => xmit[u] = NULL

(* phase4.c:286-288: "all of the characters of the buffer will be written  *)
(* atomically": what the terminal sends goes on with the same buffer, or   *)
(* starts one when the last one was finished.                              *)
GoesOn(last, c) ==
  IF last = NULL \/ last.i = last.len
  THEN c.i = 1
  ELSE c = [last EXCEPT !.i = last.i + 1]

WritesWhole ==
  [][below => \A u \in Unit : lastSent'[u] # lastSent[u] =>
                               GoesOn(lastSent[u], lastSent'[u])]_vars

Writing(p) == pc[p] \in {"lock", "write"}

(* Every write returns, once something was typed on the terminal. *)
WriteReturns ==
  \A p \in Proc :
    below /\ Writing(p) /\ typed[args[p].unit] > 0 ~> pc[p] = "user" \/ halted

(* phase4.c:563, 576: an error that a terminal tells its daemon stops the  *)
(* machine, in whichever field of the status it is, beside a character or  *)
(* a ready transmitter, and whoever is at a read or a write meanwhile.     *)
Failed(stat) == stat # NULL /\ (stat.broken \/ stat.xmit = "error")

ErrorHalts == \A u \in Unit : Failed(devMbox[u]) ~> halted
=============================================================================
