--------------------------- MODULE TerminalProofs ---------------------------
(***************************************************************************)
(* Proofs about module Terminal, for every set of processes, terminals and *)
(* calls, every length of lines and every number of lines in a mailbox.    *)
(***************************************************************************)
EXTENDS TermTeletype, SequenceTheorems, TLAPS

(* A process in a handler has passed the checks, and has sent characters   *)
(* only in the loop of a write.                                            *)
CallInv ==
  \A p \in Proc : /\ pc[p] # "user" => args[p] \in Call /\ Accepted(args[p])
                  /\ sent[p] # 0 => pc[p] = "write"
                  /\ pc[p] = "write" => sent[p] <= args[p].len

(* While the daemon works on a status it has one, and a daemon above the   *)
(* callers is done with it before there is another.                        *)
DaemonInv ==
  \A u \in Unit : dpc[u] # "wait" => /\ status[u] # NULL
                                     /\ below => devMbox[u] = NULL

(* The line that is being typed has no newline yet. *)
LineInv ==
  \A u \in Unit : /\ Typed(termLine[u])
                  /\ \A i \in 1..Len(termLine[u]) : ~termLine[u][i].nl

(* All that has come to the line, the mailbox or a reader precedes n. *)
Precedes(u, n) ==
  /\ lastRead[u] < n
  /\ \A k \in 1..Len(termRead[u]) : \A i \in 1..Len(termRead[u][k]) : termRead[u][k][i].n < n
  /\ \A i \in 1..Len(termLine[u]) : termLine[u][i].n < n

(* Characters arrive in the order of typing. *)
ArrivalInv ==
  \A u \in Unit :
    /\ Precedes(u, typed[u] + 1)
    /\ InStatus(u) # NULL => InStatus(u).n <= typed[u] /\ Precedes(u, InStatus(u).n)
    /\ InSlot(u) # NULL => InSlot(u).n <= typed[u] /\ Precedes(u, InSlot(u).n)
    /\ InStatus(u) # NULL /\ InSlot(u) # NULL => InStatus(u).n < InSlot(u).n

(* With the daemon above the callers none is lost on the way: the last one *)
(* typed is the one on its way, and the one before is the last of the line.*)
AdjacentInv ==
  below => \A u \in Unit :
    /\ Pending(u) # NULL => Pending(u).n = typed[u]
    /\ termLine[u] # <<>> => termLine[u][Len(termLine[u])].n =
                               IF Pending(u) = NULL THEN typed[u] ELSE typed[u] - 1

(* A status that says ready is still true, wherever it is. *)
FreshInv ==
  below => \A u \in Unit :
    /\ termReadyWrite[u] = 1 => xmit[u] = NULL
    /\ devMbox[u] # NULL /\ devMbox[u].xmit = "ready" => xmit[u] = NULL
    /\ dpc[u] # "wait" /\ status[u].xmit = "ready" => xmit[u] = NULL

(* The last character put out is the writer's latest, or a buffer's end. *)
BufferOver(u) == LastOut(u) = NULL \/ LastOut(u).i = LastOut(u).len

WholeInv ==
  below => \A u \in Unit :
    /\ xmit[u] # NULL => GoesOn(lastSent[u], xmit[u])
    /\ Writers(u) = {} => BufferOver(u)
    /\ \A p \in Writers(u) :
         IF sent[p] = 0 THEN BufferOver(u)
         ELSE LastOut(u) = [proc |-> p, i |-> sent[p], len |-> args[p].len]

Inv == /\ TypeOK /\ CallInv /\ DaemonInv /\ WriteExclusion
       /\ LinesWhole /\ LineInv /\ ReadOnce /\ ArrivalInv /\ AdjacentInv
       /\ FreshInv /\ WholeInv

-----------------------------------------------------------------------------
LEMMA InitInv == Init => Inv
<1> SUFFICES ASSUME Init PROVE Inv
  OBVIOUS
<1>1. TypeOK
  <2>1. CallType /\ MboxType /\ DeviceType
    BY TerminalNumbers DEF Init, CallType, MboxType, DeviceType
  <2>2. \A u \in Unit : termLine[u] = <<>>
    BY DEF Init
  <2>3. termLine \in [Unit -> Seq(Char)]
    BY DEF Init
  <2>4. /\ dpc \in [Unit -> {"wait", "recv", "xmit"}]
        /\ status \in [Unit -> Status \cup {NULL}]
        /\ halted \in BOOLEAN
    BY DEF Init
  <2>5. DaemonType
    BY <2>2, <2>3, <2>4, TerminalNumbers DEF DaemonType
  <2> QED
    BY <2>1, <2>5 DEF TypeOK
<1>2. CallInv /\ DaemonInv /\ WriteExclusion
  BY DEF Init, CallInv, DaemonInv, WriteExclusion, Writers
<1>3. LinesWhole /\ LineInv /\ ReadOnce
  BY DEF Init, LinesWhole, LineInv, ReadOnce, LineAt, LastBefore, Typed
<1>4. ArrivalInv /\ AdjacentInv
  BY DEF Init, ArrivalInv, AdjacentInv, Precedes, Pending, InStatus, InSlot
<1>5. FreshInv /\ WholeInv
  BY DEF Init, FreshInv, WholeInv, BufferOver, LastOut, Writers
<1> QED
  BY <1>1, <1>2, <1>3, <1>4, <1>5 DEF Inv

(* What the checks ensure of the call a process is in. *)
LEMMA CallChecked ==
  ASSUME Inv, NEW p \in Proc, pc[p] # "user"
  PROVE  /\ args[p] \in CallRecord /\ args[p].unit \in Unit
         /\ args[p].len \in Nat \ {0}
  BY TerminalCalls DEF Inv, CallInv, Accepted, CallRecord, Units

(* A line that waits in the mailbox has a last character. *)
LEMMA LineEnds ==
  ASSUME Inv, NEW u \in Unit, NEW k \in 1..Len(termRead[u])
  PROVE  /\ termRead[u][k] \in Seq(Char) /\ Len(termRead[u][k]) \in Nat \ {0}
         /\ \A i \in 1..Len(termRead[u][k]) : termRead[u][k][i] \in Char
<1>1. termRead[u][k] \in Seq(Char)
  BY DEF Inv, TypeOK, MboxType
<1>2. termRead[u][k] # <<>>
  BY DEF Inv, LinesWhole, WholeLine
<1> QED
  BY <1>1, <1>2, EmptySeq, ElementOfSeq

-----------------------------------------------------------------------------
(* No step takes a variable out of its type. *)
LEMMA TypeStep == Inv /\ [Next]_vars => TypeOK'
<1> SUFFICES ASSUME Inv, [Next]_vars PROVE TypeOK'
  OBVIOUS
<1> USE TerminalNumbers
    DEF TypeOK, CallType, MboxType, DaemonType, DeviceType, callVars, mboxVars,
        daemonVars, deviceVars
<1>0. TypeOK /\ CallInv /\ DaemonInv
  BY DEF Inv
<1>1. ASSUME NEW p \in Proc, NEW c \in Call, Start(p, c) PROVE TypeOK'
  BY <1>0, <1>1, TerminalCalls DEF Start
<1>2. ASSUME NEW p \in Proc, NEW c \in Call, Reject(p, c) PROVE TypeOK'
  BY <1>0, <1>2 DEF Reject, vars
<1>3. ASSUME NEW p \in Proc, FinishRead(p) PROVE TypeOK'
  <2> DEFINE u == args[p].unit
             line == Head(termRead[u])
  <2>1. u \in Unit
    BY <1>3, CallChecked DEF FinishRead
  <2>2. /\ termRead[u] # <<>> /\ termRead[u] \in Seq(Seq(Char)) /\ line = termRead[u][1]
        /\ termRead' = [termRead EXCEPT ![u] = Tail(@)]
        /\ lastRead' = [lastRead EXCEPT ![u] = line[Len(line)].n]
        /\ UNCHANGED <<termReadyWrite, termWriteMutex>>
    BY <1>0, <1>3, <2>1 DEF FinishRead
  <2>3. 1 \in 1..Len(termRead[u])
    BY <2>2
  <2>4. line[Len(line)].n \in 0..MaxInput
    <3>1. Len(termRead[u][1]) \in Nat \ {0}
          /\ \A i \in 1..Len(termRead[u][1]) : termRead[u][1][i] \in Char
      BY <2>1, <2>3, LineEnds
    <3>2. line[Len(line)] \in Char
      BY <2>2, <3>1
    <3> QED
      BY <3>2 DEF Char
  <2>5. Tail(termRead[u]) \in Seq(Seq(Char)) /\ Len(Tail(termRead[u])) <= Lines
    BY <1>0, <2>1, <2>2
  <2> HIDE DEF u, line
  <2>6. MboxType'
    BY <1>0, <2>1, <2>2, <2>4, <2>5
  <2>7. CallType' /\ DaemonType' /\ DeviceType'
    BY <1>0, <1>3 DEF FinishRead, Return
  <2> QED
    BY <2>6, <2>7
<1>4. ASSUME NEW p \in Proc, LockTerm(p) PROVE TypeOK'
  <2>1. args[p].unit \in Unit
    BY <1>4, CallChecked DEF LockTerm
  <2> QED
    BY <1>0, <1>4, <2>1 DEF LockTerm
<1>5. ASSUME NEW p \in Proc, WriteChar(p) PROVE TypeOK'
  <2> DEFINE u == args[p].unit
             c == [proc |-> p, i |-> sent[p] + 1, len |-> args[p].len]
  <2>1. u \in Unit /\ c \in Output
    BY <1>0, <1>5, CallChecked DEF WriteChar, Output
  <2>2. xmit' \in [Unit -> Output \cup {NULL}] /\ xmitInt' \in [Unit -> BOOLEAN]
    BY <1>0, <1>5, <2>1 DEF WriteChar, DeviceOutput
  <2>3. MboxType'
    BY <1>0, <1>5, <2>1 DEF WriteChar
  <2>4. CallType'
    BY <1>0, <1>5 DEF WriteChar
  <2>5. DaemonType' /\ DeviceType'
    BY <1>0, <1>5, <2>2 DEF WriteChar
  <2> QED
    BY <2>3, <2>4, <2>5
<1>6. ASSUME NEW p \in Proc, EndWrite(p) PROVE TypeOK'
  <2>1. args[p].unit \in Unit
    BY <1>6, CallChecked DEF EndWrite
  <2> QED
    BY <1>0, <1>6, <2>1 DEF EndWrite, Return
<1>7. ASSUME NEW u \in Unit, NEW nl \in BOOLEAN, NEW trans \in {Transmitter(u), "error"},
             Type(u, nl, trans) PROVE TypeOK'
  <2>1. Received([n |-> typed[u] + 1, nl |-> nl], trans) \in Status
    BY <1>0, <1>7 DEF Type, Received, Transmitter, Status, Char
  <2> QED
    BY <1>0, <1>7, <2>1 DEF Type, Interrupt
<1>8. ASSUME NEW u \in Unit, XmitDone(u) PROVE TypeOK'
  <2>1. Received(NULL, "ready") \in Status
    BY DEF Received, Status
  <2> QED
    BY <1>0, <1>8, <2>1 DEF XmitDone, Interrupt
<1>9. ASSUME NEW u \in Unit, Break(u) PROVE TypeOK'
  <2>1. PICK stat \in Status : Interrupt(u, stat)
    <3>1. /\ [Received(NULL, Transmitter(u)) EXCEPT !.broken = TRUE] \in Status
          /\ Received(NULL, "error") \in Status
      BY DEF Received, Transmitter, Status
    <3> QED
      BY <1>9, <3>1 DEF Break
  <2> QED
    BY <1>0, <1>9, <2>1 DEF Break, Interrupt
<1>10. ASSUME NEW u \in Unit, WaitDevice(u) PROVE TypeOK'
  BY <1>0, <1>10 DEF WaitDevice
<1>11. ASSUME NEW u \in Unit, Receive(u) PROVE TypeOK'
  <2>1. status[u] \in Status
    BY <1>0, <1>11 DEF Receive, DaemonInv
  <2>2. CASE status[u].recv = NULL
    BY <1>0, <1>11, <2>2 DEF Receive
  <2>3. CASE status[u].recv # NULL
    <3> DEFINE c == status[u].recv
               e == Extended(u, c)
    <3>1. c \in Char
      BY <2>1, <2>3 DEF Status
    <3>2. e \in Seq(Char) /\ Len(e) <= MaxLine
      BY <1>0, <3>1 DEF Extended, Full
    <3>3. /\ termLine' = [termLine EXCEPT ![u] = IF Ends(u, c) THEN <<>> ELSE e]
          /\ termRead' = [termRead EXCEPT ![u] =
                            IF Ends(u, c) THEN Kept(@, e) ELSE @]
      BY <1>11, <2>3 DEF Receive, NextLine
    <3> HIDE DEF e
    <3>4. termRead[u] \in Seq(Seq(Char)) /\ Len(termRead[u]) <= Lines
      BY <1>0
    <3>5. /\ Append(termRead[u], e) \in Seq(Seq(Char))
          /\ Len(Append(termRead[u], e)) = Len(termRead[u]) + 1
      BY <3>2, <3>4
    <3>6. MboxType'
      BY <1>0, <1>11, <3>3, <3>4, <3>5 DEF Receive, Kept
    <3>7. DaemonType'
      BY <1>0, <1>11, <3>2, <3>3 DEF Receive
    <3>8. CallType' /\ DeviceType'
      BY <1>0, <1>11 DEF Receive
    <3> QED
      BY <3>6, <3>7, <3>8
  <2> QED
    BY <2>2, <2>3
<1>12. ASSUME NEW u \in Unit, Transmit(u) PROVE TypeOK'
  BY <1>0, <1>12 DEF Transmit
<1>13. ASSUME NEW u \in Unit, Halt(u) PROVE TypeOK'
  BY <1>0, <1>13 DEF Halt
<1>14. CASE UNCHANGED vars
  BY <1>0, <1>14 DEF vars
<1> QED
  BY <1>1, <1>2, <1>3, <1>4, <1>5, <1>6, <1>7, <1>8, <1>9, <1>10, <1>11, <1>12,
  <1>13, <1>14 DEF Next, Daemon

-----------------------------------------------------------------------------
(* The handlers and the lock. *)
LEMMA CallStep == Inv /\ [Next]_vars => CallInv'
<1> SUFFICES ASSUME Inv, [Next]_vars PROVE CallInv'
  OBVIOUS
<1> USE DEF CallInv, Accepted
<1>0. CallType /\ CallInv
  BY DEF Inv, TypeOK
<1>1. ASSUME NEW p \in Proc, NEW c \in Call, Start(p, c) PROVE CallInv'
  BY <1>0, <1>1 DEF Start, CallType
<1>2. ASSUME NEW p \in Proc, FinishRead(p) PROVE CallInv'
  BY <1>0, <1>2 DEF FinishRead, Return, CallType
<1>3. ASSUME NEW p \in Proc, LockTerm(p) PROVE CallInv'
  <2>1. sent[p] = 0 /\ args[p].len \in Nat \ {0}
    BY <1>0, <1>3, CallChecked DEF LockTerm
  <2> QED
    BY <1>0, <1>3, <2>1 DEF LockTerm, CallType
<1>4. ASSUME NEW p \in Proc, WriteChar(p) PROVE CallInv'
  <2>1. args[p].len \in Nat \ {0}
    BY <1>4, CallChecked DEF WriteChar
  <2> QED
    BY <1>0, <1>4, <2>1 DEF WriteChar, CallType
<1>5. ASSUME NEW p \in Proc, EndWrite(p) PROVE CallInv'
  BY <1>0, <1>5 DEF EndWrite, Return, CallType
<1>6. ASSUME NEW u \in Unit, \/ \E nl \in BOOLEAN : \E trans \in {Transmitter(u), "error"} :
                                    Type(u, nl, trans)
                             \/ XmitDone(u) \/ Break(u) \/ Daemon(u)
      PROVE  UNCHANGED callVars
  BY <1>6 DEF Type, XmitDone, Break, Daemon, WaitDevice, Receive, Transmit, Halt
<1>7. \A p \in Proc : \A c \in Call : Reject(p, c) => UNCHANGED callVars
  BY DEF Reject, vars
<1>8. UNCHANGED vars => UNCHANGED callVars
  BY DEF vars
<1>9. UNCHANGED callVars => CallInv'
  BY <1>0 DEF callVars
<1> QED
  BY <1>1, <1>2, <1>3, <1>4, <1>5, <1>6, <1>7, <1>8, <1>9 DEF Next

(* Only one process is past the MboxSend of the lock. *)
LEMMA ExclusionStep == Inv /\ [Next]_vars => WriteExclusion'
<1> SUFFICES ASSUME Inv, [Next]_vars PROVE WriteExclusion'
  OBVIOUS
<1>0. CallType /\ MboxType /\ WriteExclusion
  BY DEF Inv, TypeOK
<1>1. ASSUME NEW p \in Proc, NEW c \in Call, Start(p, c) PROVE WriteExclusion'
  BY <1>0, <1>1 DEF Start, CallType, mboxVars, WriteExclusion, Writers
<1>2. ASSUME NEW p \in Proc, FinishRead(p) PROVE WriteExclusion'
  BY <1>0, <1>2 DEF FinishRead, Return, CallType, WriteExclusion, Writers
<1>3. ASSUME NEW p \in Proc, LockTerm(p) PROVE WriteExclusion'
  <2>1. args[p].unit \in Unit /\ termWriteMutex[args[p].unit] = 0
    BY <1>3, CallChecked DEF LockTerm
  <2>2. Writers(args[p].unit) = {}
    BY <1>0, <2>1 DEF WriteExclusion
  <2>3. \A v \in Unit : termWriteMutex'[v] = IF v = args[p].unit THEN 1 ELSE termWriteMutex[v]
    BY <1>0, <1>3, <2>1 DEF LockTerm, MboxType
  <2>4. \A q \in Proc : pc'[q] = IF q = p THEN "write" ELSE pc[q]
    BY <1>0, <1>3 DEF LockTerm, CallType
  <2>5. \A q \in Proc : args'[q] = args[q]
    BY <1>3 DEF LockTerm
  <2> QED
    BY <1>0, <2>1, <2>2, <2>3, <2>4, <2>5 DEF WriteExclusion, Writers
<1>4. ASSUME NEW p \in Proc, WriteChar(p) PROVE WriteExclusion'
  BY <1>0, <1>4 DEF WriteChar, WriteExclusion, Writers
<1>5. ASSUME NEW p \in Proc, EndWrite(p) PROVE WriteExclusion'
  <2>1. args[p].unit \in Unit /\ p \in Writers(args[p].unit)
    BY <1>5, CallChecked DEF EndWrite, Writers
  <2>2. Writers(args[p].unit) = {p}
    BY <1>0, <2>1 DEF WriteExclusion
  <2>3. \A v \in Unit : termWriteMutex'[v] = IF v = args[p].unit THEN 0 ELSE termWriteMutex[v]
    BY <1>0, <1>5, <2>1 DEF EndWrite, MboxType
  <2>4. \A q \in Proc : pc'[q] = IF q = p THEN "user" ELSE pc[q]
    BY <1>0, <1>5 DEF EndWrite, Return, CallType
  <2>5. \A q \in Proc : q # p => args'[q] = args[q]
    BY <1>0, <1>5 DEF EndWrite, Return, CallType
  <2> QED
    BY <1>0, <2>1, <2>2, <2>3, <2>4, <2>5 DEF WriteExclusion, Writers
<1>6. ASSUME NEW u \in Unit, \/ \E nl \in BOOLEAN : \E trans \in {Transmitter(u), "error"} :
                                    Type(u, nl, trans)
                             \/ XmitDone(u) \/ Break(u) \/ Daemon(u)
      PROVE  UNCHANGED <<pc, args, termWriteMutex>>
  BY <1>6 DEF Type, XmitDone, Break, Daemon, WaitDevice, Receive, Transmit, Halt,
     callVars, mboxVars
<1>7. \A p \in Proc : \A c \in Call : Reject(p, c) => UNCHANGED <<pc, args, termWriteMutex>>
  BY DEF Reject, vars, callVars, mboxVars
<1>8. UNCHANGED vars => UNCHANGED <<pc, args, termWriteMutex>>
  BY DEF vars, callVars, mboxVars
<1>9. UNCHANGED <<pc, args, termWriteMutex>> => WriteExclusion'
  BY <1>0 DEF WriteExclusion, Writers
<1> QED
  BY <1>1, <1>2, <1>3, <1>4, <1>5, <1>6, <1>7, <1>8, <1>9 DEF Next

-----------------------------------------------------------------------------
(* A daemon that has a status has it until Transmit, and above the callers *)
(* nothing comes to its slot meanwhile.                                    *)
LEMMA DaemonStep == Inv /\ [Next]_vars => DaemonInv'
<1> SUFFICES ASSUME Inv, [Next]_vars PROVE DaemonInv'
  OBVIOUS
<1> USE DEF DaemonInv
<1>0. DaemonType /\ DeviceType /\ DaemonInv
  BY DEF Inv, TypeOK
<1>1. ASSUME NEW u \in Unit,
             (\E nl \in BOOLEAN : \E trans \in {Transmitter(u), "error"} : Type(u, nl, trans))
             \/ XmitDone(u) \/ Break(u)
      PROVE  DaemonInv'
  <2>1. /\ UNCHANGED <<below, dpc, status>>
        /\ below => \A v \in Unit : dpc[v] = "wait"
    BY <1>1 DEF Type, XmitDone, Break, MayRun, daemonVars
  <2>2. \A v \in Unit : devMbox[v] = NULL /\ v # u => devMbox'[v] = NULL
    BY <1>0, <1>1 DEF Type, XmitDone, Break, Interrupt, DeviceType
  <2> QED
    BY <1>0, <2>1, <2>2
<1>2. ASSUME NEW u \in Unit, WaitDevice(u) PROVE DaemonInv'
  BY <1>0, <1>2 DEF WaitDevice, DaemonType, DeviceType
<1>3. ASSUME NEW u \in Unit, Receive(u) PROVE DaemonInv'
  BY <1>0, <1>3 DEF Receive, DaemonType, deviceVars
<1>4. ASSUME NEW u \in Unit, Transmit(u) PROVE DaemonInv'
  BY <1>0, <1>4 DEF Transmit, DaemonType, deviceVars
<1>5. ASSUME NEW u \in Unit, Halt(u) PROVE UNCHANGED <<below, dpc, status, devMbox>>
  BY <1>5 DEF Halt, deviceVars
<1>6. ASSUME NEW p \in Proc, \/ \E c \in Call : Start(p, c) \/ Reject(p, c)
                             \/ FinishRead(p) \/ LockTerm(p) \/ WriteChar(p) \/ EndWrite(p)
      PROVE  UNCHANGED <<below, dpc, status, devMbox>>
  BY <1>6 DEF Start, Reject, FinishRead, LockTerm, WriteChar, EndWrite, vars, daemonVars,
     deviceVars
<1>7. UNCHANGED vars => UNCHANGED <<below, dpc, status, devMbox>>
  BY DEF vars, daemonVars, deviceVars
<1>8. UNCHANGED <<below, dpc, status, devMbox>> => DaemonInv'
  BY <1>0
<1> QED
  BY <1>1, <1>2, <1>3, <1>4, <1>5, <1>6, <1>7, <1>8 DEF Next, Daemon

-----------------------------------------------------------------------------
(* The lines.  Numbers of characters are integers, wherever they are. *)
LEMMA CharNumbers ==
  ASSUME Inv, NEW u \in Unit
  PROVE  /\ lastRead[u] \in Int /\ typed[u] \in Int
         /\ \A i \in 1..Len(termLine[u]) : termLine[u][i].n \in Int
         /\ \A k \in 1..Len(termRead[u]) : \A i \in 1..Len(termRead[u][k]) :
              termRead[u][k][i].n \in Int
         /\ InStatus(u) # NULL => InStatus(u) \in Char /\ InStatus(u).n \in Int
         /\ InSlot(u) # NULL => InSlot(u) \in Char /\ InSlot(u).n \in Int
<1>1. \A c \in Char : c.n \in Int
  BY DEF Char
<1>2. lastRead[u] \in Int /\ typed[u] \in Int
  BY DEF Inv, TypeOK, MboxType, DeviceType
<1>3. \A i \in 1..Len(termLine[u]) : termLine[u][i] \in Char
  BY ElementOfSeq DEF Inv, TypeOK, DaemonType
<1>4. \A k \in 1..Len(termRead[u]) : \A i \in 1..Len(termRead[u][k]) :
        termRead[u][k][i] \in Char
  BY LineEnds
<1>5. InStatus(u) # NULL => InStatus(u) \in Char
  <2>1. dpc[u] = "recv" => status[u] \in Status
    BY DEF Inv, TypeOK, DaemonType, DaemonInv
  <2> QED
    BY <2>1 DEF InStatus, Status
<1>6. InSlot(u) # NULL => InSlot(u) \in Char
  <2>1. devMbox[u] # NULL => devMbox[u] \in Status
    BY DEF Inv, TypeOK, DeviceType
  <2> QED
    BY <2>1 DEF InSlot, Status
<1> QED
  BY <1>1, <1>2, <1>3, <1>4, <1>5, <1>6

(* The character after a line's last, when it comes, goes to its end. *)
LEMMA Extension ==
  ASSUME Inv, NEW u \in Unit, NEW c \in Char, InStatus(u) = c
  PROVE  LET e == Extended(u, c)
         IN  /\ e \in Seq(Char) /\ e # <<>> /\ Typed(e)
             /\ \A i \in 1..Len(e) - 1 : ~e[i].nl
             /\ Ends(u, c) => e[Len(e)].nl \/ Len(e) = MaxLine
             /\ ~Ends(u, c) => /\ \A i \in 1..Len(e) : ~e[i].nl
                               /\ e[Len(e)] = c
             /\ \A i \in 1..Len(e) : e[i] = c \/ \E j \in 1..Len(termLine[u]) : e[i] = termLine[u][j]
<1> DEFINE l == termLine[u]
<1>1. l \in Seq(Char) /\ Len(l) \in Nat
  BY DEF Inv, TypeOK, DaemonType
<1>2. Typed(l) /\ \A i \in 1..Len(l) : ~l[i].nl
  BY DEF Inv, LineInv
<1>3. CASE Full(u)
  <2>1. Extended(u, c) = l /\ Len(l) = MaxLine /\ MaxLine \in Nat \ {0}
    BY <1>3, TerminalNumbers DEF Extended, Full
  <2>2. l # <<>>
    BY <2>1
  <2>3. Ends(u, c)
    BY <1>3 DEF Ends
  <2> QED
    BY <1>1, <1>2, <2>1, <2>2, <2>3
<1>4. CASE ~Full(u)
  <2> DEFINE e == Append(l, c)
  <2>1. Extended(u, c) = e
    BY <1>4 DEF Extended
  <2>2. /\ e \in Seq(Char) /\ Len(e) = Len(l) + 1 /\ e[Len(e)] = c
        /\ \A i \in 1..Len(l) : e[i] = l[i]
    BY <1>1
  <2>3. Typed(e)
    <3>1. l # <<>> => c.n > l[Len(l)].n /\ (below => c.n = l[Len(l)].n + 1)
      <4>0. c # NULL
        BY TerminalNull
      <4>1. Precedes(u, c.n)
        BY <4>0 DEF Inv, ArrivalInv
      <4>2. ASSUME l # <<>> PROVE Len(l) \in 1..Len(l)
        BY <1>1, <4>2
      <4>3. below => c.n = typed[u] /\ (l # <<>> => l[Len(l)].n = typed[u] - 1)
        BY <4>0 DEF Inv, AdjacentInv, Pending
      <4> QED
        BY <4>1, <4>2, <4>3, CharNumbers DEF Precedes
    <3>2. \A i \in 1..Len(l) - 1 : IF below THEN l[i + 1].n = l[i].n + 1
                                           ELSE l[i + 1].n > l[i].n
      BY <1>2 DEF Typed
    <3>3. \A i \in 1..Len(e) - 1 : i \in 1..Len(l) - 1 \/ (i = Len(l) /\ l # <<>>)
      BY <1>1, <2>2
    <3>4. \A i \in 1..Len(e) - 1 : e[i] = l[i] /\ e[i + 1] = IF i = Len(l) THEN c ELSE l[i + 1]
      BY <1>1, <2>2, <3>3
    <3> QED
      BY <1>1, <3>1, <3>2, <3>3, <3>4 DEF Typed
  <2> QED
    BY <1>1, <1>2, <1>4, <2>1, <2>2, <2>3 DEF Ends
<1> QED
  BY <1>3, <1>4

(* What Receive does with a character, or without one. *)
LEMMA ReceiveShape ==
  ASSUME Inv, NEW u \in Unit, Receive(u), NEW e, e = Extended(u, InStatus(u))
  PROVE  /\ UNCHANGED <<below, lastRead, typed, status, devMbox>>
         /\ dpc' = [dpc EXCEPT ![u] = "xmit"] /\ dpc[u] = "recv"
         /\ InStatus(u) = status[u].recv
         /\ \A v \in Unit \ {u} : termRead'[v] = termRead[v] /\ termLine'[v] = termLine[v]
         /\ InStatus(u) = NULL => UNCHANGED <<termRead, termLine>>
         /\ InStatus(u) # NULL =>
              /\ termLine'[u] = IF Ends(u, InStatus(u)) THEN <<>> ELSE e
              /\ termRead'[u] = IF Ends(u, InStatus(u)) THEN Kept(termRead[u], e)
                                ELSE termRead[u]
              /\ termRead'[u] # termRead[u] =>
                   Ends(u, InStatus(u)) /\ termRead'[u] = Append(termRead[u], e)
<1>1. termRead \in [Unit -> Seq(Seq(Char))] /\ termLine \in [Unit -> Seq(Char)]
  BY DEF Inv, TypeOK, MboxType, DaemonType
<1>2. /\ UNCHANGED <<below, lastRead, typed, status, devMbox>>
      /\ dpc' = [dpc EXCEPT ![u] = "xmit"] /\ dpc[u] = "recv"
      /\ InStatus(u) = status[u].recv
  BY DEF Receive, deviceVars, InStatus
<1>3. CASE InStatus(u) = NULL
  <2>1. UNCHANGED <<termRead, termLine>>
    BY <1>2, <1>3 DEF Receive
  <2> QED
    BY <1>2, <1>3, <2>1
<1>4. CASE InStatus(u) # NULL
  <2> DEFINE c == InStatus(u)
  <2>1. /\ termLine' = [termLine EXCEPT ![u] = IF Ends(u, c) THEN <<>> ELSE e]
        /\ termRead' = [termRead EXCEPT ![u] =
                          IF Ends(u, c) THEN Kept(@, e) ELSE @]
    BY <1>2, <1>4 DEF Receive, NextLine
  <2> HIDE DEF c
  <2>2. termLine'[u] = IF Ends(u, c) THEN <<>> ELSE e
    BY <1>1, <2>1
  <2>3. termRead'[u] = IF Ends(u, c) THEN Kept(termRead[u], e) ELSE termRead[u]
    BY <1>1, <2>1
  <2>4. \A v \in Unit \ {u} : termRead'[v] = termRead[v] /\ termLine'[v] = termLine[v]
    BY <1>1, <2>1
  <2> QED
    BY <1>2, <1>4, <2>2, <2>3, <2>4 DEF c, Kept
<1> QED
  BY <1>3, <1>4

(* What FinishRead takes out of the mailbox. *)
LEMMA ReadShape ==
  ASSUME Inv, NEW p \in Proc, FinishRead(p), NEW u, u = args[p].unit
  PROVE  /\ u \in Unit /\ 1 \in 1..Len(termRead[u])
         /\ UNCHANGED <<below, termLine, dpc, status, devMbox, typed>>
         /\ \A v \in Unit \ {u} : termRead'[v] = termRead[v] /\ lastRead'[v] = lastRead[v]
         /\ Len(termRead'[u]) = Len(termRead[u]) - 1 /\ Len(termRead[u]) \in Nat
         /\ \A k \in 1..Len(termRead'[u]) : termRead'[u][k] = termRead[u][k + 1]
         /\ lastRead'[u] = termRead[u][1][Len(termRead[u][1])].n
<1> DEFINE q == termRead[u]
<1>1. u \in Unit
  BY CallChecked DEF FinishRead
<1>2. /\ termRead \in [Unit -> Seq(Seq(Char))] /\ lastRead \in [Unit -> 0..MaxInput]
      /\ q \in Seq(Seq(Char)) /\ q # <<>>
  BY <1>1 DEF Inv, TypeOK, MboxType, FinishRead
<1>3. /\ Len(q) \in Nat \ {0} /\ Head(q) = q[1] /\ Len(Tail(q)) = Len(q) - 1
      /\ \A k \in 1..Len(Tail(q)) : Tail(q)[k] = q[k + 1]
  BY <1>2, HeadTailProperties, EmptySeq
<1>4. /\ termRead' = [termRead EXCEPT ![u] = Tail(@)]
      /\ lastRead' = [lastRead EXCEPT ![u] = Head(q)[Len(Head(q))].n]
      /\ UNCHANGED <<below, termLine, dpc, status, devMbox, typed>>
  BY DEF FinishRead, daemonVars, deviceVars
<1>5. termRead'[u] = Tail(q) /\ lastRead'[u] = q[1][Len(q[1])].n
  BY <1>1, <1>2, <1>3, <1>4
<1>6. \A v \in Unit \ {u} : termRead'[v] = termRead[v] /\ lastRead'[v] = lastRead[v]
  BY <1>2, <1>4
<1>7. 1 \in 1..Len(q)
  BY <1>3
<1>8. /\ Len(termRead'[u]) = Len(q) - 1
      /\ \A k \in 1..Len(termRead'[u]) : termRead'[u][k] = q[k + 1]
  BY <1>3, <1>5
<1> QED
  BY <1>1, <1>3, <1>4, <1>5, <1>6, <1>7, <1>8

(* No other step touches the lines. *)
LEMMA LineFrame ==
  ASSUME [Next]_vars, \A p \in Proc : ~FinishRead(p), \A u \in Unit : ~Receive(u)
  PROVE  UNCHANGED <<below, termRead, termLine, lastRead>>
<1>1. ASSUME NEW p \in Proc, \/ \E c \in Call : Start(p, c) \/ Reject(p, c)
                             \/ LockTerm(p) \/ WriteChar(p) \/ EndWrite(p)
      PROVE  UNCHANGED <<below, termRead, termLine, lastRead>>
  BY <1>1 DEF Start, Reject, LockTerm, WriteChar, EndWrite, vars, daemonVars, mboxVars
<1>2. ASSUME NEW u \in Unit, \/ \E nl \in BOOLEAN : \E trans \in {Transmitter(u), "error"} :
                                    Type(u, nl, trans)
                             \/ XmitDone(u) \/ Break(u) \/ WaitDevice(u)
                             \/ Transmit(u) \/ Halt(u)
      PROVE  UNCHANGED <<below, termRead, termLine, lastRead>>
  BY <1>2 DEF Type, XmitDone, Break, WaitDevice, Transmit, Halt, daemonVars, mboxVars
<1>3. UNCHANGED vars => UNCHANGED <<below, termRead, termLine, lastRead>>
  BY DEF vars, daemonVars, mboxVars
<1> QED
  BY <1>1, <1>2, <1>3 DEF Next, Daemon

(* Every line is whole, and what is read comes in the order of typing. *)
LEMMA LineStep == Inv /\ [Next]_vars => LinesWhole' /\ LineInv' /\ ReadOnce'
<1> SUFFICES ASSUME Inv, [Next]_vars PROVE LinesWhole' /\ LineInv' /\ ReadOnce'
  OBVIOUS
<1>0. LinesWhole /\ LineInv /\ ReadOnce
  BY DEF Inv
<1>1. ASSUME NEW p \in Proc, FinishRead(p) PROVE LinesWhole' /\ LineInv' /\ ReadOnce'
  <2>1. PICK u : u = args[p].unit
    OBVIOUS
  <2>2. u \in Unit
    BY <1>1, <2>1, ReadShape
  <2>3. UNCHANGED <<below, termLine>>
    BY <1>1, <2>1, ReadShape
  <2>4. \A v \in Unit \ {u} : termRead'[v] = termRead[v] /\ lastRead'[v] = lastRead[v]
    BY <1>1, <2>1, ReadShape
  <2>5. /\ Len(termRead'[u]) = Len(termRead[u]) - 1 /\ Len(termRead[u]) \in Nat \ {0}
        /\ \A k \in 1..Len(termRead'[u]) : termRead'[u][k] = termRead[u][k + 1]
        /\ lastRead'[u] = termRead[u][1][Len(termRead[u][1])].n
    BY <1>1, <2>1, ReadShape
  <2>6. LinesWhole'
    <3>1. \A k \in 1..Len(termRead'[u]) : k + 1 \in 1..Len(termRead[u])
      BY <2>5
    <3>2. \A k \in 1..Len(termRead'[u]) : WholeLine(termRead'[u][k])
      BY <1>0, <2>2, <2>5, <3>1 DEF LinesWhole
    <3>3. \A v \in Unit \ {u} : \A k \in 1..Len(termRead'[v]) : WholeLine(termRead'[v][k])
      BY <1>0, <2>4 DEF LinesWhole
    <3> QED
      BY <2>3, <3>2, <3>3 DEF LinesWhole, WholeLine, Typed
  <2>7. LineInv'
    BY <1>0, <2>3 DEF LineInv, Typed
  <2>8. ReadOnce'
    <3>1. ASSUME NEW k \in 1..Len(termRead'[u]) + 1
          PROVE  /\ k + 1 \in 1..Len(termRead[u]) + 1
                 /\ LineAt(u, k)' = LineAt(u, k + 1)
                 /\ LastBefore(u, k)' = LastBefore(u, k + 1)
      <4>1. k + 1 \in 1..Len(termRead[u]) + 1 /\ k + 1 # 1
        BY <2>5
      <4>2. LineAt(u, k)' = LineAt(u, k + 1)
        BY <2>3, <2>5 DEF LineAt
      <4>3. CASE k = 1
        BY <2>5, <4>1, <4>2, <4>3 DEF LastBefore
      <4>4. CASE k # 1
        <5>1. k - 1 \in 1..Len(termRead'[u]) /\ (k - 1) + 1 = k /\ (k + 1) - 1 = k
          BY <2>5, <4>4
        <5>2. termRead'[u][k - 1] = termRead[u][(k + 1) - 1]
          BY <2>5, <5>1
        <5> QED
          BY <4>1, <4>2, <4>4, <5>2 DEF LastBefore
      <4> QED
        BY <4>3, <4>4
    <3>2. \A v \in Unit \ {u} : \A k : LineAt(v, k)' = LineAt(v, k) /\ LastBefore(v, k)' = LastBefore(v, k)
      BY <2>3, <2>4 DEF LineAt, LastBefore
    <3>3. \A k \in 1..Len(termRead'[u]) + 1 :
            \A i \in 1..Len(LineAt(u, k)') : LineAt(u, k)'[i].n > LastBefore(u, k)'
      BY <1>0, <2>2, <3>1 DEF ReadOnce
    <3>4. \A v \in Unit \ {u} : \A k \in 1..Len(termRead'[v]) + 1 :
            \A i \in 1..Len(LineAt(v, k)') : LineAt(v, k)'[i].n > LastBefore(v, k)'
      BY <1>0, <2>4, <3>2 DEF ReadOnce
    <3> QED
      BY <3>3, <3>4 DEF ReadOnce
  <2> QED
    BY <2>6, <2>7, <2>8
<1>2. ASSUME NEW u \in Unit, Receive(u) PROVE LinesWhole' /\ LineInv' /\ ReadOnce'
  <2> DEFINE c == InStatus(u)
             q == termRead[u]
  <2>1. PICK e : e = Extended(u, c)
    OBVIOUS
  <2>2. UNCHANGED <<below, lastRead>>
    BY <1>2, <2>1, ReceiveShape
  <2>3. \A v \in Unit \ {u} : termRead'[v] = termRead[v] /\ termLine'[v] = termLine[v]
    BY <1>2, <2>1, ReceiveShape
  <2>4. CASE c = NULL
    <3>1. UNCHANGED <<termRead, termLine>>
      BY <1>2, <2>1, <2>4, ReceiveShape
    <3> QED
      BY <1>0, <2>2, <3>1
      DEF LinesWhole, WholeLine, LineInv, ReadOnce, LineAt, LastBefore, Typed
  <2>5. CASE c # NULL
    <3>1. /\ termLine'[u] = IF Ends(u, c) THEN <<>> ELSE e
          /\ termRead'[u] = q \/ (Ends(u, c) /\ termRead'[u] = Append(q, e))
      BY <1>2, <2>1, <2>5, ReceiveShape
    <3>2. c \in Char
      BY <2>5, CharNumbers
    <3>3. /\ e \in Seq(Char) /\ e # <<>> /\ Typed(e)
          /\ \A i \in 1..Len(e) - 1 : ~e[i].nl
          /\ Ends(u, c) => e[Len(e)].nl \/ Len(e) = MaxLine
          /\ ~Ends(u, c) => \A i \in 1..Len(e) : ~e[i].nl
          /\ \A i \in 1..Len(e) : e[i] = c \/ \E j \in 1..Len(termLine[u]) : e[i] = termLine[u][j]
      BY <2>1, <3>2, Extension
    <3>4. q \in Seq(Seq(Char)) /\ Len(q) \in Nat
      BY DEF Inv, TypeOK, MboxType
    <3>5. /\ Len(Append(q, e)) = Len(q) + 1 /\ Append(q, e)[Len(q) + 1] = e
          /\ \A j \in 1..Len(q) : Append(q, e)[j] = q[j]
      BY <3>3, <3>4
    <3>6. \A j \in 1..Len(q) : termRead'[u][j] = q[j]
      BY <3>1, <3>5
    <3>7. LinesWhole'
      <4>1. \A k \in 1..Len(termRead'[u]) : WholeLine(termRead'[u][k])
        <5>1. CASE termRead'[u] = q
          BY <1>0, <5>1 DEF LinesWhole
        <5>2. CASE Ends(u, c) /\ termRead'[u] = Append(q, e)
          <6>1. WholeLine(e)
            BY <3>3, <5>2 DEF WholeLine
          <6> QED
            BY <1>0, <3>4, <3>5, <5>2, <6>1 DEF LinesWhole
        <5> QED
          BY <3>1, <5>1, <5>2
      <4>2. \A v \in Unit \ {u} : \A k \in 1..Len(termRead'[v]) : WholeLine(termRead'[v][k])
        BY <1>0, <2>3 DEF LinesWhole
      <4> QED
        BY <2>2, <4>1, <4>2 DEF LinesWhole, WholeLine, Typed
    <3>8. LineInv'
      <4>1. Typed(<<>>) /\ Len(<<>>) = 0
        BY DEF Typed
      <4>2. Typed(termLine'[u]) /\ \A i \in 1..Len(termLine'[u]) : ~termLine'[u][i].nl
        BY <3>1, <3>3, <4>1
      <4>3. \A v \in Unit : Typed(termLine'[v]) /\ \A i \in 1..Len(termLine'[v]) : ~termLine'[v][i].nl
        BY <1>0, <2>3, <4>2 DEF LineInv
      <4> QED
        BY <2>2, <4>3 DEF LineInv, Typed
    <3>9. ReadOnce'
      <4> DEFINE b == LastBefore(u, Len(q) + 1)
      <4>1. \A i \in 1..Len(termLine[u]) : termLine[u][i].n > b
        <5>1. Len(q) + 1 \in 1..Len(q) + 1 /\ Len(q) + 1 > Len(q)
          BY <3>4
        <5>2. LineAt(u, Len(q) + 1) = termLine[u]
          BY <5>1 DEF LineAt
        <5> QED
          BY <1>0, <5>1, <5>2 DEF ReadOnce
      <4>2. c.n > b
        <5>1. Precedes(u, c.n)
          BY <2>5 DEF Inv, ArrivalInv
        <5>2. CASE Len(q) = 0
          BY <5>1, <5>2 DEF Precedes, LastBefore
        <5>3. CASE Len(q) # 0
          <6>1. Len(q) \in 1..Len(q) /\ (Len(q) + 1) - 1 = Len(q) /\ Len(q) + 1 # 1
            BY <3>4, <5>3
          <6>2. Len(q[Len(q)]) \in Nat \ {0}
            BY <6>1, LineEnds
          <6>3. Len(q[Len(q)]) \in 1..Len(q[Len(q)])
            BY <6>2
          <6>4. b = q[Len(q)][Len(q[Len(q)])].n
            BY <6>1 DEF LastBefore
          <6>5. b < c.n
            BY <5>1, <6>1, <6>3, <6>4 DEF Precedes
          <6>6. b \in Int /\ c.n \in Int
            BY <2>5, <6>1, <6>3, <6>4, CharNumbers
          <6> QED
            BY <6>5, <6>6
        <5> QED
          BY <5>2, <5>3
      <4>3. \A i \in 1..Len(e) : e[i].n > b
        BY <3>3, <4>1, <4>2
      <4>4. \A k \in 1..Len(q) + 1 : LastBefore(u, k)' = LastBefore(u, k)
        <5>1. \A k \in 1..Len(q) + 1 : k = 1 \/ k - 1 \in 1..Len(q)
          BY <3>4
        <5> QED
          BY <2>2, <3>6, <5>1 DEF LastBefore
      <4>5. ASSUME NEW k \in 1..Len(q)
            PROVE  LineAt(u, k)' = LineAt(u, k) /\ k \in 1..Len(q) + 1
        <5>1. Len(termRead'[u]) \in {Len(q), Len(q) + 1}
          BY <3>1, <3>5
        <5> QED
          BY <3>4, <3>6, <5>1 DEF LineAt
      <4>6. ASSUME NEW m, m = Len(q) + 1
            PROVE  LineAt(u, m)' \in {<<>>, e}
        <5>1. CASE termRead'[u] = q
          BY <3>1, <3>4, <4>6, <5>1 DEF LineAt
        <5>2. CASE Ends(u, c) /\ termRead'[u] = Append(q, e)
          BY <3>4, <3>5, <4>6, <5>2 DEF LineAt
        <5> QED
          BY <3>1, <5>1, <5>2
      <4>7. ASSUME NEW k \in 1..Len(termRead'[u]) + 1, k \notin 1..Len(q) + 1
            PROVE  LineAt(u, k)' = <<>>
        <5>1. Ends(u, c) /\ termRead'[u] = Append(q, e)
          BY <3>1, <4>7
        <5>2. k > Len(termRead'[u])
          BY <3>4, <3>5, <4>7, <5>1
        <5> QED
          BY <3>1, <5>1, <5>2 DEF LineAt
      <4>8. ASSUME NEW k \in 1..Len(termRead'[u]) + 1
            PROVE  \A i \in 1..Len(LineAt(u, k)') : LineAt(u, k)'[i].n > LastBefore(u, k)'
        <5>1. CASE k \in 1..Len(q)
          BY <1>0, <4>4, <4>5, <5>1 DEF ReadOnce
        <5>2. CASE k = Len(q) + 1
          <6>1. LineAt(u, k)' \in {<<>>, e}
            BY <4>6, <5>2
          <6>2. LastBefore(u, k)' = b
            BY <3>4, <4>4, <5>2
          <6> QED
            BY <4>3, <6>1, <6>2
        <5>3. CASE k \notin 1..Len(q) + 1
          BY <4>7, <5>3
        <5>4. Len(termRead'[u]) \in Nat
          BY <3>1, <3>4, <3>5
        <5>5. k \in Int
          BY <5>4
        <5>6. k \in 1..Len(q) \/ k = Len(q) + 1 \/ k \notin 1..Len(q) + 1
          BY <3>4, <5>5
        <5> QED
          BY <5>1, <5>2, <5>3, <5>6
      <4>9. \A v \in Unit \ {u} : \A k : LineAt(v, k)' = LineAt(v, k) /\ LastBefore(v, k)' = LastBefore(v, k)
        BY <2>2, <2>3 DEF LineAt, LastBefore
      <4>10. \A v \in Unit \ {u} : \A k \in 1..Len(termRead'[v]) + 1 :
               \A i \in 1..Len(LineAt(v, k)') : LineAt(v, k)'[i].n > LastBefore(v, k)'
        BY <1>0, <2>3, <4>9 DEF ReadOnce
      <4> QED
        BY <4>8, <4>10 DEF ReadOnce
    <3> QED
      BY <3>7, <3>8, <3>9
  <2> QED
    BY <2>4, <2>5
<1>3. CASE UNCHANGED <<below, termRead, termLine, lastRead>>
  BY <1>0, <1>3 DEF LinesWhole, WholeLine, LineInv, ReadOnce, LineAt, LastBefore, Typed
<1> QED
  BY <1>1, <1>2, <1>3, LineFrame

-----------------------------------------------------------------------------
(* Arrival.  A bound on all that has come is a bound for what comes of it. *)
LEMMA PrecedesLater ==
  ASSUME Inv, NEW u \in Unit, NEW m \in Int, NEW n \in Int, m <= n, Precedes(u, m)
  PROVE  Precedes(u, n)
<1>1. lastRead[u] < n
  BY CharNumbers DEF Precedes
<1>2. \A i \in 1..Len(termLine[u]) : termLine[u][i].n < n
  BY CharNumbers DEF Precedes
<1>3. \A k \in 1..Len(termRead[u]) : \A i \in 1..Len(termRead[u][k]) : termRead[u][k][i].n < n
  <2>1. ASSUME NEW k \in 1..Len(termRead[u]), NEW i \in 1..Len(termRead[u][k])
        PROVE  termRead[u][k][i].n < n
    <3>1. termRead[u][k][i].n \in Int
      BY CharNumbers
    <3>2. termRead[u][k][i].n < m
      BY DEF Precedes
    <3> QED
      BY <3>1, <3>2
  <2> QED
    BY <2>1
<1> QED
  BY <1>1, <1>2, <1>3 DEF Precedes

(* What a read takes, and the line's progress, are bounded as before. *)
LEMMA PrecedesRead ==
  ASSUME Inv, NEW p \in Proc, FinishRead(p), NEW u \in Unit, NEW n, Precedes(u, n)
  PROVE  Precedes(u, n)'
<1>1. CASE u = args[p].unit
  <2>1. /\ Len(termRead'[u]) = Len(termRead[u]) - 1 /\ Len(termRead[u]) \in Nat
        /\ 1 \in 1..Len(termRead[u])
        /\ \A k \in 1..Len(termRead'[u]) : termRead'[u][k] = termRead[u][k + 1]
        /\ lastRead'[u] = termRead[u][1][Len(termRead[u][1])].n
        /\ termLine' = termLine
    BY <1>1, ReadShape
  <2>2. Len(termRead[u][1]) \in 1..Len(termRead[u][1])
    <3>1. Len(termRead[u][1]) \in Nat \ {0}
      BY <2>1, LineEnds
    <3> QED
      BY <3>1
  <2>3. \A k \in 1..Len(termRead'[u]) : k + 1 \in 1..Len(termRead[u])
    BY <2>1
  <2> QED
    BY <2>1, <2>2, <2>3 DEF Precedes
<1>2. CASE u # args[p].unit
  BY <1>2, ReadShape DEF Precedes
<1> QED
  BY <1>1, <1>2

LEMMA PrecedesReceive ==
  ASSUME Inv, NEW u \in Unit, Receive(u), NEW v \in Unit, NEW n, Precedes(v, n),
         v = u /\ InStatus(u) # NULL => InStatus(u).n < n
  PROVE  Precedes(v, n)'
<1> DEFINE c == InStatus(u)
<1>0. PICK e : e = Extended(u, c)
  OBVIOUS
<1>1. CASE v # u \/ c = NULL
  BY <1>0, <1>1, ReceiveShape DEF Precedes
<1>2. CASE v = u /\ c # NULL
  <2>1. /\ lastRead'[u] = lastRead[u]
        /\ termLine'[u] = IF Ends(u, c) THEN <<>> ELSE e
        /\ termRead'[u] = termRead[u] \/ termRead'[u] = Append(termRead[u], e)
    BY <1>0, <1>2, ReceiveShape
  <2>2. c \in Char
    BY <1>2, CharNumbers
  <2>3. /\ e \in Seq(Char)
        /\ \A i \in 1..Len(e) : e[i] = c \/ \E j \in 1..Len(termLine[u]) : e[i] = termLine[u][j]
    BY <1>0, <2>2, Extension
  <2>4. \A i \in 1..Len(e) : e[i].n < n
    BY <1>2, <2>3 DEF Precedes
  <2>5. \A i \in 1..Len(termLine'[u]) : termLine'[u][i].n < n
    <3>1. Len(<<>>) = 0
      OBVIOUS
    <3> QED
      BY <2>1, <2>4, <3>1
  <2>6. \A k \in 1..Len(termRead'[u]) : \A i \in 1..Len(termRead'[u][k]) : termRead'[u][k][i].n < n
    <3>1. termRead[u] \in Seq(Seq(Char)) /\ Len(termRead[u]) \in Nat
      BY DEF Inv, TypeOK, MboxType
    <3>2. /\ Len(Append(termRead[u], e)) = Len(termRead[u]) + 1
          /\ Append(termRead[u], e)[Len(termRead[u]) + 1] = e
          /\ \A j \in 1..Len(termRead[u]) : Append(termRead[u], e)[j] = termRead[u][j]
      BY <2>3, <3>1
    <3>3. \A k \in 1..Len(termRead'[u]) :
            (k \in 1..Len(termRead[u]) /\ termRead'[u][k] = termRead[u][k]) \/ termRead'[u][k] = e
      <4>1. CASE termRead'[u] = termRead[u]
        BY <4>1
      <4>2. CASE termRead'[u] = Append(termRead[u], e)
        BY <3>1, <3>2, <4>2
      <4> QED
        BY <2>1, <4>1, <4>2
    <3> QED
      BY <1>2, <2>4, <3>3 DEF Precedes
  <2> QED
    BY <1>2, <2>1, <2>5, <2>6 DEF Precedes
<1> QED
  BY <1>1, <1>2

(* Other steps leave all of it alone, or put a status with no character    *)
(* into an empty slot.                                                     *)
LEMMA ArrivalFrame ==
  ASSUME Inv, [Next]_vars, \A p \in Proc : ~FinishRead(p),
         \A u \in Unit : /\ ~Receive(u) /\ ~WaitDevice(u)
                         /\ \A nl \in BOOLEAN : \A trans \in {Transmitter(u), "error"} :
                                ~Type(u, nl, trans)
  PROVE  /\ UNCHANGED <<below, termRead, termLine, lastRead, typed>>
         /\ \A u \in Unit : InStatus(u)' = InStatus(u) /\ InSlot(u)' = InSlot(u)
<1> DEFINE Same == UNCHANGED typed /\ \A u \in Unit : InStatus(u)' = InStatus(u) /\ InSlot(u)' = InSlot(u)
<1>0. DaemonType /\ DeviceType
  BY DEF Inv, TypeOK
<1>1. ASSUME NEW p \in Proc, \/ \E c \in Call : Start(p, c) \/ Reject(p, c)
                             \/ LockTerm(p) \/ WriteChar(p) \/ EndWrite(p)
      PROVE  Same
  BY <1>1 DEF Start, Reject, LockTerm, WriteChar, EndWrite, vars, daemonVars, deviceVars,
     InStatus, InSlot
<1>2. ASSUME NEW u \in Unit, XmitDone(u) \/ Break(u) PROVE Same
  <2>1. UNCHANGED <<typed, dpc, status>>
    BY <1>2 DEF XmitDone, Break, daemonVars
  <2>2. PICK stat : stat.recv = NULL /\ (UNCHANGED devMbox \/ Interrupt(u, stat))
    <3>1. /\ Received(NULL, "ready").recv = NULL /\ Received(NULL, "error").recv = NULL
          /\ [Received(NULL, Transmitter(u)) EXCEPT !.broken = TRUE].recv = NULL
      BY DEF Received
    <3>2. CASE XmitDone(u)
      BY <3>1, <3>2 DEF XmitDone
    <3>3. CASE Break(u)
      BY <3>1, <3>3 DEF Break
    <3> QED
      BY <1>2, <3>2, <3>3
  <2>3. \A v \in Unit : devMbox'[v] = devMbox[v] \/ (devMbox[v] = NULL /\ devMbox'[v] = stat)
    BY <1>0, <2>2 DEF Interrupt, DeviceType
  <2> QED
    BY <2>1, <2>2, <2>3 DEF InStatus, InSlot
<1>3. ASSUME NEW u \in Unit, Transmit(u) PROVE Same
  BY <1>0, <1>3 DEF Transmit, deviceVars, DaemonType, InStatus, InSlot
<1>4. ASSUME NEW u \in Unit, Halt(u) PROVE Same
  BY <1>4 DEF Halt, deviceVars, InStatus, InSlot
<1>5. UNCHANGED vars => Same
  BY DEF vars, daemonVars, deviceVars, InStatus, InSlot
<1>6. UNCHANGED <<below, termRead, termLine, lastRead>>
  BY LineFrame
<1> QED
  BY <1>1, <1>2, <1>3, <1>4, <1>5, <1>6 DEF Next, Daemon

(* A character that is typed goes to the slot, or is lost. *)
LEMMA TypeShape ==
  ASSUME Inv, NEW u \in Unit, NEW nl \in BOOLEAN, NEW trans \in {Transmitter(u), "error"},
             Type(u, nl, trans)
  PROVE  /\ UNCHANGED <<below, termRead, termLine, lastRead>>
         /\ typed'[u] = typed[u] + 1
         /\ \A v \in Unit \ {u} : typed'[v] = typed[v] /\ InSlot(v)' = InSlot(v)
         /\ \A v \in Unit : InStatus(v)' = InStatus(v)
         /\ IF devMbox[u] = NULL THEN InSlot(u)' # NULL /\ InSlot(u)'.n = typed[u] + 1
                                 ELSE InSlot(u)' = InSlot(u)
<1> DEFINE c == [n |-> typed[u] + 1, nl |-> nl]
<1>0. DaemonType /\ DeviceType
  BY DEF Inv, TypeOK
<1>1. c \in Char
  <2>1. typed[u] \in 0..MaxInput /\ typed[u] < MaxInput
    BY <1>0 DEF Type, DeviceType
  <2> QED
    BY <2>1, TerminalNumbers DEF Char
<1>2. PICK stat : stat \in Status /\ stat.recv = c /\ Interrupt(u, stat)
  <2>1. Received(c, trans) \in Status /\ Received(c, trans).recv = c
    BY <1>1 DEF Received, Transmitter, Status
  <2> QED
    BY <2>1 DEF Type
<1>3. stat # NULL /\ c # NULL
  BY <1>1, <1>2, TerminalNull
<1>4. UNCHANGED <<below, termRead, termLine, lastRead, dpc, status>>
  BY DEF Type, mboxVars, daemonVars
<1>5. /\ devMbox'[u] = IF devMbox[u] = NULL THEN stat ELSE devMbox[u]
      /\ \A v \in Unit \ {u} : devMbox'[v] = devMbox[v]
  BY <1>0, <1>2 DEF Interrupt, DeviceType
<1>6. typed'[u] = typed[u] + 1 /\ \A v \in Unit \ {u} : typed'[v] = typed[v]
  BY <1>0 DEF Type, DeviceType
<1>7. \A v \in Unit \ {u} : InSlot(v)' = InSlot(v)
  BY <1>5 DEF InSlot
<1>8. \A v \in Unit : InStatus(v)' = InStatus(v)
  BY <1>4 DEF InStatus
<1>9. CASE devMbox[u] = NULL
  <2>1. InSlot(u)' = c
    BY <1>2, <1>3, <1>5, <1>9 DEF InSlot
  <2> QED
    BY <1>3, <1>4, <1>6, <1>7, <1>8, <1>9, <2>1
<1>10. CASE devMbox[u] # NULL
  <2>1. InSlot(u)' = InSlot(u)
    BY <1>5, <1>10 DEF InSlot
  <2> QED
    BY <1>4, <1>6, <1>7, <1>8, <1>10, <2>1
<1> QED
  BY <1>9, <1>10

(* waitDevice moves the slot's status to the daemon. *)
LEMMA WaitShape ==
  ASSUME Inv, NEW u \in Unit, WaitDevice(u)
  PROVE  /\ UNCHANGED <<below, termRead, termLine, lastRead, typed>>
         /\ InStatus(u) = NULL /\ InStatus(u)' = InSlot(u) /\ InSlot(u)' = NULL
         /\ \A v \in Unit \ {u} : InStatus(v)' = InStatus(v) /\ InSlot(v)' = InSlot(v)
  BY DEF WaitDevice, mboxVars, Inv, TypeOK, DaemonType, DeviceType, InStatus, InSlot

LEMMA ArrivalStep == Inv /\ [Next]_vars => ArrivalInv'
<1> SUFFICES ASSUME Inv, [Next]_vars PROVE ArrivalInv'
  OBVIOUS
<1> DEFINE Good(u) == /\ Precedes(u, typed[u] + 1)
                      /\ InStatus(u) # NULL => InStatus(u).n <= typed[u] /\ Precedes(u, InStatus(u).n)
                      /\ InSlot(u) # NULL => InSlot(u).n <= typed[u] /\ Precedes(u, InSlot(u).n)
                      /\ InStatus(u) # NULL /\ InSlot(u) # NULL => InStatus(u).n < InSlot(u).n
<1>0. \A u \in Unit : Good(u)
  BY DEF Inv, ArrivalInv
<1>1. ASSUME NEW p \in Proc, FinishRead(p) PROVE ArrivalInv'
  <2>1. UNCHANGED <<dpc, status, devMbox, typed>>
    BY <1>1, ReadShape
  <2>2. \A v \in Unit : InStatus(v)' = InStatus(v) /\ InSlot(v)' = InSlot(v)
    BY <2>1 DEF InStatus, InSlot
  <2>3. \A v \in Unit : \A n : Precedes(v, n) => Precedes(v, n)'
    BY <1>1, PrecedesRead
  <2> QED
    BY <1>0, <2>1, <2>2, <2>3 DEF ArrivalInv
<1>2. ASSUME NEW u \in Unit, Receive(u) PROVE ArrivalInv'
  <2>1. UNCHANGED <<status, devMbox, typed>> /\ dpc' = [dpc EXCEPT ![u] = "xmit"]
    BY <1>2, ReceiveShape
  <2>2. /\ InStatus(u)' = NULL
        /\ \A v \in Unit \ {u} : InStatus(v)' = InStatus(v)
        /\ \A v \in Unit : InSlot(v)' = InSlot(v)
    BY <2>1 DEF InStatus, InSlot, Inv, TypeOK, DaemonType
  <2>3. ASSUME NEW v \in Unit, NEW n, Precedes(v, n),
               v = u /\ InStatus(u) # NULL => InStatus(u).n < n
        PROVE  Precedes(v, n)'
    BY <1>2, <2>3, PrecedesReceive
  <2>4. \A v \in Unit : Precedes(v, typed[v] + 1)'
    <3>1. InStatus(u) # NULL => InStatus(u).n < typed[u] + 1
      BY <1>0, CharNumbers
    <3>2. ASSUME NEW v \in Unit, NEW n, n = typed[v] + 1 PROVE Precedes(v, n)'
      BY <1>0, <2>3, <3>1, <3>2
    <3> QED
      BY <2>1, <3>2 DEF Precedes
  <2>5. \A v \in Unit \ {u} : InStatus(v) # NULL => Precedes(v, InStatus(v).n)'
    <3>1. ASSUME NEW v \in Unit \ {u}, InStatus(v) # NULL, NEW n, n = InStatus(v).n
          PROVE  Precedes(v, n)'
      BY <1>0, <2>3, <3>1
    <3> QED
      BY <2>2, <3>1 DEF Precedes
  <2>6. \A v \in Unit : InSlot(v) # NULL => Precedes(v, InSlot(v).n)'
    <3>1. ASSUME NEW v \in Unit, InSlot(v) # NULL, NEW n, n = InSlot(v).n
          PROVE  Precedes(v, n)'
      BY <1>0, <2>3, <3>1
    <3> QED
      BY <2>2, <3>1 DEF Precedes
  <2> QED
    BY <1>0, <2>1, <2>2, <2>4, <2>5, <2>6 DEF ArrivalInv
<1>3. ASSUME NEW u \in Unit, NEW nl \in BOOLEAN, NEW trans \in {Transmitter(u), "error"},
             Type(u, nl, trans) PROVE ArrivalInv'
  <2>1. UNCHANGED <<termRead, termLine, lastRead>>
    BY <1>3, TypeShape
  <2>2. \A v \in Unit : \A n : Precedes(v, n)' <=> Precedes(v, n)
    BY <2>1 DEF Precedes
  <2>3. /\ typed'[u] = typed[u] + 1
        /\ \A v \in Unit \ {u} : typed'[v] = typed[v] /\ InSlot(v)' = InSlot(v)
        /\ \A v \in Unit : InStatus(v)' = InStatus(v)
        /\ IF devMbox[u] = NULL THEN InSlot(u)' # NULL /\ InSlot(u)'.n = typed[u] + 1
                                ELSE InSlot(u)' = InSlot(u)
    BY <1>3, TypeShape
  <2>4. Precedes(u, typed'[u] + 1)
    BY <1>0, <2>3, PrecedesLater, CharNumbers
  <2>5. \A v \in Unit : typed[v] \in Int /\ (InStatus(v) # NULL => InStatus(v).n \in Int)
                        /\ (InSlot(v) # NULL => InSlot(v).n \in Int)
    BY CharNumbers
  <2>6. /\ Precedes(u, typed'[u] + 1)
        /\ InStatus(u)' # NULL => InStatus(u)'.n <= typed'[u] /\ Precedes(u, InStatus(u)'.n)
        /\ InSlot(u)' # NULL => InSlot(u)'.n <= typed'[u] /\ Precedes(u, InSlot(u)'.n)
        /\ InStatus(u)' # NULL /\ InSlot(u)' # NULL => InStatus(u)'.n < InSlot(u)'.n
    <3>1. CASE devMbox[u] = NULL
      BY <1>0, <2>3, <2>4, <2>5, <3>1
    <3>2. CASE devMbox[u] # NULL
      BY <1>0, <2>3, <2>4, <2>5, <3>2
    <3> QED
      BY <3>1, <3>2
  <2>7. \A v \in Unit \ {u} :
          /\ Precedes(v, typed'[v] + 1)
          /\ InStatus(v)' # NULL => InStatus(v)'.n <= typed'[v] /\ Precedes(v, InStatus(v)'.n)
          /\ InSlot(v)' # NULL => InSlot(v)'.n <= typed'[v] /\ Precedes(v, InSlot(v)'.n)
          /\ InStatus(v)' # NULL /\ InSlot(v)' # NULL => InStatus(v)'.n < InSlot(v)'.n
    BY <1>0, <2>3
  <2> HIDE DEF Good
  <2> QED
    BY <2>1, <2>6, <2>7 DEF ArrivalInv, Precedes
<1>4. ASSUME NEW u \in Unit, WaitDevice(u) PROVE ArrivalInv'
  <2>1. UNCHANGED <<termRead, termLine, lastRead, typed>>
    BY <1>4, WaitShape
  <2>2. \A v \in Unit : \A n : Precedes(v, n)' <=> Precedes(v, n)
    BY <2>1 DEF Precedes
  <2>3. /\ InStatus(u)' = InSlot(u) /\ InSlot(u)' = NULL
        /\ \A v \in Unit \ {u} : InStatus(v)' = InStatus(v) /\ InSlot(v)' = InSlot(v)
    BY <1>4, WaitShape
  <2> QED
    BY <1>0, <2>1, <2>3 DEF ArrivalInv, Precedes
<1>5. CASE /\ UNCHANGED <<termRead, termLine, lastRead, typed>>
           /\ \A u \in Unit : InStatus(u)' = InStatus(u) /\ InSlot(u)' = InSlot(u)
  BY <1>0, <1>5 DEF ArrivalInv, Precedes
<1> QED
  BY <1>1, <1>2, <1>3, <1>4, <1>5, ArrivalFrame

-----------------------------------------------------------------------------
(* A daemon above the callers hands every character on before the next. *)
LEMMA AdjacentStep == Inv /\ [Next]_vars => AdjacentInv'
<1> SUFFICES ASSUME Inv, [Next]_vars PROVE AdjacentInv'
  OBVIOUS
<1> DEFINE Last(u) == termLine[u][Len(termLine[u])].n
<1>0. below => \A u \in Unit :
        /\ Pending(u) # NULL => Pending(u).n = typed[u]
        /\ termLine[u] # <<>> => Last(u) = IF Pending(u) = NULL THEN typed[u] ELSE typed[u] - 1
  BY DEF Inv, AdjacentInv
<1>1. ASSUME NEW p \in Proc, FinishRead(p) PROVE AdjacentInv'
  <2>1. UNCHANGED <<below, termLine, dpc, status, devMbox, typed>>
    BY <1>1, ReadShape
  <2>2. \A v \in Unit : Pending(v)' = Pending(v)
    BY <2>1 DEF Pending, InStatus, InSlot
  <2> QED
    BY <1>0, <2>1, <2>2 DEF AdjacentInv
<1>2. ASSUME NEW u \in Unit, Receive(u) PROVE AdjacentInv'
  <2>1. PICK e : e = Extended(u, InStatus(u))
    OBVIOUS
  <2>2. /\ UNCHANGED <<below, typed, status, devMbox>>
        /\ dpc' = [dpc EXCEPT ![u] = "xmit"] /\ dpc[u] = "recv"
        /\ \A v \in Unit \ {u} : termLine'[v] = termLine[v]
    BY <1>2, <2>1, ReceiveShape
  <2>3. /\ \A v \in Unit \ {u} : Pending(v)' = Pending(v)
        /\ below => devMbox[u] = NULL
        /\ Pending(u)' = IF devMbox[u] # NULL THEN devMbox[u].recv ELSE NULL
    BY <2>2 DEF Pending, InStatus, InSlot, Inv, TypeOK, DaemonType, DaemonInv
  <2>4. CASE InStatus(u) = NULL
    <3>1. termLine' = termLine
      BY <1>2, <2>1, <2>4, ReceiveShape
    <3>2. below => Pending(u) = NULL
      BY <2>3, <2>4 DEF Pending, InSlot
    <3> QED
      BY <1>0, <2>2, <2>3, <3>1, <3>2 DEF AdjacentInv
  <2>5. CASE InStatus(u) # NULL
    <3>1. termLine'[u] = IF Ends(u, InStatus(u)) THEN <<>> ELSE e
      BY <1>2, <2>1, <2>5, ReceiveShape
    <3>2. ~Ends(u, InStatus(u)) => e[Len(e)] = InStatus(u)
      BY <2>1, <2>5, Extension, CharNumbers
    <3>3. below => InStatus(u).n = typed[u]
      BY <1>0, <2>5 DEF Pending
    <3>4. below => /\ Pending(u)' = NULL
                   /\ termLine'[u] # <<>> => termLine'[u][Len(termLine'[u])].n = typed[u]
      BY <2>3, <3>1, <3>2, <3>3
    <3> QED
      BY <1>0, <2>2, <2>3, <3>4 DEF AdjacentInv
  <2> QED
    BY <2>4, <2>5
<1>3. ASSUME NEW u \in Unit, NEW nl \in BOOLEAN, NEW trans \in {Transmitter(u), "error"},
             Type(u, nl, trans) PROVE AdjacentInv'
  <2>1. /\ UNCHANGED <<below, termLine>> /\ typed'[u] = typed[u] + 1
        /\ \A v \in Unit \ {u} : typed'[v] = typed[v] /\ InSlot(v)' = InSlot(v)
        /\ \A v \in Unit : InStatus(v)' = InStatus(v)
        /\ devMbox[u] = NULL => InSlot(u)' # NULL /\ InSlot(u)'.n = typed[u] + 1
    BY <1>3, TypeShape
  <2>2. below => dpc[u] = "wait" /\ devMbox[u] = NULL
    BY <1>3 DEF Type, MayRun
  <2>3. below => Pending(u) = NULL /\ InStatus(u) = NULL
    BY <2>2 DEF Pending, InStatus, InSlot
  <2>4. below => Pending(u)' # NULL /\ Pending(u)'.n = typed[u] + 1
    BY <2>1, <2>2, <2>3 DEF Pending
  <2>5. \A v \in Unit \ {u} : Pending(v)' = Pending(v)
    BY <2>1 DEF Pending
  <2>6. typed[u] \in Int
    BY CharNumbers
  <2>7. below => (termLine'[u] # <<>> => Last(u)' = typed'[u] - 1)
    BY <1>0, <2>1, <2>3, <2>6
  <2> QED
    BY <1>0, <2>1, <2>4, <2>5, <2>7 DEF AdjacentInv
<1>4. ASSUME NEW u \in Unit, WaitDevice(u) PROVE AdjacentInv'
  <2>1. /\ UNCHANGED <<below, termLine, typed>>
        /\ InStatus(u) = NULL /\ InStatus(u)' = InSlot(u) /\ InSlot(u)' = NULL
        /\ \A v \in Unit \ {u} : InStatus(v)' = InStatus(v) /\ InSlot(v)' = InSlot(v)
    BY <1>4, WaitShape
  <2>2. \A v \in Unit : Pending(v)' = Pending(v)
    BY <2>1 DEF Pending
  <2> QED
    BY <1>0, <2>1, <2>2 DEF AdjacentInv
<1>5. CASE /\ UNCHANGED <<below, termLine, typed>>
           /\ \A u \in Unit : InStatus(u)' = InStatus(u) /\ InSlot(u)' = InSlot(u)
  <2>1. \A v \in Unit : Pending(v)' = Pending(v)
    BY <1>5 DEF Pending
  <2> QED
    BY <1>0, <1>5, <2>1 DEF AdjacentInv
<1> QED
  BY <1>1, <1>2, <1>3, <1>4, <1>5, ArrivalFrame

-----------------------------------------------------------------------------
(* A terminal gets a character only from a writer who took its ready flag, *)
(* and no status that says ready is on its way then.                       *)
LEMMA FreshStep == Inv /\ [Next]_vars => FreshInv'
<1> SUFFICES ASSUME Inv, [Next]_vars PROVE FreshInv'
  OBVIOUS
<1>0. FreshInv /\ MboxType /\ DaemonType /\ DeviceType
  BY DEF Inv, TypeOK
<1>1. ASSUME NEW p \in Proc, WriteChar(p) PROVE FreshInv'
  <2>1. PICK u : u = args[p].unit
    OBVIOUS
  <2>2. u \in Unit
    BY <1>1, <2>1, CallChecked DEF WriteChar
  <2>3. /\ UNCHANGED <<below, dpc, status, devMbox>>
        /\ below => dpc[u] = "wait" /\ devMbox[u] = NULL
    BY <1>1, <2>2 DEF WriteChar, MayRun, daemonVars
  <2>4. /\ termReadyWrite'[u] = 0
        /\ \A v \in Unit \ {u} : termReadyWrite'[v] = termReadyWrite[v] /\ xmit'[v] = xmit[v]
    BY <1>0, <1>1, <2>1, <2>2 DEF WriteChar, DeviceOutput, MboxType, DeviceType
  <2> QED
    BY <1>0, <2>3, <2>4 DEF FreshInv
<1>2. ASSUME NEW u \in Unit, NEW nl \in BOOLEAN, NEW trans \in {Transmitter(u), "error"},
             Type(u, nl, trans) PROVE FreshInv'
  <2>1. UNCHANGED <<below, termReadyWrite, dpc, status, xmit>>
    BY <1>2 DEF Type, mboxVars, daemonVars
  <2>2. PICK stat : /\ stat.xmit = "ready" => xmit[u] = NULL
                    /\ Interrupt(u, stat)
    BY <1>2 DEF Type, Received, Transmitter
  <2>3. /\ devMbox'[u] \in {devMbox[u], stat}
        /\ \A v \in Unit \ {u} : devMbox'[v] = devMbox[v]
    BY <1>0, <2>2 DEF Interrupt, DeviceType
  <2> QED
    BY <1>0, <2>1, <2>2, <2>3 DEF FreshInv
<1>3. ASSUME NEW u \in Unit, XmitDone(u) PROVE FreshInv'
  <2>1. UNCHANGED <<below, termReadyWrite, dpc, status>>
    BY <1>3 DEF XmitDone, mboxVars, daemonVars
  <2>2. /\ xmit'[u] = NULL
        /\ \A v \in Unit \ {u} : devMbox'[v] = devMbox[v] /\ xmit'[v] = xmit[v]
    BY <1>0, <1>3 DEF XmitDone, Interrupt, DeviceType
  <2> QED
    BY <1>0, <2>1, <2>2 DEF FreshInv
<1>4. ASSUME NEW u \in Unit, Break(u) PROVE FreshInv'
  <2>1. UNCHANGED <<below, termReadyWrite, dpc, status, xmit>>
    BY <1>4 DEF Break, mboxVars, daemonVars
  <2>2. PICK stat : /\ stat.xmit = "ready" => xmit[u] = NULL
                    /\ Interrupt(u, stat)
    <3>1. [Received(NULL, Transmitter(u)) EXCEPT !.broken = TRUE].xmit = Transmitter(u)
      BY DEF Received
    <3>2. Received(NULL, "error").xmit # "ready"
      BY DEF Received
    <3>3. Transmitter(u) = "ready" => xmit[u] = NULL
      BY DEF Transmitter
    <3> QED
      BY <1>4, <3>1, <3>2, <3>3 DEF Break
  <2>3. /\ devMbox'[u] \in {devMbox[u], stat}
        /\ \A v \in Unit \ {u} : devMbox'[v] = devMbox[v]
    BY <1>0, <2>2 DEF Interrupt, DeviceType
  <2> QED
    BY <1>0, <2>1, <2>2, <2>3 DEF FreshInv
<1>5. ASSUME NEW u \in Unit, WaitDevice(u) PROVE FreshInv'
  BY <1>0, <1>5 DEF WaitDevice, mboxVars, FreshInv, DaemonType, DeviceType
<1>6. ASSUME NEW u \in Unit, Receive(u) PROVE FreshInv'
  BY <1>0, <1>6 DEF Receive, deviceVars, FreshInv, DaemonType
<1>7. ASSUME NEW u \in Unit, Transmit(u) PROVE FreshInv'
  BY <1>0, <1>7 DEF Transmit, TransmitReady, deviceVars, FreshInv, MboxType, DaemonType
<1>8. ASSUME NEW u \in Unit, Halt(u)
      PROVE  UNCHANGED <<below, termReadyWrite, dpc, status, devMbox, xmit>>
  BY <1>8 DEF Halt, mboxVars, deviceVars
<1>9. ASSUME NEW p \in Proc, \/ \E c \in Call : Start(p, c) \/ Reject(p, c)
                             \/ FinishRead(p) \/ LockTerm(p) \/ EndWrite(p)
      PROVE  UNCHANGED <<below, termReadyWrite, dpc, status, devMbox, xmit>>
  BY <1>9 DEF Start, Reject, FinishRead, LockTerm, EndWrite, vars, mboxVars, daemonVars,
     deviceVars
<1>10. UNCHANGED vars => UNCHANGED <<below, termReadyWrite, dpc, status, devMbox, xmit>>
  BY DEF vars, mboxVars, daemonVars, deviceVars
<1>11. UNCHANGED <<below, termReadyWrite, dpc, status, devMbox, xmit>> => FreshInv'
  BY <1>0 DEF FreshInv
<1> QED
  BY <1>1, <1>2, <1>3, <1>4, <1>5, <1>6, <1>7, <1>8, <1>9, <1>10, <1>11 DEF Next, Daemon

-----------------------------------------------------------------------------
(* The writer's latest character is the last put out on its terminal, and  *)
(* without a writer that is the end of a buffer.                           *)
LEMMA WholeStep == Inv /\ [Next]_vars => WholeInv'
<1> SUFFICES ASSUME Inv, [Next]_vars, below PROVE WholeInv'
  <2>1. ASSUME Inv, [Next]_vars, ~below PROVE WholeInv'
    <3>1. below' = below
      BY <2>1, ReadShape, ReceiveShape, LineFrame
    <3> QED
      BY <2>1, <3>1 DEF WholeInv
  <2> QED
    BY <2>1
<1> DEFINE Fine(u) == /\ xmit[u] # NULL => GoesOn(lastSent[u], xmit[u])
                      /\ Writers(u) = {} => BufferOver(u)
                      /\ \A p \in Writers(u) :
                           IF sent[p] = 0 THEN BufferOver(u)
                           ELSE LastOut(u) = [proc |-> p, i |-> sent[p], len |-> args[p].len]
<1>0. /\ \A u \in Unit : Fine(u)
      /\ CallType /\ CallInv /\ DeviceType /\ WriteExclusion
  BY DEF Inv, WholeInv, TypeOK
<1>1. ASSUME NEW p \in Proc, LockTerm(p) PROVE WholeInv'
  <2>1. PICK u : u = args[p].unit
    OBVIOUS
  <2>2. u \in Unit /\ termWriteMutex[u] = 0 /\ sent[p] = 0
    BY <1>0, <1>1, <2>1, CallChecked DEF LockTerm, CallInv
  <2>3. Writers(u) = {} /\ BufferOver(u)
    BY <1>0, <2>2 DEF WriteExclusion
  <2>4. UNCHANGED <<below, args, sent, xmit, lastSent>>
    BY <1>1 DEF LockTerm, deviceVars
  <2>5. \A q \in Proc : pc'[q] = IF q = p THEN "write" ELSE pc[q]
    BY <1>0, <1>1 DEF LockTerm, CallType
  <2>6. Writers(u)' = {p} /\ \A v \in Unit \ {u} : Writers(v)' = Writers(v)
    BY <2>1, <2>3, <2>4, <2>5 DEF Writers
  <2>7. \A v \in Unit : BufferOver(v)' = BufferOver(v) /\ LastOut(v)' = LastOut(v)
    BY <2>4 DEF BufferOver, LastOut
  <2> QED
    BY <1>0, <2>2, <2>3, <2>4, <2>6, <2>7 DEF WholeInv, GoesOn
<1>2. ASSUME NEW p \in Proc, WriteChar(p) PROVE WholeInv'
  <2> DEFINE c == [proc |-> p, i |-> sent[p] + 1, len |-> args[p].len]
  <2>1. PICK u : u = args[p].unit
    OBVIOUS
  <2>2. /\ u \in Unit /\ p \in Writers(u) /\ sent[p] \in Nat /\ args[p].len \in Nat \ {0}
        /\ sent[p] < args[p].len /\ c \in Output
    BY <1>0, <1>2, <2>1, CallChecked DEF WriteChar, CallType, Writers, Output
  <2>3. xmit[u] = NULL
    BY <1>2, <2>1, <2>2 DEF WriteChar, Inv, FreshInv
  <2>4. c # NULL
    BY <2>2, TerminalNull
  <2>5. /\ UNCHANGED <<below, pc, args, lastSent>>
        /\ xmit' = [xmit EXCEPT ![u] = c] /\ sent' = [sent EXCEPT ![p] = @ + 1]
    BY <1>2, <2>1, <2>3 DEF WriteChar, DeviceOutput
  <2>6. /\ xmit'[u] = c /\ sent'[p] = sent[p] + 1
        /\ \A v \in Unit \ {u} : xmit'[v] = xmit[v]
        /\ \A q \in Proc \ {p} : sent'[q] = sent[q]
    BY <1>0, <2>2, <2>5 DEF CallType, DeviceType
  <2>7. \A v \in Unit : Writers(v)' = Writers(v)
    BY <2>5 DEF Writers
  <2>8. Writers(u) = {p} /\ \A v \in Unit \ {u} : p \notin Writers(v)
    BY <1>0, <2>1, <2>2 DEF WriteExclusion, Writers
  <2>9. GoesOn(lastSent[u], c)
    <3>1. LastOut(u) = lastSent[u]
      BY <2>3 DEF LastOut
    <3>2. CASE sent[p] = 0
      BY <1>0, <2>2, <3>1, <3>2 DEF BufferOver, GoesOn
    <3>3. CASE sent[p] # 0
      <4>1. lastSent[u] = [proc |-> p, i |-> sent[p], len |-> args[p].len]
        BY <1>0, <2>2, <3>1, <3>3
      <4>2. lastSent[u] \in Output
        BY <2>2, <4>1 DEF Output
      <4>3. lastSent[u] # NULL /\ lastSent[u].i # lastSent[u].len
        BY <2>2, <4>1, <4>2, TerminalNull
      <4>4. c = [lastSent[u] EXCEPT !.i = lastSent[u].i + 1]
        BY <4>1
      <4> QED
        BY <4>3, <4>4 DEF GoesOn
    <3> QED
      BY <3>2, <3>3
  <2>10. Fine(u)'
    <3>1. (xmit[u] # NULL => GoesOn(lastSent[u], xmit[u]))'
      BY <2>5, <2>6, <2>9
    <3>2. sent'[p] # 0 /\ LastOut(u)' = [proc |-> p, i |-> sent'[p], len |-> args'[p].len]
      BY <2>2, <2>4, <2>5, <2>6 DEF LastOut
    <3>3. (\A q \in Writers(u) : IF sent[q] = 0 THEN BufferOver(u)
               ELSE LastOut(u) = [proc |-> q, i |-> sent[q], len |-> args[q].len])'
      BY <2>2, <2>7, <2>8, <3>2
    <3>4. (Writers(u) = {} => BufferOver(u))'
      BY <2>2, <2>7, <2>8
    <3> QED
      BY <3>1, <3>3, <3>4
  <2>11. ASSUME NEW v \in Unit \ {u} PROVE Fine(v)'
    <3>1. BufferOver(v)' = BufferOver(v) /\ LastOut(v)' = LastOut(v)
      BY <2>5, <2>6 DEF BufferOver, LastOut
    <3>2. \A q \in Writers(v) : q \in Proc \ {p}
      BY <2>8 DEF Writers
    <3> QED
      BY <1>0, <2>5, <2>6, <2>7, <3>1, <3>2 DEF GoesOn
  <2> HIDE DEF Fine
  <2>12. \A v \in Unit : Fine(v)'
    BY <2>10, <2>11
  <2> QED
    BY <2>12 DEF WholeInv, Fine
<1>3. ASSUME NEW p \in Proc, EndWrite(p) PROVE WholeInv'
  <2>1. PICK u : u = args[p].unit
    OBVIOUS
  <2>2. /\ u \in Unit /\ p \in Writers(u) /\ sent[p] = args[p].len /\ sent[p] \in Nat \ {0}
    BY <1>3, <2>1, CallChecked DEF EndWrite, AllSent, Writers
  <2>3. UNCHANGED <<below, xmit, lastSent>>
    BY <1>3 DEF EndWrite, deviceVars
  <2>4. BufferOver(u)
    <3>1. LastOut(u) = [proc |-> p, i |-> sent[p], len |-> args[p].len]
      BY <1>0, <2>2
    <3> QED
      BY <2>2, <3>1 DEF BufferOver
  <2>5. \A q \in Proc \ {p} : pc'[q] = pc[q] /\ args'[q] = args[q] /\ sent'[q] = sent[q]
    BY <1>0, <1>3 DEF EndWrite, Return, CallType
  <2>6. pc'[p] = "user"
    BY <1>0, <1>3 DEF EndWrite, Return, CallType
  <2>7. Writers(u) = {p}
    BY <1>0, <2>2 DEF WriteExclusion
  <2>8. Writers(u)' = {}
    BY <2>5, <2>6, <2>7 DEF Writers
  <2>9. \A v \in Unit \ {u} : Writers(v)' = Writers(v) /\ p \notin Writers(v)
    BY <2>1, <2>5, <2>6 DEF Writers
  <2>10. \A v \in Unit : \A q \in Writers(v) : q \in Proc
    BY DEF Writers
  <2>11. \A v \in Unit : BufferOver(v)' = BufferOver(v) /\ LastOut(v)' = LastOut(v)
    BY <2>3 DEF BufferOver, LastOut
  <2>12. Fine(u)'
    BY <1>0, <2>2, <2>3, <2>4, <2>8, <2>11 DEF GoesOn
  <2>13. ASSUME NEW v \in Unit \ {u} PROVE Fine(v)'
    BY <1>0, <2>3, <2>5, <2>9, <2>10, <2>11 DEF GoesOn
  <2> HIDE DEF Fine
  <2>14. \A v \in Unit : Fine(v)'
    BY <2>12, <2>13
  <2> QED
    BY <2>14 DEF WholeInv, Fine
<1>4. ASSUME NEW u \in Unit, XmitDone(u) PROVE WholeInv'
  <2>1. UNCHANGED <<below, pc, args, sent>>
    BY <1>4 DEF XmitDone, callVars
  <2>2. /\ xmit[u] # NULL /\ xmit'[u] = NULL /\ lastSent'[u] = xmit[u]
        /\ \A v \in Unit \ {u} : xmit'[v] = xmit[v] /\ lastSent'[v] = lastSent[v]
    BY <1>0, <1>4 DEF XmitDone, DeviceType
  <2>3. \A v \in Unit : LastOut(v)' = LastOut(v)
    BY <2>2 DEF LastOut
  <2>4. \A v \in Unit : BufferOver(v)' = BufferOver(v) /\ Writers(v)' = Writers(v)
    BY <2>1, <2>3 DEF BufferOver, Writers
  <2>5. \A v \in Unit : xmit'[v] # NULL => xmit'[v] = xmit[v] /\ lastSent'[v] = lastSent[v]
    BY <2>2
  <2>6. \A v \in Unit : (xmit[v] # NULL => GoesOn(lastSent[v], xmit[v]))'
    BY <1>0, <2>5 DEF GoesOn
  <2> QED
    BY <1>0, <2>1, <2>3, <2>4, <2>6 DEF WholeInv
<1>5. ASSUME /\ UNCHANGED <<below, xmit, lastSent>>
             /\ \A u \in Unit : Writers(u)' = Writers(u)
             /\ \A q \in Proc : pc[q] = "write" => args'[q] = args[q] /\ sent'[q] = sent[q]
      PROVE  WholeInv'
  <2>1. \A v \in Unit : BufferOver(v)' = BufferOver(v) /\ LastOut(v)' = LastOut(v)
    BY <1>5 DEF BufferOver, LastOut
  <2>2. \A v \in Unit : \A q \in Writers(v) : args'[q] = args[q] /\ sent'[q] = sent[q]
    BY <1>5 DEF Writers
  <2> QED
    BY <1>0, <1>5, <2>1, <2>2 DEF WholeInv, GoesOn
<1>6. ASSUME NEW p \in Proc, FinishRead(p) \/ \E c \in Call : Start(p, c) PROVE WholeInv'
  <2>1. UNCHANGED <<below, sent, xmit, lastSent>>
    BY <1>6 DEF FinishRead, Start, deviceVars
  <2>2. /\ pc[p] # "write" /\ pc'[p] # "write"
        /\ \A q \in Proc \ {p} : pc'[q] = pc[q] /\ args'[q] = args[q]
    BY <1>0, <1>6 DEF FinishRead, Start, Return, CallType
  <2>3. \A u \in Unit : Writers(u)' = Writers(u)
    BY <2>2 DEF Writers
  <2> QED
    BY <1>5, <2>1, <2>2, <2>3
<1>7. UNCHANGED <<below, callVars, xmit, lastSent>> => WholeInv'
  BY <1>5 DEF callVars, Writers
<1>8. ASSUME NEW u \in Unit,
             (\E nl \in BOOLEAN : \E trans \in {Transmitter(u), "error"} : Type(u, nl, trans))
             \/ Break(u) \/ Daemon(u)
      PROVE  UNCHANGED <<below, callVars, xmit, lastSent>>
  BY <1>8 DEF Type, Break, Daemon, WaitDevice, Receive, Transmit, Halt, deviceVars
<1>9. \A p \in Proc : \A c \in Call : Reject(p, c) => UNCHANGED <<below, callVars, xmit, lastSent>>
  BY DEF Reject, vars, deviceVars
<1>10. UNCHANGED vars => UNCHANGED <<below, callVars, xmit, lastSent>>
  BY DEF vars, deviceVars
<1> QED
  BY <1>1, <1>2, <1>3, <1>4, <1>6, <1>7, <1>8, <1>9, <1>10 DEF Next

-----------------------------------------------------------------------------
(* The conjunction is inductive. *)
LEMMA Invariance == Spec => []Inv
<1>1. Inv /\ [Next]_vars => Inv'
  <2> SUFFICES ASSUME Inv, [Next]_vars PROVE Inv'
    OBVIOUS
  <2>1. TypeOK' /\ CallInv' /\ DaemonInv' /\ WriteExclusion'
    BY TypeStep, CallStep, DaemonStep, ExclusionStep
  <2>2. LinesWhole' /\ LineInv' /\ ReadOnce' /\ ArrivalInv' /\ AdjacentInv'
    BY LineStep, ArrivalStep, AdjacentStep
  <2>3. FreshInv' /\ WholeInv'
    BY FreshStep, WholeStep
  <2> QED
    BY <2>1, <2>2, <2>3 DEF Inv
<1> QED
  BY <1>1, InitInv, PTL DEF Spec

(* No object of a terminal leaves its range: a line is never longer than   *)
(* MAXLINE and a mailbox never holds more lines than it has slots.         *)
THEOREM TypeCorrect == Spec => []TypeOK
<1>1. Inv => TypeOK
  BY DEF Inv
<1> QED
  BY <1>1, Invariance, PTL

(* However many processes write to a terminal, one at a time is between    *)
(* the MboxSend and the MboxReceive on termWriteMutex.                     *)
THEOREM WritersExclude == Spec => []WriteExclusion
<1>1. Inv => WriteExclusion
  BY DEF Inv
<1> QED
  BY <1>1, Invariance, PTL

(* What waits for a read is an entire line, made of characters that were   *)
(* typed in that order, one after the other when the daemon is above the   *)
(* callers.                                                                *)
THEOREM LinesAreWhole == Spec => []LinesWhole
<1>1. Inv => LinesWhole
  BY DEF Inv
<1> QED
  BY <1>1, Invariance, PTL

(* No character is read twice or out of order, whichever processes read,   *)
(* how little of a line each takes, and whatever statuses are lost.        *)
THEOREM ReadsOnce == Spec => []ReadOnce
<1>1. Inv => ReadOnce
  BY DEF Inv
<1> QED
  BY <1>1, Invariance, PTL

(* A full termReadyWrite means a terminal that can take a character, when  *)
(* the daemon is above the callers.                                        *)
THEOREM ReadyStaysFresh == Spec => []ReadyIsFresh
<1>1. Inv => ReadyIsFresh
  BY DEF Inv, FreshInv, ReadyIsFresh
<1> QED
  BY <1>1, Invariance, PTL

(* What a terminal sends is whole buffers, one after the other, when the   *)
(* daemon is above the callers: writers do not mix, and no character is    *)
(* lost on the way.                                                        *)
THEOREM BuffersWhole == Spec => WritesWhole
<1> DEFINE Whole == below => \A u \in Unit : lastSent'[u] # lastSent[u] =>
                                              GoesOn(lastSent[u], lastSent'[u])
<1>1. Inv /\ [Next]_vars => [Whole]_vars
  <2> SUFFICES ASSUME Inv, Next PROVE Whole
    OBVIOUS
  <2>1. ASSUME NEW u \in Unit, XmitDone(u), below PROVE Whole
    <3>1. /\ xmit[u] # NULL /\ lastSent'[u] = xmit[u]
          /\ \A v \in Unit \ {u} : lastSent'[v] = lastSent[v]
      BY <2>1 DEF XmitDone, Inv, TypeOK, DeviceType
    <3>2. GoesOn(lastSent[u], xmit[u])
      BY <2>1, <3>1 DEF Inv, WholeInv
    <3> QED
      BY <3>1, <3>2
  <2>2. ASSUME NEW u \in Unit, (\E nl \in BOOLEAN : \E trans \in {Transmitter(u), "error"} :
                                    Type(u, nl, trans)) \/ Break(u) \/ Daemon(u)
        PROVE  lastSent' = lastSent
    BY <2>2 DEF Type, Break, Daemon, WaitDevice, Receive, Transmit, Halt, deviceVars
  <2>3. ASSUME NEW p \in Proc, \/ \E c \in Call : Start(p, c) \/ Reject(p, c)
                               \/ FinishRead(p) \/ LockTerm(p) \/ WriteChar(p) \/ EndWrite(p)
        PROVE  lastSent' = lastSent
    BY <2>3 DEF Start, Reject, FinishRead, LockTerm, WriteChar, EndWrite, vars, deviceVars
  <2> QED
    BY <2>1, <2>2, <2>3 DEF Next
<1> QED
  BY <1>1, Invariance, PTL DEF Spec, WritesWhole
=============================================================================
