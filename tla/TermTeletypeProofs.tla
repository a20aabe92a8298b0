------------------------- MODULE TermTeletypeProofs -------------------------
(***************************************************************************)
(* Every terminal is a teletype to callers below its daemon: each step of  *)
(* module Terminal is a step of module Teletype or changes nothing there,  *)
(* for every set of processes, terminals and calls.                        *)
(***************************************************************************)
EXTENDS TerminalProofs

(* The unfinished line, with what is on its way, is the latest keys.       *)
SpanAt(u) ==
  \A i \in 1..Len(LineSoon(u)) : LineSoon(u)[i].n = typed[u] - Len(LineSoon(u)) + i

SpanInv == below => \A u \in Unit : SpanAt(u)

-----------------------------------------------------------------------------
(* What a step leaves alone. *)

InputSame(u) ==
  UNCHANGED <<typed[u], FirstKey(u), Spans(ReadSoon(u)), lastRead[u], LineSoon(u)>>
OutputSame(u) == UNCHANGED <<Printing(u), LastOut(u)>>

LEMMA InputFrame ==
  ASSUME NEW u \in Unit, typed'[u] = typed[u], termLine'[u] = termLine[u],
         termRead'[u] = termRead[u], lastRead'[u] = lastRead[u],
         Pending(u)' = Pending(u)
  PROVE  InputSame(u)
<1>1. Full(u)' <=> Full(u)
  BY DEF Full
<1>2. LineSoon(u)' = LineSoon(u)
  BY <1>1 DEF LineSoon, Ends, Extended
<1>3. ReadSoon(u)' = ReadSoon(u)
  BY <1>1 DEF ReadSoon, Ends, Extended
<1> QED
  BY <1>2, <1>3 DEF InputSame, FirstKey

LEMMA OutputFrame ==
  ASSUME NEW u \in Unit, xmit'[u] = xmit[u], lastSent'[u] = lastSent[u],
         Writers(u)' = Writers(u),
         \A p \in Writers(u) : sent'[p] = sent[p] /\ args'[p] = args[p]
  PROVE  OutputSame(u)
<1>1. LastOut(u)' = LastOut(u)
  BY DEF LastOut
<1>2. Printing(u)' = Printing(u)
  BY DEF Printing
<1> QED
  BY <1>1, <1>2 DEF OutputSame

(* While callers may run, nothing is on its way. *)
LEMMA NothingPending ==
  ASSUME below, MayRun, NEW u \in Unit
  PROVE  Pending(u) = NULL /\ LineSoon(u) = termLine[u] /\ ReadSoon(u) = termRead[u]
  BY DEF MayRun, Pending, InStatus, InSlot, LineSoon, ReadSoon

LEMMA StaysClear ==
  ASSUME below, MayRun, UNCHANGED <<dpc, devMbox>>, NEW u \in Unit
  PROVE  Pending(u) = NULL /\ Pending(u)' = NULL
  BY DEF MayRun, Pending, InStatus, InSlot

-----------------------------------------------------------------------------
(* Lines as spans of keys. *)

LEMMA SpansSeq ==
  ASSUME NEW q \in Seq(Seq(Char))
  PROVE  /\ Spans(q) \in Seq({KeysOf(m) : m \in Seq(Char)}) /\ Len(Spans(q)) = Len(q)
         /\ \A k \in 1..Len(q) : Spans(q)[k] = KeysOf(q[k])
<1> DEFINE S == {KeysOf(m) : m \in Seq(Char)}
<1>1. Len(q) \in Nat /\ \A k \in 1..Len(q) : KeysOf(q[k]) \in S
  BY ElementOfSeq
<1> HIDE DEF S
<1>2. Spans(q) \in Seq(S)
  BY <1>1 DEF Spans
<1> QED
  BY <1>1, <1>2 DEF Spans, S

LEMMA SpansAppend ==
  ASSUME NEW q \in Seq(Seq(Char)), NEW l \in Seq(Char)
  PROVE  Spans(Append(q, l)) = Append(Spans(q), KeysOf(l))
<1> DEFINE S == {KeysOf(m) : m \in Seq(Char)}
           a == Spans(Append(q, l))
           b == Append(Spans(q), KeysOf(l))
<1>1. /\ Append(q, l) \in Seq(Seq(Char)) /\ Len(Append(q, l)) = Len(q) + 1 /\ Len(q) \in Nat
      /\ \A k \in 1..Len(q) : Append(q, l)[k] = q[k]
      /\ Append(q, l)[Len(q) + 1] = l
  OBVIOUS
<1>2. /\ a \in Seq(S) /\ Len(a) = Len(q) + 1
      /\ \A k \in 1..Len(q) + 1 : a[k] = KeysOf(Append(q, l)[k])
  BY <1>1, SpansSeq
<1>3. Spans(q) \in Seq(S) /\ Len(Spans(q)) = Len(q) /\ KeysOf(l) \in S
      /\ \A k \in 1..Len(q) : Spans(q)[k] = KeysOf(q[k])
  BY SpansSeq
<1> HIDE DEF S, a
<1>4. /\ b \in Seq(S) /\ Len(b) = Len(q) + 1
      /\ \A k \in 1..Len(q) : b[k] = Spans(q)[k]
      /\ b[Len(q) + 1] = KeysOf(l)
  BY <1>3
<1> HIDE DEF b
<1>5. \A k \in 1..Len(q) + 1 : a[k] = b[k]
  BY <1>1, <1>2, <1>3, <1>4
<1>6. a = b
  BY <1>2, <1>4, <1>5, SeqEqual
<1> QED
  BY <1>6 DEF a, b

LEMMA SpansTail ==
  ASSUME NEW q \in Seq(Seq(Char)), q # <<>>
  PROVE  /\ Spans(q) # <<>> /\ Head(Spans(q)) = KeysOf(q[1])
         /\ Spans(Tail(q)) = Tail(Spans(q))
<1> DEFINE S == {KeysOf(m) : m \in Seq(Char)}
           a == Spans(Tail(q))
           b == Tail(Spans(q))
<1>1. /\ Len(q) \in Nat \ {0} /\ Tail(q) \in Seq(Seq(Char)) /\ Len(Tail(q)) = Len(q) - 1
      /\ \A k \in 1..Len(q) - 1 : Tail(q)[k] = q[k + 1]
  BY EmptySeq, HeadTailProperties
<1>2. /\ a \in Seq(S) /\ Len(a) = Len(q) - 1
      /\ \A k \in 1..Len(q) - 1 : a[k] = KeysOf(Tail(q)[k])
  BY <1>1, SpansSeq
<1>3. /\ Spans(q) \in Seq(S) /\ Len(Spans(q)) = Len(q)
      /\ \A k \in 1..Len(q) : Spans(q)[k] = KeysOf(q[k])
  BY SpansSeq
<1> HIDE DEF S, a
<1>4. Spans(q) # <<>> /\ Head(Spans(q)) = KeysOf(q[1])
  BY <1>1, <1>3, EmptySeq, HeadTailProperties
<1>5. /\ b \in Seq(S) /\ Len(b) = Len(q) - 1
      /\ \A k \in 1..Len(q) - 1 : b[k] = Spans(q)[k + 1]
  BY <1>1, <1>3, <1>4, HeadTailProperties
<1> HIDE DEF b
<1>6. ASSUME NEW k \in 1..Len(q) - 1 PROVE a[k] = b[k]
  <2>1. k + 1 \in 1..Len(q)
    BY <1>1
  <2>2. a[k] = KeysOf(q[k + 1])
    BY <1>1, <1>2
  <2>3. b[k] = KeysOf(q[k + 1])
    BY <1>3, <1>5, <2>1
  <2> QED
    BY <2>2, <2>3
<1>7. a = b
  BY <1>1, <1>2, <1>5, <1>6, SeqEqual
<1> QED
  BY <1>4, <1>7 DEF a, b

-----------------------------------------------------------------------------
(* What does not show.  What moves from the slot to the daemon, and from   *)
(* there to the line, is on its way before and in its place after.         *)
LEMMA InputKept ==
  ASSUME Inv, [Next]_vars, below, NEW u \in Unit,
         \A nl \in BOOLEAN : \A trans \in {Transmitter(u), "error"} : ~Type(u, nl, trans),
         \A p \in Proc : FinishRead(p) => args[p].unit # u
  PROVE  InputSame(u)
<1>1. ASSUME NEW p \in Proc, FinishRead(p) PROVE InputSame(u)
  <2>1. PICK v : v = args[p].unit
    OBVIOUS
  <2>2. v # u
    BY <1>1, <2>1
  <2>3. UNCHANGED <<termLine, dpc, status, devMbox, typed>>
    BY <1>1, <2>1, ReadShape
  <2>4. termRead'[u] = termRead[u] /\ lastRead'[u] = lastRead[u]
    BY <1>1, <2>1, <2>2, ReadShape
  <2>5. Pending(u)' = Pending(u)
    BY <2>3 DEF Pending, InStatus, InSlot
  <2> QED
    BY <2>3, <2>4, <2>5, InputFrame
<1>2. ASSUME NEW v \in Unit, Receive(v) PROVE InputSame(u)
  <2>0. PICK e : e = Extended(v, InStatus(v))
    OBVIOUS
  <2>1. /\ UNCHANGED <<lastRead, typed, status, devMbox>>
        /\ dpc' = [dpc EXCEPT ![v] = "xmit"] /\ dpc[v] = "recv"
        /\ dpc \in [Unit -> {"wait", "recv", "xmit"}]
    BY <1>2, <2>0, ReceiveShape DEF Inv, TypeOK, DaemonType
  <2>2. CASE v # u
    <3>1. termRead'[u] = termRead[u] /\ termLine'[u] = termLine[u]
      BY <1>2, <2>0, <2>2, ReceiveShape
    <3>2. dpc'[u] = dpc[u]
      BY <2>1, <2>2
    <3>3. Pending(u)' = Pending(u)
      BY <2>1, <3>2 DEF Pending, InStatus, InSlot
    <3> QED
      BY <2>1, <3>1, <3>3, InputFrame
  <2>3. CASE v = u
    <3>1. devMbox[u] = NULL /\ devMbox'[u] = NULL /\ dpc'[u] = "xmit"
      BY <2>1, <2>3 DEF Inv, DaemonInv
    <3>2. Pending(u) = InStatus(u) /\ Pending(u)' = NULL
      BY <3>1 DEF Pending, InStatus, InSlot
    <3>3. LineSoon(u)' = termLine'[u] /\ ReadSoon(u)' = termRead'[u]
      BY <3>2 DEF LineSoon, ReadSoon
    <3>4. termLine'[u] = LineSoon(u) /\ termRead'[u] = ReadSoon(u)
      <4>1. CASE InStatus(u) = NULL
        BY <1>2, <2>0, <2>3, <3>2, <4>1, ReceiveShape DEF LineSoon, ReadSoon
      <4>2. CASE InStatus(u) # NULL
        BY <1>2, <2>0, <2>3, <3>2, <4>2, ReceiveShape DEF LineSoon, ReadSoon
      <4> QED
        BY <4>1, <4>2
    <3> QED
      BY <2>1, <3>3, <3>4 DEF InputSame, FirstKey
  <2> QED
    BY <2>2, <2>3
<1>3. ASSUME NEW v \in Unit, WaitDevice(v) PROVE InputSame(u)
  <2>1. UNCHANGED <<termRead, termLine, lastRead, typed>>
    BY <1>3, WaitShape
  <2>2. Pending(u)' = Pending(u)
    BY <1>3, WaitShape DEF Pending
  <2> QED
    BY <2>1, <2>2, InputFrame
<1>4. ASSUME NEW v \in Unit, NEW nl \in BOOLEAN, NEW trans \in {Transmitter(v), "error"},
             Type(v, nl, trans) PROVE InputSame(u)
  <2>1. v # u
    BY <1>4
  <2>2. /\ UNCHANGED <<termRead, termLine, lastRead>> /\ typed'[u] = typed[u]
        /\ InSlot(u)' = InSlot(u) /\ InStatus(u)' = InStatus(u)
    BY <1>4, <2>1, TypeShape
  <2> QED
    BY <2>2, InputFrame DEF Pending
<1>5. CASE /\ \A p \in Proc : ~FinishRead(p)
           /\ \A v \in Unit : /\ ~Receive(v) /\ ~WaitDevice(v)
                              /\ \A nl \in BOOLEAN : \A trans \in {Transmitter(v), "error"} :
                                     ~Type(v, nl, trans)
  BY <1>5, ArrivalFrame, InputFrame DEF Pending
<1> QED
  BY <1>1, <1>2, <1>3, <1>4, <1>5

(* A character that is sent was on the paper when it was put out.          *)
LEMMA OutputKept ==
  ASSUME Inv, [Next]_vars, NEW u \in Unit,
         \A p \in Proc : LockTerm(p) \/ WriteChar(p) \/ EndWrite(p) => args[p].unit # u
  PROVE  OutputSame(u)
<1>0. CallType /\ DeviceType
  BY DEF Inv, TypeOK
<1>1. ASSUME NEW p \in Proc,
             \/ FinishRead(p) \/ \E c \in Call : Start(p, c)
             \/ LockTerm(p) \/ WriteChar(p) \/ EndWrite(p)
      PROVE  OutputSame(u)
  <2>1. xmit'[u] = xmit[u] /\ lastSent'[u] = lastSent[u]
    <3>1. CASE WriteChar(p)
      <4>1. PICK v \in Unit : v = args[p].unit
        BY <3>1, CallChecked DEF WriteChar
      <4>2. PICK c : DeviceOutput(v, c)
        BY <3>1, <4>1 DEF WriteChar
      <4>3. v # u /\ xmit' = [xmit EXCEPT ![v] = IF @ = NULL THEN c ELSE @]
        BY <3>1, <4>1, <4>2 DEF DeviceOutput
      <4>4. lastSent' = lastSent
        BY <3>1 DEF WriteChar
      <4> QED
        BY <1>0, <4>1, <4>3, <4>4 DEF DeviceType
    <3>2. CASE ~WriteChar(p)
      BY <1>1, <3>2 DEF FinishRead, Start, LockTerm, EndWrite, deviceVars
    <3> QED
      BY <3>1, <3>2
  <2>2. /\ \A q \in Proc \ {p} : pc'[q] = pc[q] /\ args'[q] = args[q] /\ sent'[q] = sent[q]
    BY <1>0, <1>1 DEF FinishRead, Start, LockTerm, WriteChar, EndWrite, Return, CallType
  <2>3. p \notin Writers(u) /\ p \notin Writers(u)'
    <3>1. CASE FinishRead(p) \/ \E c \in Call : Start(p, c)
      BY <1>0, <3>1 DEF FinishRead, Start, Return, CallType, Writers
    <3>2. CASE LockTerm(p) \/ WriteChar(p)
      <4>1. args[p].unit # u /\ args' = args
        BY <3>2 DEF LockTerm, WriteChar
      <4> QED
        BY <4>1 DEF Writers
    <3>3. CASE EndWrite(p)
      <4>1. args[p].unit # u /\ pc'[p] = "user"
        BY <1>0, <3>3 DEF EndWrite, Return, CallType
      <4> QED
        BY <4>1 DEF Writers
    <3> QED
      BY <1>1, <3>1, <3>2, <3>3
  <2>4. Writers(u)' = Writers(u)
    BY <2>2, <2>3 DEF Writers
  <2>5. \A q \in Writers(u) : q \in Proc \ {p}
    BY <2>3 DEF Writers
  <2> QED
    BY <2>1, <2>2, <2>4, <2>5, OutputFrame
<1>2. ASSUME UNCHANGED callVars, xmit'[u] = xmit[u], lastSent'[u] = lastSent[u]
      PROVE  OutputSame(u)
  <2>1. Writers(u)' = Writers(u)
    BY <1>2 DEF callVars, Writers
  <2> QED
    BY <1>2, <2>1, OutputFrame DEF callVars
<1>3. ASSUME NEW v \in Unit, XmitDone(v) PROVE OutputSame(u)
  <2>1. CASE v = u
    <3>1. /\ xmit[u] # NULL /\ xmit'[u] = NULL /\ lastSent'[u] = xmit[u]
          /\ UNCHANGED <<pc, args, sent>>
      BY <1>0, <1>3, <2>1 DEF XmitDone, DeviceType, callVars
    <3>2. LastOut(u)' = LastOut(u)
      BY <3>1 DEF LastOut
    <3>3. Writers(u)' = Writers(u)
      BY <3>1 DEF Writers
    <3>4. Printing(u)' = Printing(u)
      BY <3>1, <3>3 DEF Printing
    <3> QED
      BY <3>2, <3>4 DEF OutputSame
  <2>2. CASE v # u
    BY <1>0, <1>2, <1>3, <2>2 DEF XmitDone, DeviceType
  <2> QED
    BY <2>1, <2>2
<1>4. ASSUME NEW v \in Unit,
             (\E nl \in BOOLEAN : \E trans \in {Transmitter(v), "error"} : Type(v, nl, trans))
             \/ Break(v) \/ Daemon(v)
      PROVE  UNCHANGED <<callVars, xmit, lastSent>>
  BY <1>4 DEF Type, Break, Daemon, WaitDevice, Receive, Transmit, Halt, deviceVars
<1>5. \A p \in Proc : \A c \in Call : Reject(p, c) => UNCHANGED <<callVars, xmit, lastSent>>
  BY DEF Reject, vars, deviceVars
<1>6. UNCHANGED vars => UNCHANGED <<callVars, xmit, lastSent>>
  BY DEF vars, deviceVars
<1> QED
  BY <1>1, <1>2, <1>3, <1>4, <1>5, <1>6 DEF Next

LEMMA SpanKept ==
  ASSUME NEW u \in Unit, InputSame(u), SpanAt(u)
  PROVE  SpanAt(u)'
  BY DEF InputSame, SpanAt

-----------------------------------------------------------------------------
(* The steps that show.  A typed character is a key. *)
LEMMA TypesKey ==
  ASSUME Inv, [Next]_vars, below, NEW u \in Unit, SpanAt(u),
         NEW nl \in BOOLEAN, NEW trans \in {Transmitter(u), "error"},
             Type(u, nl, trans)
  PROVE  Tty(u)!Key(nl) /\ SpanAt(u)'
<1> DEFINE c == [n |-> typed[u] + 1, nl |-> nl]
           l == termLine[u]
           e == Extended(u, c)
           q == termRead[u]
<1>1. /\ MayRun /\ typed[u] < MaxInput /\ typed[u] \in Nat /\ Len(l) \in Nat
      /\ l \in Seq(Char) /\ q \in Seq(Seq(Char)) /\ c \in Char
      /\ MaxLine \in Nat \ {0} /\ Lines \in Nat
  <2>1. typed[u] \in 0..MaxInput /\ typed[u] < MaxInput
    BY DEF Type, Inv, TypeOK, DeviceType
  <2>2. l \in Seq(Char) /\ q \in Seq(Seq(Char))
    BY DEF Inv, TypeOK, DaemonType, MboxType
  <2> QED
    BY <2>1, <2>2, TerminalNumbers DEF Type, Char
<1>2. c # NULL /\ c.n = typed[u] + 1 /\ c.nl = nl
  BY <1>1, TerminalNull
<1>3. /\ UNCHANGED <<termRead, termLine, lastRead, dpc, callVars, xmit, lastSent>>
      /\ typed'[u] = typed[u] + 1
  BY DEF Type, mboxVars, daemonVars, Inv, TypeOK, DeviceType
<1>4. Pending(u) = NULL /\ LineSoon(u) = l /\ ReadSoon(u) = q
  BY <1>1, NothingPending
<1>5. Pending(u)' = c
  <2>1. dpc[u] = "wait" /\ devMbox[u] = NULL
    BY <1>1 DEF MayRun
  <2>2. devMbox'[u] = Received(c, trans)
    BY <2>1 DEF Type, Interrupt, Inv, TypeOK, DeviceType
  <2>3. devMbox'[u] # NULL /\ devMbox'[u].recv = c
    <3>1. Received(c, trans) \in Status
      BY <1>1 DEF Received, Transmitter, Status
    <3>2. Received(c, trans).recv = c
      BY DEF Received
    <3>3. Received(c, trans) # NULL
      BY <3>1, TerminalNull
    <3> QED
      BY <2>2, <3>2, <3>3
  <2>4. InStatus(u)' = NULL /\ InSlot(u)' = c
    BY <1>3, <2>1, <2>3 DEF InStatus, InSlot
  <2> QED
    BY <2>4 DEF Pending
<1>6. Full(u)' <=> Full(u)
  BY <1>3 DEF Full
<1>7. /\ LineSoon(u)' = IF Ends(u, c) THEN <<>> ELSE e
      /\ ReadSoon(u)' = IF Ends(u, c) THEN Kept(q, e) ELSE q
  BY <1>2, <1>3, <1>5, <1>6 DEF LineSoon, ReadSoon, Ends, Extended
<1>8. Full(u) <=> typed[u] + 1 - FirstKey(u) = MaxLine
  BY <1>1, <1>4 DEF Full, FirstKey
<1>9. /\ e \in Seq(Char)
      /\ Full(u) => e = l
      /\ ~Full(u) => /\ Len(e) = Len(l) + 1 /\ e[Len(l) + 1] = c
                     /\ \A i \in 1..Len(l) : e[i] = l[i]
  BY <1>1 DEF Extended
<1>10. \A i \in 1..Len(l) : l[i].n = typed[u] - Len(l) + i
  BY <1>4 DEF SpanAt
<1>11. OutputSame(u)
  BY <1>3, OutputFrame DEF callVars, Writers
<1> HIDE DEF c, e
<1>12. CASE Ends(u, c)
  <2>1. KeysOf(e) = [from |-> FirstKey(u), to |-> IF Full(u) THEN typed[u] ELSE typed[u] + 1]
    <3>1. CASE Full(u)
      <4>1. Len(l) = MaxLine /\ 1 \in 1..Len(l) /\ Len(l) \in 1..Len(l)
        BY <1>1, <3>1 DEF Full
      <4>2. l[1].n = typed[u] - Len(l) + 1 /\ l[Len(l)].n = typed[u] - Len(l) + Len(l)
        BY <1>10, <4>1
      <4>3. l[1].n = FirstKey(u) /\ l[Len(l)].n = typed[u]
        BY <1>1, <1>4, <4>2 DEF FirstKey
      <4> QED
        BY <1>9, <3>1, <4>3 DEF KeysOf
    <3>2. CASE ~Full(u)
      <4>1. e[Len(e)].n = typed[u] + 1
        BY <1>2, <1>9, <3>2
      <4>2. e[1].n = FirstKey(u)
        <5>1. CASE Len(l) = 0
          BY <1>1, <1>2, <1>4, <1>9, <3>2, <5>1 DEF FirstKey
        <5>2. CASE Len(l) # 0
          <6>1. 1 \in 1..Len(l)
            BY <1>1, <5>2
          <6>2. e[1].n = typed[u] - Len(l) + 1
            BY <1>9, <1>10, <3>2, <6>1
          <6> QED
            BY <1>1, <1>4, <6>2 DEF FirstKey
        <5> QED
          BY <5>1, <5>2
      <4> QED
        BY <3>2, <4>1, <4>2 DEF KeysOf
    <3> QED
      BY <3>1, <3>2
  <2>2. Spans(ReadSoon(u))' = IF Len(Spans(q)) < Lines THEN Append(Spans(q), KeysOf(e)) ELSE Spans(q)
    <3>1. ReadSoon(u)' = Kept(q, e) /\ Len(Spans(q)) = Len(q)
      BY <1>1, <1>7, <1>12, SpansSeq
    <3>2. Spans(Append(q, e)) = Append(Spans(q), KeysOf(e))
      BY <1>1, <1>9, SpansAppend
    <3>3. Spans(ReadSoon(u))' = Spans(Kept(q, e))
      BY <3>1 DEF Spans, KeysOf
    <3> QED
      BY <3>1, <3>2, <3>3 DEF Kept
  <2>3. LineSoon(u)' = <<>> /\ Len(<<>>) = 0
    BY <1>7, <1>12
  <2>4. FirstKey(u)' = typed[u] + 1 + 1
    BY <1>1, <1>3, <2>3 DEF FirstKey
  <2>5. SpanAt(u)'
    BY <2>3 DEF SpanAt
  <2>6. Tty(u)!Keep([from |-> FirstKey(u), to |-> IF Full(u) THEN typed[u] ELSE typed[u] + 1])
    BY <1>4, <2>1, <2>2 DEF Tty!Keep
  <2>7. nl \/ Full(u)
    BY <1>2, <1>12 DEF Ends
  <2> QED
    BY <1>3, <1>8, <1>11, <2>4, <2>5, <2>6, <2>7 DEF Tty!Key, OutputSame
<1>13. CASE ~Ends(u, c)
  <2>1. ~nl /\ ~Full(u)
    BY <1>2, <1>13 DEF Ends
  <2>2. LineSoon(u)' = e /\ ReadSoon(u)' = q
    BY <1>7, <1>13
  <2>3. FirstKey(u)' = FirstKey(u)
    <3>1. FirstKey(u)' = typed'[u] + 1 - Len(e) /\ FirstKey(u) = typed[u] + 1 - Len(l)
      BY <1>4, <2>2 DEF FirstKey
    <3>2. typed'[u] = typed[u] + 1 /\ Len(e) = Len(l) + 1
      BY <1>3, <1>9, <2>1
    <3> QED
      BY <1>1, <3>1, <3>2
  <2>4. Spans(ReadSoon(u))' = Spans(ReadSoon(u))
    BY <1>4, <2>2 DEF Spans, KeysOf
  <2>5. SpanAt(u)'
    <3> SUFFICES ASSUME NEW i \in 1..Len(e) PROVE e[i].n = typed'[u] - Len(e) + i
      BY <2>2 DEF SpanAt
    <3>1. CASE i \in 1..Len(l)
      <4>1. e[i].n = typed[u] - Len(l) + i /\ Len(e) = Len(l) + 1
        BY <1>9, <1>10, <2>1, <3>1
      <4>2. i \in Int /\ typed'[u] = typed[u] + 1
        BY <1>3
      <4> QED
        BY <1>1, <4>1, <4>2
    <3>2. CASE i = Len(l) + 1
      BY <1>1, <1>2, <1>3, <1>9, <2>1, <3>2
    <3> QED
      BY <1>1, <1>9, <2>1, <3>1, <3>2
  <2> QED
    BY <1>3, <1>8, <1>11, <2>1, <2>3, <2>4, <2>5 DEF Tty!Key, OutputSame
<1> QED
  BY <1>12, <1>13

(* The oldest line goes to a reader. *)
LEMMA ReadsLine ==
  ASSUME Inv, [Next]_vars, below, NEW u \in Unit, SpanAt(u),
         NEW p \in Proc, FinishRead(p), args[p].unit = u
  PROVE  Tty(u)!Read /\ SpanAt(u)'
<1> DEFINE q == termRead[u]
<1>1. /\ MayRun /\ q # <<>> /\ q \in Seq(Seq(Char))
      /\ UNCHANGED <<termLine, dpc, status, devMbox, typed>>
  BY ReadShape DEF FinishRead, Inv, TypeOK, MboxType
<1>2. /\ termRead'[u] = Tail(q)
      /\ lastRead'[u] = Head(q)[Len(Head(q))].n
  BY DEF FinishRead, Inv, TypeOK, MboxType
<1>3. Pending(u) = NULL /\ LineSoon(u) = termLine[u] /\ ReadSoon(u) = q
  BY <1>1, NothingPending
<1>4. Pending(u)' = NULL
  BY <1>1, StaysClear
<1>5. LineSoon(u)' = LineSoon(u) /\ ReadSoon(u)' = Tail(q)
  BY <1>1, <1>2, <1>3, <1>4 DEF LineSoon, ReadSoon
<1>6. Head(q) = q[1]
  BY <1>1
<1>7. /\ Spans(q) # <<>> /\ Head(Spans(q)).to = lastRead'[u]
      /\ Spans(Tail(q)) = Tail(Spans(q))
  BY <1>1, <1>2, <1>6, SpansTail DEF KeysOf
<1>8. Spans(ReadSoon(u))' = Spans(Tail(q))
  BY <1>5 DEF Spans, KeysOf
<1>9. OutputSame(u)
  <2>1. \A r \in Proc : LockTerm(r) \/ WriteChar(r) \/ EndWrite(r) => FALSE
    <3> SUFFICES ASSUME NEW r \in Proc, LockTerm(r) \/ WriteChar(r) \/ EndWrite(r) PROVE FALSE
      OBVIOUS
    <3>1. termRead' = termRead
      BY DEF LockTerm, WriteChar, EndWrite
    <3>2. Tail(q) = q
      BY <1>2, <3>1
    <3>3. Len(Tail(q)) = Len(q) - 1 /\ Len(q) \in Nat
      BY <1>1, HeadTailProperties
    <3> HIDE DEF q
    <3>4. Len(Tail(q)) = Len(q)
      BY <3>2
    <3> QED
      BY <3>3, <3>4
  <2> QED
    BY <2>1, OutputKept
<1>10. FirstKey(u)' = FirstKey(u)
  BY <1>1, <1>5 DEF FirstKey
<1>11. SpanAt(u)'
  BY <1>1, <1>5 DEF SpanAt
<1> QED
  BY <1>1, <1>3, <1>7, <1>8, <1>9, <1>10, <1>11 DEF Tty!Read, OutputSame

(* Who takes termWriteMutex has the paper. *)
LEMMA BeginsWrite ==
  ASSUME Inv, NEW u \in Unit, InputSame(u),
         NEW p \in Proc, LockTerm(p), args[p].unit = u
  PROVE  \E n \in {c.len : c \in {d \in Call : Accepted(d)}} : Tty(u)!Begin(p, n)
<1>1. args[p] \in Call /\ Accepted(args[p]) /\ sent[p] = 0 /\ termWriteMutex[u] = 0
  BY DEF LockTerm, Inv, CallInv
<1>2. Writers(u) = {}
  BY <1>1 DEF Inv, WriteExclusion
<1>3. UNCHANGED <<args, sent, xmit, lastSent>>
  BY DEF LockTerm, deviceVars
<1>4. \A r \in Proc : pc'[r] = IF r = p THEN "write" ELSE pc[r]
  BY DEF LockTerm, Inv, TypeOK, CallType
<1>5. Writers(u)' = {p}
  BY <1>2, <1>3, <1>4 DEF Writers
<1>6. Printing(u) = {}
  BY <1>2 DEF Printing
<1>7. Printing(u)' = {[proc |-> p, done |-> 0, len |-> args[p].len]}
  BY <1>1, <1>3, <1>5 DEF Printing
<1>8. LastOut(u)' = LastOut(u)
  BY <1>3 DEF LastOut
<1>9. Tty(u)!Begin(p, args[p].len)
  BY <1>6, <1>7, <1>8 DEF Tty!Begin, InputSame
<1> QED
  BY <1>1, <1>9

(* A character that is put out is on the paper, after the writer's others. *)
LEMMA PutsOut ==
  ASSUME Inv, below, NEW u \in Unit, InputSame(u),
         NEW p \in Proc, WriteChar(p), args[p].unit = u
  PROVE  Tty(u)!Strike
<1> DEFINE c == [proc |-> p, i |-> sent[p] + 1, len |-> args[p].len]
           w == [proc |-> p, done |-> sent[p], len |-> args[p].len]
<1>1. /\ p \in Writers(u) /\ sent[p] \in Nat /\ args[p].len \in Nat /\ sent[p] < args[p].len
      /\ xmit[u] = NULL
  BY CallChecked DEF WriteChar, Writers, Inv, TypeOK, CallType, FreshInv
<1>2. Writers(u) = {p}
  BY <1>1 DEF Inv, WriteExclusion
<1>3. /\ UNCHANGED <<pc, args>> /\ sent'[p] = sent[p] + 1
      /\ xmit'[u] = c
  BY <1>1 DEF WriteChar, DeviceOutput, Inv, TypeOK, CallType, DeviceType
<1>4. c # NULL
  <2>1. c \in Output
    BY <1>1 DEF Output
  <2> QED
    BY <2>1, TerminalNull
<1>5. Writers(u)' = {p}
  BY <1>2, <1>3 DEF Writers
<1>6. Printing(u) = {w}
  BY <1>2 DEF Printing
<1>7. Printing(u)' = {[w EXCEPT !.done = w.done + 1]}
  BY <1>3, <1>5 DEF Printing
<1>8. LastOut(u)' = [proc |-> w.proc, i |-> w.done + 1, len |-> w.len]
  BY <1>3, <1>4 DEF LastOut
<1>9. w.done < w.len
  BY <1>1
<1> HIDE DEF w
<1> QED
  BY <1>6, <1>7, <1>8, <1>9 DEF Tty!Strike, InputSame

(* Who releases termWriteMutex has put out all of the buffer. *)
LEMMA EndsWrite ==
  ASSUME Inv, NEW u \in Unit, InputSame(u),
         NEW p \in Proc, EndWrite(p), args[p].unit = u
  PROVE  Tty(u)!End
<1> DEFINE w == [proc |-> p, done |-> sent[p], len |-> args[p].len]
<1>1. p \in Writers(u) /\ w.done = w.len
  BY DEF EndWrite, AllSent, Writers
<1>2. Writers(u) = {p}
  BY <1>1 DEF Inv, WriteExclusion
<1>3. /\ UNCHANGED <<xmit, lastSent>> /\ pc'[p] = "user"
      /\ \A r \in Proc \ {p} : pc'[r] = pc[r] /\ args'[r] = args[r]
  BY DEF EndWrite, Return, deviceVars, Inv, TypeOK, CallType
<1>4. Writers(u)' = {}
  BY <1>2, <1>3 DEF Writers
<1>5. Printing(u) = {w}
  BY <1>2 DEF Printing
<1>6. Printing(u)' = {}
  BY <1>4 DEF Printing
<1>7. LastOut(u)' = LastOut(u)
  BY <1>3 DEF LastOut
<1> HIDE DEF w
<1> QED
  BY <1>1, <1>5, <1>6, <1>7 DEF Tty!End, InputSame

-----------------------------------------------------------------------------
(* Every step, as one teletype sees it. *)
LEMMA TeletypeStep ==
  ASSUME Inv, [Next]_vars, below, NEW u \in Unit, SpanAt(u)
  PROVE  [Tty(u)!Next]_(Tty(u)!vars) /\ SpanAt(u)'
<1>1. ASSUME NEW nl \in BOOLEAN, NEW trans \in {Transmitter(u), "error"},
             Type(u, nl, trans)
      PROVE  [Tty(u)!Next]_(Tty(u)!vars) /\ SpanAt(u)'
  BY <1>1, TypesKey DEF Tty!Next
<1>2. ASSUME NEW p \in Proc, FinishRead(p), args[p].unit = u
      PROVE  [Tty(u)!Next]_(Tty(u)!vars) /\ SpanAt(u)'
  BY <1>2, ReadsLine DEF Tty!Next
<1>3. CASE /\ \A nl \in BOOLEAN : \A trans \in {Transmitter(u), "error"} :
                  ~Type(u, nl, trans)
           /\ \A p \in Proc : FinishRead(p) => args[p].unit # u
  <2>1. InputSame(u) /\ SpanAt(u)'
    BY <1>3, InputKept, SpanKept
  <2>2. ASSUME NEW p \in Proc, LockTerm(p) \/ WriteChar(p) \/ EndWrite(p), args[p].unit = u
        PROVE  Tty(u)!Next
    BY <2>1, <2>2, BeginsWrite, PutsOut, EndsWrite DEF Tty!Next
  <2>3. CASE \A p \in Proc : LockTerm(p) \/ WriteChar(p) \/ EndWrite(p) => args[p].unit # u
    BY <2>1, <2>3, OutputKept DEF Tty!vars, InputSame, OutputSame
  <2> QED
    BY <2>1, <2>2, <2>3
<1> QED
  BY <1>1, <1>2, <1>3

LEMMA InitTeletype ==
  ASSUME NEW u \in Unit, Init PROVE Tty(u)!Init /\ SpanAt(u)
<1>1. /\ typed[u] = 0 /\ lastRead[u] = 0 /\ termLine[u] = <<>> /\ termRead[u] = <<>>
      /\ xmit[u] = NULL /\ lastSent[u] = NULL
  BY DEF Init
<1>2. LineSoon(u) = <<>> /\ ReadSoon(u) = <<>>
  BY <1>1 DEF Init, LineSoon, ReadSoon, Pending, InStatus, InSlot
<1>3. Len(<<>>) = 0 /\ Spans(<<>>) = <<>>
  BY DEF Spans
<1>4. FirstKey(u) = 1 /\ SpanAt(u)
  BY <1>1, <1>2, <1>3 DEF FirstKey, SpanAt
<1>5. Printing(u) = {} /\ LastOut(u) = NULL
  BY <1>1 DEF Init, Printing, Writers, LastOut
<1> QED
  BY <1>1, <1>2, <1>3, <1>4, <1>5 DEF Tty!Init

LEMMA BelowStays == [Next]_vars => below' = below
  BY DEF Next, vars, Daemon, Start, Reject, FinishRead, LockTerm, WriteChar, EndWrite, Type,
     XmitDone, Break, WaitDevice, Receive, Transmit, Halt

LEMMA SpanStep == Inv /\ SpanInv /\ [Next]_vars => SpanInv'
  BY TeletypeStep, BelowStays DEF SpanInv

LEMMA InitSpan == Init => SpanInv
  BY InitTeletype DEF SpanInv

(* To callers below its daemon a terminal works as a teletype, whatever    *)
(* the interleaving of the callers, the interrupts and the other terminals.*)
THEOREM TerminalIsTeletype == ASSUME NEW u \in Unit PROVE Spec /\ below => Tty(u)!Spec
<1>1. Init => Tty(u)!Init
  BY InitTeletype
<1>2. Inv /\ SpanInv /\ below /\ [Next]_vars => [Tty(u)!Next]_(Tty(u)!vars)
  BY TeletypeStep DEF SpanInv
<1>3. below /\ [Next]_vars => below'
  BY BelowStays
<1> QED
  BY <1>1, <1>2, <1>3, InitSpan, SpanStep, Invariance, PTL DEF Spec, Tty!Spec

(* All the terminals do, each by itself. *)
THEOREM TeletypesImplemented == Spec => AsTeletype
<1>1. Init => (below => \A u \in Unit : Tty(u)!Init)
  BY InitTeletype
<1>2. Inv /\ SpanInv /\ [Next]_vars =>
        [below => \A u \in Unit : [Tty(u)!Next]_(Tty(u)!vars)]_vars
  BY TeletypeStep DEF SpanInv
<1> QED
  BY <1>1, <1>2, InitSpan, SpanStep, Invariance, PTL DEF Spec, AsTeletype
=============================================================================
