---------------------------- MODULE SleepProofs -----------------------------
(***************************************************************************)
(* Proofs about module Sleep, for every set of processes, every table      *)
(* size, every range of an int and every bound on time and calls.          *)
(***************************************************************************)
EXTENDS Sleep, TLAPS

(* Rows are taken in turn and never given back, so the first call that     *)
(* finds none free is call Rows + 1.                                       *)
RowInv ==
  /\ \A r \in 0..Rows - 1 : status[r] = "FREE" <=> r >= made
  /\ curSleeperIdx = IF made = 0 THEN 0 ELSE IF made < Rows THEN made - 1 ELSE Rows - 1

(* Rows of the table that were handed out. *)
Taken == 0..made - 1

(* While the table has a row for each call, a row has the mailbox of the   *)
(* call it was taken for, and only those rows are referred to.             *)
MutexInv == \A r \in Taken : mutex[r] = r + 1 /\ status[r] # "FREE"

ListInv ==
  /\ sleepRequests \in Taken \cup {NULL} /\ proc \in Taken \cup {NULL}
  /\ \A r \in Row : next[r] \in Taken \cup {NULL}
  /\ \A S \in SUBSET Row : Linked(S) => Taken \subseteq S

(* How long a sleeper's row has still to wait is no less than what is left *)
(* of its sleep: an int that wraps round makes time look earlier.          *)
Waits(r, p) == pc[p] = "asleep" /\ waitsOn[p] = r + 1

NotEarly(r, p) == Waits(r, p) /\ wakeUpTime[r] - currentTime >= until[p] - now
TimeOver(r, p) == Waits(r, p) /\ now > until[p]

SleeperInv ==
  /\ \A r \in Taken : status[r] = "ASLEEP" => \E p \in Proc : NotEarly(r, p)
  /\ \A b \in Box : box[b] = 1 => b - 1 \in Taken /\ status[b - 1] = "AWAKE"
  /\ \A b \in Box : box[b] = 1 => \E p \in Proc : TimeOver(b - 1, p)

PostInv ==
  /\ dpc \in {"post", "advance"} => proc # NULL
  /\ dpc = "post" => /\ status[proc] = "AWAKE" /\ box[proc + 1] = 0
                     /\ \E p \in Proc : TimeOver(proc, p)

(* Every process waits on a mailbox of its own. *)
CallInv ==
  /\ \A p \in Proc : pc[p] = "asleep" => waitsOn[p] - 1 \in Taken
  /\ \A p, q \in Proc : pc[p] = "asleep" /\ pc[q] = "asleep" /\ waitsOn[p] = waitsOn[q] => p = q
  /\ \A p \in Proc : pc[p] = "asleep" =>
       \/ status[waitsOn[p] - 1] = "ASLEEP"
       \/ dpc = "post" /\ proc = waitsOn[p] - 1
       \/ box[waitsOn[p]] = 1

RoomInv == MutexInv /\ ListInv /\ SleeperInv /\ PostInv /\ CallInv

(* What needs no room holds always. *)
DaemonInv == dpc \in {"post", "advance"} => proc # NULL

Inv == TypeOK /\ RowInv /\ DaemonInv /\ (made <= Rows => RoomInv)

-----------------------------------------------------------------------------
(* The operators.  A row beyond the last that was taken is the next. *)
LEMMA NextRow ==
  ASSUME TypeOK, RowInv
  PROVE  getNextSleeper = IF made < Rows THEN made ELSE Before
<1> DEFINE nth(k) == (curSleeperIdx + k) % Rows
           free == {k \in 0..Rows - 1 : status[nth(k)] = "FREE"}
           least == CHOOSE k \in free : \A j \in free : k <= j
<1>0. Rows \in Nat \ {0} /\ made \in Nat
  BY SleepNumbers DEF TypeOK
<1>1. \A k \in 0..Rows - 1 : nth(k) \in 0..Rows - 1
  BY <1>0 DEF TypeOK
<1>a. getNextSleeper = IF free = {} THEN Before ELSE nth(least)
  BY DEF getNextSleeper
<1>2. CASE made < Rows
  <2>1. PICK n : n = IF made = 0 THEN 0 ELSE 1
    OBVIOUS
  <2>2. curSleeperIdx + n = made /\ made \in 0..Rows - 1
    BY <1>0, <1>2, <2>1 DEF RowInv
  <2>3. made % Rows = made
    BY <1>0, <1>2
  <2>4. nth(n) = made /\ n \in 0..Rows - 1
    BY <1>0, <1>2, <2>1, <2>2, <2>3
  <2>5. n \in free
    BY <1>0, <2>2, <2>4 DEF RowInv
  <2>6. n = 1 => 0 \notin free
    <3>1. n = 1 => curSleeperIdx = made - 1 /\ made - 1 \in 0..Rows - 1
      BY <1>0, <1>2, <2>1 DEF RowInv
    <3>2. n = 1 => nth(0) = made - 1
      BY <1>0, <3>1
    <3> QED
      BY <1>0, <3>1, <3>2 DEF RowInv
  <2>7. \A j \in free : n <= j
    BY <2>1, <2>6
  <2>8. least = n
    BY <2>5, <2>7
  <2>9. free # {}
    BY <2>5
  <2> HIDE DEF nth, free, least
  <2> QED
    BY <1>a, <1>2, <2>4, <2>8, <2>9
<1>3. CASE ~(made < Rows)
  <2>1. free = {}
    BY <1>0, <1>1, <1>3 DEF RowInv
  <2> QED
    BY <1>a, <1>3, <2>1
<1> QED
  BY <1>2, <1>3

(* One unit of time takes an int at most one further. *)
LEMMA ModStep ==
  ASSUME NEW a \in Int, NEW s \in Nat \ {0}
  PROVE  a % s \in Int /\ (a + 1) % s \in Int /\ (a + 1) % s <= (a % s) + 1
<1> DEFINE m == a % s
           n == (a + 1) % s
           d == ((a + 1) \div s) - (a \div s)
<1>1. /\ m \in Int /\ n \in Int /\ d \in Int /\ m >= 0 /\ n < s
      /\ a = s * (a \div s) + m /\ a + 1 = s * ((a + 1) \div s) + n
  OBVIOUS
<1>2. s * d = m + 1 - n
  BY <1>1
<1>3. d <= -1 => s * d <= -s
  BY <1>1
<1>4. d >= 0 => s * d >= 0
  BY <1>1
<1> HIDE DEF m, n, d
<1>5. n <= m + 1
  BY <1>1, <1>2, <1>3, <1>4
<1> QED
  BY <1>1, <1>5 DEF m, n

(* A function stays of its type, even when it is updated nowhere. *)
LEMMA UpdateType ==
  ASSUME NEW D, NEW R, NEW f \in [D -> R], NEW x, NEW v \in R
  PROVE  [f EXCEPT ![x] = v] \in [D -> R]
  BY Zenon

(* The value of the clock, and how far it moves. *)
LEMMA ClockValue == TypeOK => currentTime \in Int
  BY SleepNumbers DEF TypeOK, currentTime, AsInt

LEMMA ClockStep ==
  ASSUME TypeOK, now' = now + 1
  PROVE  currentTime' \in Int /\ currentTime' <= currentTime + 1
<1> DEFINE h == IntSpan \div 2
           a == now + h
<1>1. a \in Int /\ h \in Int
  BY SleepNumbers DEF TypeOK
<1>2. a % IntSpan \in Int /\ (a + 1) % IntSpan \in Int
      /\ (a + 1) % IntSpan <= (a % IntSpan) + 1
  BY <1>1, ModStep, SleepNumbers
<1>3. currentTime = (a % IntSpan) - h
  BY DEF currentTime, AsInt
<1>4. currentTime' = ((now' + h) % IntSpan) - h
  BY DEF currentTime, AsInt
<1>5. now' + h = a + 1
  BY <1>1 DEF TypeOK
<1> HIDE DEF a, h
<1> QED
  BY <1>1, <1>2, <1>3, <1>4, <1>5

-----------------------------------------------------------------------------
LEMMA InitInv == Init => Inv
<1> SUFFICES ASSUME Init PROVE Inv
  OBVIOUS
<1>1. TypeOK
  BY SleepNumbers DEF Init, TypeOK
<1>2. RowInv /\ DaemonInv
  BY SleepNumbers DEF Init, RowInv, DaemonInv, Row, Before
<1>3. Taken = {}
  BY DEF Init, Taken
<1>4. RoomInv
  BY <1>3 DEF Init, RoomInv, MutexInv, ListInv, SleeperInv, PostInv, CallInv
<1> QED
  BY <1>1, <1>2, <1>4 DEF Inv

(* What a call does to the table, with a row left for it or without. *)
LEMMA StartShape ==
  ASSUME Inv, NEW p \in Proc, NEW s \in Seconds, StartSleep(p, s),
         NEW r, r = IF made < Rows THEN made ELSE Before
  PROVE  /\ r \in Row /\ made + 1 \in Box /\ made' = made + 1
         /\ status' = [status EXCEPT ![r] = "ASLEEP"]
         /\ mutex' = [mutex EXCEPT ![r] = made + 1]
         /\ wakeUpTime' = [wakeUpTime EXCEPT ![r] = currentTime + s * Second]
         /\ sleepRequests' = r
         /\ next' = IF sleepRequests = NULL THEN next
                    ELSE [next EXCEPT ![r] = sleepRequests]
         /\ curSleeperIdx' = IF r = Before THEN curSleeperIdx ELSE r
         /\ s * Second \in Int /\ currentTime \in Int
<1>1. TypeOK /\ getNextSleeper = r
  BY NextRow DEF Inv
<1>2. r \in Row /\ made + 1 \in Box
  BY <1>1, SleepNumbers DEF Row, Before, Box, TypeOK, StartSleep
<1>3. s * Second \in Int /\ currentTime \in Int
  <2>1. s \in Int /\ Second \in Int
    BY SleepNumbers
  <2> QED
    BY <1>1, <2>1, ClockValue
<1> QED
  BY <1>1, <1>2, <1>3 DEF StartSleep, WakeTime, Push

(* No step takes a variable out of its type. *)
LEMMA TypeStep == Inv /\ [Next]_vars => TypeOK'
<1> SUFFICES ASSUME Inv, [Next]_vars PROVE TypeOK'
  OBVIOUS
<1> USE DEF clockVars, rowVars, callVars, daemonVars
<1>0. TypeOK /\ DaemonInv
  BY DEF Inv
<1>1. ASSUME NEW p \in Proc, NEW s \in Seconds, StartSleep(p, s) PROVE TypeOK'
  <2>1. PICK r : r = IF made < Rows THEN made ELSE Before
    OBVIOUS
  <2>2. /\ r \in Row /\ made + 1 \in Box /\ made' = made + 1
        /\ status' = [status EXCEPT ![r] = "ASLEEP"]
        /\ mutex' = [mutex EXCEPT ![r] = made + 1]
        /\ wakeUpTime' = [wakeUpTime EXCEPT ![r] = currentTime + s * Second]
        /\ sleepRequests' = r
        /\ next' = IF sleepRequests = NULL THEN next
                   ELSE [next EXCEPT ![r] = sleepRequests]
        /\ curSleeperIdx' = IF r = Before THEN curSleeperIdx ELSE r
        /\ s * Second \in Int /\ currentTime \in Int
    BY <1>1, <2>1, StartShape
  <2>3. /\ status' \in [Row -> {"FREE", "ASLEEP", "AWAKE"}]
        /\ wakeUpTime' \in [Row -> Int]
    BY <1>0, <2>2 DEF TypeOK
  <2>4. /\ next' \in [Row -> Row \cup {NULL}]
        /\ mutex' \in [Row -> Box \cup {0}]
        /\ sleepRequests' \in Row \cup {NULL}
    BY <1>0, <2>2 DEF TypeOK
  <2>5. curSleeperIdx' \in 0..Rows - 1 /\ made' \in 0..MaxSleeps
    BY <1>0, <2>1, <2>2, SleepNumbers DEF TypeOK, Before, Row, Box
  <2>6. /\ UNCHANGED <<now, clockMbox, box, ret, dpc, proc>>
        /\ pc' = [pc EXCEPT ![p] = "asleep"]
        /\ waitsOn' = [waitsOn EXCEPT ![p] = made + 1]
        /\ until' = [until EXCEPT ![p] = now + s * Second]
    BY <1>1 DEF StartSleep
  <2>7. now + s * Second \in Int
    BY <1>0, <2>2 DEF TypeOK
  <2> QED
    BY <1>0, <2>2, <2>3, <2>4, <2>5, <2>6, <2>7 DEF TypeOK
<1>2. ASSUME NEW p \in Proc, NEW s \in Seconds, RejectSleep(p, s) PROVE TypeOK'
  BY <1>0, <1>2 DEF RejectSleep, TypeOK
<1>3. ASSUME NEW p \in Proc, EndSleep(p) PROVE TypeOK'
  <2>1. [box EXCEPT ![waitsOn[p]] = 0] \in [Box -> 0..1]
    BY <1>0, UpdateType DEF TypeOK
  <2> QED
    BY <1>0, <1>3, <2>1 DEF EndSleep, TypeOK
<1>4. CASE TimePasses
  BY <1>0, <1>4, SleepNumbers DEF TimePasses, TypeOK
<1>5. CASE StartPass \/ EndPass \/ PassOver
  BY <1>0, <1>5 DEF StartPass, EndPass, PassOver, TypeOK
<1>6. CASE Rouse
  BY <1>0, <1>6 DEF Rouse, TypeOK
<1>7. CASE PostSleeper
  <2>1. box \in [Box -> 0..1] /\ 1 \in 0..1
    BY <1>0 DEF TypeOK
  <2>2. [box EXCEPT ![mutex[proc]] = 1] \in [Box -> 0..1]
    BY <2>1, UpdateType, Zenon
  <2> QED
    BY <1>0, <1>7, <2>2 DEF PostSleeper, TypeOK
<1>8. CASE Advance
  BY <1>0, <1>8 DEF Advance, TypeOK, DaemonInv
<1>9. CASE UNCHANGED vars
  BY <1>0, <1>9 DEF vars, TypeOK
<1> QED
  BY <1>1, <1>2, <1>3, <1>4, <1>5, <1>6, <1>7, <1>8, <1>9 DEF Next, Daemon

(* Rows are taken in turn, and the daemon stands on a row between its      *)
(* steps.                                                                  *)
LEMMA RowStep == Inv /\ [Next]_vars => RowInv' /\ DaemonInv'
<1> SUFFICES ASSUME Inv, [Next]_vars PROVE RowInv' /\ DaemonInv'
  OBVIOUS
<1> USE DEF clockVars, rowVars, callVars, daemonVars
<1>0. TypeOK /\ RowInv /\ DaemonInv
  BY DEF Inv
<1>1. ASSUME NEW p \in Proc, NEW s \in Seconds, StartSleep(p, s) PROVE RowInv' /\ DaemonInv'
  <2>1. PICK r : r = IF made < Rows THEN made ELSE Before
    OBVIOUS
  <2>2. /\ r \in Row /\ made' = made + 1
        /\ status' = [status EXCEPT ![r] = "ASLEEP"]
        /\ curSleeperIdx' = IF r = Before THEN curSleeperIdx ELSE r
    BY <1>1, <2>1, StartShape
  <2>3. \A q \in 0..Rows - 1 : status'[q] = IF q = r THEN "ASLEEP" ELSE status[q]
    BY <1>0, <2>2 DEF TypeOK, Row, Before
  <2>4. RowInv'
    BY <1>0, <2>1, <2>2, <2>3, SleepNumbers DEF TypeOK, RowInv, Before
  <2>5. DaemonInv'
    BY <1>0, <1>1 DEF StartSleep, DaemonInv
  <2> QED
    BY <2>4, <2>5
<1>2. ASSUME NEW p \in Proc, EndSleep(p) \/ \E s \in Seconds : RejectSleep(p, s)
      PROVE  RowInv' /\ DaemonInv'
  BY <1>0, <1>2 DEF EndSleep, RejectSleep, RowInv, DaemonInv
<1>3. CASE TimePasses \/ StartPass \/ EndPass \/ PassOver \/ PostSleeper \/ Advance
  BY <1>0, <1>3 DEF TimePasses, StartPass, EndPass, PassOver, PostSleeper, Advance, RowInv,
     DaemonInv
<1>4. CASE Rouse
  <2>1. proc \in Row /\ status[proc] = "ASLEEP" /\ status' = [status EXCEPT ![proc] = "AWAKE"]
    BY <1>0, <1>4 DEF Rouse, Due, TypeOK
  <2>2. \A q \in 0..Rows - 1 : status'[q] = "FREE" <=> status[q] = "FREE"
    BY <1>0, <2>1 DEF TypeOK, Row, Before
  <2> QED
    BY <1>0, <1>4, <2>2 DEF Rouse, RowInv, DaemonInv
<1>5. CASE UNCHANGED vars
  BY <1>0, <1>5 DEF vars, RowInv, DaemonInv
<1> QED
  BY <1>1, <1>2, <1>3, <1>4, <1>5 DEF Next, Daemon

-----------------------------------------------------------------------------
(* A call that finds a free row.  The row is referred to by nothing yet.   *)
LEMMA RoomStart ==
  ASSUME Inv, made <= Rows, NEW p \in Proc, NEW s \in Seconds, StartSleep(p, s), made' <= Rows
  PROVE  RoomInv'
<1>0. TypeOK /\ MutexInv /\ ListInv /\ SleeperInv /\ PostInv /\ CallInv
  BY DEF Inv, RoomInv
<1>1. PICK r : r = made
  OBVIOUS
<1>2. r \in 0..Rows - 1 /\ r = IF made < Rows THEN made ELSE Before
  BY <1>0, <1>1, StartShape, SleepNumbers DEF TypeOK, StartSleep
<1>3. /\ r \in Row /\ made + 1 \in Box /\ made' = made + 1
      /\ status' = [status EXCEPT ![r] = "ASLEEP"]
      /\ mutex' = [mutex EXCEPT ![r] = made + 1]
      /\ wakeUpTime' = [wakeUpTime EXCEPT ![r] = currentTime + s * Second]
      /\ sleepRequests' = r
      /\ next' = IF sleepRequests = NULL THEN next
                 ELSE [next EXCEPT ![r] = sleepRequests]
      /\ s * Second \in Int /\ currentTime \in Int
  BY <1>2, StartShape
<1>4. /\ UNCHANGED <<now, box, dpc, proc>> /\ pc[p] = "user"
      /\ pc' = [pc EXCEPT ![p] = "asleep"]
      /\ waitsOn' = [waitsOn EXCEPT ![p] = made + 1]
      /\ until' = [until EXCEPT ![p] = now + s * Second]
  BY DEF StartSleep, daemonVars, clockVars
<1>5. currentTime' = currentTime
  BY <1>4 DEF currentTime
<1>6. /\ Taken' = Taken \cup {r} /\ r \notin Taken /\ made \in Nat
      /\ Taken \subseteq Row /\ \A q \in Taken : q \in Int /\ q + 1 # r + 1
  BY <1>0, <1>1, <1>3, SleepNumbers DEF Taken, TypeOK, Row, Before
<1>7. /\ status'[r] = "ASLEEP" /\ mutex'[r] = r + 1
      /\ wakeUpTime'[r] = currentTime + s * Second
      /\ \A q \in Taken : /\ status'[q] = status[q] /\ mutex'[q] = mutex[q]
                          /\ wakeUpTime'[q] = wakeUpTime[q]
  BY <1>0, <1>1, <1>3, <1>6 DEF TypeOK
<1>8. /\ pc'[p] = "asleep" /\ waitsOn'[p] = r + 1 /\ until'[p] = now + s * Second
      /\ \A q \in Proc \ {p} : pc'[q] = pc[q] /\ waitsOn'[q] = waitsOn[q] /\ until'[q] = until[q]
  BY <1>0, <1>1, <1>4 DEF TypeOK
<1>9. MutexInv'
  BY <1>0, <1>6, <1>7 DEF MutexInv
<1>10. ListInv'
  <2>1. /\ \A q \in Row \ {r} : next'[q] = next[q]
        /\ next'[r] = IF sleepRequests = NULL THEN next[r] ELSE sleepRequests
    BY <1>0, <1>3 DEF TypeOK
  <2>2. \A q \in Row : next'[q] \in Taken' \cup {NULL}
    BY <1>0, <1>6, <2>1 DEF ListInv
  <2>3. sleepRequests' \in Taken' \cup {NULL} /\ proc' \in Taken' \cup {NULL}
    BY <1>0, <1>3, <1>4, <1>6 DEF ListInv
  <2>4. ASSUME NEW S \in SUBSET Row, Linked(S)' PROVE Taken' \subseteq S
    <3>1. r \in S
      BY <1>3, <2>4, SleepNull DEF Linked
    <3>2. PICK T : T = S \ {r}
      OBVIOUS
    <3>3. sleepRequests # NULL => sleepRequests \in T
      <4>1. sleepRequests # NULL => sleepRequests \in S
        BY <2>1, <2>4, <3>1 DEF Linked
      <4>2. sleepRequests # NULL => sleepRequests # r
        BY <1>0, <1>6 DEF ListInv
      <4> QED
        BY <3>2, <4>1, <4>2
    <3>4. ASSUME NEW q \in T, next[q] # NULL PROVE next[q] \in T
      <4>1. next[q] \in S
        BY <2>1, <2>4, <3>2, <3>4 DEF Linked
      <4>2. next[q] # r
        BY <1>0, <1>6, <3>2, <3>4 DEF ListInv
      <4> QED
        BY <3>2, <4>1, <4>2
    <3>5. Linked(T) /\ T \in SUBSET Row
      BY <3>2, <3>3, <3>4 DEF Linked
    <3>6. Taken \subseteq T
      BY <1>0, <3>5 DEF ListInv
    <3> QED
      BY <1>6, <3>1, <3>2, <3>6
  <2> QED
    BY <2>2, <2>3, <2>4 DEF ListInv
<1>11. ASSUME NEW q \in Taken, NEW w \in Proc, Waits(q, w)
       PROVE  /\ w # p /\ Waits(q, w)' /\ until'[w] = until[w]
              /\ wakeUpTime'[q] = wakeUpTime[q]
  BY <1>4, <1>7, <1>8, <1>11 DEF Waits
<1>12. SleeperInv'
  <2>1. NotEarly(r, p)'
    BY <1>0, <1>3, <1>4, <1>5, <1>7, <1>8 DEF NotEarly, Waits, TypeOK
  <2>2. ASSUME NEW q \in Taken, status'[q] = "ASLEEP" PROVE \E w \in Proc : NotEarly(q, w)'
    <3>1. PICK w \in Proc : NotEarly(q, w)
      BY <1>0, <1>7, <2>2 DEF SleeperInv
    <3>2. Waits(q, w)
      BY <3>1 DEF NotEarly
    <3> QED
      BY <1>4, <1>5, <1>11, <3>1, <3>2 DEF NotEarly
  <2>3. ASSUME NEW b \in Box, box'[b] = 1
        PROVE  /\ b - 1 \in Taken' /\ status'[b - 1] = "AWAKE"
               /\ \E w \in Proc : TimeOver(b - 1, w)'
    <3>1. b - 1 \in Taken /\ status[b - 1] = "AWAKE"
      BY <1>0, <1>4, <2>3 DEF SleeperInv
    <3>2. PICK w \in Proc : TimeOver(b - 1, w)
      BY <1>0, <1>4, <2>3 DEF SleeperInv
    <3>3. Waits(b - 1, w)
      BY <3>2 DEF TimeOver
    <3>4. TimeOver(b - 1, w)'
      BY <1>4, <1>11, <3>1, <3>2, <3>3 DEF TimeOver
    <3> QED
      BY <1>6, <1>7, <3>1, <3>4
  <2> QED
    BY <1>6, <2>1, <2>2, <2>3 DEF SleeperInv
<1>13. PostInv'
  <2>1. ASSUME dpc = "post"
        PROVE  /\ status'[proc] = "AWAKE" /\ box'[proc + 1] = 0
               /\ \E w \in Proc : TimeOver(proc, w)'
    <3>1. proc \in Taken
      BY <1>0, <2>1 DEF ListInv, PostInv
    <3>2. PICK w \in Proc : TimeOver(proc, w)
      BY <1>0, <2>1 DEF PostInv
    <3>3. Waits(proc, w)
      BY <3>2 DEF TimeOver
    <3>4. TimeOver(proc, w)'
      BY <1>4, <1>11, <3>1, <3>2, <3>3 DEF TimeOver
    <3> QED
      BY <1>0, <1>4, <1>7, <2>1, <3>1, <3>4 DEF PostInv
  <2> QED
    BY <1>0, <1>4, <2>1 DEF PostInv, TimeOver, Waits
<1>14. CallInv'
  <2>1. /\ waitsOn'[p] - 1 = r
        /\ \A q \in Proc \ {p} : pc'[q] = "asleep" =>
             waitsOn'[q] - 1 \in Taken /\ waitsOn'[q] # waitsOn'[p]
    BY <1>0, <1>1, <1>6, <1>8 DEF CallInv
  <2>2. \A q \in Proc : pc'[q] = "asleep" => waitsOn'[q] - 1 \in Taken'
    BY <1>6, <2>1
  <2>3. \A q \in Proc \ {p} : pc'[q] = "asleep" =>
          \/ status'[waitsOn'[q] - 1] = "ASLEEP"
          \/ dpc' = "post" /\ proc' = waitsOn'[q] - 1
          \/ box'[waitsOn'[q]] = 1
    BY <1>0, <1>4, <1>7, <1>8, <2>1 DEF CallInv
  <2>4. \A q, w \in Proc : pc'[q] = "asleep" /\ pc'[w] = "asleep" /\ waitsOn'[q] = waitsOn'[w] => q = w
    BY <1>0, <1>8, <2>1 DEF CallInv
  <2> QED
    BY <1>7, <2>1, <2>2, <2>3, <2>4 DEF CallInv
<1> QED
  BY <1>9, <1>10, <1>12, <1>13, <1>14 DEF RoomInv

(* A message is taken by the process it is for, and only by that one. *)
LEMMA RoomEnd ==
  ASSUME Inv, made <= Rows, NEW p \in Proc, EndSleep(p)
  PROVE  RoomInv'
<1>0. TypeOK /\ MutexInv /\ ListInv /\ SleeperInv /\ PostInv /\ CallInv
  BY DEF Inv, RoomInv
<1>1. PICK m : m = waitsOn[p]
  OBVIOUS
<1>2. /\ UNCHANGED <<now, rowVars, sleepRequests, made, dpc, proc>>
      /\ pc[p] = "asleep" /\ box[m] = 1 /\ box' = [box EXCEPT ![m] = 0]
      /\ pc' = [pc EXCEPT ![p] = "user"]
      /\ waitsOn' = [waitsOn EXCEPT ![p] = 0]
      /\ until' = [until EXCEPT ![p] = 0]
  BY <1>1 DEF EndSleep, clockVars, daemonVars
<1>3. UNCHANGED <<status, wakeUpTime, next, mutex>> /\ Taken' = Taken /\ currentTime' = currentTime
  BY <1>2 DEF rowVars, Taken, currentTime
<1>4. m \in Box /\ m - 1 \in Taken /\ status[m - 1] = "AWAKE"
  <2>1. m - 1 \in Taken /\ m \in Box \cup {0}
    BY <1>0, <1>1, <1>2 DEF CallInv, TypeOK
  <2>2. m \in Box
    BY <1>0, <2>1, SleepNumbers DEF Taken, TypeOK, Box
  <2> QED
    BY <1>0, <1>2, <2>2 DEF SleeperInv
<1>5. \A b \in Box : box'[b] = IF b = m THEN 0 ELSE box[b]
  BY <1>0, <1>2 DEF TypeOK
<1>6. /\ pc'[p] = "user"
      /\ \A q \in Proc \ {p} : pc'[q] = pc[q] /\ waitsOn'[q] = waitsOn[q] /\ until'[q] = until[q]
  BY <1>0, <1>2 DEF TypeOK
<1>7. \A q \in Proc \ {p} : pc[q] = "asleep" => waitsOn[q] # m
  BY <1>0, <1>1, <1>2 DEF CallInv
<1>8. MutexInv' /\ ListInv'
  BY <1>0, <1>2, <1>3 DEF MutexInv, ListInv, Linked
<1>9. ASSUME NEW r, NEW w \in Proc, Waits(r, w), r + 1 # m
      PROVE  w \in Proc \ {p} /\ Waits(r, w)'
  BY <1>1, <1>6, <1>9 DEF Waits
<1>10. SleeperInv'
  <2>1. ASSUME NEW r \in Taken, status[r] = "ASLEEP" PROVE \E w \in Proc : NotEarly(r, w)'
    <3>1. PICK w \in Proc : NotEarly(r, w)
      BY <1>0, <2>1 DEF SleeperInv
    <3>2. r + 1 # m
      <4>1. r \in Int /\ m \in Int
        BY <1>4 DEF Taken, Box
      <4>2. r # m - 1
        BY <1>4, <2>1
      <4> QED
        BY <4>1, <4>2
    <3>3. Waits(r, w)
      BY <3>1 DEF NotEarly
    <3> QED
      BY <1>2, <1>3, <1>6, <1>9, <3>1, <3>2, <3>3 DEF NotEarly
  <2>2. ASSUME NEW b \in Box, box'[b] = 1
        PROVE  /\ b - 1 \in Taken /\ status[b - 1] = "AWAKE"
               /\ \E w \in Proc : TimeOver(b - 1, w)'
    <3>1. b # m /\ box[b] = 1
      BY <1>5, <2>2
    <3>2. b - 1 \in Taken /\ status[b - 1] = "AWAKE"
      BY <1>0, <3>1 DEF SleeperInv
    <3>3. PICK w \in Proc : TimeOver(b - 1, w)
      BY <1>0, <3>1 DEF SleeperInv
    <3>4. Waits(b - 1, w) /\ (b - 1) + 1 # m
      BY <3>1, <3>3 DEF TimeOver, Box
    <3>5. TimeOver(b - 1, w)'
      BY <1>2, <1>6, <1>9, <3>3, <3>4 DEF TimeOver
    <3> QED
      BY <3>2, <3>5
  <2> QED
    BY <1>3, <2>1, <2>2 DEF SleeperInv
<1>11. PostInv'
  <2>1. ASSUME dpc = "post"
        PROVE  box'[proc + 1] = 0 /\ \E w \in Proc : TimeOver(proc, w)'
    <3>1. proc \in Taken /\ box[proc + 1] = 0
      BY <1>0, <2>1 DEF ListInv, PostInv
    <3>2. proc + 1 \in Box /\ proc + 1 # m
      BY <1>0, <1>2, <3>1, SleepNumbers DEF Taken, Box, TypeOK
    <3>3. PICK w \in Proc : TimeOver(proc, w)
      BY <1>0, <2>1 DEF PostInv
    <3>4. Waits(proc, w)
      BY <3>3 DEF TimeOver
    <3>5. TimeOver(proc, w)'
      BY <1>2, <1>6, <1>9, <3>2, <3>3, <3>4 DEF TimeOver
    <3> QED
      BY <1>5, <3>1, <3>2, <3>5
  <2> QED
    BY <1>0, <1>2, <1>3, <2>1 DEF PostInv, TimeOver, Waits
<1>12. CallInv'
  <2>1. \A q \in Proc : pc'[q] = "asleep" => q \in Proc \ {p} /\ pc[q] = "asleep" /\ waitsOn'[q] = waitsOn[q]
    BY <1>6
  <2>2. \A q \in Proc : pc'[q] = "asleep" => waitsOn'[q] - 1 \in Taken
    BY <1>0, <2>1 DEF CallInv
  <2>3. \A q, w \in Proc : pc'[q] = "asleep" /\ pc'[w] = "asleep" /\ waitsOn'[q] = waitsOn'[w] => q = w
    BY <1>0, <2>1 DEF CallInv
  <2>4. ASSUME NEW q \in Proc, pc'[q] = "asleep"
        PROVE  \/ status[waitsOn[q] - 1] = "ASLEEP"
               \/ dpc = "post" /\ proc = waitsOn[q] - 1
               \/ box'[waitsOn[q]] = 1
    <3>1. waitsOn[q] \in Box
      <4>1. waitsOn[q] - 1 \in Taken /\ waitsOn[q] \in Box \cup {0}
        BY <1>0, <2>1, <2>4 DEF CallInv, TypeOK
      <4> QED
        BY <1>0, <4>1, SleepNumbers DEF Taken, TypeOK, Box
    <3> QED
      BY <1>0, <1>5, <1>7, <2>1, <2>4, <3>1 DEF CallInv
  <2> QED
    BY <1>2, <1>3, <2>1, <2>2, <2>3, <2>4 DEF CallInv
<1> QED
  BY <1>8, <1>10, <1>11, <1>12 DEF RoomInv

(* As time passes a sleeper's row never gets nearer to its time than the   *)
(* sleeper itself.                                                         *)
LEMMA RoomTime ==
  ASSUME Inv, made <= Rows, TimePasses
  PROVE  RoomInv'
<1>0. TypeOK /\ MutexInv /\ ListInv /\ SleeperInv /\ PostInv /\ CallInv
  BY DEF Inv, RoomInv
<1>1. /\ now' = now + 1 /\ now \in Int
      /\ UNCHANGED <<rowVars, sleepRequests, box, made, callVars, dpc, proc>>
  BY <1>0 DEF TimePasses, daemonVars, TypeOK
<1>2. /\ UNCHANGED <<status, wakeUpTime, next, mutex, pc, waitsOn, until>>
      /\ Taken' = Taken
  BY <1>1 DEF rowVars, callVars, Taken
<1>3. /\ currentTime' \in Int /\ currentTime \in Int
      /\ currentTime' <= currentTime + 1
  BY <1>0, <1>1, ClockStep, ClockValue
<1>4. ASSUME NEW r \in Taken, NEW p \in Proc, NotEarly(r, p) PROVE NotEarly(r, p)'
  <2>1. wakeUpTime[r] \in Int /\ until[p] \in Int
    BY <1>0, SleepNumbers DEF TypeOK, Inv, Taken, Row, Before
  <2>2. wakeUpTime[r] - currentTime' >= until[p] - now'
    BY <1>1, <1>3, <1>4, <2>1 DEF NotEarly
  <2> QED
    BY <1>2, <1>4, <2>2 DEF NotEarly, Waits
<1>5. ASSUME NEW r, NEW p \in Proc, TimeOver(r, p) PROVE TimeOver(r, p)'
  BY <1>0, <1>1, <1>2, <1>5 DEF TimeOver, Waits, TypeOK
<1>6. MutexInv' /\ ListInv'
  BY <1>0, <1>1, <1>2 DEF MutexInv, ListInv, Linked
<1>7. SleeperInv'
  BY <1>0, <1>1, <1>2, <1>4, <1>5 DEF SleeperInv
<1>8. PostInv'
  BY <1>0, <1>1, <1>2, <1>5 DEF PostInv
<1>9. CallInv'
  BY <1>0, <1>1, <1>2 DEF CallInv
<1> QED
  BY <1>6, <1>7, <1>8, <1>9 DEF RoomInv

(* The daemon rouses a row whose time is over, and posts to the process    *)
(* that waits on it.                                                       *)
LEMMA RoomDaemon ==
  ASSUME Inv, made <= Rows, Daemon
  PROVE  RoomInv'
<1>0. TypeOK /\ DaemonInv /\ MutexInv /\ ListInv /\ SleeperInv /\ PostInv /\ CallInv
  BY DEF Inv, RoomInv
<1>1. /\ UNCHANGED <<now, sleepRequests, made, wakeUpTime, next, mutex, pc, waitsOn, until>>
      /\ Taken' = Taken /\ currentTime' = currentTime
  BY DEF Daemon, StartPass, EndPass, PassOver, Rouse, PostSleeper, Advance, Taken, currentTime,
     clockVars, rowVars, callVars
<1>2. \A r \in Taken : r \in Row /\ r + 1 \in Box /\ (r + 1) - 1 = r
  BY <1>0, SleepNumbers DEF Inv, Taken, Row, Before, Box, TypeOK
<1>3. \A r, w : /\ NotEarly(r, w)' <=> NotEarly(r, w)
                /\ TimeOver(r, w)' <=> TimeOver(r, w)
  BY <1>1 DEF NotEarly, TimeOver, Waits
<1>4. ASSUME proc' \in Taken \cup {NULL} PROVE ListInv'
  BY <1>0, <1>1, <1>4 DEF ListInv, Linked
<1>5. CASE StartPass \/ EndPass \/ PassOver \/ Advance
  <2>1. UNCHANGED <<status, box>> /\ dpc # "post" /\ dpc' # "post"
    BY <1>5 DEF StartPass, EndPass, PassOver, Advance, rowVars
  <2>2. proc' \in Taken \cup {NULL}
    BY <1>0, <1>2, <1>5 DEF StartPass, EndPass, PassOver, Advance, ListInv, DaemonInv
  <2>3. dpc' = "advance" => proc' # NULL
    BY <1>5 DEF StartPass, EndPass, PassOver, Advance
  <2>4. MutexInv' /\ SleeperInv'
    BY <1>0, <1>1, <1>3, <2>1 DEF MutexInv, SleeperInv
  <2>5. PostInv'
    BY <2>1, <2>3 DEF PostInv
  <2>6. CallInv'
    BY <1>0, <1>1, <2>1 DEF CallInv
  <2> QED
    BY <1>4, <2>2, <2>4, <2>5, <2>6 DEF RoomInv
<1>6. CASE Rouse
  <2>1. /\ proc \in Taken /\ Due(proc) /\ dpc = "visit" /\ dpc' = "post"
        /\ UNCHANGED <<box, proc>> /\ status' = [status EXCEPT ![proc] = "AWAKE"]
    BY <1>0, <1>6 DEF Rouse, ListInv
  <2>2. \A r \in Row : status'[r] = IF r = proc THEN "AWAKE" ELSE status[r]
    BY <1>0, <1>2, <2>1 DEF TypeOK
  <2>3. box[proc + 1] = 0
    <3>1. proc + 1 \in Box /\ (proc + 1) - 1 = proc
      BY <1>2, <2>1
    <3>2. box[proc + 1] # 1
      BY <1>0, <2>1, <3>1 DEF SleeperInv, Due
    <3> QED
      BY <1>0, <3>1, <3>2 DEF TypeOK
  <2>4. \E w \in Proc : TimeOver(proc, w)
    <3>1. PICK w \in Proc : NotEarly(proc, w)
      BY <1>0, <2>1 DEF SleeperInv, Due
    <3>2. /\ wakeUpTime[proc] \in Int /\ until[w] \in Int /\ now \in Int
          /\ currentTime \in Int
      BY <1>0, <1>2, <2>1, ClockValue DEF TypeOK
    <3>3. now > until[w]
      BY <2>1, <3>1, <3>2 DEF NotEarly, Due
    <3> QED
      BY <3>1, <3>3 DEF NotEarly, TimeOver
  <2>5. MutexInv'
    BY <1>0, <1>1, <1>2, <2>2 DEF MutexInv
  <2>6. SleeperInv'
    BY <1>0, <1>1, <1>2, <1>3, <2>1, <2>2 DEF SleeperInv
  <2>7. PostInv'
    BY <1>2, <1>3, <2>1, <2>2, <2>3, <2>4, SleepNull DEF PostInv
  <2>8. CallInv'
    BY <1>0, <1>1, <1>2, <2>1, <2>2 DEF CallInv
  <2> QED
    BY <1>4, <2>1, <2>5, <2>6, <2>7, <2>8 DEF RoomInv
<1>7. CASE PostSleeper
  <2>1. /\ proc \in Taken /\ dpc = "post" /\ dpc' = "advance" /\ UNCHANGED <<status, proc>>
        /\ proc \in Row /\ proc + 1 \in Box /\ mutex[proc] = proc + 1 /\ proc # NULL
    BY <1>0, <1>2, <1>7 DEF PostSleeper, ListInv, PostInv, MutexInv, rowVars
  <2>2. box' = [box EXCEPT ![proc + 1] = 1]
    BY <1>7, <2>1 DEF PostSleeper
  <2>3. \A b \in Box : box'[b] = IF b = proc + 1 THEN 1 ELSE box[b]
    BY <1>0, <2>2 DEF TypeOK
  <2>4. status[proc] = "AWAKE" /\ \E w \in Proc : TimeOver(proc, w)
    BY <1>0, <2>1 DEF PostInv
  <2>5. MutexInv'
    BY <1>0, <1>1, <2>1 DEF MutexInv
  <2>6. SleeperInv'
    <3>1. ASSUME NEW b \in Box, box'[b] = 1
          PROVE  /\ b - 1 \in Taken /\ status[b - 1] = "AWAKE"
                 /\ \E w \in Proc : TimeOver(b - 1, w)
      <4>1. CASE b = proc + 1
        BY <1>2, <2>1, <2>4, <4>1
      <4>2. CASE b # proc + 1
        BY <1>0, <2>3, <3>1, <4>2 DEF SleeperInv
      <4> QED
        BY <4>1, <4>2
    <3>2. \A r \in Taken : status[r] = "ASLEEP" => \E w \in Proc : NotEarly(r, w)
      BY <1>0 DEF SleeperInv
    <3> QED
      BY <1>1, <1>3, <2>1, <3>1, <3>2 DEF SleeperInv
  <2>7. PostInv'
    BY <2>1 DEF PostInv
  <2>8. CallInv'
    <3>1. ASSUME NEW p \in Proc, pc[p] = "asleep"
          PROVE  status[waitsOn[p] - 1] = "ASLEEP" \/ box'[waitsOn[p]] = 1
      <4>1. waitsOn[p] - 1 \in Taken /\ waitsOn[p] \in Box \cup {0}
        BY <1>0, <3>1 DEF CallInv, TypeOK
      <4>2. waitsOn[p] \in Int
        BY <4>1 DEF Box
      <4>3. waitsOn[p] \in Box
        BY <1>2, <4>1, <4>2
      <4>4. proc = waitsOn[p] - 1 => waitsOn[p] = proc + 1
        BY <4>2
      <4> QED
        BY <1>0, <2>3, <3>1, <4>3, <4>4 DEF CallInv
    <3> QED
      BY <1>0, <1>1, <2>1, <3>1 DEF CallInv
  <2> QED
    BY <1>4, <2>1, <2>5, <2>6, <2>7, <2>8 DEF RoomInv
<1> QED
  BY <1>5, <1>6, <1>7 DEF Daemon

LEMMA RoomStep == Inv /\ [Next]_vars /\ made' <= Rows => RoomInv'
<1> SUFFICES ASSUME Inv, [Next]_vars, made' <= Rows PROVE RoomInv'
  OBVIOUS
<1>0. made' = made \/ made' = made + 1
  BY DEF Next, Daemon, StartSleep, RejectSleep, EndSleep, TimePasses, StartPass, EndPass,
     PassOver, Rouse, PostSleeper, Advance, vars
<1>1. made <= Rows
  BY <1>0, SleepNumbers DEF Inv, TypeOK
<1>2. ASSUME UNCHANGED <<now, rowVars, sleepRequests, box, made, pc, waitsOn, until, daemonVars>>
      PROVE  RoomInv'
  <2>1. RoomInv
    BY <1>1 DEF Inv
  <2>2. /\ UNCHANGED <<now, status, wakeUpTime, next, mutex, sleepRequests, box, made, pc,
                       waitsOn, until, dpc, proc>>
        /\ Taken' = Taken /\ currentTime' = currentTime
    BY <1>2 DEF rowVars, daemonVars, Taken, currentTime
  <2>3. MutexInv' /\ ListInv' /\ PostInv' /\ CallInv'
    BY <2>1, <2>2 DEF RoomInv, MutexInv, ListInv, Linked, PostInv, CallInv, TimeOver, Waits
  <2>4. SleeperInv'
    BY <2>1, <2>2 DEF RoomInv, SleeperInv, NotEarly, TimeOver, Waits
  <2> QED
    BY <2>3, <2>4 DEF RoomInv
<1>3. ASSUME NEW p \in Proc, NEW s \in Seconds, RejectSleep(p, s) PROVE RoomInv'
  BY <1>2, <1>3 DEF RejectSleep, clockVars
<1>4. UNCHANGED vars => RoomInv'
  BY <1>2 DEF vars, clockVars, callVars
<1> QED
  BY <1>1, <1>3, <1>4, RoomStart, RoomEnd, RoomTime, RoomDaemon DEF Next

-----------------------------------------------------------------------------
LEMMA Invariance == Spec => []Inv
<1>1. Inv /\ [Next]_vars => Inv'
  BY TypeStep, RowStep, RoomStep DEF Inv
<1> QED
  BY <1>1, InitInv, PTL DEF Spec

(* Every field keeps its type, also when calls find the table full and     *)
(* share row -1.                                                           *)
THEOREM TypeCorrect == Spec => []TypeOK
<1>1. Inv => TypeOK
  BY DEF Inv
<1> QED
  BY <1>1, Invariance, PTL

(* As long as no call has found the table full: nobody is woken before its *)
(* time or a second time, though the clock may wrap round and a handler    *)
(* and the daemon share the rows with no lock.                             *)
THEOREM WakesExactly == Spec => [](made <= Rows => WakeExact)
<1>1. ASSUME Inv, made <= Rows, NEW b \in Box, box[b] = 1
      PROVE  \E p \in Proc : pc[p] = "asleep" /\ waitsOn[p] = b /\ now > until[p]
  <2>1. PICK p \in Proc : TimeOver(b - 1, p)
    BY <1>1 DEF Inv, RoomInv, SleeperInv
  <2>2. (b - 1) + 1 = b
    BY DEF Box
  <2> QED
    BY <2>1, <2>2 DEF TimeOver, Waits
<1>2. Inv => (made <= Rows => WakeExact)
  BY <1>1 DEF WakeExact
<1> QED
  BY <1>2, Invariance, PTL

(* And no sleeper is forgotten: whenever rows are put in front of the list *)
(* during the daemon's walk, each sleeper's row is in it, until its        *)
(* message is in its mailbox.                                              *)
THEOREM SleepersListed == Spec => [](made <= Rows => SleeperListed)
<1>1. ASSUME Inv, made <= Rows, NEW p \in Proc, pc[p] = "asleep", box[waitsOn[p]] # 1
      PROVE  \E r \in Listed : /\ mutex[r] = waitsOn[p]
                               /\ status[r] = "ASLEEP" \/ (dpc = "post" /\ proc = r)
  <2>0. TypeOK /\ MutexInv /\ ListInv /\ CallInv
    BY <1>1 DEF Inv, RoomInv
  <2>1. PICK r : r = waitsOn[p] - 1
    OBVIOUS
  <2>2. r \in Taken /\ (status[r] = "ASLEEP" \/ (dpc = "post" /\ proc = r))
    BY <1>1, <2>0, <2>1 DEF CallInv
  <2>3. mutex[r] = waitsOn[p]
    <3>1. waitsOn[p] \in Box \cup {0}
      BY <2>0 DEF TypeOK
    <3>2. r + 1 = waitsOn[p]
      BY <2>1, <3>1 DEF Box
    <3> QED
      BY <2>0, <2>2, <3>2 DEF MutexInv
  <2>4. r \in Listed
    <3>1. r \in Row
      BY <1>1, <2>0, <2>2, SleepNumbers DEF Taken, TypeOK, Row, Before
    <3> QED
      BY <2>0, <2>2, <3>1 DEF ListInv, Listed
  <2> QED
    BY <2>2, <2>3, <2>4
<1>2. Inv => (made <= Rows => SleeperListed)
  BY <1>1 DEF SleeperListed
<1> QED
  BY <1>2, Invariance, PTL
=============================================================================
