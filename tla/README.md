# Verification of OS phase 4: sleep, terminals and disks

`src/phase4.c` is the fourth phase of a teaching operating system on the USLOSS
simulator: six system calls (Sleep, TermRead, TermWrite, DiskSize, DiskRead,
DiskWrite) and the daemons that drive the clock, four terminals and two disks.
Phases 1 to 3 (processes, mailboxes, user mode) and USLOSS are binary libraries
of which the repository holds the headers; they are modelled only as the sources
use them and are marked external in `PROJECT.json`. Twenty-four test programs,
each with its expected output, are linked with it.

This directory holds TLA+ models of that code, configurations for TLC, and
proofs for TLAPS. `PROJECT.json` maps each definition to the lines it models.

## 1. Inventory

### Components

| component | state | operations | what makes it correct |
|---|---|---|---|
| sleep (209-242) | `sleepRequestsTable`, list `sleepRequests`, `curSleeperIdx`, a mailbox per request | `sleepHandler`, `getNextSleeper` | nobody is woken early, twice or never |
| clock daemon (456-478) | its pointer into the list | walk the list at each clock interrupt | each due sleeper is posted once |
| disk handlers (342-427, 754-889) | `diskRequestsTable` (one row per process), lists `disk0Req`/`disk1Req`, lock mailboxes `disk0Q`/`disk1Q`, daemon mailboxes `disk0`/`disk1` | check arguments, sort the row into the list, wake the daemon, wait | the list holds exactly the outstanding requests, in elevator order; a call returns when its own sectors are done |
| disk daemons (601-742) | head read without the lock, current track and sector, `request` | query the size, then: take the head, seek, transfer sector by sector, unlink, post | one device request at a time; every request is finished once |
| disk size (342-363, 633-646) | the one word `globaldisk`, mailboxes `disk0MutexTrack`/`disk1MutexTrack` | wait for a daemon's message, return the word | the answer is that disk's size |
| terminal input (255-281, 524-566) | a line and an index per terminal, a mailbox of ten lines | `termReadHandler`; the daemon's receive half | a read returns one whole line, in order |
| terminal output (289-330, 567-574) | ready-token and exclusion mailboxes | `termWriteHandler`; the daemon's transmit half | a write's characters all go out, not mixed with another's |
| bootload (118-196) | initial values, daemons | | every daemon starts before user code |
| user-mode wrappers (`phase4_usermode.c`, `phase3_usermode.c`) | none | marshal arguments and results | |
| test programs (`testcases/`) | their variables and buffers | `start4` and its children, the process that ends a test | they print what their `.out` files hold, and they end |
| mailboxes, `waitDevice`, processes, USLOSS devices | external | | |

### Interactions

* A system call runs in the caller's process. The trap turns interrupts off, so a
  handler runs undisturbed until it blocks or calls a mailbox operation that
  lets another process run. Handler and daemon meet at mailboxes and in shared
  lists and rows, with no other synchronisation.
* A 1-slot, 0-byte mailbox is used as a lock (send to take, receive to free), as
  an event (conditional send to wake a daemon) and as a completion (receive to
  wait). Nothing ties the three uses to an owner.
* The device posts to a 1-slot mailbox that `waitDevice` reads; a status that
  finds the slot full is dropped.

### What is hard here

The list in `PROJECT.json` under `hazards` gives each at its line. In short:
three pointer walks over a list that other processes and the daemon change; a
list head that the daemon reads outside the lock and uses until it unlinks; a
row that is reused by its process's next call as soon as it is released; a
1-slot wake-up mailbox that merges events; statuses and results that are
ignored, so that nothing but the protocol keeps request and answer paired;
transfers over the end of a track and of the disk; a table of sleepers that is
never freed and a list walked with no lock; a clock value of 32 bits; in
the terminals, dropped lines, stale ready tokens and errors of the device; and,
around the calls, one argument buffer for all drivers, one for all children of
a test, callers level with the daemons in priority, and a timeout whose length is
set after it was started.

## 2. Modules

| module | role |
|---|---|
| `Disk` | the disk calls, queues, daemons and the device, at the level of the C pointers |
| `Elevator` | abstract specification: a one-way elevator over a set of requests |
| `DiskOrder` | refinement mapping: `Disk`'s queue implements `Elevator` |
| `DiskProofs` | inductive invariant of `Disk` and the theorems, checked by TLAPS |
| `DiskTransferProofs` | proof that a daemon moves what it was asked to move |
| `DiskOrderProofs` | proof of the refinement, with the facts about linked lists that it needs |
| `DiskProgressProofs` | proof that the users of a disk never all wait for each other |
| `MCDisk` | small instances of `Disk` and `DiskOrder` for TLC |
| `Sleep` | the Sleep call, the clock daemon, time and the clock device |
| `SleepProofs` | inductive invariant of `Sleep` and its theorems |
| `MCSleep` | small instances of `Sleep` for TLC |
| `Terminal` | TermRead, TermWrite, the terminals and their daemons |
| `Teletype` | abstract specification: a line that keys go to at once, and paper |
| `TermTeletype` | refinement mapping: each terminal of `Terminal` implements `Teletype` |
| `TerminalProofs` | inductive invariant of `Terminal` and its theorems |
| `TermTeletypeProofs` | proof of the refinement |
| `MCTerminal` | a small instance of `Terminal` and `TermTeletype` for TLC |
| `Users` | processes and programs: the forks, the dispatcher, Spawn, Wait, Terminate |
| `DiskTests`, `SleepTests`, `TermTests` | compositions: `Users`, one of the three systems, and the test programs that use it |
| `DiskTestsProofs` | proof that the disk drivers get their own units from init |
| `MCDiskTests`, `MCSleepTests`, `MCTermTests` | their instances for TLC |

In all modules a mailbox is the number, or the sequence, of messages in its slots.
A message for a process that is blocked there stays in the slot until that process
runs. The library might instead hand it over and leave the slot free for one more
message; its source is not in the repository, and this is an assumption.

Operators marked `Mutant:` are no part of the model. Each
is a plausible slip in one definition; with it in place TLC finds the property
named beside it in `PROJECT.json` violated.

### Disk

A process's place in its handler is `pc`: `user` → (`StartIO`) `lock` →
(`LockQueue`) `insert` → (`Insert`) `wake` → (`Wake`) `wait` → (`Return`)
`user`; `RejectIO` is the early return and `StartSize`/`FinishSize` the size
query. Each step runs from one mailbox operation to the next, which is at least
as fine as the code's real interleaving. `Insert` is the whole of
`diskQueueHelper`: `Walked`, `UpTo`, `ThisSweep`, `NextSweep` and `LinkAfter`
are its three walks, and the append at 835 keeps the row's own `next`, as the
code does. `diskRead` and `diskWrite` differ in their op only, so one action
serves both.

The daemon's `dpc` goes from `boot` and `bootWait` (size query) to `idle`
(blocked on its mailbox), `scan` (is there a head), `seek`, `seekWait`,
`sector`, `xferWait`, `unlink` and `post`. `NextTrack` is the code's move to
sector 0 of the next track; `AllMoved` takes the lock, `Unlink` removes whatever
is then the head and frees the lock, `Post` releases the process.

The device `dev` holds an arm position, and the request it works on. It refuses
a request while busy, fails a seek or a sector out of range, and posts `ready`
or `error` to the slot of `waitDevice`, or drops it when the slot is full.
Sector contents are not modelled: `moved[p]` records which sectors were
transferred for p's latest call, which is what the completion property needs.

Simplifications:

* A row of `diskRequestsTable` belongs to pid % MAXPROC. Live processes have
  distinct rows, so a row and its process are the same value, and `req[p]`
  doubles as the arguments of the call and the fields of the row.
* `disk0NumTracks`, `disk1NumTracks` and the row's `pid` are written or declared
  and never used; they are left out.
* Each row's completion mailbox (`mboxID`) is made once, at init
  (`cleanDiskEntry`, 587-591), and serves every request of the row: a message left
  in it would release the next one, which `RowFree` and `CompletionExact` exclude.
  The system's limit on mailboxes is not modelled.
* `CodedTracks` are the track counts written as literals in the handlers;
  `NumTracks` are the device's own. The passing runs set them equal.

### Sleep

`StartSleep` is `sleepHandler` up to its `MboxRecv` (one step: interrupts are
off), `EndSleep` the rest, `RejectSleep` the negative argument. The daemon takes
an answer of the clock (`StartPass`), then for each row either `PassOver`, or
`Rouse` and `PostSleeper`, then `Advance`, until `EndPass`; each of those can be
interleaved with handlers and with time. Rows are the integers `0..Rows - 1`
and `-1`, the memory before the table, which the code writes when the table is
full; what lies there depends on the build, and it is taken as memory of no
other use, the mildest outcome. Time `now` is unbounded in the code and is
bounded by `MaxTime`; `currentTime` is `now` as an int of `IntSpan` values that
wraps round. `until` is a history variable: the time before which the process
must not be woken.

### Terminal

Every variable is indexed by the terminals in use. `Start` is either handler up
to its first mailbox operation and `Reject` its early return; `FinishRead` is the
rest of a read, with `LineRead` as the part of the line that it hands over, and a
write goes through `LockTerm`, one `WriteChar` for each turn of its loop and
`EndWrite`. The daemon's loop is `WaitDevice`, `Receive` (line and line mailbox,
535-558) and `Transmit` (ready mailbox, 567-572), or `Halt` at either place if
the device reports an error: in either field of a status with no character
(`Break`), or in the transmit field beside a character (`Type`), which is then
put in its line before the machine halts. `ErrorHalts` says that no such status is
passed over. A typed character is its number and whether
it is a newline; this is all that the shape and order of lines depend on.
`lastRead` and `lastSent` are history variables.

`below`, fixed at the start, says whether all callers have lower priorities than
the daemons (which are forked at 2). If so, the daemon has dealt with a status
before anyone else runs and before the terminal, which works at clock-tick
speed, has another (`MayRun`). If not, any interleaving is allowed: a status can
be lost in the 1-slot device mailbox, and a ready message can be sent for a
status read before another character went out. The exclusion of writers, the shape
and order of what is read and the halt on an error hold in both cases, which the
run `terminal` has both; that no character is lost and that writes return hold
with `below` only, and are stated so.

The interrupt semantics of a terminal is external: an interrupt for each
character typed, and, once a control word with 0x4 was put out, for each
character sent. Each status says whether the terminal is ready.

`Teletype` is what a terminal promises to callers below its daemon. It has no
daemon, no interrupts, no statuses and no ready messages: a key is in the line as
it is struck, a character is on paper as it is put out, a line is the numbers of
its first and last key, and a write has the paper from its first character to its
last. It says in one place what is lost: a key, newline or not, that finds its line
full, and a line that finds ten unread ones. `TermTeletype`
maps a terminal to it by counting what is under way as arrived: a character in
`waitDevice`'s slot or in the daemon's status is already in the line, and in the
mailbox if it ends the line (`LineSoon`, `ReadSoon`); one that is being sent is
already on paper (`LastOut`). `AsTeletype` is the refinement as an action property,
for all terminals at once. It is claimed with `below` only: otherwise a status, and
its character, can be lost, and a character can be put out on a busy terminal.

### Users and the test programs

`Users` is the life of processes. init forks the daemons one after the other
(`Fork`, 168-196), then start4 (`ForkStart4`); programs spawn, wait and terminate by
the wrappers of phase 3. A program is a sequence of statements, and a test whose
start4 spawns children is the sequence of their programs; `Io`, `DiskRead`,
`TermWrite`, `SleepFor` and so on build the statement of a call with its
arguments in the wrapper's order.

`fast` chooses the timing. If it holds, no interrupt comes while a task can run
(a simulated device or clock is slow beside a few instructions), and of several
ready tasks of the highest priority the one that came first runs: this is what the
`.out` files were made with, and the orders they show are checked under it. If
not, an interrupt or the end of a time slice may come between any two steps, and
only priorities are relied on. The tests in `Slow` run both ways. Those whose
children are level with the terminals' daemons (19 to 23) run fast only: with slow
tasks a status can be lost, and the tests promise nothing then. What still holds
of callers that run between an interrupt and the daemon (`LinesWhole`, `ReadOnce`,
`WriteExclusion`) is checked in the run `terminal`, with `below` false.

* `DiskTests` adds what is on the disks (`store`), what each call has read
  (`copy`) and start4's `diskSize`. `Complete` is `DeviceDone` with the data of
  the sector: from or to the caller's buffer while its call lasts.
* `SleepTests` adds `carg`, the buffer that test02 writes for each child in turn,
  `testcase_timeout`, and the process of that name, which ends the simulation.
* `TermTests` adds what each call gives back (`out`), and the history `printed`
  of the texts that each terminal has sent to their ends. A line that is written
  back (21, 22) has the length of what was read.

Left out of the programs: printing, sums, GetTimeofDay (the properties speak of
the time itself), and the three parts of test23 at once: each part is run with the
component it uses.

## 3. Runs

Every property of a passing run is broken by a mutant of the code.

| run | instance | shows |
|---|---|---|
| `disk_requests` | 4 processes, 1 disk of 3 tracks, no transfers | `TypeOK`, `LockExclusion`, `QueueExact`, `NoLostWakeup`, `RowFree`; `NobodyStuck`: somebody at the disk can always go on; `ElevatorOrder`: refinement of `Elevator`, as one formula for all disks |
| `disk_units` | 2 processes, both disks, requests that cross tracks, unit 3, a size query | `HeadIsServed`, `AnswersPaired`, `CompletionExact` |
| `disk_quiet` | 3 processes, 2 tracks, a transfer on one | `ServedWhenQuiet`: once no new call is made, everything returns |
| `disk_tests` | tests 09 to 16, 18, 23, 24; disks of 16 and 32 tracks of 16 sectors | `ResultsAsTested`: return codes and the data read are those the tests print or compare, and with fast tasks the first size that is asked for is the disk's own (other sizes and the third write of 15: see below); `DataInPlace`: the disks hold what was written, where it was meant to go; `ServiceOrder`: the order of 16 and 18; `OwnUnit`: each driver reads its own argument in the buffer they share; `TestEnds` |
| `sleep_wakes` | 2 processes, 3 sleeps, table not full, an int of 6 values that wraps round | `TypeOK`, `WakeExact`, `SleeperListed`; `Wakes`: every sleep ends whose wake-up time is below the greatest int |
| `sleep_tests` | tests 00, 01, 02 and the sleepers of 23; 50 rows, half seconds | `SleptAsTested`: no sleep is shorter than asked, nor a second longer; `LastArgument`: all children of 02 sleep 3 seconds; `LastWokenFirst`: the order of waking; `TestEnds`: before the timeout does |
| `terminal` | 1 terminal, 2 processes, 3 typed characters, lines of 2, a mailbox of 1 line, writes of 2 characters, an error of the device | `TypeOK`, `LinesWhole`, `ReadOnce`, `WriteExclusion`, `ReadyIsFresh`, `WritesWhole`, `WriteReturns`; `ErrorHalts`: an error of the device, alone or with a character, stops the machine; `AsTeletype`: refinement of `Teletype`, as one formula for all terminals |
| `term_tests` | tests 03 to 08, 19 to 23; 3 terminals, loops over 2 of the 4, 2 lines for 5 and 10, lines of at most 3, MAXLINE 4 | `ResultsAsTested`: each read gives the next line, cut to its buffer; `AllPrinted`: every text is sent once, to its end; `TestEnds` |

Bounds. With four requests in a list an insertion can go to the front of the
later part, between two, or to the end, on either side of the arm, with a wait at
the lock beside that and a tie among three, while the daemon is at any of its
steps. Three tracks are the fewest that have one above, on and below the arm.
Two sectors a track are the fewest that have a last one. Transfers do not touch
the list, and `disk_units` and `disk_quiet` have them; that the list stays right
beside them is also proved (section 4). Two disks are all there are. A process
calls again as soon as it returns, so reuse of its row needs no extra bound. In
`Sleep`, three sleeps by two processes give a list of three rows with woken and
sleeping rows in any order and a handler that inserts during a walk; The
int goes from 2 to -3 at the third unit of time and is back at 2 at the last, so
sleeps begin before and after the wrap and end on either side of it, and whatever
has a wake-up time below the greatest int is due by then. In `Terminal`, three characters fill a line
of two and overrun it, or end a line early and start the next, or make three empty
lines, of which a mailbox of one drops some; a write of two characters is the
shortest that another could break into. With two keys a line and one line in the
mailbox each key of `Teletype` does each of the things it can: goes on, ends a
line, finds it full, and has its line kept or dropped.

The tests on disks and sleepers have their real numbers (test14 and test16, with
four and eight writers, are run fast only; slow, at most two sleepers and 14 units
of time are taken). Those on terminals are cut to two of the four terminals and to
short lines, as terminals do not depend on one another and no line of the tests'
input is as long as MAXLINE; `terminal` has the longer ones.

`disk_units`, the sleep, terminal and test runs do not check deadlock: DiskSize
blocks for ever once its message is used up (see below), the bounds on time and
sleeps end a behaviour of `Sleep`, readers wait when typing stops, and a test ends
with start4 (`TestEnds` says that it does not stop before).

### Fairness

* Weak fairness of each handler step, of each daemon step and of the device:
  the dispatcher is a priority scheduler in which handlers and daemons block
  soon, and USLOSS always ends a request.
* Strong fairness of taking a lock mailbox (`LockQueue`, `AllMoved`): blocked
  senders wait in the mailbox's first-in first-out queue.
* None on the start of a call: a program may stop calling.
* In `Terminal`, weak fairness of the daemon, of a character being sent and of
  the writer's steps, strong fairness of `LockTerm`; none on typing or calling.
* In the test runs, weak fairness of the step as a whole: the machine does not
  stop while something can happen. The dispatcher's choice is in the step itself.
* In `Sleep`, weak fairness of time, the daemon and the return of a woken
  process.

`ServedWhenQuiet` cannot be strengthened to "every call returns": with three
processes, two can keep the arm on their track for ever (a new request for the
arm's own track is met before any other), and the third starves. No text of the
repository promises otherwise, so it is no finding.

### Findings

Each of these runs ends in a counterexample, to a sentence of the repository.

| run | says | the code |
|---|---|---|
| `size_twice` | DiskSize returns 0 or -1 (`phase4_usermode.c:186`) | the second call on a disk waits for a message sent once |
| `size_value` | "size of a given disk" (`phase4.c:333`); 16 for unit 0, 32 for unit 1 (`testcases/test09.out:3-4`, `test10.out:3-4`) | both disks' sizes share one word, and the disk that answered last has set it |
| `bad_sector` | a failed transfer has a bad status (`testcases/test15.c:34`) | the status is ignored; a refused sector, or a write that runs over the last track and continues at the start of it, returns 0 and status 0 |
| `sleep_full` | Sleep pauses for the given time (`phase4.c:201`) | rows are never freed; after MAXPROC sleeps row -1 is used, its `next` comes to point to itself, and the daemon walks for ever |

What the tests show of sizes is left to `size_value`: even with fast tasks, tests 09
and 10 print what their `.out` files hold only if disk 0 answers its boot query
before disk 1. `ResultsAsTested` claims no more than the first size that a test asks
for (the only one in test 24), with fast tasks.

Three disagreements and limits show in the models and have no run of their own.
`testcases/test15.c:34-40` expects its third write, on a track that is too high, to
return 0 with an error status; `diskWriteHandler` returns -1 for it and leaves the
status alone (419-422). The call is in the program of test15 and `ResultsAsTested`
leaves its code open (`TooHigh`); `bad_sector` is about calls that do reach the
disk. `wakeUpTime` is a long and `currentTime` an int of microseconds, so a wake-up
time at or past the greatest int (35 minutes after the start) is never due; `Wakes`
leaves it out (`Comes`). And as 139 enables input interrupts only, the first write
to a terminal waits until something is typed there; `WriteReturns` says so, and all
tests have input.

`sleep_full` has two processes and two rows, so the table is used up by past
sleeps and not by more sleepers than MAXPROC.

## 4. Proofs

All proofs are checked by TLAPS. They hold for every value of the constants that
the modules' assumptions allow, while a run has a small instance. Each inductive
invariant, or the part of it that is new, was first checked by TLC as an invariant
of the same instances.

| theorem | module | property |
|---|---|---|
| `TypeCorrect` | `DiskProofs` | `TypeOK` |
| `Exclusion` | `DiskProofs` | `LockExclusion` |
| `QueuesExact` | `DiskProofs` | `QueueExact` |
| `ServesHead` | `DiskProofs` | `HeadIsServed` |
| `RowsFree` | `DiskProofs` | `RowFree` |
| `WakeupKept` | `DiskProofs` | `NoLostWakeup` |
| `AnswersArePaired` | `DiskProofs` | `AnswersPaired` |
| `CompletionsExact` | `DiskTransferProofs` | `CompletionExact` |
| `ServesAsElevator`, `ElevatorsImplemented` | `DiskOrderProofs` | `ElevatorOrder` |
| `NobodyIsStuck` | `DiskProgressProofs` | `NobodyStuck` |
| `TypeCorrect` | `SleepProofs` | `TypeOK` |
| `WakesExactly` | `SleepProofs` | `WakeExact`, while `made <= Rows` |
| `SleepersListed` | `SleepProofs` | `SleeperListed`, while `made <= Rows` |
| `TypeCorrect` | `TerminalProofs` | `TypeOK` |
| `WritersExclude` | `TerminalProofs` | `WriteExclusion` |
| `LinesAreWhole` | `TerminalProofs` | `LinesWhole` |
| `ReadsOnce` | `TerminalProofs` | `ReadOnce` |
| `ReadyStaysFresh` | `TerminalProofs` | `ReadyIsFresh` |
| `BuffersWhole` | `TerminalProofs` | `WritesWhole`, an action property |
| `TerminalIsTeletype`, `TeletypesImplemented` | `TermTeletypeProofs` | `AsTeletype`, a refinement |
| `DriversOwnUnits` | `DiskTestsProofs` | `OwnUnit`, an action property |

### The disk's queue

Assumptions: those of `Disk` (NULL is no process, processes are finitely many,
units are 0 and 1, positive sizes, requests are records of integers).

None of the first five is inductive alone. The invariant `Inv` is the
conjunction of:

* `TypeOK`;
* `CallInv`: a process inside a disk call has passed its argument checks, and
  the mailbox of a process outside has no message;
* `LockInv`: while a handler is between taking and freeing the queue mailbox, or
  the daemon is at `unlink`, the mailbox holds a message, and only one of them
  is there. `LockExclusion` is its shadow;
* `DaemonInv`: while the daemon serves, `cur` is the head and the daemon's op is
  its row's; while it posts, `cur` is out of the list, waits, and is not yet
  released. `HeadIsServed` follows: insertion never changes a head that is not
  NULL;
* `LinkInv`: a `next` is set only in a row of a queue, points into the same
  queue, and no two rows point to the same one or to the head;
* `ChainInv`: every row of a queue is reached from its head, and the last one
  has no `next`.

Reachability would need recursion. It is stated by second-order means instead:
`Walked(p, S)` is the least set that holds p and is closed under `next` within
S, defined as what lies in every closed set. That `Insert` and `Unlink` keep
`ChainInv` is then shown by giving, for each closed set of the new list, a
closed set of the old one. `LinkAfter`'s two walks enter only through what the
chosen predecessor satisfies.

`Invariance` is Spec => []Inv, and the first five theorems of the table are
consequences. `WakeupKept` adds `WakeInv` (the daemon's place against its
mailbox and the handlers at `wake`), which is inductive relative to `Inv`;
`AnswersPaired` is inductive relative to `Inv` as it stands.

### What a daemon moves

`TransferInv` is inductive relative to `Inv` and `AnswersPaired`. It says of
each disk:

* `DeviceInv`: what the disk works on is what its daemon waits for. Without
  `AnswersPaired` a refused request or a stale status would break this at once;
* `ServeInv`: while the daemon serves a request that stays on the disk, what was
  moved is a prefix of what was asked for; the daemon's track and sector stand
  at the next one, and its count at what is left (`Position`, in which a sector
  that was moved but not yet counted is allowed for); and the arm is on the
  daemon's track once the seek is over (`OnTrack`);
* `PostInv`: what is about to be posted is complete;

and of all processes `PatientInv`: nothing is moved for a request before a daemon
has it in hand. The two daemons never have the same request (`Holder`), which is
what keeps one disk's answer out of the other's transfer. The step to the next
track is the one that needs the request to stay on the disk: if sectors are left,
then the next track exists (`TrackBelow`).

### The elevator

`Elevator` is implemented by each disk's list. The proof first treats lists on
their own: for any link function with a head and rows of which no two share a
successor, reachability is a linear order (`Acyclic`, `Linear`, `Antisymmetric`),
an insertion behind a row keeps the order of the others and puts the new row after
that one (`InsertReach`), and a change of links elsewhere changes nothing
(`ReachSame`). `QueueList` shows that `Inv` makes each queue such a list, and
`SortInv` adds that it is in elevator order, link by link, seen from the head's
track. `SortInv` is inductive because `InsertPlace`, the one lemma about the three
walks of `diskQueueHelper`, finds the place behind rows that are met no later and
before one that is met later; and because the order seen from the next stop agrees
with the order seen from this one on all that is still to come (`NextBefore`).
Then `Insert` is `Arrive` (`Arrives`), `Unlink` is `Finish` (`Departs`), and every
other step, an insertion or removal on the other disk among them, is a stutter
(`SameQueue`). `ServesAsElevator` is the refinement for any one disk;
`ElevatorsImplemented` is the formula that the run checks. The refinement mapping
assumes besides that NULL is none of the elevator's stops.

### No deadlock at a disk

`NobodyStuck` states by guards, since ENABLED is out of the prover's reach, that
one of a disk's callers, its daemon or the disk itself can go on while a read or
write is under way; it is the safety half of `ServedWhenQuiet`. `CallerFree` and
`DaemonFree` are the conditions under which the actions at each place are enabled.
For `Insert` this includes that its walks end (`WalksEnd`): a walk that went on
for ever would go through the list's last row (`WalkStops`, from `Linear`). The
argument follows the waits. A caller at the lock waits for its holder, who can
give it back; a caller whose completion is not posted is in the queue or in the
daemon's hands; the daemon at a device operation waits for a disk that is working
or has answered (`AnswersPaired`), and asleep it has an empty queue or a wake-up
(`NoLostWakeup`). `GateInv` adds what `Inv` leaves out: that the queue lock and
the device mutex are taken only while someone is there who frees them, and that
nobody has filled the size mailbox before the daemon does. A DiskSize that waits for
ever (`size_twice`) is in nobody's way.

### Sleep

Rows are taken in turn and never given back, so as long as the table has had a row
for each call (`made <= Rows`), row r belongs to call r + 1 for good and the rows
taken are exactly 0 to made - 1 (`RowInv`, `NextRow`). On this rest `MutexInv`
(each row has its call's mailbox), `ListInv` (every taken row is in the list, and
nothing else is referred to), `SleeperInv` and `PostInv` (a row that is asleep has
a sleeper who is not due before it, a message or a post on its way has one whose
time is over) and `CallInv` (a sleeper's row is asleep, being posted or posted).
`WakeExact` holds across the wrap of the int: a wrap makes the time look earlier,
never later (`ModStep`), so it can delay a wake-up but not bring it forward (the
wrap is within the bounds of `sleep_wakes`). Past
that point all calls share row -1 and both properties fail (with two rows, TLC
breaks each at the fourth call); `TypeCorrect` holds for any number of calls.

### Terminal

`Inv` conjoins with the properties themselves: `CallInv` and `DaemonInv` (who is
where, and that with callers below it the daemon is done with one status before
the next); `LineInv` (the line being typed has no newline yet); `ArrivalInv` (each
character on its way, in the daemon's status or in the slot before it, was typed
after all that has come to the line, the mailbox or a reader); `AdjacentInv` (with
callers below, none is missing between the line's last character and the one on
its way, which `WholeLine` needs); `FreshInv` (a status that says ready is true
wherever it is, which `ReadyIsFresh` needs); and `WholeInv` (the last character
that was put out is the writer's latest, or the end of a buffer if nobody
writes). `BuffersWhole` follows from `WholeInv` step by step: only `XmitDone`
changes `lastSent`, and what it finishes goes on with what came before.

### The teletype

With callers below the daemons every terminal implements `Teletype`
(`TerminalIsTeletype` for any one, `TeletypesImplemented` for all at once, from the
same `Inv`). `Type` is a key (`TypesKey`), `FinishRead` a read (`ReadsLine`),
`LockTerm`, `WriteChar` and `EndWrite` the three steps of a write (`BeginsWrite`,
`PutsOut`, `EndsWrite`), and all else is a stutter: in `InputKept`, `WaitDevice`
moves a character that is on its way and `Receive` puts it where the mapping had
it already; in `OutputKept`, `XmitDone` ends the sending of a character that was on
paper.

Two things carry the argument. When a key is struck nothing is on its way, and when
a character is put out the terminal is idle (`MayRun` with `DaemonInv`, and
`FreshInv`); these are what `below` is for. And `SpanInv`, inductive relative to
`Inv`: the unfinished line, with what is on its way, is the latest keys, one by one
(`LineSoon(u)[i].n = typed[u] - Len(LineSoon(u)) + i`). It speaks of every
position because its weaker form, that neighbours differ by one, would need an
induction along the line to give the number of the first key. The mapping from
lines to their keys commutes with adding and removing a line (`SpansAppend`,
`SpansTail`).

### The drivers' arguments

`OwnUnit` is about priorities. init writes each driver's unit into one buffer and
goes on to the next, and the driver reads it when it first runs. `BootInv` says
that a driver that was forked and has not run is the one forked last. It is
inductive because of the dispatcher: init runs only if no ready task is above it
(`InitTurn`), a driver that has not run is ready, and 2 is above init's 6
(`DriverAboveInit`). All other steps leave `forked` and `dpc`, or let one driver
leave `boot` for good (`Turns`). Nothing is assumed of the programs, the timing
(`fast`) or the processes beyond the assumptions of `Disk`. `BootInv` was checked by
TLC on the instance of `disk_tests` before it was proved.

### Only model-checked

Liveness (`ServedWhenQuiet`, `Wakes`, `WriteReturns`, `ErrorHalts`, `TestEnds`), which
is beyond the prover; and the other properties of the test programs, which are fixed instances of
up to 13 processes whose programs and results are written out, so that there is
little to generalise, and whose dispatcher chooses by `SelectSeq`, a recursive
definition that the provers do not compute. The findings are counterexamples, by TLC.

## 5. Not modelled, and the plan

Not modelled: `kernelCheck` and the wrappers' mode checks, which always pass;
the semaphore, time and process-number calls of phase 3; the dummy MMU of the
test code, which phase 4 does not use; what the tests print; more than MAXPROC
processes and the limits on mailboxes and slots. test22 and test20 put a `\0` at
`buf[read_length]` of a buffer of MAXLINE characters, which is outside it for a
full line; no line of their input is full.

1. Done: `Disk`, `Elevator`, `DiskOrder`, `MCDisk`, `DiskProofs`, `Sleep`,
   `Terminal`, `Users` and the test programs on each of the three systems.
2. Done: the proofs of every safety property that `Disk`, `Sleep` and `Terminal`
   state, of the refinement of `Elevator`, and that no disk's users deadlock.
3. Done: the abstract terminal, `Teletype`, and its refinement, model-checked and
   proved; and that init's way of passing arguments to the drivers is safe.
