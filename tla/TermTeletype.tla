---------------------------- MODULE TermTeletype ----------------------------
(***************************************************************************)
(* A terminal of module Terminal with its daemon, its interrupts and its   *)
(* ready messages works as module Teletype: the refinement mapping.  What  *)
(* is under way counts as arrived: a typed character on its way to the     *)
(* daemon is in the line, and one that is being sent is on the paper.      *)
(***************************************************************************)
EXTENDS Terminal

(* The character on its way to the line: in the daemon's status, or in the *)
(* slot of waitDevice.                                                     *)
InStatus(u) == IF dpc[u] = "recv" THEN status[u].recv ELSE NULL
InSlot(u) == IF devMbox[u] # NULL THEN devMbox[u].recv ELSE NULL
Pending(u) == IF InStatus(u) # NULL THEN InStatus(u) ELSE InSlot(u)

(* The line and the mailbox as Receive will leave them. *)
LineSoon(u) ==
  IF Pending(u) = NULL THEN termLine[u]
  ELSE IF Ends(u, Pending(u)) THEN <<>> ELSE Extended(u, Pending(u))

ReadSoon(u) ==
  IF Pending(u) # NULL /\ Ends(u, Pending(u))
  THEN Kept(termRead[u], Extended(u, Pending(u)))
  ELSE termRead[u]

(* The key with which the unfinished line begins; the keys of the others.  *)
FirstKey(u) == typed[u] + 1 - Len(LineSoon(u))

KeysOf(l) == [from |-> l[1].n, to |-> l[Len(l)].n]
Spans(lines) == [k \in 1..Len(lines) |-> KeysOf(lines[k])]

(* The write between the two lines of termWriteMutex, and the last         *)
(* character put out.                                                      *)
Printing(u) == {[proc |-> p, done |-> sent[p], len |-> args[p].len] : p \in Writers(u)}

LastOut(u) == IF xmit[u] # NULL THEN xmit[u] ELSE lastSent[u]

Tty(u) == INSTANCE Teletype WITH
  None <- NULL,
  Length <- {c.len : c \in {d \in Call : Accepted(d)}},
  keys <- typed[u],
  first <- FirstKey(u),
  unread <- Spans(ReadSoon(u)),
  taken <- lastRead[u],
  writing <- Printing(u),
  paper <- LastOut(u)

(* To callers below the daemons every terminal is a teletype: nothing that *)
(* is typed is lost but the end of a full line and whole lines that nobody *)
(* reads, the newest of them, and what is written comes out as it is put   *)
(* out, one buffer at a time.                                              *)
AsTeletype ==
  /\ below => \A u \in Unit : Tty(u)!Init
  /\ [][below => \A u \in Unit : [Tty(u)!Next]_(Tty(u)!vars)]_vars
=============================================================================
