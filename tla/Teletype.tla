------------------------------ MODULE Teletype ------------------------------
(***************************************************************************)
(* What a terminal of src/phase4.c promises to programs that run below its *)
(* daemon: it works as if every key were in its line, and every character  *)
(* on paper, at once.  Keys are numbered as they are struck, and a line is *)
(* the first and the last key of those it holds.                           *)
(***************************************************************************)
EXTENDS Integers, Sequences

CONSTANTS Proc, None,
          Length,  \* the lengths of what may be written
          MaxLine, \* the keys that a line has room for
          Lines    \* the finished lines that are kept for readers

VARIABLES keys,    \* how many keys were struck
          first,   \* the key with which the unfinished line begins
          unread,  \* the finished lines that nobody has read
          taken,   \* the last key of the line that was read last
          writing, \* the write that has the paper, as a set of at most one
          paper    \* the last character on it

vars == <<keys, first, unread, taken, writing, paper>>

Init ==
  /\ keys = 0 /\ first = 1 /\ unread = <<>> /\ taken = 0
  /\ writing = {} /\ paper = None

(* A finished line is kept unless there are as many as can be. *)
Keep(l) == unread' = IF Len(unread) < Lines THEN Append(unread, l) ELSE unread

(* A key goes to the unfinished line, which a newline ends.  One that      *)
(* finds the line full ends it too, and is in no line.                     *)
Key(newline) ==
  LET n == keys + 1
      full == keys + 1 - first = MaxLine
  IN  /\ keys' = n
      /\ IF newline \/ full
         THEN first' = n + 1 /\ Keep([from |-> first, to |-> IF full THEN keys ELSE n])
         ELSE UNCHANGED <<first, unread>>
      /\ UNCHANGED <<taken, writing, paper>>

Read ==
  /\ unread # <<>>
  /\ unread' = Tail(unread) /\ taken' = Head(unread).to
  /\ UNCHANGED <<keys, first, writing, paper>>

(* A write has the paper from its first character to its last. *)
Begin(p, n) ==
  /\ writing = {}
  /\ writing' = {[proc |-> p, done |-> 0, len |-> n]}
  /\ UNCHANGED <<keys, first, unread, taken, paper>>

Strike ==
  /\ \E w \in writing :
       /\ w.done < w.len
       /\ writing' = {[w EXCEPT !.done = w.done + 1]}
       /\ paper' = [proc |-> w.proc, i |-> w.done + 1, len |-> w.len]
  /\ UNCHANGED <<keys, first, unread, taken>>

End ==
  /\ \E w \in writing : w.done = w.len
  /\ writing' = {}
  /\ UNCHANGED <<keys, first, unread, taken, paper>>

Next ==
  \/ \E newline \in BOOLEAN : Key(newline)
  \/ Read \/ Strike \/ End
  \/ \E p \in Proc, n \in Length : Begin(p, n)

Spec == Init /\ [][Next]_vars
=============================================================================
