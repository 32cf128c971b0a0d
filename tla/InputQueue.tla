----------------------------- MODULE InputQueue -----------------------------
(***************************************************************************)
(* What the key buffer of kernel/src/keyboard.rs promises: characters are  *)
(* taken in the order they arrived, none is invented, duplicated or        *)
(* altered, and one is dropped only on arrival at a full buffer.           *)
(***************************************************************************)
EXTENDS Integers, Sequences

CONSTANTS
  Chars,      \* the characters
  Capacity    \* how many wait at most

VARIABLES
  queue,      \* the characters waiting, oldest first
  taken       \* the character taken last

absVars == <<queue, taken>>

(* The queue after one character was offered to it.                        *)
Offer(q, c) == IF Len(q) < Capacity THEN Append(q, c) ELSE q

AbsInit == queue = <<>> /\ taken = "none"

(* One key press: one character, or the four spaces of the tab key.        *)
Arrive(c) ==
  /\ c \in Chars
  /\ \/ queue' = Offer(queue, c)
     \/ queue' = Offer(Offer(Offer(Offer(queue, c), c), c), c)
  /\ UNCHANGED taken

Take ==
  /\ queue # <<>>
  /\ taken' = Head(queue)
  /\ queue' = Tail(queue)

(* The character that arrived is the youngest one afterwards.              *)
AbsNext ==
  \/ queue' # <<>> /\ Arrive(queue'[Len(queue')])
  \/ Take

AbsSpec == AbsInit /\ [][AbsNext]_absVars
=============================================================================
