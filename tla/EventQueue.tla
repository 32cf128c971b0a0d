----------------------------- MODULE EventQueue -----------------------------
(***************************************************************************)
(* What the event ring of kernel/src/xhci.rs promises its user: the events *)
(* the controller posts are handled one by one, in the order they were     *)
(* posted, each exactly once, and a full ring makes the controller wait.   *)
(***************************************************************************)
EXTENDS Integers, Sequences

CONSTANTS
  Capacity,   \* how many events wait at most
  Nothing     \* stands for the event handled last when there is none

VARIABLES
  pending,    \* the events posted and not yet handled, oldest first
  handled     \* the event handled last

absVars == <<pending, handled>>

AbsInit == pending = <<>> /\ handled = Nothing

Arrive(e) ==
  /\ Len(pending) < Capacity
  /\ pending' = Append(pending, e)
  /\ UNCHANGED handled

Take ==
  /\ pending # <<>>
  /\ handled' = Head(pending)
  /\ pending' = Tail(pending)

(* The event that arrived is the youngest one afterwards.                  *)
AbsNext ==
  \/ pending' # <<>> /\ Arrive(pending'[Len(pending')])
  \/ Take

AbsSpec == AbsInit /\ [][AbsNext]_absVars
=============================================================================
