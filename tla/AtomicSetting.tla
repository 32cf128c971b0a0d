--------------------------- MODULE AtomicSetting ---------------------------
(***************************************************************************)
(* What apply_action.rs promises about the scheduler quantum: a proposal   *)
(* is accepted, which sets the quantum in one step and is possible only    *)
(* once the system is ready, or refused, which leaves it alone.            *)
(***************************************************************************)
EXTENDS Integers

CONSTANTS
  Values,     \* the quanta a proposal may set
  Refusals    \* the results that are not an acceptance

VARIABLES
  value,      \* the quantum in force
  ready,
  result      \* of the proposal settled last: 0 is acceptance

absVars == <<value, ready, result>>

AbsInit == value \in Values /\ ready = FALSE /\ result = -1

GetReady == ready' = TRUE /\ UNCHANGED <<value, result>>

Accept ==
  /\ ready
  /\ value' \in Values
  /\ result' = 0
  /\ UNCHANGED ready

Refuse == result' \in Refusals /\ UNCHANGED <<value, ready>>

AbsNext == GetReady \/ Accept \/ Refuse

AbsSpec == AbsInit /\ [][AbsNext]_absVars
=============================================================================
