--------------------------- MODULE TaskScheduler ---------------------------
(***************************************************************************)
(* The cooperative round-robin scheduler of kernel/src/task.rs.  The main  *)
(* loop calls run_once, which picks the next registered task, releases     *)
(* both locks and calls it; the task runs to its end, and may register     *)
(* others meanwhile.                                                       *)
(*                                                                         *)
(* An operator named X_Y after a comment that starts with "Fault:" is a    *)
(* deliberately wrong variant Y of X; no specification uses it.            *)
(***************************************************************************)
EXTENDS Integers

CONSTANTS
  LEN,      \* 8 in the code: the slots of TASKS
  TaskFns   \* the functions that may be registered

ASSUME TaskAssumption == LEN \in Nat \ {0} /\ "None" \notin TaskFns

VARIABLES
  TASKS, NEXT_INDEX,
  running,  \* the slot whose task is executing, or Idle
  missed    \* history: the turns of others since a slot's last turn, or
            \* since its registration

vars == <<TASKS, NEXT_INDEX, running, missed>>

Slots == 0 .. LEN - 1
Idle == LEN
None == "None"

Registered == {i \in Slots : TASKS[i] # None}

(* Fault: a full table gives up its first slot.                            *)
register_Replaces(f) ==
  /\ \E i \in Slots :
        /\ TASKS[i] = None \/ (Registered = Slots /\ i = 0)
        /\ \A j \in 0 .. i - 1 : TASKS[j] # None
        /\ TASKS' = [TASKS EXCEPT ![i] = f]
  /\ UNCHANGED <<NEXT_INDEX, running, missed>>

(* The first free slot takes the task; a full table refuses it.            *)
register(f) ==
  /\ \/ \E i \in Slots :
          /\ TASKS[i] = None
          /\ \A j \in 0 .. i - 1 : TASKS[j] # None
          /\ TASKS' = [TASKS EXCEPT ![i] = f]
     \/ /\ Registered = Slots
        /\ UNCHANGED TASKS
  /\ UNCHANGED <<NEXT_INDEX, running, missed>>

(* The slot k places after NEXT_INDEX.                                     *)
Slot(k) == (NEXT_INDEX + k) % LEN

(* Fault: the slot that gets the turn is where the next search begins.     *)
Turn_StaysPut(k) ==
  /\ running' = Slot(k)
  /\ NEXT_INDEX' = Slot(k)
  /\ missed' = [i \in Slots |-> IF i = Slot(k) \/ TASKS[i] = None THEN 0
                                ELSE IF missed[i] < LEN THEN missed[i] + 1 ELSE LEN]

(* Fault: NEXT_INDEX not reduced modulo the number of slots.               *)
Turn_NoWrap(k) ==
  /\ running' = Slot(k)
  /\ NEXT_INDEX' = NEXT_INDEX + k + 1
  /\ missed' = [i \in Slots |-> 0]

(* The k-th slot gets the turn: the search has passed it.                  *)
Turn(k) ==
  /\ running' = Slot(k)
  /\ NEXT_INDEX' = Slot(k + 1)
  /\ missed' = [i \in Slots |-> IF i = Slot(k) \/ TASKS[i] = None THEN 0
                                ELSE missed[i] + 1]

(* Without a registered task the search ends where it began.               *)
run_once ==
  /\ running = Idle
  /\ \/ \E k \in Slots :
          /\ TASKS[Slot(k)] # None
          /\ \A j \in 0 .. k - 1 : TASKS[Slot(j)] = None
          /\ Turn(k)
     \/ /\ Registered = {}
        /\ UNCHANGED <<running, NEXT_INDEX, missed>>
  /\ UNCHANGED TASKS

Return ==
  /\ running # Idle
  /\ running' = Idle
  /\ UNCHANGED <<TASKS, NEXT_INDEX, missed>>

Init ==
  /\ TASKS = [i \in Slots |-> None]
  /\ NEXT_INDEX = 0
  /\ running = Idle
  /\ missed = [i \in Slots |-> 0]

Next == (\E f \in TaskFns : register(f)) \/ run_once \/ Return

Spec == Init /\ [][Next]_vars

(* The main loop keeps calling run_once, and tasks return.                 *)
FairSpec == Spec /\ WF_vars(run_once) /\ WF_vars(Return)
-----------------------------------------------------------------------------
TypeOK ==
  /\ TASKS \in [Slots -> TaskFns \cup {None}]
  /\ NEXT_INDEX \in Slots
  /\ running \in Slots \cup {Idle}
  /\ missed \in [Slots -> Nat]

(* Between two turns of a task, and between its registration and its first *)
(* turn, the others get at most LEN - 1 turns altogether (run_once).       *)
BoundedWaiting == \A i \in Registered : missed[i] <= LEN - 1

(* A registered task is never replaced or forgotten.                       *)
RegistrationsKept ==
  [][\A i \in Registered : TASKS'[i] = TASKS[i]]_vars

(* Every registered task runs again and again.                             *)
TasksKeepRunning ==
  \A i \in Slots : (i \in Registered) ~> (running = i)

(* The places between the search and a slot; the search reaches a          *)
(* registered slot before the others have had too many turns.              *)
Distance(i) == IF i >= NEXT_INDEX THEN i - NEXT_INDEX ELSE i - NEXT_INDEX + LEN

TaskInv ==
  /\ TypeOK
  /\ \A i \in Slots : IF TASKS[i] # None THEN missed[i] + Distance(i) <= LEN - 1
                      ELSE missed[i] = 0
=============================================================================
