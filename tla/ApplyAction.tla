---------------------------- MODULE ApplyAction ----------------------------
(***************************************************************************)
(* The transactional actions of kernel/src/apply_action.rs with their      *)
(* journal (journal.rs): a proposal is checked, announced in the journal,  *)
(* executed, tested by waiting for a timer tick, and then confirmed or     *)
(* rolled back.                                                            *)
(*                                                                         *)
(* Proposals come from the main thread, one at a time.  The timer          *)
(* interrupt may come between any two steps once interrupts are enabled,   *)
(* and a page fault may stop the machine for good: its handler never       *)
(* returns.                                                                *)
(*                                                                         *)
(* An operator named X_Y after a comment that starts with "Fault:" is a    *)
(* deliberately wrong variant Y of X; no specification uses it.            *)
(***************************************************************************)
EXTENDS Integers, Sequences, ActionRules

CONSTANTS
  Actions,     \* the proposals: records [kind, param1]
  SPINS,       \* 50 000 in the code: the iterations of the self-test
  MaxSeq,      \* bound on SEQ
  MaxTicks     \* bound on TIMER_TICKS

ASSUME ApplyAssumption ==
  /\ Actions \subseteq [kind : Kinds, param1 : Nat]
  /\ U32 \in Nat /\ U32 > 50000
  /\ SPINS \in Nat /\ MaxSeq \in Nat /\ MaxTicks \in Nat

VARIABLES
  interrupts,     \* whether kernel_main has enabled interrupts
  SYSTEM_READY, QUANTUM_US, SEQ,
  TIMER_TICKS, PAGE_FAULTS,
  halted,         \* whether the page fault handler is in halt_loop
  journal,        \* the entries written to port 0xE9, oldest first
  pc,             \* where apply_action_atomic is
  a, seq, before, \* its arguments and the state it saved
  start_ticks, start_pf, spin,   \* locals of self_test_ok
  result,         \* ActionOutcome.result of the proposal settled last
  proposed        \* history: the actions proposed so far, by seq + 1

bootVars == <<interrupts, SYSTEM_READY>>
counters == <<TIMER_TICKS, PAGE_FAULTS, halted>>
callVars == <<a, seq, SEQ, proposed>>
testVars == <<start_ticks, start_pf, spin>>
vars == <<bootVars, counters, callVars, testVars,
          QUANTUM_US, journal, pc, before, result>>

Log(entry) == journal' = Append(journal, entry)

(* The result codes of ai_propose_action.                                  *)
Ok == 0
NotAllowed == 1
ExecuteFailed == 4
SelfTestFailed == 5

(* The proposal is settled and ai_propose_action returns.                  *)
Return(res) == result' = res /\ pc' = "idle"
-----------------------------------------------------------------------------
ai_propose_action(act) ==
  /\ pc = "idle"
  /\ SEQ < MaxSeq
  /\ a' = act
  /\ seq' = SEQ
  /\ SEQ' = SEQ + 1
  /\ proposed' = Append(proposed, act)
  /\ pc' = "gate"
  /\ UNCHANGED <<bootVars, counters, testVars, QUANTUM_US, journal, before, result>>

(* The readiness gate and the two checks.                                  *)
Gate ==
  LET admitted == SYSTEM_READY /\ is_allowed(a.kind) /\ validate_params(a)
  IN  /\ pc = "gate"
      /\ \/ /\ admitted
            /\ pc' = "intent"
            /\ UNCHANGED <<journal, result>>
         \/ /\ ~admitted
            /\ Log([seq |-> seq, entry |-> "REJECT"])
            /\ Return(NotAllowed)
      /\ UNCHANGED <<bootVars, counters, callVars, testVars, QUANTUM_US, before>>

(* APPLY_LOCK is free: no other thread and no handler takes it.            *)
Intent ==
  /\ pc = "intent"
  /\ before' = QUANTUM_US
  /\ Log([seq |-> seq, entry |-> "INTENT"])
  /\ pc' = "execute"
  /\ UNCHANGED <<bootVars, counters, callVars, testVars, QUANTUM_US, result>>

(* write_quantum and trim_cache always succeed, so the branch of an        *)
(* execution that failed is never taken.                                   *)
Execute ==
  /\ pc = "execute"
  /\ QUANTUM_US' = IF a.kind = "SetQuantum" THEN AsU32(a.param1) ELSE QUANTUM_US
  /\ IF is_allowed(a.kind)
       THEN pc' = "start" /\ UNCHANGED <<journal, result>>
       ELSE Log([seq |-> seq, entry |-> "FAIL"]) /\ Return(ExecuteFailed)
  /\ UNCHANGED <<bootVars, counters, callVars, testVars, before>>
-----------------------------------------------------------------------------
(* self_test_ok: wait for a tick, for a bounded number of iterations.      *)
StartTest ==
  /\ pc = "start"
  /\ start_ticks' = TIMER_TICKS
  /\ start_pf' = PAGE_FAULTS
  /\ spin' = 0
  /\ pc' = "spin"
  /\ UNCHANGED <<bootVars, counters, callVars, QUANTUM_US, journal, before, result>>

(* Fault: waiting for as long as no tick comes.                            *)
Spin_Unbounded ==
  /\ pc = "spin"
  /\ TIMER_TICKS > start_ticks
  /\ pc' = "verdict"
  /\ UNCHANGED <<bootVars, counters, callVars, testVars, QUANTUM_US, journal, before, result>>

Spin ==
  /\ pc = "spin"
  /\ \/ /\ spin < SPINS
        /\ spin' = spin + 1
        /\ pc' = IF TIMER_TICKS > start_ticks THEN "verdict" ELSE "spin"
     \/ /\ spin = SPINS
        /\ pc' = "verdict"
        /\ UNCHANGED spin
  /\ UNCHANGED <<bootVars, counters, callVars, start_ticks, start_pf,
                 QUANTUM_US, journal, before, result>>

(* Fault: only page faults are looked at.                                  *)
self_test_ok_NoTick == PAGE_FAULTS = start_pf

self_test_ok == TIMER_TICKS > start_ticks /\ PAGE_FAULTS = start_pf

Verdict ==
  /\ pc = "verdict"
  /\ pc' = IF self_test_ok THEN "commit" ELSE "restore"
  /\ UNCHANGED <<bootVars, counters, callVars, testVars, QUANTUM_US, journal, before, result>>

Commit ==
  /\ pc = "commit"
  /\ Log([seq |-> seq, entry |-> "APPLY_OK"])
  /\ Return(Ok)
  /\ UNCHANGED <<bootVars, counters, callVars, testVars, QUANTUM_US, before>>

(* Fault: the quantum is not written back.                                 *)
Restore_Forgotten ==
  /\ pc = "restore"
  /\ pc' = "fail"
  /\ UNCHANGED <<bootVars, counters, callVars, testVars, QUANTUM_US, journal, before, result>>

Restore ==
  /\ pc = "restore"
  /\ QUANTUM_US' = before
  /\ pc' = "fail"
  /\ UNCHANGED <<bootVars, counters, callVars, testVars, journal, before, result>>

(* Fault: the rollback is not journaled.                                   *)
Fail_Silent ==
  /\ pc = "fail"
  /\ Return(SelfTestFailed)
  /\ UNCHANGED <<bootVars, counters, callVars, testVars, QUANTUM_US, journal, before>>

Fail ==
  /\ pc = "fail"
  /\ Log([seq |-> seq, entry |-> "FAIL"])
  /\ Return(SelfTestFailed)
  /\ UNCHANGED <<bootVars, counters, callVars, testVars, QUANTUM_US, before>>

Step == \/ Gate \/ Intent \/ Execute \/ StartTest \/ Spin \/ Verdict
        \/ Commit \/ Restore \/ Fail
-----------------------------------------------------------------------------
(* kernel_main enables interrupts, then declares the system ready.         *)
EnableInterrupts ==
  /\ pc = "idle" /\ ~interrupts
  /\ interrupts' = TRUE
  /\ UNCHANGED <<SYSTEM_READY, counters, callVars, testVars,
                 QUANTUM_US, journal, pc, before, result>>

(* Fault: the system declared ready while interrupts are still off.        *)
set_system_ready_Early ==
  /\ pc = "idle" /\ ~SYSTEM_READY
  /\ SYSTEM_READY' = TRUE
  /\ UNCHANGED <<interrupts, counters, callVars, testVars,
                 QUANTUM_US, journal, pc, before, result>>

set_system_ready ==
  /\ pc = "idle" /\ interrupts /\ ~SYSTEM_READY
  /\ SYSTEM_READY' = TRUE
  /\ UNCHANGED <<interrupts, counters, callVars, testVars,
                 QUANTUM_US, journal, pc, before, result>>

timer ==
  /\ interrupts
  /\ TIMER_TICKS < MaxTicks
  /\ TIMER_TICKS' = TIMER_TICKS + 1
  /\ UNCHANGED <<bootVars, PAGE_FAULTS, halted, callVars, testVars,
                 QUANTUM_US, journal, pc, before, result>>

(* The handler counts the fault, reports it and halts for ever.            *)
page_fault ==
  /\ PAGE_FAULTS' = PAGE_FAULTS + 1
  /\ halted' = TRUE
  /\ UNCHANGED <<bootVars, TIMER_TICKS, callVars, testVars,
                 QUANTUM_US, journal, pc, before, result>>
-----------------------------------------------------------------------------
Init ==
  /\ interrupts = FALSE /\ SYSTEM_READY = FALSE
  /\ QUANTUM_US = DefaultQuantum /\ SEQ = 0
  /\ TIMER_TICKS = 0 /\ PAGE_FAULTS = 0 /\ halted = FALSE
  /\ journal = <<>> /\ proposed = <<>>
  /\ pc = "idle" /\ result = -1
  /\ a = [kind |-> "None", param1 |-> 0] /\ seq = 0 /\ before = DefaultQuantum
  /\ start_ticks = 0 /\ start_pf = 0 /\ spin = 0

Next ==
  /\ ~halted
  /\ \/ \E act \in Actions : ai_propose_action(act)
     \/ Step
     \/ EnableInterrupts \/ set_system_ready
     \/ timer \/ page_fault

Spec == Init /\ [][Next]_vars

(* The main thread keeps executing.  Nothing is assumed of the timer.      *)
FairSpec == Spec /\ WF_vars(~halted /\ Step)
-----------------------------------------------------------------------------
Settling == {"start", "spin", "verdict", "commit", "restore"}

Entries == [seq : 0 .. MaxSeq - 1,
            entry : {"REJECT", "INTENT", "APPLY_OK", "FAIL"}]

TypeOK ==
  /\ interrupts \in BOOLEAN /\ SYSTEM_READY \in BOOLEAN /\ halted \in BOOLEAN
  /\ QUANTUM_US \in 0 .. U32 - 1 /\ before \in 0 .. U32 - 1
  /\ SEQ \in 0 .. MaxSeq /\ seq \in 0 .. MaxSeq
  /\ TIMER_TICKS \in 0 .. MaxTicks /\ start_ticks \in 0 .. MaxTicks
  /\ PAGE_FAULTS \in Nat /\ start_pf \in Nat /\ spin \in 0 .. SPINS
  /\ journal \in Seq(Entries)
  /\ proposed \in Seq(Actions) /\ Len(proposed) = SEQ
  /\ pc \in {"idle", "gate", "intent", "execute", "fail"} \cup Settling
  /\ result \in {-1, Ok, NotAllowed, ExecuteFailed, SelfTestFailed}

(* The quantum is within 100..=50_000 microseconds at every moment, also   *)
(* while an action is being tested and after it was rolled back.           *)
QuantumInRange == QUANTUM_US \in Quanta

(***************************************************************************)
(* The journal alone tells the quantum: whenever no execution is           *)
(* unsettled, it is the one set by the last action of the journal that     *)
(* was applied, or the initial 1000.  A machine that a page fault stops    *)
(* between execution and settlement leaves an INTENT without an outcome.   *)
(***************************************************************************)
Applied(i) == /\ journal[i].entry = "APPLY_OK"
              /\ proposed[journal[i].seq + 1].kind = "SetQuantum"

Explained(quantum) ==
  \/ /\ \A i \in 1 .. Len(journal) : ~Applied(i)
     /\ quantum = DefaultQuantum
  \/ \E i \in 1 .. Len(journal) :
        /\ Applied(i)
        /\ \A j \in i + 1 .. Len(journal) : ~Applied(j)
        /\ quantum = AsU32(proposed[journal[i].seq + 1].param1)

JournalExplains == Explained(IF pc \in Settling THEN before ELSE QUANTUM_US)

(* The entries of the journal are those of consecutive proposals, each     *)
(* with one outcome, announced by an INTENT unless it was rejected; only   *)
(* the last INTENT may still wait for its outcome.                         *)
JournalWellFormed ==
  \A i \in 1 .. Len(journal) :
     LET e == journal[i]
         p == journal[i - 1]
     IN  /\ e.entry \in {"REJECT", "INTENT"} =>
              IF i = 1 THEN e.seq = 0
              ELSE p.entry # "INTENT" /\ e.seq = p.seq + 1
         /\ e.entry \in {"APPLY_OK", "FAIL"} =>
              i > 1 /\ p = [seq |-> e.seq, entry |-> "INTENT"]

(* An action is confirmed only if a timer tick came after its execution,   *)
(* and no page fault: what self_test_ok is for.                            *)
CommitTested ==
  [][Len(journal') > Len(journal) /\ journal'[Len(journal')].entry = "APPLY_OK"
       => TIMER_TICKS > start_ticks /\ PAGE_FAULTS = 0]_vars

(* No action is begun while interrupts are off, where its self-test could  *)
(* only fail: "Now the system is considered stable for transactional       *)
(* actions" (main.rs:115).                                                 *)
IntentsTestable ==
  (\E i \in 1 .. Len(journal) : journal[i].entry = "INTENT") => interrupts

(* Every proposal is settled, whether or not the timer ticks, unless a     *)
(* page fault stops the machine.                                           *)
ProposalsSettle == (pc # "idle") ~> (pc = "idle" \/ halted)

(* The quantum in force: the saved one while an execution is unsettled.    *)
InForce == IF pc \in Settling THEN before ELSE QUANTUM_US

Setting == INSTANCE AtomicSetting WITH
  Values <- Quanta, Refusals <- {NotAllowed, ExecuteFailed, SelfTestFailed},
  value <- InForce, ready <- SYSTEM_READY

(* Actions are atomic: accepted ones take effect in one step, the others   *)
(* have none (apply_action_atomic).                                        *)
ImplementsAtomicSetting == Setting!AbsSpec
=============================================================================
