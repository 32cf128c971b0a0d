------------------------------- MODULE Agent -------------------------------
(***************************************************************************)
(* The kernel with the AI agent: kernel_main (kernel/src/main.rs) looks    *)
(* for a model in the initial RAM disk (Initrd), registers the agent's     *)
(* step with the scheduler (TaskScheduler), gives the tasks turns while it *)
(* boots and then one in each round of the main loop, between which the    *)
(* shell runs and the processor halts until an interrupt.  The agent       *)
(* (kernel/src/ai_agent.rs) turns telemetry and the weights of the model   *)
(* (AiModel) into a proposal, which apply_action.rs accepts or refuses     *)
(* (AtomicSetting, implemented by ApplyAction).                            *)
(*                                                                         *)
(* A page fault stops the machine before another step can see it counted,  *)
(* so the agent's page fault rate is always 0.                             *)
(*                                                                         *)
(* An operator named X_Y after a comment that starts with "Fault:" is a    *)
(* deliberately wrong variant Y of X; no specification uses it.            *)
(***************************************************************************)
EXTENDS TaskScheduler, Initrd, AiModel, ActionRules, FiniteSets

CONSTANTS
  MODEL,                                        \* the name "ai.mod"
  QUANTUM_BASE_US, QUANTUM_SCALE, MEM_LOW_KB,   \* a preset of ai_agent.rs
  TRIM_BYTES,
  FreeKbs,      \* the amounts of free memory
  Neurons,      \* outputs of the first neuron of a layer
  MaxElapsed,   \* ticks between two steps that are told apart from more
  ManyTicks,    \* what MaxElapsed ticks or more may have been
  Sleeps        \* arguments of the shell's sleep

ASSUME AgentAssumption ==
  /\ MODEL \in Bases
  /\ \A r \in Archives : r.model \in ModelHeaders
  /\ QUANTUM_BASE_US \in Int /\ QUANTUM_SCALE \in Int /\ MEM_LOW_KB \in Nat
  /\ TRIM_BYTES \in 1 .. TrimLimit /\ U32 \in Nat /\ U32 > 50000
  /\ "step" \in TaskFns
  /\ FreeKbs \subseteq Nat /\ 0 \in FreeKbs
  /\ Neurons \subseteq 0 .. 127
  /\ MaxElapsed \in Nat /\ ManyTicks \subseteq Nat /\ Sleeps \subseteq Nat

VARIABLES
  stage,            \* where kernel_main is
  interrupts, SYSTEM_READY,
  AI_MODEL_ADDR, AI_MODEL_LEN,
  AGENT_STATE,      \* the header the agent has copied, or NoState
  free_kb,          \* pmm::free_kib()
  elapsed,          \* TIMER_TICKS since the agent's last look, up to MaxElapsed
  remaining,        \* ticks until the shell's sleep is over
  action,           \* the proposal the agent is making, or NoAction
  result            \* of its last proposal

bootVars == <<interrupts, SYSTEM_READY>>
modelVars == <<AI_MODEL_ADDR, AI_MODEL_LEN>>
agentVars == <<AGENT_STATE, action, result>>
clockVars == <<elapsed, remaining>>
taskVars == vars
allVars == <<stage, bootVars, modelVars, agentVars, clockVars, free_kb,
             taskVars, initrdVars>>

NoState == [magic |-> FALSE]
NoAction == [kind |-> "None", param1 |-> 0]
Ok == 0
NotAllowed == 1
SelfTestFailed == 5

Least(a, b) == IF a < b THEN a ELSE b
Clamp(low, n, high) == IF n < low THEN low ELSE Least(n, high)

(* kernel_main waits for the task it has called.                           *)
Here(s) == stage = s /\ running = Idle
Goto(s) == stage' = s
-----------------------------------------------------------------------------
(* try_set_model_from_initrd.                                              *)
locate ==
  /\ Here("locate")
  /\ IF archive.len >= SIZE THEN cpio_find(MODEL) /\ Goto("finding")
     ELSE UNCHANGED initrdVars /\ Goto("early")
  /\ UNCHANGED <<bootVars, modelVars, agentVars, clockVars, free_kb, taskVars>>

find ==
  /\ Here("finding") /\ FindStep
  /\ UNCHANGED <<stage, bootVars, modelVars, agentVars, clockVars, free_kb, taskVars>>

(* Fault: the length of the archive taken for that of the model.           *)
set_model_Whole ==
  /\ Here("finding") /\ finder.state = "done"
  /\ IF finder.found # NoData /\ valid(archive.model)
       THEN AI_MODEL_ADDR' = finder.found /\ AI_MODEL_LEN' = archive.len
       ELSE UNCHANGED modelVars
  /\ Goto("early")
  /\ UNCHANGED <<bootVars, agentVars, clockVars, free_kb, taskVars, initrdVars>>

(* The model is given all that follows it in the archive.                  *)
set_model ==
  /\ Here("finding") /\ finder.state = "done"
  /\ IF finder.found # NoData /\ valid(archive.model)
       THEN AI_MODEL_ADDR' = finder.found /\ AI_MODEL_LEN' = archive.len - finder.found
       ELSE UNCHANGED modelVars
  /\ Goto("early")
  /\ UNCHANGED <<bootVars, agentVars, clockVars, free_kb, taskVars, initrdVars>>

early ==
  /\ Here("early")
  /\ IF AI_MODEL_ADDR # NoData THEN register("step") /\ Goto("first")
     ELSE UNCHANGED taskVars /\ Goto("idt")
  /\ UNCHANGED <<bootVars, modelVars, agentVars, clockVars, free_kb, initrdVars>>

(* The calls of run_once, each named for what kernel_main did before it,   *)
(* and where it goes on.                                                   *)
AfterTurn == [first |-> "idt", idt |-> "syscall", syscall |-> "pic", pic |-> "pmm",
              usb |-> "enable", tasks |-> "shell"]

turn ==
  /\ stage \in DOMAIN AfterTurn
  /\ run_once
  /\ Goto(AfterTurn[stage])
  /\ UNCHANGED <<bootVars, modelVars, agentVars, clockVars, free_kb, initrdVars>>

pmm_init ==
  /\ Here("pmm")
  /\ free_kb' \in FreeKbs
  /\ Goto("usb")
  /\ UNCHANGED <<bootVars, modelVars, agentVars, clockVars, taskVars, initrdVars>>

enable ==
  /\ Here("enable")
  /\ interrupts' = TRUE
  /\ Goto("ready")
  /\ UNCHANGED <<SYSTEM_READY, modelVars, agentVars, clockVars, free_kb, taskVars, initrdVars>>

set_system_ready ==
  /\ Here("ready")
  /\ SYSTEM_READY' = TRUE
  /\ Goto("tasks")
  /\ UNCHANGED <<interrupts, modelVars, agentVars, clockVars, free_kb, taskVars, initrdVars>>
-----------------------------------------------------------------------------
(* gather_telemetry: the ticks since the last look, none at the first.     *)
Rates == IF AGENT_STATE = NoState THEN {0}
         ELSE IF elapsed < MaxElapsed THEN {elapsed} ELSE ManyTicks
runqueue_len == Cardinality(Registered)

(* The layers that infer_and_propose computes: up to the first one that is *)
(* too wide for its buffers of 256 values.                                 *)
x_len(h, l) == IF l = 0 THEN Least(h.hidden, 256) ELSE out_dim(h, l - 1)
Fits(h, l) == in_dim(h, l) <= x_len(h, l) /\ out_dim(h, l) <= 256
Computed(h) == {l \in Layers(h) : \A k \in 0 .. l : Fits(h, k)}

need(h) == IF h.dtype = 0 THEN compute(h) + PAYLOAD_OFFSET ELSE 0

has_weights(h) == need(h) > PAYLOAD_OFFSET /\ AI_MODEL_LEN >= need(h)

(* The score: the first neuron of the last layer computed, the first input *)
(* if there is none, or a heuristic.                                       *)
Scores(h, rate) ==
  IF ~has_weights(h)
  THEN {Clamp(-127, runqueue_len + rate \div 2 - (free_kb \div 1024) \div 8, 127)}
  ELSE IF Computed(h) = {} THEN {Least(runqueue_len, 127)} ELSE Neurons

(* Fault: no lower limit.                                                  *)
Quantum_NoFloor(score) == Least(QUANTUM_BASE_US + score * QUANTUM_SCALE, 50000)

Quantum(score) == Clamp(100, QUANTUM_BASE_US + score * QUANTUM_SCALE, 50000)

infer_and_propose(h, rate) ==
  IF free_kb < MEM_LOW_KB THEN {[kind |-> "TrimCache", param1 |-> TRIM_BYTES]}
  ELSE {[kind |-> "SetQuantum", param1 |-> Quantum(s)] : s \in Scores(h, rate)}

Agent == running # Idle /\ TASKS[running] = "step"

ensure_init == AGENT_STATE # NoState \/ (AI_MODEL_ADDR # NoData /\ valid(archive.model))

(* step, up to the proposal.                                               *)
propose ==
  /\ Agent /\ action = NoAction
  /\ ensure_init
  /\ AGENT_STATE' = archive.model
  /\ \E rate \in Rates : action' \in infer_and_propose(archive.model, rate)
  /\ elapsed' = 0
  /\ UNCHANGED <<stage, bootVars, modelVars, result, remaining, free_kb, taskVars, initrdVars>>

(* ai_propose_action, in one step (see AtomicSetting): a proposal that     *)
(* passes the checks is accepted, or rolled back after its self-test.      *)
settle ==
  /\ Agent /\ action # NoAction
  /\ IF SYSTEM_READY /\ is_allowed(action.kind) /\ validate_params(action)
       THEN result' \in {Ok, SelfTestFailed}
       ELSE result' = NotAllowed
  /\ action' = NoAction
  /\ Return
  /\ UNCHANGED <<stage, bootVars, modelVars, AGENT_STATE, clockVars, free_kb, initrdVars>>

(* Other tasks, whoever registers them.                                    *)
other_task ==
  /\ running # Idle /\ ~Agent
  /\ Return
  /\ UNCHANGED <<stage, bootVars, modelVars, agentVars, clockVars, free_kb, initrdVars>>

register_other ==
  /\ stage \notin {"locate", "finding", "early"}
  /\ \E f \in TaskFns \ {"step"} : register(f)
  /\ UNCHANGED <<stage, bootVars, modelVars, agentVars, clockVars, free_kb, initrdVars>>
-----------------------------------------------------------------------------
(* The shell, when it has been given a command: ls, cat and hexdump.       *)
read_file ==
  /\ Here("shell")
  /\ \E want \in Bases : for_each(want)
  /\ Goto("reading")
  /\ UNCHANGED <<bootVars, modelVars, agentVars, clockVars, free_kb, taskVars>>

read_step ==
  /\ Here("reading")
  /\ \/ ListStep /\ UNCHANGED stage
     \/ Forget /\ Goto("shell")
  /\ UNCHANGED <<bootVars, modelVars, agentVars, clockVars, free_kb, taskVars>>

(* The command pci probes the USB controllers again, which takes memory.   *)
pci ==
  /\ Here("shell")
  /\ free_kb' \in {f \in FreeKbs : f < free_kb}
  /\ UNCHANGED <<stage, bootVars, modelVars, agentVars, clockVars, taskVars, initrdVars>>

yield ==
  /\ Here("shell") /\ Goto("yield")
  /\ UNCHANGED <<bootVars, modelVars, agentVars, clockVars, free_kb, taskVars, initrdVars>>

(* sleep_ms halts until enough ticks have come.                            *)
sleep ==
  /\ Here("shell")
  /\ remaining' \in Sleeps
  /\ Goto("sleep")
  /\ UNCHANGED <<bootVars, modelVars, agentVars, elapsed, free_kb, taskVars, initrdVars>>

sleep_check ==
  /\ Here("sleep")
  /\ IF remaining = 0 THEN Goto("shell") ELSE Goto("asleep")
  /\ UNCHANGED <<bootVars, modelVars, agentVars, clockVars, free_kb, taskVars, initrdVars>>

shell_done ==
  /\ Here("shell") /\ Goto("hlt")
  /\ UNCHANGED <<bootVars, modelVars, agentVars, clockVars, free_kb, taskVars, initrdVars>>

(* Fault: the main loop gives the tasks no turns.                          *)
Wakes_NoTurn == [hlt |-> "shell", asleep |-> "sleep", yield |-> "shell"]

(* A halted processor goes on after an interrupt.                          *)
Wakes == [hlt |-> "tasks", asleep |-> "sleep", yield |-> "shell"]
Wake == stage' = IF stage \in DOMAIN Wakes THEN Wakes[stage] ELSE stage

timer ==
  /\ interrupts
  /\ elapsed' = Least(elapsed + 1, MaxElapsed)
  /\ remaining' = IF remaining = 0 THEN 0 ELSE remaining - 1
  /\ Wake
  /\ UNCHANGED <<bootVars, modelVars, agentVars, free_kb, taskVars, initrdVars>>

other_interrupt ==
  /\ interrupts /\ Wake
  /\ UNCHANGED <<bootVars, modelVars, agentVars, clockVars, free_kb, taskVars, initrdVars>>
-----------------------------------------------------------------------------
AgentInit ==
  /\ Init /\ InitrdInit
  /\ stage = "locate"
  /\ interrupts = FALSE /\ SYSTEM_READY = FALSE
  /\ AI_MODEL_ADDR = NoData /\ AI_MODEL_LEN = 0
  /\ AGENT_STATE = NoState /\ action = NoAction /\ result = Ok
  /\ free_kb = 0 /\ elapsed = 0 /\ remaining = 0

Boot == locate \/ find \/ set_model \/ early \/ pmm_init \/ enable \/ set_system_ready
Task == propose \/ settle \/ other_task
Command == read_file \/ pci \/ yield \/ sleep
Thread == Boot \/ turn \/ Task \/ read_step \/ sleep_check

AgentNext == Thread \/ Command \/ shell_done \/ register_other \/ timer \/ other_interrupt

AgentSpec == AgentInit /\ [][AgentNext]_allVars

(* The processor executes kernel_main and what it calls, the timer keeps   *)
(* ticking, and the shell runs out of typed commands.                      *)
AgentFairSpec ==
  /\ AgentSpec
  /\ WF_allVars(Thread) /\ WF_allVars(timer) /\ SF_allVars(shell_done)
-----------------------------------------------------------------------------
(* Everything has its type, and the scheduler's variables theirs.          *)
AgentTypeOK ==
  /\ TypeOK
  /\ stage \in {"locate", "finding", "early", "pmm", "ready", "reading", "sleep"}
                 \cup DOMAIN AfterTurn \cup {AfterTurn[s] : s \in DOMAIN AfterTurn} \cup DOMAIN Wakes
  /\ interrupts \in BOOLEAN /\ SYSTEM_READY \in BOOLEAN
  /\ AI_MODEL_ADDR \in Nat \cup {NoData} /\ AI_MODEL_LEN \in Nat
  /\ AGENT_STATE \in ModelHeaders \cup {NoState}
  /\ action = NoAction \/ action \in [kind : {"SetQuantum", "TrimCache"}, param1 : Nat]
  /\ result \in {Ok, NotAllowed, SelfTestFailed}
  /\ free_kb \in FreeKbs /\ elapsed \in 0 .. MaxElapsed /\ remaining \in Nat

(* Whatever the header says, the agent reads weights and biases only where *)
(* they are: after the header, before the end of the archive, and each     *)
(* part of each layer behind the one before it (infer_and_propose,         *)
(* layer_ptr_int8, bias_ptr_i32, AI_MODEL_LEN).                            *)
WeightsInside ==
  AGENT_STATE # NoState /\ has_weights(AGENT_STATE) =>
    \A l \in Computed(AGENT_STATE) :
      LET h == AGENT_STATE
          start == layer_ptr_int8(h, l)
          biases == bias_ptr_i32(h, l)
      IN  /\ start = IF l = 0 THEN PAYLOAD_OFFSET
                     ELSE bias_ptr_i32(h, l - 1) + BiasBytes(h, l - 1)
          /\ AI_MODEL_ADDR + biases + BiasBytes(h, l) <= archive.len

(* Once the system is ready, no proposal of the agent is refused by the    *)
(* checks of apply_action_atomic: what infer_and_propose computes is       *)
(* always within what validate_params accepts.                             *)
AgentNeverRefused ==
  [][SYSTEM_READY /\ action # NoAction /\ action' = NoAction => result' # NotAllowed]_allVars

(* If a model was found, the agent makes proposals again and again,        *)
(* whatever other tasks and the shell do.                                  *)
AgentKeepsProposing == []<>(AI_MODEL_ADDR # NoData => action # NoAction)
=============================================================================
