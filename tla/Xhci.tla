-------------------------------- MODULE Xhci --------------------------------
(***************************************************************************)
(* The xHCI driver, kernel/src/xhci.rs, as log_usb_controllers of          *)
(* kernel/src/main.rs runs it: at boot, and again on the shell command     *)
(* "pci".  One thread queues commands and control transfers, and after     *)
(* each polls the event ring a bounded number of times for an answer; the  *)
(* controller works through the queues at its own pace.  Only the last     *)
(* code of each kind is kept, with nothing that says what it answers.      *)
(*                                                                         *)
(* The controller is external: it does what the driver relies on, takes    *)
(* the TRBs of a ring in order as their cycle bits allow, and may fail or  *)
(* be slow.  Port registers and the bytes of contexts and descriptors are  *)
(* left out.                                                               *)
(*                                                                         *)
(* An operator named X_Y after a comment that starts with "Fault:" is a    *)
(* deliberately wrong variant Y of X; no specification uses it.            *)
(***************************************************************************)
EXTENDS EventRing

CONSTANTS
  ITERATIONS,      \* how often a wait polls: 1_000_000 in the code
  CMD_USABLE,      \* command_ring_len - 1: 255
  EP0_USABLE,      \* ep0_ring_len - 1: 63
  INTR_USABLE,     \* intr_ring_len - 1: 127
  SlotIds,         \* the slots the controller may enable
  MaxProbes,       \* bound: runs of log_usb_controllers
  MaxPortChanges   \* bound: port status changes

Commands == {"noop", "enable_slot", "address_device", "configure_endpoint"}
ControlIns == {"device_descriptor", "config_header", "config_descriptor"}
Controls == ControlIns \cup {"set_configuration"}

(* What TRBs and events speak of; slot 0 is none.                          *)
Requests == Commands \cup Controls \cup {"none", "report"}
SomeSlot == {0} \cup SlotIds

Event(type, code, s, of) ==
  [type |-> type, code |-> code, slot |-> s, of |-> of, ep |-> "ep0"]

XhciEvents ==
  [type : {"command", "transfer"}, code : {"success", "error"}, slot : SomeSlot,
   of : Requests, ep : {"ep0"}]
  \cup {Event("port", "success", 0, "port")}

(* The command ring holds more than the four commands of a probe.          *)
ASSUME XhciAssumption ==
  /\ {ITERATIONS, CMD_USABLE, EP0_USABLE, INTR_USABLE} \subseteq Nat \ {0}
  /\ CMD_USABLE > 4
  /\ SlotIds \subseteq 1 .. 255
  /\ Events = XhciEvents

VARIABLES
  CONTROLLER_STATE,   \* has the Once been set?
  step, phase,        \* what the driver is doing: see Steps
  waits,              \* polls left in the current wait
  slot,               \* what enable_slot returned
  last_completion,    \* last_completion_code, last_completed_slot; of: history
  last_transfer_code,
  active_slot, ep0_ring_len, intr_ring_len, hid_buf_phys,
  total,              \* wTotalLength as get_configuration_descriptor_header read it
  timedout,           \* history: some wait has ended without an answer
  cmd, ep0, intr,     \* the rings: TRBs, the driver's index and cycle, the controller's
  attached,           \* does the controller use the rings of CONTROLLER_STATE?
  device,             \* the controller's view of the device
  buffers,            \* the transfers whose data has arrived in memory
  ports, probes

driverVars == <<CONTROLLER_STATE, step, phase, waits, slot, last_completion,
                last_transfer_code, active_slot, ep0_ring_len, intr_ring_len,
                hid_buf_phys, total, timedout, probes>>
queueVars == <<cmd, ep0, intr>>
deviceVars == <<attached, device, buffers, ports>>
vars == <<ringVars, driverVars, queueVars, deviceVars>>

(* active_slot = None: no u8.                                              *)
NoSlot == 256

Steps == Commands \cup Controls \cup
         {"init", "ports", "start_hid_polling", "ring_doorbell", "finish", "idle"}

NoAnswer == [code |-> "none", slot |-> 0, of |-> "none"]
NoDevice == [slot |-> 0, state |-> "disabled"]
-----------------------------------------------------------------------------
(* A ring the driver fills: commands, control transfers.                   *)

NoTrb == [kind |-> "none", of |-> "none", slot |-> 0, cycle |-> FALSE]

EmptyRing(usable) ==
  [trbs |-> [i \in 0 .. usable - 1 |-> NoTrb], enqueue |-> 0, cycle |-> TRUE,
   at |-> 0, ccs |-> TRUE]

(* Fault: the link TRB's slot is subtracted a second time.                 *)
Push_LinkTwice(r, usable, t) ==
  LET next == (r.enqueue + 1) % (usable - 1) IN
  [r EXCEPT !.trbs[r.enqueue % usable] = [t EXCEPT !.cycle = r.cycle],
            !.enqueue = next,
            !.cycle = IF next = 0 THEN ~r.cycle ELSE r.cycle]

(* Fault: the index runs on.                                               *)
Push_NoWrap(r, usable, t) ==
  [r EXCEPT !.trbs[r.enqueue % usable] = [t EXCEPT !.cycle = r.cycle],
            !.enqueue = r.enqueue + 1]

(* enqueue_command_trb, ep0_enqueue_trb and their like: no test for a full *)
(* ring, and the link TRB in the last slot is never touched again.         *)
Push(r, usable, t) ==
  LET next == (r.enqueue + 1) % usable IN
  [r EXCEPT !.trbs[r.enqueue % usable] = [t EXCEPT !.cycle = r.cycle],
            !.enqueue = next,
            !.cycle = IF next = 0 THEN ~r.cycle ELSE r.cycle]

(* The controller owns the TRB it looks at.                                *)
Owned(r, usable) == r.at < usable /\ r.trbs[r.at].cycle = r.ccs

(* The controller moves on, over the link TRB if that has its cycle bit,   *)
(* which init_link_trb set to 1 for good; otherwise it stops there.        *)
Fetch(r, usable) ==
  IF r.at + 1 < usable THEN [r EXCEPT !.at = r.at + 1]
  ELSE IF r.ccs THEN [r EXCEPT !.at = 0, !.ccs = FALSE]
  ELSE [r EXCEPT !.at = usable]

(* A transfer that failed halts the endpoint.                              *)
Halt(r, usable) == [r EXCEPT !.at = usable]

Trb(kind, of, s) == [kind |-> kind, of |-> of, slot |-> s, cycle |-> FALSE]
-----------------------------------------------------------------------------
(* The driver.                                                             *)

Goto(s) ==
  /\ step' = s
  /\ phase' = IF s \in {"ports", "finish"} THEN "poll" ELSE "issue"

(* What log_usb_controllers does when a step succeeded; else it is done    *)
(* and polls once more.                                                    *)
Following ==
  [enable_slot |-> "address_device", address_device |-> "device_descriptor",
   device_descriptor |-> "config_header", config_header |-> "config_descriptor",
   config_descriptor |-> "set_configuration", set_configuration |-> "configure_endpoint",
   configure_endpoint |-> "start_hid_polling"]

(* The no-op that ends init_controller may fail or go unanswered.          *)
Then(s, ok) ==
  IF s = "noop" THEN "ports" ELSE IF ok THEN Following[s] ELSE "finish"

(* A second success allocates and programs new rings, but call_once keeps  *)
(* the state, and with it the rings, of the first.                         *)
init_controller ==
  /\ step = "init"
  /\ device' = NoDevice
  /\ \/ Goto("idle") /\ attached' = FALSE /\ UNCHANGED CONTROLLER_STATE
     \/ Goto("noop") /\ attached' = ~CONTROLLER_STATE /\ CONTROLLER_STATE' = TRUE
  /\ UNCHANGED <<ringVars, queueVars, buffers, ports, waits, slot, last_completion,
                 last_transfer_code, active_slot, ep0_ring_len, intr_ring_len,
                 hid_buf_phys, total, timedout, probes>>

(* pmm::alloc_aligned has nothing left.                                    *)
NoMemory ==
  /\ phase = "issue"
  /\ step \in {"address_device", "configure_endpoint", "start_hid_polling"} \cup ControlIns
  /\ Goto("finish")
  /\ UNCHANGED <<ringVars, queueVars, deviceVars, CONTROLLER_STATE, waits, slot,
                 last_completion, last_transfer_code, active_slot, ep0_ring_len,
                 intr_ring_len, hid_buf_phys, total, timedout, probes>>

StartWait ==
  /\ phase' = "poll"
  /\ waits' = ITERATIONS
  /\ UNCHANGED <<ringVars, attached, device, ports, intr, CONTROLLER_STATE, step, slot,
                 last_completion, last_transfer_code, active_slot, ep0_ring_len,
                 intr_ring_len, hid_buf_phys, total, timedout, probes>>

(* enqueue_noop_command, enable_slot, address_device and                   *)
(* configure_interrupt_in_endpoint up to their wait.                       *)
IssueCommand ==
  /\ phase = "issue"
  /\ step \in Commands
  /\ LET s == IF step \in {"noop", "enable_slot"} THEN 0 ELSE slot
     IN  cmd' = Push(cmd, CMD_USABLE, Trb("command", step, s))
  /\ UNCHANGED <<ep0, buffers>>
  /\ StartWait

(* control_in and control_no_data up to their wait.  The buffer for the    *)
(* data is new and zeroed.                                                 *)
IssueControl ==
  /\ phase = "issue"
  /\ step \in Controls
  /\ LET setup == Push(ep0, EP0_USABLE, Trb("setup", step, slot))
         data == IF step \in ControlIns THEN Push(setup, EP0_USABLE, Trb("data", step, slot))
                 ELSE setup
     IN  ep0' = Push(data, EP0_USABLE, Trb("status", step, slot))
  /\ buffers' = buffers \ {step}
  /\ UNCHANGED cmd
  /\ StartWait

(* One event, as handle_event treats it.  A report from the keyboard is    *)
(* decoded and its TRB posted again, which rings a doorbell and so asks    *)
(* for the lock that poll_events holds.                                    *)
handle_event(e) ==
  LET report == /\ e.type = "transfer" /\ e.code = "success" /\ e.ep = "intr"
                /\ intr_ring_len > 0 /\ hid_buf_phys
  IN
  /\ last_completion' = IF e.type = "command"
                        THEN [code |-> e.code, slot |-> e.slot, of |-> e.of]
                        ELSE last_completion
  /\ last_transfer_code' = IF e.type = "transfer" THEN e.code ELSE last_transfer_code
  /\ intr' = IF report THEN Push(intr, INTR_USABLE, Trb("normal", "report", active_slot))
             ELSE intr
  /\ step' = IF report /\ active_slot # NoSlot THEN "ring_doorbell" ELSE step

(* poll_events: every event that is there.                                 *)
PollEvent ==
  /\ phase = "poll"
  /\ \/ TakeEvent /\ handle_event(handled')
     \/ set_erdp /\ UNCHANGED <<last_completion, last_transfer_code, intr, step>>
  /\ UNCHANGED <<deviceVars, cmd, ep0, CONTROLLER_STATE, phase, waits, slot,
                 active_slot, ep0_ring_len, intr_ring_len, hid_buf_phys, total,
                 timedout, probes>>

PollDone ==
  /\ phase = "poll"
  /\ acked
  /\ ~EventReady
  /\ phase' = "check"
  /\ UNCHANGED <<ringVars, queueVars, deviceVars, CONTROLLER_STATE, step, waits, slot,
                 last_completion, last_transfer_code, active_slot, ep0_ring_len,
                 intr_ring_len, hid_buf_phys, total, timedout, probes>>

(* Fault: any successful completion will do.                               *)
Confirmed_AnySlot(a) == a.code = "success"

(* address_device and configure_interrupt_in_endpoint: the completion is   *)
(* a success for the slot they named.                                      *)
Confirmed(a) == a.code = "success" /\ a.slot = slot

(* address_device: the slot and its new ring are kept once confirmed.      *)
AdoptEp0Ring(ok) ==
  IF step = "address_device" /\ ok
  THEN active_slot' = slot /\ ep0_ring_len' = EP0_USABLE + 1 /\ ep0' = EmptyRing(EP0_USABLE)
  ELSE UNCHANGED <<active_slot, ep0_ring_len, ep0>>

(* configure_interrupt_in_endpoint: likewise the interrupt ring.           *)
AdoptIntrRing(ok) ==
  IF step = "configure_endpoint" /\ ok
  THEN intr_ring_len' = INTR_USABLE + 1 /\ intr' = EmptyRing(INTR_USABLE)
  ELSE UNCHANGED <<intr_ring_len, intr>>

(* Fault: the answer stays where it was found.                             *)
CheckCommand_NoTake ==
  /\ phase = "check" /\ step \in Commands /\ last_completion # NoAnswer
  /\ slot' = IF step = "enable_slot" THEN last_completion.slot ELSE slot
  /\ Goto(Then(step, last_completion.code = "success"))
  /\ UNCHANGED <<ringVars, queueVars, deviceVars, CONTROLLER_STATE, waits,
                 last_completion, last_transfer_code, active_slot, ep0_ring_len,
                 intr_ring_len, hid_buf_phys, total, timedout, probes>>

(* wait_for_command_completion finds an answer, and its caller goes on.    *)
CheckCommand ==
  /\ phase = "check" /\ step \in Commands /\ last_completion # NoAnswer
  /\ last_completion' = NoAnswer
  /\ LET a == last_completion
         ok == IF step = "enable_slot" THEN a.code = "success" ELSE Confirmed(a)
     IN  /\ Goto(Then(step, ok))
         /\ slot' = IF step = "enable_slot" /\ ok THEN a.slot ELSE slot
         /\ AdoptEp0Ring(ok)
         /\ AdoptIntrRing(ok)
  /\ UNCHANGED <<ringVars, deviceVars, cmd, CONTROLLER_STATE, waits, last_transfer_code,
                 hid_buf_phys, total, timedout, probes>>

(* Fault: the descriptor is not looked into.                               *)
CheckControl_NoParse ==
  /\ phase = "check" /\ step \in Controls /\ last_transfer_code # "none"
  /\ last_transfer_code' = "none"
  /\ Goto(Then(step, last_transfer_code = "success"))
  /\ total' = IF step # "config_header" \/ last_transfer_code # "success" THEN total
              ELSE IF step \in buffers THEN "read" ELSE "zero"
  /\ UNCHANGED <<ringVars, queueVars, deviceVars, CONTROLLER_STATE, waits, slot,
                 last_completion, active_slot, ep0_ring_len, intr_ring_len,
                 hid_buf_phys, timedout, probes>>

(* control_in and control_no_data find an answer, the first that comes.    *)
(* The descriptors are read when they return; parse_hid_keyboard_endpoint  *)
(* finds no endpoint in an empty or zeroed descriptor.                     *)
CheckControl ==
  /\ phase = "check" /\ step \in Controls /\ last_transfer_code # "none"
  /\ last_transfer_code' = "none"
  /\ \E found \in BOOLEAN :
       /\ found => total = "read" /\ "config_descriptor" \in buffers
       /\ Goto(Then(step, last_transfer_code = "success" /\ (step = "set_configuration" => found)))
  /\ total' = IF step # "config_header" \/ last_transfer_code # "success" THEN total
              ELSE IF step \in buffers THEN "read" ELSE "zero"
  /\ UNCHANGED <<ringVars, queueVars, deviceVars, CONTROLLER_STATE, waits, slot,
                 last_completion, active_slot, ep0_ring_len, intr_ring_len,
                 hid_buf_phys, timedout, probes>>

Unanswered ==
  \/ step \in Commands /\ last_completion = NoAnswer
  \/ step \in Controls /\ last_transfer_code = "none"

(* Fault: the loop is not counted.                                         *)
CheckAgain_Uncounted ==
  /\ phase = "check" /\ Unanswered
  /\ phase' = "poll"
  /\ UNCHANGED <<ringVars, queueVars, deviceVars, CONTROLLER_STATE, waits, step, timedout,
                 slot, last_completion, last_transfer_code, active_slot, ep0_ring_len,
                 intr_ring_len, hid_buf_phys, total, probes>>

(* No answer: poll again, or give up after ITERATIONS polls.               *)
CheckAgain ==
  /\ phase = "check" /\ Unanswered
  /\ waits' = waits - 1
  /\ IF waits > 1 THEN phase' = "poll" /\ UNCHANGED <<step, timedout>>
     ELSE Goto(Then(step, FALSE)) /\ timedout' = TRUE
  /\ UNCHANGED <<ringVars, queueVars, deviceVars, CONTROLLER_STATE, slot,
                 last_completion, last_transfer_code, active_slot, ep0_ring_len,
                 intr_ring_len, hid_buf_phys, total, probes>>

(* The polls that wait for nothing: after init_controller, at the end of   *)
(* the probe, and in the main loop.                                        *)
PollReturns ==
  /\ phase = "check" /\ step \in {"ports", "finish", "idle"}
  /\ Goto(IF step = "ports" THEN "enable_slot" ELSE "idle")
  /\ UNCHANGED <<ringVars, queueVars, deviceVars, CONTROLLER_STATE, waits, slot,
                 last_completion, last_transfer_code, active_slot, ep0_ring_len,
                 intr_ring_len, hid_buf_phys, total, timedout, probes>>

(* start_hid_polling queues a TRB and rings the doorbell with the lock of  *)
(* CONTROLLER_STATE still held ...                                         *)
start_hid_polling ==
  /\ step = "start_hid_polling"
  /\ hid_buf_phys' = TRUE
  /\ intr' = Push(intr, INTR_USABLE, Trb("normal", "report", slot))
  /\ step' = "ring_doorbell"
  /\ UNCHANGED <<ringVars, cmd, ep0, deviceVars, CONTROLLER_STATE, phase, waits, slot,
                 last_completion, last_transfer_code, active_slot, ep0_ring_len,
                 intr_ring_len, total, timedout, probes>>

(* ... and ring_doorbell spins on that lock.                               *)
SpinOnLock == step = "ring_doorbell" /\ UNCHANGED vars

(* The main loop polls; the shell command "pci" probes again.              *)
MainLoop ==
  /\ step = "idle" /\ phase = "issue"
  /\ \/ /\ phase' = IF CONTROLLER_STATE THEN "poll" ELSE phase
        /\ UNCHANGED <<step, probes>>
     \/ probes < MaxProbes /\ probes' = probes + 1 /\ Goto("init")
  /\ UNCHANGED <<ringVars, queueVars, deviceVars, CONTROLLER_STATE, waits, slot,
                 last_completion, last_transfer_code, active_slot, ep0_ring_len,
                 intr_ring_len, hid_buf_phys, total, timedout>>
-----------------------------------------------------------------------------
(* The controller.                                                         *)

(* It takes a command, and answers success or an error.                    *)
ExecuteCommand ==
  /\ attached /\ Owned(cmd, CMD_USABLE)
  /\ LET t == cmd.trbs[cmd.at] IN
     \/ /\ PostEvent(Event("command", "error", t.slot, t.of))
        /\ UNCHANGED device
     \/ /\ t.of = "noop"
        /\ PostEvent(Event("command", "success", 0, t.of))
        /\ UNCHANGED device
     \/ \E s \in SlotIds :
          /\ t.of = "enable_slot"
          /\ PostEvent(Event("command", "success", s, t.of))
          /\ device' = [slot |-> s, state |-> "enabled"]
     \/ /\ t.of = "address_device"
        /\ device = [slot |-> t.slot, state |-> "enabled"]
        /\ PostEvent(Event("command", "success", t.slot, t.of))
        /\ device' = [device EXCEPT !.state = "addressed"]
     \/ /\ t.of = "configure_endpoint"
        /\ device = [slot |-> t.slot, state |-> "addressed"]
        /\ PostEvent(Event("command", "success", t.slot, t.of))
        /\ device' = [device EXCEPT !.state = "configured"]
  /\ cmd' = Fetch(cmd, CMD_USABLE)
  /\ UNCHANGED <<driverVars, ep0, intr, attached, buffers, ports>>

(* It takes one stage of a control transfer, each of which asks for an     *)
(* event of its own; the data stage brings the data.                       *)
ExecuteTransfer ==
  /\ attached /\ Owned(ep0, EP0_USABLE)
  /\ LET t == ep0.trbs[ep0.at] IN
     \/ /\ PostEvent(Event("transfer", "error", t.slot, t.of))
        /\ ep0' = Halt(ep0, EP0_USABLE)
        /\ UNCHANGED buffers
     \/ /\ PostEvent(Event("transfer", "success", t.slot, t.of))
        /\ ep0' = Fetch(ep0, EP0_USABLE)
        /\ buffers' = IF t.kind = "data" THEN buffers \cup {t.of} ELSE buffers
  /\ UNCHANGED <<driverVars, cmd, intr, attached, device, ports>>

PortChange ==
  /\ attached /\ ports < MaxPortChanges
  /\ PostEvent(Event("port", "success", 0, "port"))
  /\ ports' = ports + 1
  /\ UNCHANGED <<driverVars, queueVars, attached, device, buffers>>
-----------------------------------------------------------------------------
Init ==
  /\ RingInit
  /\ CONTROLLER_STATE = FALSE
  /\ step = "init" /\ phase = "issue"
  /\ waits = 0
  /\ slot = 0
  /\ last_completion = NoAnswer
  /\ last_transfer_code = "none"
  /\ active_slot = NoSlot
  /\ ep0_ring_len = 0 /\ intr_ring_len = 0
  /\ hid_buf_phys = FALSE
  /\ total = "unread"
  /\ timedout = FALSE
  /\ cmd = EmptyRing(CMD_USABLE)
  /\ ep0 = EmptyRing(EP0_USABLE)
  /\ intr = EmptyRing(INTR_USABLE)
  /\ attached = FALSE
  /\ device = NoDevice
  /\ buffers = {}
  /\ ports = 0
  /\ probes = 1

Driver ==
  \/ init_controller \/ NoMemory \/ IssueCommand \/ IssueControl
  \/ PollEvent \/ PollDone \/ CheckCommand \/ CheckControl \/ CheckAgain
  \/ PollReturns \/ start_hid_polling \/ SpinOnLock \/ MainLoop

Controller == ExecuteCommand \/ ExecuteTransfer \/ PortChange

Next == Driver \/ Controller

Spec == Init /\ [][Next]_vars

(* The kernel's only thread keeps running; the controller owes nothing.    *)
FairSpec == Spec /\ WF_vars(Driver)
-----------------------------------------------------------------------------
Trbs == [kind : {"none", "command", "setup", "data", "status", "normal"},
         of : Requests, slot : SomeSlot, cycle : BOOLEAN]

ProducerRings(usable) ==
  [trbs : [0 .. usable - 1 -> Trbs], enqueue : 0 .. usable - 1, cycle : BOOLEAN,
   at : 0 .. usable, ccs : BOOLEAN]

TypeOK ==
  /\ RingTypeOK
  /\ CONTROLLER_STATE \in BOOLEAN /\ attached \in BOOLEAN /\ timedout \in BOOLEAN
  /\ step \in Steps /\ phase \in {"issue", "poll", "check"}
  /\ waits \in 0 .. ITERATIONS
  /\ slot \in SomeSlot /\ active_slot \in SomeSlot \cup {NoSlot}
  /\ last_completion \in [code : {"none", "success", "error"}, slot : SomeSlot, of : Requests]
  /\ last_transfer_code \in {"none", "success", "error"}
  /\ cmd \in ProducerRings(CMD_USABLE)
  /\ ep0 \in ProducerRings(EP0_USABLE)
  /\ intr \in ProducerRings(INTR_USABLE)
  /\ ep0_ring_len \in {0, EP0_USABLE + 1} /\ intr_ring_len \in {0, INTR_USABLE + 1}
  /\ hid_buf_phys \in BOOLEAN
  /\ device \in [slot : SomeSlot, state : {"disabled", "enabled", "addressed", "configured"}]
  /\ total \in {"unread", "read", "zero"}
  /\ buffers \subseteq Requests

(* What the driver believes of the device the controller has confirmed,    *)
(* late answers to commands given up on notwithstanding: the slot it calls *)
(* active is addressed, and an interrupt ring means a configured endpoint  *)
(* (address_device, configure_interrupt_in_endpoint).                      *)
StateConfirmed ==
  attached =>
    /\ active_slot # NoSlot => /\ device.slot = active_slot
                               /\ device.state \in {"addressed", "configured"}
    /\ intr_ring_len > 0 => device.state = "configured"

(* The keyboard's endpoint is set up only from a configuration descriptor  *)
(* that has arrived, whichever transfers before it failed or were answered *)
(* by an event of another stage (log_usb_controllers).                     *)
EndpointFromDescriptor ==
  step \in {"configure_endpoint", "start_hid_polling"} =>
    total = "read" /\ "config_descriptor" \in buffers

(* As long as no wait has timed out, the completion a command waits for is *)
(* the one it gets (wait_for_command_completion).                          *)
CompletionsMatch ==
  [][CheckCommand => timedout \/ last_completion.of = step]_vars

Unfetched(r, usable) ==
  {i \in 0 .. usable - 1 : r.at < usable /\
     r.trbs[i].cycle = (IF i >= r.at THEN r.ccs ELSE ~r.ccs)}

(* Though no ring is tested for room, no TRB is overwritten that the       *)
(* controller has still to take (enqueue_command_trb, ep0_enqueue_trb).    *)
RingsNotOverrun ==
  [][attached /\ (IssueCommand \/ IssueControl) =>
       /\ \A i \in Unfetched(cmd, CMD_USABLE) : cmd'.trbs[i] = cmd.trbs[i]
       /\ \A i \in Unfetched(ep0, EP0_USABLE) : ep0'.trbs[i] = ep0.trbs[i]]_vars

(* Every probe comes to an end, answered or not, up to the doorbell of     *)
(* start_hid_polling: no wait is for ever.                                 *)
ProbesEnd == (step # "idle") ~> (step \in {"idle", "ring_doorbell"})

(* A device whose endpoint is configured gets its polling started, and the *)
(* probe goes on (start_hid_polling).                                      *)
PollingStarts == (step = "start_hid_polling") ~> (step = "idle")
-----------------------------------------------------------------------------
(* Why late answers do no harm.  A probe queues its commands in this order *)
(* and the controller, as long as it uses the ring, answers each once, in  *)
(* the same order; the driver may fall behind but never mixes them up.     *)
Order == [noop |-> 1, enable_slot |-> 2, address_device |-> 3, configure_endpoint |-> 4]

(* A success for a slot says what has become of the device d.              *)
Truthful(a, d) ==
  /\ a.of \in Commands
  /\ a.code = "success" =>
       /\ a.of = "noop" => a.slot = 0
       /\ a.of # "noop" => a.slot \in SlotIds
       /\ Order[a.of] >= 3 => d.slot = a.slot /\ d.state \in {"addressed", "configured"}
       /\ a.of = "configure_endpoint" => d.state = "configured"

(* The events of p that answer commands.                                   *)
Answers(p) == {k \in 1 .. Len(p) : p[k].type = "command"}

(* The answers still in the ring, p, and the one taken out last, a, are    *)
(* true, in order, and to commands the controller has fetched.             *)
InOrder(p, a, at, d) ==
  /\ \A k \in Answers(p) : Truthful(p[k], d) /\ Order[p[k].of] <= at
  /\ \A k, l \in Answers(p) : k < l => Order[p[k].of] < Order[p[l].of]
  /\ a # NoAnswer => /\ Truthful(a, d) /\ Order[a.of] <= at
                     /\ \A k \in Answers(p) : Order[a.of] < Order[p[k].of]

(* No answer is to come, or left, to a command before the nth.             *)
From(n, p, a, at) ==
  /\ n <= at + 1
  /\ \A k \in Answers(p) : n <= Order[p[k].of]
  /\ a # NoAnswer => n <= Order[a.of]

Left(n) == From(n, Pending, last_completion, cmd.at)

(* The command ring of a controller that uses it.                          *)
CommandsInv ==
  /\ cmd.cycle /\ cmd.ccs /\ cmd.enqueue <= 4 /\ cmd.at <= cmd.enqueue
  /\ \A i \in 0 .. CMD_USABLE - 1 :
       /\ cmd.trbs[i].cycle <=> i < cmd.enqueue
       /\ i < cmd.enqueue => cmd.trbs[i].of \in Commands /\ Order[cmd.trbs[i].of] = i + 1
  /\ InOrder(Pending, last_completion, cmd.at, device)
  /\ device.state # "disabled" => device.slot \in SlotIds

(* What each step of the probe knows.                                      *)
ProbeInv ==
  /\ step \in Commands => cmd.enqueue = IF phase = "issue" THEN Order[step] - 1 ELSE Order[step]
  /\ step = "ports" => cmd.enqueue = 1
  /\ step \in Controls => cmd.enqueue = 3
  /\ step = "address_device" => Left(IF slot = 0 THEN 2 ELSE 3)
  /\ step \in Controls \cup {"configure_endpoint"} => Left(4) /\ active_slot = slot
  /\ active_slot # NoSlot => cmd.at >= 3
  /\ intr_ring_len > 0 => cmd.at >= 4
  /\ ~timedout => Left(IF step \in Commands /\ phase # "issue" THEN cmd.enqueue
                       ELSE cmd.enqueue + 1)

(* Before the first controller is set up.                                  *)
Fresh ==
  /\ step \in {"init", "idle"} /\ phase = "issue"
  /\ ~attached /\ active_slot = NoSlot /\ intr_ring_len = 0
  /\ cmd = EmptyRing(CMD_USABLE) /\ Pending = <<>> /\ last_completion = NoAnswer

(* No command is answered, the rings being those of a controller left.     *)
Quiet == Answers(Pending) = {} /\ last_completion = NoAnswer

XhciInv ==
  /\ StateConfirmed
  /\ ~CONTROLLER_STATE => Fresh
  /\ attached => CommandsInv /\ ProbeInv
  /\ ~attached /\ ~timedout => Quiet
=============================================================================
