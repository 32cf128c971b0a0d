-------------------------- MODULE XhciAnswerProofs --------------------------
(***************************************************************************)
(* Answers that come late: a command whose wait timed out leaves its       *)
(* answer for the next one to take.  What saves the driver is that a       *)
(* controller's command ring sees four commands, which are answered in     *)
(* order, so each step of the probe knows which answers can still come.    *)
(* And the room in the rings of commands and control transfers.            *)
(***************************************************************************)
EXTENDS XhciProofs

(* The order of the commands, and so of their answers.                     *)
LEMMA OrderIs ==
  /\ Order["noop"] = 1 /\ Order["enable_slot"] = 2 /\ Order["address_device"] = 3
  /\ Order["configure_endpoint"] = 4
  /\ \A c \in Commands : Order[c] \in 1 .. 4
<1>1. /\ Order["noop"] = 1 /\ Order["enable_slot"] = 2 /\ Order["address_device"] = 3
      /\ Order["configure_endpoint"] = 4
  BY DEF Order
<1>2. QED
  BY <1>1 DEF Commands

(* The controller answers the next command.                                *)
LEMMA AnswerPosted ==
  ASSUME NEW p \in Seq(Events), NEW e \in Events, NEW a, NEW at \in Nat, NEW d, NEW d2,
         InOrder(p, a, at, d), e.type = "command", Truthful(e, d2), Order[e.of] = at + 1,
         \A b : Truthful(b, d) /\ Order[b.of] <= at => Truthful(b, d2)
  PROVE  /\ InOrder(Append(p, e), a, at + 1, d2)
         /\ \A n \in Nat : From(n, p, a, at) => From(n, Append(p, e), a, at + 1)
<1> DEFINE q == Append(p, e)
           last == Len(p) + 1
<1>1. Len(q) = last /\ q[last] = e /\ \A k \in 1 .. Len(p) : q[k] = p[k]
  OBVIOUS
<1>2. last \in Nat /\ last \notin Answers(p) /\ \A k \in Answers(p) : k \in Nat /\ k < last
  BY DEF Answers
<1>3. Answers(q) = Answers(p) \cup {last} /\ \A k \in Answers(p) : q[k] = p[k]
  BY <1>1, <1>2 DEF Answers
<1> HIDE DEF q, last
<1>4. \A k \in Answers(p) : Truthful(q[k], d2) /\ Order[q[k].of] \in 1 .. 4 /\ Order[q[k].of] <= at
  <2> SUFFICES ASSUME NEW k \in Answers(p)
               PROVE  Truthful(q[k], d2) /\ Order[q[k].of] \in 1 .. 4 /\ Order[q[k].of] <= at
    OBVIOUS
  <2>1. Truthful(p[k], d) /\ Order[p[k].of] <= at
    BY DEF InOrder
  <2>2. Order[p[k].of] \in 1 .. 4
    BY <2>1, OrderIs DEF Truthful
  <2>3. QED
    BY <1>3, <2>1, <2>2
<1>5. Truthful(q[last], d2) /\ Order[q[last].of] = at + 1
  BY <1>1
<1>6. ASSUME NEW k \in Answers(q), NEW l \in Answers(q), k < l
      PROVE  Order[q[k].of] < Order[q[l].of]
  <2>1. k \in Answers(p)
    BY <1>2, <1>3, <1>6
  <2>2. CASE l \in Answers(p)
    BY <1>3, <1>6, <2>1, <2>2 DEF InOrder
  <2>3. CASE l = last
    BY <1>4, <1>5, <2>1, <2>3
  <2>4. QED
    BY <1>3, <2>2, <2>3
<1>7. ASSUME a # NoAnswer
      PROVE  /\ Truthful(a, d2) /\ Order[a.of] <= at + 1 /\ Order[a.of] \in 1 .. 4
             /\ \A k \in Answers(q) : Order[a.of] < Order[q[k].of]
  <2>1. /\ Truthful(a, d) /\ Order[a.of] <= at
        /\ \A k \in Answers(p) : Order[a.of] < Order[p[k].of]
    BY <1>7 DEF InOrder
  <2>2. Order[a.of] \in 1 .. 4
    BY <2>1, OrderIs DEF Truthful
  <2>3. QED
    BY <1>3, <1>5, <2>1, <2>2
<1>8. InOrder(q, a, at + 1, d2)
  BY <1>3, <1>4, <1>5, <1>6, <1>7 DEF InOrder
<1>9. ASSUME NEW n \in Nat, From(n, p, a, at)
      PROVE  From(n, q, a, at + 1)
  BY <1>3, <1>5, <1>9 DEF From
<1>10. QED
  BY <1>8, <1>9 DEF q

(* It posts an event of another kind.                                      *)
LEMMA OtherPosted ==
  ASSUME NEW p \in Seq(Events), NEW e \in Events, NEW a, NEW at, NEW d,
         e.type # "command"
  PROVE  /\ InOrder(p, a, at, d) => InOrder(Append(p, e), a, at, d)
         /\ \A n : From(n, p, a, at) => From(n, Append(p, e), a, at)
         /\ Answers(Append(p, e)) = Answers(p)
<1> DEFINE q == Append(p, e)
<1>1. Len(q) = Len(p) + 1 /\ q[Len(p) + 1] = e /\ \A k \in 1 .. Len(p) : q[k] = p[k]
  OBVIOUS
<1>2. Answers(q) = Answers(p) /\ \A k \in Answers(p) : q[k] = p[k]
  BY <1>1 DEF Answers
<1> HIDE DEF q
<1>3. InOrder(p, a, at, d) => InOrder(q, a, at, d)
  BY <1>2 DEF InOrder
<1>4. \A n : From(n, p, a, at) => From(n, q, a, at)
  BY <1>2 DEF From
<1>5. QED
  BY <1>2, <1>3, <1>4 DEF q

(* What last_completion becomes when the event e is handled.               *)
Latest(e, a) ==
  IF e.type = "command" THEN [code |-> e.code, slot |-> e.slot, of |-> e.of] ELSE a

(* The driver takes the oldest event out of the ring.                      *)
LEMMA AnswerTaken ==
  ASSUME NEW p \in Seq(Events), p # <<>>, NEW a, NEW at \in Nat, NEW d, NEW b,
         b = Latest(Head(p), a)
  PROVE  /\ InOrder(p, a, at, d) => InOrder(Tail(p), b, at, d)
         /\ \A n : From(n, p, a, at) => From(n, Tail(p), b, at)
         /\ Answers(p) = {} => Answers(Tail(p)) = {} /\ b = a
<1> DEFINE q == Tail(p)
<1>1. Len(p) \in Nat /\ Len(p) >= 1 /\ Len(q) = Len(p) - 1 /\ Head(p) = p[1]
      /\ \A k \in 1 .. Len(q) : q[k] = p[k + 1] /\ k + 1 \in 1 .. Len(p)
  OBVIOUS
<1>2. \A k \in Answers(q) : k \in Nat /\ k >= 1 /\ k + 1 \in Answers(p) /\ q[k] = p[k + 1]
  BY <1>1 DEF Answers
<1>3. Head(p).type = "command" <=> 1 \in Answers(p)
  BY <1>1 DEF Answers
<1> HIDE DEF q
<1>4. CASE Head(p).type = "command"
  <2>1. 1 \in Answers(p) /\ b.of = p[1].of /\ b.code = p[1].code /\ b.slot = p[1].slot
    BY <1>1, <1>3, <1>4 DEF Latest
  <2>2. ASSUME InOrder(p, a, at, d) PROVE InOrder(q, b, at, d)
    <3>1. Truthful(b, d) /\ Order[b.of] <= at
      BY <2>1, <2>2 DEF InOrder, Truthful
    <3>2. \A k \in Answers(q) : Order[b.of] < Order[q[k].of]
      BY <1>2, <2>1, <2>2 DEF InOrder
    <3>3. \A k \in Answers(q) : Truthful(q[k], d) /\ Order[q[k].of] <= at
      BY <1>2, <2>2 DEF InOrder
    <3>4. \A k, l \in Answers(q) : k < l => Order[q[k].of] < Order[q[l].of]
      <4> SUFFICES ASSUME NEW k \in Answers(q), NEW l \in Answers(q), k < l
                   PROVE  Order[q[k].of] < Order[q[l].of]
        OBVIOUS
      <4>1. k + 1 \in Answers(p) /\ l + 1 \in Answers(p) /\ k + 1 < l + 1
        BY <1>2
      <4>2. Order[p[k + 1].of] < Order[p[l + 1].of]
        BY <2>2, <4>1 DEF InOrder
      <4>3. QED
        BY <1>2, <4>2
    <3>5. QED
      BY <3>1, <3>2, <3>3, <3>4 DEF InOrder
  <2>3. ASSUME NEW n, From(n, p, a, at) PROVE From(n, q, b, at)
    BY <1>2, <2>1, <2>3 DEF From
  <2>4. QED
    BY <2>1, <2>2, <2>3 DEF q
<1>5. CASE Head(p).type # "command"
  <2>1. b = a
    BY <1>5 DEF Latest
  <2>2. ASSUME InOrder(p, a, at, d) PROVE InOrder(q, a, at, d)
    <3>1. \A k \in Answers(q) : Truthful(q[k], d) /\ Order[q[k].of] <= at
      BY <1>2, <2>2 DEF InOrder
    <3>2. \A k, l \in Answers(q) : k < l => Order[q[k].of] < Order[q[l].of]
      <4> SUFFICES ASSUME NEW k \in Answers(q), NEW l \in Answers(q), k < l
                   PROVE  Order[q[k].of] < Order[q[l].of]
        OBVIOUS
      <4>1. k + 1 \in Answers(p) /\ l + 1 \in Answers(p) /\ k + 1 < l + 1
        BY <1>2
      <4>2. Order[p[k + 1].of] < Order[p[l + 1].of]
        BY <2>2, <4>1 DEF InOrder
      <4>3. QED
        BY <1>2, <4>2
    <3>3. QED
      BY <1>2, <2>2, <3>1, <3>2 DEF InOrder
  <2>3. ASSUME NEW n, From(n, p, a, at) PROVE From(n, q, a, at)
    BY <1>2, <2>3 DEF From
  <2>4. Answers(p) = {} => Answers(q) = {}
    BY <1>2
  <2>5. QED
    BY <2>1, <2>2, <2>3, <2>4 DEF q
<1>6. QED
  BY <1>4, <1>5

(* A waiting command takes the answer, whosever it is.                     *)
LEMMA AnswerUsed ==
  ASSUME NEW p \in Seq(Events), NEW a, NEW at \in Nat, NEW d, InOrder(p, a, at, d), a # NoAnswer
  PROVE  /\ InOrder(p, NoAnswer, at, d)
         /\ From(Order[a.of] + 1, p, NoAnswer, at)
         /\ a.of \in Commands /\ Order[a.of] \in 1 .. 4 /\ Order[a.of] <= at /\ Truthful(a, d)
         /\ \A n \in Nat : From(n, p, a, at) => n <= Order[a.of]
<1>1. Truthful(a, d) /\ Order[a.of] <= at /\ a.of \in Commands
  BY DEF InOrder, Truthful
<1>2. Order[a.of] \in 1 .. 4
  BY <1>1, OrderIs
<1>3. InOrder(p, NoAnswer, at, d)
  BY DEF InOrder
<1>4. \A k \in Answers(p) : Order[a.of] + 1 <= Order[p[k].of]
  <2> SUFFICES ASSUME NEW k \in Answers(p) PROVE Order[a.of] + 1 <= Order[p[k].of]
    OBVIOUS
  <2>1. Order[p[k].of] \in 1 .. 4 /\ Order[a.of] < Order[p[k].of]
    BY OrderIs DEF InOrder, Truthful
  <2>2. QED
    BY <1>2, <2>1
<1>5. From(Order[a.of] + 1, p, NoAnswer, at)
  BY <1>1, <1>2, <1>4 DEF From
<1>6. QED
  BY <1>1, <1>2, <1>3, <1>5 DEF From
-----------------------------------------------------------------------------
(* The invariant behind StateConfirmed and CompletionsMatch.               *)

LEMMA InvInit == Init => XhciInv
<1> SUFFICES ASSUME Init PROVE XhciInv
  OBVIOUS
<1>1. Pending = <<>>
  BY DEF Init, RingInit, Pending, Waiting
<1>2. Answers(Pending) = {}
  BY <1>1 DEF Answers
<1>3. QED
  BY <1>1, <1>2 DEF Init, XhciInv, StateConfirmed, Fresh, Quiet

(* What an unchanged queue and device preserve.                            *)
LEMMA NothingNew ==
  ASSUME UNCHANGED <<cmd, last_completion, device, Pending>>
  PROVE  /\ CommandsInv => CommandsInv'
         /\ Quiet => Quiet'
         /\ \A n : Left(n) => From(n, Pending', last_completion', cmd'.at)
BY DEF CommandsInv, Quiet, Left

(* The steps of the driver that concern neither commands nor answers.      *)
LEMMA InvQuiet ==
  ASSUME XhciTyped, XhciInv,
         \/ NoMemory \/ IssueControl \/ PollDone \/ CheckControl \/ CheckAgain
         \/ PollReturns \/ start_hid_polling \/ MainLoop \/ UNCHANGED vars
  PROVE  XhciInv'
<1>1. /\ Pending' = Pending
      /\ UNCHANGED <<cmd, last_completion, device, attached, active_slot, intr_ring_len,
                     CONTROLLER_STATE, slot>>
  BY NotPosted, Zenon
     DEF NoMemory, IssueControl, StartWait, PollDone, CheckControl, CheckAgain, PollReturns,
         start_hid_polling, MainLoop, vars, driverVars, queueVars, deviceVars, XhciTyped
<1>2. /\ CommandsInv => CommandsInv'
      /\ Quiet => Quiet'
      /\ \A n : Left(n) => From(n, Pending', last_completion', cmd'.at)
  BY <1>1, NothingNew
<1>3. StateConfirmed'
  BY <1>1 DEF XhciInv, StateConfirmed
<1>4. timedout => timedout'
  BY Zenon DEF NoMemory, IssueControl, StartWait, PollDone, CheckControl, CheckAgain, PollReturns,
         start_hid_polling, MainLoop, vars, driverVars
<1>5. ~CONTROLLER_STATE' => Fresh'
  <2> SUFFICES ASSUME ~CONTROLLER_STATE PROVE Fresh'
    BY <1>1
  <2>1. Fresh
    BY DEF XhciInv
  <2>2. step' \in {"init", "idle"} /\ phase' = "issue"
    BY <2>1 DEF Fresh, NoMemory, IssueControl, PollDone, CheckControl, CheckAgain, PollReturns,
                start_hid_polling, MainLoop, vars, driverVars, Goto, Controls, ControlIns
  <2>3. QED
    BY <1>1, <2>1, <2>2 DEF Fresh
<1>6. attached' => ProbeInv'
  <2> SUFFICES ASSUME attached PROVE ProbeInv'
    BY <1>1
  <2>1. ProbeInv
    BY DEF XhciInv
  <2> DEFINE Now(n) == From(n, Pending', last_completion', cmd'.at)
  <2>2. \A n : Left(n) => Now(n)
    BY <1>2
  <2>3. /\ active_slot' # NoSlot => cmd'.at >= 3
        /\ intr_ring_len' > 0 => cmd'.at >= 4
    BY <1>1, <2>1 DEF ProbeInv
  <2> HIDE DEF Now
  <2>4. SUFFICES
          /\ step' \in Commands => cmd'.enqueue = IF phase' = "issue" THEN Order[step'] - 1
                                                  ELSE Order[step']
          /\ step' = "ports" => cmd'.enqueue = 1
          /\ step' \in Controls => cmd'.enqueue = 3
          /\ step' = "address_device" => Now(IF slot' = 0 THEN 2 ELSE 3)
          /\ step' \in Controls \cup {"configure_endpoint"} => Now(4) /\ active_slot' = slot'
          /\ ~timedout' => Now(IF step' \in Commands /\ phase' # "issue" THEN cmd'.enqueue
                               ELSE cmd'.enqueue + 1)
    BY <2>3 DEF ProbeInv, Left, Now
  <2>5. CASE PollDone \/ UNCHANGED vars
    <3>1. UNCHANGED <<step, timedout>> /\ (phase' = "issue" <=> phase = "issue")
      BY <2>5 DEF PollDone, vars, driverVars
    <3>2. QED
      BY <1>1, <2>1, <2>2, <3>1 DEF ProbeInv
  <2>6. CASE IssueControl
    <3>1. UNCHANGED <<step, timedout>> /\ step \in Controls /\ step \notin Commands
      BY <2>6 DEF IssueControl, StartWait, Controls, ControlIns, Commands
    <3>2. QED
      BY <1>1, <2>1, <2>2, <3>1 DEF ProbeInv
  <2>7. CASE CheckControl
    <3>1. PICK ok \in BOOLEAN : Goto(Then(step, ok))
      BY <2>7, Zenon DEF CheckControl
    <3>2. step \in Controls /\ timedout' = timedout
      BY <2>7 DEF CheckControl
    <3>3. step' \in Controls \cup {"configure_endpoint", "finish"}
      <4>1. Then(step, ok) \in Controls \cup {"configure_endpoint", "finish"}
        BY <3>2, NextSteps, Zenon DEF Controls, ControlIns, Commands
      <4>2. QED
        BY <3>1, <4>1 DEF Goto
    <3>4. step' = "finish" \/ phase' = "issue"
      BY <3>1, <3>3 DEF Goto, Controls, ControlIns
    <3>5. QED
      BY <1>1, <2>1, <2>2, <3>2, <3>3, <3>4, OrderIs
         DEF ProbeInv, Controls, ControlIns, Commands
  <2>8. CASE CheckAgain
    <3>1. CASE waits > 1
      <4>1. UNCHANGED <<step, timedout>> /\ phase # "issue" /\ phase' # "issue"
        BY <2>8, <3>1 DEF CheckAgain
      <4>2. QED
        BY <1>1, <2>1, <2>2, <4>1 DEF ProbeInv
    <3>2. CASE ~(waits > 1)
      <4>1. /\ timedout' /\ step \in Commands \cup Controls
            /\ step' = Then(step, FALSE) /\ phase # "issue"
        BY <2>8, <3>2 DEF CheckAgain, Unanswered, Goto
      <4>2. CASE step = "noop"
        BY <1>1, <2>1, <4>1, <4>2, OrderIs, NextSteps, Zenon DEF ProbeInv, Commands, Controls, ControlIns
      <4>3. CASE step # "noop"
        <5>1. step' = "finish"
          BY <4>1, <4>3, NextSteps, Zenon
        <5>2. QED
          BY <4>1, <5>1, Zenon DEF Commands, Controls, ControlIns
      <4>4. QED
        BY <4>2, <4>3
    <3>3. QED
      BY <3>1, <3>2
  <2>9. CASE PollReturns
    <3>1. /\ step' = (IF step = "ports" THEN "enable_slot" ELSE "idle") /\ phase' = "issue"
          /\ timedout' = timedout /\ step \notin Commands
      BY <2>9 DEF PollReturns, Goto, Commands
    <3>2. QED
      BY <1>1, <2>1, <2>2, <3>1, OrderIs DEF ProbeInv, Commands, Controls, ControlIns
  <2>10. CASE NoMemory
    <3>1. step' = "finish" /\ timedout' = timedout /\ phase = "issue"
      BY <2>10 DEF NoMemory, Goto
    <3>2. QED
      BY <1>1, <2>1, <2>2, <3>1 DEF ProbeInv, Commands, Controls, ControlIns
  <2>11. CASE start_hid_polling
    <3>1. step' = "ring_doorbell" /\ timedout' = timedout /\ step = "start_hid_polling"
      BY <2>11 DEF start_hid_polling
    <3>2. QED
      BY <1>1, <2>1, <2>2, <3>1 DEF ProbeInv, Commands, Controls, ControlIns
  <2>12. CASE MainLoop
    <3>1. step' \in {"idle", "init"} /\ timedout' = timedout /\ step = "idle"
      BY <2>12 DEF MainLoop, Goto
    <3>2. QED
      BY <1>1, <2>1, <2>2, <3>1 DEF ProbeInv, Commands, Controls, ControlIns
  <2>13. QED
    BY <2>5, <2>6, <2>7, <2>8, <2>9, <2>10, <2>11, <2>12
<1>7. QED
  BY <1>1, <1>2, <1>3, <1>4, <1>5, <1>6 DEF XhciInv
(* A controller is set up, or not.                                         *)
LEMMA InvSetUp ==
  ASSUME XhciTyped, XhciInv, init_controller
  PROVE  XhciInv'
<1>1. /\ Pending' = Pending /\ device' = NoDevice
      /\ UNCHANGED <<cmd, last_completion, active_slot, intr_ring_len, slot, timedout>>
  BY NotPosted DEF init_controller, queueVars, XhciTyped
<1>2. step \notin Commands /\ step = "init" /\ Len(Pending) \in Nat
  BY DEF init_controller, Commands, XhciTyped, QueueInv
<1>3. ASSUME ~timedout PROVE Quiet
  <2>1. CASE attached
    <3>1. /\ InOrder(Pending, last_completion, cmd.at, device)
          /\ From(cmd.enqueue + 1, Pending, last_completion, cmd.at)
          /\ cmd.at <= cmd.enqueue
      BY <1>2, <1>3, <2>1 DEF XhciInv, CommandsInv, ProbeInv, Left
    <3>2. cmd.at \in Nat /\ cmd.enqueue \in Nat
      BY XhciAssumption DEF XhciTyped, TypeOK, ProducerRings
    <3>3. \A k \in Answers(Pending) : Order[Pending[k].of] \in 1 .. 4
      BY <3>1, OrderIs DEF InOrder, Truthful
    <3>4. last_completion # NoAnswer => Order[last_completion.of] \in 1 .. 4
      BY <3>1, OrderIs DEF InOrder, Truthful
    <3>5. QED
      BY <3>1, <3>2, <3>3, <3>4 DEF InOrder, From, Quiet
  <2>2. CASE ~attached
    BY <1>3, <2>2 DEF XhciInv
  <2>3. QED
    BY <2>1, <2>2
<1>4. ~timedout' => Quiet'
  BY <1>1, <1>3 DEF Quiet
<1>5. CASE Goto("idle") /\ attached' = FALSE /\ UNCHANGED CONTROLLER_STATE
  <2>1. ~CONTROLLER_STATE' => Fresh'
    BY <1>1, <1>5 DEF Goto, Fresh, XhciInv
  <2>2. QED
    BY <1>4, <1>5, <2>1 DEF XhciInv, StateConfirmed
<1>6. CASE Goto("noop") /\ attached' = ~CONTROLLER_STATE /\ CONTROLLER_STATE' = TRUE
  <2>1. CASE CONTROLLER_STATE
    BY <1>4, <1>6, <2>1, Zenon DEF XhciInv, StateConfirmed
  <2>2. CASE ~CONTROLLER_STATE
    <3>1. /\ cmd = EmptyRing(CMD_USABLE) /\ Pending = <<>> /\ last_completion = NoAnswer
          /\ active_slot = NoSlot /\ intr_ring_len = 0
      BY <2>2 DEF XhciInv, Fresh
    <3>2. Answers(Pending) = {}
      BY <3>1 DEF Answers
    <3>3. /\ cmd.cycle = TRUE /\ cmd.ccs = TRUE /\ cmd.enqueue = 0 /\ cmd.at = 0
          /\ \A i \in 0 .. CMD_USABLE - 1 : cmd.trbs[i].cycle = FALSE
      BY <3>1 DEF EmptyRing, NoTrb
    <3>4. /\ InOrder(Pending, NoAnswer, 0, NoDevice)
          /\ From(1, Pending, NoAnswer, 0)
      BY <3>2 DEF InOrder, From
    <3>5. CommandsInv'
      BY <1>1, <3>1, <3>3, <3>4 DEF CommandsInv, NoDevice
    <3>6. ProbeInv'
      <4>1. step' = "noop" /\ phase' = "issue"
        BY <1>6 DEF Goto
      <4>2. QED
        BY <1>1, <3>1, <3>3, <3>4, <4>1, OrderIs DEF ProbeInv, Left, Controls, ControlIns
    <3>7. CONTROLLER_STATE' = TRUE /\ attached' = TRUE
      BY <1>6, <2>2, Zenon
    <3>8. StateConfirmed'
      BY <1>1, <3>1 DEF StateConfirmed
    <3>9. QED
      BY <3>5, <3>6, <3>7, <3>8 DEF XhciInv
  <2>3. QED
    BY <2>1, <2>2
<1>7. QED
  BY <1>5, <1>6, Zenon DEF init_controller

(* A command is queued: the controller has not yet reached its slot.       *)
LEMMA InvIssue ==
  ASSUME XhciTyped, XhciInv, IssueCommand
  PROVE  XhciInv'
<1>1. /\ Pending' = Pending
      /\ UNCHANGED <<last_completion, device, attached, active_slot, intr_ring_len,
                     CONTROLLER_STATE, slot, step, timedout>>
      /\ phase = "issue" /\ phase' = "poll" /\ step \in Commands
  BY NotPosted DEF IssueCommand, StartWait, XhciTyped
<1>2. CONTROLLER_STATE
  BY <1>1 DEF XhciInv, Fresh, Commands
<1>3. StateConfirmed'
  BY <1>1 DEF XhciInv, StateConfirmed
<1>4. CASE ~attached
  BY <1>1, <1>2, <1>3, <1>4 DEF XhciInv, Quiet
<1>5. CASE attached
  <2>1. CommandsInv /\ ProbeInv
    BY <1>5 DEF XhciInv
  <2>2. /\ cmd.enqueue = Order[step] - 1 /\ cmd.enqueue \in 0 .. 3
        /\ cmd.cycle = TRUE /\ cmd.ccs = TRUE /\ cmd.at \in Nat
    <3>1. cmd \in ProducerRings(CMD_USABLE)
      BY DEF XhciTyped, TypeOK
    <3>2. cmd.at \in Nat /\ cmd.cycle \in BOOLEAN /\ cmd.ccs \in BOOLEAN
      BY <3>1, XhciAssumption DEF ProducerRings
    <3>3. cmd.enqueue = Order[step] - 1 /\ Order[step] \in 1 .. 4
      BY <1>1, <2>1, OrderIs DEF ProbeInv
    <3>4. QED
      BY <2>1, <3>2, <3>3 DEF CommandsInv
  <2>3. PICK s : cmd' = Push(cmd, CMD_USABLE, Trb("command", step, s))
    BY DEF IssueCommand
  <2>4. /\ cmd.enqueue % CMD_USABLE = cmd.enqueue
        /\ (cmd.enqueue + 1) % CMD_USABLE = cmd.enqueue + 1
    BY <2>2, XhciAssumption
  <2>5. cmd \in ProducerRings(CMD_USABLE) /\ cmd.enqueue \in 0 .. CMD_USABLE - 1
    BY <2>2, XhciAssumption DEF XhciTyped, TypeOK
  <2>6. /\ cmd'.enqueue = cmd.enqueue + 1 /\ cmd'.cycle = TRUE /\ cmd'.ccs = TRUE
        /\ cmd'.at = cmd.at
        /\ cmd'.trbs[cmd.enqueue].cycle = TRUE /\ cmd'.trbs[cmd.enqueue].of = step
        /\ \A i \in 0 .. CMD_USABLE - 1 : i # cmd.enqueue => cmd'.trbs[i] = cmd.trbs[i]
    <3> DEFINE t == Trb("command", step, s)
               c == [t EXCEPT !.cycle = cmd.cycle]
    <3>1. c.cycle = TRUE /\ c.of = step
      BY <2>2 DEF Trb
    <3>2. cmd.enqueue + 1 # 0
      BY <2>2
    <3>3. cmd' = [cmd EXCEPT !.trbs[cmd.enqueue] = c, !.enqueue = cmd.enqueue + 1,
                             !.cycle = cmd.cycle]
      <4>1. cmd' = Push(cmd, CMD_USABLE, t)
        BY <2>3
      <4> HIDE DEF t
      <4>2. QED
        BY <2>4, <3>2, <4>1, Zenon DEF Push
    <3> HIDE DEF c
    <3>4. QED
      BY <2>2, <2>5, <3>1, <3>3, Zenon DEF ProducerRings
  <2>7. \A i \in 0 .. CMD_USABLE - 1 :
          /\ cmd'.trbs[i].cycle <=> i < cmd'.enqueue
          /\ i < cmd'.enqueue => cmd'.trbs[i].of \in Commands /\ Order[cmd'.trbs[i].of] = i + 1
    <3> SUFFICES ASSUME NEW i \in 0 .. CMD_USABLE - 1
                 PROVE  /\ cmd'.trbs[i].cycle <=> i < cmd'.enqueue
                        /\ i < cmd'.enqueue => /\ cmd'.trbs[i].of \in Commands
                                               /\ Order[cmd'.trbs[i].of] = i + 1
      OBVIOUS
    <3>1. CASE i = cmd.enqueue
      BY <1>1, <2>2, <2>6, <3>1, OrderIs
    <3>2. CASE i # cmd.enqueue
      <4>1. cmd'.trbs[i] = cmd.trbs[i] /\ (i < cmd'.enqueue <=> i < cmd.enqueue)
        BY <2>2, <2>6, <3>2
      <4>2. QED
        BY <2>1, <4>1 DEF CommandsInv
    <3>3. QED
      BY <3>1, <3>2
  <2>8. CommandsInv'
    BY <1>1, <2>1, <2>2, <2>6, <2>7 DEF CommandsInv
  <2>9. ProbeInv'
    <3>1. \A n : Left(n) => From(n, Pending', last_completion', cmd'.at)
      BY <1>1, <2>6 DEF Left
    <3>2. ~timedout' => From(cmd'.enqueue, Pending', last_completion', cmd'.at)
      BY <1>1, <2>1, <2>6, <3>1 DEF ProbeInv
    <3>3. step' \notin Controls /\ step' # "ports"
      BY <1>1 DEF Commands, Controls, ControlIns
    <3>4. QED
      BY <1>1, <2>1, <2>2, <2>6, <3>1, <3>2, <3>3, OrderIs DEF ProbeInv, Left
  <2>10. QED
    BY <1>1, <1>2, <1>3, <1>5, <2>8, <2>9 DEF XhciInv
<1>6. QED
  BY <1>4, <1>5

(* poll_events moves an answer from the ring to last_completion.           *)
LEMMA InvPoll ==
  ASSUME XhciTyped, XhciInv, PollEvent
  PROVE  XhciInv'
<1>1. UNCHANGED <<cmd, device, attached, active_slot, intr_ring_len, CONTROLLER_STATE, slot,
                  timedout, phase>> /\ phase = "poll"
  BY DEF PollEvent, deviceVars
<1>2. CONTROLLER_STATE
  BY <1>1 DEF XhciInv, Fresh
<1>3. StateConfirmed'
  BY <1>1 DEF XhciInv, StateConfirmed
<1>4. CASE TakeEvent /\ handle_event(handled')
  <2>1. /\ Pending \in Seq(Events) /\ Pending # <<>> /\ Pending' = Tail(Pending)
        /\ handled' = Head(Pending) /\ step' = step
        /\ last_completion' = Latest(Head(Pending), last_completion)
    BY <1>4, Taken, Handled DEF XhciTyped, QueueInv, Latest
  <2>2. cmd.at \in Nat
    BY XhciAssumption DEF XhciTyped, TypeOK, ProducerRings
  <2>3. /\ InOrder(Pending, last_completion, cmd.at, device) =>
             InOrder(Pending', last_completion', cmd.at, device)
        /\ \A n : From(n, Pending, last_completion, cmd.at) =>
                    From(n, Pending', last_completion', cmd.at)
        /\ Answers(Pending) = {} => Answers(Pending') = {} /\ last_completion' = last_completion
    <3> DEFINE p == Pending
               b == last_completion'
    <3>1. /\ p \in Seq(Events) /\ p # <<>>
          /\ b = Latest(Head(p), last_completion)
      BY <2>1
    <3> HIDE DEF p, b
    <3>2. /\ InOrder(p, last_completion, cmd.at, device) => InOrder(Tail(p), b, cmd.at, device)
          /\ \A n : From(n, p, last_completion, cmd.at) => From(n, Tail(p), b, cmd.at)
          /\ Answers(p) = {} => Answers(Tail(p)) = {} /\ b = last_completion
      BY <2>2, <3>1, AnswerTaken, Zenon
    <3>3. Pending' = Tail(p)
      BY <2>1 DEF p
    <3>4. QED
      BY <3>2, <3>3 DEF p, b
  <2>4. CommandsInv => CommandsInv'
    BY <1>1, <2>3, Zenon DEF CommandsInv
  <2>5. ProbeInv => ProbeInv'
    BY <1>1, <2>1, <2>3 DEF ProbeInv, Left
  <2>6. Quiet => Quiet'
    BY <2>3 DEF Quiet, Answers
  <2>7. QED
    BY <1>1, <1>2, <1>3, <2>4, <2>5, <2>6 DEF XhciInv
<1>5. CASE set_erdp /\ UNCHANGED <<last_completion, last_transfer_code, intr, step>>
  <2>1. Pending' = Pending
    BY <1>5, NotPosted DEF XhciTyped
  <2>2. /\ CommandsInv => CommandsInv'
        /\ Quiet => Quiet'
        /\ \A n : Left(n) => From(n, Pending', last_completion', cmd'.at)
    BY <1>1, <1>5, <2>1, NothingNew
  <2>3. ProbeInv => ProbeInv'
    BY <1>1, <1>5, <2>2 DEF ProbeInv, Left
  <2>4. QED
    BY <1>1, <1>2, <1>3, <2>2, <2>3 DEF XhciInv
<1>6. QED
  BY <1>4, <1>5 DEF PollEvent

(* A command takes an answer: of the calls that go on, address_device and  *)
(* configure_interrupt_in_endpoint have their own, enable_slot perhaps the *)
(* no-op's, with slot 0.                                                   *)
LEMMA InvCheck ==
  ASSUME XhciTyped, XhciInv, CheckCommand
  PROVE  XhciInv'
<1> DEFINE a == last_completion
           P == Pending
           ok == IF step = "enable_slot" THEN a.code = "success" ELSE Confirmed(a)
<1>1. /\ UNCHANGED <<Pending, cmd, device, attached, CONTROLLER_STATE, timedout>>
      /\ phase = "check" /\ step \in Commands /\ a # NoAnswer /\ last_completion' = NoAnswer
  BY NotPosted DEF CheckCommand, deviceVars, XhciTyped
<1>2. CONTROLLER_STATE
  BY <1>1 DEF XhciInv, Fresh
<1>3. CASE ~attached
  BY <1>1, <1>2, <1>3 DEF XhciInv, Quiet, StateConfirmed
<1>4. CASE attached
  <2>1. CommandsInv /\ ProbeInv /\ StateConfirmed
    BY <1>4 DEF XhciInv
  <2>2. /\ cmd.enqueue = Order[step] /\ Order[step] \in 1 .. 4 /\ cmd.at \in Nat
        /\ cmd.at <= cmd.enqueue
    <3>1. cmd.at \in Nat
      BY XhciAssumption DEF XhciTyped, TypeOK, ProducerRings
    <3>2. QED
      BY <1>1, <2>1, <3>1, OrderIs DEF ProbeInv, CommandsInv
  <2>3. /\ InOrder(P, NoAnswer, cmd.at, device)
        /\ From(Order[a.of] + 1, P, NoAnswer, cmd.at)
        /\ a.of \in Commands /\ Order[a.of] \in 1 .. 4 /\ Order[a.of] <= cmd.at
        /\ Truthful(a, device)
        /\ \A n \in Nat : Left(n) => n <= Order[a.of]
    BY <1>1, <2>1, <2>2, AnswerUsed, Zenon DEF CommandsInv, XhciTyped, QueueInv, Left
  <2>4. CommandsInv'
    BY <1>1, <2>1, <2>3, Zenon DEF CommandsInv
  <2>5. ~timedout => From(cmd.enqueue + 1, P, NoAnswer, cmd.at)
    BY <1>1, <2>1, <2>2, <2>3 DEF ProbeInv
  <2>6. (step' \in Commands => phase' = "issue") /\ Goto(Then(step, ok))
    BY <1>1 DEF CheckCommand, Goto, Commands
  <2>7. ASSUME step' \in {"ports", "finish", "start_hid_polling"}, UNCHANGED active_slot,
               step' = "ports" => cmd.enqueue = 1, intr_ring_len' > 0 => cmd.at >= 4
        PROVE  ProbeInv'
    BY <1>1, <2>1, <2>5, <2>6, <2>7 DEF ProbeInv, Left, Commands, Controls, ControlIns
  <2>8. CASE step = "noop"
    <3>1. step' = "ports" /\ UNCHANGED <<active_slot, intr_ring_len>>
      BY <2>6, <2>8 DEF CheckCommand, Goto, Then, AdoptEp0Ring, AdoptIntrRing
    <3>2. QED
      BY <1>1, <1>2, <1>4, <2>1, <2>2, <2>4, <2>7, <2>8, <3>1, OrderIs
         DEF XhciInv, StateConfirmed, ProbeInv
  <2>9. CASE ok = FALSE /\ step # "noop"
    <3>1. step' = "finish" /\ UNCHANGED <<active_slot, intr_ring_len>>
      BY <2>6, <2>9 DEF CheckCommand, Goto, Then, AdoptEp0Ring, AdoptIntrRing
    <3>2. QED
      BY <1>1, <1>2, <1>4, <2>1, <2>4, <2>7, <3>1 DEF XhciInv, StateConfirmed, ProbeInv
  <2>10. CASE ok = TRUE /\ step = "enable_slot"
    <3>1. /\ step' = "address_device" /\ slot' = a.slot /\ UNCHANGED <<active_slot, intr_ring_len>>
          /\ a.code = "success"
      BY <2>6, <2>10 DEF CheckCommand, Goto, Then, Following, AdoptEp0Ring, AdoptIntrRing
    <3>2. From(IF a.slot = 0 THEN 2 ELSE 3, P, NoAnswer, cmd.at)
      <4>1. a.of \in {"noop", "enable_slot"}
        BY <2>2, <2>3, <2>10, OrderIs DEF Commands
      <4>2. CASE a.of = "noop"
        BY <2>3, <3>1, <4>2, OrderIs DEF Truthful
      <4>3. CASE a.of = "enable_slot"
        BY <2>3, <3>1, <4>3, OrderIs, XhciAssumption DEF Truthful
      <4>4. QED
        BY <4>1, <4>2, <4>3
    <3>3. ProbeInv'
      <4>1. /\ step' \in Commands /\ step' # "ports" /\ step' \notin Controls
            /\ step' # "configure_endpoint" /\ phase' = "issue"
        BY <2>6, <3>1 DEF Commands, Controls, ControlIns
      <4>2. cmd.enqueue = Order[step'] - 1
        BY <2>2, <2>10, <3>1, OrderIs
      <4>3. QED
        BY <1>1, <2>1, <2>5, <3>1, <3>2, <4>1, <4>2 DEF ProbeInv, Left
    <3>4. QED
      BY <1>1, <1>2, <1>4, <2>1, <2>4, <3>1, <3>3 DEF XhciInv, StateConfirmed
  <2>11. CASE ok = TRUE /\ step = "address_device"
    <3>1. /\ step' = "device_descriptor" /\ active_slot' = slot
          /\ UNCHANGED <<slot, intr_ring_len>>
          /\ a.code = "success" /\ a.slot = slot
      BY <2>6, <2>11 DEF CheckCommand, Goto, Then, Following, AdoptEp0Ring, AdoptIntrRing,
                         Confirmed
    <3>2. Left(IF slot = 0 THEN 2 ELSE 3)
      BY <2>1, <2>11 DEF ProbeInv
    <3>3. slot # 0
      <4>1. slot = 0 => Order[a.of] >= 2
        BY <2>3, <3>2
      <4>2. slot = 0 => a.of # "noop"
        BY <4>1, OrderIs
      <4>3. QED
        BY <2>3, <3>1, <4>2, XhciAssumption DEF Truthful
    <3>4. Order[a.of] = 3 /\ cmd.at = 3 /\ cmd.enqueue = 3
      BY <2>2, <2>3, <2>11, <3>2, <3>3, OrderIs
    <3>5. device.slot = slot /\ device.state \in {"addressed", "configured"}
      BY <2>3, <3>1, <3>4 DEF Truthful
    <3>6. From(4, P, NoAnswer, cmd.at)
      BY <2>3, <3>4
    <3>7. ProbeInv'
      <4>1. step' \notin Commands /\ step' # "ports"
        BY <3>1 DEF Commands
      <4>2. QED
        BY <1>1, <2>1, <2>5, <3>1, <3>4, <3>6, <4>1 DEF ProbeInv, Left
    <3>8. QED
      BY <1>1, <1>2, <1>4, <2>1, <2>4, <3>1, <3>5, <3>7 DEF XhciInv, StateConfirmed
  <2>12. CASE ok = TRUE /\ step = "configure_endpoint"
    <3>1. /\ step' = "start_hid_polling" /\ UNCHANGED active_slot
          /\ a.code = "success"
      BY <2>6, <2>12 DEF CheckCommand, Goto, Then, Following, AdoptEp0Ring, AdoptIntrRing,
                         Confirmed
    <3>2. Order[a.of] = 4
      BY <2>1, <2>3, <2>12 DEF ProbeInv
    <3>3. a.of = "configure_endpoint" /\ cmd.at = 4
      BY <2>2, <2>3, <2>12, <3>2, OrderIs DEF Commands
    <3>4. device.state = "configured"
      BY <2>3, <3>1, <3>3 DEF Truthful
    <3>5. ProbeInv'
      BY <2>7, <3>1, <3>3
    <3>6. QED
      BY <1>1, <1>2, <1>4, <2>1, <2>4, <3>1, <3>4, <3>5 DEF XhciInv, StateConfirmed
  <2>13. ok \in BOOLEAN
    BY Zenon DEF Confirmed
  <2>14. QED
    BY <1>1, <2>8, <2>9, <2>10, <2>11, <2>12, <2>13, Zenon DEF Commands
<1>5. QED
  BY <1>3, <1>4

(* The controller fetches the next command in order and its answer is      *)
(* true; the device changes only by the command that was next.             *)
LEMMA InvCommand ==
  ASSUME XhciTyped, XhciInv, ExecuteCommand
  PROVE  XhciInv'
<1> DEFINE t == cmd.trbs[cmd.at]
           at == cmd.at
<1>1. /\ UNCHANGED <<last_completion, attached, active_slot, intr_ring_len, CONTROLLER_STATE,
                     slot, step, phase, timedout>>
      /\ attached /\ Owned(cmd, CMD_USABLE) /\ cmd' = Fetch(cmd, CMD_USABLE)
  BY DEF ExecuteCommand, driverVars
<1>2. CommandsInv /\ ProbeInv /\ StateConfirmed /\ CONTROLLER_STATE
  BY <1>1 DEF XhciInv, Fresh
<1>3. cmd \in ProducerRings(CMD_USABLE) /\ cmd.at \in Nat /\ cmd.enqueue \in Nat
  BY XhciAssumption DEF XhciTyped, TypeOK, ProducerRings
<1>4. at < cmd.enqueue /\ at <= 3 /\ t.of \in Commands /\ Order[t.of] = at + 1
  <2>1. at \in 0 .. CMD_USABLE - 1 /\ t.cycle = cmd.ccs
    BY <1>1, <1>3, XhciAssumption DEF Owned
  <2>2. cmd.ccs /\ cmd.enqueue <= 4
    BY <1>2 DEF CommandsInv
  <2>3. /\ t.cycle <=> at < cmd.enqueue
        /\ at < cmd.enqueue => t.of \in Commands /\ Order[t.of] = at + 1
    BY <1>2, <2>1, Zenon DEF CommandsInv
  <2>4. QED
    BY <1>3, <2>1, <2>2, <2>3
<1>5. cmd' = [cmd EXCEPT !.at = at + 1]
  BY <1>1, <1>3, <1>4, XhciAssumption DEF Fetch
<1>6. /\ cmd'.at = at + 1 /\ cmd'.enqueue = cmd.enqueue /\ cmd'.trbs = cmd.trbs
      /\ cmd'.cycle = cmd.cycle /\ cmd'.ccs = cmd.ccs
  BY <1>3, <1>5 DEF ProducerRings
<1>7. PICK e \in Events :
        /\ e.type = "command" /\ e.of = t.of /\ PostEvent(e)
        /\ \/ e.code = "error" /\ device' = device
           \/ /\ e.of = "noop" /\ e.slot = 0 /\ device' = device
           \/ /\ e.of = "enable_slot" /\ e.slot \in SlotIds
              /\ device' = [slot |-> e.slot, state |-> "enabled"]
           \/ /\ e.of = "address_device"
              /\ device.slot = e.slot /\ device.state = "enabled"
              /\ device' = [slot |-> e.slot, state |-> "addressed"]
           \/ /\ e.of = "configure_endpoint"
              /\ device.slot = e.slot /\ device.state = "addressed"
              /\ device' = [slot |-> e.slot, state |-> "configured"]
  BY CommandAnswered
<1> HIDE DEF t, at
<1>8. Pending' = Append(Pending, e) /\ Pending \in Seq(Events)
  BY <1>7, Posted DEF XhciTyped, QueueInv
<1>9. device.state # "disabled" => device.slot \in SlotIds
  BY <1>2, Zenon DEF CommandsInv
<1>10. Truthful(e, device')
  BY <1>4, <1>7, <1>9, OrderIs DEF Truthful
<1>11. \A b : Truthful(b, device) /\ Order[b.of] <= at => Truthful(b, device')
  <2> SUFFICES ASSUME NEW b, Truthful(b, device), Order[b.of] <= at PROVE Truthful(b, device')
    OBVIOUS
  <2>1. b.of \in Commands /\ Order[b.of] \in 1 .. 4 /\ at \in Nat
    BY <1>3, OrderIs DEF Truthful, at
  <2>2. CASE device' = device
    BY <2>2, Zenon
  <2>3. CASE e.of = "enable_slot" \/ e.of = "address_device"
    <3>1. Order[b.of] < 3
      BY <1>4, <1>7, <2>1, <2>3, OrderIs
    <3>2. b.of # "configure_endpoint"
      BY <3>1, OrderIs
    <3>3. ~(Order[b.of] >= 3)
      BY <2>1, <3>1
    <3>4. QED
      BY <3>2, <3>3 DEF Truthful
  <2>4. CASE /\ e.of = "configure_endpoint" /\ device.slot = e.slot
             /\ device' = [slot |-> e.slot, state |-> "configured"]
    BY <2>4 DEF Truthful
  <2>5. QED
    BY <1>7, <2>2, <2>3, <2>4, Zenon
<1>12. /\ InOrder(Pending', last_completion', at + 1, device')
       /\ \A n \in Nat : Left(n) => From(n, Pending', last_completion', at + 1)
  <2>1. /\ InOrder(Pending, last_completion, at, device) /\ Order[e.of] = at + 1 /\ at \in Nat
    BY <1>2, <1>3, <1>4, <1>7, Zenon DEF CommandsInv, at
  <2>2. /\ InOrder(Append(Pending, e), last_completion, at + 1, device')
        /\ \A n \in Nat : From(n, Pending, last_completion, at) =>
                            From(n, Append(Pending, e), last_completion, at + 1)
    BY <1>7, <1>8, <1>10, <1>11, <2>1, AnswerPosted, Zenon
  <2>3. QED
    BY <1>1, <1>8, <2>2 DEF Left, at
<1>13. device'.state # "disabled" => device'.slot \in SlotIds
  BY <1>7, <1>9
<1>14. CommandsInv'
  <2>1. cmd'.at <= cmd'.enqueue
    BY <1>3, <1>4, <1>6 DEF at
  <2>2. InOrder(Pending', last_completion', cmd'.at, device')
    BY <1>6, <1>12
  <2>3. QED
    BY <1>2, <1>6, <1>13, <2>1, <2>2, Zenon DEF CommandsInv
<1>15. ProbeInv'
  <2>1. \A n \in Nat : Left(n) => Left(n)'
    BY <1>6, <1>12, Zenon DEF Left
  <2>2. (IF slot = 0 THEN 2 ELSE 3) \in Nat /\ 4 \in Nat /\ cmd.enqueue + 1 \in Nat
    BY <1>3
  <2>3. cmd.at >= 3 => cmd'.at >= 3
    BY <1>3, <1>6 DEF at
  <2>4. cmd.at >= 4 => cmd'.at >= 4
    BY <1>3, <1>6 DEF at
  <2>5. QED
    BY <1>1, <1>2, <1>3, <1>6, <2>1, <2>2, <2>3, <2>4, Zenon DEF ProbeInv
<1>16. StateConfirmed'
  <2>1. ~(intr_ring_len > 0)
    BY <1>2, <1>3, <1>4 DEF ProbeInv, at
  <2>2. CASE active_slot = NoSlot
    BY <1>1, <2>1, <2>2 DEF StateConfirmed
  <2>3. CASE active_slot # NoSlot
    <3>1. Order[t.of] = 4
      BY <1>2, <1>3, <1>4, <2>3 DEF ProbeInv, at
    <3>2. e.of = "configure_endpoint"
      BY <1>4, <1>7, <3>1, OrderIs DEF Commands
    <3>3. device'.slot = device.slot /\ device'.state \in {device.state, "configured"}
      BY <1>7, <3>2
    <3>4. QED
      BY <1>1, <1>2, <2>1, <2>3, <3>3 DEF StateConfirmed
  <2>4. QED
    BY <2>2, <2>3
<1>17. QED
  BY <1>1, <1>2, <1>14, <1>15, <1>16 DEF XhciInv

(* The other events of the controller answer no command.                   *)
LEMMA InvController ==
  ASSUME XhciTyped, XhciInv, ExecuteTransfer \/ PortChange
  PROVE  XhciInv'
<1>1. UNCHANGED <<cmd, last_completion, device, attached, active_slot, intr_ring_len,
                  CONTROLLER_STATE, slot, step, phase, timedout>> /\ attached
  BY Zenon DEF ExecuteTransfer, PortChange, driverVars, queueVars
<1>2. PICK e \in Events : PostEvent(e) /\ e.type # "command"
  <2>1. CASE ExecuteTransfer
    <3> DEFINE t == ep0.trbs[ep0.at]
    <3>1. t \in Trbs
      <4>1. ep0 \in ProducerRings(EP0_USABLE) /\ Owned(ep0, EP0_USABLE)
        BY <2>1, Zenon DEF ExecuteTransfer, XhciTyped, TypeOK
      <4>2. QED
        BY <4>1, OwnedTrb, XhciAssumption
    <3>2. t.of \in Requests /\ t.slot \in SomeSlot
      BY <3>1 DEF Trbs
    <3> HIDE DEF t
    <3>3. PICK code \in {"success", "error"} : PostEvent(Event("transfer", code, t.slot, t.of))
      BY <2>1, Zenon DEF ExecuteTransfer, t
    <3>4. Event("transfer", code, t.slot, t.of) \in Events
      BY <3>2, EventsTyped
    <3>5. Event("transfer", code, t.slot, t.of).type # "command"
      BY DEF Event
    <3>6. QED
      BY <3>3, <3>4, <3>5
  <2>2. CASE PortChange
    <3>1. PostEvent(Event("port", "success", 0, "port"))
      BY <2>2 DEF PortChange
    <3>2. Event("port", "success", 0, "port") \in Events
      BY EventsTyped
    <3>3. Event("port", "success", 0, "port").type # "command"
      BY DEF Event
    <3>4. QED
      BY <3>1, <3>2, <3>3
  <2>3. QED
    BY <2>1, <2>2
<1>3. Pending' = Append(Pending, e) /\ Pending \in Seq(Events)
  BY <1>2, Posted DEF XhciTyped, QueueInv
<1>4. /\ InOrder(Pending, last_completion, cmd.at, device) =>
           InOrder(Append(Pending, e), last_completion, cmd.at, device)
      /\ \A n : Left(n) => From(n, Append(Pending, e), last_completion, cmd.at)
  BY <1>2, <1>3, OtherPosted DEF Left
<1>5. CommandsInv => CommandsInv'
  BY <1>1, <1>3, <1>4, Zenon DEF CommandsInv
<1>6. ProbeInv => ProbeInv'
  BY <1>1, <1>3, <1>4 DEF ProbeInv, Left
<1>7. QED
  BY <1>1, <1>5, <1>6 DEF XhciInv, StateConfirmed, Fresh

LEMMA InvStep ==
  ASSUME XhciTyped, XhciInv, [Next]_vars
  PROVE  XhciInv'
<1>1. CASE SpinOnLock
  BY <1>1, InvQuiet DEF SpinOnLock
<1>2. QED
  BY <1>1, InvQuiet, InvSetUp, InvIssue, InvPoll, InvCheck, InvCommand, InvController
     DEF Next, Driver, Controller

LEMMA AlwaysInv == Spec => []XhciInv
<1>1. XhciTyped /\ XhciInv /\ [Next]_vars => XhciInv'
  BY InvStep
<1>2. QED
  BY <1>1, InvInit, AlwaysTyped, PTL DEF Spec

(* Though a command that timed out leaves an answer for the next to take,  *)
(* no slot is adopted that the controller has not given an address, and no *)
(* interrupt ring for an endpoint it has not configured (address_device,   *)
(* configure_interrupt_in_endpoint).                                       *)
THEOREM AnswersNotMistaken == Spec => []StateConfirmed
<1>1. XhciInv => StateConfirmed
  BY DEF XhciInv
<1>2. QED
  BY <1>1, AlwaysInv, PTL

(* Until a wait first times out, every command is given its own completion *)
(* (wait_for_command_completion).                                          *)
THEOREM AnswersMatch == Spec => CompletionsMatch
<1>1. XhciTyped /\ XhciInv => [CheckCommand => timedout \/ last_completion.of = step]_vars
  <2> SUFFICES ASSUME XhciTyped, XhciInv, CheckCommand, ~timedout
               PROVE  last_completion.of = step
    OBVIOUS
  <2>1. phase = "check" /\ step \in Commands /\ last_completion # NoAnswer
    BY DEF CheckCommand
  <2>2. CommandsInv /\ ProbeInv
    BY <2>1 DEF XhciInv, Quiet
  <2>3. cmd.at \in Nat
    BY XhciAssumption DEF XhciTyped, TypeOK, ProducerRings
  <2>4. /\ last_completion.of \in Commands /\ Order[last_completion.of] \in 1 .. 4
        /\ Order[last_completion.of] <= cmd.at
        /\ \A n \in Nat : Left(n) => n <= Order[last_completion.of]
    BY <2>1, <2>2, <2>3, AnswerUsed, Zenon DEF CommandsInv, XhciTyped, QueueInv, Left
  <2>5. cmd.enqueue = Order[step] /\ cmd.at <= cmd.enqueue /\ Left(cmd.enqueue)
    BY <2>1, <2>2, Zenon DEF ProbeInv, CommandsInv
  <2>6. Order[last_completion.of] = Order[step]
    BY <2>1, <2>3, <2>4, <2>5, OrderIs
  <2>7. QED
    BY <2>1, <2>4, <2>6, OrderIs DEF Commands
<1>2. QED
  BY <1>1, AlwaysTyped, AlwaysInv, PTL DEF CompletionsMatch
-----------------------------------------------------------------------------
(* Room in the rings.  The four commands and eleven TRBs of the control    *)
(* transfers of a probe go to rings that were empty when it began, so that *)
(* neither ring ever wraps.                                                *)

(* How many TRBs the transfers before a step have queued; and so far.      *)
Before == [device_descriptor |-> 0, config_header |-> 3, config_descriptor |-> 6,
           set_configuration |-> 9]

Queued ==
  IF phase = "issue" THEN Before[step] ELSE Before[step] + (IF step \in ControlIns THEN 3 ELSE 2)

(* The first n TRBs of r are filled, and the controller is among them or   *)
(* has halted.                                                             *)
Filled(r, n, usable) ==
  /\ r.enqueue = n /\ r.cycle = TRUE
  /\ \A i \in 0 .. usable - 1 : i >= n => r.trbs[i].cycle = FALSE
  /\ r.at = usable \/ (r.ccs = TRUE /\ r.at <= n)

ControlsInv ==
  EP0_USABLE > 11 /\ attached /\ step \in Controls => Filled(ep0, Queued, EP0_USABLE)

LEMMA BeforeIs ==
  /\ Before["device_descriptor"] = 0 /\ Before["config_header"] = 3
  /\ Before["config_descriptor"] = 6 /\ Before["set_configuration"] = 9
BY DEF Before

(* A push that does not wrap.                                              *)
LEMMA PushNext ==
  ASSUME NEW u \in Nat \ {0}, NEW r \in ProducerRings(u), NEW t \in Trbs, NEW n \in Nat,
         n + 1 < u, Filled(r, n, u)
  PROVE  /\ Push(r, u, t) \in ProducerRings(u)
         /\ Filled(Push(r, u, t), n + 1, u)
         /\ \A i \in Unfetched(r, u) : Push(r, u, t).trbs[i] = r.trbs[i]
         /\ Unfetched(r, u) \subseteq Unfetched(Push(r, u, t), u)
<1> DEFINE p == Push(r, u, t)
           c == [t EXCEPT !.cycle = r.cycle]
<1>1. p \in ProducerRings(u)
  BY PushTyped
<1>2. /\ r.enqueue = n /\ r.cycle = TRUE /\ r.at \in 0 .. u /\ n \in 0 .. u - 1
      /\ r.trbs \in [0 .. u - 1 -> Trbs]
      /\ \A i \in 0 .. u - 1 : i >= n => r.trbs[i].cycle = FALSE
      /\ r.at = u \/ (r.ccs = TRUE /\ r.at <= n)
  BY DEF Filled, ProducerRings
<1>3. n % u = n /\ (n + 1) % u = n + 1 /\ n + 1 # 0
  OBVIOUS
<1>4. c.cycle = TRUE
  BY <1>2 DEF Trbs
<1>5. p = [r EXCEPT !.trbs[n] = c, !.enqueue = n + 1, !.cycle = r.cycle]
  BY <1>2, <1>3, Zenon DEF Push
<1> HIDE DEF c, p
<1>6. /\ p.enqueue = n + 1 /\ p.cycle = TRUE /\ p.at = r.at /\ p.ccs = r.ccs
      /\ p.trbs[n] = c
      /\ \A i \in 0 .. u - 1 : i # n => p.trbs[i] = r.trbs[i]
  BY <1>2, <1>5, Zenon DEF ProducerRings
<1>7. Filled(p, n + 1, u)
  <2>1. \A i \in 0 .. u - 1 : i >= n + 1 => p.trbs[i].cycle = FALSE
    BY <1>2, <1>6
  <2>2. p.at = u \/ (p.ccs = TRUE /\ p.at <= n + 1)
    BY <1>2, <1>6
  <2>3. QED
    BY <1>6, <2>1, <2>2 DEF Filled
<1>8. n \notin Unfetched(r, u)
  BY <1>2 DEF Unfetched
<1>9. \A i \in Unfetched(r, u) : i \in 0 .. u - 1 /\ p.trbs[i] = r.trbs[i]
  BY <1>6, <1>8 DEF Unfetched
<1>10. Unfetched(r, u) \subseteq Unfetched(p, u)
  BY <1>6, <1>9 DEF Unfetched
<1>11. QED
  BY <1>1, <1>7, <1>9, <1>10 DEF p

(* The two or three TRBs of a control transfer.                            *)
LEMMA ControlQueued ==
  ASSUME XhciTyped, ControlsInv, EP0_USABLE > 11, attached, IssueControl
  PROVE  /\ Filled(ep0', Queued', EP0_USABLE)
         /\ \A i \in Unfetched(ep0, EP0_USABLE) : ep0'.trbs[i] = ep0.trbs[i]
<1> DEFINE u == EP0_USABLE
           n == Before[step]
           a == Push(ep0, u, Trb("setup", step, slot))
           b == IF step \in ControlIns THEN Push(a, u, Trb("data", step, slot)) ELSE a
           m == IF step \in ControlIns THEN n + 2 ELSE n + 1
<1>1. /\ phase = "issue" /\ phase' = "poll" /\ step \in Controls /\ step' = step
      /\ ep0' = Push(b, u, Trb("status", step, slot))
  BY Zenon DEF IssueControl, StartWait
<1>2. /\ u \in Nat \ {0} /\ ep0 \in ProducerRings(u) /\ slot \in SomeSlot
      /\ step \in Requests
  BY <1>1, XhciAssumption DEF XhciTyped, TypeOK, Requests
<1>3. /\ Trb("setup", step, slot) \in Trbs /\ Trb("data", step, slot) \in Trbs
      /\ Trb("status", step, slot) \in Trbs
  BY <1>2, TrbTyped
<1>4. n \in 0 .. 9 /\ (step \in ControlIns => n <= 6)
  BY <1>1, BeforeIs DEF Controls, ControlIns
<1>5. Filled(ep0, n, u)
  BY <1>1 DEF ControlsInv, Queued
<1>6. Queued' = m + 1
  BY <1>1, <1>4 DEF Queued
<1> HIDE DEF u, n
<1>7. /\ a \in ProducerRings(u) /\ Filled(a, n + 1, u)
      /\ \A i \in Unfetched(ep0, u) : a.trbs[i] = ep0.trbs[i]
      /\ Unfetched(ep0, u) \subseteq Unfetched(a, u)
  <2>1. n \in Nat /\ n + 1 < u
    BY <1>2, <1>4 DEF u
  <2>2. QED
    BY <1>2, <1>3, <1>5, <2>1, PushNext
<1> HIDE DEF a
<1>8. /\ b \in ProducerRings(u) /\ Filled(b, m, u)
      /\ \A i \in Unfetched(a, u) : b.trbs[i] = a.trbs[i]
      /\ Unfetched(a, u) \subseteq Unfetched(b, u)
  <2>1. CASE step \in ControlIns
    <3>1. n + 1 \in Nat /\ (n + 1) + 1 < u /\ (n + 1) + 1 = m
      BY <1>2, <1>4, <2>1 DEF u
    <3> DEFINE k == n + 1
    <3>2. k \in Nat /\ k + 1 < u /\ k + 1 = m /\ Filled(a, k, u)
      BY <1>7, <3>1
    <3> HIDE DEF k, m
    <3>3. b = Push(a, u, Trb("data", step, slot))
      BY <2>1
    <3> HIDE DEF b
    <3>4. QED
      BY <1>2, <1>3, <1>7, <3>2, <3>3, PushNext
  <2>2. CASE step \notin ControlIns
    BY <1>7, <2>2
  <2>3. QED
    BY <2>1, <2>2
<1>9. m \in Nat /\ m + 1 < u
  BY <1>2, <1>4 DEF u
<1> HIDE DEF b, m
<1>10. /\ Filled(ep0', m + 1, u)
       /\ \A i \in Unfetched(b, u) : ep0'.trbs[i] = b.trbs[i]
  BY <1>1, <1>2, <1>3, <1>8, <1>9, PushNext
<1>11. \A i \in Unfetched(ep0, u) : ep0'.trbs[i] = ep0.trbs[i]
  BY <1>7, <1>8, <1>10, Zenon
<1>12. QED
  BY <1>6, <1>10, <1>11 DEF u

(* How a step can leave the driver in a control transfer.                  *)
LEMMA ControlSteps ==
  ASSUME XhciTyped, [Next]_vars, step' \in Controls
  PROVE  \/ IssueControl \/ CheckCommand \/ CheckControl \/ ExecuteTransfer
         \/ UNCHANGED <<ep0, attached, step>> /\ (phase' = "issue" <=> phase = "issue")
<1>1. /\ \A s \in {"idle", "noop", "finish", "ring_doorbell", "init", "enable_slot", "ports"} :
           s \notin Controls
      /\ \A s \in Commands : s \notin Controls
  BY DEF Commands, Controls, ControlIns
<1>2. CASE init_controller \/ NoMemory \/ IssueCommand \/ PollReturns \/ start_hid_polling
             \/ MainLoop
  <2>1. init_controller => step' \in {"idle", "noop"}
    BY Zenon DEF init_controller, Goto
  <2>2. NoMemory => step' = "finish"
    BY Zenon DEF NoMemory, Goto
  <2>3. IssueCommand => step' = step /\ step \in Commands
    BY Zenon DEF IssueCommand, StartWait
  <2>4. PollReturns => step' \in {"enable_slot", "idle"}
    BY Zenon DEF PollReturns, Goto
  <2>5. start_hid_polling => step' = "ring_doorbell"
    BY Zenon DEF start_hid_polling
  <2>6. MainLoop => step' \in {"idle", "init"}
    BY Zenon DEF MainLoop, Goto
  <2>7. QED
    BY <1>1, <1>2, <2>1, <2>2, <2>3, <2>4, <2>5, <2>6
<1>3. CASE PollEvent
  <2>1. step' = step
    BY <1>3, Handled DEF PollEvent
  <2>2. QED
    BY <1>3, <2>1 DEF PollEvent, deviceVars
<1>4. CASE PollDone
  BY <1>4 DEF PollDone, queueVars, deviceVars
<1>5. CASE CheckAgain
  <2>1. CASE waits > 1
    BY <1>5, <2>1 DEF CheckAgain, queueVars, deviceVars
  <2>2. CASE ~(waits > 1)
    <3>1. step \in Commands \cup Controls /\ Goto(Then(step, FALSE))
      BY <1>5, <2>2 DEF CheckAgain, Unanswered
    <3>2. step' \in {"ports", "finish"}
      BY <3>1, NextSteps DEF Goto
    <3>3. QED
      BY <1>1, <3>2
  <2>3. QED
    BY <2>1, <2>2
<1>6. CASE ExecuteCommand \/ PortChange
  BY <1>6, Zenon DEF ExecuteCommand, PortChange, driverVars, queueVars
<1>7. CASE SpinOnLock \/ UNCHANGED vars
  BY <1>7 DEF SpinOnLock, vars, driverVars, queueVars, deviceVars
<1>8. QED
  BY <1>2, <1>3, <1>4, <1>5, <1>6, <1>7 DEF Next, Driver, Controller

LEMMA ControlsStep ==
  ASSUME XhciTyped, ControlsInv, [Next]_vars
  PROVE  ControlsInv'
<1> SUFFICES ASSUME EP0_USABLE > 11, attached', step' \in Controls
             PROVE  Filled(ep0', Queued', EP0_USABLE)
  BY DEF ControlsInv
<1>1. EP0_USABLE \in Nat \ {0} /\ ep0 \in ProducerRings(EP0_USABLE)
  BY XhciAssumption DEF XhciTyped, TypeOK
<1>2. CASE IssueControl
  <2>1. attached
    BY <1>2 DEF IssueControl, StartWait
  <2>2. QED
    BY <1>2, <2>1, ControlQueued
<1>3. CASE CheckCommand
  <2>1. PICK ok \in BOOLEAN : step \in Commands /\ Goto(Then(step, ok)) /\ AdoptEp0Ring(ok)
    BY <1>3 DEF CheckCommand, Confirmed
  <2>2. step = "address_device" /\ ok /\ step' = "device_descriptor"
    BY <2>1, NextSteps DEF Goto, Commands, Controls, ControlIns
  <2>3. phase' = "issue"
    BY <2>1, <2>2, NextSteps DEF Goto
  <2>4. ep0' = EmptyRing(EP0_USABLE)
    BY <2>1, <2>2 DEF AdoptEp0Ring
  <2>5. Queued' = 0
    BY <2>2, <2>3, BeforeIs DEF Queued
  <2>6. Filled(EmptyRing(EP0_USABLE), 0, EP0_USABLE)
    BY <1>1 DEF Filled, EmptyRing, NoTrb
  <2>7. QED
    BY <2>4, <2>5, <2>6
<1>4. CASE CheckControl
  <2>1. PICK ok \in BOOLEAN : step \in Controls /\ Goto(Then(step, ok))
    BY <1>4 DEF CheckControl
  <2>2. /\ step \in ControlIns /\ step' = Then(step, TRUE) /\ phase' = "issue"
        /\ Before[step'] = Before[step] + 3
    <3>1. step' = Then(step, ok)
      BY <2>1 DEF Goto
    <3>2. "finish" \notin Controls /\ "configure_endpoint" \notin Controls
      BY DEF Controls, ControlIns
    <3>3. ok = TRUE
      BY <2>1, <3>1, <3>2, NextSteps DEF Commands, Controls, ControlIns
    <3>4. step # "set_configuration"
      BY <3>1, <3>2, <3>3, NextSteps
    <3>5. step \in ControlIns
      BY <2>1, <3>4 DEF Controls
    <3>6. Before[step'] = Before[step] + 3
      <4>1. step' = Then(step, TRUE)
        BY <3>1, <3>3
      <4>2. CASE step = "device_descriptor"
        <5>1. step' = "config_header"
          BY <4>1, <4>2, NextSteps, Zenon
        <5>2. Before[step] = 0 /\ Before[step'] = 3
          BY <4>2, <5>1, BeforeIs, Zenon
        <5>3. QED
          BY <5>2
      <4>3. CASE step = "config_header"
        <5>1. step' = "config_descriptor"
          BY <4>1, <4>3, NextSteps, Zenon
        <5>2. Before[step] = 3 /\ Before[step'] = 6
          BY <4>3, <5>1, BeforeIs, Zenon
        <5>3. QED
          BY <5>2
      <4>4. CASE step = "config_descriptor"
        <5>1. step' = "set_configuration"
          BY <4>1, <4>4, NextSteps, Zenon
        <5>2. Before[step] = 6 /\ Before[step'] = 9
          BY <4>4, <5>1, BeforeIs, Zenon
        <5>3. QED
          BY <5>2
      <4>5. QED
        BY <3>5, <4>2, <4>3, <4>4 DEF ControlIns
    <3>7. step' \notin {"ports", "finish"}
      BY DEF Controls, ControlIns
    <3>8. phase' = "issue"
      BY <2>1, <3>1, <3>7 DEF Goto
    <3>9. QED
      BY <3>1, <3>3, <3>5, <3>6, <3>8
  <2>3. phase = "check" /\ UNCHANGED <<ep0, attached>>
    BY <1>4 DEF CheckControl, queueVars, deviceVars
  <2>4. Queued' = Queued
    BY <2>2, <2>3 DEF Queued
  <2>5. QED
    BY <2>1, <2>3, <2>4 DEF ControlsInv
<1>5. CASE ExecuteTransfer
  <2>1. /\ UNCHANGED <<step, phase, attached>> /\ Owned(ep0, EP0_USABLE)
        /\ ep0' = Halt(ep0, EP0_USABLE) \/ ep0' = Fetch(ep0, EP0_USABLE)
    BY <1>5, Zenon DEF ExecuteTransfer, driverVars
  <2>2. Queued' = Queued /\ Queued \in 0 .. 11
    BY <2>1, BeforeIs DEF Queued, Controls, ControlIns
  <2>3. Filled(ep0, Queued, EP0_USABLE)
    BY <2>1 DEF ControlsInv
  <2> DEFINE n == Queued
             u == EP0_USABLE
  <2> HIDE DEF n, u
  <2>4. Filled(Halt(ep0, u), n, u)
    BY <1>1, <2>3 DEF Filled, Halt, ProducerRings, n, u
  <2>5. Filled(Fetch(ep0, u), n, u)
    <3>1. ep0.at \in 0 .. u - 1 /\ ep0.trbs[ep0.at].cycle = ep0.ccs
      BY <1>1, <2>1 DEF Owned, ProducerRings, u
    <3>2. ep0.ccs = TRUE /\ ep0.at <= n
      BY <2>3, <3>1, <1>1 DEF Filled, n, u
    <3>3. ep0.at < n
      <4>1. CASE ep0.at >= n
        <5>1. ep0.trbs[ep0.at].cycle = FALSE
          BY <2>3, <3>1, <4>1 DEF Filled, n, u
        <5>2. QED
          BY <3>1, <3>2, <5>1
      <4>2. QED
        BY <2>2, <3>1, <4>1 DEF n
    <3>4. ep0.at + 1 < u /\ ep0.at + 1 <= n
      BY <1>1, <2>2, <3>1, <3>3 DEF n, u
    <3>5. Fetch(ep0, u) = [ep0 EXCEPT !.at = ep0.at + 1]
      BY <3>4 DEF Fetch
    <3>6. QED
      BY <1>1, <2>3, <3>2, <3>4, <3>5 DEF Filled, ProducerRings, n, u
  <2>6. QED
    BY <2>1, <2>2, <2>4, <2>5 DEF n, u
<1>6. CASE UNCHANGED <<ep0, attached, step>> /\ (phase' = "issue" <=> phase = "issue")
  <2>1. Queued' = Queued
    BY <1>6 DEF Queued
  <2>2. QED
    BY <1>6, <2>1 DEF ControlsInv
<1>7. QED
  BY <1>2, <1>3, <1>4, <1>5, <1>6, ControlSteps

(* No TRB is overwritten that the controller has still to take, though the *)
(* driver never looks how far the controller is (enqueue_command_trb,      *)
(* ep0_enqueue_trb): the rings are longer than a probe is.  The transfer   *)
(* ring of the code has room for 63 TRBs.                                  *)
THEOREM RoomForAProbe == EP0_USABLE > 11 /\ Spec => RingsNotOverrun
<1>1. Init => ControlsInv
  BY DEF Init, ControlsInv
<1>2. XhciTyped /\ ControlsInv /\ [Next]_vars => ControlsInv'
  BY ControlsStep
<1>3. EP0_USABLE > 11 /\ XhciTyped /\ XhciInv /\ ControlsInv =>
        [attached /\ (IssueCommand \/ IssueControl) =>
           /\ \A i \in Unfetched(cmd, CMD_USABLE) : cmd'.trbs[i] = cmd.trbs[i]
           /\ \A i \in Unfetched(ep0, EP0_USABLE) : ep0'.trbs[i] = ep0.trbs[i]]_vars
  <2> SUFFICES ASSUME EP0_USABLE > 11, XhciTyped, XhciInv, ControlsInv, attached,
                      IssueCommand \/ IssueControl
               PROVE  /\ \A i \in Unfetched(cmd, CMD_USABLE) : cmd'.trbs[i] = cmd.trbs[i]
                      /\ \A i \in Unfetched(ep0, EP0_USABLE) : ep0'.trbs[i] = ep0.trbs[i]
    OBVIOUS
  <2>1. CASE IssueControl
    <3>1. UNCHANGED cmd
      BY <2>1 DEF IssueControl
    <3>2. QED
      BY <2>1, <3>1, ControlQueued
  <2>2. CASE IssueCommand
    <3> DEFINE u == CMD_USABLE
               n == cmd.enqueue
    <3>1. UNCHANGED ep0
      BY <2>2 DEF IssueCommand
    <3>2. CommandsInv /\ ProbeInv
      BY DEF XhciInv
    <3>3. u \in Nat \ {0} /\ u > 4 /\ cmd \in ProducerRings(u)
      BY XhciAssumption DEF XhciTyped, TypeOK
    <3>4. n \in 0 .. 3
      BY <2>2, <3>2, OrderIs DEF IssueCommand, ProbeInv
    <3>5. PICK s \in SomeSlot : cmd' = Push(cmd, u, Trb("command", step, s)) /\ step \in Commands
      BY <2>2 DEF IssueCommand, XhciTyped, TypeOK, SomeSlot
    <3>6. Filled(cmd, n, u)
      BY <3>2, <3>3 DEF CommandsInv, Filled, ProducerRings, Trbs
    <3>7. Trb("command", step, s) \in Trbs
      BY <3>5, TrbTyped DEF Requests
    <3>8. n \in Nat /\ n + 1 < u
      BY <3>3, <3>4
    <3> HIDE DEF n, u
    <3>9. \A i \in Unfetched(cmd, u) : cmd'.trbs[i] = cmd.trbs[i]
      BY <3>3, <3>5, <3>6, <3>7, <3>8, PushNext
    <3>10. QED
      BY <3>1, <3>9 DEF u
  <2>3. QED
    BY <2>1, <2>2
<1>4. EP0_USABLE > 11 /\ [Next]_vars => (EP0_USABLE > 11)'
  OBVIOUS
<1>5. QED
  BY <1>1, <1>2, <1>3, <1>4, AlwaysTyped, AlwaysInv, PTL DEF Spec, RingsNotOverrun
=============================================================================
