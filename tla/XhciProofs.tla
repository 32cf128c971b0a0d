----------------------------- MODULE XhciProofs -----------------------------
(***************************************************************************)
(* Proofs about the xHCI driver: the event ring of kernel/src/xhci.rs is a *)
(* queue, whatever its length, the driver and the controller use it as     *)
(* such, and every index stays in its ring.  XhciAnswerProofs goes on.     *)
(***************************************************************************)
EXTENDS Xhci, TLAPS

(* The index after i.                                                      *)
After(i) == IF i = EVENT_RING_TRBS - 1 THEN 0 ELSE i + 1

LEMMA NextIndex ==
  ASSUME NEW i \in Slots
  PROVE  /\ (i + 1) % EVENT_RING_TRBS = After(i)
         /\ After(i) \in Slots
<1> DEFINE n == EVENT_RING_TRBS
<1>1. n \in Nat /\ n >= 2
  BY EventRingAssumption
<1> HIDE DEF n
<1>2. i \in 0 .. n - 1
  BY DEF Slots, n
<1>3. CASE i = n - 1
  <2>1. (i + 1) % n = 0
    BY <1>1, <1>3
  <2>2. QED
    BY <1>1, <1>2, <1>3, <2>1 DEF After, Slots, n
<1>4. CASE i # n - 1
  <2>1. (i + 1) % n = i + 1
    BY <1>1, <1>2, <1>4
  <2>2. QED
    BY <1>1, <1>2, <1>4, <2>1 DEF After, Slots, n
<1>5. QED
  BY <1>3, <1>4

LEMMA RingInvInit == RingInit => RingInv
<1> SUFFICES ASSUME RingInit PROVE RingInv
  OBVIOUS
<1>1. 0 \in Slots
  BY EventRingAssumption DEF Slots
<1>2. RingTypeOK
  BY <1>1 DEF RingInit, RingTypeOK
<1>3. /\ event_ring_dequeue = 0 /\ enqueue = 0 /\ erdp = 0
      /\ acked /\ pcs /\ event_ring_cycle
  BY DEF RingInit
<1>4. ASSUME NEW i \in Slots
      PROVE  event_ring[i].cycle = (IF i < enqueue THEN pcs ELSE ~pcs)
  <2>1. ~(i < enqueue)
    BY <1>3 DEF Slots
  <2>2. event_ring[i].cycle = FALSE
    BY DEF RingInit
  <2>3. QED
    BY <1>2, <1>3, <2>1, <2>2 DEF RingTypeOK
<1>5. event_ring_cycle = (IF enqueue >= event_ring_dequeue THEN pcs ELSE ~pcs)
  BY <1>2, <1>3 DEF RingTypeOK
<1>6. QED
  BY <1>2, <1>3, <1>4, <1>5, Zenon DEF RingInv

LEMMA PostKeepsInv ==
  ASSUME NEW e \in Events, RingInv, PostEvent(e)
  PROVE  RingInv'
<1> USE EventRingAssumption
<1>1. enqueue' = After(enqueue) /\ After(enqueue) \in Slots /\ After(enqueue) # erdp
  BY NextIndex DEF PostEvent, RingInv, RingTypeOK
<1>2. RingTypeOK'
  BY <1>1, Zenon DEF PostEvent, RingInv, RingTypeOK
<1>3. \A i \in Slots : event_ring'[i].cycle = (IF i < enqueue' THEN pcs' ELSE ~pcs')
  BY <1>1 DEF PostEvent, RingInv, RingTypeOK, After, Slots
<1>4. event_ring_cycle' = (IF enqueue' >= event_ring_dequeue' THEN pcs' ELSE ~pcs')
  BY <1>1 DEF PostEvent, RingInv, RingTypeOK, After, Slots
<1>5. QED
  BY <1>1, <1>2, <1>3, <1>4 DEF PostEvent, RingInv, RingTypeOK, After, Slots

LEMMA TakeKeepsInv ==
  ASSUME RingInv, TakeEvent
  PROVE  RingInv'
<1> USE EventRingAssumption
<1>1. /\ event_ring_dequeue' = After(event_ring_dequeue)
      /\ After(event_ring_dequeue) \in Slots
  BY NextIndex DEF TakeEvent, RingInv, RingTypeOK
<1>2. enqueue # event_ring_dequeue
  BY DEF TakeEvent, EventReady, RingInv, RingTypeOK, Slots
<1>3. RingTypeOK'
  BY <1>1, Zenon DEF TakeEvent, RingInv, RingTypeOK
<1>4. event_ring_cycle' = (IF enqueue' >= event_ring_dequeue' THEN pcs' ELSE ~pcs')
  BY <1>1, <1>2 DEF TakeEvent, RingInv, RingTypeOK, After, Slots
<1>5. QED
  BY <1>1, <1>2, <1>3, <1>4 DEF TakeEvent, RingInv, RingTypeOK, After, Slots

(* The cycle bits tell the driver exactly which slots hold new events, and *)
(* the controller never overwrites an event the driver has not finished    *)
(* with (poll_events of xhci.rs).                                          *)
THEOREM RingInvariant == RingSpec => []RingInv
<1>1. ASSUME RingInv, [RingNext]_ringVars
      PROVE  RingInv'
  <2>1. CASE \E e \in Events : PostEvent(e)
    BY <1>1, <2>1, PostKeepsInv
  <2>2. CASE TakeEvent
    BY <1>1, <2>2, TakeKeepsInv
  <2>3. CASE set_erdp
    BY <1>1, <2>3 DEF set_erdp, RingInv, RingTypeOK
  <2>4. CASE UNCHANGED ringVars
    BY <1>1, <2>4 DEF ringVars, RingInv, RingTypeOK
  <2>5. QED
    BY <1>1, <2>1, <2>2, <2>3, <2>4 DEF RingNext
<1>2. QED
  BY <1>1, RingInvInit, PTL DEF RingSpec

(***************************************************************************)
(* The mapping to the queue, as a function of the ring and its indices.    *)
(***************************************************************************)
Count(enq, deq) ==
  IF enq >= deq THEN enq - deq ELSE enq - deq + EVENT_RING_TRBS

Place(deq, k) ==
  IF deq + k < EVENT_RING_TRBS THEN deq + k ELSE deq + k - EVENT_RING_TRBS

Window(ring, enq, deq) ==
  [k \in 1 .. Count(enq, deq) |-> ring[Place(deq, k - 1)].event]

Contents == Events \cup {NoEvent}
Rings == [Slots -> [event : Contents, cycle : BOOLEAN]]

LEMMA WindowType ==
  ASSUME NEW ring \in Rings, NEW enq \in Slots, NEW deq \in Slots
  PROVE  /\ Count(enq, deq) \in Nat /\ Count(enq, deq) < EVENT_RING_TRBS
         /\ Window(ring, enq, deq) \in Seq(Contents)
         /\ Len(Window(ring, enq, deq)) = Count(enq, deq)
         /\ \A k \in 1 .. Count(enq, deq) :
              /\ Place(deq, k - 1) \in Slots
              /\ Window(ring, enq, deq)[k] = ring[Place(deq, k - 1)].event
<1> USE EventRingAssumption
<1> DEFINE n == Count(enq, deq)
<1>1. n \in Nat /\ n < EVENT_RING_TRBS
  BY DEF Slots, Count
<1>2. ASSUME NEW k \in 1 .. n
      PROVE  Place(deq, k - 1) \in Slots /\ ring[Place(deq, k - 1)].event \in Contents
  <2>1. Place(deq, k - 1) \in Slots
    BY <1>1 DEF Slots, Place
  <2>2. QED
    BY <2>1 DEF Rings
<1> HIDE DEF n
<1>3. QED
  BY <1>1, <1>2 DEF Window, n

(* Writing the slot at the producer's index appends.                       *)
LEMMA WindowPost ==
  ASSUME NEW ring \in Rings, NEW enq \in Slots, NEW deq \in Slots,
         NEW e \in Contents, NEW ring2 \in Rings, NEW enq2 \in Slots,
         enq2 = After(enq), enq2 # deq,
         ring2[enq].event = e, \A j \in Slots \ {enq} : ring2[j] = ring[j]
  PROVE  /\ Count(enq, deq) < EVENT_RING_TRBS - 1
         /\ Window(ring2, enq2, deq) = Append(Window(ring, enq, deq), e)
<1> USE EventRingAssumption
<1> DEFINE n == Count(enq, deq)
           w == Window(ring, enq, deq)
           w2 == Window(ring2, enq2, deq)
<1>1. /\ n \in Nat /\ w \in Seq(Contents) /\ Len(w) = n
      /\ \A k \in 1 .. n : Place(deq, k - 1) \in Slots /\ w[k] = ring[Place(deq, k - 1)].event
  BY WindowType
<1>2. Count(enq2, deq) = n + 1 /\ n < EVENT_RING_TRBS - 1
  BY DEF Count, After, Slots
<1>3. /\ w2 \in Seq(Contents) /\ Len(w2) = n + 1
      /\ \A k \in 1 .. n + 1 : w2[k] = ring2[Place(deq, k - 1)].event
  <2>1. /\ w2 \in Seq(Contents) /\ Len(w2) = Count(enq2, deq)
        /\ \A k \in 1 .. Count(enq2, deq) : w2[k] = ring2[Place(deq, k - 1)].event
    BY ONLY WindowType, ring2 \in Rings, enq2 \in Slots, deq \in Slots
  <2>2. QED
    BY <1>2, <2>1, Zenon
<1>4. ASSUME NEW k \in 1 .. n PROVE w2[k] = w[k]
  <2>1. Place(deq, k - 1) \in Slots /\ Place(deq, k - 1) # enq
    BY DEF Place, Count, Slots
  <2>2. k \in 1 .. n + 1
    BY <1>1
  <2>3. ring2[Place(deq, k - 1)] = ring[Place(deq, k - 1)]
    BY <2>1
  <2>4. QED
    BY <1>1, <1>3, <2>2, <2>3, Zenon
<1>5. w2[n + 1] = e
  <2>1. Place(deq, (n + 1) - 1) = enq
    BY DEF Place, Count, Slots
  <2>2. n + 1 \in 1 .. n + 1
    BY <1>1
  <2>3. QED
    BY <1>3, <2>1, <2>2, Zenon
<1> HIDE DEF n, w, w2
<1>6. w2 = Append(w, e)
  BY <1>1, <1>3, <1>4, <1>5
<1>7. QED
  BY <1>2, <1>6, Zenon DEF n, w, w2

(* Moving the driver's index on takes the first event.                     *)
LEMMA WindowTake ==
  ASSUME NEW ring \in Rings, NEW enq \in Slots, NEW deq \in Slots, enq # deq,
         NEW deq2 \in Slots, deq2 = After(deq)
  PROVE  /\ Window(ring, enq, deq) # <<>>
         /\ Head(Window(ring, enq, deq)) = ring[deq].event
         /\ Tail(Window(ring, enq, deq)) = Window(ring, enq, deq2)
<1> USE EventRingAssumption
<1> DEFINE n == Count(enq, deq)
           w == Window(ring, enq, deq)
           w2 == Window(ring, enq, deq2)
<1>1. /\ n \in Nat /\ w \in Seq(Contents) /\ Len(w) = n
      /\ \A k \in 1 .. n : w[k] = ring[Place(deq, k - 1)].event
  BY WindowType
<1>2. n >= 1 /\ Count(enq, deq2) = n - 1
  BY DEF Count, After, Slots
<1>3. /\ w2 \in Seq(Contents) /\ Len(w2) = n - 1
      /\ \A k \in 1 .. n - 1 : w2[k] = ring[Place(deq2, k - 1)].event
  <2>1. /\ w2 \in Seq(Contents) /\ Len(w2) = Count(enq, deq2)
        /\ \A k \in 1 .. Count(enq, deq2) : w2[k] = ring[Place(deq2, k - 1)].event
    BY ONLY WindowType, ring \in Rings, enq \in Slots, deq2 \in Slots
  <2>2. QED
    BY <1>2, <2>1, Zenon
<1>4. w[1] = ring[deq].event
  <2>1. Place(deq, 1 - 1) = deq /\ 1 \in 1 .. n
    BY <1>1, <1>2 DEF Place, Slots
  <2>2. QED
    BY <1>1, <2>1, Zenon
<1>5. ASSUME NEW k \in 1 .. n - 1 PROVE w2[k] = w[k + 1]
  <2>1. Place(deq, (k + 1) - 1) = Place(deq2, k - 1)
    BY <1>1, <1>2 DEF Place, After, Slots, Count
  <2>2. k + 1 \in 1 .. n
    BY <1>1
  <2>3. QED
    BY <1>1, <1>3, <2>1, <2>2, Zenon
<1> HIDE DEF n, w, w2
<1>6. w # <<>> /\ Head(w) = ring[deq].event
  BY <1>1, <1>2, <1>4
<1>7. Tail(w) = w2
  BY <1>1, <1>2, <1>3, <1>5
<1>8. QED
  BY <1>6, <1>7, Zenon DEF w, w2

LEMMA PendingWindow ==
  /\ Pending = Window(event_ring, enqueue, event_ring_dequeue)
  /\ Pending' = Window(event_ring', enqueue', event_ring_dequeue')
  /\ RingTypeOK => /\ event_ring \in Rings
                   /\ enqueue \in Slots /\ event_ring_dequeue \in Slots
                   /\ Len(Pending) = Count(enqueue, event_ring_dequeue)
<1>1. Pending = Window(event_ring, enqueue, event_ring_dequeue)
  BY Zenon DEF Pending, Window, Waiting, Count, SlotAt, Place
<1>2. Pending' = Window(event_ring', enqueue', event_ring_dequeue')
  BY Zenon DEF Pending, Window, Waiting, Count, SlotAt, Place
<1>3. RingTypeOK => /\ event_ring \in Rings
                    /\ enqueue \in Slots /\ event_ring_dequeue \in Slots
  BY DEF RingTypeOK, Rings, Contents
<1>4. QED
  BY <1>1, <1>2, <1>3, WindowType

LEMMA PostArrives ==
  ASSUME NEW e \in Events, RingInv, PostEvent(e)
  PROVE  Queue!Arrive(e) /\ Pending' = Append(Pending, e)
<1>1. /\ event_ring \in Rings /\ enqueue \in Slots /\ event_ring_dequeue \in Slots
      /\ Len(Pending) = Count(enqueue, event_ring_dequeue)
      /\ Pending = Window(event_ring, enqueue, event_ring_dequeue)
  BY PendingWindow DEF RingInv
<1>2. event_ring' \in Rings /\ enqueue' \in Slots
  BY PostKeepsInv DEF RingInv, RingTypeOK, Rings, Contents
<1>3. enqueue' = After(enqueue) /\ enqueue' # erdp
  BY NextIndex DEF PostEvent, RingInv, RingTypeOK
<1>4. enqueue' # event_ring_dequeue
  BY <1>3, EventRingAssumption DEF RingInv, RingTypeOK, After, Slots
<1>5. /\ event_ring'[enqueue].event = e
      /\ \A j \in Slots \ {enqueue} : event_ring'[j] = event_ring[j]
      /\ event_ring_dequeue' = event_ring_dequeue /\ handled' = handled
  BY DEF PostEvent, RingInv, RingTypeOK
<1>6. e \in Contents
  BY DEF Contents
<1>7. /\ Count(enqueue, event_ring_dequeue) < EVENT_RING_TRBS - 1
      /\ Window(event_ring', enqueue', event_ring_dequeue) =
           Append(Window(event_ring, enqueue, event_ring_dequeue), e)
  BY <1>1, <1>2, <1>3, <1>4, <1>5, <1>6, WindowPost
<1>8. Pending' = Append(Pending, e)
  BY <1>1, <1>5, <1>7, PendingWindow, Zenon
<1>9. QED
  BY <1>1, <1>5, <1>7, <1>8 DEF Queue!Arrive

LEMMA TakeTakes ==
  ASSUME RingInv, TakeEvent
  PROVE  Queue!Take
<1>1. /\ event_ring \in Rings /\ enqueue \in Slots /\ event_ring_dequeue \in Slots
      /\ Pending = Window(event_ring, enqueue, event_ring_dequeue)
  BY PendingWindow DEF RingInv
<1>2. /\ event_ring_dequeue' = After(event_ring_dequeue)
      /\ event_ring_dequeue' \in Slots
  BY NextIndex DEF TakeEvent, RingInv, RingTypeOK
<1>3. enqueue # event_ring_dequeue
  BY EventRingAssumption DEF TakeEvent, EventReady, RingInv, RingTypeOK, Slots
<1>4. /\ event_ring' = event_ring /\ enqueue' = enqueue
      /\ handled' = event_ring[event_ring_dequeue].event
  BY DEF TakeEvent
<1>5. /\ Pending # <<>>
      /\ Head(Pending) = event_ring[event_ring_dequeue].event
      /\ Tail(Pending) = Window(event_ring, enqueue, event_ring_dequeue')
  BY <1>1, <1>2, <1>3, WindowTake
<1>6. Pending' = Tail(Pending)
  BY <1>4, <1>5, PendingWindow, Zenon
<1>7. QED
  BY <1>4, <1>5, <1>6, Zenon DEF Queue!Take

(***************************************************************************)
(* Whatever its length, the ring is a queue between the controller and     *)
(* poll_events: every event is handled once, in the order of posting, and  *)
(* never read before it is written or after it is overwritten.             *)
(***************************************************************************)
THEOREM EventsInOrder == RingSpec => ImplementsEventQueue
<1>1. RingInit => Queue!AbsInit
  <2> SUFFICES ASSUME RingInit PROVE Pending = <<>> /\ handled = NoEvent
    BY DEF Queue!AbsInit
  <2>1. Waiting = 0
    BY DEF RingInit, Waiting
  <2>2. QED
    BY <2>1 DEF RingInit, Pending
<1>2. RingInv /\ [RingNext]_ringVars => [Queue!AbsNext]_(Queue!absVars)
  <2> SUFFICES ASSUME RingInv, [RingNext]_ringVars
               PROVE  Queue!AbsNext \/ (Pending' = Pending /\ handled' = handled)
    BY Zenon DEF Queue!absVars
  <2>1. ASSUME NEW e \in Events, PostEvent(e)
        PROVE  Queue!AbsNext
    <3>1. Queue!Arrive(e) /\ Pending' = Append(Pending, e)
      BY <2>1, PostArrives
    <3>2. Pending \in Seq(Contents)
      BY PendingWindow, WindowType DEF RingInv
    <3>3. Pending' # <<>> /\ Pending'[Len(Pending')] = e
      BY <3>1, <3>2 DEF Contents
    <3>4. QED
      BY <3>1, <3>3, Zenon DEF Queue!AbsNext
  <2>2. CASE TakeEvent
    BY <2>2, TakeTakes DEF Queue!AbsNext
  <2>3. ASSUME UNCHANGED <<event_ring, enqueue, event_ring_dequeue, handled>>
        PROVE  Pending' = Pending /\ handled' = handled
    BY <2>3, PendingWindow, Zenon
  <2>4. CASE set_erdp
    BY <2>3, <2>4 DEF set_erdp
  <2>5. CASE UNCHANGED ringVars
    BY <2>3, <2>5 DEF ringVars
  <2>6. QED
    BY <2>1, <2>2, <2>4, <2>5 DEF RingNext
<1>3. QED
  BY <1>1, <1>2, RingInvariant, PTL DEF RingSpec, ImplementsEventQueue, Queue!AbsSpec

-----------------------------------------------------------------------------
(* The ring as the driver uses it.                                         *)
QueueInv == RingInv /\ Pending \in Seq(Events)

LEMMA Posted ==
  ASSUME QueueInv, NEW e \in Events, PostEvent(e)
  PROVE  QueueInv' /\ Pending' = Append(Pending, e)
<1>1. RingInv' /\ Pending' = Append(Pending, e)
  BY PostKeepsInv, PostArrives DEF QueueInv
<1>2. QED
  BY <1>1 DEF QueueInv

LEMMA Taken ==
  ASSUME QueueInv, TakeEvent
  PROVE  /\ QueueInv' /\ Pending # <<>>
         /\ handled' = Head(Pending) /\ Pending' = Tail(Pending)
<1>1. /\ RingInv' /\ Pending # <<>>
      /\ handled' = Head(Pending) /\ Pending' = Tail(Pending)
  BY TakeKeepsInv, TakeTakes DEF QueueInv, Queue!Take
<1>2. QED
  BY <1>1 DEF QueueInv

LEMMA NotPosted ==
  ASSUME QueueInv, set_erdp \/ UNCHANGED ringVars
  PROVE  QueueInv' /\ Pending' = Pending
<1>1. RingInv'
  <2>1. CASE set_erdp
    BY <2>1 DEF set_erdp, QueueInv, RingInv, RingTypeOK
  <2>2. CASE UNCHANGED ringVars
    BY <2>2 DEF ringVars, QueueInv, RingInv, RingTypeOK
  <2>3. QED
    BY <2>1, <2>2
<1>2. Pending' = Pending
  BY PendingWindow, Zenon DEF set_erdp, ringVars
<1>3. QED
  BY <1>1, <1>2 DEF QueueInv
-----------------------------------------------------------------------------
(* The rings of commands and transfers.                                    *)

LEMMA PushTyped ==
  ASSUME NEW u \in Nat \ {0}, NEW r \in ProducerRings(u), NEW t \in Trbs
  PROVE  Push(r, u, t) \in ProducerRings(u)
<1> DEFINE next == (r.enqueue + 1) % u
<1>1. r.enqueue % u \in 0 .. u - 1 /\ next \in 0 .. u - 1
  BY DEF ProducerRings
<1> HIDE DEF next
<1>2. [t EXCEPT !.cycle = r.cycle] \in Trbs
  BY DEF Trbs, ProducerRings
<1>3. QED
  BY <1>1, <1>2, Zenon DEF Push, ProducerRings, next

LEMMA FetchTyped ==
  ASSUME NEW u \in Nat \ {0}, NEW r \in ProducerRings(u), Owned(r, u)
  PROVE  Fetch(r, u) \in ProducerRings(u) /\ Halt(r, u) \in ProducerRings(u)
<1>1. r.at \in 0 .. u - 1 /\ r.at + 1 \in 0 .. u /\ 0 \in 0 .. u /\ u \in 0 .. u
  BY DEF Owned, ProducerRings
<1>2. Halt(r, u) \in ProducerRings(u)
  BY <1>1 DEF Halt, ProducerRings
<1>3. CASE r.at + 1 < u
  BY <1>1, <1>2, <1>3, Zenon DEF Fetch, ProducerRings
<1>4. CASE ~(r.at + 1 < u) /\ r.ccs
  BY <1>1, <1>2, <1>4, Zenon DEF Fetch, ProducerRings
<1>5. CASE ~(r.at + 1 < u) /\ ~r.ccs
  BY <1>1, <1>2, <1>5 DEF Fetch, Halt, ProducerRings
<1>6. QED
  BY <1>3, <1>4, <1>5

(* What the controller owns is a TRB.                                      *)
LEMMA OwnedTrb ==
  ASSUME NEW usable \in Nat \ {0}, NEW r \in ProducerRings(usable), Owned(r, usable)
  PROVE  r.trbs[r.at] \in Trbs
<1>1. r.at \in 0 .. usable - 1
  BY DEF ProducerRings, Owned
<1>2. r.trbs \in [0 .. usable - 1 -> Trbs]
  BY DEF ProducerRings
<1>3. QED
  BY <1>1, <1>2, Zenon

LEMMA EmptyTyped ==
  ASSUME NEW u \in Nat \ {0}
  PROVE  EmptyRing(u) \in ProducerRings(u)
BY DEF EmptyRing, ProducerRings, NoTrb, Trbs, Requests, SomeSlot

LEMMA TrbTyped ==
  ASSUME NEW kind \in {"command", "setup", "data", "status", "normal"},
         NEW of \in Requests, NEW s \in SomeSlot
  PROVE  Trb(kind, of, s) \in Trbs
BY DEF Trb, Trbs

(* Where the probe goes from a step.                                       *)
LEMMA NextSteps ==
  /\ \A s \in Commands \cup Controls, ok \in BOOLEAN : Then(s, ok) \in Steps
  /\ \A ok \in BOOLEAN : Then("noop", ok) = "ports"
  /\ \A s \in (Commands \cup Controls) \ {"noop"} : Then(s, FALSE) = "finish"
  /\ Then("enable_slot", TRUE) = "address_device"
  /\ Then("address_device", TRUE) = "device_descriptor"
  /\ Then("device_descriptor", TRUE) = "config_header"
  /\ Then("config_header", TRUE) = "config_descriptor"
  /\ Then("config_descriptor", TRUE) = "set_configuration"
  /\ Then("set_configuration", TRUE) = "configure_endpoint"
  /\ Then("configure_endpoint", TRUE) = "start_hid_polling"
<1>1. /\ Following["enable_slot"] = "address_device"
      /\ Following["address_device"] = "device_descriptor"
      /\ Following["device_descriptor"] = "config_header"
      /\ Following["config_header"] = "config_descriptor"
      /\ Following["config_descriptor"] = "set_configuration"
      /\ Following["set_configuration"] = "configure_endpoint"
      /\ Following["configure_endpoint"] = "start_hid_polling"
  BY DEF Following
<1>2. QED
  BY <1>1 DEF Then, Commands, Controls, ControlIns, Steps

LEMMA GotoTyped ==
  ASSUME NEW s \in Steps, Goto(s)
  PROVE  /\ step' \in Steps /\ phase' \in {"issue", "poll", "check"}
         /\ step' \in Commands \cup Controls => phase' = "issue"
BY DEF Goto, Commands, Controls, ControlIns
-----------------------------------------------------------------------------
(* Type correctness.                                                       *)
WaitInv == step \in Commands \cup Controls /\ phase # "issue" => waits >= 1

XhciTyped == TypeOK /\ QueueInv /\ WaitInv

LEMMA TypedInit == Init => XhciTyped
<1> SUFFICES ASSUME Init PROVE XhciTyped
  OBVIOUS
<1>1. RingInv
  BY RingInvInit DEF Init
<1>2. Pending = <<>>
  BY DEF Init, RingInit, Pending, Waiting
<1>3. /\ cmd \in ProducerRings(CMD_USABLE) /\ ep0 \in ProducerRings(EP0_USABLE)
      /\ intr \in ProducerRings(INTR_USABLE)
  BY EmptyTyped, XhciAssumption DEF Init
<1>4. TypeOK
  <2>1. waits \in 0 .. ITERATIONS
    BY XhciAssumption DEF Init
  <2>2. last_completion \in [code : {"none", "success", "error"}, slot : SomeSlot, of : Requests]
    BY DEF Init, NoAnswer, SomeSlot, Requests
  <2>3. device \in [slot : SomeSlot, state : {"disabled", "enabled", "addressed", "configured"}]
    BY DEF Init, NoDevice, SomeSlot
  <2>4. QED
    BY <1>1, <1>3, <2>1, <2>2, <2>3, Zenon DEF Init, TypeOK, RingInv, Steps, SomeSlot
<1>5. QED
  BY <1>1, <1>2, <1>4 DEF XhciTyped, QueueInv, WaitInv, Init

(* What the controller posts, and so what poll_events handles.             *)
LEMMA EventsTyped ==
  /\ \A type \in {"command", "transfer"}, code \in {"success", "error"}, s \in SomeSlot,
        of \in Requests : Event(type, code, s, of) \in Events
  /\ Event("port", "success", 0, "port") \in Events
  /\ \A e \in Events : /\ e.ep = "ep0"
                       /\ e.type # "port" => /\ e.code \in {"success", "error"}
                                             /\ e.slot \in SomeSlot /\ e.of \in Requests
BY XhciAssumption DEF XhciEvents, Event

(* No event is a report: handle_event only keeps the codes.                *)
LEMMA Handled ==
  ASSUME XhciTyped, TakeEvent, handle_event(handled')
  PROVE  /\ handled' \in Events /\ handled' = Head(Pending)
         /\ UNCHANGED <<intr, step>>
         /\ last_completion' = IF handled'.type = "command"
                               THEN [code |-> handled'.code, slot |-> handled'.slot,
                                     of |-> handled'.of]
                               ELSE last_completion
         /\ last_transfer_code' = IF handled'.type = "transfer" THEN handled'.code
                                  ELSE last_transfer_code
<1>1. handled' = Head(Pending) /\ Pending # <<>> /\ Pending \in Seq(Events)
  BY Taken DEF XhciTyped, QueueInv
<1>2. handled' \in Events
  BY <1>1
<1>3. handled'.ep = "ep0"
  BY <1>2, EventsTyped
<1>4. QED
  BY <1>1, <1>2, <1>3 DEF handle_event

(* The typing of the ring is part of its invariant.                        *)
LEMMA QueueTyped == QueueInv' => RingTypeOK'
BY DEF QueueInv, RingInv

LEMMA PollTyped ==
  ASSUME XhciTyped, PollEvent
  PROVE  XhciTyped'
<1>1. CASE TakeEvent /\ handle_event(handled')
  <2>1. QueueInv' /\ RingTypeOK'
    BY <1>1, Taken, QueueTyped DEF XhciTyped
  <2>2. /\ UNCHANGED <<intr, step>>
        /\ last_completion' \in [code : {"none", "success", "error"}, slot : SomeSlot, of : Requests]
        /\ last_transfer_code' \in {"none", "success", "error"}
    <3>1. handled'.type # "port" => /\ handled'.code \in {"success", "error"}
                                    /\ handled'.slot \in SomeSlot /\ handled'.of \in Requests
      BY <1>1, Handled, EventsTyped
    <3>2. QED
      BY <1>1, <3>1, Handled DEF XhciTyped, TypeOK
  <2>3. QED
    BY <1>1, <2>1, <2>2
       DEF PollEvent, XhciTyped, TypeOK, WaitInv, deviceVars
<1>2. CASE set_erdp /\ UNCHANGED <<last_completion, last_transfer_code, intr, step>>
  <2>1. QueueInv' /\ RingTypeOK'
    BY <1>2, NotPosted, QueueTyped DEF XhciTyped
  <2>2. QED
    BY <1>2, <2>1 DEF PollEvent, XhciTyped, TypeOK, WaitInv, deviceVars
<1>3. QED
  BY <1>1, <1>2 DEF PollEvent

(* The steps of the driver that leave the event ring alone.                *)
LEMMA IssueTyped ==
  ASSUME XhciTyped, IssueCommand \/ IssueControl
  PROVE  XhciTyped'
<1>1. /\ cmd \in ProducerRings(CMD_USABLE) /\ ep0 \in ProducerRings(EP0_USABLE)
      /\ slot \in SomeSlot /\ buffers \subseteq Requests
      /\ CMD_USABLE \in Nat \ {0} /\ EP0_USABLE \in Nat \ {0} /\ ITERATIONS \in Nat \ {0}
  BY XhciAssumption DEF XhciTyped, TypeOK
<1>2. QueueInv' /\ RingTypeOK' /\ WaitInv' /\ waits' \in 0 .. ITERATIONS
  BY <1>1, NotPosted, QueueTyped DEF IssueCommand, IssueControl, StartWait, XhciTyped, WaitInv
<1>3. CASE IssueCommand
  <2>1. cmd' \in ProducerRings(CMD_USABLE)
    <3>1. PICK s \in SomeSlot : cmd' = Push(cmd, CMD_USABLE, Trb("command", step, s))
      BY <1>1, <1>3 DEF IssueCommand, SomeSlot
    <3>2. Trb("command", step, s) \in Trbs
      BY <1>3, TrbTyped DEF IssueCommand, Requests
    <3>3. QED
      BY <1>1, <3>1, <3>2, PushTyped
  <2>2. QED
    BY <1>1, <1>2, <1>3, <2>1
       DEF IssueCommand, StartWait, XhciTyped, TypeOK
<1>4. CASE IssueControl
  <2>1. ep0' \in ProducerRings(EP0_USABLE)
    <3>1. step \in Requests
      BY <1>4 DEF IssueControl, Requests
    <3> DEFINE setup == Push(ep0, EP0_USABLE, Trb("setup", step, slot))
               data == IF step \in ControlIns
                       THEN Push(setup, EP0_USABLE, Trb("data", step, slot)) ELSE setup
    <3>2. setup \in ProducerRings(EP0_USABLE)
      BY <1>1, <3>1, TrbTyped, PushTyped
    <3> HIDE DEF setup
    <3>3. Push(setup, EP0_USABLE, Trb("data", step, slot)) \in ProducerRings(EP0_USABLE)
      BY <1>1, <3>1, <3>2, TrbTyped, PushTyped
    <3>4. data \in ProducerRings(EP0_USABLE)
      BY <3>2, <3>3
    <3> HIDE DEF data
    <3>5. ep0' = Push(data, EP0_USABLE, Trb("status", step, slot))
      BY <1>4 DEF IssueControl, setup, data
    <3>6. QED
      BY <1>1, <3>1, <3>4, <3>5, TrbTyped, PushTyped
  <2>2. QED
    BY <1>1, <1>2, <1>4, <2>1
       DEF IssueControl, StartWait, XhciTyped, TypeOK
<1>5. QED
  BY <1>3, <1>4

LEMMA CheckTyped ==
  ASSUME XhciTyped, CheckCommand \/ CheckControl \/ CheckAgain
  PROVE  XhciTyped'
<1>1. QueueInv' /\ RingTypeOK'
  BY NotPosted, QueueTyped, Zenon DEF CheckCommand, CheckControl, CheckAgain, XhciTyped
<1>2. CASE CheckCommand
  <2>1. /\ step' \in Steps /\ phase' \in {"issue", "poll", "check"}
        /\ step' \in Commands \cup Controls => phase' = "issue"
    BY <1>2, NextSteps, GotoTyped, Zenon DEF CheckCommand, Confirmed
  <2>2. last_completion' \in [code : {"none", "success", "error"}, slot : SomeSlot, of : Requests]
    BY <1>2 DEF CheckCommand, NoAnswer, SomeSlot, Requests
  <2>3. slot' \in SomeSlot
    BY <1>2 DEF CheckCommand, XhciTyped, TypeOK
  <2>4. /\ active_slot' \in SomeSlot \cup {NoSlot} /\ ep0_ring_len' \in {0, EP0_USABLE + 1}
        /\ ep0' \in ProducerRings(EP0_USABLE)
    BY <1>2, EmptyTyped, XhciAssumption DEF CheckCommand, AdoptEp0Ring, XhciTyped, TypeOK
  <2>5. /\ intr_ring_len' \in {0, INTR_USABLE + 1} /\ intr' \in ProducerRings(INTR_USABLE)
    BY <1>2, EmptyTyped, XhciAssumption DEF CheckCommand, AdoptIntrRing, XhciTyped, TypeOK
  <2>6. QED
    BY <1>1, <1>2, <2>1, <2>2, <2>3, <2>4, <2>5
       DEF CheckCommand, XhciTyped, TypeOK, WaitInv, deviceVars
<1>3. CASE CheckControl
  <2>1. /\ step' \in Steps /\ phase' \in {"issue", "poll", "check"}
        /\ step' \in Commands \cup Controls => phase' = "issue"
    <3>1. PICK ok \in BOOLEAN : Goto(Then(step, ok))
      BY <1>3, Zenon DEF CheckControl
    <3>2. QED
      BY <1>3, <3>1, NextSteps, GotoTyped DEF CheckControl
  <2>2. total' \in {"unread", "read", "zero"} /\ last_transfer_code' = "none"
    BY <1>3 DEF CheckControl, XhciTyped, TypeOK
  <2>3. QED
    BY <1>1, <1>3, <2>1, <2>2
       DEF CheckControl, XhciTyped, TypeOK, WaitInv, deviceVars, queueVars
<1>4. CASE CheckAgain
  <2>1. waits' \in 0 .. ITERATIONS
    <3>1. waits >= 1
      BY <1>4 DEF CheckAgain, Unanswered, XhciTyped, WaitInv
    <3>2. QED
      BY <1>4, <3>1, XhciAssumption DEF CheckAgain, XhciTyped, TypeOK
  <2>2. CASE waits > 1
    <3>1. waits' >= 1
      BY <1>4, <2>2 DEF CheckAgain, XhciTyped, TypeOK
    <3>2. QED
      BY <1>1, <1>4, <2>1, <2>2, <3>1
         DEF CheckAgain, XhciTyped, TypeOK, WaitInv, deviceVars, queueVars
  <2>3. CASE ~(waits > 1)
    <3>1. /\ step' \in Steps /\ phase' \in {"issue", "poll", "check"}
          /\ step' \in Commands \cup Controls => phase' = "issue"
      BY <1>4, <2>3, NextSteps, GotoTyped, Zenon DEF CheckAgain, Unanswered
    <3>2. QED
      BY <1>1, <1>4, <2>1, <2>3, <3>1
         DEF CheckAgain, XhciTyped, TypeOK, WaitInv, deviceVars, queueVars
  <2>4. QED
    BY <2>2, <2>3
<1>5. QED
  BY <1>2, <1>3, <1>4

LEMMA OthersTyped ==
  ASSUME XhciTyped,
         \/ init_controller \/ NoMemory \/ PollDone \/ PollReturns
         \/ start_hid_polling \/ MainLoop \/ UNCHANGED vars
  PROVE  XhciTyped'
<1>1. QueueInv' /\ RingTypeOK'
  BY NotPosted, QueueTyped DEF init_controller, NoMemory, PollDone, PollReturns, start_hid_polling,
                   MainLoop, XhciTyped, vars
<1>2. CASE init_controller
  <2>1. /\ step' \in {"idle", "noop"} /\ phase' = "issue"
        /\ CONTROLLER_STATE' \in BOOLEAN /\ attached' \in BOOLEAN
    BY <1>2, Zenon DEF init_controller, Goto, XhciTyped, TypeOK
  <2>2. device' \in [slot : SomeSlot, state : {"disabled", "enabled", "addressed", "configured"}]
    BY <1>2 DEF init_controller, NoDevice, SomeSlot
  <2>3. QED
    BY <1>1, <1>2, <2>1, <2>2 DEF init_controller, Steps, Commands,
         XhciTyped, TypeOK, WaitInv, queueVars
<1>3. CASE NoMemory \/ PollReturns
  <2>1. /\ step' \in Steps /\ phase' \in {"issue", "poll", "check"}
        /\ step' \in Commands \cup Controls => phase' = "issue"
    <3>1. PICK s \in {"finish", "enable_slot", "idle"} : Goto(s)
      BY <1>3 DEF NoMemory, PollReturns
    <3>2. s \in Steps
      BY DEF Steps, Commands
    <3>3. QED
      BY <3>1, <3>2, GotoTyped
  <2>2. QED
    BY <1>1, <1>3, <2>1
       DEF NoMemory, PollReturns, XhciTyped, TypeOK, WaitInv, queueVars, deviceVars
<1>4. CASE PollDone
  BY <1>1, <1>4
     DEF PollDone, XhciTyped, TypeOK, WaitInv, queueVars, deviceVars
<1>5. CASE start_hid_polling
  <2>1. intr' \in ProducerRings(INTR_USABLE)
    BY <1>5, PushTyped, TrbTyped, XhciAssumption, Zenon
       DEF start_hid_polling, XhciTyped, TypeOK, Requests
  <2>2. QED
    BY <1>1, <1>5, <2>1 DEF start_hid_polling, Steps, Commands, Controls, ControlIns,
                            XhciTyped, TypeOK, WaitInv, deviceVars
<1>6. CASE MainLoop
  <2>1. step' \in {"idle", "init"} /\ phase' \in {"issue", "poll"}
    BY <1>6 DEF MainLoop, Goto
  <2>2. step' \in Steps \ (Commands \cup Controls)
    BY <2>1 DEF Steps, Commands, Controls, ControlIns
  <2>3. QED
    BY <1>1, <1>6, <2>1, <2>2 DEF MainLoop, XhciTyped, TypeOK, WaitInv, queueVars, deviceVars
<1>7. CASE UNCHANGED vars
  BY <1>1, <1>7 DEF vars, driverVars, XhciTyped, TypeOK, WaitInv, queueVars, deviceVars
<1>8. QED
  BY <1>2, <1>3, <1>4, <1>5, <1>6, <1>7

(* The controller's answer to the command it looks at.                     *)
LEMMA CommandAnswered ==
  ASSUME XhciTyped, ExecuteCommand
  PROVE  \E e \in Events :
           /\ e.type = "command" /\ e.of = cmd.trbs[cmd.at].of /\ PostEvent(e)
           /\ \/ e.code = "error" /\ device' = device
              \/ /\ e.of = "noop" /\ e.slot = 0 /\ device' = device
              \/ /\ e.of = "enable_slot" /\ e.slot \in SlotIds
                 /\ device' = [slot |-> e.slot, state |-> "enabled"]
              \/ /\ e.of = "address_device"
                 /\ device.slot = e.slot /\ device.state = "enabled"
                 /\ device' = [slot |-> e.slot, state |-> "addressed"]
              \/ /\ e.of = "configure_endpoint"
                 /\ device.slot = e.slot /\ device.state = "addressed"
                 /\ device' = [slot |-> e.slot, state |-> "configured"]
<1> DEFINE t == cmd.trbs[cmd.at]
<1>1. t \in Trbs
  <2>1. cmd \in ProducerRings(CMD_USABLE) /\ cmd.at < CMD_USABLE
    BY DEF ExecuteCommand, Owned, XhciTyped, TypeOK
  <2>2. cmd.at \in 0 .. CMD_USABLE - 1 /\ cmd.trbs \in [0 .. CMD_USABLE - 1 -> Trbs]
    BY <2>1, XhciAssumption DEF ProducerRings
  <2>3. QED
    BY <2>2, Zenon
<1>2. t.of \in Requests /\ t.slot \in SomeSlot
  BY <1>1 DEF Trbs
<1> HIDE DEF t
<1>3. CASE PostEvent(Event("command", "error", t.slot, t.of)) /\ UNCHANGED device
  <2> DEFINE e == Event("command", "error", t.slot, t.of)
  <2>1. e \in Events /\ e.type = "command" /\ e.of = t.of /\ e.code = "error"
    BY <1>2, EventsTyped DEF Event
  <2>2. PostEvent(e)
    BY <1>3
  <2> HIDE DEF e
  <2>3. QED
    BY <1>3, <2>1, <2>2, Zenon DEF t
<1>4. CASE /\ t.of = "noop" /\ PostEvent(Event("command", "success", 0, t.of))
           /\ UNCHANGED device
  <2> DEFINE e == Event("command", "success", 0, t.of)
  <2>1. e \in Events /\ e.type = "command" /\ e.of = t.of /\ e.slot = 0
    BY <1>2, EventsTyped DEF Event, SomeSlot
  <2>2. PostEvent(e)
    BY <1>4
  <2> HIDE DEF e
  <2>3. QED
    BY <1>4, <2>1, <2>2 DEF t
<1>5. ASSUME NEW s \in SlotIds, t.of = "enable_slot",
             PostEvent(Event("command", "success", s, t.of)),
             device' = [slot |-> s, state |-> "enabled"]
      PROVE  \E e \in Events :
               /\ e.type = "command" /\ e.of = t.of /\ PostEvent(e)
               /\ e.of = "enable_slot" /\ e.slot \in SlotIds
               /\ device' = [slot |-> e.slot, state |-> "enabled"]
  <2> DEFINE e == Event("command", "success", s, t.of)
  <2>1. e \in Events /\ e.type = "command" /\ e.of = t.of /\ e.slot = s
    BY <1>2, EventsTyped DEF Event, SomeSlot
  <2>2. PostEvent(e)
    BY <1>5
  <2> HIDE DEF e
  <2>3. QED
    BY <1>5, <2>1, <2>2
<1>6. ASSUME NEW before \in {"enabled", "addressed"}, NEW after \in {"addressed", "configured"},
             device = [slot |-> t.slot, state |-> before],
             PostEvent(Event("command", "success", t.slot, t.of)),
             device' = [device EXCEPT !.state = after]
      PROVE  \E e \in Events :
               /\ e.type = "command" /\ e.of = t.of /\ PostEvent(e)
               /\ device.slot = e.slot /\ device.state = before
               /\ device' = [slot |-> e.slot, state |-> after]
  <2> DEFINE e == Event("command", "success", t.slot, t.of)
  <2>1. e \in Events /\ e.type = "command" /\ e.of = t.of /\ e.slot = t.slot
    BY <1>2, EventsTyped DEF Event
  <2>2. PostEvent(e)
    BY <1>6
  <2>3. device' = [slot |-> t.slot, state |-> after] /\ device.slot = t.slot /\ device.state = before
    BY <1>6
  <2> HIDE DEF e
  <2>4. QED
    BY <2>1, <2>2, <2>3
<1>7. CASE /\ t.of = "address_device"
           /\ device = [slot |-> t.slot, state |-> "enabled"]
           /\ PostEvent(Event("command", "success", t.slot, t.of))
           /\ device' = [device EXCEPT !.state = "addressed"]
  BY <1>6, <1>7, Zenon DEF t
<1>8. CASE /\ t.of = "configure_endpoint"
           /\ device = [slot |-> t.slot, state |-> "addressed"]
           /\ PostEvent(Event("command", "success", t.slot, t.of))
           /\ device' = [device EXCEPT !.state = "configured"]
  BY <1>6, <1>8, Zenon DEF t
<1>9. QED
  BY <1>3, <1>4, <1>5, <1>7, <1>8, Zenon DEF ExecuteCommand, t

LEMMA ControllerTyped ==
  ASSUME XhciTyped, Controller
  PROVE  /\ XhciTyped'
         /\ \E e \in Events : PostEvent(e)
<1>1. CASE ExecuteCommand
  <2>1. PICK e \in Events :
          /\ PostEvent(e)
          /\ device' \in [slot : SomeSlot, state : {"disabled", "enabled", "addressed", "configured"}]
    <3>1. PICK e \in Events :
            /\ PostEvent(e) /\ e.type = "command"
            /\ \/ device' = device
               \/ \E state \in {"enabled", "addressed", "configured"} :
                    device' = [slot |-> e.slot, state |-> state]
      BY <1>1, CommandAnswered, Zenon
    <3>2. e.slot \in SomeSlot
      BY <3>1, EventsTyped
    <3>3. QED
      BY <3>1, <3>2 DEF XhciTyped, TypeOK
  <2>2. QueueInv' /\ RingTypeOK'
    BY <2>1, Posted, QueueTyped DEF XhciTyped
  <2>3. cmd' \in ProducerRings(CMD_USABLE)
    BY <1>1, FetchTyped, XhciAssumption DEF ExecuteCommand, XhciTyped, TypeOK
  <2>4. QED
    BY <1>1, <2>1, <2>2, <2>3
       DEF ExecuteCommand, driverVars, XhciTyped, TypeOK, WaitInv
<1>2. CASE ExecuteTransfer
  <2> DEFINE t == ep0.trbs[ep0.at]
  <2>1. ep0 \in ProducerRings(EP0_USABLE) /\ Owned(ep0, EP0_USABLE)
    BY <1>2 DEF ExecuteTransfer, XhciTyped, TypeOK
  <2>2. t \in Trbs
    BY <2>1, OwnedTrb, XhciAssumption
  <2>3. t.of \in Requests /\ t.slot \in SomeSlot
    BY <2>2 DEF Trbs
  <2> HIDE DEF t
  <2>4. PICK code \in {"success", "error"} :
          /\ PostEvent(Event("transfer", code, t.slot, t.of))
          /\ ep0' \in {Halt(ep0, EP0_USABLE), Fetch(ep0, EP0_USABLE)}
          /\ buffers' \subseteq buffers \cup {t.of}
    BY <1>2 DEF ExecuteTransfer, t
  <2>5. Event("transfer", code, t.slot, t.of) \in Events
    BY <2>3, EventsTyped
  <2>6. QueueInv'
    BY <2>4, <2>5, Posted DEF XhciTyped
  <2>7. ep0' \in ProducerRings(EP0_USABLE)
    BY <2>1, <2>4, FetchTyped, XhciAssumption
  <2>8. XhciTyped'
    <3>1. UNCHANGED <<driverVars, cmd, intr, attached, device, ports>>
      BY <1>2 DEF ExecuteTransfer
    <3>2. buffers' \subseteq Requests
      BY <2>3, <2>4 DEF XhciTyped, TypeOK
    <3>3. RingTypeOK'
      BY <2>6 DEF QueueInv, RingInv
    <3>4. TypeOK'
      BY <2>7, <3>1, <3>2, <3>3 DEF driverVars, XhciTyped, TypeOK
    <3>5. WaitInv'
      BY <3>1 DEF driverVars, XhciTyped, WaitInv
    <3>6. QED
      BY <2>6, <3>4, <3>5 DEF XhciTyped
  <2>9. QED
    BY <2>4, <2>5, <2>8
<1>3. CASE PortChange
  <2>1. PostEvent(Event("port", "success", 0, "port"))
    BY <1>3 DEF PortChange
  <2>2. Event("port", "success", 0, "port") \in Events
    BY EventsTyped
  <2>3. QueueInv' /\ RingTypeOK'
    BY <2>1, <2>2, Posted, QueueTyped DEF XhciTyped
  <2>4. XhciTyped'
    BY <1>3, <2>3
       DEF PortChange, driverVars, queueVars, XhciTyped, TypeOK, WaitInv
  <2>5. QED
    BY <2>1, <2>2, <2>4
<1>4. QED
  BY <1>1, <1>2, <1>3 DEF Controller

LEMMA TypedStep ==
  ASSUME XhciTyped, [Next]_vars
  PROVE  XhciTyped'
<1>1. CASE SpinOnLock
  BY <1>1, OthersTyped DEF SpinOnLock
<1>2. QED
  BY <1>1, PollTyped, IssueTyped, CheckTyped, OthersTyped, ControllerTyped DEF Next, Driver

(* Every variable of the driver and the controller keeps its type, and no  *)
(* index leaves its ring, for rings of every size.                         *)
THEOREM XhciTypeCorrect == Spec => []TypeOK
<1>1. XhciTyped /\ [Next]_vars => XhciTyped'
  BY TypedStep
<1>2. XhciTyped => TypeOK
  BY DEF XhciTyped
<1>3. QED
  BY <1>1, <1>2, TypedInit, PTL DEF Spec

LEMMA AlwaysTyped == Spec => []XhciTyped
<1>1. XhciTyped /\ [Next]_vars => XhciTyped'
  BY TypedStep
<1>2. QED
  BY <1>1, TypedInit, PTL DEF Spec

(* The driver and the controller use the event ring only through the       *)
(* operations of EventRing, with events of the declared set, so all that   *)
(* is proved of the ring holds of the driver.                              *)
THEOREM DriverUsesRing == Spec => RingSpec
<1>1. Init => RingInit
  BY DEF Init
<1>2. XhciTyped /\ [Next]_vars => [RingNext]_ringVars
  <2> SUFFICES ASSUME XhciTyped, [Next]_vars PROVE [RingNext]_ringVars
    OBVIOUS
  <2>1. CASE PollEvent
    BY <2>1 DEF PollEvent, RingNext
  <2>2. CASE Controller
    BY <2>2, ControllerTyped DEF RingNext
  <2>3. CASE UNCHANGED vars
    BY <2>3 DEF vars
  <2>4. CASE \/ init_controller \/ NoMemory \/ IssueCommand \/ IssueControl
             \/ PollDone \/ CheckCommand \/ CheckControl \/ CheckAgain
             \/ PollReturns \/ start_hid_polling \/ SpinOnLock \/ MainLoop
    <3>1. UNCHANGED ringVars
      BY <2>4, Zenon DEF init_controller, NoMemory, IssueCommand, IssueControl, StartWait, PollDone,
                  CheckCommand, CheckControl, CheckAgain, PollReturns, start_hid_polling,
                  SpinOnLock, vars, MainLoop
    <3>2. QED
      BY <3>1
  <2>5. QED
    BY <2>1, <2>2, <2>3, <2>4 DEF Next, Driver
<1>3. QED
  BY <1>1, <1>2, AlwaysTyped, PTL DEF Spec, RingSpec

(* poll_events handles what the controller posts once and in order.        *)
THEOREM DriverEventsInOrder == Spec => ImplementsEventQueue
BY DriverUsesRing, EventsInOrder, PTL

(* An endpoint is configured only from a descriptor that has arrived,      *)
(* however transfers fail or are answered by the event of another stage    *)
(* (log_usb_controllers, control_in).                                      *)
THEOREM DescriptorRead == Spec => []EndpointFromDescriptor
<1>1. Init => EndpointFromDescriptor
  BY DEF Init, EndpointFromDescriptor
<1>2. EndpointFromDescriptor /\ XhciTyped /\ [Next]_vars => EndpointFromDescriptor'
  <2> SUFFICES ASSUME EndpointFromDescriptor, XhciTyped, [Next]_vars
               PROVE  EndpointFromDescriptor'
    OBVIOUS
  <2>1. CASE CheckControl
    <3>1. PICK found \in BOOLEAN :
            /\ found => total = "read" /\ "config_descriptor" \in buffers
            /\ Goto(Then(step, last_transfer_code = "success"
                               /\ (step = "set_configuration" => found)))
      BY <2>1 DEF CheckControl
    <3>2. CASE step = "set_configuration"
      BY <2>1, <3>1, <3>2, NextSteps, Zenon DEF CheckControl, Goto, EndpointFromDescriptor, Controls,
                                         deviceVars, Commands
    <3>3. CASE step # "set_configuration"
      <4>1. step' \notin {"configure_endpoint", "start_hid_polling"}
        BY <2>1, <3>1, <3>3, NextSteps, Zenon DEF CheckControl, Goto, Controls, ControlIns, Commands
      <4>2. QED
        BY <4>1 DEF EndpointFromDescriptor
    <3>4. QED
      BY <3>2, <3>3
  <2>2. CASE CheckCommand
    <3>1. PICK ok \in BOOLEAN : Goto(Then(step, ok))
      BY <2>2, Zenon DEF CheckCommand, Confirmed
    <3>2. step' \in {"configure_endpoint", "start_hid_polling"} => step = "configure_endpoint"
      <4>1. step' = Then(step, ok) /\ step \in Commands
        BY <2>2, <3>1 DEF CheckCommand, Goto
      <4>2. step # "noop" /\ ok = FALSE => step' = "finish"
        <5> SUFFICES ASSUME step # "noop", ok = FALSE PROVE step' = "finish"
          BY Zenon
        <5>1. step \in (Commands \cup Controls) \ {"noop"}
          BY <4>1
        <5>2. QED
          BY <4>1, <5>1, NextSteps, Zenon
      <4>3. QED
        BY <4>1, <4>2, NextSteps, Zenon DEF Commands
    <3>3. QED
      BY <2>2, <3>2 DEF CheckCommand, EndpointFromDescriptor, deviceVars
  <2>3. CASE CheckAgain
    <3>1. step' = step \/ step' \in {"ports", "finish"}
      BY <2>3, NextSteps, Zenon DEF CheckAgain, Goto, Unanswered
    <3>2. QED
      BY <2>3, <3>1 DEF CheckAgain, EndpointFromDescriptor, deviceVars
  <2>4. CASE IssueCommand \/ IssueControl
    BY <2>4 DEF IssueCommand, IssueControl, StartWait, EndpointFromDescriptor, Controls, ControlIns
  <2>5. CASE init_controller \/ NoMemory \/ PollReturns \/ MainLoop
    BY <2>5 DEF init_controller, NoMemory, PollReturns, MainLoop, Goto, EndpointFromDescriptor,
                deviceVars
  <2>6. CASE PollEvent
    <3>1. step' = step
      BY <2>6, Handled DEF PollEvent
    <3>2. QED
      BY <2>6, <3>1 DEF PollEvent, EndpointFromDescriptor, deviceVars
  <2>7. CASE PollDone \/ start_hid_polling \/ SpinOnLock \/ UNCHANGED vars
    BY <2>7 DEF PollDone, start_hid_polling, SpinOnLock, vars, driverVars, EndpointFromDescriptor,
                deviceVars
  <2>8. CASE Controller
    <3>1. step' = step /\ total' = total /\ buffers \subseteq buffers'
      BY <2>8 DEF Controller, ExecuteCommand, ExecuteTransfer, PortChange, driverVars
    <3>2. QED
      BY <3>1 DEF EndpointFromDescriptor
  <2>9. QED
    BY <2>1, <2>2, <2>3, <2>4, <2>5, <2>6, <2>7, <2>8 DEF Next, Driver
<1>3. QED
  BY <1>1, <1>2, AlwaysTyped, PTL DEF Spec
=============================================================================
