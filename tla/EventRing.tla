----------------------------- MODULE EventRing -----------------------------
(***************************************************************************)
(* The event ring of the xHCI driver, kernel/src/xhci.rs: the controller   *)
(* writes events into a ring in memory and poll_events takes them out.     *)
(* The two share no index: a slot holds a new event when its cycle bit     *)
(* equals the driver's event_ring_cycle, and the controller learns from    *)
(* the register ERDP, which the driver writes last, what it may reuse.     *)
(*                                                                         *)
(* An operator named X_Y after a comment that starts with "Fault:" is a    *)
(* deliberately wrong variant Y of X; no specification uses it.            *)
(***************************************************************************)
EXTENDS Integers, Sequences

CONSTANTS
  EVENT_RING_TRBS,  \* 256 in the code
  Events,           \* what a TRB of the ring can say
  NoEvent           \* a zeroed TRB

ASSUME EventRingAssumption == EVENT_RING_TRBS \in Nat /\ EVENT_RING_TRBS >= 2

VARIABLES
  event_ring,          \* the TRBs: an event and its cycle bit
  event_ring_dequeue, event_ring_cycle,
  erdp,                \* the register ERDP, as an index
  acked,               \* has the driver written ERDP since it last took an event?
  enqueue, pcs,        \* the controller's index and producer cycle state
  handled              \* history: the event handled last

ringVars == <<event_ring, event_ring_dequeue, event_ring_cycle, erdp, acked,
              enqueue, pcs, handled>>

Slots == 0 .. EVENT_RING_TRBS - 1

(* The ring is zeroed: no slot's cycle bit is the one the driver expects.  *)
RingInit ==
  /\ event_ring = [i \in Slots |-> [event |-> NoEvent, cycle |-> FALSE]]
  /\ event_ring_dequeue = 0
  /\ event_ring_cycle = TRUE
  /\ erdp = 0
  /\ acked = TRUE
  /\ enqueue = 0
  /\ pcs = TRUE
  /\ handled = NoEvent

(* The controller posts an event.  It never advances onto ERDP, and starts *)
(* a new lap with the opposite cycle bit.                                  *)
PostEvent(e) ==
  /\ (enqueue + 1) % EVENT_RING_TRBS # erdp
  /\ event_ring' = [event_ring EXCEPT ![enqueue] = [event |-> e, cycle |-> pcs]]
  /\ enqueue' = (enqueue + 1) % EVENT_RING_TRBS
  /\ pcs' = IF enqueue' = 0 THEN ~pcs ELSE pcs
  /\ UNCHANGED <<event_ring_dequeue, event_ring_cycle, erdp, acked, handled>>

(* poll_events finds the slot at its index filled.                         *)
EventReady == event_ring[event_ring_dequeue].cycle = event_ring_cycle

(* Fault: the expected cycle bit stays the same on every lap.              *)
TakeEvent_NoToggle ==
  /\ acked
  /\ EventReady
  /\ handled' = event_ring[event_ring_dequeue].event
  /\ event_ring_dequeue' = (event_ring_dequeue + 1) % EVENT_RING_TRBS
  /\ acked' = FALSE
  /\ UNCHANGED <<event_ring, event_ring_cycle, erdp, enqueue, pcs>>

(* One turn of the loop of poll_events: the event is handled and the index *)
(* moved on ...                                                            *)
TakeEvent ==
  /\ acked
  /\ EventReady
  /\ handled' = event_ring[event_ring_dequeue].event
  /\ event_ring_dequeue' = (event_ring_dequeue + 1) % EVENT_RING_TRBS
  /\ event_ring_cycle' = IF event_ring_dequeue' = 0 THEN ~event_ring_cycle
                         ELSE event_ring_cycle
  /\ acked' = FALSE
  /\ UNCHANGED <<event_ring, erdp, enqueue, pcs>>

(* ... and the register written.                                           *)
set_erdp ==
  /\ ~acked
  /\ erdp' = event_ring_dequeue
  /\ acked' = TRUE
  /\ UNCHANGED <<event_ring, event_ring_dequeue, event_ring_cycle, enqueue, pcs,
                 handled>>

RingNext == (\E e \in Events : PostEvent(e)) \/ TakeEvent \/ set_erdp

RingSpec == RingInit /\ [][RingNext]_ringVars
-----------------------------------------------------------------------------
RingTypeOK ==
  /\ event_ring \in [Slots -> [event : Events \cup {NoEvent}, cycle : BOOLEAN]]
  /\ event_ring_dequeue \in Slots
  /\ event_ring_cycle \in BOOLEAN
  /\ erdp \in Slots
  /\ acked \in BOOLEAN
  /\ enqueue \in Slots
  /\ pcs \in BOOLEAN
  /\ handled \in Events \cup {NoEvent}

(* The number of slots from the driver's index to the controller's, and    *)
(* the slot k places after the driver's.                                   *)
Waiting ==
  IF enqueue >= event_ring_dequeue THEN enqueue - event_ring_dequeue
  ELSE enqueue - event_ring_dequeue + EVENT_RING_TRBS

SlotAt(k) ==
  IF event_ring_dequeue + k < EVENT_RING_TRBS THEN event_ring_dequeue + k
  ELSE event_ring_dequeue + k - EVENT_RING_TRBS

Pending == [k \in 1 .. Waiting |-> event_ring[SlotAt(k - 1)].event]

(* The slots the controller has passed on this lap carry its cycle bit,    *)
(* the others that of the lap before; the driver expects the controller's  *)
(* bit unless the controller is a lap ahead; ERDP lags by the event being  *)
(* handled, which the controller does not overwrite.                       *)
RingInv ==
  /\ RingTypeOK
  /\ \A i \in Slots : event_ring[i].cycle = (IF i < enqueue THEN pcs ELSE ~pcs)
  /\ event_ring_cycle = (IF enqueue >= event_ring_dequeue THEN pcs ELSE ~pcs)
  /\ IF acked THEN erdp = event_ring_dequeue
     ELSE /\ erdp = (IF event_ring_dequeue = 0 THEN EVENT_RING_TRBS - 1
                     ELSE event_ring_dequeue - 1)
          /\ enqueue # erdp

Queue == INSTANCE EventQueue WITH Capacity <- EVENT_RING_TRBS - 1,
                                  Nothing <- NoEvent,
                                  pending <- Pending, handled <- handled

(* The ring is a queue: poll_events handles the events in the order they   *)
(* were posted, none twice, none lost, none before it is written.          *)
ImplementsEventQueue == Queue!AbsSpec
=============================================================================
