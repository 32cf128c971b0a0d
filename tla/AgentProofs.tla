---------------------------- MODULE AgentProofs ----------------------------
(***************************************************************************)
(* What holds of the kernel with the agent for every RAM disk, every       *)
(* preset and every number of tasks: the two parsers agree, the agent's    *)
(* proposals pass the checks, and no task starves.                         *)
(***************************************************************************)
EXTENDS Agent, FiniteSetTheorems, WellFoundedInduction, TLAPS

(* A number below twice the modulus wraps at most once.                    *)
LEMMA WrapMod ==
  ASSUME NEW a \in Nat \ {0}, NEW x \in Nat, x < a + a
  PROVE  x % a = IF x < a THEN x ELSE x - a
OBVIOUS

(* Every non-empty set of natural numbers has a least element: induction,  *)
(* without an operator to instantiate.                                     *)
LEMMA LeastNumber ==
  ASSUME NEW T \in SUBSET Nat, T # {}
  PROVE  \E m \in T : \A k \in T : m <= k
<1> DEFINE Less == {p \in Nat \X Nat : p[1] < p[2]}
<1>1. IsWellFoundedOn(Less, Nat)
  BY NatLessThanWellFounded DEF OpToRel
<1>2. \A j, k \in Nat : j < k => <<j, k>> \in Less
  OBVIOUS
<1> HIDE DEF Less
<1>3. PICK m \in T : \A k \in T : ~(<<k, m>> \in Less)
  BY <1>1, WFMin
<1>4. \A k \in T : ~(k < m)
  BY <1>2, <1>3, Zenon
<1>5. QED
  BY <1>4

-----------------------------------------------------------------------------
(* The scheduler on its own.  The inductive invariant adds to the turns a  *)
(* task has missed the places the search has yet to cover before it        *)
(* reaches the task.                                                       *)

LEMMA LenType == LEN \in Nat /\ LEN >= 1 /\ LEN \in Nat \ {0}
BY TaskAssumption

(* The slot k places after NEXT_INDEX is a slot, at distance k.            *)
LEMMA SlotDistance ==
  ASSUME NEXT_INDEX \in Slots, NEW k \in 0 .. LEN
  PROVE  /\ Slot(k) \in Slots
         /\ Slot(k) = IF NEXT_INDEX + k < LEN THEN NEXT_INDEX + k
                      ELSE NEXT_INDEX + k - LEN
<1>1. PICK x : x = NEXT_INDEX + k
  OBVIOUS
<1>2. x \in Nat /\ x < LEN + LEN
  BY <1>1, LenType DEF Slots
<1>3. x % LEN = IF x < LEN THEN x ELSE x - LEN
  BY <1>2, LenType, WrapMod, Zenon
<1>4. Slot(k) = IF x < LEN THEN x ELSE x - LEN
  BY <1>1, <1>3, Zenon DEF Slot
<1>5. QED
  BY <1>1, <1>2, <1>4, LenType DEF Slots

(* A turn keeps the invariant: the search comes closer to every task that  *)
(* misses it.                                                              *)
LEMMA TurnStep ==
  ASSUME TaskInv, NEW k \in Slots, TASKS[Slot(k)] # None,
         \A j \in 0 .. k - 1 : TASKS[Slot(j)] = None, Turn(k), UNCHANGED TASKS
  PROVE  TaskInv'
<1>1. /\ LEN \in Nat /\ LEN >= 1 /\ NEXT_INDEX \in Nat /\ NEXT_INDEX < LEN
      /\ k \in Nat /\ k < LEN
  BY LenType DEF TaskInv, TypeOK, Slots
<1>2. NEXT_INDEX \in Slots
  BY DEF TaskInv, TypeOK
<1>3. PICK s \in Slots : s = Slot(k)
  BY <1>1, <1>2, SlotDistance
<1>4. s = IF NEXT_INDEX + k < LEN THEN NEXT_INDEX + k ELSE NEXT_INDEX + k - LEN
  BY <1>1, <1>2, <1>3, SlotDistance
<1>5. PICK n \in Slots : n = Slot(k + 1)
  BY <1>1, <1>2, SlotDistance
<1>6. n = IF NEXT_INDEX + k + 1 < LEN THEN NEXT_INDEX + k + 1
          ELSE NEXT_INDEX + k + 1 - LEN
  <2>1. k + 1 \in 0 .. LEN
    BY <1>1
  <2>2. n = IF NEXT_INDEX + (k + 1) < LEN THEN NEXT_INDEX + (k + 1)
            ELSE NEXT_INDEX + (k + 1) - LEN
    BY <1>2, <1>5, <2>1, SlotDistance, Zenon
  <2>3. QED
    BY <1>1, <2>2
<1>7. NEXT_INDEX' = n /\ running' = s
  BY <1>3, <1>5 DEF Turn
<1>8. missed \in [Slots -> Nat] /\ TASKS \in [Slots -> TaskFns \cup {None}]
  BY DEF TaskInv, TypeOK
<1>9. missed' = [i \in Slots |-> IF i = s \/ TASKS[i] = None THEN 0 ELSE missed[i] + 1]
  BY <1>3 DEF Turn
<1>10. TypeOK'
  BY <1>7, <1>8, <1>9 DEF TypeOK
<1>11. ASSUME NEW i \in Slots
       PROVE  IF TASKS[i] # None THEN missed'[i] + Distance(i)' <= LEN - 1
              ELSE missed'[i] = 0
  <2>1. CASE TASKS[i] = None
    BY <1>9, <2>1
  <2>2. CASE TASKS[i] # None /\ i = s
    <3>1. missed'[i] = 0 /\ i \in Nat /\ i < LEN
      BY <1>1, <1>9, <2>2 DEF Slots
    <3>2. Distance(i)' = LEN - 1
      BY <1>1, <1>4, <1>6, <1>7, <2>2 DEF Distance
    <3>3. QED
      BY <1>1, <2>2, <3>1, <3>2
  <2>3. CASE TASKS[i] # None /\ i # s
    <3>1. i \in Nat /\ i < LEN /\ missed[i] \in Nat
      BY <1>1, <1>8 DEF Slots
    <3>2. missed'[i] = missed[i] + 1 /\ missed[i] + Distance(i) <= LEN - 1
      BY <1>9, <2>3 DEF TaskInv
    <3>3. PICK d : d = Distance(i)
      OBVIOUS
    <3>4. d \in Nat /\ d < LEN
      BY <1>1, <3>1, <3>3 DEF Distance
    <3>5. i = Slot(d)
      <4>1. d \in 0 .. LEN
        BY <1>1, <3>4
      <4>2. Slot(d) = IF NEXT_INDEX + d < LEN THEN NEXT_INDEX + d
                      ELSE NEXT_INDEX + d - LEN
        BY <1>2, <4>1, SlotDistance
      <4>3. QED
        BY <1>1, <3>1, <3>3, <4>2 DEF Distance
    <3>6. d > k
      <4>1. ~(d < k)
        <5>1. ASSUME d < k PROVE FALSE
          <6>1. d \in 0 .. k - 1
            BY <1>1, <3>4, <5>1
          <6>2. QED
            BY <2>3, <3>5, <6>1
        <5>2. QED
          BY <5>1
      <4>2. d # k
        BY <1>3, <2>3, <3>5
      <4>3. QED
        BY <1>1, <3>4, <4>1, <4>2
    <3>7. Distance(i)' = d - k - 1
      BY <1>1, <1>6, <1>7, <3>1, <3>3, <3>6 DEF Distance
    <3>8. QED
      BY <1>1, <2>3, <3>1, <3>2, <3>3, <3>4, <3>6, <3>7
  <2>4. QED
    BY <2>1, <2>2, <2>3
<1>12. QED
  BY <1>10, <1>11 DEF TaskInv

(* The invariant of task.rs: NEXT_INDEX comes closer to whoever waits.     *)
THEOREM SchedulerInvariant == Spec => []TaskInv
<1>1. Init => TaskInv
  BY LenType DEF Init, TaskInv, TypeOK, Slots
<1>2. TaskInv /\ [Next]_vars => TaskInv'
  <2> SUFFICES ASSUME TaskInv, [Next]_vars PROVE TaskInv'
    OBVIOUS
  <2>1. ASSUME NEW f \in TaskFns, register(f) PROVE TaskInv'
    <3>1. CASE UNCHANGED TASKS
      BY <2>1, <3>1 DEF register, TaskInv, TypeOK, Distance
    <3>2. ASSUME NEW i \in Slots, TASKS[i] = None, TASKS' = [TASKS EXCEPT ![i] = f]
          PROVE  TaskInv'
      <4>1. /\ LEN \in Nat /\ NEXT_INDEX \in Nat /\ NEXT_INDEX < LEN
            /\ i \in Nat /\ i < LEN /\ missed[i] = 0
        BY <3>2, LenType DEF TaskInv, TypeOK, Slots
      <4>2. Distance(i) <= LEN - 1 /\ Distance(i) \in Nat
        BY <4>1 DEF Distance
      <4>3. missed[i] + Distance(i) <= LEN - 1
        BY <4>1, <4>2
      <4>4. UNCHANGED <<NEXT_INDEX, running, missed>>
        BY <2>1 DEF register
      <4>5. ASSUME NEW j \in Slots PROVE Distance(j)' = Distance(j)
        BY <4>4 DEF Distance
      <4>6. TypeOK'
        BY <3>2, <4>4 DEF TaskInv, TypeOK
      <4>7. ASSUME NEW j \in Slots
            PROVE  IF TASKS'[j] # None THEN missed'[j] + Distance(j)' <= LEN - 1
                   ELSE missed'[j] = 0
        <5>1. CASE j = i
          <6>1. TASKS'[i] # None
            BY <3>2, TaskAssumption DEF TaskInv, TypeOK, None
          <6>2. QED
            BY <4>3, <4>4, <4>5, <5>1, <6>1
        <5>2. CASE j # i
          BY <3>2, <4>4, <4>5, <5>2 DEF TaskInv, TypeOK
        <5>3. QED
          BY <5>1, <5>2
      <4>8. QED
        BY <4>6, <4>7 DEF TaskInv
    <3>3. QED
      BY <2>1, <3>1, <3>2 DEF register
  <2>2. CASE run_once
    <3>1. CASE UNCHANGED <<running, NEXT_INDEX, missed>>
      BY <2>2, <3>1 DEF run_once, TaskInv, TypeOK, Distance
    <3>2. QED
      BY <2>2, <3>1, TurnStep DEF run_once
  <2>3. CASE Return
    BY <2>3 DEF Return, TaskInv, TypeOK, Distance
  <2>4. CASE UNCHANGED vars
    BY <2>4 DEF vars, TaskInv, TypeOK, Distance
  <2>5. QED
    BY <2>1, <2>2, <2>3, <2>4 DEF Next
<1>3. QED
  BY <1>1, <1>2, PTL DEF Spec

(* No task of run_once waits for more than LEN - 1 turns of the others.    *)
THEOREM NoStarvation == Spec => []BoundedWaiting
<1>1. TaskInv => BoundedWaiting
  <2> SUFFICES ASSUME TaskInv, NEW i \in Registered PROVE missed[i] <= LEN - 1
    BY DEF BoundedWaiting
  <2>1. /\ i \in Slots /\ missed[i] \in Nat /\ missed[i] + Distance(i) <= LEN - 1
        /\ LEN \in Nat /\ NEXT_INDEX \in 0 .. LEN - 1
    BY LenType DEF TaskInv, TypeOK, Registered, Slots
  <2>2. Distance(i) \in Nat
    BY <2>1 DEF Distance, Slots
  <2>3. QED
    BY <2>1, <2>2
<1>2. QED
  BY <1>1, SchedulerInvariant, PTL

(* register never replaces a task, and nothing else writes TASKS.          *)
THEOREM NoTaskForgotten == Spec => RegistrationsKept
<1>1. TaskInv /\ [Next]_vars => [\A i \in Registered : TASKS'[i] = TASKS[i]]_vars
  BY DEF TaskInv, TypeOK, Next, register, run_once, Return, Registered
<1>2. QED
  BY <1>1, SchedulerInvariant, PTL DEF Spec, RegistrationsKept
-----------------------------------------------------------------------------
(* Offsets in the archive.                                                 *)
LEMMA AlignUp == ASSUME NEW n \in Nat PROVE Align4(n) \in Nat /\ Align4(n) >= n
BY DEF Align4

(* An entry's sizes are numbers, so are the offsets computed from them,    *)
(* and after data that is cut short there is no further entry.             *)
LEMMA EntryOffsets ==
  ASSUME NEW r \in Archives, NEW off \in Nat, HasEntry(r, off)
  PROVE  /\ DataOff(r, off) \in Nat /\ Following(r, off) \in Nat
         /\ ~IsWhole(r, off) => ~HasEntry(r, Following(r, off))
<1>1. r.len \in Nat /\ r.at[off] \in Headers
  BY InitrdAssumption DEF HasEntry
<1>2. r.at[off].namesize \in Nat /\ r.at[off].filesize \in Nat
  BY <1>1 DEF HasEntry, At, Headers
<1>3. PICK n \in Nat : n = off + HEADER + r.at[off].namesize
  BY <1>2 DEF HEADER
<1>4. DataOff(r, off) \in Nat
  BY <1>3, AlignUp DEF DataOff, At
<1>5. PICK e \in Nat : e = DataEnd(r, off)
  BY <1>2, <1>4 DEF DataEnd, At
<1>6. Following(r, off) \in Nat /\ Following(r, off) >= e
  BY <1>5, AlignUp DEF Following
<1>7. ASSUME ~IsWhole(r, off) PROVE ~HasEntry(r, Following(r, off))
  <2>1. e > r.len
    BY <1>1, <1>5, <1>7 DEF IsWhole
  <2>2. ~(Following(r, off) + HEADER <= r.len)
    BY <1>1, <1>6, <2>1 DEF HEADER
  <2>3. QED
    BY <2>2, Zenon DEF HasEntry
<1>8. QED
  BY <1>4, <1>6, <1>7

(* A walk that moves on leaves a trail.                                    *)
LEMMA TrailGrows ==
  ASSUME NEW r, NEW passed \in Seq(Nat), NEW off \in Nat, NEW next \in Nat,
         IsTrail(r, Trail(passed, off)), next = Following(r, off)
  PROVE  IsTrail(r, Trail(Append(passed, off), next))
<1> DEFINE old == Trail(passed, off)
           new == Trail(Append(passed, off), next)
           n == Len(passed)
<1>1. /\ n \in Nat /\ Len(old) = n + 1 /\ Len(new) = n + 2
      /\ \A i \in 1 .. n + 1 : new[i] = old[i]
      /\ new[n + 2] = next /\ old[n + 1] = off
  BY DEF Trail
<1> HIDE DEF old, new, n
<1>2. /\ old[1] = 0
      /\ \A i \in 1 .. n : old[i + 1] = Following(r, old[i])
  BY <1>1 DEF IsTrail, old
<1>3. new[1] = 0
  BY <1>1, <1>2
<1>4. ASSUME NEW i \in 1 .. n + 1 PROVE new[i + 1] = Following(r, new[i])
  <2>1. CASE i = n + 1
    BY <1>1, <2>1
  <2>2. CASE i # n + 1
    <3>1. i \in 1 .. n /\ i + 1 \in 1 .. n + 1
      BY <1>1, <2>2
    <3>2. QED
      BY <1>1, <1>2, <3>1
  <2>3. QED
    BY <2>1, <2>2
<1>5. QED
  BY <1>1, <1>3, <1>4 DEF IsTrail, new

(* Two trails that agree still do when one of them grows.                  *)
LEMMA TrailsAgree ==
  ASSUME NEW r, NEW a \in Seq(Nat), NEW x \in Nat, NEW b \in Seq(Nat), NEW y \in Nat,
         NEW next \in Nat, next = Following(r, x),
         IsTrail(r, Trail(b, y)), Agree(Trail(a, x), Trail(b, y))
  PROVE  /\ Agree(Trail(Append(a, x), next), Trail(b, y))
         /\ Agree(Trail(b, y), Trail(Append(a, x), next))
<1> DEFINE old == Trail(a, x)
           new == Trail(Append(a, x), next)
           other == Trail(b, y)
           n == Len(a)
           k == Len(b)
<1>1. /\ n \in Nat /\ k \in Nat /\ Len(other) = k + 1
      /\ Len(old) = n + 1 /\ Len(new) = n + 2
      /\ \A i \in 1 .. n + 1 : new[i] = old[i]
      /\ new[n + 2] = next /\ old[n + 1] = x
  BY DEF Trail
<1> HIDE DEF old, new, other
<1>2. \A i \in 1 .. k : other[i + 1] = Following(r, other[i])
  BY <1>1 DEF IsTrail, other
<1>3. \A i \in 1 .. n + 1 : i <= k + 1 => old[i] = other[i]
  BY <1>1 DEF Agree, old, other
<1>4. ASSUME NEW i \in 1 .. n + 2, i <= k + 1 PROVE new[i] = other[i]
  <2>1. CASE i = n + 2
    <3>1. n + 1 \in 1 .. k /\ n + 1 \in 1 .. n + 1 /\ (n + 1) + 1 = n + 2
      BY <1>1, <1>4, <2>1
    <3>2. other[n + 1] = x /\ other[(n + 1) + 1] = Following(r, other[n + 1])
      BY <1>1, <1>2, <1>3, <3>1
    <3>3. QED
      BY <1>1, <2>1, <3>1, <3>2
  <2>2. CASE i # n + 2
    <3>1. i \in 1 .. n + 1
      BY <1>1, <2>2
    <3>2. QED
      BY <1>1, <1>3, <1>4, <3>1
  <2>3. QED
    BY <2>1, <2>2
<1>5. Agree(new, other) /\ Agree(other, new)
  BY <1>1, <1>4 DEF Agree
<1>6. QED
  BY <1>5 DEF new, other

-----------------------------------------------------------------------------
(* The walks of cpio_find and for_each.                                    *)
LEMMA WalkInit == InitrdInit => WalkInv
<1> SUFFICES ASSUME InitrdInit PROVE WalkInv
  OBVIOUS
<1>1. /\ archive \in Archives /\ finder = NoFind /\ lister = NoList
      /\ <<>> \in Seq(Nat) /\ Len(<<>>) = 0
  BY DEF InitrdInit
<1>2. FinderInv
  BY <1>1 DEF FinderInv, NoFind, NoData
<1>3. ListerInv
  BY <1>1 DEF ListerInv, NoList, NoData, FirstOf
<1>4. /\ IsTrail(archive, Trail(finder.path, finder.off))
      /\ IsTrail(archive, Trail(lister.seen, lister.off))
  BY <1>1 DEF NoFind, NoList, IsTrail, Trail
<1>5. Agree(Trail(finder.path, finder.off), Trail(lister.seen, lister.off))
  BY <1>1 DEF NoFind, NoList, Agree
<1>6. QED
  BY <1>1, <1>2, <1>3, <1>4, <1>5 DEF WalkInv

(* cpio_find starts where it was: at the first header.                     *)
LEMMA FindStarts ==
  ASSUME WalkInv, NEW want \in Bases, cpio_find(want)
  PROVE  WalkInv'
<1>1. /\ archive' = archive /\ lister' = lister /\ finder = NoFind
      /\ finder' = [state |-> "walking", off |-> 0, path |-> <<>>, want |-> want,
                    found |-> NoData]
  BY Zenon DEF cpio_find, WalkInv, FinderInv, NoFind
<1>2. finder'.path = finder.path /\ finder'.off = finder.off
  BY <1>1 DEF NoFind
<1>3. FinderInv'
  BY <1>1 DEF FinderInv, NoData
<1>4. ListerInv'
  BY <1>1 DEF WalkInv, ListerInv
<1>5. QED
  BY <1>1, <1>2, <1>3, <1>4 DEF WalkInv

LEMMA FindFinishes ==
  ASSUME WalkInv, FindEnds \/ FindMatches
  PROVE  WalkInv'
<1>1. /\ archive' = archive /\ lister' = lister /\ archive \in Archives
      /\ finder.off \in Nat /\ FinderInv /\ finder.state = "walking"
  BY DEF FindEnds, FindMatches, WalkInv, FinderInv
<1>2. /\ finder'.path = finder.path /\ finder'.off = finder.off
      /\ finder'.want = finder.want /\ finder'.state = "done"
  BY Zenon DEF FindEnds, FindMatches, WalkInv, FinderInv
<1>3. FinderInv'
  <2>1. CASE FindEnds
    BY <1>1, <1>2, <2>1 DEF FindEnds, FinderInv
  <2>2. CASE FindMatches
    <3>1. DataOff(archive, finder.off) \in Nat
      BY <1>1, <2>2, EntryOffsets DEF FindMatches
    <3>2. QED
      BY <1>1, <1>2, <2>2, <3>1, Zenon DEF FindMatches, FinderInv
  <2>3. QED
    BY <2>1, <2>2
<1>4. ListerInv'
  BY <1>1 DEF WalkInv, ListerInv
<1>5. QED
  BY <1>1, <1>2, <1>3, <1>4 DEF WalkInv

LEMMA FindMovesOn ==
  ASSUME WalkInv, FindSkips
  PROVE  WalkInv'
<1> DEFINE next == Following(archive, finder.off)
<1>1. /\ archive' = archive /\ lister' = lister /\ archive \in Archives
      /\ finder.off \in Nat /\ finder.path \in Seq(Nat)
      /\ FinderInv /\ finder.state = "walking"
      /\ HasEntry(archive, finder.off) /\ ~Matches(archive, finder.off, finder.want)
  BY DEF FindSkips, WalkInv, FinderInv
<1>2. next \in Nat
  BY <1>1, EntryOffsets
<1>3. /\ finder' = [finder EXCEPT !.path = Append(finder.path, finder.off), !.off = next]
      /\ finder'.path = Append(finder.path, finder.off) /\ finder'.off = next
      /\ finder'.want = finder.want /\ finder'.state = "walking"
      /\ finder'.found = finder.found
  BY <1>1 DEF FindSkips, FinderInv
<1> HIDE DEF next
<1>4. FinderInv'
  <2>1. \A i \in 1 .. Len(finder'.path) :
          /\ HasEntry(archive, finder'.path[i])
          /\ ~Matches(archive, finder'.path[i], finder.want)
    BY <1>1, <1>3 DEF FinderInv
  <2>2. finder'.path \in Seq(Nat)
    BY <1>1, <1>3
  <2>3. QED
    BY <1>1, <1>2, <1>3, <2>1, <2>2, Zenon DEF FinderInv
<1>5. ListerInv'
  BY <1>1 DEF WalkInv, ListerInv
<1>6. lister.seen \in Seq(Nat) /\ lister.off \in Nat
  BY DEF WalkInv, ListerInv
<1>7. IsTrail(archive, Trail(finder'.path, finder'.off))
  BY <1>1, <1>2, <1>3, TrailGrows DEF WalkInv, next
<1>8. Agree(Trail(finder'.path, finder'.off), Trail(lister.seen, lister.off))
  <2>1. /\ IsTrail(archive, Trail(lister.seen, lister.off))
        /\ Agree(Trail(finder.path, finder.off), Trail(lister.seen, lister.off))
        /\ next = Following(archive, finder.off)
    BY DEF WalkInv, next
  <2>2. Agree(Trail(Append(finder.path, finder.off), next), Trail(lister.seen, lister.off))
    BY <1>1, <1>2, <1>6, <2>1, TrailsAgree
  <2>3. QED
    BY <1>3, <2>2
<1>9. QED
  BY <1>1, <1>3, <1>4, <1>5, <1>7, <1>8 DEF WalkInv

(* A listing that starts, or has been used, is at the first header.        *)
LEMMA ListStarts ==
  ASSUME WalkInv, (\E want \in Bases : for_each(want)) \/ Forget
  PROVE  WalkInv'
<1>1. PICK st \in {"idle", "walking"}, want \in Bases \cup {TRAILER} :
        lister' = [state |-> st, off |-> 0, seen |-> <<>>, want |-> want, out |-> NoData]
  <2>1. CASE Forget
    BY <2>1, Zenon DEF Forget, NoList
  <2>2. ASSUME NEW want \in Bases, for_each(want)
        PROVE  lister' = [state |-> "walking", off |-> 0, seen |-> <<>>, want |-> want,
                          out |-> NoData]
    BY <2>2, Zenon DEF for_each, NoList
  <2>3. QED
    BY <2>1, <2>2
<1>2. /\ archive' = archive /\ finder' = finder /\ archive \in Archives
      /\ lister'.seen = <<>> /\ lister'.off = 0 /\ ListerInv'
  <2>1. archive' = archive /\ finder' = finder /\ archive \in Archives
    BY Zenon DEF for_each, Forget, WalkInv
  <2>2. /\ <<>> \in Seq(Nat) /\ Len(<<>>) = 0
        /\ FirstOf(archive, <<>>, {Name(FALSE, want)}, NoData)
    BY DEF FirstOf
  <2>3. ListerInv'
    BY <1>1, <2>1, <2>2 DEF ListerInv, NoData
  <2>4. QED
    BY <1>1, <2>1, <2>3
<1>3. FinderInv'
  BY <1>2 DEF WalkInv, FinderInv
<1>4. IsTrail(archive, Trail(<<>>, 0))
  BY DEF IsTrail, Trail
<1>5. Trail(finder.path, finder.off)[1] = 0 /\ Trail(<<>>, 0)[1] = 0 /\ Len(<<>>) = 0
  BY DEF WalkInv, IsTrail, Trail
<1>6. Agree(Trail(finder.path, finder.off), Trail(<<>>, 0))
  <2>1. Len(Trail(<<>>, 0)) = 1
    BY DEF Trail
  <2>2. QED
    BY <1>5, <2>1 DEF Agree
<1>7. QED
  BY <1>2, <1>3, <1>4, <1>6 DEF WalkInv

LEMMA ListFinishes ==
  ASSUME WalkInv, ListEnds
  PROVE  WalkInv'
<1>1. /\ archive' = archive /\ finder' = finder /\ ListerInv
      /\ lister' = [lister EXCEPT !.state = "done"]
      /\ ~(HasEntry(archive, lister.off) /\ IsWhole(archive, lister.off))
  BY DEF ListEnds, WalkInv
<1>2. /\ lister'.seen = lister.seen /\ lister'.off = lister.off
      /\ lister'.want = lister.want /\ lister'.out = lister.out
  BY <1>1 DEF ListerInv
<1>3. ListerInv'
  BY <1>1, <1>2 DEF ListerInv
<1>4. FinderInv'
  BY <1>1 DEF WalkInv, FinderInv
<1>5. QED
  BY <1>1, <1>2, <1>3, <1>4 DEF WalkInv

(* The first entry of a name stays the first when the listing grows, and   *)
(* the closure of find takes a new one only when there is none yet.        *)
LEMMA FirstKept ==
  ASSUME NEW r, NEW seen \in Seq(Nat), NEW off \in Nat, NEW names, NEW data,
         FirstOf(r, seen, names, data),
         \A i \in 1 .. Len(seen) : DataOff(r, seen[i]) \in Nat
  PROVE  FirstOf(r, Append(seen, off), names,
                 IF data = NoData /\ At(r, off).name \in names THEN DataOff(r, off)
                 ELSE data)
<1> DEFINE n == Len(seen)
           new == Append(seen, off)
           name(i) == At(r, new[i]).name
<1>1. /\ n \in Nat /\ Len(new) = n + 1 /\ new[n + 1] = off
      /\ \A i \in 1 .. n : new[i] = seen[i]
  OBVIOUS
<1> HIDE DEF new, n
<1>2. CASE data = NoData /\ \A i \in 1 .. n : At(r, seen[i]).name \notin names
  <2>1. \A i \in 1 .. n : At(r, new[i]).name \notin names
    BY <1>1, <1>2
  <2>2. CASE At(r, off).name \in names
    <3>1. n + 1 \in 1 .. Len(new) /\ (n + 1) - 1 = n
      BY <1>1
    <3>2. FirstOf(r, new, names, DataOff(r, off))
      BY <1>1, <2>1, <2>2, <3>1 DEF FirstOf
    <3>3. QED
      BY <1>2, <2>2, <3>2 DEF new
  <2>3. CASE At(r, off).name \notin names
    <3>1. \A i \in 1 .. n + 1 : At(r, new[i]).name \notin names
      <4>1. \A i \in 1 .. n + 1 : i \in 1 .. n \/ i = n + 1
        BY <1>1
      <4>2. QED
        BY <1>1, <2>1, <2>3, <4>1
    <3>2. FirstOf(r, new, names, data)
      BY <1>1, <1>2, <3>1 DEF FirstOf
    <3>3. QED
      BY <2>3, <3>2 DEF new
  <2>4. QED
    BY <2>2, <2>3
<1>3. ASSUME NEW i \in 1 .. n, At(r, seen[i]).name \in names,
             \A j \in 1 .. i - 1 : At(r, seen[j]).name \notin names,
             data = DataOff(r, seen[i])
      PROVE  FirstOf(r, new, names, data) /\ data # NoData
  <2>1. data \in Nat
    BY <1>3 DEF n
  <2>2. i \in 1 .. n + 1 /\ new[i] = seen[i]
    BY <1>1
  <2>3. \A j \in 1 .. i - 1 : new[j] = seen[j]
    BY <1>1
  <2>4. FirstOf(r, new, names, data)
    BY <1>1, <1>3, <2>2, <2>3 DEF FirstOf
  <2>5. QED
    BY <2>1, <2>4 DEF NoData
<1>4. QED
  BY <1>2, <1>3, Zenon DEF FirstOf, new, n

LEMMA ListMovesOn ==
  ASSUME WalkInv, ListEntry
  PROVE  WalkInv'
<1> DEFINE next == Following(archive, lister.off)
           names == {Name(FALSE, lister.want)}
           out == IF lister.out = NoData /\ At(archive, lister.off).name \in names
                  THEN DataOff(archive, lister.off) ELSE lister.out
<1>1. /\ archive' = archive /\ finder' = finder /\ archive \in Archives
      /\ lister.off \in Nat /\ lister.seen \in Seq(Nat)
      /\ ListerInv /\ lister.state = "walking"
      /\ HasEntry(archive, lister.off) /\ IsWhole(archive, lister.off)
  BY DEF ListEntry, WalkInv, ListerInv
<1>2. next \in Nat /\ DataOff(archive, lister.off) \in Nat
  BY <1>1, EntryOffsets
<1>3. lister' = [lister EXCEPT !.seen = Append(lister.seen, lister.off), !.out = out,
                               !.off = next]
  BY Zenon DEF ListEntry
<1> HIDE DEF next, out
<1>4. /\ lister'.seen = Append(lister.seen, lister.off) /\ lister'.off = next
      /\ lister'.want = lister.want /\ lister'.state = "walking" /\ lister'.out = out
  BY <1>1, <1>3 DEF ListerInv
<1>5. ListerInv'
  <2>1. \A i \in 1 .. Len(lister.seen) : DataOff(archive, lister.seen[i]) \in Nat
    BY <1>1, EntryOffsets DEF ListerInv
  <2>2. FirstOf(archive, lister.seen, names, lister.out)
    BY <1>1 DEF ListerInv
  <2>3. FirstOf(archive, Append(lister.seen, lister.off), names, out)
    BY <1>1, <2>1, <2>2, FirstKept, Zenon DEF out
  <2>4. \A i \in 1 .. Len(lister'.seen) :
          HasEntry(archive, lister'.seen[i]) /\ IsWhole(archive, lister'.seen[i])
    BY <1>1, <1>4 DEF ListerInv
  <2>5. lister'.seen \in Seq(Nat) /\ out \in Nat \cup {NoData}
    <3>1. lister'.seen \in Seq(Nat)
      BY <1>1, <1>4
    <3>2. lister.out \in Nat \cup {NoData}
      BY <1>1 DEF ListerInv
    <3>3. QED
      BY <1>2, <3>1, <3>2, Zenon DEF out
  <2>6. QED
    BY <1>1, <1>2, <1>3, <1>4, <2>3, <2>4, <2>5, Zenon DEF ListerInv
<1>6. FinderInv'
  BY <1>1 DEF WalkInv, FinderInv
<1>7. finder.path \in Seq(Nat) /\ finder.off \in Nat
  BY DEF WalkInv, FinderInv
<1>8. IsTrail(archive, Trail(lister'.seen, lister'.off))
  BY <1>1, <1>2, <1>4, TrailGrows DEF WalkInv, next
<1>9. Agree(Trail(finder.path, finder.off), Trail(lister'.seen, lister'.off))
  <2>1. /\ IsTrail(archive, Trail(finder.path, finder.off))
        /\ Agree(Trail(finder.path, finder.off), Trail(lister.seen, lister.off))
        /\ next = Following(archive, lister.off)
    BY DEF WalkInv, next
  <2>2. Agree(Trail(lister.seen, lister.off), Trail(finder.path, finder.off))
    <3>1. /\ Len(Trail(lister.seen, lister.off)) \in Nat
          /\ Len(Trail(finder.path, finder.off)) \in Nat
      BY <1>1, <1>7 DEF Trail
    <3>2. QED
      BY <2>1, <3>1 DEF Agree
  <2>3. Agree(Trail(finder.path, finder.off), Trail(Append(lister.seen, lister.off), next))
    BY <1>1, <1>2, <1>7, <2>1, <2>2, TrailsAgree, Zenon
  <2>4. QED
    BY <1>4, <2>3
<1>10. QED
  BY <1>1, <1>5, <1>6, <1>8, <1>9 DEF WalkInv

LEMMA WalkStep == WalkInv /\ [InitrdNext]_initrdVars => WalkInv'
<1> SUFFICES ASSUME WalkInv, [InitrdNext]_initrdVars PROVE WalkInv'
  OBVIOUS
<1>1. CASE UNCHANGED initrdVars
  BY <1>1, Zenon DEF initrdVars, WalkInv, FinderInv, ListerInv
<1>2. CASE FindStep
  BY <1>2, FindFinishes, FindMovesOn DEF FindStep
<1>3. CASE ListStep
  BY <1>3, ListFinishes, ListMovesOn DEF ListStep
<1>4. QED
  BY <1>1, <1>2, <1>3, FindStarts, ListStarts DEF InitrdNext

(* Where the walks have ended, they ended at the same entry, or for_each   *)
(* at one whose data is cut short and cpio_find right after it.            *)
LEMMA SameEnd == WalkInv => WalksAgree
<1> SUFFICES ASSUME WalkInv, lister.state = "done", finder.state = "done"
             PROVE  FirstOf(archive, lister.seen, Aliases(finder.want), finder.found)
  BY Zenon DEF WalkInv, ListerInv, WalksAgree
<1> DEFINE n == Len(finder.path)
           k == Len(lister.seen)
           f == Trail(finder.path, finder.off)
           l == Trail(lister.seen, lister.off)
<1>1. /\ archive \in Archives /\ finder.off \in Nat /\ lister.off \in Nat
      /\ finder.path \in Seq(Nat) /\ lister.seen \in Seq(Nat)
  BY DEF WalkInv, FinderInv, ListerInv
<1>2. /\ n \in Nat /\ k \in Nat /\ Len(f) = n + 1 /\ Len(l) = k + 1
      /\ f[n + 1] = finder.off /\ l[k + 1] = lister.off
      /\ \A i \in 1 .. n : f[i] = finder.path[i]
      /\ \A i \in 1 .. k : l[i] = lister.seen[i]
  BY <1>1 DEF Trail
<1>3. /\ Agree(f, l) /\ IsTrail(archive, f)
      /\ \A i \in 1 .. n : HasEntry(archive, finder.path[i])
                            /\ ~Matches(archive, finder.path[i], finder.want)
      /\ \A i \in 1 .. k : HasEntry(archive, lister.seen[i])
                            /\ IsWhole(archive, lister.seen[i])
      /\ ~(HasEntry(archive, lister.off) /\ IsWhole(archive, lister.off))
      /\ HasEntry(archive, finder.off) => Matches(archive, finder.off, finder.want)
      /\ finder.found = IF HasEntry(archive, finder.off) /\ IsWhole(archive, finder.off)
                        THEN DataOff(archive, finder.off) ELSE NoData
  BY DEF WalkInv, FinderInv, ListerInv
<1> HIDE DEF n, k, f, l
<1>4. \A i \in 1 .. n : i <= k => lister.seen[i] = finder.path[i]
  BY <1>2, <1>3 DEF Agree
<1>5. CASE k > n
  <2>1. n + 1 \in 1 .. k /\ n + 1 \in 1 .. n + 1 /\ n + 1 <= k + 1 /\ (n + 1) - 1 = n
    BY <1>2, <1>5
  <2>2. lister.seen[n + 1] = finder.off
    BY <1>2, <1>3, <2>1 DEF Agree
  <2>3. /\ Matches(archive, lister.seen[n + 1], finder.want)
        /\ finder.found = DataOff(archive, lister.seen[n + 1])
    BY <1>3, <2>1, <2>2
  <2>4. \A j \in 1 .. n : ~Matches(archive, lister.seen[j], finder.want)
    BY <1>2, <1>3, <1>4, <1>5
  <2>5. QED
    BY <2>1, <2>3, <2>4 DEF FirstOf, Matches, k
<1>6. CASE k <= n
  <2>1. ASSUME NEW j \in 1 .. k PROVE ~Matches(archive, lister.seen[j], finder.want)
    <3>1. j \in 1 .. n /\ j <= k
      BY <1>2, <1>6
    <3>2. lister.seen[j] = finder.path[j]
      BY <1>4, <3>1
    <3>3. QED
      BY <1>3, <3>1, <3>2
  <2>2. k + 1 \in 1 .. n + 1 /\ f[k + 1] = lister.off
    BY <1>2, <1>3, <1>6 DEF Agree
  <2>3. finder.found = NoData
    <3>1. CASE k = n
      BY <1>2, <1>3, <2>2, <3>1
    <3>2. CASE k < n
      <4>1. k + 1 \in 1 .. n /\ k + 1 \in 1 .. Len(f) - 1 /\ (k + 1) + 1 = k + 2
        BY <1>2, <3>2
      <4>2. HasEntry(archive, lister.off) /\ ~IsWhole(archive, lister.off)
        BY <1>2, <1>3, <2>2, <4>1
      <4>3. f[k + 2] = Following(archive, lister.off)
        BY <1>3, <2>2, <4>1 DEF IsTrail
      <4>4. ~HasEntry(archive, f[k + 2])
        BY <1>1, <4>2, <4>3, EntryOffsets
      <4>5. ~(k + 2 \in 1 .. n)
        BY <1>2, <1>3, <4>4
      <4>6. k + 2 = n + 1
        BY <1>2, <3>2, <4>5
      <4>7. QED
        BY <1>2, <1>3, <4>4, <4>6
    <3>3. QED
      BY <1>2, <1>6, <3>1, <3>2
  <2>4. QED
    BY <2>1, <2>3 DEF FirstOf, Matches, k
<1>7. QED
  BY <1>2, <1>5, <1>6

(* The archive is only read, by the walks that kernel_main and the shell   *)
(* make.                                                                   *)
LEMMA AgentWalks == [AgentNext]_allVars => [InitrdNext]_initrdVars
<1> SUFFICES ASSUME [AgentNext]_allVars PROVE [InitrdNext]_initrdVars
  OBVIOUS
<1>1. CASE locate
  BY <1>1, AgentAssumption DEF locate, InitrdNext
<1>2. CASE find
  BY <1>2 DEF find, InitrdNext
<1>3. CASE read_file
  BY <1>3 DEF read_file, InitrdNext
<1>4. CASE read_step
  BY <1>4 DEF read_step, InitrdNext
<1>5. CASE set_model \/ early \/ pmm_init \/ enable \/ set_system_ready \/ turn
  BY <1>5 DEF set_model, early, pmm_init, enable, set_system_ready, turn
<1>6. CASE Task \/ register_other
  BY <1>6 DEF Task, propose, settle, other_task, register_other
<1>7. CASE pci \/ yield \/ sleep \/ sleep_check \/ shell_done \/ timer \/ other_interrupt
  BY <1>7 DEF pci, yield, sleep, sleep_check, shell_done, timer, other_interrupt
<1>8. CASE UNCHANGED allVars
  BY <1>8 DEF allVars
<1>9. QED
  BY <1>1, <1>2, <1>3, <1>4, <1>5, <1>6, <1>7, <1>8 DEF AgentNext, Thread, Boot, Command

LEMMA AgentWalkInv == AgentSpec => []WalkInv
<1>1. AgentInit => WalkInv
  BY WalkInit DEF AgentInit
<1>2. WalkInv /\ [AgentNext]_allVars => WalkInv'
  BY AgentWalks, WalkStep
<1>3. QED
  BY <1>1, <1>2, PTL DEF AgentSpec

(* cpio_find and ramfs agree on every archive, well formed or not.         *)
THEOREM ParsersAgree == AgentSpec => []WalksAgree
BY AgentWalkInv, SameEnd, PTL

(* The kernel uses the scheduler as task.rs offers it.                     *)
THEOREM AgentUsesScheduler == AgentSpec => Spec
<1>1. AgentInit => Init
  BY DEF AgentInit
<1>2. [AgentNext]_allVars => [Next]_vars
  <2> SUFFICES ASSUME [AgentNext]_allVars PROVE [Next]_vars
    OBVIOUS
  <2>1. CASE early
    BY <2>1, AgentAssumption DEF early, taskVars, Next
  <2>2. CASE turn
    BY <2>2 DEF turn, Next
  <2>3. CASE settle \/ other_task
    BY <2>3 DEF settle, other_task, Next
  <2>4. CASE register_other
    BY <2>4 DEF register_other, Next
  <2>5. CASE locate \/ find \/ set_model \/ pmm_init \/ enable \/ set_system_ready
    BY <2>5 DEF locate, find, set_model, pmm_init, enable, set_system_ready, taskVars
  <2>6. CASE propose \/ Command \/ read_step
    BY <2>6 DEF propose, Command, read_file, pci, yield, sleep, read_step, taskVars
  <2>7. CASE sleep_check \/ shell_done \/ timer \/ other_interrupt
    BY <2>7 DEF sleep_check, shell_done, timer, other_interrupt, taskVars
  <2>8. CASE UNCHANGED allVars
    BY <2>8 DEF allVars, taskVars
  <2>9. QED
    BY <2>1, <2>2, <2>3, <2>4, <2>5, <2>6, <2>7, <2>8 DEF AgentNext, Thread, Boot, Task
<1>3. QED
  BY <1>1, <1>2, PTL DEF AgentSpec, Spec

(* So the agent waits for at most LEN - 1 turns of other tasks.            *)
THEOREM AgentNotStarved == AgentSpec => []BoundedWaiting
BY AgentUsesScheduler, NoStarvation

(* And no task, the agent's step included, loses its slot.                 *)
THEOREM AgentStaysRegistered == AgentSpec => RegistrationsKept
BY AgentUsesScheduler, NoTaskForgotten
-----------------------------------------------------------------------------
(* The agent's proposals.                                                  *)
Stages == {"locate", "finding", "early", "pmm", "ready", "reading", "sleep", "first", "idt",
           "syscall", "pic", "usb", "tasks", "enable", "shell", "hlt", "asleep", "yield"}

Admissible(act) == is_allowed(act.kind) /\ validate_params(act) /\ act.param1 \in Nat

ProposalInv ==
  /\ stage \in Stages
  /\ interrupts \in BOOLEAN /\ SYSTEM_READY \in BOOLEAN
  /\ AI_MODEL_ADDR \in Nat \cup {NoData} /\ AI_MODEL_LEN \in Nat
  /\ AGENT_STATE \in ModelHeaders \cup {NoState}
  /\ \/ action = NoAction
     \/ action \in [kind : {"SetQuantum", "TrimCache"}, param1 : Nat] /\ Admissible(action)
  /\ result \in {Ok, NotAllowed, SelfTestFailed}
  /\ free_kb \in FreeKbs /\ elapsed \in 0 .. MaxElapsed /\ remaining \in Nat

LEMMA StagesListed ==
  /\ Stages = {"locate", "finding", "early", "pmm", "ready", "reading", "sleep"}
                \cup DOMAIN AfterTurn \cup {AfterTurn[s] : s \in DOMAIN AfterTurn}
                \cup DOMAIN Wakes
  /\ \A s \in DOMAIN AfterTurn : AfterTurn[s] \in Stages
  /\ \A s \in DOMAIN Wakes : Wakes[s] \in Stages
<1>1. DOMAIN AfterTurn = {"first", "idt", "syscall", "pic", "usb", "tasks"}
  BY DEF AfterTurn
<1>2. DOMAIN Wakes = {"hlt", "asleep", "yield"}
  BY DEF Wakes
<1>3. /\ AfterTurn["first"] = "idt" /\ AfterTurn["idt"] = "syscall"
      /\ AfterTurn["syscall"] = "pic" /\ AfterTurn["pic"] = "pmm"
      /\ AfterTurn["usb"] = "enable" /\ AfterTurn["tasks"] = "shell"
  BY DEF AfterTurn
<1>4. Wakes["hlt"] = "tasks" /\ Wakes["asleep"] = "sleep" /\ Wakes["yield"] = "shell"
  BY DEF Wakes
<1>5. {AfterTurn[s] : s \in DOMAIN AfterTurn} = {"idt", "syscall", "pic", "pmm", "enable", "shell"}
  BY <1>1, <1>3
<1>6. QED
  BY <1>1, <1>2, <1>3, <1>4, <1>5 DEF Stages

(* What cpio_find returns is inside the archive.                           *)
LEMMA FoundInside ==
  ASSUME WalkInv, finder.found # NoData
  PROVE  finder.found \in Nat /\ archive.len - finder.found \in Nat
<1>1. /\ archive \in Archives /\ finder.off \in Nat
      /\ HasEntry(archive, finder.off) /\ IsWhole(archive, finder.off)
      /\ finder.found = DataOff(archive, finder.off)
  BY Zenon DEF WalkInv, FinderInv
<1>2. archive.len \in Nat /\ archive.at[finder.off] \in Headers
  BY <1>1, InitrdAssumption DEF HasEntry
<1>3. archive.at[finder.off].filesize \in Nat
  BY <1>1, <1>2 DEF HasEntry, At, Headers
<1>4. DataOff(archive, finder.off) \in Nat
  BY <1>1, EntryOffsets
<1>5. QED
  BY <1>1, <1>2, <1>3, <1>4 DEF IsWhole, DataEnd, At

(* Every score is a number, and every proposal made of it admissible.      *)
LEMMA ScoresAreNumbers ==
  ASSUME ProposalInv, TypeOK, NEW h, NEW rate \in Nat, NEW s \in Scores(h, rate)
  PROVE  s \in Int
<1>1. runqueue_len \in Nat
  <2>1. Slots = 0 .. LEN - 1 /\ LEN - 1 \in Int
    BY LenType DEF Slots
  <2>2. IsFiniteSet(Slots)
    BY <2>1, FS_Interval
  <2>3. IsFiniteSet(Registered)
    BY <2>2, FS_Subset DEF Registered
  <2>4. QED
    BY <2>3, FS_CardinalityType DEF runqueue_len
<1>2. free_kb \in Nat /\ Neurons \subseteq Int
  BY AgentAssumption DEF ProposalInv
<1>3. PICK x \in Int : x = runqueue_len + rate \div 2 - (free_kb \div 1024) \div 8
  BY <1>1, <1>2
<1>4. Clamp(-127, x, 127) \in Int /\ Least(runqueue_len, 127) \in Int
  BY <1>1 DEF Clamp, Least
<1>5. \/ s = Clamp(-127, x, 127)
      \/ s = Least(runqueue_len, 127)
      \/ s \in Neurons
  <2>1. CASE ~has_weights(h)
    BY <1>3, <2>1, SMT DEF Scores
  <2>2. CASE has_weights(h) /\ Computed(h) = {}
    BY <2>2, SMT DEF Scores
  <2>3. CASE has_weights(h) /\ Computed(h) # {}
    BY <2>3, Zenon DEF Scores
  <2>4. QED
    BY <2>1, <2>2, <2>3, Zenon
<1>6. QED
  BY <1>2, <1>4, <1>5, Zenon

LEMMA ProposalsAdmissible ==
  ASSUME ProposalInv, TypeOK, NEW h, NEW rate \in Nat, NEW act \in infer_and_propose(h, rate)
  PROVE  act \in [kind : {"SetQuantum", "TrimCache"}, param1 : Nat] /\ Admissible(act)
<1>1. CASE act = [kind |-> "TrimCache", param1 |-> TRIM_BYTES]
  <2>1. TRIM_BYTES \in 1 .. TrimLimit /\ TRIM_BYTES \in Nat
    BY AgentAssumption
  <2>2. QED
    BY <1>1, <2>1 DEF Admissible, is_allowed, validate_params
<1>2. ASSUME NEW s \in Scores(h, rate), act = [kind |-> "SetQuantum", param1 |-> Quantum(s)]
      PROVE  act \in [kind : {"SetQuantum", "TrimCache"}, param1 : Nat] /\ Admissible(act)
  <2>1. s \in Int
    BY ScoresAreNumbers
  <2>2. PICK q \in Int : q = QUANTUM_BASE_US + s * QUANTUM_SCALE
    BY <2>1, AgentAssumption
  <2>3. /\ Quantum(s) \in Nat
        /\ MinQuantum <= Quantum(s) /\ Quantum(s) <= MaxQuantum
    BY <2>2 DEF Quantum, Clamp, Least, MinQuantum, MaxQuantum
  <2>4. U32 \in Nat \ {0} /\ MaxQuantum \in Nat /\ MinQuantum \in Nat /\ MaxQuantum < U32
    BY AgentAssumption DEF MinQuantum, MaxQuantum
  <2>5. PICK n \in Nat : n = Quantum(s)
    BY <2>3
  <2>6. AsU32(n) = n
    BY <2>3, <2>4, <2>5 DEF AsU32
  <2>7. AsU32(n) \in Quanta
    BY <2>3, <2>4, <2>5, <2>6 DEF Quanta
  <2>8. QED
    BY <1>2, <2>5, <2>7 DEF Admissible, is_allowed, validate_params
<1>3. QED
  BY <1>1, <1>2 DEF infer_and_propose

LEMMA ProposalInit == AgentInit => ProposalInv
<1> SUFFICES ASSUME AgentInit PROVE ProposalInv
  OBVIOUS
<1>1. stage \in Stages /\ free_kb \in FreeKbs /\ elapsed \in 0 .. MaxElapsed
  BY AgentAssumption DEF AgentInit, Stages
<1>2. QED
  BY <1>1, Zenon DEF AgentInit, ProposalInv

(* The agent's own steps.                                                  *)
LEMMA ProposeStep ==
  ASSUME ProposalInv, TypeOK, WalkInv, propose
  PROVE  ProposalInv'
<1>1. \A rate \in Rates : rate \in Nat
  BY AgentAssumption DEF Rates, ProposalInv
<1>2. PICK rate \in Rates : action' \in infer_and_propose(archive.model, rate)
  BY DEF propose
<1>3. /\ action' \in [kind : {"SetQuantum", "TrimCache"}, param1 : Nat]
      /\ Admissible(action')
  BY <1>1, <1>2, ProposalsAdmissible
<1>4. AGENT_STATE' \in ModelHeaders
  BY AgentAssumption DEF propose, WalkInv
<1>5. elapsed' \in 0 .. MaxElapsed
  BY AgentAssumption DEF propose
<1>6. UNCHANGED <<stage, bootVars, modelVars, result, remaining, free_kb>>
  BY DEF propose
<1>7. QED
  BY <1>3, <1>4, <1>5, <1>6 DEF ProposalInv, bootVars, modelVars

LEMMA ProposalStep ==
  ASSUME ProposalInv, TypeOK, WalkInv, [AgentNext]_allVars
  PROVE  ProposalInv'
<1> USE DEF bootVars, modelVars, agentVars, clockVars
<1>1. CASE locate \/ find \/ early
  <2>1. stage' \in Stages
    BY <1>1 DEF locate, find, early, Goto, Stages, ProposalInv
  <2>2. QED
    BY <1>1, <2>1 DEF locate, find, early, ProposalInv
<1>2. CASE set_model
  <2>1. AI_MODEL_ADDR' \in Nat \cup {NoData} /\ AI_MODEL_LEN' \in Nat
    BY <1>2, FoundInside DEF set_model, ProposalInv
  <2>2. stage' \in Stages
    BY <1>2 DEF set_model, Goto, Stages
  <2>3. QED
    BY <1>2, <2>1, <2>2 DEF set_model, ProposalInv
<1>3. CASE turn
  <2>1. stage' \in Stages
    BY <1>3, StagesListed DEF turn, Goto
  <2>2. QED
    BY <1>3, <2>1 DEF turn, ProposalInv
<1>4. CASE pmm_init \/ enable \/ set_system_ready
  <2>1. stage' \in Stages
    BY <1>4 DEF pmm_init, enable, set_system_ready, Goto, Stages
  <2>2. QED
    BY <1>4, <2>1, Zenon DEF pmm_init, enable, set_system_ready, ProposalInv
<1>5. CASE propose
  BY <1>5, ProposeStep
<1>6. CASE settle
  BY <1>6 DEF settle, ProposalInv
<1>7. CASE other_task \/ register_other
  BY <1>7 DEF other_task, register_other, ProposalInv
<1>8. CASE read_file \/ read_step \/ yield \/ sleep_check \/ shell_done
  <2>1. stage' \in Stages
    BY <1>8 DEF read_file, read_step, yield, sleep_check, shell_done, Goto, Stages, ProposalInv
  <2>2. QED
    BY <1>8, <2>1 DEF read_file, read_step, yield, sleep_check, shell_done, ProposalInv
<1>9. CASE pci \/ sleep
  <2>1. stage' \in Stages
    BY <1>9 DEF pci, sleep, Goto, Stages, ProposalInv
  <2>2. free_kb' \in FreeKbs
    BY <1>9 DEF pci, sleep, ProposalInv
  <2>3. remaining' \in Nat
    <3>1. Sleeps \subseteq Nat
      BY AgentAssumption
    <3>2. CASE pci
      BY <3>2 DEF pci, ProposalInv
    <3>3. CASE sleep
      BY <3>1, <3>3 DEF sleep
    <3>4. QED
      BY <1>9, <3>2, <3>3
  <2>4. QED
    BY <1>9, <2>1, <2>2, <2>3 DEF pci, sleep, ProposalInv
<1>10. CASE timer \/ other_interrupt
  <2>1. stage' \in Stages
    BY <1>10, StagesListed DEF timer, other_interrupt, Wake, ProposalInv
  <2>2. elapsed' \in 0 .. MaxElapsed /\ remaining' \in Nat
    BY <1>10, AgentAssumption DEF timer, other_interrupt, Least, ProposalInv
  <2>3. QED
    BY <1>10, <2>1, <2>2 DEF timer, other_interrupt, ProposalInv
<1>11. CASE UNCHANGED allVars
  BY <1>11 DEF allVars, ProposalInv
<1>12. QED
  BY <1>1, <1>2, <1>3, <1>4, <1>5, <1>6, <1>7, <1>8, <1>9, <1>10, <1>11
     DEF AgentNext, Thread, Boot, Task, Command

LEMMA AgentTaskInv == AgentSpec => []TaskInv
BY AgentUsesScheduler, SchedulerInvariant

(* The invariant of the agent: what it is proposing would be accepted.     *)
THEOREM ProposalInvariant == AgentSpec => []ProposalInv
<1>1. AgentInit => ProposalInv
  BY ProposalInit
<1>2. ProposalInv /\ TaskInv /\ WalkInv /\ [AgentNext]_allVars => ProposalInv'
  BY ProposalStep DEF TaskInv
<1>3. QED
  BY <1>1, <1>2, AgentTaskInv, AgentWalkInv, PTL DEF AgentSpec

(* Every variable of kernel_main and the agent keeps its type, and the     *)
(* length of the model, a difference, is never negative.                   *)
THEOREM AgentTypeCorrect == AgentSpec => []AgentTypeOK
<1>1. ProposalInv /\ TaskInv => AgentTypeOK
  BY StagesListed DEF ProposalInv, TaskInv, AgentTypeOK
<1>2. QED
  BY <1>1, ProposalInvariant, AgentTaskInv, PTL

(* apply_action_atomic never refuses a proposal of infer_and_propose once  *)
(* the system is ready, whatever the preset, the model and the telemetry.  *)
THEOREM ProposalsAccepted == AgentSpec => AgentNeverRefused
<1>1. /\ ProposalInv
      /\ [AgentNext]_allVars
      => [SYSTEM_READY /\ action # NoAction /\ action' = NoAction => result' # NotAllowed]_allVars
  <2> SUFFICES ASSUME ProposalInv, AgentNext, SYSTEM_READY, action # NoAction,
                      action' = NoAction
               PROVE  result' # NotAllowed
    OBVIOUS
  <2>1. CASE settle
    BY <2>1 DEF settle, ProposalInv, Admissible, Ok, NotAllowed, SelfTestFailed
  <2>2. CASE propose
    BY <2>2 DEF propose
  <2>3. CASE Boot \/ turn \/ read_step \/ sleep_check \/ Command \/ other_task
    BY <2>3, Zenon DEF Boot, locate, find, set_model, early, pmm_init, enable, set_system_ready, turn,
       read_step, sleep_check, Command, read_file, pci, yield, sleep, other_task, agentVars
  <2>4. CASE shell_done \/ register_other \/ timer \/ other_interrupt
    BY <2>4 DEF shell_done, register_other, timer, other_interrupt, agentVars
  <2>5. QED
    BY <2>1, <2>2, <2>3, <2>4 DEF AgentNext, Thread, Task
<1>2. QED
  BY <1>1, ProposalInvariant, PTL DEF AgentSpec, AgentNeverRefused
-----------------------------------------------------------------------------
(* The weights.                                                            *)

LEMMA BytesOfLayer ==
  ASSUME NEW h \in ModelHeaders, NEW l \in Int
  PROVE  /\ WeightBytes(h, l) \in Nat /\ BiasBytes(h, l) \in Nat
         /\ LayerBytes(h, l) = WeightBytes(h, l) + BiasBytes(h, l)
<1>1. in_dim(h, l) \in Nat /\ out_dim(h, l) \in Nat
  BY DEF ModelHeaders, in_dim, out_dim, last_out
<1>2. QED
  BY <1>1 DEF WeightBytes, BiasBytes, LayerBytes

(* The recursion that defines Offsets has a solution, by induction on the  *)
(* number of layers it is cut off at.                                      *)
LEMMA OffsetsAre ==
  ASSUME NEW h \in ModelHeaders
  PROVE  /\ Offsets(h)[0] = 0
         /\ \A l \in 1 .. h.n_layers :
              Offsets(h)[l] = Offsets(h)[l - 1] + LayerBytes(h, l - 1)
<1> DEFINE n == h.n_layers
           Solves(g, k) == g = [l \in 0 .. k |->
                                  IF l = 0 THEN 0 ELSE g[l - 1] + LayerBytes(h, l - 1)]
           T == {k \in 0 .. n : ~ \E g : Solves(g, k)}
<1>1. n \in Nat
  BY DEF ModelHeaders
<1>2. T = {}
  <2> SUFFICES ASSUME T # {} PROVE FALSE
    OBVIOUS
  <2>1. PICK m \in T : \A k \in T : m <= k
    <3>1. T \in SUBSET Nat
      BY <1>1
    <3>2. QED
      BY <3>1, LeastNumber
  <2>2. CASE m = 0
    <3> DEFINE g == [l \in 0 .. 0 |-> 0]
    <3>1. Solves(g, 0)
      OBVIOUS
    <3>2. QED
      BY <2>1, <2>2, <3>1
  <2>3. CASE m # 0
    <3>1. m - 1 \in 0 .. n /\ m - 1 \notin T /\ m \in Nat \ {0}
      BY <1>1, <2>1, <2>3
    <3>2. PICK g : Solves(g, m - 1)
      BY <3>1
    <3> DEFINE f == [l \in 0 .. m |-> IF l = m THEN g[m - 1] + LayerBytes(h, m - 1) ELSE g[l]]
    <3>3. \A l \in 0 .. m : f[l] = IF l = 0 THEN 0 ELSE f[l - 1] + LayerBytes(h, l - 1)
      <4> SUFFICES ASSUME NEW l \in 0 .. m
                   PROVE  f[l] = IF l = 0 THEN 0 ELSE f[l - 1] + LayerBytes(h, l - 1)
        OBVIOUS
      <4>1. CASE l = m
        BY <3>1, <4>1
      <4>2. CASE l # m
        BY <3>1, <3>2, <4>2
      <4>3. QED
        BY <4>1, <4>2
    <3>4. Solves(f, m)
      BY <3>3
    <3>5. QED
      BY <2>1, <3>4
  <2>4. QED
    BY <2>2, <2>3
<1>3. \E g : Solves(g, n)
  BY <1>1, <1>2
<1>4. Offsets(h) = CHOOSE g : Solves(g, n)
  BY DEF Offsets
<1>5. Solves(Offsets(h), n)
  BY <1>3, <1>4, Zenon
<1>6. QED
  BY <1>1, <1>5

(* No layer starts before an earlier one.                                  *)
LEMMA OffsetsGrow ==
  ASSUME NEW h \in ModelHeaders, NEW l \in 0 .. h.n_layers
  PROVE  /\ Offsets(h)[l] \in Nat
         /\ Offsets(h)[l] <= Offsets(h)[h.n_layers]
<1> DEFINE n == h.n_layers
           o == Offsets(h)
<1>1. n \in Nat
  BY DEF ModelHeaders
<1>2. /\ o[0] = 0
      /\ \A k \in 1 .. n : o[k] = o[k - 1] + LayerBytes(h, k - 1)
  BY OffsetsAre
<1>3. \A k \in 0 .. n : LayerBytes(h, k - 1) \in Nat
  BY <1>1, BytesOfLayer
<1> HIDE DEF o, n
<1>4. \A k \in 0 .. n : o[k] \in Nat
  <2> DEFINE T == {k \in 0 .. n : o[k] \notin Nat}
  <2> SUFFICES ASSUME T # {} PROVE FALSE
    OBVIOUS
  <2>1. PICK m \in T : \A k \in T : m <= k
    <3>1. T \in SUBSET Nat
      BY <1>1
    <3>2. QED
      BY <3>1, LeastNumber
  <2>2. m \in 1 .. n /\ m - 1 \in 0 .. n /\ m - 1 \notin T
    BY <1>1, <1>2, <2>1
  <2>3. QED
    BY <1>2, <1>3, <2>1, <2>2
<1>5. \A k \in l .. n : o[l] <= o[k]
  <2> DEFINE T == {k \in l .. n : ~(o[l] <= o[k])}
  <2> SUFFICES ASSUME T # {} PROVE FALSE
    OBVIOUS
  <2>1. T \in SUBSET Nat
    BY <1>1
  <2>2. PICK m \in T : \A k \in T : m <= k
    BY <2>1, LeastNumber
  <2>3. m # l
    BY <1>1, <1>4, <2>2 DEF n
  <2>4. m \in 1 .. n /\ m - 1 \in l .. n /\ m - 1 \notin T /\ m - 1 \in 0 .. n
    BY <1>1, <2>2, <2>3 DEF n
  <2>5. o[m] = o[m - 1] + LayerBytes(h, m - 1) /\ LayerBytes(h, m - 1) \in Nat
    BY <1>2, <1>3, <2>4
  <2>6. o[l] <= o[m - 1] /\ o[l] \in Nat /\ o[m - 1] \in Nat
    BY <1>4, <2>4 DEF n
  <2>7. QED
    BY <2>2, <2>5, <2>6
<1>6. QED
  BY <1>1, <1>4, <1>5 DEF n, o

(* What the agent knows of the model: its own header, and a length that    *)
(* ends with the archive.                                                  *)
ModelInv ==
  /\ AGENT_STATE \in {NoState, archive.model}
  /\ \/ AI_MODEL_ADDR = NoData /\ AI_MODEL_LEN = 0
     \/ AI_MODEL_ADDR \in Nat /\ AI_MODEL_ADDR + AI_MODEL_LEN = archive.len

LEMMA ArchiveKept == [AgentNext]_allVars => UNCHANGED archive
BY AgentWalks, Zenon DEF InitrdNext, initrdVars, cpio_find, for_each, FindStep, FindEnds, FindMatches,
   FindSkips, ListStep, ListEnds, ListEntry, Forget

LEMMA ModelStep ==
  ASSUME ModelInv, ProposalInv, WalkInv, [AgentNext]_allVars
  PROVE  ModelInv'
<1>1. UNCHANGED archive
  BY ArchiveKept
<1>2. CASE set_model
  <2>1. UNCHANGED AGENT_STATE
    BY <1>2 DEF set_model, agentVars
  <2>2. archive.len \in Nat
    BY InitrdAssumption DEF WalkInv
  <2>3. \/ UNCHANGED modelVars
        \/ AI_MODEL_ADDR' \in Nat /\ AI_MODEL_ADDR' + AI_MODEL_LEN' = archive.len
    BY <1>2, <2>2, FoundInside DEF set_model
  <2>4. QED
    BY <1>1, <2>1, <2>3 DEF ModelInv, modelVars
<1>3. CASE propose
  BY <1>1, <1>3 DEF propose, ModelInv, modelVars
<1>4. UNCHANGED <<modelVars, AGENT_STATE>> \/ set_model \/ propose
  BY Zenon DEF AgentNext, Thread, Boot, Task, Command, locate, find, early, pmm_init, enable,
     set_system_ready, turn, settle, other_task, register_other, read_file, read_step, pci, yield,
     sleep, sleep_check, shell_done, timer, other_interrupt, agentVars, allVars
<1>5. QED
  BY <1>1, <1>2, <1>3, <1>4 DEF ModelInv, modelVars

(* Whatever the header of the model says, the agent reads its weights and  *)
(* biases in order and before the end of the archive (infer_and_propose).  *)
THEOREM WeightsRead == AgentSpec => []WeightsInside
<1>1. AgentInit => ModelInv
  BY DEF AgentInit, ModelInv
<1>2. ModelInv /\ ProposalInv /\ WalkInv => WeightsInside
  <2> SUFFICES ASSUME ModelInv, ProposalInv, WalkInv, AGENT_STATE # NoState,
                      has_weights(AGENT_STATE), NEW l \in Computed(AGENT_STATE)
               PROVE  /\ layer_ptr_int8(AGENT_STATE, l) =
                           IF l = 0 THEN PAYLOAD_OFFSET
                           ELSE bias_ptr_i32(AGENT_STATE, l - 1) + BiasBytes(AGENT_STATE, l - 1)
                      /\ AI_MODEL_ADDR + bias_ptr_i32(AGENT_STATE, l) + BiasBytes(AGENT_STATE, l)
                           <= archive.len
    BY DEF WeightsInside
  <2> DEFINE h == AGENT_STATE
             o == Offsets(h)
  <2>1. h \in ModelHeaders /\ l \in 0 .. h.n_layers - 1 /\ h.n_layers \in Nat
    BY DEF ProposalInv, Computed, Layers, ModelHeaders
  <2>2. archive.len \in Nat
    BY InitrdAssumption DEF WalkInv
  <2>3. /\ AI_MODEL_LEN \in Nat /\ AI_MODEL_LEN >= need(h) /\ need(h) > 16
        /\ need(h) = o[h.n_layers] + 16
    BY DEF ProposalInv, has_weights, need, compute, PAYLOAD_OFFSET
  <2>4. AI_MODEL_ADDR \in Nat /\ AI_MODEL_ADDR + AI_MODEL_LEN = archive.len
    <3>1. o[h.n_layers] \in Nat
      BY <2>1, OffsetsGrow
    <3>2. AI_MODEL_LEN # 0
      BY <2>3, <3>1
    <3>3. QED
      BY <3>2, Zenon DEF ModelInv
  <2> HIDE DEF h
  <2>5. /\ o[0] = 0 /\ o[l + 1] = o[l] + LayerBytes(h, l)
        /\ l # 0 => o[l] = o[l - 1] + LayerBytes(h, l - 1)
    BY <2>1, OffsetsAre
  <2>6. /\ o[l] \in Nat /\ o[l + 1] <= o[h.n_layers]
        /\ o[l + 1] \in Nat /\ o[h.n_layers] \in Nat
        /\ l # 0 => o[l - 1] \in Nat
    BY <2>1, OffsetsGrow
  <2>7. /\ WeightBytes(h, l) \in Nat /\ BiasBytes(h, l) \in Nat
        /\ LayerBytes(h, l) = WeightBytes(h, l) + BiasBytes(h, l)
        /\ WeightBytes(h, l - 1) \in Nat /\ BiasBytes(h, l - 1) \in Nat
        /\ LayerBytes(h, l - 1) = WeightBytes(h, l - 1) + BiasBytes(h, l - 1)
    BY <2>1, BytesOfLayer
  <2> HIDE DEF o
  <2>8. layer_ptr_int8(h, l) = IF l = 0 THEN PAYLOAD_OFFSET
                               ELSE bias_ptr_i32(h, l - 1) + BiasBytes(h, l - 1)
    BY <2>1, <2>5, <2>6, <2>7 DEF layer_ptr_int8, bias_ptr_i32, PAYLOAD_OFFSET, o
  <2>9. AI_MODEL_ADDR + bias_ptr_i32(h, l) + BiasBytes(h, l) <= archive.len
    BY <2>2, <2>3, <2>4, <2>5, <2>6, <2>7 DEF layer_ptr_int8, bias_ptr_i32, PAYLOAD_OFFSET, o
  <2>10. QED
    BY <2>8, <2>9 DEF h
<1>3. ModelInv /\ ProposalInv /\ WalkInv /\ [AgentNext]_allVars => ModelInv'
  BY ModelStep
<1>4. QED
  BY <1>1, <1>2, <1>3, ProposalInvariant, AgentWalkInv, PTL DEF AgentSpec
=============================================================================
