------------------------- MODULE ApplyActionProofs -------------------------
(***************************************************************************)
(* The transactions of ApplyAction are correct for every set of actions,   *)
(* every number of iterations of the self-test and every run of proposals. *)
(***************************************************************************)
EXTENDS ApplyAction, TLAPS

(***************************************************************************)
(* The inductive invariant: what is known of the action and of the journal *)
(* at each point of apply_action_atomic.                                   *)
(***************************************************************************)
LastEntry == journal[Len(journal)]

CallInv ==
  /\ a \in [kind : Kinds, param1 : Nat]
  /\ pc # "idle" => SEQ = seq + 1 /\ proposed[seq + 1] = a
  /\ pc \notin {"idle", "gate"} =>
       SYSTEM_READY /\ is_allowed(a.kind) /\ validate_params(a)
  /\ SYSTEM_READY => interrupts
  /\ ~halted => PAGE_FAULTS = 0
  /\ start_pf = 0
  /\ pc = "commit" => TIMER_TICKS > start_ticks
  /\ QUANTUM_US \in Quanta /\ before \in Quanta
  /\ pc = "execute" => QUANTUM_US = before
  /\ pc \in Settling =>
       QUANTUM_US = IF a.kind = "SetQuantum" THEN AsU32(a.param1) ELSE before

JournalInv ==
  /\ journal = <<>> => pc \in {"idle", "gate", "intent"}
  /\ journal = <<>> /\ pc = "idle" => SEQ = 0
  /\ journal = <<>> /\ pc # "idle" => seq = 0
  /\ journal # <<>> /\ pc = "idle" => LastEntry.seq + 1 = SEQ
  /\ journal # <<>> /\ pc \in {"gate", "intent"} => LastEntry.seq + 1 = seq
  /\ pc \in {"idle", "gate", "intent"} /\ journal # <<>> =>
       LastEntry.entry # "INTENT"
  /\ pc \notin {"idle", "gate", "intent"} =>
       LastEntry = [seq |-> seq, entry |-> "INTENT"]
  /\ \A i \in 1 .. Len(journal) : journal[i].seq < SEQ

ApplyInv ==
  /\ TypeOK /\ CallInv /\ JournalInv
  /\ JournalWellFormed /\ JournalExplains /\ IntentsTestable

(* What writing an entry does to the journal.                              *)
LEMMA LogAppends ==
  ASSUME journal \in Seq(Entries), NEW e \in Entries, Log(e)
  PROVE  /\ journal' \in Seq(Entries) /\ journal' # <<>>
         /\ Len(journal) \in Nat /\ Len(journal') = Len(journal) + 1
         /\ \A i \in 1 .. Len(journal) : journal'[i] = journal[i]
         /\ journal'[Len(journal) + 1] = e
BY DEF Log

(* A parameter cut to 32 bits is a 32-bit number.                          *)
LEMMA CastType ==
  ASSUME NEW act \in [kind : Kinds, param1 : Nat]
  PROVE  AsU32(act.param1) \in 0 .. U32 - 1
<1>1. PICK n \in Nat : n = act.param1
  OBVIOUS
<1>2. n % U32 \in 0 .. U32 - 1
  BY ApplyAssumption
<1>3. QED
  BY <1>1, <1>2 DEF AsU32

(* An accepted quantum is in range.                                        *)
LEMMA AcceptedInRange ==
  ASSUME NEW act, act.kind = "SetQuantum", validate_params(act)
  PROVE  AsU32(act.param1) \in Quanta
<1>1. act.kind # "TrimCache"
  BY Zenon
<1>2. QED
  BY <1>1 DEF validate_params

LEMMA TypeInit == Init => TypeOK /\ CallInv
<1> SUFFICES ASSUME Init PROVE TypeOK /\ CallInv
  OBVIOUS
<1>1. U32 \in Nat /\ U32 > 50000 /\ MaxSeq \in Nat /\ MaxTicks \in Nat /\ SPINS \in Nat
  BY ApplyAssumption
<1>2. TypeOK
  <2>1. journal \in Seq(Entries) /\ proposed \in Seq(Actions) /\ Len(proposed) = SEQ
    BY DEF Init
  <2>2. interrupts \in BOOLEAN /\ SYSTEM_READY \in BOOLEAN /\ halted \in BOOLEAN
    BY DEF Init
  <2>3. /\ QUANTUM_US \in 0 .. U32 - 1 /\ before \in 0 .. U32 - 1
        /\ SEQ \in 0 .. MaxSeq /\ seq \in 0 .. MaxSeq
        /\ TIMER_TICKS \in 0 .. MaxTicks /\ start_ticks \in 0 .. MaxTicks
        /\ PAGE_FAULTS \in Nat /\ start_pf \in Nat /\ spin \in 0 .. SPINS
    BY <1>1 DEF Init, DefaultQuantum
  <2>4. QED
    BY <2>1, <2>2, <2>3 DEF Init, TypeOK
<1>3. a \in [kind : Kinds, param1 : Nat]
  BY DEF Init, Kinds
<1>4. CallInv
  BY <1>3 DEF Init, CallInv, Quanta, MinQuantum, MaxQuantum, DefaultQuantum, Settling
<1>5. QED
  BY <1>2, <1>4

LEMMA TypeStep == TypeOK /\ CallInv /\ [Next]_vars => TypeOK'
<1> SUFFICES ASSUME TypeOK, CallInv, [Next]_vars PROVE TypeOK'
  OBVIOUS
<1> USE ApplyAssumption DEF TypeOK, bootVars, counters, callVars, testVars
<1>0. ASSUME NEW e, pc # "idle",
             e \in [seq : {seq}, entry : {"REJECT", "INTENT", "APPLY_OK", "FAIL"}]
      PROVE  e \in Entries
  BY <1>0 DEF Entries, CallInv
<1>1. ASSUME NEW act \in Actions, ai_propose_action(act) PROVE TypeOK'
  BY <1>1 DEF ai_propose_action
<1>2. CASE Gate
  <2>1. [seq |-> seq, entry |-> "REJECT"] \in Entries
    BY <1>0, <1>2 DEF Gate
  <2>2. journal' \in Seq(Entries)
    <3>1. \/ journal' = journal
          \/ journal' = Append(journal, [seq |-> seq, entry |-> "REJECT"])
      BY ONLY <1>2 DEF Gate, Log
    <3>2. journal \in Seq(Entries)
      OBVIOUS
    <3>3. QED
      BY ONLY <2>1, <3>1, <3>2
  <2>3. QED
    BY <1>2, <2>2 DEF Gate, Return, NotAllowed
<1>3. CASE Intent
  <2>1. [seq |-> seq, entry |-> "INTENT"] \in Entries
    BY <1>0, <1>3 DEF Intent
  <2>2. journal' \in Seq(Entries)
    BY <1>3, <2>1 DEF Intent, Log
  <2>3. QED
    BY <1>3, <2>2 DEF Intent
<1>4. CASE Execute
  <2>1. is_allowed(a.kind) /\ a \in [kind : Kinds, param1 : Nat]
    BY <1>4 DEF Execute, CallInv
  <2>2. QUANTUM_US' \in 0 .. U32 - 1
    BY <1>4, <2>1, CastType DEF Execute
  <2>3. QED
    BY <1>4, <2>1, <2>2 DEF Execute, Settling
<1>5. CASE StartTest
  BY <1>5 DEF StartTest, Settling
<1>6. CASE Spin
  BY <1>6 DEF Spin, Settling
<1>7. CASE Verdict
  BY <1>7 DEF Verdict, Settling
<1>8. CASE Commit
  <2>1. [seq |-> seq, entry |-> "APPLY_OK"] \in Entries
    BY <1>0, <1>8 DEF Commit
  <2>2. journal' \in Seq(Entries)
    BY <1>8, <2>1 DEF Commit, Log
  <2>3. QED
    BY <1>8, <2>2 DEF Commit, Return, Ok
<1>9. CASE Restore
  BY <1>9 DEF Restore
<1>10. CASE Fail
  <2>1. [seq |-> seq, entry |-> "FAIL"] \in Entries
    BY <1>0, <1>10 DEF Fail
  <2>2. journal' \in Seq(Entries)
    BY <1>10, <2>1 DEF Fail, Log
  <2>3. QED
    BY <1>10, <2>2 DEF Fail, Return, SelfTestFailed
<1>11. CASE EnableInterrupts
  BY <1>11 DEF EnableInterrupts
<1>12. CASE set_system_ready
  BY <1>12 DEF set_system_ready
<1>13. CASE timer
  BY <1>13 DEF timer
<1>14. CASE page_fault
  BY <1>14 DEF page_fault
<1>15. CASE UNCHANGED vars
  BY <1>15 DEF vars
<1>16. QED
  BY ONLY [Next]_vars, <1>1, <1>2, <1>3, <1>4, <1>5, <1>6, <1>7, <1>8, <1>9, <1>10,
     <1>11, <1>12, <1>13, <1>14, <1>15, Zenon DEF Next, Step

LEMMA CallStep == TypeOK /\ CallInv /\ [Next]_vars => CallInv'
<1> SUFFICES ASSUME TypeOK, CallInv, [Next]_vars PROVE CallInv'
  OBVIOUS
<1> USE DEF CallInv, bootVars, counters, callVars, testVars
<1>1. ASSUME NEW act \in Actions, ai_propose_action(act), ~halted PROVE CallInv'
  <2>1. proposed'[seq' + 1] = a' /\ a' \in [kind : Kinds, param1 : Nat]
    BY <1>1, ApplyAssumption DEF ai_propose_action, TypeOK
  <2>2. QED
    BY <1>1, <2>1, ApplyAssumption DEF ai_propose_action, TypeOK, Settling
<1>2. CASE Gate
  BY <1>2 DEF Gate, Return, Settling
<1>3. CASE Intent
  BY <1>3 DEF Intent, Settling
<1>4. CASE Execute
  <2>1. is_allowed(a.kind) /\ (a.kind = "SetQuantum" => AsU32(a.param1) \in Quanta)
    BY <1>4, AcceptedInRange DEF Execute
  <2>2. QUANTUM_US' \in Quanta
    BY <1>4, <2>1 DEF Execute
  <2>3. /\ QUANTUM_US' = IF a.kind = "SetQuantum" THEN AsU32(a.param1) ELSE QUANTUM_US
        /\ pc' = "start" /\ pc = "execute"
        /\ UNCHANGED <<bootVars, counters, callVars, testVars, before>>
    BY <1>4, <2>1, Zenon DEF Execute
  <2>4. QUANTUM_US' = IF a.kind = "SetQuantum" THEN AsU32(a.param1) ELSE before
    BY <1>4, <2>3
  <2>5. QED
    BY <2>2, <2>3, <2>4
<1>5. CASE StartTest /\ ~halted
  BY <1>5 DEF StartTest, Settling
<1>6. CASE Spin
  BY <1>6 DEF Spin, Settling
<1>7. CASE Verdict
  BY <1>7 DEF Verdict, Settling, self_test_ok
<1>8. CASE Commit
  BY <1>8 DEF Commit, Return, Settling
<1>9. CASE Restore
  BY <1>9 DEF Restore, Settling
<1>10. CASE Fail
  BY <1>10 DEF Fail, Return, Settling
<1>11. CASE EnableInterrupts
  BY <1>11 DEF EnableInterrupts, Settling
<1>12. CASE set_system_ready
  BY <1>12 DEF set_system_ready, Settling
<1>13. CASE timer
  BY <1>13 DEF timer, TypeOK
<1>14. CASE page_fault
  BY <1>14 DEF page_fault
<1>15. CASE UNCHANGED vars
  BY <1>15 DEF vars
<1>16. QED
  BY <1>1, <1>2, <1>3, <1>4, <1>5, <1>6, <1>7, <1>8, <1>9, <1>10, <1>11, <1>12,
     <1>13, <1>14, <1>15 DEF Next, Step

(* The journal at a step that writes nothing.                              *)
LEMMA JournalKept ==
  ASSUME JournalInv, JournalWellFormed, IntentsTestable, TypeOK, CallInv,
         UNCHANGED journal, interrupts => interrupts', SEQ' >= SEQ, SEQ' \in Nat,
         \/ UNCHANGED <<pc, SEQ, seq>>
         \/ pc = "idle" /\ pc' = "gate" /\ seq' = SEQ
         \/ /\ UNCHANGED <<SEQ, seq>>
            /\ \/ pc = "gate" /\ pc' = "intent"
               \/ /\ pc \notin {"idle", "gate", "intent"}
                  /\ pc' \notin {"idle", "gate", "intent"}
  PROVE  JournalInv' /\ JournalWellFormed' /\ IntentsTestable'
<1>1. JournalWellFormed'
  BY DEF JournalWellFormed
<1>2. IntentsTestable'
  BY DEF IntentsTestable
<1>3. LastEntry' = LastEntry
  BY DEF LastEntry
<1>4. \A i \in 1 .. Len(journal) : journal[i].seq < SEQ'
  <2>1. ASSUME NEW i \in 1 .. Len(journal) PROVE journal[i].seq < SEQ'
    <3>1. journal[i] \in Entries
      BY DEF TypeOK
    <3>2. journal[i].seq \in 0 .. MaxSeq - 1 /\ journal[i].seq < SEQ
      BY <3>1 DEF Entries, JournalInv
    <3>3. QED
      BY <3>2, ApplyAssumption DEF TypeOK
  <2>2. QED
    BY <2>1
<1>5. JournalInv'
  <2>1. \A i \in 1 .. Len(journal') : journal'[i].seq < SEQ'
    BY <1>4
  <2>2. CASE UNCHANGED <<pc, SEQ, seq>>
    BY <1>3, <2>1, <2>2 DEF JournalInv
  <2>3. CASE pc = "idle" /\ pc' = "gate" /\ seq' = SEQ
    BY <1>3, <2>1, <2>3 DEF JournalInv
  <2>4. CASE UNCHANGED <<SEQ, seq>> /\ pc = "gate" /\ pc' = "intent"
    BY <1>3, <2>1, <2>4 DEF JournalInv
  <2>5. CASE /\ UNCHANGED <<SEQ, seq>>
             /\ pc \notin {"idle", "gate", "intent"}
             /\ pc' \notin {"idle", "gate", "intent"}
    BY <1>3, <2>1, <2>5 DEF JournalInv
  <2>6. QED
    BY <2>2, <2>3, <2>4, <2>5
<1>6. QED
  BY <1>1, <1>2, <1>5

(* The journal at a step that begins or rejects a proposal, or settles it. *)
LEMMA JournalWritten ==
  ASSUME JournalInv, JournalWellFormed, IntentsTestable, TypeOK, CallInv,
         NEW kind \in {"REJECT", "INTENT", "APPLY_OK", "FAIL"},
         Log([seq |-> seq, entry |-> kind]),
         UNCHANGED <<interrupts, SEQ, seq>>,
         \/ pc = "gate" /\ kind = "REJECT" /\ pc' = "idle"
         \/ pc = "intent" /\ kind = "INTENT" /\ pc' = "execute"
         \/ /\ pc \notin {"idle", "gate", "intent"}
            /\ kind \in {"APPLY_OK", "FAIL"} /\ pc' = "idle"
  PROVE  JournalInv' /\ JournalWellFormed' /\ IntentsTestable'
<1> DEFINE e == [seq |-> seq, entry |-> kind]
           n == Len(journal)
<1>1. pc # "idle" /\ SEQ = seq + 1 /\ seq \in 0 .. MaxSeq - 1 /\ seq \in Nat
  BY ApplyAssumption DEF CallInv, TypeOK
<1>2. e \in Entries /\ e.seq = seq /\ e.entry = kind
  BY <1>1 DEF Entries
<1> HIDE DEF e
<1>3. /\ journal' # <<>> /\ n \in Nat /\ Len(journal') = n + 1
      /\ \A i \in 1 .. n : journal'[i] = journal[i]
      /\ journal'[n + 1] = e
  BY <1>2, LogAppends DEF e, TypeOK
<1>4. LastEntry' = e
  BY <1>3 DEF LastEntry
<1>5. journal # <<>> <=> n # 0
  BY DEF TypeOK
<1>6. JournalInv'
  <2>1. ASSUME NEW i \in 1 .. n + 1 PROVE journal'[i].seq < SEQ
    <3>1. CASE i \in 1 .. n
      BY <1>3, <3>1 DEF JournalInv
    <3>2. CASE i = n + 1
      BY <1>1, <1>2, <1>3, <3>2
    <3>3. QED
      BY <1>3, <3>1, <3>2
  <2>2. QED
    BY <1>1, <1>2, <1>3, <1>4, <2>1 DEF JournalInv, e
<1>7. JournalWellFormed'
  <2> DEFINE OK(j, i) ==
        /\ j[i].entry \in {"REJECT", "INTENT"} =>
             IF i = 1 THEN j[i].seq = 0
             ELSE j[i - 1].entry # "INTENT" /\ j[i].seq = j[i - 1].seq + 1
        /\ j[i].entry \in {"APPLY_OK", "FAIL"} =>
             i > 1 /\ j[i - 1] = [seq |-> j[i].seq, entry |-> "INTENT"]
  <2>1. JournalWellFormed <=> \A i \in 1 .. n : OK(journal, i)
    BY DEF JournalWellFormed
  <2>2. JournalWellFormed' <=> \A i \in 1 .. n + 1 : OK(journal', i)
    BY <1>3 DEF JournalWellFormed
  <2>3. ASSUME NEW i \in 1 .. n PROVE OK(journal', i)
    <3>1. CASE i = 1
      <4>1. journal'[1] = journal[1] /\ OK(journal, 1)
        BY <1>3, <2>1, <3>1
      <4>2. journal[1].entry \notin {"APPLY_OK", "FAIL"}
        BY <4>1
      <4>3. QED
        BY <3>1, <4>1, <4>2
    <3>2. CASE i # 1
      <4>1. i - 1 \in 1 .. n /\ i > 1
        BY <1>3, <3>2
      <4>2. journal'[i] = journal[i] /\ journal'[i - 1] = journal[i - 1]
        BY <1>3, <4>1
      <4>3. OK(journal, i)
        BY <2>1
      <4>4. QED
        BY <4>2, <4>3
    <3>3. QED
      BY <3>1, <3>2
  <2>4. OK(journal', n + 1)
    <3>1. CASE n = 0
      BY <1>1, <1>2, <1>3, <1>5, <3>1 DEF JournalInv
    <3>2. CASE n # 0
      <4>1. journal'[(n + 1) - 1] = LastEntry /\ n + 1 # 1 /\ n + 1 > 1
        BY <1>3, <3>2 DEF LastEntry
      <4>2. CASE kind \in {"REJECT", "INTENT"}
        BY <1>2, <1>3, <1>5, <3>2, <4>1, <4>2 DEF JournalInv
      <4>3. CASE kind \in {"APPLY_OK", "FAIL"}
        BY <1>2, <1>3, <1>5, <3>2, <4>1, <4>3 DEF JournalInv
      <4>4. QED
        BY <4>2, <4>3
    <3>3. QED
      BY <3>1, <3>2
  <2>5. \A i \in 1 .. n + 1 : OK(journal', i)
    <3> HIDE DEF OK
    <3>1. QED
      BY <1>3, <2>3, <2>4
  <2>6. QED
    BY <2>2, <2>5
<1>8. IntentsTestable'
  <2>1. kind = "INTENT" => interrupts
    BY DEF CallInv
  <2>2. ASSUME NEW i \in 1 .. n + 1, journal'[i].entry = "INTENT" PROVE interrupts
    <3>1. CASE i \in 1 .. n
      BY <1>3, <2>2, <3>1 DEF IntentsTestable
    <3>2. CASE i = n + 1
      BY <1>2, <1>3, <2>1, <2>2, <3>2
    <3>3. QED
      BY <1>3, <3>1, <3>2
  <2>3. QED
    BY <1>3, <2>2 DEF IntentsTestable
<1>9. QED
  BY <1>6, <1>7, <1>8

(* What the journal explains does not change with a proposal, or with an   *)
(* entry that applies no quantum.                                          *)
LEMMA ExplanationKept ==
  ASSUME TypeOK, JournalInv, NEW q, Explained(q), journal' \in Seq(Entries),
         Len(journal') >= Len(journal),
         \A i \in 1 .. Len(journal) : journal'[i] = journal[i],
         \A i \in 1 .. Len(journal) : /\ proposed'[journal[i].seq + 1].kind
                                          = proposed[journal[i].seq + 1].kind
                                      /\ proposed'[journal[i].seq + 1].param1
                                          = proposed[journal[i].seq + 1].param1,
         \A i \in Len(journal) + 1 .. Len(journal') : ~Applied(i)'
  PROVE  Explained(q)'
<1> DEFINE n == Len(journal)
           m == Len(journal')
<1>1. n \in Nat /\ m \in Nat /\ m >= n
  BY DEF TypeOK
<1>2. ASSUME NEW i \in 1 .. n PROVE Applied(i)' <=> Applied(i)
  BY DEF Applied
<1>3. ASSUME NEW i \in n + 1 .. m PROVE ~Applied(i)'
  OBVIOUS
<1> HIDE DEF Applied
<1>4. CASE (\A i \in 1 .. n : ~Applied(i)) /\ q = DefaultQuantum
  <2>1. ASSUME NEW i \in 1 .. m PROVE ~Applied(i)'
    <3>1. i \in 1 .. n \/ i \in n + 1 .. m
      BY <1>1
    <3>2. QED
      BY <1>2, <1>3, <1>4, <3>1
  <2>2. QED
    BY <1>4, <2>1 DEF Explained
<1>5. CASE \E i \in 1 .. n : /\ Applied(i)
                             /\ \A j \in i + 1 .. n : ~Applied(j)
                             /\ q = AsU32(proposed[journal[i].seq + 1].param1)
  <2>0. PICK i \in 1 .. n : /\ Applied(i)
                            /\ \A j \in i + 1 .. n : ~Applied(j)
                            /\ q = AsU32(proposed[journal[i].seq + 1].param1)
    BY <1>5, Zenon
  <2>1. i \in 1 .. m /\ Applied(i)'
    BY <1>1, <1>2, <2>0
  <2>2. ASSUME NEW j \in i + 1 .. m PROVE ~Applied(j)'
    <3>1. (j \in i + 1 .. n /\ j \in 1 .. n) \/ j \in n + 1 .. m
      BY <1>1
    <3>2. QED
      BY <1>2, <1>3, <2>0, <3>1
  <2>3. q = AsU32(proposed'[journal'[i].seq + 1].param1)
    <3>1. /\ journal'[i] = journal[i]
          /\ proposed'[journal[i].seq + 1].param1 = proposed[journal[i].seq + 1].param1
      BY Zenon
    <3>2. q = AsU32(proposed[journal[i].seq + 1].param1)
      BY <2>0, Zenon
    <3>3. proposed'[journal'[i].seq + 1].param1 = proposed[journal[i].seq + 1].param1
      BY ONLY <3>1, Zenon
    <3>4. QED
      BY ONLY <3>2, <3>3, Zenon
  <2>4. \E k \in 1 .. m :
           /\ Applied(k)'
           /\ \A j \in k + 1 .. m : ~Applied(j)'
           /\ q = AsU32(proposed'[journal'[k].seq + 1].param1)
    BY ONLY <2>1, <2>2, <2>3, Zenon
  <2>5. QED
    BY ONLY <2>4, Zenon DEF Explained
<1>6. \/ (\A i \in 1 .. n : ~Applied(i)) /\ q = DefaultQuantum
      \/ \E i \in 1 .. n : /\ Applied(i)
                           /\ \A j \in i + 1 .. n : ~Applied(j)
                           /\ q = AsU32(proposed[journal[i].seq + 1].param1)
  BY Zenon DEF Explained
<1>7. QED
  BY ONLY <1>4, <1>5, <1>6

(* A journal that explains a value explains the value in force if they are *)
(* the same.                                                               *)
LEMMA ExplainsValue ==
  ASSUME NEW q, Explained(q)', q = InForce'
  PROVE  JournalExplains'
<1> DEFINE P(v) ==
      \/ (\A i \in 1 .. Len(journal') : ~Applied(i)') /\ v = DefaultQuantum
      \/ \E i \in 1 .. Len(journal') :
            /\ Applied(i)'
            /\ \A j \in i + 1 .. Len(journal') : ~Applied(j)'
            /\ v = AsU32(proposed'[journal'[i].seq + 1].param1)
<1>1. P(q)
  BY Zenon DEF Explained
<1>2. P(InForce') => JournalExplains'
  BY Zenon DEF JournalExplains, Explained, InForce
<1> HIDE DEF P
<1>3. P(InForce')
  BY <1>1, Zenon
<1>4. QED
  BY <1>2, <1>3

(* A confirmed quantum is explained by its own entry.                      *)
LEMMA ExplanationAdded ==
  ASSUME TypeOK, CallInv, pc = "commit", a.kind = "SetQuantum",
         Log([seq |-> seq, entry |-> "APPLY_OK"]), UNCHANGED <<proposed, QUANTUM_US>>
  PROVE  Explained(QUANTUM_US)'
<1> DEFINE e == [seq |-> seq, entry |-> "APPLY_OK"]
<1>0. PICK n \in Nat : n = Len(journal)
  BY DEF TypeOK
<1>1. e \in Entries /\ proposed[seq + 1] = a
  BY ApplyAssumption DEF CallInv, TypeOK, Entries
<1>2. n \in Nat /\ Len(journal') = n + 1 /\ journal'[n + 1] = e
  BY <1>0, <1>1, LogAppends DEF TypeOK
<1>3. Applied(n + 1)'
  BY <1>1, <1>2 DEF Applied
<1>4. QUANTUM_US = AsU32(a.param1)
  BY DEF CallInv, Settling
<1>5. QUANTUM_US' = AsU32(proposed'[journal'[n + 1].seq + 1].param1)
  <2>1. journal'[n + 1].seq = seq
    BY <1>2
  <2>2. QED
    BY <1>1, <1>4, <2>1
<1>6. n + 1 \in 1 .. Len(journal') /\ (n + 1) + 1 .. Len(journal') = {}
  BY <1>2
<1>7. QED
  BY <1>3, <1>5, <1>6 DEF Explained

(* The quantum in force when the journal is written.                       *)
LEMMA ExplainsWritten ==
  ASSUME ApplyInv, NEW kind \in {"REJECT", "INTENT", "APPLY_OK", "FAIL"},
         Log([seq |-> seq, entry |-> kind]), pc # "idle", UNCHANGED proposed,
         kind = "APPLY_OK" => a.kind # "SetQuantum",
         NEW q, Explained(q)
  PROVE  Explained(q)'
<1> DEFINE e == [seq |-> seq, entry |-> kind]
<1>0. PICK n \in Nat : n = Len(journal)
  BY DEF ApplyInv, TypeOK
<1>1. e \in Entries /\ proposed[seq + 1] = a
  BY ApplyAssumption DEF ApplyInv, CallInv, TypeOK, Entries
<1>2. /\ journal' \in Seq(Entries) /\ n \in Nat /\ Len(journal') = n + 1
      /\ \A i \in 1 .. n : journal'[i] = journal[i]
      /\ journal'[n + 1] = e
  BY <1>0, <1>1, LogAppends DEF ApplyInv, TypeOK
<1>3. ~Applied(n + 1)'
  BY <1>1, <1>2 DEF Applied
<1>4. \A i \in n + 1 .. Len(journal') : ~Applied(i)'
  <2> HIDE DEF Applied
  <2>1. \A i \in n + 1 .. Len(journal') : i = n + 1
    BY <1>2
  <2>2. QED
    BY <1>3, <2>1
<1>5. QED
  BY <1>0, <1>2, <1>4, ExplanationKept DEF ApplyInv

LEMMA ApplyStep == ApplyInv /\ [Next]_vars => ApplyInv'
<1> SUFFICES ASSUME ApplyInv, [Next]_vars PROVE ApplyInv'
  OBVIOUS
<1>0. TypeOK /\ CallInv /\ JournalInv /\ JournalWellFormed /\ JournalExplains /\ IntentsTestable
  BY DEF ApplyInv
<1>a. TypeOK' /\ CallInv'
  BY <1>0, TypeStep, CallStep
<1> USE <1>0 DEF bootVars, counters, callVars, testVars
<1>b. ASSUME UNCHANGED <<journal, proposed>>, InForce' = InForce
      PROVE  JournalExplains'
  <2>1. PICK q : q = InForce
    OBVIOUS
  <2>2. Explained(q)
    BY <2>1 DEF JournalExplains, InForce
  <2>3. Explained(q)'
    <3>1. /\ journal' = journal /\ journal \in Seq(Entries)
          /\ Len(journal') >= Len(journal) /\ Len(journal) + 1 .. Len(journal') = {}
      BY <1>b DEF TypeOK
    <3>2. QED
      BY <1>b, <2>2, <3>1, ExplanationKept
  <2>4. q = InForce'
    BY <1>b, <2>1, Zenon
  <2>5. QED
    BY <2>3, <2>4, ExplainsValue
<1>c. ASSUME NEW kind \in {"REJECT", "INTENT", "APPLY_OK", "FAIL"}, pc # "idle",
             Log([seq |-> seq, entry |-> kind]), UNCHANGED proposed,
             kind = "APPLY_OK" => a.kind # "SetQuantum", InForce' = InForce
      PROVE  JournalExplains'
  <2>1. PICK q : q = InForce
    OBVIOUS
  <2>2. Explained(q)
    BY <2>1 DEF JournalExplains, InForce
  <2>3. Explained(q)'
    BY <1>c, <2>2, ExplainsWritten
  <2>4. q = InForce'
    BY <1>c, <2>1, Zenon
  <2>5. QED
    BY <2>3, <2>4, ExplainsValue
<1>1. ASSUME NEW act \in Actions, ai_propose_action(act) PROVE ApplyInv'
  <2>1. JournalInv' /\ JournalWellFormed' /\ IntentsTestable'
    BY <1>1, JournalKept DEF ai_propose_action, TypeOK
  <2>2. JournalExplains'
    <3>1. PICK q : q = QUANTUM_US
      OBVIOUS
    <3>2. Explained(q)
      BY <1>1, <3>1 DEF ai_propose_action, JournalExplains, Settling
    <3>3. ASSUME NEW i \in 1 .. Len(journal)
          PROVE  proposed'[journal[i].seq + 1] = proposed[journal[i].seq + 1]
      <4>1. journal[i].seq \in Nat /\ journal[i].seq < SEQ
        <5>1. journal[i] \in Entries
          BY DEF TypeOK
        <5>2. QED
          BY <5>1, ApplyAssumption DEF Entries, JournalInv
      <4>2. journal[i].seq + 1 \in 1 .. Len(proposed)
        <5>1. SEQ \in Nat /\ Len(proposed) = SEQ
          BY ApplyAssumption DEF TypeOK
        <5>2. QED
          BY ONLY <4>1, <5>1
      <4>3. QED
        BY <1>1, <4>2 DEF ai_propose_action, TypeOK
    <3>4. Explained(q)'
      <4>1. /\ UNCHANGED journal /\ journal \in Seq(Entries)
            /\ Len(journal) \in Nat /\ Len(journal') >= Len(journal)
            /\ Len(journal) + 1 .. Len(journal') = {}
        BY <1>1 DEF ai_propose_action, TypeOK
      <4>2. /\ \A i \in 1 .. Len(journal) : journal'[i] = journal[i]
            /\ \A i \in Len(journal) + 1 .. Len(journal') : ~Applied(i)'
            /\ journal' \in Seq(Entries)
        BY <4>1
      <4>3. \A i \in 1 .. Len(journal) : /\ proposed'[journal[i].seq + 1].kind
                                            = proposed[journal[i].seq + 1].kind
                                        /\ proposed'[journal[i].seq + 1].param1
                                            = proposed[journal[i].seq + 1].param1
        BY <3>3
      <4>4. QED
        BY <3>2, <4>1, <4>2, <4>3, ExplanationKept
    <3>5. q = InForce'
      BY <1>1, <3>1 DEF ai_propose_action, Settling, InForce
    <3>6. QED
      BY <3>4, <3>5, ExplainsValue
  <2>3. QED
    BY <1>a, <2>1, <2>2 DEF ApplyInv
<1>2. CASE Gate
  <2>1. CASE UNCHANGED journal
    <3>0. pc = "gate" /\ pc' = "intent" /\ UNCHANGED <<interrupts, SEQ, seq, proposed, QUANTUM_US>>
      <4>1. journal' # Append(journal, [seq |-> seq, entry |-> "REJECT"])
        BY <2>1 DEF TypeOK
      <4>2. QED
        BY <1>2, <4>1 DEF Gate, Log
    <3>1. JournalInv' /\ JournalWellFormed' /\ IntentsTestable'
      BY <2>1, <3>0, JournalKept DEF TypeOK
    <3>2. JournalExplains'
      BY <2>1, <3>0, <1>b DEF Settling, InForce
    <3>3. QED
      BY <1>a, <3>1, <3>2 DEF ApplyInv
  <2>2. CASE Log([seq |-> seq, entry |-> "REJECT"]) /\ pc' = "idle"
    <3>1. JournalInv' /\ JournalWellFormed' /\ IntentsTestable'
      BY <1>2, <2>2, JournalWritten DEF Gate
    <3>2. JournalExplains'
      BY <1>2, <2>2, <1>c DEF Gate, Settling, InForce
    <3>3. QED
      BY <1>a, <3>1, <3>2 DEF ApplyInv
  <2>3. QED
    BY <1>2, <2>1, <2>2 DEF Gate, Return
<1>3. CASE Intent
  <2>1. JournalInv' /\ JournalWellFormed' /\ IntentsTestable'
    BY <1>3, JournalWritten DEF Intent, Settling
  <2>2. JournalExplains'
    BY <1>3, <1>c DEF Intent, Settling, InForce
  <2>3. QED
    BY <1>a, <2>1, <2>2 DEF ApplyInv
<1>4. CASE Execute
  <2>0. is_allowed(a.kind)
    BY <1>4 DEF Execute, CallInv
  <2>1. JournalInv' /\ JournalWellFormed' /\ IntentsTestable'
    BY <1>4, <2>0, JournalKept DEF Execute, TypeOK
  <2>2. JournalExplains'
    BY <1>4, <2>0, <1>b DEF Execute, Settling, InForce, CallInv
  <2>3. QED
    BY <1>a, <2>1, <2>2 DEF ApplyInv
<1>5. CASE StartTest
  <2>1. JournalInv' /\ JournalWellFormed' /\ IntentsTestable'
    BY <1>5, JournalKept DEF StartTest, TypeOK
  <2>2. JournalExplains'
    BY <1>5, <1>b DEF StartTest, Settling, InForce, CallInv
  <2>3. QED
    BY <1>a, <2>1, <2>2 DEF ApplyInv
<1>6. CASE Spin
  <2>1. JournalInv' /\ JournalWellFormed' /\ IntentsTestable'
    BY <1>6, JournalKept DEF Spin, TypeOK
  <2>2. JournalExplains'
    BY <1>6, <1>b DEF Spin, Settling, InForce, CallInv
  <2>3. QED
    BY <1>a, <2>1, <2>2 DEF ApplyInv
<1>7. CASE Verdict
  <2>1. JournalInv' /\ JournalWellFormed' /\ IntentsTestable'
    BY <1>7, JournalKept DEF Verdict, TypeOK
  <2>2. JournalExplains'
    BY <1>7, <1>b DEF Verdict, Settling, InForce, CallInv
  <2>3. QED
    BY <1>a, <2>1, <2>2 DEF ApplyInv
<1>8. CASE Commit
  <2>1. JournalInv' /\ JournalWellFormed' /\ IntentsTestable'
    BY <1>8, JournalWritten DEF Commit, Return
  <2>2. CASE a.kind = "SetQuantum"
    <3>1. Explained(QUANTUM_US)'
      BY <1>8, <2>2, ExplanationAdded DEF Commit
    <3>2. pc' \notin Settling
      BY <1>8 DEF Commit, Return, Settling
    <3>3. JournalExplains'
      BY <3>1, <3>2 DEF JournalExplains
    <3>4. QED
      BY <1>a, <2>1, <3>3 DEF ApplyInv
  <2>3. CASE a.kind # "SetQuantum"
    <3>1. JournalExplains'
      BY <1>8, <2>3, <1>c DEF Commit, Return, Settling, InForce, CallInv
    <3>2. QED
      BY <1>a, <2>1, <3>1 DEF ApplyInv
  <2>4. QED
    BY <2>2, <2>3
<1>9. CASE Restore
  <2>1. JournalInv' /\ JournalWellFormed' /\ IntentsTestable'
    BY <1>9, JournalKept DEF Restore, TypeOK
  <2>2. JournalExplains'
    BY <1>9, <1>b DEF Restore, Settling, InForce, CallInv
  <2>3. QED
    BY <1>a, <2>1, <2>2 DEF ApplyInv
<1>10. CASE Fail
  <2>1. JournalInv' /\ JournalWellFormed' /\ IntentsTestable'
    BY <1>10, JournalWritten DEF Fail, Return, Settling
  <2>2. JournalExplains'
    BY <1>10, <1>c DEF Fail, Return, Settling, InForce
  <2>3. QED
    BY <1>a, <2>1, <2>2 DEF ApplyInv
<1>11. CASE EnableInterrupts
  <2>1. JournalInv' /\ JournalWellFormed' /\ IntentsTestable'
    BY <1>11, JournalKept DEF EnableInterrupts, TypeOK
  <2>2. JournalExplains'
    BY <1>11, <1>b DEF EnableInterrupts, Settling, InForce, CallInv
  <2>3. QED
    BY <1>a, <2>1, <2>2 DEF ApplyInv
<1>12. CASE set_system_ready
  <2>1. JournalInv' /\ JournalWellFormed' /\ IntentsTestable'
    BY <1>12, JournalKept DEF set_system_ready, TypeOK
  <2>2. JournalExplains'
    BY <1>12, <1>b DEF set_system_ready, Settling, InForce, CallInv
  <2>3. QED
    BY <1>a, <2>1, <2>2 DEF ApplyInv
<1>13. CASE timer
  <2>1. JournalInv' /\ JournalWellFormed' /\ IntentsTestable'
    BY <1>13, JournalKept DEF timer, TypeOK
  <2>2. JournalExplains'
    BY <1>13, <1>b DEF timer, Settling, InForce, CallInv
  <2>3. QED
    BY <1>a, <2>1, <2>2 DEF ApplyInv
<1>14. CASE page_fault
  <2>1. JournalInv' /\ JournalWellFormed' /\ IntentsTestable'
    BY <1>14, JournalKept DEF page_fault, TypeOK
  <2>2. JournalExplains'
    BY <1>14, <1>b DEF page_fault, Settling, InForce, CallInv
  <2>3. QED
    BY <1>a, <2>1, <2>2 DEF ApplyInv
<1>15. CASE UNCHANGED vars
  <2>1. JournalInv' /\ JournalWellFormed' /\ IntentsTestable'
    BY <1>15, JournalKept DEF vars, TypeOK
  <2>2. JournalExplains'
    BY <1>15, <1>b DEF vars, Settling, InForce, CallInv
  <2>3. QED
    BY <1>a, <2>1, <2>2 DEF ApplyInv
<1>16. QED
  BY <1>1, <1>2, <1>3, <1>4, <1>5, <1>6, <1>7, <1>8, <1>9, <1>10, <1>11, <1>12,
     <1>13, <1>14, <1>15 DEF Next, Step

(* The inductive invariant holds in every state of apply_action.rs.        *)
THEOREM ApplyInvariant == Spec => []ApplyInv
<1>1. Init => ApplyInv
  <2> SUFFICES ASSUME Init PROVE ApplyInv
    OBVIOUS
  <2>1. TypeOK /\ CallInv
    BY TypeInit
  <2>2. journal = <<>> /\ Len(journal) = 0 /\ pc = "idle" /\ SEQ = 0 /\ QUANTUM_US = DefaultQuantum
    BY DEF Init
  <2>3. JournalInv /\ JournalWellFormed /\ IntentsTestable
    BY <2>2 DEF JournalInv, JournalWellFormed, IntentsTestable
  <2>4. JournalExplains
    BY <2>2 DEF JournalExplains, Explained, Settling
  <2>5. QED
    BY <2>1, <2>3, <2>4 DEF ApplyInv
<1>2. QED
  BY <1>1, ApplyStep, PTL DEF Spec

(* The quantum is within 100..=50_000 at every moment.                     *)
THEOREM QuantumAlwaysInRange == Spec => []QuantumInRange
<1>1. ApplyInv => QuantumInRange
  BY DEF ApplyInv, CallInv, QuantumInRange
<1>2. QED
  BY <1>1, ApplyInvariant, PTL

(* The journal alone tells which quantum is in force.                      *)
THEOREM JournalTellsQuantum == Spec => []JournalExplains
<1>1. ApplyInv => JournalExplains
  BY DEF ApplyInv
<1>2. QED
  BY <1>1, ApplyInvariant, PTL

(* Every proposal has one outcome in the journal, in the order of their    *)
(* numbers, after an INTENT unless it was rejected.                        *)
THEOREM JournalAlwaysWellFormed == Spec => []JournalWellFormed
<1>1. ApplyInv => JournalWellFormed
  BY DEF ApplyInv
<1>2. QED
  BY <1>1, ApplyInvariant, PTL

(* No INTENT is written before interrupts are on, so that the self-test    *)
(* of every action can see a tick (kernel_main, set_system_ready).         *)
THEOREM IntentsAlwaysTestable == Spec => []IntentsTestable
<1>1. ApplyInv => IntentsTestable
  BY DEF ApplyInv
<1>2. QED
  BY <1>1, ApplyInvariant, PTL

(* An action is confirmed only after a timer tick, and never after a page  *)
(* fault.                                                                  *)
THEOREM ConfirmedActionsTested == Spec => CommitTested
<1>1. ApplyInv /\ [Next]_vars =>
        [Len(journal') > Len(journal) /\ journal'[Len(journal')].entry = "APPLY_OK"
           => TIMER_TICKS > start_ticks /\ PAGE_FAULTS = 0]_vars
  <2> SUFFICES ASSUME ApplyInv, Next, Len(journal') > Len(journal),
                      journal'[Len(journal')].entry = "APPLY_OK"
               PROVE  TIMER_TICKS > start_ticks /\ PAGE_FAULTS = 0
    OBVIOUS
  <2>1. TypeOK /\ CallInv /\ ~halted
    BY DEF ApplyInv, Next
  <2>2. CASE Commit
    BY <2>1, <2>2 DEF Commit, CallInv
  <2>3. ASSUME NEW kind \in {"REJECT", "INTENT", "FAIL"},
               journal' = Append(journal, [seq |-> seq, entry |-> kind])
        PROVE  FALSE
    <3>1. journal'[Len(journal')] = [seq |-> seq, entry |-> kind]
      BY <2>1, <2>3 DEF TypeOK
    <3>2. QED
      BY <3>1
  <2>4. ASSUME UNCHANGED journal PROVE FALSE
    BY <2>1, <2>4 DEF TypeOK
  <2>5. QED
    BY <2>2, <2>3, <2>4 DEF Next, Step, ai_propose_action, Gate, Intent, Execute,
       StartTest, Spin, Verdict, Restore, Fail, EnableInterrupts, set_system_ready,
       timer, page_fault, Log
<1>2. QED
  BY <1>1, ApplyInvariant, PTL DEF Spec, CommitTested

(* Actions are atomic: an accepted one takes effect in one step, any other *)
(* has none.                                                               *)
THEOREM ActionsAtomic == Spec => ImplementsAtomicSetting
<1>1. Init => Setting!AbsInit
  BY DEF Init, Setting!AbsInit, InForce, Settling, Quanta, MinQuantum, MaxQuantum, DefaultQuantum
<1>2. ApplyInv /\ [Next]_vars => [Setting!AbsNext]_(Setting!absVars)
  <2> SUFFICES ASSUME ApplyInv, [Next]_vars
               PROVE  \/ Setting!AbsNext
                      \/ UNCHANGED <<InForce, SYSTEM_READY, result>>
    BY Zenon DEF Setting!absVars
  <2>1. TypeOK /\ CallInv
    BY DEF ApplyInv
  <2> USE <2>1 DEF bootVars, counters, callVars, testVars
  <2>2. CASE Gate
    <3>1. InForce' = InForce /\ UNCHANGED SYSTEM_READY
      BY <2>2 DEF Gate, Return, InForce, Settling
    <3>2. result' = NotAllowed \/ UNCHANGED result
      BY <2>2 DEF Gate, Return
    <3>3. QED
      BY <3>1, <3>2 DEF Setting!AbsNext, Setting!Refuse
  <2>3. CASE Commit
    <3>1. SYSTEM_READY /\ UNCHANGED SYSTEM_READY /\ result' = 0
      BY <2>3 DEF Commit, Return, CallInv, Ok
    <3>2. InForce' \in Quanta
      BY <2>3 DEF Commit, Return, CallInv, InForce, Settling
    <3>3. QED
      BY <3>1, <3>2, Zenon DEF Setting!AbsNext, Setting!Accept
  <2>4. CASE Fail
    <3>1. InForce' = InForce /\ UNCHANGED SYSTEM_READY /\ result' = SelfTestFailed
      BY <2>4 DEF Fail, Return, InForce, Settling
    <3>2. QED
      BY <3>1 DEF Setting!AbsNext, Setting!Refuse
  <2>5. CASE set_system_ready
    <3>1. InForce' = InForce /\ SYSTEM_READY' = TRUE /\ UNCHANGED result
      BY <2>5 DEF set_system_ready, InForce
    <3>2. QED
      BY <3>1, Zenon DEF Setting!AbsNext, Setting!GetReady
  <2>6. CASE Execute
    <3>1. is_allowed(a.kind)
      BY <2>6 DEF Execute, CallInv
    <3>2. QED
      BY <2>6, <3>1 DEF Execute, CallInv, InForce, Settling
  <2>7. CASE Intent
    BY <2>7 DEF Intent, InForce, Settling
  <2>8. CASE StartTest \/ Spin \/ Verdict \/ Restore
    BY <2>8 DEF StartTest, Spin, Verdict, Restore, InForce, Settling
  <2>9. CASE EnableInterrupts \/ timer \/ page_fault \/ UNCHANGED vars
    BY <2>9 DEF EnableInterrupts, timer, page_fault, vars, InForce
  <2>10. ASSUME NEW act \in Actions, ai_propose_action(act)
         PROVE  UNCHANGED <<InForce, SYSTEM_READY, result>>
    BY <2>10 DEF ai_propose_action, InForce, Settling
  <2>11. QED
    BY <2>2, <2>3, <2>4, <2>5, <2>6, <2>7, <2>8, <2>9, <2>10 DEF Next, Step
<1>3. QED
  BY <1>1, <1>2, ApplyInvariant, PTL DEF Spec, ImplementsAtomicSetting, Setting!AbsSpec
=============================================================================
