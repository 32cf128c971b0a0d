--------------------------- MODULE KeyboardProofs ---------------------------
(***************************************************************************)
(* The key ring implements InputQueue, and what the shell reads from it    *)
(* makes its line what it should be, for every capacity and every set of   *)
(* scancodes, in a build whose read of KBUF loads memory.                  *)
(***************************************************************************)
EXTENDS Keyboard, WellFoundedInduction, TLAPS

(* A number below twice the modulus wraps at most once.                    *)
LEMMA WrapMod ==
  ASSUME NEW a \in Nat \ {0}, NEW x \in Nat, x < a + a
  PROVE  x % a = IF x < a THEN x ELSE x - a
OBVIOUS

(* Every non-empty set of natural numbers has a least element: induction,  *)
(* without an operator to instantiate.                                     *)
LEMMA LeastNumber ==
  ASSUME NEW T \in SUBSET Nat, T # {}
  PROVE  \E m \in T : \A k \in T : m <= k
<1> DEFINE Less == {p \in Nat \X Nat : p[1] < p[2]}
<1>1. IsWellFoundedOn(Less, Nat)
  BY NatLessThanWellFounded DEF OpToRel
<1>2. \A j, k \in Nat : j < k => <<j, k>> \in Less
  OBVIOUS
<1> HIDE DEF Less
<1>3. PICK m \in T : \A k \in T : ~(<<k, m>> \in Less)
  BY <1>1, WFMin
<1>4. \A k \in T : ~(k < m)
  BY <1>2, <1>3, Zenon
<1>5. QED
  BY <1>4

Count(h, t) == IF h >= t THEN h - t ELSE h - t + KBUF_CAP

(* The characters of a ring with buffer buf from index t up to index h.    *)
Window(buf, h, t) == [i \in 1 .. Count(h, t) |-> buf[(t + i - 1) % KBUF_CAP]]

LEMMA ContentsWindow == Contents = Window(KBUF, KHEAD, KTAIL)
BY DEF Contents, Waiting, Window, Count

(* The slot of the i-th waiting character.                                 *)
LEMMA SlotOf ==
  ASSUME NEW t \in Slots, NEW i \in Nat, 1 <= i, i <= KBUF_CAP
  PROVE  (t + i - 1) % KBUF_CAP =
           IF t + i - 1 < KBUF_CAP THEN t + i - 1 ELSE (t + i - 1) - KBUF_CAP
<1>1. t \in Nat /\ t < KBUF_CAP /\ KBUF_CAP \in Nat \ {0}
  BY KeyboardAssumption DEF Slots
<1> DEFINE x == t + i - 1
<1>2. x \in Nat /\ x < KBUF_CAP + KBUF_CAP
  BY <1>1
<1> HIDE DEF x
<1>3. x % KBUF_CAP = IF x < KBUF_CAP THEN x ELSE x - KBUF_CAP
  BY <1>1, <1>2, WrapMod
<1>4. QED
  BY <1>3, Zenon DEF x

LEMMA WindowType ==
  ASSUME NEW b \in [Slots -> Chars], NEW x \in Slots, NEW y \in Slots
  PROVE  /\ Count(x, y) \in Nat /\ Count(x, y) < KBUF_CAP
         /\ Window(b, x, y) \in Seq(Chars)
         /\ Len(Window(b, x, y)) = Count(x, y)
         /\ \A i \in 1 .. Count(x, y) :
               Window(b, x, y)[i] = b[(y + i - 1) % KBUF_CAP]
         /\ x = y <=> Count(x, y) = 0
<1>1. KBUF_CAP \in Nat /\ KBUF_CAP >= 2 /\ x \in 0 .. KBUF_CAP - 1 /\ y \in 0 .. KBUF_CAP - 1
  BY KeyboardAssumption DEF Slots
<1>2. Count(x, y) \in Nat /\ Count(x, y) < KBUF_CAP /\ (x = y <=> Count(x, y) = 0)
  BY <1>1 DEF Count
<1>3. \A i \in 1 .. Count(x, y) : (y + i - 1) % KBUF_CAP \in Slots
  <2>1. SUFFICES ASSUME NEW i \in 1 .. Count(x, y)
                 PROVE  (y + i - 1) % KBUF_CAP \in Slots
    OBVIOUS
  <2>2. i \in Nat /\ 1 <= i /\ i <= KBUF_CAP
    BY <1>1, <1>2
  <2>3. QED
    BY <1>1, <2>2, SlotOf DEF Slots
<1>4. \A i \in 1 .. Count(x, y) : b[(y + i - 1) % KBUF_CAP] \in Chars
  BY <1>3
<1>5. QED
  BY <1>2, <1>4 DEF Window

LEMMA WindowAt ==
  ASSUME NEW b \in [Slots -> Chars], NEW x \in Slots, NEW y \in Slots,
         NEW i \in 1 .. Count(x, y)
  PROVE  Window(b, x, y)[i] = b[(y + i - 1) % KBUF_CAP]
BY DEF Window

(* A ring with room grows by the character written at its head.            *)
LEMMA WindowPush ==
  ASSUME NEW buf \in [Slots -> Chars], NEW h \in Slots, NEW t \in Slots,
         NEW c \in Chars,
         NEW next \in Slots,
         h + 1 < KBUF_CAP => next = h + 1, h + 1 >= KBUF_CAP => next = 0,
         NEW buf2 \in [Slots -> Chars],
         buf2[h] = c, \A j \in Slots \ {h} : buf2[j] = buf[j]
  PROVE  /\ next = t <=> Count(h, t) = KBUF_CAP - 1
         /\ next # t => Window(buf2, next, t) = Append(Window(buf, h, t), c)
<1> DEFINE n == Count(h, t)
           w == Window(buf, h, t)
           w2 == Window(buf2, next, t)
<1>1. /\ KBUF_CAP \in Nat /\ KBUF_CAP >= 2
      /\ h \in Nat /\ h < KBUF_CAP /\ t \in Nat /\ t < KBUF_CAP
  BY KeyboardAssumption DEF Slots
<1>2. next = IF h + 1 < KBUF_CAP THEN h + 1 ELSE 0
  BY <1>1
<1>4. n \in Nat /\ n < KBUF_CAP /\ w \in Seq(Chars) /\ Len(w) = n
  BY WindowType
<1>5. ASSUME NEW i \in 1 .. n PROVE w[i] = buf[(t + i - 1) % KBUF_CAP]
  BY ONLY <1>5, buf \in [Slots -> Chars], h \in Slots, t \in Slots, WindowAt
<1>6. next = t <=> n = KBUF_CAP - 1
  BY <1>1, <1>2 DEF Count
<1>7. CASE next # t
  <2>1. Count(next, t) = n + 1 /\ n < KBUF_CAP - 1
    BY <1>1, <1>2, <1>7 DEF Count
  <2>2. w2 \in Seq(Chars) /\ Len(w2) = n + 1
    BY <2>1, WindowType
  <2>3. ASSUME NEW i \in 1 .. n + 1 PROVE w2[i] = buf2[(t + i - 1) % KBUF_CAP]
    BY <2>1, WindowType
  <2> HIDE DEF w, w2
  <2>4. (t + (n + 1) - 1) % KBUF_CAP = h
    <3>1. n + 1 \in Nat /\ 1 <= n + 1 /\ n + 1 <= KBUF_CAP
      BY <1>1, <1>4
    <3>2. (t + (n + 1) - 1) % KBUF_CAP =
             IF t + (n + 1) - 1 < KBUF_CAP THEN t + (n + 1) - 1
                                           ELSE (t + (n + 1) - 1) - KBUF_CAP
      BY <3>1, SlotOf
    <3>3. QED
      BY <1>1, <3>2 DEF Count
  <2>5. ASSUME NEW i \in 1 .. n PROVE w2[i] = w[i]
    <3>1. i \in Nat /\ 1 <= i /\ i <= KBUF_CAP /\ i \in 1 .. n + 1
      BY <1>1, <1>4
    <3> DEFINE j == (t + i - 1) % KBUF_CAP
    <3>2. j = IF t + i - 1 < KBUF_CAP THEN t + i - 1 ELSE (t + i - 1) - KBUF_CAP
      BY <3>1, SlotOf
    <3>3. w[i] = buf[j] /\ w2[i] = buf2[j]
      BY <1>5, <2>3, <3>1, Zenon
    <3> HIDE DEF j
    <3>4. j \in Slots /\ j # h
      BY <1>1, <3>1, <3>2 DEF Count, Slots
    <3>5. QED
      BY <3>3, <3>4
  <2>6. w2[n + 1] = c
    <3>1. n + 1 \in 1 .. n + 1
      BY <1>4
    <3>2. w2[n + 1] = buf2[h]
      BY <2>3, <2>4, <3>1, Zenon
    <3>3. QED
      BY <3>2
  <2> HIDE DEF n
  <2>7. w2 = Append(w, c)
    BY <1>4, <2>2, <2>5, <2>6
  <2>8. QED
    BY <1>6, <2>7, Zenon DEF w, w2, n
<1>8. QED
  BY <1>6, <1>7

(* Pushing a character offers it to the queue, keeps the indices inside    *)
(* the ring, and leaves the oldest waiting character alone.                *)
LEMMA PushOffers ==
  ASSUME NEW r, r.buf \in [Slots -> Chars], r.head \in Slots,
         KTAIL \in Slots, NEW c \in Chars
  PROVE  LET p == kbuf_push(r, c)
         IN  /\ p.buf \in [Slots -> Chars] /\ p.head \in Slots
             /\ Window(p.buf, p.head, KTAIL) =
                  Queue!Offer(Window(r.buf, r.head, KTAIL), c)
             /\ r.head # KTAIL => /\ p.head # KTAIL
                                  /\ p.buf[KTAIL] = r.buf[KTAIL]
             /\ \/ p = r
                \/ /\ Window(p.buf, p.head, KTAIL) = Append(Window(r.buf, r.head, KTAIL), c)
                   /\ p.intended = Edit(r.intended, c)
<1> DEFINE p == kbuf_push(r, c)
<1>1. PICK buf \in [Slots -> Chars], h \in Slots, t \in Slots :
        buf = r.buf /\ h = r.head /\ t = KTAIL
  OBVIOUS
<1>2. PICK next, buf2 : next = (h + 1) % KBUF_CAP /\ buf2 = [buf EXCEPT ![h] = c]
  OBVIOUS
<1> DEFINE w == Window(buf, h, t)
<1>3. /\ KBUF_CAP \in Nat /\ KBUF_CAP >= 2
      /\ h \in Nat /\ h < KBUF_CAP /\ t \in Nat /\ t < KBUF_CAP
  BY <1>1, KeyboardAssumption DEF Slots
<1>4. next = IF h + 1 < KBUF_CAP THEN h + 1 ELSE 0
  <2>1. PICK y : y = h + 1
    OBVIOUS
  <2>2. y \in Nat /\ y < KBUF_CAP + KBUF_CAP /\ KBUF_CAP \in Nat \ {0}
    BY <1>3, <2>1
  <2>3. y % KBUF_CAP = IF y < KBUF_CAP THEN y ELSE y - KBUF_CAP
    BY <2>2, WrapMod
  <2>4. next = IF y < KBUF_CAP THEN y ELSE y - KBUF_CAP
    BY <1>2, <2>1, <2>3, Zenon
  <2>5. QED
    BY <1>3, <2>1, <2>4
<1>5. next \in Slots /\ buf2 \in [Slots -> Chars]
  BY <1>3, <1>4, <1>1, <1>2 DEF Slots
<1>6. /\ h + 1 < KBUF_CAP => next = h + 1
      /\ h + 1 >= KBUF_CAP => next = 0
      /\ buf2[h] = c
      /\ \A j \in Slots \ {h} : buf2[j] = buf[j]
  BY <1>3, <1>4, <1>1, <1>2
<1>7. buf \in [Slots -> Chars] /\ h \in Slots /\ t \in Slots
  BY <1>1
<1>8. /\ next \in Slots /\ buf2 \in [Slots -> Chars]
      /\ next = t <=> Count(h, t) = KBUF_CAP - 1
      /\ next # t => Window(buf2, next, t) = Append(w, c)
  BY ONLY <1>5, <1>6, <1>7, c \in Chars, WindowPush
<1>9. Count(h, t) \in Nat /\ Count(h, t) < KBUF_CAP /\ Len(w) = Count(h, t)
  BY <1>1, WindowType
<1>10. KBUF_CAP \in Nat
  BY KeyboardAssumption
<1> HIDE DEF w, p
<1>11. CASE next = t
  <2>1. p = r
    BY <1>1, <1>2, <1>11, Zenon DEF kbuf_push, p
  <2>2. Queue!Offer(w, c) = w
    BY <1>8, <1>9, <1>10, <1>11 DEF Queue!Offer
  <2>3. QED
    BY <1>1, <2>1, <2>2, Zenon DEF p, w
<1>12. CASE next # t
  <2>1. p = [buf |-> buf2, head |-> next, intended |-> Edit(r.intended, c)]
    BY <1>1, <1>2, <1>12, Zenon DEF kbuf_push, p
  <2>2. p.buf = buf2 /\ p.head = next /\ p.intended = Edit(r.intended, c)
    BY <2>1
  <2>3. Queue!Offer(w, c) = Append(w, c)
    BY <1>8, <1>9, <1>10, <1>12 DEF Queue!Offer
  <2>4. h # t => buf2[t] = buf[t]
    BY <1>1, <1>2
  <2>5. QED
    BY <1>1, <1>8, <1>12, <2>2, <2>3, <2>4, Zenon DEF p, w
<1>13. QED
  BY <1>11, <1>12

(* The characters a key press pushes are characters of the maps.           *)
LEMMA PushesType ==
  ASSUME NEW scancode \in Scancodes
  PROVE  LET s == Pushes(scancode)
         IN  \/ s = <<>>
             \/ \E c \in Chars : s = <<c>> \/ s = <<c, c, c, c>>
<1>1. DOMAIN MAP_NORMAL = 0 .. 57 /\ DOMAIN MAP_SHIFT = 0 .. 57
  BY DEF MAP_NORMAL, MAP_SHIFT
<1>2. MAP_NORMAL[57] = " " /\ " " # None
  BY DEF MAP_NORMAL, None
<1> HIDE DEF MAP_NORMAL, MAP_SHIFT
<1>3. \A code \in 0 .. 57 : /\ MAP_NORMAL[code] # None => MAP_NORMAL[code] \in Chars
                            /\ MAP_SHIFT[code] # None => MAP_SHIFT[code] \in Chars
  BY DEF Chars, Printable
<1>4. " " \in Chars
  <2>1. 57 \in 0 .. 57
    OBVIOUS
  <2>2. MAP_NORMAL[57] \in Chars
    BY <1>2, <1>3, <2>1
  <2>3. QED
    BY <1>2, <2>2
<1>5. Backspace \in Chars /\ Enter \in Chars
  BY DEF Chars
<1> DEFINE map == IF SHIFT_HELD THEN MAP_SHIFT ELSE MAP_NORMAL
<1>6. \A code \in DOMAIN map : map[code] # None => map[code] \in Chars
  BY <1>1, <1>3
<1> HIDE DEF map
<1>7. \/ Pushes(scancode) = <<>>
      \/ Pushes(scancode) = <<Backspace>>
      \/ Pushes(scancode) = <<Enter>>
      \/ Pushes(scancode) = <<" ", " ", " ", " ">>
      \/ \E code \in DOMAIN map : map[code] # None /\ Pushes(scancode) = <<map[code]>>
  <2> DEFINE code == Code(scancode)
             shows == code \in DOMAIN map /\ map[code] # None
  <2>1. Pushes(scancode) =
          IF IsSilent(scancode) THEN <<>>
          ELSE CASE code = 14 -> <<Backspace>>
                 [] code = 15 -> <<" ", " ", " ", " ">>
                 [] code = 28 -> <<Enter>>
                 [] shows     -> <<map[code]>>
                 [] OTHER     -> <<>>
    BY Zenon DEF Pushes, map
  <2> HIDE DEF code, shows
  <2>2. \/ Pushes(scancode) = <<>>
        \/ Pushes(scancode) = <<Backspace>>
        \/ Pushes(scancode) = <<" ", " ", " ", " ">>
        \/ Pushes(scancode) = <<Enter>>
        \/ shows /\ Pushes(scancode) = <<map[code]>>
    BY <2>1
  <2>3. QED
    BY <2>2 DEF shows
<1>8. QED
  BY <1>4, <1>5, <1>6, <1>7

(* A key press is one arrival at the queue, or none.                       *)
LEMMA PressArrives ==
  ASSUME KBUF \in [Slots -> Chars], KHEAD \in Slots, KTAIL \in Slots,
         NEW scancode \in Scancodes
  PROVE  LET p == PushAll(Pushes(scancode))
             v == Window(p.buf, p.head, KTAIL)
         IN  /\ p.buf \in [Slots -> Chars] /\ p.head \in Slots
             /\ KHEAD # KTAIL => p.head # KTAIL /\ p.buf[KTAIL] = KBUF[KTAIL]
             /\ \/ v = Contents
                \/ \E c \in Chars :
                     \/ v = Queue!Offer(Contents, c)
                     \/ v = Queue!Offer(Queue!Offer(Queue!Offer(Queue!Offer(Contents, c), c), c), c)
<1> DEFINE s == Pushes(scancode)
           p == PushAll(s)
<1>1. Ring.buf = KBUF /\ Ring.head = KHEAD
  BY DEF Ring
<1>2. Contents = Window(Ring.buf, Ring.head, KTAIL)
  BY <1>1, ContentsWindow
<1>3. \/ s = <<>>
      \/ \E c \in Chars : s = <<c>> \/ s = <<c, c, c, c>>
  BY PushesType
<1> HIDE DEF s, Ring
<1>4. CASE s = <<>>
  <2>1. p = Ring
    BY <1>4 DEF PushAll
  <2>2. QED
    BY <1>1, <1>2, <2>1, Zenon DEF s
<1>5. ASSUME NEW c \in Chars, s = <<c>>
      PROVE  /\ p.buf \in [Slots -> Chars] /\ p.head \in Slots
             /\ KHEAD # KTAIL => p.head # KTAIL /\ p.buf[KTAIL] = KBUF[KTAIL]
             /\ Window(p.buf, p.head, KTAIL) = Queue!Offer(Contents, c)
  <2>1. p = kbuf_push(Ring, c)
    BY <1>5 DEF PushAll
  <2> HIDE DEF p
  <2>2. QED
    BY <1>1, <1>2, <2>1, PushOffers
<1>6. ASSUME NEW c \in Chars, s = <<c, c, c, c>>
      PROVE  /\ p.buf \in [Slots -> Chars] /\ p.head \in Slots
             /\ KHEAD # KTAIL => p.head # KTAIL /\ p.buf[KTAIL] = KBUF[KTAIL]
             /\ Window(p.buf, p.head, KTAIL) =
                  Queue!Offer(Queue!Offer(Queue!Offer(Queue!Offer(Contents, c), c), c), c)
  <2> DEFINE r1 == kbuf_push(Ring, c)
             r2 == kbuf_push(r1, c)
             r3 == kbuf_push(r2, c)
             r4 == kbuf_push(r3, c)
             Good(r) == /\ r.buf \in [Slots -> Chars] /\ r.head \in Slots
                        /\ KHEAD # KTAIL => r.head # KTAIL /\ r.buf[KTAIL] = KBUF[KTAIL]
             W(r) == Window(r.buf, r.head, KTAIL)
  <2>1. p = r4
    BY <1>6 DEF PushAll
  <2>2. ASSUME NEW r, Good(r)
        PROVE  Good(kbuf_push(r, c)) /\ W(kbuf_push(r, c)) = Queue!Offer(W(r), c)
    BY <2>2, PushOffers
  <2>3. Good(Ring) /\ W(Ring) = Contents
    BY <1>1, <1>2
  <2> HIDE DEF p, Good, W
  <2>4. Good(r1) /\ W(r1) = Queue!Offer(Contents, c)
    BY <2>2, <2>3, Zenon
  <2> HIDE DEF r1
  <2>5. Good(r2) /\ W(r2) = Queue!Offer(W(r1), c)
    BY <2>2, <2>4, Zenon
  <2> HIDE DEF r2
  <2>6. Good(r3) /\ W(r3) = Queue!Offer(W(r2), c)
    BY <2>2, <2>5, Zenon
  <2> HIDE DEF r3
  <2>7. Good(r4) /\ W(r4) = Queue!Offer(W(r3), c)
    BY <2>2, <2>6, Zenon
  <2> HIDE DEF r4
  <2>8. QED
    BY <2>1, <2>4, <2>5, <2>6, <2>7, Zenon DEF Good, W
<1>7. QED
  BY <1>3, <1>4, <1>5, <1>6, Zenon DEF s

(* Storing the next index into KTAIL removes the oldest character.         *)
LEMMA WindowPop ==
  ASSUME NEW buf \in [Slots -> Chars], NEW h \in Slots, NEW t \in Slots, h # t,
         NEW next \in Slots,
         t + 1 < KBUF_CAP => next = t + 1, t + 1 >= KBUF_CAP => next = 0
  PROVE  /\ Window(buf, h, t) # <<>>
         /\ Head(Window(buf, h, t)) = buf[t]
         /\ Window(buf, h, next) = Tail(Window(buf, h, t))
<1> DEFINE n == Count(h, t)
           w == Window(buf, h, t)
           w2 == Window(buf, h, next)
<1>1. /\ KBUF_CAP \in Nat /\ KBUF_CAP >= 2
      /\ h \in Nat /\ h < KBUF_CAP /\ t \in Nat /\ t < KBUF_CAP
      /\ next = IF t + 1 < KBUF_CAP THEN t + 1 ELSE 0
  BY KeyboardAssumption DEF Slots
<1>2. n \in Nat /\ n < KBUF_CAP /\ n # 0 /\ w \in Seq(Chars) /\ Len(w) = n
  BY WindowType
<1>3. ASSUME NEW i \in 1 .. n PROVE w[i] = buf[(t + i - 1) % KBUF_CAP]
  BY ONLY <1>3, buf \in [Slots -> Chars], h \in Slots, t \in Slots, WindowAt
<1>4. Count(h, next) = n - 1
  BY <1>1 DEF Count
<1>5. w2 \in Seq(Chars) /\ Len(w2) = n - 1
  BY <1>4, WindowType
<1>6. ASSUME NEW i \in 1 .. n - 1 PROVE w2[i] = buf[(next + i - 1) % KBUF_CAP]
  <2>1. ASSUME NEW j \in 1 .. Count(h, next)
        PROVE  w2[j] = buf[(next + j - 1) % KBUF_CAP]
    BY WindowType
  <2>2. QED
    BY <1>4, <2>1, Zenon
<1> HIDE DEF n, w, w2
<1>7. w[1] = buf[t]
  <2>1. 1 \in 1 .. n /\ 1 \in Nat /\ 1 <= 1 /\ 1 <= KBUF_CAP
    BY <1>1, <1>2
  <2>2. (t + 1 - 1) % KBUF_CAP = t
    <3>1. (t + 1 - 1) % KBUF_CAP =
            IF t + 1 - 1 < KBUF_CAP THEN t + 1 - 1 ELSE (t + 1 - 1) - KBUF_CAP
      BY <2>1, SlotOf
    <3>2. QED
      BY <1>1, <3>1
  <2>3. w[1] = buf[(t + 1 - 1) % KBUF_CAP]
    BY <1>3, <2>1, Zenon
  <2>4. QED
    BY <2>2, <2>3, Zenon
<1>8. ASSUME NEW i \in 1 .. n - 1 PROVE w2[i] = w[i + 1]
  <2>1. /\ i \in Nat /\ 1 <= i /\ i <= KBUF_CAP
        /\ i + 1 \in 1 .. n /\ i + 1 \in Nat /\ 1 <= i + 1 /\ i + 1 <= KBUF_CAP
    BY <1>1, <1>2
  <2>2. (next + i - 1) % KBUF_CAP =
          IF next + i - 1 < KBUF_CAP THEN next + i - 1 ELSE (next + i - 1) - KBUF_CAP
    BY <2>1, SlotOf
  <2>3. (t + (i + 1) - 1) % KBUF_CAP =
          IF t + (i + 1) - 1 < KBUF_CAP THEN t + (i + 1) - 1 ELSE (t + (i + 1) - 1) - KBUF_CAP
    BY <2>1, SlotOf
  <2> DEFINE j == (next + i - 1) % KBUF_CAP
             k == (t + (i + 1) - 1) % KBUF_CAP
  <2>4. w2[i] = buf[j] /\ w[i + 1] = buf[k]
    BY <1>3, <1>6, <2>1, Zenon
  <2> HIDE DEF j, k
  <2>5. j = k
    BY <1>1, <1>2, <2>1, <2>2, <2>3 DEF j, k
  <2>6. QED
    BY <2>4, <2>5
<1>9. w # <<>> /\ Head(w) = buf[t] /\ w2 = Tail(w)
  BY <1>2, <1>5, <1>7, <1>8
<1>10. QED
  BY <1>9 DEF w, w2

(* Offering changes nothing, or makes the character the youngest one.      *)
LEMMA OfferLast ==
  ASSUME NEW q \in Seq(Chars), NEW c \in Chars
  PROVE  LET o == Queue!Offer(q, c)
         IN  /\ o \in Seq(Chars)
             /\ o = q \/ (o # <<>> /\ o[Len(o)] = c)
BY DEF Queue!Offer

(* Pushing the four spaces of a tab too.                                   *)
LEMMA OffersLast ==
  ASSUME NEW q \in Seq(Chars), NEW c \in Chars
  PROVE  LET o == Queue!Offer(Queue!Offer(Queue!Offer(Queue!Offer(q, c), c), c), c)
         IN  o = q \/ (o # <<>> /\ o[Len(o)] = c)
<1> DEFINE o1 == Queue!Offer(q, c)
           o2 == Queue!Offer(o1, c)
           o3 == Queue!Offer(o2, c)
           o4 == Queue!Offer(o3, c)
           Youngest(o) == o # <<>> /\ o[Len(o)] = c
<1>1. ASSUME NEW x \in Seq(Chars)
      PROVE  LET o == Queue!Offer(x, c)
             IN  o \in Seq(Chars) /\ (o = x \/ Youngest(o))
  BY OfferLast
<1> HIDE DEF Youngest
<1>2. o1 \in Seq(Chars) /\ (o1 = q \/ Youngest(o1))
  BY <1>1, Zenon
<1> HIDE DEF o1
<1>3. o2 \in Seq(Chars) /\ (o2 = o1 \/ Youngest(o2))
  BY <1>1, <1>2, Zenon
<1> HIDE DEF o2
<1>4. o3 \in Seq(Chars) /\ (o3 = o2 \/ Youngest(o3))
  BY <1>1, <1>3, Zenon
<1> HIDE DEF o3
<1>5. o4 = o3 \/ Youngest(o4)
  BY <1>1, <1>4, Zenon
<1> HIDE DEF o4
<1>6. o4 = q \/ Youngest(o4)
  BY <1>2, <1>3, <1>4, <1>5
<1>7. QED
  BY <1>6, Zenon DEF Youngest, o4, o3, o2, o1

(* One more than an index, as the code computes it.                        *)
LEMMA NextSlot ==
  ASSUME NEW t \in Slots
  PROVE  /\ (t + 1) % KBUF_CAP \in Slots
         /\ t + 1 < KBUF_CAP => (t + 1) % KBUF_CAP = t + 1
         /\ t + 1 >= KBUF_CAP => (t + 1) % KBUF_CAP = 0
<1>1. KBUF_CAP \in Nat \ {0} /\ t \in Nat /\ t < KBUF_CAP
  BY KeyboardAssumption DEF Slots
<1>2. PICK y : y = t + 1
  OBVIOUS
<1>3. y \in Nat /\ y < KBUF_CAP + KBUF_CAP
  BY <1>1, <1>2, KeyboardAssumption
<1>4. y % KBUF_CAP = IF y < KBUF_CAP THEN y ELSE y - KBUF_CAP
  BY <1>1, <1>3, WrapMod
<1>5. (t + 1) % KBUF_CAP = IF y < KBUF_CAP THEN y ELSE y - KBUF_CAP
  BY <1>2, <1>4, Zenon
<1>6. QED
  BY <1>1, <1>2, <1>5 DEF Slots

(* The shell's copy of KTAIL is current and the byte it read is the oldest *)
(* one, whatever interrupts come between the accesses of poll_char.        *)
THEOREM RingInvariant == Spec => []KeyboardInv
<1>1. Init => KeyboardInv
  BY KeyboardAssumption DEF Init, KeyboardInv, Slots, Chars
<1>2. KeyboardInv /\ [Next]_vars => KeyboardInv'
  <2> SUFFICES ASSUME KeyboardInv, [Next]_vars
               PROVE  KeyboardInv'
    OBVIOUS
  <2> USE DEF KeyboardInv
  <2>1. ASSUME NEW scancode \in Scancodes, KeyboardInterrupt(scancode)
        PROVE  KeyboardInv'
    <3> DEFINE p == PushAll(Pushes(scancode))
    <3>1. /\ p.buf \in [Slots -> Chars] /\ p.head \in Slots
          /\ KHEAD # KTAIL => p.head # KTAIL /\ p.buf[KTAIL] = KBUF[KTAIL]
      BY PressArrives
    <3>2. /\ KBUF' = p.buf /\ KHEAD' = p.head /\ KTAIL' = KTAIL
          /\ tail' = tail /\ byte' = byte /\ build' = build
          /\ pc' = IF pc = "hlt" THEN "tail" ELSE pc
      BY <2>1, Zenon DEF KeyboardInterrupt, handle_scancode, Wake, shellVars
    <3> HIDE DEF p
    <3>3. QED
      BY <3>1, <3>2
  <2>2. CASE TimerInterrupt
    BY <2>2 DEF TimerInterrupt, Wake, isrVars, shellVars
  <2>3. CASE LoadTail
    BY <2>3 DEF LoadTail, isrVars
  <2>4. CASE LoadHead
    BY <2>4 DEF LoadHead, isrVars, shellVars
  <2>5. CASE ReadSlot
    BY <2>5 DEF ReadSlot, isrVars
  <2>6. CASE StoreTail
    <3>1. KTAIL' \in Slots
      BY <2>6, NextSlot DEF StoreTail
    <3>2. QED
      BY <2>6, <3>1 DEF StoreTail, isrVars
  <2>7. CASE EditLine
    BY <2>7 DEF EditLine, isrVars
  <2>8. CASE Halt
    BY <2>8 DEF Halt, isrVars, shellVars
  <2>9. CASE UNCHANGED vars
    BY <2>9 DEF vars, isrVars, shellVars
  <2>10. QED
    BY <2>1, <2>2, <2>3, <2>4, <2>5, <2>6, <2>7, <2>8, <2>9 DEF Next, MainLoop
<1>3. QED
  BY <1>1, <1>2, PTL DEF Spec

(***************************************************************************)
(* In a build whose read of KBUF loads memory the ring is a queue between  *)
(* the interrupt handler and the shell: characters come out in the order   *)
(* they went in, none is lost, repeated or altered, and one is dropped     *)
(* only when KBUF_CAP - 1 are waiting.                                     *)
(***************************************************************************)
THEOREM RingIsQueue == Spec /\ build = "memory" => ImplementsInputQueue
<1>1. Init => Queue!AbsInit
  <2>1. SUFFICES ASSUME Init PROVE Contents = <<>> /\ polled = "none"
    BY DEF Queue!AbsInit
  <2>2. QED
    BY <2>1 DEF Init, Contents, Waiting
<1>2. build = "memory" /\ [Next]_vars => (build = "memory")'
  BY DEF Next, vars, KeyboardInterrupt, TimerInterrupt, MainLoop, LoadTail,
         LoadHead, ReadSlot, StoreTail, EditLine, Halt
<1>3. KeyboardInv /\ build = "memory" /\ [Next]_vars => [Queue!AbsNext]_(Queue!absVars)
  <2> SUFFICES ASSUME KeyboardInv, build = "memory", [Next]_vars
               PROVE  \/ Queue!AbsNext
                      \/ Contents' = Contents /\ polled' = polled
    BY Zenon DEF Queue!absVars
  <2>1. KBUF \in [Slots -> Chars] /\ KHEAD \in Slots /\ KTAIL \in Slots
    BY DEF KeyboardInv
  <2>2. Contents' = Window(KBUF', KHEAD', KTAIL')
    BY DEF Contents, Waiting, Window, Count
  <2>3. ASSUME UNCHANGED <<KBUF, KHEAD, KTAIL, polled>>
        PROVE  Contents' = Contents /\ polled' = polled
    <3>1. Contents' = Window(KBUF, KHEAD, KTAIL)
      BY <2>2, <2>3, Zenon
    <3>2. QED
      BY <2>3, <3>1, ContentsWindow, Zenon
  <2>4. ASSUME NEW scancode \in Scancodes, KeyboardInterrupt(scancode)
        PROVE  Queue!AbsNext \/ (Contents' = Contents /\ polled' = polled)
    <3> DEFINE p == PushAll(Pushes(scancode))
               v == Window(p.buf, p.head, KTAIL)
               four(c) == Queue!Offer(Queue!Offer(Queue!Offer(Queue!Offer(Contents, c), c), c), c)
    <3>1. KBUF' = p.buf /\ KHEAD' = p.head /\ KTAIL' = KTAIL /\ polled' = polled
      BY <2>4, Zenon DEF KeyboardInterrupt, handle_scancode, shellVars
    <3>2. Contents' = v
      BY <2>2, <3>1, Zenon
    <3>3. \/ v = Contents
          \/ \E c \in Chars : v = Queue!Offer(Contents, c) \/ v = four(c)
      BY <2>1, PressArrives
    <3> HIDE DEF p, v
    <3>4. Contents \in Seq(Chars)
      BY <2>1, ContentsWindow, WindowType
    <3>5. ASSUME NEW c \in Chars, v = Queue!Offer(Contents, c) \/ v = four(c)
          PROVE  v = Contents \/ Queue!AbsNext
      <4>1. v = Contents \/ (v # <<>> /\ v[Len(v)] = c)
        <5> HIDE DEF four
        <5>1. CASE v = Queue!Offer(Contents, c)
          BY <3>4, <5>1, OfferLast
        <5>2. CASE v = four(c)
          BY <3>4, <5>2, OffersLast, Zenon DEF four
        <5>3. QED
          BY <3>5, <5>1, <5>2
      <4>2. CASE v # <<>> /\ v[Len(v)] = c
        <5>1. Queue!Arrive(c)
          BY <3>1, <3>2, <3>5, Zenon DEF Queue!Arrive
        <5>2. QED
          BY <3>2, <4>2, <5>1, Zenon DEF Queue!AbsNext
      <4>3. QED
        BY <4>1, <4>2
    <3>6. QED
      BY <3>1, <3>2, <3>3, <3>5, Zenon
  <2>5. CASE StoreTail
    <3>1. /\ tail = KTAIL /\ KHEAD # KTAIL /\ byte = KBUF[KTAIL]
          /\ KTAIL' = (KTAIL + 1) % KBUF_CAP /\ polled' = byte
          /\ KBUF' = KBUF /\ KHEAD' = KHEAD
      BY <2>5 DEF StoreTail, KeyboardInv, isrVars
    <3>2. PICK b, h, t, next :
            b = KBUF /\ h = KHEAD /\ t = KTAIL /\ next = KTAIL'
      BY Zenon
    <3>3. b \in [Slots -> Chars] /\ h \in Slots /\ t \in Slots /\ h # t
      BY <2>1, <3>1, <3>2, Zenon
    <3>4. next = (t + 1) % KBUF_CAP
      BY <3>1, <3>2, Zenon
    <3>5. /\ next \in Slots
          /\ t + 1 < KBUF_CAP => next = t + 1
          /\ t + 1 >= KBUF_CAP => next = 0
      BY <3>3, <3>4, NextSlot, Zenon
    <3>6. /\ Window(b, h, t) # <<>>
          /\ Head(Window(b, h, t)) = b[t]
          /\ Window(b, h, next) = Tail(Window(b, h, t))
      BY <3>3, <3>5, WindowPop
    <3>7. Contents = Window(b, h, t) /\ Contents' = Window(b, h, next)
      BY <2>2, <3>1, <3>2, ContentsWindow, Zenon
    <3>8. Contents # <<>> /\ polled' = Head(Contents) /\ Contents' = Tail(Contents)
      BY <3>1, <3>2, <3>6, <3>7, Zenon
    <3>9. QED
      BY <3>8, Zenon DEF Queue!AbsNext, Queue!Take
  <2>6. CASE TimerInterrupt \/ LoadTail \/ LoadHead \/ ReadSlot \/ EditLine
             \/ Halt \/ UNCHANGED vars
    <3>1. UNCHANGED <<KBUF, KHEAD, KTAIL, polled>>
      BY <2>6 DEF TimerInterrupt, LoadTail, LoadHead, ReadSlot, EditLine, Halt,
                  vars, isrVars, shellVars
    <3>2. QED
      BY <2>3, <3>1
  <2>7. QED
    BY <2>4, <2>5, <2>6 DEF Next, MainLoop
<1>4. QED
  BY <1>1, <1>2, <1>3, RingInvariant, PTL DEF Spec, ImplementsInputQueue, Queue!AbsSpec

(* Editing a line keeps it a line: shell::step never writes past LINE.     *)
LEMMA EditType ==
  ASSUME NEW s \in [line : Line, executed : Line], NEW c
  PROVE  Edit(s, c) \in [line : Line, executed : Line]
<1>1. LINE_LEN \in Nat
  BY KeyboardAssumption
<1>2. \A l \in Line : l \in Seq(Printable) /\ Len(l) \in Nat /\ Len(l) <= LINE_LEN
  BY DEF Line
<1>3. <<>> \in Line
  BY <1>1 DEF Line
<1>4. s.line \in Line /\ s.executed \in Line
  OBVIOUS
<1>5. ASSUME s.line # <<>> PROVE SubSeq(s.line, 1, Len(s.line) - 1) \in Line
  BY <1>1, <1>2, <1>4, <1>5 DEF Line
<1>6. ASSUME c \in Printable, Len(s.line) < LINE_LEN
      PROVE  Append(s.line, c) \in Line
  BY <1>1, <1>2, <1>4, <1>6 DEF Line
<1> HIDE DEF Line
<1>7. \/ Edit(s, c) = [line |-> <<>>, executed |-> s.line]
      \/ /\ s.line # <<>>
         /\ Edit(s, c) = [s EXCEPT !.line = SubSeq(s.line, 1, Len(s.line) - 1)]
      \/ /\ c \in Printable /\ Len(s.line) < LINE_LEN
         /\ Edit(s, c) = [s EXCEPT !.line = Append(s.line, c)]
      \/ Edit(s, c) = s
  <2> HIDE DEF Printable
  <2>1. QED
    BY DEF Edit
<1>8. ASSUME NEW l \in Line
      PROVE  [s EXCEPT !.line = l] \in [line : Line, executed : Line]
  OBVIOUS
<1>9. [line |-> <<>>, executed |-> s.line] \in [line : Line, executed : Line]
  BY <1>3, <1>4
<1>10. QED
  BY <1>5, <1>6, <1>7, <1>8, <1>9, Zenon

(* KHEAD and KTAIL stay inside KBUF, and LEN inside LINE.                  *)
THEOREM KeyboardTypeCorrect == Spec => []TypeOK
<1>1. Init => TypeOK
  <2>1. <<>> \in Line
    BY KeyboardAssumption DEF Line
  <2>2. SUFFICES ASSUME Init PROVE TypeOK
    OBVIOUS
  <2>3. 0 \in Slots /\ Nul \in Chars
    BY KeyboardAssumption DEF Slots, Chars
  <2>4. KBUF \in [Slots -> Chars]
    BY <2>2, <2>3 DEF Init, Slots
  <2>5. shell \in [line : Line, executed : Line]
    BY <2>1, <2>2 DEF Init
  <2>6. QED
    BY <2>2, <2>3, <2>4, <2>5 DEF Init, TypeOK
<1>2. TypeOK /\ [Next]_vars => TypeOK'
  <2> SUFFICES ASSUME TypeOK, [Next]_vars
               PROVE  TypeOK'
    OBVIOUS
  <2> USE DEF TypeOK
  <2>1. ASSUME NEW scancode \in Scancodes, KeyboardInterrupt(scancode)
        PROVE  TypeOK'
    <3> DEFINE p == PushAll(Pushes(scancode))
    <3>1. p.buf \in [Slots -> Chars] /\ p.head \in Slots
      BY PressArrives
    <3>2. KBUF' = p.buf /\ KHEAD' = p.head
      BY <2>1, Zenon DEF KeyboardInterrupt, handle_scancode
    <3>3. CTRL_HELD' \in BOOLEAN /\ SHIFT_HELD' \in BOOLEAN /\ running' \in BOOLEAN
      BY <2>1, Zenon DEF KeyboardInterrupt, handle_scancode, IsRelease, IsShutdown
    <3>4. /\ pc' = IF pc = "hlt" THEN "tail" ELSE pc
          /\ UNCHANGED <<KTAIL, tail, byte, polled, shell, build>>
      BY <2>1, Zenon DEF KeyboardInterrupt, Wake, shellVars
    <3> HIDE DEF p
    <3>5. QED
      BY <3>1, <3>2, <3>3, <3>4
  <2>2. CASE TimerInterrupt
    BY <2>2 DEF TimerInterrupt, Wake, isrVars, shellVars
  <2>3. CASE LoadTail
    BY <2>3 DEF LoadTail, isrVars
  <2>4. CASE LoadHead
    BY <2>4 DEF LoadHead, isrVars, shellVars
  <2>5. CASE ReadSlot
    <3>1. KBUF[tail] \in Chars /\ Nul \in Chars
      BY DEF Chars
    <3>2. QED
      BY <2>5, <3>1 DEF ReadSlot, isrVars
  <2>6. CASE StoreTail
    <3>1. KTAIL' \in Slots
      BY <2>6, NextSlot DEF StoreTail
    <3>2. QED
      BY <2>6, <3>1 DEF StoreTail, isrVars
  <2>7. CASE EditLine
    <3>1. shell' \in [line : Line, executed : Line]
      BY <2>7, EditType DEF EditLine
    <3>2. QED
      BY <2>7, <3>1 DEF EditLine, isrVars
  <2>8. CASE Halt
    BY <2>8 DEF Halt, isrVars, shellVars
  <2>9. CASE UNCHANGED vars
    BY <2>9 DEF vars, isrVars, shellVars
  <2>10. QED
    BY <2>1, <2>2, <2>3, <2>4, <2>5, <2>6, <2>7, <2>8, <2>9 DEF Next, MainLoop
<1>3. QED
  BY <1>1, <1>2, PTL DEF Spec
-----------------------------------------------------------------------------
(* The recursion that defines EditAll has a solution, by induction on the  *)
(* number of characters it is cut off at.                                  *)
LEMMA EditAllRuns ==
  ASSUME NEW S, NEW q \in Seq(S), NEW s
  PROVE  \E g : /\ g[0] = s
                /\ \A i \in 1 .. Len(q) : g[i] = Edit(g[i - 1], q[i])
                /\ EditAll(s, q) = g[Len(q)]
<1> DEFINE n == Len(q)
           Solves(g, k) == g = [i \in 0 .. k |-> IF i = 0 THEN s ELSE Edit(g[i - 1], q[i])]
           T == {k \in 0 .. n : ~ \E g : Solves(g, k)}
           after == CHOOSE g : Solves(g, n)
<1>1. n \in Nat
  OBVIOUS
<1> HIDE DEF n
<1>2. T = {}
  <2> SUFFICES ASSUME T # {} PROVE FALSE
    OBVIOUS
  <2>1. PICK m \in T : \A k \in T : m <= k
    <3>1. T \in SUBSET Nat
      BY <1>1
    <3>2. QED
      BY <3>1, LeastNumber
  <2>2. CASE m = 0
    <3> DEFINE g == [i \in 0 .. 0 |-> s]
    <3>1. Solves(g, 0)
      OBVIOUS
    <3>2. QED
      BY <2>1, <2>2, <3>1
  <2>3. CASE m # 0
    <3>1. m - 1 \in 0 .. n /\ m - 1 \notin T /\ m \in Nat \ {0}
      <4>1. m \in 0 .. n
        BY <2>1
      <4> HIDE DEF T
      <4>2. QED
        BY <1>1, <2>1, <2>3, <4>1
    <3>2. PICK g : Solves(g, m - 1)
      BY <3>1, Zenon
    <3> DEFINE f == [i \in 0 .. m |-> IF i = m THEN Edit(g[m - 1], q[m]) ELSE g[i]]
    <3>3. \A i \in 0 .. m : f[i] = IF i = 0 THEN s ELSE Edit(f[i - 1], q[i])
      <4> SUFFICES ASSUME NEW i \in 0 .. m
                   PROVE  f[i] = IF i = 0 THEN s ELSE Edit(f[i - 1], q[i])
        OBVIOUS
      <4>1. CASE i = m
        <5>1. f[i] = Edit(g[m - 1], q[m]) /\ f[i - 1] = g[m - 1] /\ i # 0
          BY <3>1, <4>1
        <5>2. QED
          BY <4>1, <5>1
      <4>2. CASE i # m
        <5>1. f[i] = g[i] /\ (i # 0 => f[i - 1] = g[i - 1]) /\ i \in 0 .. m - 1
          BY <3>1, <4>2
        <5>2. g[i] = IF i = 0 THEN s ELSE Edit(g[i - 1], q[i])
          BY <3>2, <5>1
        <5>3. QED
          BY <5>1, <5>2
      <4>3. QED
        BY <4>1, <4>2
    <3>4. Solves(f, m)
      BY <3>3
    <3>5. QED
      BY <2>1, <3>4
  <2>4. QED
    BY <2>2, <2>3
<1>3. \E g : Solves(g, n)
  <2>1. n \in 0 .. n
    BY <1>1
  <2>2. n \notin T
    <3> HIDE DEF T
    <3> QED
      BY <1>2
  <2>3. QED
    BY <2>1, <2>2, Zenon
<1>4. Solves(after, n)
  BY <1>3, Zenon
<1>5. EditAll(s, q) = after[n]
  BY Zenon DEF EditAll, n
<1> HIDE DEF after
<1>6. after[0] = s /\ \A i \in 1 .. n : after[i] = Edit(after[i - 1], q[i])
  BY <1>1, <1>4
<1>7. QED
  BY <1>5, <1>6 DEF n

(* And only one solution.                                                  *)
LEMMA EditAllUnique ==
  ASSUME NEW S, NEW q \in Seq(S), NEW s, NEW h, h[0] = s,
         \A i \in 1 .. Len(q) : h[i] = Edit(h[i - 1], q[i])
  PROVE  EditAll(s, q) = h[Len(q)]
<1>1. PICK g : /\ g[0] = s
               /\ \A i \in 1 .. Len(q) : g[i] = Edit(g[i - 1], q[i])
               /\ EditAll(s, q) = g[Len(q)]
  BY EditAllRuns
<1> DEFINE n == Len(q)
           T == {k \in 0 .. n : g[k] # h[k]}
<1>2. n \in Nat
  OBVIOUS
<1> HIDE DEF n
<1>3. T = {}
  <2> SUFFICES ASSUME T # {} PROVE FALSE
    OBVIOUS
  <2>1. PICK m \in T : \A k \in T : m <= k
    <3>1. T \in SUBSET Nat
      BY <1>2
    <3>2. QED
      BY <3>1, LeastNumber
  <2>2. m \in 1 .. n /\ m - 1 \in 0 .. n /\ m - 1 \notin T
    BY <1>1, <1>2, <2>1
  <2>3. g[m] = Edit(g[m - 1], q[m]) /\ h[m] = Edit(h[m - 1], q[m]) /\ g[m - 1] = h[m - 1]
    BY <1>1, <2>2 DEF n
  <2>4. QED
    BY <2>1, <2>3
<1>4. g[n] = h[n]
  BY <1>2, <1>3
<1>5. QED
  BY <1>1, <1>4 DEF n

LEMMA EditAllEmpty ==
  ASSUME NEW s
  PROVE  EditAll(s, <<>>) = s
<1> DEFINE q == <<>>
<1>1. q \in Seq(Chars) /\ Len(q) = 0
  OBVIOUS
<1> HIDE DEF q
<1>2. PICK g : /\ g[0] = s
               /\ \A i \in 1 .. Len(q) : g[i] = Edit(g[i - 1], q[i])
               /\ EditAll(s, q) = g[Len(q)]
  BY <1>1, EditAllRuns
<1>3. QED
  BY <1>1, <1>2 DEF q

(* A character more at the end is one edit after the others.               *)
LEMMA EditAllAppend ==
  ASSUME NEW S, NEW q \in Seq(S), NEW s, NEW c \in S
  PROVE  EditAll(s, Append(q, c)) = Edit(EditAll(s, q), c)
<1>1. PICK g : /\ g[0] = s
               /\ \A i \in 1 .. Len(q) : g[i] = Edit(g[i - 1], q[i])
               /\ EditAll(s, q) = g[Len(q)]
  BY EditAllRuns
<1> DEFINE n == Len(q)
           r == Append(q, c)
           h == [i \in 0 .. n + 1 |-> IF i = n + 1 THEN Edit(g[n], c) ELSE g[i]]
<1>2. n \in Nat /\ r \in Seq(S) /\ Len(r) = n + 1 /\ r[n + 1] = c
      /\ \A i \in 1 .. n : r[i] = q[i]
  OBVIOUS
<1> HIDE DEF n, r
<1>3. /\ h[0] = s /\ h[n + 1] = Edit(g[n], c) /\ h[n] = g[n]
      /\ \A i \in 1 .. n : h[i] = g[i] /\ h[i - 1] = g[i - 1]
  BY <1>1, <1>2
<1> HIDE DEF h
<1>4. \A i \in 1 .. n + 1 : h[i] = Edit(h[i - 1], r[i])
  <2> TAKE i \in 1 .. n + 1
  <2>1. CASE i = n + 1
    <3>1. i - 1 = n
      BY <1>2, <2>1
    <3>2. QED
      BY <1>2, <1>3, <2>1, <3>1
  <2>2. CASE i # n + 1
    <3>1. i \in 1 .. n
      BY <1>2, <2>2
    <3>2. g[i] = Edit(g[i - 1], q[i])
      BY <1>1, <3>1 DEF n
    <3>3. QED
      BY <1>2, <1>3, <3>1, <3>2
  <2>3. QED
    BY <2>1, <2>2
<1>5. EditAll(s, r) = h[n + 1]
  BY <1>2, <1>3, <1>4, EditAllUnique
<1>6. QED
  BY <1>1, <1>3, <1>5 DEF n, r

(* The first character can be edited first.                                *)
LEMMA EditAllFirst ==
  ASSUME NEW S, NEW q \in Seq(S), NEW s, q # <<>>
  PROVE  EditAll(s, q) = EditAll(Edit(s, Head(q)), Tail(q))
<1>1. PICK g : /\ g[0] = s
               /\ \A i \in 1 .. Len(q) : g[i] = Edit(g[i - 1], q[i])
               /\ EditAll(s, q) = g[Len(q)]
  BY EditAllRuns
<1> DEFINE n == Len(q)
           r == Tail(q)
           h == [i \in 0 .. n - 1 |-> g[i + 1]]
           x == Edit(s, Head(q))
<1>2. n \in Nat \ {0} /\ r \in Seq(S) /\ Len(r) = n - 1 /\ Head(q) = q[1]
      /\ \A i \in 1 .. n - 1 : r[i] = q[i + 1]
  OBVIOUS
<1> HIDE DEF n, r
<1>3. /\ h[0] = g[1] /\ h[n - 1] = g[n]
      /\ \A i \in 1 .. n - 1 : h[i] = g[i + 1] /\ h[i - 1] = g[i]
  BY <1>2
<1> HIDE DEF h
<1>4. h[0] = x
  <2>1. 1 \in 1 .. n /\ 1 - 1 = 0
    BY <1>2
  <2>2. g[1] = Edit(g[0], q[1])
    BY <1>1, <2>1 DEF n
  <2>3. QED
    BY <1>1, <1>2, <1>3, <2>2
<1> HIDE DEF x
<1>5. \A i \in 1 .. n - 1 : h[i] = Edit(h[i - 1], r[i])
  <2> TAKE i \in 1 .. n - 1
  <2>1. i + 1 \in 1 .. n /\ (i + 1) - 1 = i
    BY <1>2
  <2>2. g[i + 1] = Edit(g[i], q[i + 1])
    BY <1>1, <2>1 DEF n
  <2>3. QED
    BY <1>2, <1>3, <2>2
<1>6. EditAll(x, r) = h[n - 1]
  BY <1>2, <1>4, <1>5, EditAllUnique
<1>7. QED
  BY <1>1, <1>3, <1>6 DEF n, r, x

(* The shell with the character that poll_char has just returned.          *)
Reader == IF pc = "edit" THEN Edit(shell, polled) ELSE shell

LEMMA PipelineIs ==
  ASSUME Contents \in Seq(Chars)
  PROVE  PipelineFaithful <=> EditAll(Reader, Contents) = intended
<1>1. CASE pc = "edit"
  <2> DEFINE q == <<polled>> \o Contents
  <2>1. q \in Seq(Chars \cup {polled}) /\ q # <<>> /\ Head(q) = polled /\ Tail(q) = Contents
    <3> HIDE DEF Chars, Contents
    <3>1. Contents \in Seq(Chars \cup {polled}) /\ <<polled>> \in Seq(Chars \cup {polled})
      OBVIOUS
    <3>2. q \in Seq(Chars \cup {polled}) /\ Len(q) = 1 + Len(Contents) /\ q[1] = polled
      BY <3>1
    <3>3. \A i \in 1 .. Len(Contents) : q[i + 1] = Contents[i]
      BY <3>1
    <3>4. QED
      BY <3>1, <3>2, <3>3
  <2> HIDE DEF q
  <2>2. EditAll(shell, q) = EditAll(Edit(shell, polled), Contents)
    BY <2>1, EditAllFirst
  <2>3. QED
    BY <1>1, <2>2, Zenon DEF PipelineFaithful, Reader, q
<1>2. CASE pc # "edit"
  <2>1. <<>> \o Contents = Contents
    <3> HIDE DEF Chars, Contents
    <3> QED
      OBVIOUS
  <2>2. QED
    BY <1>2, <2>1, Zenon DEF PipelineFaithful, Reader
<1>3. QED
  BY <1>1, <1>2

(* What a push adds to the ring, it adds to what is intended.              *)
LEMMA PushIntends ==
  ASSUME NEW r, r.buf \in [Slots -> Chars], r.head \in Slots, KTAIL \in Slots, NEW c \in Chars,
         NEW x, EditAll(x, Window(r.buf, r.head, KTAIL)) = r.intended
  PROVE  LET p == kbuf_push(r, c)
         IN  /\ p.buf \in [Slots -> Chars] /\ p.head \in Slots
             /\ EditAll(x, Window(p.buf, p.head, KTAIL)) = p.intended
<1> DEFINE p == kbuf_push(r, c)
           w == Window(r.buf, r.head, KTAIL)
<1>1. /\ p.buf \in [Slots -> Chars] /\ p.head \in Slots
      /\ \/ p = r
         \/ /\ Window(p.buf, p.head, KTAIL) = Append(w, c)
            /\ p.intended = Edit(r.intended, c)
  BY PushOffers
<1>2. w \in Seq(Chars)
  BY WindowType
<1> HIDE DEF p, w
<1>3. EditAll(x, Append(w, c)) = Edit(EditAll(x, w), c)
  BY <1>2, EditAllAppend
<1>4. EditAll(x, Window(p.buf, p.head, KTAIL)) = p.intended
  BY <1>1, <1>3, Zenon DEF w
<1>5. QED
  BY <1>1, <1>4, Zenon DEF p

LEMMA PressIntends ==
  ASSUME KBUF \in [Slots -> Chars], KHEAD \in Slots, KTAIL \in Slots,
         NEW scancode \in Scancodes, NEW x, EditAll(x, Contents) = intended
  PROVE  LET p == PushAll(Pushes(scancode))
         IN  EditAll(x, Window(p.buf, p.head, KTAIL)) = p.intended
<1> DEFINE s == Pushes(scancode)
           Good(r) == /\ r.buf \in [Slots -> Chars] /\ r.head \in Slots
                      /\ EditAll(x, Window(r.buf, r.head, KTAIL)) = r.intended
<1>1. Good(Ring)
  <2>1. Ring.buf = KBUF /\ Ring.head = KHEAD /\ Ring.intended = intended
    BY DEF Ring
  <2>2. QED
    BY <2>1, ContentsWindow, Zenon
<1>2. ASSUME NEW r, Good(r), NEW c \in Chars
      PROVE  Good(kbuf_push(r, c))
  BY <1>2, PushIntends
<1>3. \/ s = <<>>
      \/ \E c \in Chars : s = <<c>> \/ s = <<c, c, c, c>>
  BY PushesType
<1> HIDE DEF s, Ring, Good
<1>4. CASE s = <<>>
  <2>1. PushAll(s) = Ring
    BY <1>4 DEF PushAll
  <2>2. QED
    BY <1>1, <2>1, Zenon DEF s, Good
<1>5. ASSUME NEW c \in Chars, s = <<c>> \/ s = <<c, c, c, c>>
      PROVE  Good(PushAll(s))
  <2>1. \/ PushAll(s) = kbuf_push(Ring, c)
        \/ PushAll(s) = kbuf_push(kbuf_push(kbuf_push(kbuf_push(Ring, c), c), c), c)
    BY <1>5 DEF PushAll
  <2>2. /\ Good(kbuf_push(Ring, c))
        /\ Good(kbuf_push(kbuf_push(kbuf_push(kbuf_push(Ring, c), c), c), c))
    BY <1>1, <1>2, Zenon
  <2>3. QED
    BY <2>1, <2>2, Zenon
<1>6. QED
  BY <1>3, <1>4, <1>5, Zenon DEF s, Good

(* For every capacity of the ring, length of the line and sequence of key  *)
(* presses, the shell's line becomes what processing every character at    *)
(* once would have made of it, in a build whose read of KBUF loads memory. *)
THEOREM PipelineCorrect == Spec /\ build = "memory" => []PipelineFaithful
<1>1. Init => PipelineFaithful
  <2> SUFFICES ASSUME Init PROVE PipelineFaithful
    OBVIOUS
  <2>1. Contents = <<>>
    BY DEF Init, Contents, Waiting
  <2>2. <<>> \in Seq(Chars)
    OBVIOUS
  <2>3. EditAll(shell, <<>>) = shell
    BY EditAllEmpty
  <2>4. shell = intended /\ pc # "edit"
    BY DEF Init
  <2>5. QED
    BY <2>1, <2>2, <2>3, <2>4, PipelineIs, Zenon DEF Reader
<1>2. build = "memory" /\ [Next]_vars => (build = "memory")'
  BY DEF Next, vars, KeyboardInterrupt, TimerInterrupt, MainLoop, LoadTail,
         LoadHead, ReadSlot, StoreTail, EditLine, Halt
<1>3. ASSUME KeyboardInv, KeyboardInv', build = "memory", PipelineFaithful, [Next]_vars
      PROVE  PipelineFaithful'
  <2>1. KBUF \in [Slots -> Chars] /\ KHEAD \in Slots /\ KTAIL \in Slots
    BY <1>3 DEF KeyboardInv
  <2>2. Contents \in Seq(Chars)
    BY <2>1, ContentsWindow, WindowType
  <2>3. EditAll(Reader, Contents) = intended
    BY <1>3, <2>2, PipelineIs
  <2>4. KBUF' \in [Slots -> Chars] /\ KHEAD' \in Slots /\ KTAIL' \in Slots
    BY <1>3 DEF KeyboardInv
  <2>5. Contents' = Window(KBUF', KHEAD', KTAIL')
    BY DEF Contents, Waiting, Window, Count
  <2>6. SUFFICES EditAll(Reader', Contents') = intended'
    <3>1. Contents' \in Seq(Chars)
      BY <2>4, <2>5, WindowType
    <3>2. (Contents \in Seq(Chars) => (PipelineFaithful <=> EditAll(Reader, Contents) = intended))'
      BY PipelineIs, PTL
    <3>3. QED
      BY <2>6, <3>1, <3>2, Zenon
  <2>7. ASSUME NEW scancode \in Scancodes, KeyboardInterrupt(scancode)
        PROVE  EditAll(Reader', Contents') = intended'
    <3> DEFINE p == PushAll(Pushes(scancode))
    <3>1. KBUF' = p.buf /\ KHEAD' = p.head /\ KTAIL' = KTAIL /\ intended' = p.intended
      BY <2>7, Zenon DEF KeyboardInterrupt, handle_scancode, shellVars
    <3>2. UNCHANGED <<shell, polled>> /\ (pc' = "edit" <=> pc = "edit")
      BY <2>7 DEF KeyboardInterrupt, Wake, shellVars
    <3>3. Reader' = Reader
      BY <3>2, Zenon DEF Reader
    <3>4. EditAll(Reader, Window(p.buf, p.head, KTAIL)) = p.intended
      BY <2>1, <2>3, PressIntends
    <3> HIDE DEF p
    <3>5. QED
      BY <2>5, <3>1, <3>3, <3>4, Zenon
  <2>8. CASE StoreTail
    <3>1. /\ pc # "edit" /\ pc' = "edit" /\ tail = KTAIL /\ KHEAD # KTAIL /\ byte = KBUF[KTAIL]
          /\ KTAIL' = (KTAIL + 1) % KBUF_CAP /\ polled' = byte
          /\ UNCHANGED <<KBUF, KHEAD, shell, intended>>
      BY <1>3, <2>8 DEF StoreTail, KeyboardInv, isrVars
    <3>2. PICK b, h, t, next :
            b = KBUF /\ h = KHEAD /\ t = KTAIL /\ next = KTAIL'
      BY Zenon
    <3>3. b \in [Slots -> Chars] /\ h \in Slots /\ t \in Slots /\ h # t
      BY <2>1, <3>1, <3>2, Zenon
    <3>4. next = (t + 1) % KBUF_CAP
      BY <3>1, <3>2, Zenon
    <3>5. /\ next \in Slots
          /\ t + 1 < KBUF_CAP => next = t + 1
          /\ t + 1 >= KBUF_CAP => next = 0
      BY <3>3, <3>4, NextSlot, Zenon
    <3>6. /\ Window(b, h, t) # <<>>
          /\ Head(Window(b, h, t)) = b[t]
          /\ Window(b, h, next) = Tail(Window(b, h, t))
      BY <3>3, <3>5, WindowPop
    <3>7. Contents = Window(b, h, t) /\ Contents' = Window(b, h, next)
      BY <2>5, <3>1, <3>2, ContentsWindow, Zenon
    <3>8. Contents # <<>> /\ polled' = Head(Contents) /\ Contents' = Tail(Contents)
      BY <3>1, <3>2, <3>6, <3>7, Zenon
    <3>9. EditAll(shell, Contents) = EditAll(Edit(shell, Head(Contents)), Tail(Contents))
      BY <2>2, <3>8, EditAllFirst
    <3>10. Reader = shell /\ Reader' = Edit(shell, Head(Contents))
      BY <3>1, <3>8, Zenon DEF Reader
    <3>11. QED
      BY <2>3, <3>1, <3>8, <3>9, <3>10, Zenon
  <2>9. ASSUME UNCHANGED <<KBUF, KHEAD, KTAIL, intended>>, Reader' = Reader
        PROVE  EditAll(Reader', Contents') = intended'
    <3>1. Contents' = Contents
      BY <2>5, <2>9, ContentsWindow, Zenon
    <3>2. QED
      BY <2>3, <2>9, <3>1, Zenon
  <2>10. CASE EditLine
    <3>1. UNCHANGED <<KBUF, KHEAD, KTAIL, intended>>
      BY <2>10 DEF EditLine, isrVars
    <3>2. Reader' = Reader
      <4>1. pc = "edit" /\ pc' # "edit" /\ shell' = Edit(shell, polled)
        BY <2>10 DEF EditLine
      <4>2. QED
        BY <4>1, Zenon DEF Reader
    <3>3. QED
      BY <2>9, <3>1, <3>2
  <2>11. CASE TimerInterrupt \/ LoadTail \/ LoadHead \/ ReadSlot \/ Halt \/ UNCHANGED vars
    <3>1. UNCHANGED <<KBUF, KHEAD, KTAIL, intended, shell, polled>> /\ (pc' = "edit" <=> pc = "edit")
      BY <2>11 DEF TimerInterrupt, Wake, LoadTail, LoadHead, ReadSlot, Halt, vars, isrVars, shellVars
    <3>2. Reader' = Reader
      BY <3>1, Zenon DEF Reader
    <3>3. QED
      BY <2>9, <3>1, <3>2
  <2>12. QED
    BY <1>3, <2>7, <2>8, <2>10, <2>11 DEF Next, MainLoop
<1>4. QED
  BY <1>1, <1>2, <1>3, RingInvariant, PTL DEF Spec
=============================================================================
