----------------------------- MODULE PmmProofs -----------------------------
(***************************************************************************)
(* Proofs about Pmm, for every page size, word size, set of callers, set   *)
(* of requests and memory map that PmmAssumption admits.                   *)
(***************************************************************************)
EXTENDS Pmm, TLAPS

-----------------------------------------------------------------------------
(* Facts about \div and % on the natural numbers.                          *)

(* Division with remainder.                                                *)
LEMMA DivMod ==
  ASSUME NEW a \in Nat \ {0}, NEW x \in Nat
  PROVE  /\ x = (a * (x \div a)) + (x % a)
         /\ x \div a \in Nat
         /\ x % a \in 0 .. (a - 1)
OBVIOUS

(* A multiple of a leaves no remainder.                                    *)
LEMMA MultipleMod ==
  ASSUME NEW a \in Nat \ {0}, NEW q \in Nat
  PROVE  (a * q) % a = 0
OBVIOUS

(* A number below the modulus is its own remainder.                        *)
LEMMA SmallMod ==
  ASSUME NEW a \in Nat \ {0}, NEW x \in Nat, x < a
  PROVE  x % a = x
OBVIOUS

(* Subtracting the remainder leaves a multiple (align_down).               *)
LEMMA RoundDown ==
  ASSUME NEW a \in Nat \ {0}, NEW x \in Nat
  PROVE  /\ x - (x % a) \in Nat
         /\ x - (x % a) <= x
         /\ x < (x - (x % a)) + a
         /\ (x - (x % a)) % a = 0
<1> DEFINE q == x \div a
           r == x % a
<1>1. x = (a * q) + r /\ q \in Nat /\ r \in 0 .. (a - 1)
  BY DivMod
<1> HIDE DEF q, r
<1>2. a * q \in Nat
  BY <1>1
<1>3. x - r = a * q
  BY <1>1, <1>2
<1>4. (a * q) % a = 0
  BY <1>1, MultipleMod
<1>5. /\ x - r \in Nat
      /\ x - r <= x
      /\ x < (x - r) + a
      /\ (x - r) % a = 0
  BY <1>1, <1>2, <1>3, <1>4
<1>6. QED
  BY <1>5 DEF r

(* The sum of two multiples is a multiple.                                 *)
LEMMA SumMod ==
  ASSUME NEW a \in Nat \ {0}, NEW x \in Nat, NEW y \in Nat,
         x % a = 0, y % a = 0
  PROVE  (x + y) % a = 0
<1> DEFINE p == x \div a
           q == y \div a
<1>1. x = a * p /\ y = a * q /\ p \in Nat /\ q \in Nat
  BY DivMod
<1> HIDE DEF p, q
<1>2. x + y = a * (p + q) /\ p + q \in Nat
  BY <1>1
<1>3. QED
  BY <1>2, MultipleMod

(* The difference of two multiples is a multiple.                          *)
LEMMA DifferenceMod ==
  ASSUME NEW a \in Nat \ {0}, NEW x \in Nat, NEW y \in Nat, y <= x,
         x % a = 0, y % a = 0
  PROVE  (x - y) % a = 0
<1> DEFINE p == x \div a
           q == y \div a
<1>1. x = a * p /\ y = a * q /\ p \in Nat /\ q \in Nat
  BY DivMod
<1> HIDE DEF p, q
<1>2. q <= p
  BY <1>1
<1>3. x - y = a * (p - q) /\ p - q \in Nat
  BY <1>1, <1>2
<1>4. QED
  BY <1>3, MultipleMod

(* A multiple of a multiple is a multiple.                                 *)
LEMMA TransMod ==
  ASSUME NEW a \in Nat \ {0}, NEW b \in Nat \ {0}, NEW x \in Nat,
         x % a = 0, a % b = 0
  PROVE  x % b = 0
<1> DEFINE p == x \div a
           q == a \div b
<1>1. x = a * p /\ a = b * q /\ p \in Nat /\ q \in Nat
  BY DivMod
<1> HIDE DEF p, q
<1>2. x = b * (q * p) /\ q * p \in Nat
  BY <1>1
<1>3. QED
  BY <1>2, MultipleMod
-----------------------------------------------------------------------------

(* align_up rounds to the next multiple, by less than the alignment.       *)
LEMMA AlignUp ==
  ASSUME NEW v \in Nat, NEW a \in Nat \ {0}, v + a <= U64
  PROVE  /\ align_up(v, a) \in Nat
         /\ v <= align_up(v, a)
         /\ align_up(v, a) < v + a
         /\ align_up(v, a) % a = 0
<1> DEFINE x == v + a - 1
<1>1. x \in Nat /\ x < U64 /\ U64 \in Nat \ {0}
  BY PmmAssumption
<1>2. x % U64 = x
  BY <1>1, SmallMod
<1>3. align_up(v, a) = x - (x % a)
  BY <1>2 DEF align_up, align_down
<1>4. /\ x - (x % a) \in Nat
      /\ x - (x % a) <= x
      /\ x < (x - (x % a)) + a
      /\ (x - (x % a)) % a = 0
  BY <1>1, RoundDown
<1> DEFINE y == x - (x % a)
<1>5. y \in Nat /\ y <= v + a - 1 /\ v + a - 1 < y + a
  BY <1>4
<1> HIDE DEF y
<1>6. v <= y /\ y < v + a
  BY <1>5
<1>7. QED
  BY <1>3, <1>4, <1>5, <1>6 DEF y

(* An address that is already aligned is not moved by align_up.            *)
LEMMA AlignUpFixed ==
  ASSUME NEW v \in Nat, NEW a \in Nat \ {0}, v + a <= U64, v % a = 0
  PROVE  align_up(v, a) = v
<1> DEFINE y == align_up(v, a)
<1>1. y \in Nat /\ v <= y /\ y < v + a /\ y % a = 0
  BY AlignUp
<1> HIDE DEF y
<1>2. (y - v) % a = 0
  BY <1>1, DifferenceMod
<1>3. y - v \in Nat /\ y - v < a
  BY <1>1
<1>4. (y - v) % a = y - v
  BY <1>3, SmallMod
<1>5. y = v
  BY <1>1, <1>2, <1>4
<1>6. QED
  BY <1>5 DEF y

(* The pages `init' sees in a map entry lie inside the entry.              *)
LEMMA EntryPages ==
  ASSUME NEW m \in MemoryMaps, NEW i \in 1 .. Len(m)
  PROVE  /\ m[i] \in Entry
         /\ UsableStart(m[i]) \in Nat /\ UsableEnd(m[i]) \in Nat
         /\ m[i].base_addr <= UsableStart(m[i])
         /\ UsableEnd(m[i]) <= m[i].base_addr + m[i].length
         /\ UsableStart(m[i]) % PAGE_SIZE = 0
<1>1. m \in Seq(Entry)
  BY PmmAssumption
<1>2. m[i] \in Entry
  BY <1>1
<1> DEFINE base == m[i].base_addr
           stop == m[i].base_addr + m[i].length
<1>3. /\ base \in Nat /\ stop \in Nat
      /\ stop + PAGE_SIZE <= U64 /\ base + PAGE_SIZE <= U64
      /\ PAGE_SIZE \in Nat \ {0} /\ U64 \in Nat \ {0}
  <2>1. m[i].base_addr \in Nat /\ m[i].length \in Nat
    BY <1>2 DEF Entry
  <2>2. /\ m[i].base_addr + m[i].length + PAGE_SIZE <= U64
        /\ PAGE_SIZE \in Nat \ {0} /\ U64 \in Nat \ {0}
    BY PmmAssumption, Zenon
  <2>3. QED
    BY ONLY <2>1, <2>2
<1> HIDE DEF base, stop
<1>4. /\ align_up(base, PAGE_SIZE) \in Nat
      /\ base <= align_up(base, PAGE_SIZE)
      /\ align_up(base, PAGE_SIZE) % PAGE_SIZE = 0
  BY <1>3, AlignUp
<1>5. stop < U64
  BY <1>3
<1>6. stop % U64 = stop
  BY <1>3, <1>5, SmallMod
<1>7. stop - (stop % PAGE_SIZE) \in Nat /\ stop - (stop % PAGE_SIZE) <= stop
  BY <1>3, RoundDown
<1>8. UsableStart(m[i]) = align_up(base, PAGE_SIZE)
  BY DEF UsableStart, base
<1>9. UsableEnd(m[i]) = stop - (stop % PAGE_SIZE)
  BY <1>6 DEF UsableEnd, align_down, stop
<1>10. QED
  BY <1>2, <1>4, <1>7, <1>8, <1>9 DEF base, stop

(* adj_size is a whole number of pages with room for the request.          *)
LEMMA AdjustedSize ==
  ASSUME NEW r \in Requests, IsPowerOfTwo(r.align)
  PROVE  /\ r \in Request
         /\ r.align \in Nat \ {0}
         /\ adj_size(r) \in Nat
         /\ r.size <= adj_size(r)
         /\ adj_size(r) % PAGE_SIZE = 0
<1>1. /\ r \in Request /\ r.size \in Nat /\ r.align \in Nat \ {0}
      /\ PAGE_SIZE \in Nat \ {0} /\ U64 \in Nat \ {0}
      /\ r.size + r.align + PAGE_SIZE <= U64
      /\ PAGE_SIZE % r.align = 0 \/ r.align % PAGE_SIZE = 0
  BY PmmAssumption DEF Request, IsPowerOfTwo
<1> DEFINE g == PageMax(r.align)
<1>2. g \in Nat \ {0} /\ r.size + g <= U64
  BY <1>1 DEF PageMax
<1>3. g % PAGE_SIZE = 0
  <2>1. CASE r.align > PAGE_SIZE
    <3>1. PAGE_SIZE % r.align = PAGE_SIZE
      BY <1>1, <2>1, SmallMod
    <3>2. QED
      BY <1>1, <2>1, <3>1 DEF PageMax
  <2>2. CASE ~(r.align > PAGE_SIZE)
    <3>1. g = PAGE_SIZE /\ PAGE_SIZE * 1 = PAGE_SIZE
      BY <1>1, <2>2 DEF PageMax
    <3>2. (PAGE_SIZE * 1) % PAGE_SIZE = 0
      BY <1>1, MultipleMod
    <3>3. QED
      BY <3>1, <3>2
  <2>3. QED
    BY <2>1, <2>2
<1> HIDE DEF g
<1>4. /\ align_up(r.size, g) \in Nat
      /\ r.size <= align_up(r.size, g)
      /\ align_up(r.size, g) % g = 0
  BY <1>1, <1>2, AlignUp
<1>5. align_up(r.size, g) % PAGE_SIZE = 0
  BY <1>1, <1>2, <1>3, <1>4, TransMod
<1>6. adj_size(r) = align_up(r.size, g)
  BY DEF adj_size, g
<1>7. QED
  BY <1>1, <1>4, <1>5, <1>6

(* The block computed from a page-aligned NEXT_FREE.                       *)
LEMMA CandidatePlacement ==
  ASSUME NEW r \in Requests, IsPowerOfTwo(r.align),
         NEW cur \in Nat, cur + r.align <= U64, cur % PAGE_SIZE = 0
  PROVE  /\ Candidate(cur, r).lo \in Nat
         /\ Candidate(cur, r).hi \in Nat
         /\ Candidate(cur, r).size = r.size
         /\ Candidate(cur, r).align = r.align
         /\ cur <= Candidate(cur, r).lo
         /\ Candidate(cur, r).lo + r.size <= Candidate(cur, r).hi
         /\ Candidate(cur, r).lo % r.align = 0
         /\ Candidate(cur, r).lo % PAGE_SIZE = 0
         /\ Candidate(cur, r).hi % PAGE_SIZE = 0
<1> DEFINE lo == align_up(cur, r.align)
           sz == adj_size(r)
<1>1. /\ r.align \in Nat \ {0} /\ r.size \in Nat
      /\ sz \in Nat /\ r.size <= sz /\ sz % PAGE_SIZE = 0
      /\ PAGE_SIZE \in Nat \ {0}
      /\ PAGE_SIZE % r.align = 0 \/ r.align % PAGE_SIZE = 0
  BY AdjustedSize, PmmAssumption DEF Request
<1>2. lo \in Nat /\ cur <= lo /\ lo % r.align = 0
  BY <1>1, AlignUp
<1>3. lo % PAGE_SIZE = 0
  <2>1. CASE PAGE_SIZE % r.align = 0
    <3>1. cur % r.align = 0
      BY <1>1, <2>1, TransMod
    <3>2. lo = cur
      BY <1>1, <3>1, AlignUpFixed
    <3>3. QED
      BY <3>2
  <2>2. CASE r.align % PAGE_SIZE = 0
    BY <1>1, <1>2, <2>2, TransMod
  <2>3. QED
    BY <1>1, <2>1, <2>2
<1>4. Candidate(cur, r) =
        [lo |-> lo, hi |-> lo + sz, size |-> r.size, align |-> r.align]
  BY DEF Candidate
<1> HIDE DEF lo, sz
<1>5. (lo + sz) % PAGE_SIZE = 0
  BY <1>1, <1>2, <1>3, SumMod
<1>6. QED
  BY <1>1, <1>2, <1>3, <1>4, <1>5
-----------------------------------------------------------------------------
LEMMA InitInv == Init => PmmInv
<1> SUFFICES ASSUME Init PROVE PmmInv
  OBVIOUS
<1>1. /\ PAGE_SIZE \in Nat \ {0} /\ U64 \in Nat \ {0} /\ Requests # {}
      /\ \A r \in Requests : r.size \in Nat /\ r.align \in Nat
      /\ \A r \in Requests : r.size + r.align + PAGE_SIZE <= U64
  BY PmmAssumption DEF Request
<1>2. 0 \in Word
  BY <1>1 DEF Word
<1>3. NoBlock \in Grant
  BY <1>2 DEF NoBlock, Grant
<1>4. memory_map \in Seq(Entry)
  BY PmmAssumption DEF Init
<1>5. (CHOOSE r \in Requests : TRUE) \in Requests
  BY <1>1
<1>6. TypeOK
  <2>1. 1 \in 1 .. Len(memory_map) + 1
    BY <1>4
  <2>2. /\ scan \in [i : 1 .. Len(memory_map) + 1, best_base : Word, best_len : Word]
        /\ scan.best_base + scan.best_len \in Word
    BY <1>2, <2>1 DEF Init
  <2>3. /\ req \in [Callers -> Requests] /\ result \in [Callers -> Grant]
        /\ current \in [Callers -> Word] /\ allocated \in Seq(Grant)
    BY <1>2, <1>3, <1>5 DEF Init
  <2>4. QED
    BY <1>2, <2>2, <2>3 DEF Init, TypeOK
<1>7. 0 % PAGE_SIZE = 0
  BY <1>1, SmallMod
<1>8. \A r \in Requests : scan.best_base + scan.best_len + r.align <= U64
  BY <1>1 DEF Init
<1>9. QED
  BY <1>6, <1>7, <1>8 DEF Init, PmmInv, BlocksDisjoint, BlocksWellPlaced

LEMMA ScanInv == PmmInv /\ Scan => PmmInv'
<1> SUFFICES ASSUME PmmInv, Scan PROVE PmmInv'
  OBVIOUS
<1> DEFINE e == memory_map[scan.i]
           start == UsableStart(e)
           end == UsableEnd(e)
<1>1. /\ memory_map \in MemoryMaps /\ memory_map \in Seq(Entry)
      /\ scan.i \in 1 .. Len(memory_map)
      /\ PAGE_SIZE \in Nat \ {0} /\ U64 \in Nat \ {0}
  BY PmmAssumption DEF PmmInv, TypeOK, Scan
<1>2. /\ start \in Nat /\ end \in Nat
      /\ end <= e.base_addr + e.length
      /\ start % PAGE_SIZE = 0
      /\ e.base_addr \in Nat /\ e.length \in Nat
  BY <1>1, EntryPages DEF Entry
<1>3. /\ e.base_addr + e.length + PAGE_SIZE <= U64
      /\ \A r \in Requests :
            r.align \in Nat /\ e.base_addr + e.length + r.align <= U64
  BY <1>1, PmmAssumption DEF Request
<1>4. ~booted /\ UNCHANGED <<memory_map, booted, NEXT_FREE, LIMIT, pc, req,
                             current, result, allocated>>
  BY DEF Scan
<1>5. \/ scan' = [scan EXCEPT !.i = @ + 1]
      \/ /\ end > start
         /\ scan' = [i |-> scan.i + 1, best_base |-> start,
                     best_len |-> end - start]
  BY DEF Scan
<1> HIDE DEF e, start, end
<1>6. /\ scan' \in [i : 1 .. Len(memory_map) + 1, best_base : Word, best_len : Word]
      /\ scan'.best_base + scan'.best_len \in Word
      /\ scan'.best_base % PAGE_SIZE = 0
      /\ \A r \in Requests : scan'.best_base + scan'.best_len + r.align <= U64
  <2>1. CASE scan' = [scan EXCEPT !.i = @ + 1]
    <3>1. /\ scan \in [i : 1 .. Len(memory_map) + 1, best_base : Word, best_len : Word]
          /\ scan.best_base + scan.best_len \in Word
          /\ scan.best_base % PAGE_SIZE = 0
          /\ \A r \in Requests : scan.best_base + scan.best_len + r.align <= U64
      BY DEF PmmInv, TypeOK
    <3>2. scan.i + 1 \in 1 .. Len(memory_map) + 1
      BY <1>1
    <3>3. QED
      BY <2>1, <3>1, <3>2
  <2>2. CASE end > start /\ scan' = [i |-> scan.i + 1, best_base |-> start,
                                     best_len |-> end - start]
    <3>1. scan.i + 1 \in 1 .. Len(memory_map) + 1
      BY <1>1
    <3>2. /\ start \in Word /\ end - start \in Word
          /\ start + (end - start) \in Word
          /\ \A r \in Requests : start + (end - start) + r.align <= U64
      <4>1. /\ start \in Nat /\ end \in Nat /\ start < end
            /\ end < U64 /\ U64 \in Nat
        BY <1>1, <1>2, <1>3, <2>2
      <4>2. start + (end - start) = end
        BY ONLY <4>1
      <4>3. start \in Word /\ end - start \in Word /\ end \in Word
        BY ONLY <4>1 DEF Word
      <4>4. \A r \in Requests : end + r.align <= U64
        BY <1>2, <1>3, <4>1
      <4>5. QED
        BY ONLY <4>2, <4>3, <4>4, Zenon
    <3>3. QED
      BY <1>2, <2>2, <3>1, <3>2
  <2>3. QED
    BY <1>5, <2>1, <2>2
<1>7. TypeOK'
  BY <1>4, <1>6 DEF PmmInv, TypeOK
<1>8. BlocksDisjoint' /\ BlocksWellPlaced'
  BY <1>4 DEF PmmInv, BlocksDisjoint, BlocksWellPlaced
<1>9. /\ NEXT_FREE = 0 /\ LIMIT = 0 /\ allocated = <<>>
      /\ \A c \in Callers : pc[c] = "idle"
  BY <1>4 DEF PmmInv, TypeOK
<1>10. QED
  BY <1>4, <1>6, <1>7, <1>8, <1>9 DEF PmmInv

LEMMA StoreRegionInv == PmmInv /\ StoreRegion => PmmInv'
<1> SUFFICES ASSUME PmmInv, StoreRegion PROVE PmmInv'
  OBVIOUS
<1>1. /\ UNCHANGED <<memory_map, scan, pc, req, current, result, allocated>>
      /\ booted' = TRUE /\ ~booted
      /\ NEXT_FREE = 0 /\ LIMIT = 0 /\ allocated = <<>>
  BY DEF PmmInv, StoreRegion
<1>2. \A c \in Callers : pc[c] = "idle"
  BY <1>1 DEF PmmInv, TypeOK
<1> DEFINE b == scan.best_base
           l == scan.best_len
<1>3. /\ b \in Nat /\ l \in Nat /\ b + l < U64 /\ b < U64
      /\ b % PAGE_SIZE = 0
      /\ PAGE_SIZE \in Nat \ {0} /\ U64 \in Nat \ {0}
  BY PmmAssumption DEF PmmInv, TypeOK, Word
<1>4. \/ NEXT_FREE' = b /\ LIMIT' = (b + l) % U64 /\ l >= PAGE_SIZE
      \/ NEXT_FREE' = 0 /\ LIMIT' = 0
  BY <1>1 DEF StoreRegion
<1> HIDE DEF b, l
<1>5. (b + l) % U64 = b + l
  BY <1>3, SmallMod
<1>6. \/ NEXT_FREE' = b /\ LIMIT' = b + l /\ l > 0
      \/ NEXT_FREE' = 0 /\ LIMIT' = 0
  BY <1>3, <1>4, <1>5
<1>7. 0 % PAGE_SIZE = 0
  BY <1>3, SmallMod
<1>8. NEXT_FREE' \in Word /\ LIMIT' \in Word /\ NEXT_FREE' % PAGE_SIZE = 0
  BY <1>3, <1>6, <1>7 DEF Word
<1>9. TypeOK'
  BY <1>1, <1>8 DEF PmmInv, TypeOK
<1>10. BlocksDisjoint' /\ BlocksWellPlaced'
  BY <1>1 DEF BlocksDisjoint, BlocksWellPlaced
<1>11. IF LIMIT' = 0
         THEN NEXT_FREE' = 0
         ELSE /\ LIMIT' = scan'.best_base + scan'.best_len
              /\ scan'.best_base <= NEXT_FREE' /\ NEXT_FREE' <= LIMIT'
  BY <1>1, <1>3, <1>6 DEF b, l
<1>12. QED
  BY <1>1, <1>2, <1>8, <1>9, <1>10, <1>11 DEF PmmInv

LEMMA EnterInv ==
  ASSUME NEW c \in Callers, NEW r \in Requests
  PROVE  PmmInv /\ Enter(c, r) => PmmInv'
<1> SUFFICES ASSUME PmmInv, Enter(c, r) PROVE PmmInv'
  OBVIOUS
<1>1. /\ UNCHANGED <<bootVars, NEXT_FREE, current, allocated>>
      /\ booted /\ pc[c] = "idle"
      /\ req' = [req EXCEPT ![c] = r]
      /\ \/ IsPowerOfTwo(r.align) /\ pc' = [pc EXCEPT ![c] = "load"] /\ result' = result
         \/ pc' = pc /\ result' = [result EXCEPT ![c] = NoBlock]
  BY DEF Enter
<1>2. /\ pc \in [Callers -> {"idle", "load", "cas"}]
      /\ req \in [Callers -> Requests] /\ result \in [Callers -> Grant]
  BY DEF PmmInv, TypeOK
<1>3. NoBlock \in Grant
  BY PmmAssumption DEF NoBlock, Grant, Word
<1>4. TypeOK'
  BY <1>1, <1>2, <1>3 DEF PmmInv, TypeOK, bootVars
<1>5. BlocksDisjoint' /\ BlocksWellPlaced'
  BY <1>1 DEF PmmInv, BlocksDisjoint, BlocksWellPlaced, bootVars
<1>6. ASSUME NEW d \in Callers, pc'[d] # "idle"
      PROVE  IsPowerOfTwo(req'[d].align)
  BY <1>1, <1>2, <1>6 DEF PmmInv
<1>7. ASSUME NEW d \in Callers, pc'[d] = "cas"
      PROVE  ~CannotServe(current[d], req'[d])
  BY <1>1, <1>2, <1>7 DEF PmmInv
<1>8. ASSUME NEW d \in Callers, pc'[d] = "cas"
      PROVE  ~CannotServe(current[d], req[d])'
  BY <1>1, <1>7, <1>8 DEF CannotServe, bootVars
<1>9. QED
  BY <1>1, <1>4, <1>5, <1>6, <1>8 DEF PmmInv, bootVars

LEMMA LoadInv ==
  ASSUME NEW c \in Callers
  PROVE  PmmInv /\ Load(c) => PmmInv'
<1> SUFFICES ASSUME PmmInv, Load(c) PROVE PmmInv'
  OBVIOUS
<1>1. /\ UNCHANGED <<bootVars, NEXT_FREE, req, allocated>>
      /\ pc[c] = "load"
      /\ \/ /\ pc' = [pc EXCEPT ![c] = "idle"]
            /\ result' = [result EXCEPT ![c] = NoBlock] /\ current' = current
         \/ /\ ~CannotServe(NEXT_FREE, req[c])
            /\ pc' = [pc EXCEPT ![c] = "cas"]
            /\ current' = [current EXCEPT ![c] = NEXT_FREE] /\ result' = result
  BY DEF Load
<1>2. /\ pc \in [Callers -> {"idle", "load", "cas"}]
      /\ current \in [Callers -> Word] /\ result \in [Callers -> Grant]
      /\ NEXT_FREE \in Word
  BY DEF PmmInv, TypeOK
<1>3. NoBlock \in Grant
  BY PmmAssumption DEF NoBlock, Grant, Word
<1>4. TypeOK'
  BY <1>1, <1>2, <1>3 DEF PmmInv, TypeOK, bootVars
<1>5. BlocksDisjoint' /\ BlocksWellPlaced'
  BY <1>1 DEF PmmInv, BlocksDisjoint, BlocksWellPlaced, bootVars
<1>6. ASSUME NEW d \in Callers, pc'[d] # "idle"
      PROVE  booted /\ IsPowerOfTwo(req[d].align)
  BY <1>1, <1>2, <1>6 DEF PmmInv
<1>7. ASSUME NEW d \in Callers, pc'[d] = "cas"
      PROVE  ~CannotServe(current'[d], req[d])
  BY <1>1, <1>2, <1>7 DEF PmmInv
<1>8. ASSUME NEW d \in Callers, pc'[d] = "cas"
      PROVE  ~CannotServe(current[d], req[d])'
  BY <1>1, <1>7, <1>8 DEF CannotServe, bootVars
<1>9. QED
  BY <1>1, <1>4, <1>5, <1>6, <1>8 DEF PmmInv, bootVars

(* What a successful compare_exchange hands out.                           *)
LEMMA GrantedBlock ==
  ASSUME NEW c \in Callers, PmmInv, pc[c] = "cas", NEXT_FREE = current[c]
  PROVE  LET b == Candidate(current[c], req[c])
         IN  /\ b \in Grant
             /\ LIMIT # 0
             /\ NEXT_FREE <= b.lo /\ b.lo + b.size <= b.hi /\ b.hi <= LIMIT
             /\ b.lo % b.align = 0
             /\ b.lo % PAGE_SIZE = 0 /\ b.hi % PAGE_SIZE = 0
<1> DEFINE r == req[c]
           cur == current[c]
           b == Candidate(cur, r)
<1>1. /\ r \in Requests /\ IsPowerOfTwo(r.align)
      /\ cur \in Nat /\ cur = NEXT_FREE /\ cur % PAGE_SIZE = 0
      /\ ~CannotServe(cur, r)
      /\ LIMIT \in Nat /\ LIMIT < U64 /\ U64 \in Nat
  BY PmmAssumption DEF PmmInv, TypeOK, Word
<1>2. r.size \in Nat /\ r.align \in Nat \ {0}
  BY <1>1, AdjustedSize DEF Request
<1>3. cur < LIMIT /\ b.hi <= LIMIT
  <2>1. cur < LIMIT /\ ~(b.hi > LIMIT)
    BY <1>1 DEF CannotServe
  <2>2. b.hi \in Nat
    <3>1. cur + r.align <= U64
      BY <1>1, <1>2, <2>1 DEF PmmInv, TypeOK, Word
    <3>2. QED
      BY <1>1, <3>1, CandidatePlacement
  <2>3. QED
    BY <1>1, <2>1, <2>2
<1>4. cur + r.align <= U64
  BY <1>1, <1>2, <1>3 DEF PmmInv, TypeOK, Word
<1>5. /\ b.lo \in Nat /\ b.hi \in Nat /\ b.size = r.size /\ b.align = r.align
      /\ cur <= b.lo /\ b.lo + r.size <= b.hi
      /\ b.lo % r.align = 0 /\ b.lo % PAGE_SIZE = 0 /\ b.hi % PAGE_SIZE = 0
  BY <1>1, <1>4, CandidatePlacement
<1>6. b = [lo |-> b.lo, hi |-> b.hi, size |-> r.size, align |-> r.align]
  BY DEF Candidate
<1> HIDE DEF b, r, cur
<1>7. b.lo \in Word /\ b.hi \in Word
  BY <1>1, <1>2, <1>3, <1>5 DEF Word
<1>8. b \in Grant
  BY <1>2, <1>6, <1>7 DEF Grant
<1>9. LIMIT # 0
  BY <1>1, <1>3
<1>10. QED
  BY <1>1, <1>3, <1>5, <1>8, <1>9 DEF b, r, cur

LEMMA CompareExchangeInv ==
  ASSUME NEW c \in Callers
  PROVE  PmmInv /\ CompareExchange(c) => PmmInv'
<1> SUFFICES ASSUME PmmInv, CompareExchange(c) PROVE PmmInv'
  OBVIOUS
<1> DEFINE b == Candidate(current[c], req[c])
<1>1. /\ UNCHANGED <<memory_map, scan, booted, LIMIT, req, current>>
      /\ pc[c] = "cas"
  BY DEF CompareExchange, bootVars
<1>2. /\ pc \in [Callers -> {"idle", "load", "cas"}]
      /\ result \in [Callers -> Grant] /\ allocated \in Seq(Grant)
      /\ booted
  BY <1>1 DEF PmmInv, TypeOK
<1>3. CASE NEXT_FREE # current[c]
  <2>1. /\ pc' = [pc EXCEPT ![c] = "load"]
        /\ UNCHANGED <<NEXT_FREE, result, allocated>>
    BY <1>3 DEF CompareExchange
  <2>2. TypeOK'
    BY <1>1, <1>2, <2>1 DEF PmmInv, TypeOK
  <2>3. BlocksDisjoint' /\ BlocksWellPlaced'
    BY <1>1, <2>1 DEF PmmInv, BlocksDisjoint, BlocksWellPlaced
  <2>4. \A d \in Callers : pc'[d] = "cas" => pc[d] = "cas"
    BY <1>2, <2>1
  <2>5. \A d \in Callers : pc'[d] = "cas" => ~CannotServe(current[d], req[d])'
    BY <1>1, <2>4 DEF PmmInv, CannotServe
  <2>6. \A d \in Callers : pc'[d] # "idle" => IsPowerOfTwo(req[d].align)
    BY <1>1, <1>2, <2>1 DEF PmmInv
  <2>7. QED
    BY <1>1, <1>2, <2>1, <2>2, <2>3, <2>5, <2>6 DEF PmmInv
<1>4. CASE NEXT_FREE = current[c]
  <2>1. /\ NEXT_FREE' = b.hi
        /\ pc' = [pc EXCEPT ![c] = "idle"]
        /\ result' = [result EXCEPT ![c] = b]
        /\ allocated' = Append(allocated, b)
    BY <1>4 DEF CompareExchange
  <2>2. /\ b \in Grant
        /\ LIMIT # 0
        /\ NEXT_FREE <= b.lo /\ b.lo + b.size <= b.hi /\ b.hi <= LIMIT
        /\ b.lo % b.align = 0
        /\ b.lo % PAGE_SIZE = 0 /\ b.hi % PAGE_SIZE = 0
    BY <1>1, <1>4, GrantedBlock
  <2> HIDE DEF b
  <2>3. /\ b.lo \in Nat /\ b.hi \in Nat /\ b.size \in Nat /\ b.hi \in Word
        /\ NEXT_FREE \in Nat /\ LIMIT \in Nat /\ scan.best_base \in Nat
        /\ LIMIT = scan.best_base + scan.best_len
        /\ scan.best_base <= NEXT_FREE
    BY <2>2 DEF PmmInv, TypeOK, Grant, Word
  <2>4. TypeOK'
    BY <1>1, <1>2, <2>1, <2>2, <2>3 DEF PmmInv, TypeOK
  <2>5. /\ Len(allocated) \in Nat
        /\ Len(allocated') = Len(allocated) + 1
        /\ \A i \in 1 .. Len(allocated) :
              allocated'[i] = allocated[i] /\ allocated[i] \in Grant
        /\ allocated'[Len(allocated) + 1] = b
    BY <1>2, <2>1
  <2>6. \A i \in 1 .. Len(allocated) :
           /\ allocated[i].hi <= NEXT_FREE
           /\ allocated[i].hi \in Nat /\ allocated[i].lo \in Nat
    BY <2>5 DEF PmmInv, Grant, Word
  <2>7. \A i \in 1 .. Len(allocated) :
           ~Overlap(allocated[i], b) /\ ~Overlap(b, allocated[i])
    BY <2>2, <2>3, <2>6 DEF Overlap
  <2>8. BlocksDisjoint'
    <3>1. ASSUME NEW i \in 1 .. Len(allocated'), NEW j \in 1 .. Len(allocated'), i # j
          PROVE  ~Overlap(allocated'[i], allocated'[j])
      <4>1. CASE i \in 1 .. Len(allocated) /\ j \in 1 .. Len(allocated)
        <5>1. ~Overlap(allocated[i], allocated[j])
          BY <3>1, <4>1, Zenon DEF PmmInv, BlocksDisjoint
        <5>2. QED
          BY ONLY <2>5, <4>1, <5>1, Zenon
      <4>2. CASE i \in 1 .. Len(allocated) /\ j = Len(allocated) + 1
        BY ONLY <2>5, <2>7, <4>2, Zenon
      <4>3. CASE i = Len(allocated) + 1 /\ j \in 1 .. Len(allocated)
        BY ONLY <2>5, <2>7, <4>3, Zenon
      <4>4. \/ i \in 1 .. Len(allocated) /\ j \in 1 .. Len(allocated)
            \/ i \in 1 .. Len(allocated) /\ j = Len(allocated) + 1
            \/ i = Len(allocated) + 1 /\ j \in 1 .. Len(allocated)
        BY ONLY <2>5, <3>1
      <4>5. QED
        BY ONLY <4>1, <4>2, <4>3, <4>4, Zenon
    <3>2. QED
      BY ONLY <3>1, Zenon DEF BlocksDisjoint, Overlap
  <2>9. BlocksWellPlaced'
    <3>1. UNCHANGED <<scan, LIMIT>>
      BY <1>1 DEF CompareExchange
    <3>2. ASSUME NEW i \in 1 .. Len(allocated')
          PROVE  /\ scan.best_base <= allocated'[i].lo /\ allocated'[i].hi <= LIMIT
                 /\ allocated'[i].lo + allocated'[i].size <= allocated'[i].hi
                 /\ allocated'[i].lo % allocated'[i].align = 0
                 /\ allocated'[i].lo % PAGE_SIZE = 0
      <4>1. CASE i \in 1 .. Len(allocated)
        BY <2>5, <4>1, Zenon DEF PmmInv, BlocksWellPlaced
      <4>2. CASE i = Len(allocated) + 1
        <5>1. scan.best_base <= b.lo
          BY ONLY <2>2, <2>3
        <5>2. QED
          BY ONLY <2>2, <2>5, <4>2, <5>1, Zenon
      <4>3. QED
        BY <2>5, <4>1, <4>2
    <3>3. QED
      BY <3>1, <3>2, Zenon DEF BlocksWellPlaced
  <2>10. \A i \in 1 .. Len(allocated') : allocated'[i].hi <= NEXT_FREE'
    BY <2>1, <2>2, <2>3, <2>5, <2>6
  <2>11. \A d \in Callers : pc'[d] # "idle" => pc'[d] = pc[d]
    BY <1>2, <2>1
  <2>12. \A d \in Callers :
           /\ pc'[d] = "cas" => ~CannotServe(current[d], req[d])'
           /\ pc'[d] # "idle" => IsPowerOfTwo(req[d].align)
    BY <1>1, <2>11 DEF PmmInv, CannotServe
  <2>13. scan.best_base <= NEXT_FREE' /\ NEXT_FREE' <= LIMIT
    BY <2>1, <2>2, <2>3
  <2>14. QED
    BY <1>1, <1>2, <2>1, <2>2, <2>3, <2>4, <2>8, <2>9, <2>10, <2>12, <2>13
       DEF PmmInv
<1>5. QED
  BY <1>3, <1>4

LEMMA NextInv == PmmInv /\ [Next]_vars => PmmInv'
<1> SUFFICES ASSUME PmmInv, [Next]_vars PROVE PmmInv'
  OBVIOUS
<1>1. CASE Scan
  BY <1>1, ScanInv
<1>2. CASE StoreRegion
  BY <1>2, StoreRegionInv
<1>3. CASE \E c \in Callers : Step(c)
  BY <1>3, EnterInv, LoadInv, CompareExchangeInv DEF Step
<1>4. CASE UNCHANGED vars
  BY <1>4 DEF vars, PmmInv, TypeOK, BlocksDisjoint, BlocksWellPlaced, CannotServe
<1>5. QED
  BY <1>1, <1>2, <1>3, <1>4 DEF Next

(* The inductive invariant holds of every behaviour of the allocator.      *)
THEOREM PmmInvariant == Spec => []PmmInv
<1>1. Init => PmmInv
  BY InitInv
<1>2. PmmInv /\ [Next]_vars => PmmInv'
  BY NextInv
<1>3. QED
  BY <1>1, <1>2, PTL DEF Spec

(* Every cell and local of pmm.rs keeps its u64 type, and the sums of      *)
(* `init' do not wrap.                                                     *)
THEOREM TypeCorrect == Spec => []TypeOK
<1>1. PmmInv => TypeOK
  BY DEF PmmInv
<1>2. QED
  BY <1>1, PmmInvariant, PTL

(* alloc_aligned never hands out a byte twice, for any number of callers.  *)
THEOREM NoDoubleAllocation == Spec => []BlocksDisjoint
<1>1. PmmInv => BlocksDisjoint
  BY DEF PmmInv
<1>2. QED
  BY <1>1, PmmInvariant, PTL

(* Every block alloc_aligned returns is inside the region, aligned, and    *)
(* large enough.                                                           *)
THEOREM AllocationsWellPlaced == Spec => []BlocksWellPlaced
<1>1. PmmInv => BlocksWellPlaced
  BY DEF PmmInv
<1>2. QED
  BY <1>1, PmmInvariant, PTL
-----------------------------------------------------------------------------
(***************************************************************************)
(* The loop invariant of `init': best_len bounds every usable entry seen   *)
(* so far, and a non-empty best region lies inside one of them.            *)
(***************************************************************************)
Extent(e) == UsableEnd(e) - UsableStart(e)

Inside(m, base, len) ==
  \E i \in 1 .. Len(m) : /\ m[i].usable
                         /\ m[i].base_addr <= base
                         /\ base + len <= m[i].base_addr + m[i].length

RegionInv ==
  /\ \A i \in 1 .. Len(memory_map) :
        i < scan.i /\ memory_map[i].usable => Extent(memory_map[i]) <= scan.best_len
  /\ scan.best_len > 0 => Inside(memory_map, scan.best_base, scan.best_len)
  /\ booted => scan.i > Len(memory_map)
  /\ LIMIT > 0 => scan.best_len > 0

LEMMA RegionInit == Init => RegionInv
<1> SUFFICES ASSUME Init PROVE RegionInv
  OBVIOUS
<1>1. memory_map \in Seq(Entry)
  BY PmmAssumption DEF Init
<1>2. QED
  BY <1>1 DEF Init, RegionInv

LEMMA RegionScan == PmmInv /\ RegionInv /\ Scan => RegionInv'
<1> SUFFICES ASSUME PmmInv, RegionInv, Scan PROVE RegionInv'
  OBVIOUS
<1> DEFINE k == scan.i
           e == memory_map[k]
           start == UsableStart(e)
           end == UsableEnd(e)
<1>1. /\ memory_map \in MemoryMaps /\ Len(memory_map) \in Nat
      /\ k \in 1 .. Len(memory_map)
      /\ ~booted /\ LIMIT = 0 /\ scan.best_len \in Nat
      /\ UNCHANGED <<memory_map, booted, LIMIT>>
  BY PmmAssumption DEF PmmInv, TypeOK, Scan, Word
<1>2. \A i \in 1 .. Len(memory_map) :
         /\ UsableStart(memory_map[i]) \in Nat /\ UsableEnd(memory_map[i]) \in Nat
         /\ memory_map[i].base_addr <= UsableStart(memory_map[i])
         /\ UsableEnd(memory_map[i]) <=
              memory_map[i].base_addr + memory_map[i].length
  BY <1>1, EntryPages
<1>3. \A i \in 1 .. Len(memory_map) : Extent(memory_map[i]) \in Int
  BY <1>2 DEF Extent
<1>4. CASE /\ e.usable /\ end > start /\ end - start > scan.best_len
           /\ scan' = [i |-> k + 1, best_base |-> start, best_len |-> end - start]
  <2>1. scan'.i = k + 1 /\ scan'.best_base = start /\ scan'.best_len = Extent(e)
    BY <1>4 DEF Extent
  <2>2. Extent(e) > scan.best_len
    BY <1>4 DEF Extent
  <2>3. \A i \in 1 .. Len(memory_map) :
           i < k + 1 /\ memory_map[i].usable => Extent(memory_map[i]) <= Extent(e)
    BY <1>1, <1>3, <2>2 DEF RegionInv
  <2>4. Inside(memory_map, start, end - start)
    <3>1. /\ start \in Nat /\ end \in Nat /\ e.base_addr <= start
          /\ end <= e.base_addr + e.length
      BY <1>1, <1>2
    <3> HIDE DEF start, end
    <3>2. start + (end - start) = end
      BY <3>1
    <3>3. e.usable /\ start + (end - start) <= e.base_addr + e.length
      BY <1>4, <3>1, <3>2, Zenon
    <3>4. QED
      BY <1>1, <3>1, <3>3, Zenon DEF Inside
  <2>5. Inside(memory_map, scan'.best_base, scan'.best_len)
    BY <1>4, <2>4
  <2>6. QED
    BY <1>1, <2>1, <2>3, <2>5 DEF RegionInv
<1>5. CASE /\ ~(e.usable /\ end > start /\ end - start > scan.best_len)
           /\ scan' = [scan EXCEPT !.i = @ + 1]
  <2>1. /\ scan'.i = k + 1 /\ scan'.best_base = scan.best_base
        /\ scan'.best_len = scan.best_len
    BY <1>5 DEF PmmInv, TypeOK
  <2>2. e.usable => Extent(e) <= scan.best_len
    BY <1>1, <1>2, <1>5 DEF Extent
  <2>3. \A i \in 1 .. Len(memory_map) :
           i < k + 1 /\ memory_map[i].usable =>
              Extent(memory_map[i]) <= scan.best_len
    BY <1>1, <2>2 DEF RegionInv
  <2>4. QED
    BY <1>1, <2>1, <2>3 DEF RegionInv
<1>6. QED
  BY <1>4, <1>5 DEF Scan

LEMMA RegionNext == PmmInv /\ RegionInv /\ [Next]_vars => RegionInv'
<1> SUFFICES ASSUME PmmInv, RegionInv, [Next]_vars PROVE RegionInv'
  OBVIOUS
<1>1. CASE Scan
  BY <1>1, RegionScan
<1>2. CASE StoreRegion
  <2>1. /\ scan' = scan /\ memory_map' = memory_map
        /\ scan.i > Len(memory_map)
        /\ scan.best_len >= PAGE_SIZE \/ LIMIT' = LIMIT
    BY <1>2 DEF StoreRegion
  <2>2. PAGE_SIZE \in Nat \ {0} /\ scan.best_len \in Nat
    BY PmmAssumption DEF PmmInv, TypeOK, Word
  <2>3. QED
    BY <2>1, <2>2 DEF RegionInv
<1>3. CASE (\E c \in Callers : Step(c)) \/ UNCHANGED vars
  <2>1. UNCHANGED <<memory_map, scan, booted, LIMIT>>
    BY <1>3 DEF Step, Enter, Load, CompareExchange, bootVars, vars
  <2>2. QED
    BY <2>1 DEF RegionInv
<1>4. QED
  BY <1>1, <1>2, <1>3 DEF Next

(* The region `init' publishes lies in a usable entry, and is the largest  *)
(* of them, for every memory map.                                          *)
THEOREM PublishesLargestRegion == Spec => []LargestRegion
<1>1. Init => RegionInv
  BY RegionInit
<1>2. PmmInv /\ RegionInv /\ [Next]_vars => RegionInv'
  BY RegionNext
<1>3. PmmInv /\ RegionInv => LargestRegion
  <2> SUFFICES ASSUME PmmInv, RegionInv, booted PROVE LargestRegion
    BY DEF LargestRegion
  <2>1. memory_map \in Seq(Entry) /\ scan.i > Len(memory_map) /\ scan.i \in Nat
    BY PmmAssumption DEF PmmInv, TypeOK, RegionInv
  <2>2. \A i \in 1 .. Len(memory_map) :
           memory_map[i].usable =>
             UsableEnd(memory_map[i]) - UsableStart(memory_map[i]) <= scan.best_len
    BY <2>1 DEF RegionInv, Extent
  <2>3. LIMIT > 0 => /\ LIMIT = scan.best_base + scan.best_len
                     /\ Inside(memory_map, scan.best_base, scan.best_len)
    BY DEF PmmInv, RegionInv, TypeOK, Word
  <2>4. QED
    BY <2>2, <2>3 DEF LargestRegion, Inside
<1>4. QED
  BY <1>1, <1>2, <1>3, PmmInvariant, PTL DEF Spec

LEMMA KibMonotone ==
  ASSUME NEW x \in Nat, NEW y \in Nat, x <= y
  PROVE  x \div 1024 <= y \div 1024
OBVIOUS

(* NEXT_FREE never moves back and free_kib never grows.                    *)
THEOREM FreeSpaceNeverGrows == Spec => FreeSpaceShrinks
<1> DEFINE A == booted => free_kib' <= free_kib /\ NEXT_FREE <= NEXT_FREE'
<1>1. PmmInv /\ PmmInv' /\ [Next]_vars => [A]_vars
  <2> SUFFICES ASSUME PmmInv, PmmInv', Next, booted
               PROVE  free_kib' <= free_kib /\ NEXT_FREE <= NEXT_FREE'
    OBVIOUS
  <2>1. /\ NEXT_FREE \in Nat /\ LIMIT \in Nat /\ NEXT_FREE' \in Nat
    <3>1. NEXT_FREE \in Word /\ LIMIT \in Word /\ NEXT_FREE' \in Word
      BY Zenon DEF PmmInv, TypeOK
    <3>2. QED
      BY ONLY <3>1, PmmAssumption DEF Word
  <2>2. LIMIT' = LIMIT /\ (NEXT_FREE' = NEXT_FREE
                             \/ (NEXT_FREE # 0 /\ NEXT_FREE <= NEXT_FREE'))
    <3>1. ASSUME NEW c \in Callers, CompareExchange(c), NEXT_FREE = current[c]
          PROVE  NEXT_FREE # 0 /\ NEXT_FREE <= NEXT_FREE'
      <4> DEFINE b == Candidate(current[c], req[c])
      <4>1. pc[c] = "cas" /\ NEXT_FREE' = b.hi
        BY <3>1 DEF CompareExchange
      <4>2. b \in Grant /\ NEXT_FREE <= b.lo /\ b.lo + b.size <= b.hi
        BY <3>1, <4>1, GrantedBlock
      <4>3. NEXT_FREE # 0
        BY <3>1, <4>1 DEF PmmInv, CannotServe
      <4> HIDE DEF b
      <4>4. b.lo \in Nat /\ b.hi \in Nat /\ b.size \in Nat
        BY <4>2 DEF Grant, Word
      <4>5. QED
        BY <2>1, <4>1, <4>2, <4>3, <4>4
    <3>2. ASSUME NEW c \in Callers, CompareExchange(c), NEXT_FREE # current[c]
          PROVE  NEXT_FREE' = NEXT_FREE
      BY <3>2 DEF CompareExchange
    <3>3. ~Scan /\ ~StoreRegion
      BY DEF Scan, StoreRegion
    <3>4. PICK c \in Callers : Step(c)
      BY <3>3 DEF Next
    <3>5. LIMIT' = LIMIT
      BY <3>4 DEF Step, Enter, Load, CompareExchange, bootVars
    <3>6. CASE (\E r \in Requests : Enter(c, r)) \/ Load(c)
      BY <3>5, <3>6 DEF Enter, Load
    <3>7. CASE CompareExchange(c)
      BY <3>1, <3>2, <3>5, <3>7
    <3>8. QED
      BY <3>4, <3>6, <3>7 DEF Step
  <2>3. CASE NEXT_FREE' = NEXT_FREE
    <3>1. free_kib' = free_kib
      BY <2>2, <2>3 DEF free_kib
    <3>2. free_kib \in Nat
      BY <2>1 DEF free_kib
    <3>3. QED
      BY <2>1, <2>3, <3>1, <3>2
  <2>4. CASE NEXT_FREE # 0 /\ NEXT_FREE <= NEXT_FREE'
    <3>1. CASE LIMIT <= NEXT_FREE'
      <4>1. free_kib' = 0 /\ free_kib \in Nat
        BY <2>1, <2>2, <3>1 DEF free_kib
      <4>2. QED
        BY <2>4, <4>1
    <3>2. CASE ~(LIMIT <= NEXT_FREE')
      <4> DEFINE n == NEXT_FREE'
      <4>0. n \in Nat /\ NEXT_FREE <= n /\ ~(LIMIT <= n)
        BY <2>1, <2>4, <3>2
      <4> HIDE DEF n
      <4>1a. LIMIT - n \in Nat /\ LIMIT - NEXT_FREE \in Nat
             /\ LIMIT - n <= LIMIT - NEXT_FREE
        BY <2>1, <4>0
      <4>1. /\ LIMIT - NEXT_FREE' \in Nat /\ LIMIT - NEXT_FREE \in Nat
            /\ LIMIT - NEXT_FREE' <= LIMIT - NEXT_FREE
        BY <4>1a DEF n
      <4>2. (LIMIT - NEXT_FREE') \div 1024 <= (LIMIT - NEXT_FREE) \div 1024
        BY <4>1, KibMonotone
      <4>3. /\ free_kib' = (LIMIT - NEXT_FREE') \div 1024
            /\ free_kib = (LIMIT - NEXT_FREE) \div 1024
        BY <2>1, <2>2, <2>4, <3>2 DEF free_kib
      <4>4. QED
        BY <2>4, <4>2, <4>3
    <3>3. QED
      BY <3>1, <3>2
  <2>5. QED
    BY <2>2, <2>3, <2>4
<1>2. QED
  BY <1>1, PmmInvariant, PTL DEF Spec, FreeSpaceShrinks
-----------------------------------------------------------------------------
(* The refinement mapping's region.                                        *)
Region == IF LIMIT = 0 THEN [lo |-> 0, hi |-> 0]
                       ELSE [lo |-> scan.best_base, hi |-> LIMIT]

LEMMA StoreRegionRefines ==
  PmmInv /\ RegionInv /\ StoreRegion =>
    Abstract!FixRegion \/ UNCHANGED Abstract!absVars
<1> SUFFICES ASSUME PmmInv, RegionInv, StoreRegion
             PROVE  Abstract!FixRegion \/ UNCHANGED Abstract!absVars
  OBVIOUS
<1>1. /\ ~booted /\ LIMIT = 0 /\ allocated = <<>>
      /\ UNCHANGED <<scan, allocated>>
  BY DEF PmmInv, StoreRegion
<1>2. Region = [lo |-> 0, hi |-> 0]
  BY <1>1 DEF Region
<1>3. CASE LIMIT' = 0
  <2>1. Region' = Region
    BY <1>1, <1>3 DEF Region
  <2>2. QED
    BY <1>1, <2>1 DEF Region, Abstract!absVars
<1>4. CASE LIMIT' # 0
  <2>1. Region' = [lo |-> scan.best_base, hi |-> LIMIT']
    BY <1>1, <1>4 DEF Region
  <2>2. /\ scan.best_base \in Nat /\ LIMIT' \in Nat
        /\ scan.best_base < LIMIT'
    <3>1. /\ scan.best_len >= PAGE_SIZE
          /\ LIMIT' = (scan.best_base + scan.best_len) % U64
      BY <1>1, <1>4 DEF StoreRegion
    <3>2. /\ scan.best_base \in Nat /\ scan.best_len \in Nat
          /\ scan.best_base + scan.best_len \in Nat
          /\ scan.best_base + scan.best_len < U64
          /\ U64 \in Nat \ {0} /\ PAGE_SIZE \in Nat \ {0}
      BY PmmAssumption DEF PmmInv, TypeOK, Word
    <3>3. LIMIT' = scan.best_base + scan.best_len
      BY <3>1, <3>2, SmallMod
    <3>4. QED
      BY <3>1, <3>2, <3>3
  <2>3. Region' \in Abstract!Span /\ Region'.lo < Region'.hi
    BY <2>1, <2>2 DEF Abstract!Span
  <2>4. QED
    BY <1>1, <1>2, <2>3 DEF Region, Abstract!FixRegion
<1>5. QED
  BY <1>3, <1>4

LEMMA CompareExchangeRefines ==
  ASSUME NEW c \in Callers, PmmInv, CompareExchange(c)
  PROVE  Abstract!AbsNext \/ UNCHANGED Abstract!absVars
<1>1. UNCHANGED <<scan, LIMIT>> /\ pc[c] = "cas"
  BY DEF CompareExchange, bootVars
<1>2. Region' = Region
  BY <1>1 DEF Region
<1>3. CASE NEXT_FREE # current[c]
  <2>1. allocated' = allocated
    BY <1>3 DEF CompareExchange
  <2>2. QED
    BY <1>2, <2>1 DEF Region, Abstract!absVars
<1>4. CASE NEXT_FREE = current[c]
  <2> DEFINE b == Candidate(current[c], req[c])
  <2>1. allocated' = Append(allocated, b)
    BY <1>4 DEF CompareExchange
  <2>2. /\ b \in Grant /\ LIMIT # 0
        /\ NEXT_FREE <= b.lo /\ b.lo + b.size <= b.hi /\ b.hi <= LIMIT
        /\ b.lo % b.align = 0
    BY <1>1, <1>4, GrantedBlock
  <2> HIDE DEF b
  <2>3. /\ b.lo \in Nat /\ b.hi \in Nat /\ b.size \in Nat
        /\ NEXT_FREE \in Nat /\ scan.best_base \in Nat
        /\ scan.best_base <= NEXT_FREE
    BY <2>2 DEF PmmInv, TypeOK, Grant, Word
  <2>4. allocated \in Seq(Grant)
    BY DEF PmmInv, TypeOK
  <2>5. /\ Len(allocated) \in Nat
        /\ Len(allocated') = Len(allocated) + 1
        /\ allocated'[Len(allocated) + 1] = b
        /\ \A i \in 1 .. Len(allocated) : allocated[i] \in Grant
    BY <2>1, <2>4
  <2>6. \A i \in 1 .. Len(allocated) :
           /\ allocated[i].hi <= NEXT_FREE
           /\ allocated[i].hi \in Nat /\ allocated[i].lo \in Nat
    BY <2>5 DEF PmmInv, Grant, Word
  <2>7. \A i \in 1 .. Len(allocated) : ~Abstract!Overlap(b, allocated[i])
    BY <2>2, <2>3, <2>6 DEF Abstract!Overlap
  <2>8. b \in Abstract!Block
    BY <2>2 DEF Grant, Word, Abstract!Block
  <2>9. Region = [lo |-> scan.best_base, hi |-> LIMIT]
    BY <2>2 DEF Region
  <2>10. Region.lo <= b.lo /\ b.lo + b.size <= b.hi /\ b.hi <= Region.hi
    BY <2>2, <2>3, <2>9
  <2>11. Abstract!HandOut(b)
    BY <1>2, <2>1, <2>2, <2>7, <2>8, <2>10 DEF Region, Abstract!HandOut
  <2>12. Abstract!HandOut(allocated'[Len(allocated) + 1])
    BY <2>5, <2>11
  <2>13. QED
    BY <2>5, <2>12 DEF Abstract!AbsNext
<1>5. QED
  BY <1>3, <1>4

(* The compare-and-exchange allocator implements BlockAllocator: a block   *)
(* is handed out at the successful compare_exchange, the region is fixed   *)
(* when `init' stores it, and every other step stutters.                   *)
THEOREM RefinesBlockAllocator == Spec => ImplementsBlockAllocator
<1>1. Init => Abstract!AbsInit
  BY DEF Init, Abstract!AbsInit
<1>2. PmmInv /\ RegionInv /\ [Next]_vars => [Abstract!AbsNext]_(Abstract!absVars)
  <2> SUFFICES ASSUME PmmInv, RegionInv, [Next]_vars
               PROVE  Abstract!AbsNext \/ UNCHANGED Abstract!absVars
    OBVIOUS
  <2>1. CASE Scan
    <3>1. LIMIT = 0 /\ LIMIT' = 0 /\ allocated' = allocated
      BY <2>1 DEF Scan, PmmInv
    <3>2. QED
      BY <3>1 DEF Abstract!absVars
  <2>2. CASE StoreRegion
    BY <2>2, StoreRegionRefines DEF Abstract!AbsNext
  <2>3. CASE \E c \in Callers : CompareExchange(c)
    BY <2>3, CompareExchangeRefines
  <2>4. CASE \E c \in Callers : (\E r \in Requests : Enter(c, r)) \/ Load(c)
    <3>1. UNCHANGED <<scan, LIMIT, allocated>>
      BY <2>4 DEF Enter, Load, bootVars
    <3>2. QED
      BY <3>1 DEF Abstract!absVars
  <2>5. CASE UNCHANGED vars
    BY <2>5 DEF vars, Abstract!absVars
  <2>6. QED
    BY <2>1, <2>2, <2>3, <2>4, <2>5 DEF Next, Step
<1>3. Init => RegionInv
  BY RegionInit
<1>4. PmmInv /\ RegionInv /\ [Next]_vars => RegionInv'
  BY RegionNext
<1>5. QED
  BY <1>1, <1>2, <1>3, <1>4, PmmInvariant, PTL
     DEF Spec, ImplementsBlockAllocator, Abstract!AbsSpec
=============================================================================
