-------------------------- MODULE RingIndexProofs --------------------------
(***************************************************************************)
(* Facts about wrapping positions and the slots they select, for every     *)
(* BufSize and WordSize.  The proofs about both ring buffers rest on them. *)
(***************************************************************************)
EXTENDS RingIndex, TLAPS

(* Division is unique: a remainder is known once some quotient is.         *)
LEMMA RemainderUnique ==
  ASSUME NEW n \in Nat \ {0}, NEW q \in Int, NEW m \in 0 .. n - 1
  PROVE  (n * q + m) % n = m
OBVIOUS

LEMMA QuotientRemainder ==
  ASSUME NEW n \in Nat \ {0}, NEW a \in Int
  PROVE  /\ a \div n \in Int
         /\ a % n \in 0 .. n - 1
         /\ a = n * (a \div n) + (a % n)
OBVIOUS

(* Adding a multiple of the divisor does not change the remainder.         *)
LEMMA RemainderShift ==
  ASSUME NEW n \in Nat \ {0}, NEW a \in Int, NEW k \in Int
  PROVE  (a + n * k) % n = a % n
<1> DEFINE q == a \div n
           m == a % n
<1>1. q \in Int /\ m \in 0 .. n - 1 /\ a = n * q + m
  BY QuotientRemainder
<1> HIDE DEF q, m
<1>2. q + k \in Int
  BY <1>1
<1>3. a + n * k = n * (q + k) + m
  BY <1>1
<1>4. (n * (q + k) + m) % n = m
  BY <1>1, <1>2, RemainderUnique
<1> QED
  BY <1>3, <1>4 DEF m

(* Two different numbers less than n apart have different remainders.      *)
LEMMA RemainderDistinct ==
  ASSUME NEW n \in Nat \ {0}, NEW a \in Int, NEW b \in Int, a < b, b < a + n
  PROVE  a % n # b % n
<1> SUFFICES ASSUME a % n = b % n PROVE FALSE
  OBVIOUS
<1> DEFINE qa == a \div n
           qb == b \div n
           m  == a % n
<1>1. /\ qa \in Int /\ qb \in Int /\ m \in 0 .. n - 1
      /\ a = n * qa + m /\ b = n * qb + m
  BY QuotientRemainder
<1> HIDE DEF qa, qb, m
<1> DEFINE k == qb - qa
<1>2. k \in Int /\ b - a = n * k
  BY <1>1
<1> HIDE DEF k
<1>3. CASE k <= 0
  <2>1. n * k <= 0
    BY <1>2, <1>3
  <2> QED
    BY <1>2, <2>1
<1>4. CASE k >= 1
  <2>1. n * k >= n
    BY <1>2, <1>4
  <2> QED
    BY <1>2, <2>1
<1> QED
  BY <1>2, <1>3, <1>4

(* The wrap of WordSize is invisible to the slot, which divides it.        *)
LEMMA SlotIgnoresWrap ==
  ASSUME NEW a \in Int
  PROVE  Slot(a % WordSize) = Slot(a)
<1> DEFINE n == BufSize
           l == WordSize \div BufSize
           q == a \div WordSize
<1>1. n \in Nat \ {0} /\ WordSize \in Nat \ {0}
  BY RingAssumption
<1>2. l \in Int /\ WordSize = n * l
  BY <1>1, RingAssumption, QuotientRemainder
<1>3. q \in Int /\ a % WordSize \in Int /\ a = WordSize * q + (a % WordSize)
  BY <1>1, QuotientRemainder
<1> HIDE DEF n, l, q
<1>4. -(l * q) \in Int /\ a % WordSize = a + n * (-(l * q))
  BY <1>1, <1>2, <1>3
<1>5. (a + n * (-(l * q))) % n = a % n
  BY <1>1, <1>4, RemainderShift
<1> QED
  BY <1>4, <1>5 DEF Slot, n

-----------------------------------------------------------------------------
LEMMA SlotType ==
  ASSUME NEW a \in Int
  PROVE  Slot(a) \in Slots
BY RingAssumption, QuotientRemainder DEF Slot, Slots

LEMMA AddType ==
  ASSUME NEW a \in Int, NEW k \in Int
  PROVE  Add(a, k) \in Positions
<1>1. a + k \in Int /\ WordSize \in Nat \ {0}
  BY RingAssumption
<1> QED
  BY <1>1, QuotientRemainder DEF Add, Positions

LEMMA SubType ==
  ASSUME NEW a \in Int, NEW b \in Int
  PROVE  Sub(a, b) \in Positions
<1>1. a - b \in Int /\ WordSize \in Nat \ {0}
  BY RingAssumption
<1> QED
  BY <1>1, QuotientRemainder DEF Sub, Positions

LEMMA SubNat ==
  ASSUME NEW a \in Positions, NEW b \in Positions
  PROVE  Sub(a, b) \in Nat
BY SubType, RingAssumption DEF Positions

LEMMA AddZero ==
  ASSUME NEW a \in Positions
  PROVE  Add(a, 0) = a
BY RingAssumption DEF Add, Positions

(* Wrapping addition and subtraction without the remainder.                *)
LEMMA AddForm ==
  ASSUME NEW a \in Positions, NEW k \in Positions
  PROVE  Add(a, k) = IF a + k < WordSize THEN a + k ELSE a + k - WordSize
<1>1. WordSize \in Nat \ {0} /\ a \in Int /\ k \in Int
  BY RingAssumption DEF Positions
<1>2. CASE a + k < WordSize
  <2>1. a + k \in 0 .. WordSize - 1 /\ a + k = WordSize * 0 + (a + k)
    BY <1>1, <1>2 DEF Positions
  <2> QED
    BY <1>1, <1>2, <2>1, RemainderUnique DEF Add
<1>3. CASE ~(a + k < WordSize)
  <2>1. /\ a + k - WordSize \in 0 .. WordSize - 1
        /\ a + k = WordSize * 1 + (a + k - WordSize)
    BY <1>1, <1>3 DEF Positions
  <2>2. (WordSize * 1 + (a + k - WordSize)) % WordSize = a + k - WordSize
    BY <1>1, <2>1, RemainderUnique
  <2> QED
    BY <1>3, <2>1, <2>2 DEF Add
<1> QED
  BY <1>2, <1>3

LEMMA SubForm ==
  ASSUME NEW a \in Positions, NEW b \in Positions
  PROVE  Sub(a, b) = IF a >= b THEN a - b ELSE a - b + WordSize
<1>1. WordSize \in Nat \ {0} /\ a \in Int /\ b \in Int
  BY RingAssumption DEF Positions
<1>2. CASE a >= b
  <2>1. a - b \in 0 .. WordSize - 1 /\ a - b = WordSize * 0 + (a - b)
    BY <1>1, <1>2 DEF Positions
  <2>2. (WordSize * 0 + (a - b)) % WordSize = a - b
    BY <1>1, <2>1, RemainderUnique
  <2> QED
    BY <1>2, <2>1, <2>2 DEF Sub
<1>3. CASE ~(a >= b)
  <2>1. /\ a - b + WordSize \in 0 .. WordSize - 1
        /\ a - b = WordSize * (-1) + (a - b + WordSize)
    BY <1>1, <1>3 DEF Positions
  <2>2. (WordSize * (-1) + (a - b + WordSize)) % WordSize = a - b + WordSize
    BY <1>1, <2>1, RemainderUnique
  <2> QED
    BY <1>3, <2>1, <2>2 DEF Sub
<1> QED
  BY <1>2, <1>3

(* One step of an index moves a distance by one, wrapped or not.           *)
LEMMA SubStep ==
  ASSUME NEW a \in Positions, NEW b \in Positions
  PROVE  /\ Sub(a, b) < WordSize - 1 => Sub(Add(a, 1), b) = Sub(a, b) + 1
         /\ Sub(a, b) > 0 => Sub(a, Add(b, 1)) = Sub(a, b) - 1
<1>1. 1 \in Positions /\ WordSize \in Nat
  BY RingAssumption DEF Positions
<1>2. Add(a, 1) \in Positions /\ Add(b, 1) \in Positions
  BY AddType DEF Positions
<1>3. /\ Add(a, 1) = IF a + 1 < WordSize THEN a + 1 ELSE a + 1 - WordSize
      /\ Add(b, 1) = IF b + 1 < WordSize THEN b + 1 ELSE b + 1 - WordSize
  BY <1>1, AddForm
<1>4. Sub(a, b) = IF a >= b THEN a - b ELSE a - b + WordSize
  BY SubForm
<1>5. Sub(Add(a, 1), b) = IF Add(a, 1) >= b THEN Add(a, 1) - b
                                            ELSE Add(a, 1) - b + WordSize
  BY <1>2, SubForm
<1>6. Sub(a, Add(b, 1)) = IF a >= Add(b, 1) THEN a - Add(b, 1)
                                            ELSE a - Add(b, 1) + WordSize
  BY <1>2, SubForm
<1> QED
  BY <1>1, <1>3, <1>4, <1>5, <1>6 DEF Positions

(* Adding the distance from b to a takes b to a.                           *)
LEMMA AddSub ==
  ASSUME NEW a \in Positions, NEW b \in Positions
  PROVE  Add(b, Sub(a, b)) = a
<1>1. Sub(a, b) \in Positions /\ WordSize \in Nat
  BY SubType, RingAssumption DEF Positions
<1>2. Sub(a, b) = IF a >= b THEN a - b ELSE a - b + WordSize
  BY SubForm
<1>3. Add(b, Sub(a, b)) = IF b + Sub(a, b) < WordSize THEN b + Sub(a, b)
                          ELSE b + Sub(a, b) - WordSize
  BY <1>1, AddForm
<1> QED
  BY <1>1, <1>2, <1>3 DEF Positions

LEMMA AddSuccessor ==
  ASSUME NEW a \in Positions, NEW k \in Nat, k + 1 < WordSize
  PROVE  Add(Add(a, 1), k) = Add(a, k + 1)
<1>1. 1 \in Positions /\ k \in Positions /\ k + 1 \in Positions /\ WordSize \in Nat
  BY RingAssumption DEF Positions
<1>2. Add(a, 1) \in Positions
  BY AddType DEF Positions
<1> QED
  BY <1>1, <1>2, AddForm DEF Positions

(* Within BufSize positions from a, no two use the same slot.              *)
LEMMA SlotDistinct ==
  ASSUME NEW a \in Positions, NEW i \in Slots, NEW j \in Slots, i # j
  PROVE  Slot(Add(a, i)) # Slot(Add(a, j))
<1>1. BufSize \in Nat \ {0} /\ a \in Int /\ i \in Int /\ j \in Int
  BY RingAssumption DEF Positions, Slots
<1>2. Slot(Add(a, i)) = (a + i) % BufSize /\ Slot(Add(a, j)) = (a + j) % BufSize
  <2>1. a + i \in Int /\ a + j \in Int
    BY <1>1
  <2> QED
    BY <2>1, SlotIgnoresWrap DEF Add, Slot
<1>3. CASE i < j
  <2>1. a + i < a + j /\ a + j < (a + i) + BufSize /\ a + i \in Int /\ a + j \in Int
    BY <1>1, <1>3 DEF Slots
  <2> QED
    BY <1>1, <1>2, <2>1, RemainderDistinct
<1>4. CASE j < i
  <2>1. a + j < a + i /\ a + i < (a + j) + BufSize /\ a + i \in Int /\ a + j \in Int
    BY <1>1, <1>4 DEF Slots
  <2> QED
    BY <1>1, <1>2, <2>1, RemainderDistinct
<1> QED
  BY <1>1, <1>3, <1>4

(* Offsets from a position: adding one and taking it off again, wrapped or *)
(* not.                                                                    *)
LEMMA SubAdd ==
  ASSUME NEW a \in Positions, NEW k \in Positions
  PROVE  Sub(Add(a, k), a) = k
<1>1. Add(a, k) \in Positions /\ WordSize \in Nat
  BY AddType, RingAssumption DEF Positions
<1>2. Add(a, k) = IF a + k < WordSize THEN a + k ELSE a + k - WordSize
  BY AddForm
<1>3. Sub(Add(a, k), a) = IF Add(a, k) >= a THEN Add(a, k) - a
                          ELSE Add(a, k) - a + WordSize
  BY <1>1, SubForm
<1> QED
  BY <1>1, <1>2, <1>3 DEF Positions

(* A word holds the ring at least twice.                                   *)
LEMMA TwoRings == WordSize >= 2 * BufSize
<1> DEFINE l == WordSize \div BufSize
<1>1. BufSize \in Nat \ {0} /\ WordSize \in Nat /\ WordSize > BufSize
  BY RingAssumption
<1>2. l \in Int /\ WordSize = BufSize * l
  BY <1>1, RingAssumption, QuotientRemainder
<1> HIDE DEF l
<1>3. CASE l <= 1
  <2>1. BufSize * l <= BufSize
    BY <1>1, <1>2, <1>3
  <2> QED
    BY <1>1, <1>2, <2>1
<1>4. CASE l >= 2
  <2>1. BufSize * l >= BufSize * 2
    BY <1>1, <1>2, <1>4
  <2> QED
    BY <1>1, <1>2, <2>1
<1> QED
  BY <1>2, <1>3, <1>4

(* The slot of an offset, wrapped or not.                                  *)
LEMMA SlotOfSum ==
  ASSUME NEW a \in Positions, NEW k \in Int
  PROVE  Slot(Add(a, k)) = (a + k) % BufSize
<1>1. a + k \in Int
  BY RingAssumption DEF Positions
<1> QED
  BY <1>1, SlotIgnoresWrap DEF Add, Slot

(* The position a ring further on has the same slot.                       *)
LEMMA SlotRound ==
  ASSUME NEW a \in Positions
  PROVE  Slot(Add(a, BufSize)) = Slot(a)
<1>1. BufSize \in Nat \ {0} /\ a \in Int
  BY RingAssumption DEF Positions
<1>2. PICK k \in Int : k = 1
  OBVIOUS
<1>3. a + BufSize = a + BufSize * k
  BY <1>1, <1>2
<1>4. (a + BufSize * k) % BufSize = a % BufSize
  BY <1>1, RemainderShift
<1>5. (a + BufSize) % BufSize = a % BufSize
  BY <1>3, <1>4
<1> QED
  BY <1>1, <1>5, SlotOfSum DEF Slot

(* Beyond the first BufSize offsets every slot is that of an offset among  *)
(* them, at least a ring before.                                           *)
LEMMA SlotFound ==
  ASSUME NEW a \in Positions, NEW x \in Nat, x >= BufSize
  PROVE  \E k \in Slots : k + BufSize <= x /\ Slot(Add(a, k)) = Slot(Add(a, x))
<1> DEFINE k == x % BufSize
           q == x \div BufSize
<1>1. BufSize \in Nat \ {0} /\ a \in Int /\ x \in Int
  BY RingAssumption DEF Positions
<1>2. q \in Int /\ k \in 0 .. BufSize - 1 /\ x = BufSize * q + k
  BY <1>1, QuotientRemainder
<1> HIDE DEF k, q
<1>3. BufSize * q >= BufSize
  <2>1. CASE q >= 1
    BY <1>1, <1>2, <2>1
  <2>2. CASE q <= 0
    <3>1. BufSize * q <= 0
      BY <1>1, <1>2, <2>2
    <3> QED
      BY <1>1, <1>2, <3>1
  <2> QED
    BY <1>2, <2>1, <2>2
<1>4. k \in Int /\ a + k \in Int /\ a + x = (a + k) + BufSize * q
  BY <1>1, <1>2
<1>5. ((a + k) + BufSize * q) % BufSize = (a + k) % BufSize
  BY <1>1, <1>2, <1>4, RemainderShift
<1>6. Slot(Add(a, k)) = Slot(Add(a, x))
  BY <1>1, <1>4, <1>5, SlotOfSum
<1>7. k + BufSize <= x
  BY <1>1, <1>2, <1>3
<1> QED
  BY <1>2, <1>6, <1>7 DEF Slots
=============================================================================
