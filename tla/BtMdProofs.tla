----------------------------- MODULE BtMdProofs -----------------------------
(***************************************************************************)
(* Proofs about lockfree::SPSC, and about the backtest pipeline whose      *)
(* channel it is.                                                          *)
(*                                                                         *)
(* For every BufSize, WordSize and set of values, and for loads that may   *)
(* or may not lag: the producer never laps the consumer, their accesses to *)
(* a slot never meet, and the ring is a bounded FIFO queue.                *)
(*                                                                         *)
(* For every number of rows and any lists subscribed to: subscribe() loses *)
(* the symbols at the seams of its lists and no others; the pipeline's     *)
(* threads use the channel as module Spsc says one producer and one        *)
(* consumer do, so that what is proved of the channel holds in it, and the *)
(* consumer gets the rows in order.                                        *)
(***************************************************************************)
EXTENDS BtMd, RingIndexProofs, SequenceTheorems, FiniteSetTheorems

(* The copy each thread keeps of its own index is current while it is in   *)
(* an operation.                                                           *)
LocalsCurrent == /\ ppc # "idle" => w = write_pos
                 /\ cpc # "idle" => r = read_pos

(* What a thread has seen of the other's index lies behind it, and not so  *)
(* far behind that the thread would be misled: in ring order               *)
(* r_seen, read_pos, w_seen, write_pos, within BufSize of each other.      *)
ViewsBehind == /\ Sub(read_pos, r_seen) + Used = Sub(write_pos, r_seen)
               /\ Sub(w_seen, read_pos) + Sub(write_pos, w_seen) = Used
               /\ Sub(write_pos, r_seen) <= BufSize
               /\ ppc \in {"write", "publish"} => Sub(write_pos, r_seen) < BufSize
               /\ cpc \in {"read", "advance"} => Sub(w_seen, read_pos) > 0

(* The value in flight on each side is the value in the slot.              *)
InFlight == /\ ppc # "idle" => u \in Values
            /\ ppc = "publish" => buffer[Slot(w)] = u
            /\ cpc = "advance" => value = buffer[Slot(r)]

IndInv == TypeOK /\ LocalsCurrent /\ ViewsBehind /\ InFlight

-----------------------------------------------------------------------------
(* A loaded index lies between the one seen before and the current one.    *)
LEMMA LoadedBetween ==
  ASSUME NEW last \in Positions, NEW now \in Positions,
         NEW p \in Loadable(last, now)
  PROVE  /\ p \in Positions
         /\ Sub(p, last) <= Sub(now, last)
         /\ Sub(p, last) + Sub(now, p) = Sub(now, last)
         /\ ~StaleReads => p = now
<1>1. p \in Positions /\ (~StaleReads => p = now)
  BY SpscAssumption DEF Loadable, Upto
<1>2. /\ Sub(p, last) = IF p >= last THEN p - last ELSE p - last + WordSize
      /\ Sub(now, last) = IF now >= last THEN now - last ELSE now - last + WordSize
      /\ Sub(now, p) = IF now >= p THEN now - p ELSE now - p + WordSize
  BY <1>1, SubForm
<1>3. Sub(p, last) <= Sub(now, last)
  BY <1>2, RingAssumption DEF Loadable, Upto, Positions
<1>4. Sub(p, last) + Sub(now, p) = Sub(now, last)
  BY <1>1, <1>2, <1>3, RingAssumption DEF Positions
<1> QED
  BY <1>1, <1>3, <1>4

(* Three positions of which b lies between a and c.                        *)
LEMMA Between ==
  ASSUME NEW a \in Positions, NEW b \in Positions, NEW c \in Positions,
         NEW p \in Positions,
         Sub(b, a) + Sub(c, b) = Sub(c, a),
         Sub(p, a) + Sub(b, p) = Sub(b, a)
  PROVE  Sub(b, p) + Sub(c, b) = Sub(c, p)
<1>1. /\ Sub(b, a) = IF b >= a THEN b - a ELSE b - a + WordSize
      /\ Sub(c, b) = IF c >= b THEN c - b ELSE c - b + WordSize
      /\ Sub(c, a) = IF c >= a THEN c - a ELSE c - a + WordSize
      /\ Sub(p, a) = IF p >= a THEN p - a ELSE p - a + WordSize
      /\ Sub(b, p) = IF b >= p THEN b - p ELSE b - p + WordSize
      /\ Sub(c, p) = IF c >= p THEN c - p ELSE c - p + WordSize
  BY SubForm
<1> QED
  BY <1>1, RingAssumption DEF Positions

(* What the invariant says of the distance between the two indices.        *)
LEMMA UsedBounds ==
  ASSUME IndInv
  PROVE  /\ Used \in 0 .. BufSize
         /\ ppc \in {"write", "publish"} => Used < BufSize
         /\ cpc \in {"read", "advance"} => Used > 0
         /\ Add(read_pos, Used) = write_pos
<1>1. /\ read_pos \in Positions /\ write_pos \in Positions
      /\ r_seen \in Positions /\ w_seen \in Positions
  BY DEF IndInv, TypeOK
<1>2. /\ Sub(read_pos, r_seen) \in Nat /\ Sub(write_pos, r_seen) \in Nat
      /\ Sub(w_seen, read_pos) \in Nat /\ Sub(write_pos, w_seen) \in Nat
      /\ Used \in Nat
  BY <1>1, SubType, RingAssumption DEF Positions, Used
<1>3. Add(read_pos, Used) = write_pos
  BY <1>1, AddSub DEF Used
<1> QED
  BY <1>2, <1>3, RingAssumption DEF IndInv, ViewsBehind

-----------------------------------------------------------------------------
LEMMA InitInv == Init => IndInv
<1> SUFFICES ASSUME Init PROVE IndInv
  OBVIOUS
<1>1. 0 \in Positions /\ Sub(0, 0) = 0
  <2>1. 0 \in Positions
    BY RingAssumption DEF Positions
  <2> QED
    BY <2>1, SubForm
<1> QED
  BY <1>1, RingAssumption
     DEF Init, IndInv, TypeOK, LocalsCurrent, ViewsBehind, InFlight, Used

(* A push() that found room keeps it: the consumer can only have moved on. *)
LEMMA PushRoomInv == IndInv /\ PushRoom => IndInv'
<1> SUFFICES ASSUME IndInv, PushRoom PROVE IndInv'
  OBVIOUS
<1> USE DEF IndInv
<1>1. r_seen' \in Loadable(r_seen, read_pos) /\ Sub(w, r_seen') < BufSize
  BY DEF PushRoom
<1>2. /\ r_seen' \in Positions
      /\ Sub(r_seen', r_seen) + Sub(read_pos, r_seen') = Sub(read_pos, r_seen)
  BY <1>1, LoadedBetween DEF TypeOK
<1>3. Sub(read_pos, r_seen') + Sub(write_pos, read_pos) = Sub(write_pos, r_seen')
  BY <1>2, Between DEF TypeOK, ViewsBehind, Used
<1>4. TypeOK' /\ LocalsCurrent' /\ InFlight'
  BY <1>2 DEF PushRoom, TypeOK, LocalsCurrent, InFlight, cvars
<1>5. /\ Sub(write_pos, r_seen') \in Nat /\ Used \in Nat
      /\ w = write_pos /\ BufSize \in Nat
  BY <1>2, SubNat, RingAssumption DEF PushRoom, TypeOK, LocalsCurrent, Used
<1>6. ViewsBehind'
  BY <1>1, <1>3, <1>5 DEF PushRoom, ViewsBehind, Used, cvars
<1> QED
  BY <1>4, <1>6

LEMMA PushFullInv == IndInv /\ PushFull => IndInv'
<1> SUFFICES ASSUME IndInv, PushFull PROVE IndInv'
  OBVIOUS
<1> USE DEF IndInv
<1>1. r_seen' \in Loadable(r_seen, read_pos)
  BY DEF PushFull
<1>2. /\ r_seen' \in Positions
      /\ Sub(r_seen', r_seen) + Sub(read_pos, r_seen') = Sub(read_pos, r_seen)
  BY <1>1, LoadedBetween DEF TypeOK
<1>3. Sub(read_pos, r_seen') + Sub(write_pos, read_pos) = Sub(write_pos, r_seen')
  BY <1>2, Between DEF TypeOK, ViewsBehind, Used
<1>4. /\ Sub(r_seen', r_seen) \in Nat /\ Sub(write_pos, r_seen') \in Nat
      /\ Sub(read_pos, r_seen) \in Nat /\ Sub(write_pos, r_seen) \in Nat
      /\ Sub(read_pos, r_seen') \in Nat /\ Used \in Nat
  BY <1>2, SubNat DEF TypeOK, Used
<1>5. TypeOK' /\ LocalsCurrent' /\ InFlight'
  BY <1>2 DEF PushFull, TypeOK, LocalsCurrent, InFlight, cvars
<1>6. ViewsBehind'
  <2>1. Sub(write_pos, r_seen') <= BufSize
    BY <1>2, <1>3, <1>4, RingAssumption DEF ViewsBehind, Used
  <2> QED
    BY <1>3, <2>1 DEF PushFull, ViewsBehind, Used, cvars
<1> QED
  BY <1>5, <1>6

(* While the producer is in push() with room, its slot is not one of those *)
(* that hold a published value, the one being read among them.             *)
LEMMA FreshSlot ==
  ASSUME IndInv, ppc = "write", NEW i \in 0 .. Used - 1
  PROVE  Slot(w) # Slot(Add(read_pos, i))
<1>1. Used \in 0 .. BufSize /\ Used < BufSize /\ Add(read_pos, Used) = w
  BY UsedBounds DEF IndInv, LocalsCurrent
<1>2. Used \in Slots /\ i \in Slots /\ i # Used
  BY <1>1, RingAssumption DEF Slots
<1>3. read_pos \in Positions
  BY DEF IndInv, TypeOK
<1> QED
  BY <1>1, <1>2, <1>3, SlotDistinct

LEMMA ReadFirst ==
  ASSUME IndInv, cpc \in {"read", "advance"}
  PROVE  Used > 0 /\ Add(read_pos, 0) = r
<1>1. read_pos \in Positions /\ r = read_pos
  BY DEF IndInv, TypeOK, LocalsCurrent
<1> QED
  BY <1>1, AddZero, UsedBounds

LEMMA PushWriteInv == IndInv /\ PushWrite => IndInv'
<1> SUFFICES ASSUME IndInv, PushWrite PROVE IndInv'
  OBVIOUS
<1>1. Slot(w) \in Slots
  BY SlotType DEF IndInv, TypeOK, Positions
<1>2. TypeOK'
  BY <1>1 DEF PushWrite, IndInv, TypeOK, cvars
<1>3. LocalsCurrent' /\ ViewsBehind'
  BY DEF PushWrite, IndInv, LocalsCurrent, ViewsBehind, Used, cvars
<1>4. InFlight'
  <2>1. buffer'[Slot(w)] = u
    BY <1>1 DEF PushWrite, IndInv, TypeOK
  <2>2. ASSUME cpc = "advance" PROVE value = buffer'[Slot(r)]
    <3>1. Used > 0 /\ Add(read_pos, 0) = r /\ Used \in Nat
      BY <2>2, ReadFirst, UsedBounds
    <3>2. Slot(w) # Slot(r)
      BY <3>1, FreshSlot DEF PushWrite
    <3>3. Slot(r) \in Slots
      BY SlotType DEF IndInv, TypeOK, Positions
    <3> QED
      BY <1>1, <2>2, <3>2, <3>3 DEF PushWrite, IndInv, TypeOK, InFlight
  <2> QED
    BY <2>1, <2>2 DEF PushWrite, IndInv, InFlight, cvars
<1> QED
  BY <1>2, <1>3, <1>4 DEF IndInv

LEMMA PushPublishInv == IndInv /\ PushPublish => IndInv' /\ Used' = Used + 1
<1> SUFFICES ASSUME IndInv, PushPublish PROVE IndInv' /\ Used' = Used + 1
  OBVIOUS
<1> USE DEF IndInv
<1>1. /\ w = write_pos /\ w \in Positions /\ read_pos \in Positions
      /\ r_seen \in Positions /\ w_seen \in Positions
  BY DEF PushPublish, TypeOK, LocalsCurrent
<1>2. write_pos' = Add(write_pos, 1) /\ write_pos' \in Positions
  BY <1>1, AddType DEF PushPublish, Positions
<1>3. /\ Used \in Nat /\ Used < BufSize
      /\ Sub(write_pos, w_seen) \in Nat /\ Sub(w_seen, read_pos) \in Nat
      /\ Sub(read_pos, r_seen) \in Nat /\ Sub(write_pos, r_seen) \in Nat
      /\ Sub(write_pos, r_seen) < BufSize
  BY <1>1, UsedBounds, SubType, RingAssumption
     DEF PushPublish, Positions, ViewsBehind
<1>4. /\ Used' = Used + 1
      /\ Sub(write_pos', r_seen) = Sub(write_pos, r_seen) + 1
      /\ Sub(write_pos', w_seen) = Sub(write_pos, w_seen) + 1
  <2>1. Sub(write_pos, w_seen) < WordSize - 1 /\ Sub(write_pos, r_seen) < WordSize - 1
        /\ Used < WordSize - 1
    BY <1>3, RingAssumption DEF ViewsBehind
  <2> QED
    BY <1>1, <1>2, <2>1, SubStep DEF Used, PushPublish
<1>5. TypeOK' /\ LocalsCurrent' /\ InFlight'
  BY <1>2 DEF PushPublish, TypeOK, LocalsCurrent, InFlight, cvars
<1>6. ViewsBehind'
  BY <1>3, <1>4, RingAssumption DEF PushPublish, ViewsBehind, cvars
<1> QED
  BY <1>4, <1>5, <1>6

LEMMA PushCallInv == IndInv /\ (\E v \in Values : PushCall(v)) => IndInv'
<1> SUFFICES ASSUME IndInv, NEW v \in Values, PushCall(v) PROVE IndInv'
  OBVIOUS
<1> USE DEF IndInv
<1>1. TypeOK'
  BY DEF PushCall, TypeOK, cvars
<1>2. LocalsCurrent' /\ InFlight'
  BY DEF PushCall, LocalsCurrent, InFlight, cvars
<1>3. ViewsBehind'
  BY DEF PushCall, ViewsBehind, Used, cvars
<1> QED
  BY <1>1, <1>2, <1>3

LEMMA PopCallInv == IndInv /\ PopCall => IndInv'
<1> SUFFICES ASSUME IndInv, PopCall PROVE IndInv'
  OBVIOUS
<1> USE DEF IndInv
<1>1. TypeOK'
  BY DEF PopCall, TypeOK, pvars
<1>2. LocalsCurrent' /\ InFlight'
  BY DEF PopCall, LocalsCurrent, InFlight, pvars
<1>3. ViewsBehind'
  BY DEF PopCall, ViewsBehind, Used, pvars
<1> QED
  BY <1>1, <1>2, <1>3

(* A load of _write_pos lies between the one seen before and the current   *)
(* one, so also between _read_pos and the current one.                     *)
LEMMA WriteSeenBehind ==
  ASSUME IndInv, NEW p \in Loadable(w_seen, write_pos)
  PROVE  /\ p \in Positions
         /\ Sub(p, read_pos) + Sub(write_pos, p) = Used
         /\ Sub(p, read_pos) \in Nat
<1>1. /\ read_pos \in Positions /\ write_pos \in Positions /\ w_seen \in Positions
      /\ Sub(w_seen, read_pos) + Sub(write_pos, w_seen) = Sub(write_pos, read_pos)
  BY DEF IndInv, TypeOK, ViewsBehind, Used
<1>2. p \in Positions /\ Sub(p, w_seen) + Sub(write_pos, p) = Sub(write_pos, w_seen)
  BY <1>1, LoadedBetween
<1>3. /\ Sub(p, w_seen) = IF p >= w_seen THEN p - w_seen ELSE p - w_seen + WordSize
      /\ Sub(write_pos, p) = IF write_pos >= p THEN write_pos - p
                             ELSE write_pos - p + WordSize
      /\ Sub(p, read_pos) = IF p >= read_pos THEN p - read_pos
                            ELSE p - read_pos + WordSize
      /\ Sub(write_pos, w_seen) = IF write_pos >= w_seen THEN write_pos - w_seen
                                  ELSE write_pos - w_seen + WordSize
      /\ Sub(w_seen, read_pos) = IF w_seen >= read_pos THEN w_seen - read_pos
                                 ELSE w_seen - read_pos + WordSize
      /\ Sub(write_pos, read_pos) = IF write_pos >= read_pos THEN write_pos - read_pos
                                    ELSE write_pos - read_pos + WordSize
  BY <1>1, <1>2, SubForm
<1>4. Sub(p, read_pos) + Sub(write_pos, p) = Sub(write_pos, read_pos)
  BY <1>1, <1>2, <1>3, RingAssumption DEF Positions
<1> QED
  BY <1>1, <1>2, <1>4, SubNat DEF Used

LEMMA PopEmptyInv == IndInv /\ PopEmpty => IndInv'
<1> SUFFICES ASSUME IndInv, PopEmpty PROVE IndInv'
  OBVIOUS
<1> USE DEF IndInv
<1>1. /\ w_seen' \in Positions
      /\ Sub(w_seen', read_pos) + Sub(write_pos, w_seen') = Used
  BY WriteSeenBehind DEF PopEmpty
<1>2. TypeOK' /\ LocalsCurrent' /\ InFlight'
  BY <1>1 DEF PopEmpty, TypeOK, LocalsCurrent, InFlight, pvars
<1>3. ViewsBehind'
  BY <1>1 DEF PopEmpty, ViewsBehind, Used, pvars
<1> QED
  BY <1>2, <1>3

LEMMA PopReadyInv == IndInv /\ PopReady => IndInv'
<1> SUFFICES ASSUME IndInv, PopReady PROVE IndInv'
  OBVIOUS
<1> USE DEF IndInv
<1>1. /\ w_seen' \in Positions
      /\ Sub(w_seen', read_pos) + Sub(write_pos, w_seen') = Used
      /\ Sub(w_seen', read_pos) \in Nat
  BY WriteSeenBehind DEF PopReady
<1>2. TypeOK' /\ LocalsCurrent' /\ InFlight'
  BY <1>1 DEF PopReady, TypeOK, LocalsCurrent, InFlight, pvars
<1>3. r = read_pos /\ Sub(w_seen', r) # 0
  BY DEF PopReady, LocalsCurrent
<1>4. ViewsBehind'
  BY <1>1, <1>3 DEF PopReady, ViewsBehind, Used, pvars
<1> QED
  BY <1>2, <1>4

LEMMA PopReadInv == IndInv /\ PopRead => IndInv'
<1> SUFFICES ASSUME IndInv, PopRead PROVE IndInv'
  OBVIOUS
<1> USE DEF IndInv
<1>1. Slot(r) \in Slots
  BY SlotType DEF TypeOK, Positions
<1>2. TypeOK'
  BY <1>1 DEF PopRead, TypeOK, pvars
<1>3. LocalsCurrent' /\ ViewsBehind' /\ InFlight'
  BY DEF PopRead, LocalsCurrent, ViewsBehind, InFlight, Used, pvars
<1> QED
  BY <1>2, <1>3

LEMMA PopAdvanceInv == IndInv /\ PopAdvance => IndInv' /\ Used' = Used - 1
<1> SUFFICES ASSUME IndInv, PopAdvance PROVE IndInv' /\ Used' = Used - 1
  OBVIOUS
<1> USE DEF IndInv
<1>1. /\ r = read_pos /\ read_pos \in Positions /\ write_pos \in Positions
      /\ r_seen \in Positions /\ w_seen \in Positions
  BY DEF PopAdvance, TypeOK, LocalsCurrent
<1>2. read_pos' = Add(read_pos, 1) /\ read_pos' \in Positions
  BY <1>1, AddType DEF PopAdvance, Positions
<1>3. /\ Used \in Nat /\ Used > 0
      /\ Sub(w_seen, read_pos) \in Nat /\ Sub(w_seen, read_pos) > 0
      /\ Sub(write_pos, w_seen) \in Nat /\ Sub(read_pos, r_seen) \in Nat
      /\ Sub(write_pos, r_seen) \in Nat
      /\ Sub(read_pos, r_seen) < WordSize - 1
  <2>1. /\ Used \in Nat /\ Used > 0 /\ Sub(w_seen, read_pos) > 0
    BY UsedBounds DEF PopAdvance, ViewsBehind
  <2>2. /\ Sub(w_seen, read_pos) \in Nat
        /\ Sub(write_pos, w_seen) \in Nat /\ Sub(read_pos, r_seen) \in Nat
        /\ Sub(write_pos, r_seen) \in Nat
    BY <1>1, SubNat
  <2> QED
    BY <2>1, <2>2, RingAssumption DEF ViewsBehind
<1>4. /\ Sub(write_pos, read_pos') = Sub(write_pos, read_pos) - 1
      /\ Sub(w_seen, read_pos') = Sub(w_seen, read_pos) - 1
      /\ Sub(read_pos', r_seen) = Sub(read_pos, r_seen) + 1
  BY <1>1, <1>2, <1>3, SubStep DEF Used
<1>5. Used' = Used - 1
  BY <1>4 DEF PopAdvance, Used
<1>6. TypeOK' /\ LocalsCurrent' /\ InFlight'
  BY <1>2 DEF PopAdvance, TypeOK, LocalsCurrent, InFlight, pvars
<1>7. ViewsBehind'
  <2>1. Sub(read_pos', r_seen) + Used' = Sub(write_pos, r_seen)
    BY <1>3, <1>4, <1>5 DEF ViewsBehind
  <2>2. Sub(w_seen, read_pos') + Sub(write_pos, w_seen) = Used'
    BY <1>3, <1>4, <1>5 DEF ViewsBehind
  <2>3. /\ ppc' = ppc /\ r_seen' = r_seen /\ w_seen' = w_seen
        /\ write_pos' = write_pos /\ cpc' = "idle"
    BY DEF PopAdvance, pvars
  <2> QED
    BY <2>1, <2>2, <2>3 DEF ViewsBehind
<1> QED
  BY <1>5, <1>6, <1>7

LEMMA StutterInv == IndInv /\ UNCHANGED vars => IndInv'
BY DEF vars, pvars, cvars, IndInv, TypeOK, LocalsCurrent, ViewsBehind, InFlight, Used

-----------------------------------------------------------------------------
(* The invariant holds in every reachable state of push() and pop().       *)
THEOREM Inductive == Spec => []IndInv
<1>1. IndInv /\ [Next]_vars => IndInv'
  <2> SUFFICES ASSUME IndInv, [Next]_vars PROVE IndInv'
    OBVIOUS
  <2> QED
    BY PushCallInv, PushFullInv, PushRoomInv, PushWriteInv, PushPublishInv,
       PopCallInv, PopEmptyInv, PopReadyInv, PopReadInv, PopAdvanceInv, StutterInv
       DEF Next, InPush, Consumer
<1> QED
  BY InitInv, <1>1, PTL DEF Spec

(* Every variable keeps its type: positions stay within a size_t, slots    *)
(* hold pushed values or their initial one.                                *)
THEOREM TypeCorrect == Spec => []TypeOK
<1>1. IndInv => TypeOK
  BY DEF IndInv
<1> QED
  BY <1>1, Inductive, PTL

(* For every BufSize, with indices that wrap and loads that lag, the       *)
(* producer never overwrites a value the consumer has not taken.           *)
THEOREM NeverLappedAlways == Spec => []NeverLapped
<1>1. IndInv => NeverLapped
  BY UsedBounds, RingAssumption DEF NeverLapped
<1> QED
  BY <1>1, Inductive, PTL

(* For every BufSize, the producer's write and the consumer's read of a    *)
(* slot never race, which is what makes push() and pop() safe without a    *)
(* lock.                                                                   *)
THEOREM NoDataRaceAlways == Spec => []NoDataRace
<1>1. IndInv => NoDataRace
  <2> SUFFICES ASSUME IndInv, ppc = "write", cpc = "read" PROVE Slot(w) # Slot(r)
    BY DEF NoDataRace
  <2>1. Used \in Nat /\ Used > 0 /\ Add(read_pos, 0) = r
    BY UsedBounds, ReadFirst
  <2>2. 0 \in 0 .. Used - 1
    BY <2>1
  <2>3. Slot(w) # Slot(Add(read_pos, 0))
    BY <2>2, FreshSlot
  <2> QED
    BY <2>1, <2>3
<1> QED
  BY <1>1, Inductive, PTL

-----------------------------------------------------------------------------
(* The ring as a sequence.                                                 *)
QueueIsSeq == /\ Queue \in Seq(Values \cup {Blank})
              /\ Len(Queue) = Used
              /\ \A i \in 1 .. Used : Queue[i] = buffer[Slot(Add(read_pos, i - 1))]

LEMMA QueueSeq == IndInv => QueueIsSeq
<1> SUFFICES ASSUME IndInv PROVE QueueIsSeq
  OBVIOUS
<1>1. Used \in Nat /\ read_pos \in Int
  BY UsedBounds DEF IndInv, TypeOK, Positions
<1>2. ASSUME NEW i \in 1 .. Used
      PROVE  buffer[Slot(Add(read_pos, i - 1))] \in Values \cup {Blank}
  <2>1. i - 1 \in Int
    BY <1>1
  <2>2. Add(read_pos, i - 1) \in Int
    BY <1>1, <2>1, AddType DEF Positions
  <2> QED
    BY <2>2, SlotType DEF IndInv, TypeOK
<1> QED
  BY <1>1, <1>2 DEF Queue, QueueIsSeq

(* A step that leaves the indices and the occupied slots alone leaves the  *)
(* queue alone.                                                            *)
LEMMA QueueUnchanged ==
  ASSUME IndInv, write_pos' = write_pos, read_pos' = read_pos,
         \A i \in 0 .. Used - 1 : buffer'[Slot(Add(read_pos, i))]
                                 = buffer[Slot(Add(read_pos, i))]
  PROVE  Queue' = Queue
<1>1. Used' = Used /\ Used \in Nat
  BY UsedBounds DEF Used
<1>2. \A i \in 1 .. Used : i - 1 \in 0 .. Used - 1
  BY <1>1
<1>3. \A i \in 1 .. Used : buffer'[Slot(Add(read_pos, i - 1))]
                         = buffer[Slot(Add(read_pos, i - 1))]
  BY <1>2
<1> QED
  BY <1>1, <1>3 DEF Queue

LEMMA InitFifo == Init => Fifo!Init
<1> SUFFICES ASSUME Init PROVE Fifo!Init
  OBVIOUS
<1>1. IndInv
  BY InitInv
<1>2. Used = 0
  <2>1. 0 \in Positions /\ write_pos = 0 /\ read_pos = 0
    BY <1>1 DEF Init, IndInv, TypeOK
  <2>2. Sub(0, 0) = 0
    BY <2>1, SubForm
  <2> QED
    BY <2>1, <2>2 DEF Used
<1>3. Queue = <<>>
  BY <1>1, <1>2, QueueSeq, EmptySeq DEF QueueIsSeq
<1> QED
  BY <1>3 DEF Init, Fifo!Init

(* Steps the callers of the queue do not see.                              *)
LEMMA Invisible ==
  ASSUME IndInv,
         \/ \E v \in Values : PushCall(v)
         \/ PushRoom
         \/ PopCall
         \/ PopReady
         \/ PopRead
         \/ UNCHANGED vars
  PROVE  UNCHANGED Fifo!vars
<1>1. /\ UNCHANGED <<buffer, write_pos, read_pos, push_ret, pop_ret>>
  BY DEF PushCall, PushRoom, PopCall, PopReady, PopRead, vars, pvars, cvars
<1>2. Queue' = Queue
  BY <1>1, QueueUnchanged
<1> QED
  BY <1>1, <1>2 DEF Fifo!vars

(* The write goes to a slot outside the queue.                             *)
LEMMA WriteInvisible ==
  ASSUME IndInv, PushWrite
  PROVE  UNCHANGED Fifo!vars
<1>1. ASSUME NEW i \in 0 .. Used - 1
      PROVE  buffer'[Slot(Add(read_pos, i))] = buffer[Slot(Add(read_pos, i))]
  <2>1. Slot(w) # Slot(Add(read_pos, i))
    BY FreshSlot DEF PushWrite
  <2>2. Slot(Add(read_pos, i)) \in Slots
    <3>1. i \in Int /\ read_pos \in Int
      BY DEF IndInv, TypeOK, Positions
    <3>2. Add(read_pos, i) \in Int
      BY <3>1, AddType DEF Positions
    <3> QED
      BY <3>2, SlotType
  <2> QED
    BY <2>1, <2>2 DEF PushWrite, IndInv, TypeOK
<1>2. UNCHANGED <<write_pos, read_pos, push_ret, pop_ret>>
  BY DEF PushWrite, cvars
<1>3. Queue' = Queue
  BY <1>1, <1>2, QueueUnchanged
<1> QED
  BY <1>2, <1>3 DEF Fifo!vars

LEMMA PublishAppends ==
  ASSUME IndInv, PushPublish
  PROVE  Fifo!Push(u)
<1>1. IndInv' /\ Used' = Used + 1 /\ Used \in Nat /\ Used < BufSize
  BY PushPublishInv, UsedBounds DEF PushPublish
<1>2. /\ read_pos' = read_pos /\ buffer' = buffer /\ u \in Values
      /\ push_ret' = TRUE /\ pop_ret' = pop_ret
      /\ buffer[Slot(w)] = u /\ w = write_pos
  BY DEF PushPublish, cvars, IndInv, InFlight, LocalsCurrent
<1>3. Add(read_pos, Used) = w
  BY <1>2, UsedBounds
<1> DEFINE S == Values \cup {Blank}
<1>4. /\ Queue \in Seq(S) /\ Len(Queue) = Used
      /\ \A i \in 1 .. Used : Queue[i] = buffer[Slot(Add(read_pos, i - 1))]
  BY QueueSeq DEF QueueIsSeq
<1>5. /\ Queue' \in Seq(S) /\ Len(Queue') = Used + 1
      /\ \A i \in 1 .. Used + 1 : Queue'[i] = buffer[Slot(Add(read_pos, i - 1))]
  <2>1. QueueIsSeq'
    BY <1>1, QueueSeq, PTL
  <2> QED
    BY <1>1, <1>2, <2>1 DEF QueueIsSeq
<1>6. Queue'[Used + 1] = u
  BY <1>1, <1>2, <1>3, <1>5
<1>7. Queue' = Append(Queue, u)
  <2>1. /\ Append(Queue, u) \in Seq(S) /\ Len(Append(Queue, u)) = Used + 1
        /\ \A i \in 1 .. Used : Append(Queue, u)[i] = Queue[i]
        /\ Append(Queue, u)[Used + 1] = u
    BY <1>2, <1>4, AppendProperties
  <2>2. \A i \in 1 .. Used + 1 : Append(Queue, u)[i] = Queue'[i]
    BY <1>1, <1>4, <1>5, <1>6, <2>1
  <2> QED
    BY <1>5, <2>1, <2>2, SeqEqual
<1> QED
  BY <1>1, <1>2, <1>4, <1>7 DEF Fifo!Push

LEMMA AdvancePops ==
  ASSUME IndInv, PopAdvance
  PROVE  Fifo!Pop
<1>1. IndInv' /\ Used' = Used - 1 /\ Used \in 0 .. BufSize /\ Used > 0
  BY PopAdvanceInv, UsedBounds DEF PopAdvance
<1>2. /\ read_pos' = Add(read_pos, 1) /\ buffer' = buffer
      /\ push_ret' = push_ret /\ pop_ret' = buffer[Slot(read_pos)]
      /\ read_pos \in Positions
  BY DEF PopAdvance, pvars, IndInv, InFlight, LocalsCurrent, TypeOK
<1> DEFINE S == Values \cup {Blank}
<1>3. /\ Queue \in Seq(S) /\ Len(Queue) = Used
      /\ \A i \in 1 .. Used : Queue[i] = buffer[Slot(Add(read_pos, i - 1))]
  BY QueueSeq DEF QueueIsSeq
<1>4. /\ Queue' \in Seq(S) /\ Len(Queue') = Used - 1
      /\ \A i \in 1 .. Used - 1 :
           Queue'[i] = buffer[Slot(Add(Add(read_pos, 1), i - 1))]
  <2>1. QueueIsSeq'
    BY <1>1, QueueSeq, PTL
  <2> QED
    BY <1>1, <1>2, <2>1 DEF QueueIsSeq
<1>5. Queue # <<>> /\ Queue[1] = buffer[Slot(read_pos)]
  <2>1. 1 \in 1 .. Used /\ Add(read_pos, 1 - 1) = read_pos
    BY <1>1, <1>2, AddZero
  <2> QED
    BY <1>1, <1>3, <2>1, EmptySeq
<1>6. Queue' = Tail(Queue)
  <2>1. /\ Tail(Queue) \in Seq(S) /\ Len(Tail(Queue)) = Used - 1
        /\ \A i \in 1 .. Used - 1 : Tail(Queue)[i] = Queue[i + 1]
    BY <1>3, <1>5, HeadTailProperties
  <2>2. ASSUME NEW i \in 1 .. Used - 1
        PROVE  Queue'[i] = Queue[i + 1]
    <3>1. i - 1 \in Nat /\ (i - 1) + 1 < WordSize /\ i + 1 \in 1 .. Used
      BY <1>1, RingAssumption
    <3>2. Add(Add(read_pos, 1), i - 1) = Add(read_pos, (i - 1) + 1)
      BY <1>2, <3>1, AddSuccessor
    <3>3. (i - 1) + 1 = (i + 1) - 1
      BY <1>1
    <3>4. Queue[i + 1] = buffer[Slot(Add(read_pos, (i + 1) - 1))]
      BY <1>3, <3>1
    <3> QED
      BY <1>4, <3>2, <3>3, <3>4
  <2>3. /\ Len(Queue') = Len(Tail(Queue))
        /\ \A i \in 1 .. Len(Queue') : Queue'[i] = Tail(Queue)[i]
    BY <1>4, <2>1, <2>2
  <2> QED
    BY <1>4, <2>1, <2>3, SeqEqual
<1>7. Head(Queue) = Queue[1]
  BY DEF Head
<1> QED
  BY <1>2, <1>5, <1>6, <1>7 DEF Fifo!Pop

(* The answers "full" and "nothing there".                                 *)
LEMMA Refusals ==
  ASSUME IndInv, PushFull \/ PopEmpty
  PROVE  Fifo!PushFull \/ Fifo!PopEmpty
<1>1. Queue' = Queue /\ Len(Queue) = Used
  <2>1. UNCHANGED <<buffer, write_pos, read_pos>>
    BY DEF PushFull, PopEmpty
  <2> QED
    BY <2>1, QueueUnchanged, QueueSeq DEF QueueIsSeq
<1>2. CASE PushFull
  <2>1. ~StaleReads => Used = BufSize
    <3> SUFFICES ASSUME ~StaleReads PROVE Used = BufSize
      OBVIOUS
    <3>1. r_seen' = read_pos /\ w = write_pos /\ Sub(w, r_seen') >= BufSize
      BY <1>2, SpscAssumption DEF PushFull, Loadable, IndInv, LocalsCurrent
    <3> QED
      BY <3>1, UsedBounds, RingAssumption DEF Used
  <2>2. push_ret' = FALSE /\ pop_ret' = pop_ret
    BY <1>2 DEF PushFull, cvars
  <2> QED
    BY <1>1, <2>1, <2>2 DEF Fifo!PushFull
<1>3. CASE PopEmpty
  <2>1. ~StaleReads => Queue = <<>>
    <3> SUFFICES ASSUME ~StaleReads PROVE Queue = <<>>
      OBVIOUS
    <3>1. w_seen' = write_pos /\ r = read_pos /\ Sub(w_seen', r) = 0
      BY <1>3, SpscAssumption DEF PopEmpty, Loadable, IndInv, LocalsCurrent
    <3>2. Used = 0
      BY <3>1 DEF Used
    <3> QED
      BY <1>1, <3>2, QueueSeq, EmptySeq DEF QueueIsSeq
  <2>2. pop_ret' = NullOpt /\ push_ret' = push_ret
    BY <1>3 DEF PopEmpty, pvars
  <2> QED
    BY <1>1, <2>1, <2>2 DEF Fifo!PopEmpty
<1> QED
  BY <1>2, <1>3

(* Step by step, the ring behaves as the bounded FIFO queue: a push takes  *)
(* effect when the new _write_pos is published, a pop when the new         *)
(* _read_pos is.                                                           *)
LEMMA StepRefines == IndInv /\ [Next]_vars => [Fifo!Next]_(Fifo!vars)
<1> SUFFICES ASSUME IndInv, [Next]_vars PROVE [Fifo!Next]_(Fifo!vars)
  OBVIOUS
<1>1. CASE \/ \E v \in Values : PushCall(v)
           \/ PushRoom
           \/ PopCall
           \/ PopReady
           \/ PopRead
           \/ UNCHANGED vars
  BY <1>1, Invisible
<1>2. CASE PushWrite
  BY <1>2, WriteInvisible
<1>3. CASE PushPublish
  <2>1. Fifo!Push(u) /\ u \in Values
    BY <1>3, PublishAppends DEF PushPublish, IndInv, InFlight
  <2> QED
    BY <2>1 DEF Fifo!Next
<1>4. CASE PopAdvance
  BY <1>4, AdvancePops DEF Fifo!Next
<1>5. CASE PushFull \/ PopEmpty
  BY <1>5, Refusals DEF Fifo!Next
<1> QED
  BY <1>1, <1>2, <1>3, <1>4, <1>5 DEF Next, InPush, Consumer

(* lockfree::SPSC is a bounded FIFO queue for every BufSize: no value is   *)
(* lost, duplicated, reordered or invented between its two threads, and    *)
(* with current loads "false" means full and nullopt means empty.          *)
THEOREM Refinement == Spec => ImplementsFifo
<1>1. Init => Fifo!Init
  BY InitFifo
<1>2. IndInv /\ [Next]_vars => [Fifo!Next]_(Fifo!vars)
  BY StepRefines
<1> QED
  BY <1>1, <1>2, Inductive, PTL DEF Spec, ImplementsFifo, Fifo!Spec

-----------------------------------------------------------------------------
(* The backtest pipeline.                                                  *)

(* The client is in push(), with its row, exactly while it is "pushing".   *)
ClientInv == /\ client \in {"off", "rows", "pushing", "retry", "returned"}
             /\ rows \in 0 .. MaxRows
             /\ row \in 0 .. rows
             /\ count \in Nat
             /\ client = "off" => row = 0
             /\ client = "pushing" <=> ppc # "idle"
             /\ client = "pushing" => u = row
             /\ client \in {"pushing", "retry"} => row > 0

BtInv == IndInv /\ ClientInv /\ RowsInOrder

-----------------------------------------------------------------------------
(* The threads of the pipeline do to the channel what Spsc lets them do.   *)
LEMMA BtStep == ClientInv /\ [BtNext]_bt_vars => [Next]_vars
<1> SUFFICES ASSUME ClientInv, [BtNext]_bt_vars PROVE [Next]_vars
  OBVIOUS
<1>1. CASE NextRow
  <2>1. row' \in Values
    BY <1>1, BtMdAssumption DEF NextRow, ClientInv
  <2> QED
    BY <1>1, <2>1 DEF NextRow, Next
<1>2. CASE Retry
  <2>1. row \in Values
    BY <1>2, BtMdAssumption DEF Retry, ClientInv
  <2> QED
    BY <1>2, <2>1 DEF Retry, Next
<1>3. CASE Pushing \/ Consume
  BY <1>3 DEF Pushing, Consume, Next
<1>4. CASE \/ \E list \in Lists : Subscribe(list)
           \/ QueryFails
           \/ Query
           \/ Return
           \/ UNCHANGED bt_vars
  BY <1>4 DEF Subscribe, QueryFails, Query, Return, bt_vars
<1> QED
  BY <1>1, <1>2, <1>3, <1>4 DEF BtNext, InStart

LEMMA ChannelStep == IndInv /\ [Next]_vars => IndInv'
<1> SUFFICES ASSUME IndInv, [Next]_vars PROVE IndInv'
  OBVIOUS
<1> QED
  BY PushCallInv, PushFullInv, PushRoomInv, PushWriteInv, PushPublishInv,
     PopCallInv, PopEmptyInv, PopReadyInv, PopReadInv, PopAdvanceInv, StutterInv
     DEF Next, InPush, Consumer

LEMMA ClientStep == ClientInv /\ [BtNext]_bt_vars => ClientInv'
<1> SUFFICES ASSUME ClientInv, [BtNext]_bt_vars PROVE ClientInv'
  OBVIOUS
<1> USE DEF ClientInv
<1>1. CASE NextRow
  BY <1>1, BtMdAssumption DEF NextRow, PushCall
<1>2. CASE Retry
  BY <1>2 DEF Retry, PushCall
<1>3. CASE Pushing
  <2>1. UNCHANGED <<u, rows, row, count>>
    BY <1>3 DEF Pushing, InPush, PushFull, PushRoom, PushWrite, PushPublish
  <2> QED
    BY <1>3, <2>1 DEF Pushing
<1>4. CASE Consume
  <2>1. UNCHANGED <<ppc, u, client, rows, row>> /\ count' \in Nat
    BY <1>4 DEF Consume, Consumer, PopCall, PopEmpty, PopReady, PopRead, PopAdvance,
                pvars, client_vars
  <2> QED
    BY <2>1
<1>5. CASE Query
  BY <1>5, BtMdAssumption DEF Query, vars, pvars
<1>6. CASE \/ \E list \in Lists : Subscribe(list)
           \/ QueryFails
           \/ Return
           \/ UNCHANGED bt_vars
  BY <1>6 DEF Subscribe, QueryFails, Return, bt_vars, client_vars, vars, pvars
<1> QED
  BY <1>1, <1>2, <1>3, <1>4, <1>5, <1>6 DEF BtNext, InStart

-----------------------------------------------------------------------------
(* Steps that leave the queue alone.                                       *)
LEMMA SameQueue ==
  ASSUME BtInv,
         \/ \E v \in Values : PushCall(v)
         \/ PushRoom
         \/ PushFull
         \/ PushWrite
         \/ PopCall
         \/ PopEmpty
         \/ PopReady
         \/ PopRead
         \/ UNCHANGED vars
  PROVE  Queue' = Queue /\ Used' = Used
<1>1. Used' = Used
  BY DEF Used, PushCall, PushRoom, PushFull, PushWrite, PopCall, PopEmpty, PopReady,
         PopRead, vars
<1>2. CASE PushFull \/ PopEmpty
  BY <1>1, <1>2, QueueUnchanged DEF PushFull, PopEmpty, BtInv
<1>3. CASE PushWrite
  BY <1>1, <1>3, WriteInvisible DEF BtInv, Fifo!vars
<1>4. CASE \/ \E v \in Values : PushCall(v)
           \/ PushRoom
           \/ PopCall
           \/ PopReady
           \/ PopRead
           \/ UNCHANGED vars
  BY <1>1, <1>4, Invisible DEF BtInv, Fifo!vars
<1> QED
  BY <1>1, <1>2, <1>3, <1>4

(* The push that succeeds puts the client's row behind the others.         *)
LEMMA PublishRow ==
  ASSUME BtInv, Pushing, PushPublish
  PROVE  RowsInOrder'
<1>1. Queue' = Append(Queue, u) /\ u = row
  BY PublishAppends DEF BtInv, ClientInv, Pushing, Fifo!Push
<1>2. /\ Used' = Used + 1 /\ Used \in Nat
      /\ row \in Int /\ count \in Nat /\ count' = count /\ row' = row
  BY PushPublishInv, UsedBounds DEF BtInv, ClientInv, Pushing
<1>3. client = "pushing" /\ client' = "rows"
  BY DEF Pushing, PushPublish
<1>4. /\ Queue = [i \in 1 .. Used |-> count + i]
      /\ count + Used = row - 1
  BY <1>3 DEF BtInv, RowsInOrder
<1>5. Queue \in Seq(Int) /\ Len(Queue) = Used
  BY <1>2, <1>4
<1>6. Append(Queue, row) = [i \in 1 .. Used + 1 |-> count + i]
  BY <1>2, <1>4, <1>5
<1> QED
  BY <1>1, <1>2, <1>3, <1>4, <1>6 DEF RowsInOrder

(* The tail of a run of numbers is the run that starts one later.          *)
LEMMA TailOfRun ==
  ASSUME NEW c \in Nat, NEW n \in Nat, n > 0,
         NEW q, q = [i \in 1 .. n |-> c + i]
  PROVE  Tail(q) = [i \in 1 .. n - 1 |-> (c + 1) + i]
<1>1. q \in Seq(Int) /\ Len(q) = n /\ q # <<>>
  OBVIOUS
<1>2. /\ Tail(q) \in Seq(Int) /\ Len(Tail(q)) = n - 1
      /\ \A i \in 1 .. n - 1 : Tail(q)[i] = q[i + 1]
  BY <1>1, HeadTailProperties
<1>3. \A i \in 1 .. n - 1 : q[i + 1] = (c + 1) + i
  OBVIOUS
<1> QED
  BY <1>2, <1>3

(* The pop takes the row after those counted.                              *)
LEMMA AdvanceRow ==
  ASSUME BtInv, Consume, PopAdvance
  PROVE  RowsInOrder'
<1>1. Queue' = Tail(Queue)
  BY AdvancePops DEF BtInv, Fifo!Pop
<1>2. /\ Used' = Used - 1 /\ Used \in Nat /\ Used > 0 /\ count \in Nat
  BY PopAdvanceInv, UsedBounds DEF BtInv, ClientInv, PopAdvance
<1>3. count' = count + 1 /\ UNCHANGED <<client, row>>
  BY DEF Consume, PopAdvance, client_vars
<1>4. Queue = [i \in 1 .. Used |-> count + i]
  BY DEF BtInv, RowsInOrder
<1>6. Tail(Queue) = [i \in 1 .. Used - 1 |-> (count + 1) + i]
  BY <1>2, <1>4, TailOfRun
<1>7. count' + Used' = count + Used
  BY <1>2, <1>3
<1> QED
  BY <1>1, <1>2, <1>3, <1>6, <1>7 DEF BtInv, RowsInOrder

LEMMA RowsStep == BtInv /\ [BtNext]_bt_vars => RowsInOrder'
<1> SUFFICES ASSUME BtInv, [BtNext]_bt_vars PROVE RowsInOrder'
  OBVIOUS
<1>1. CASE NextRow
  <2>1. row' \in Values /\ row \in Int
    BY <1>1, BtMdAssumption DEF NextRow, BtInv, ClientInv
  <2>2. Queue' = Queue /\ Used' = Used
    BY <1>1, <2>1, SameQueue DEF NextRow
  <2> QED
    BY <1>1, <2>1, <2>2 DEF NextRow, BtInv, RowsInOrder
<1>2. CASE Retry
  <2>1. row \in Values
    BY <1>2, BtMdAssumption DEF Retry, BtInv, ClientInv
  <2>2. Queue' = Queue /\ Used' = Used
    BY <1>2, <2>1, SameQueue DEF Retry
  <2> QED
    BY <1>2, <2>2 DEF Retry, BtInv, RowsInOrder
<1>3. CASE Pushing
  <2>1. CASE PushPublish
    BY <1>3, <2>1, PublishRow
  <2>2. CASE PushFull \/ PushRoom \/ PushWrite
    <3>1. Queue' = Queue /\ Used' = Used
      BY <2>2, SameQueue
    <3>2. client' \in {"pushing", "retry"} /\ client = "pushing"
      BY <1>3, <2>2 DEF Pushing, PushFull, PushRoom, PushWrite
    <3> QED
      BY <1>3, <3>1, <3>2 DEF Pushing, BtInv, RowsInOrder
  <2> QED
    BY <1>3, <2>1, <2>2 DEF Pushing, InPush
<1>4. CASE Consume
  <2>1. CASE PopAdvance
    BY <1>4, <2>1, AdvanceRow
  <2>2. CASE PopCall \/ PopEmpty \/ PopReady \/ PopRead
    <3>1. Queue' = Queue /\ Used' = Used
      BY <2>2, SameQueue
    <3>2. UNCHANGED <<client, row, count>>
      BY <1>4, <2>2 DEF Consume, client_vars, PopCall, PopEmpty, PopReady, PopRead
    <3> QED
      BY <3>1, <3>2 DEF BtInv, RowsInOrder
  <2> QED
    BY <1>4, <2>1, <2>2 DEF Consume, Consumer
<1>5. CASE \/ \E list \in Lists : Subscribe(list)
           \/ QueryFails
           \/ Query
           \/ Return
           \/ UNCHANGED bt_vars
  <2>1. UNCHANGED <<vars, row, count>>
    BY <1>5 DEF Subscribe, QueryFails, Query, Return, bt_vars, client_vars
  <2>2. Queue' = Queue /\ Used' = Used
    BY <2>1, SameQueue
  <2>3. client' \in {"pushing", "retry"} <=> client \in {"pushing", "retry"}
    BY <1>5 DEF Subscribe, QueryFails, Query, Return, bt_vars, client_vars
  <2> QED
    BY <2>1, <2>2, <2>3 DEF BtInv, RowsInOrder
<1> QED
  BY <1>1, <1>2, <1>3, <1>4, <1>5 DEF BtNext, InStart

LEMMA BtInitInv == BtInit => BtInv
<1> SUFFICES ASSUME BtInit PROVE BtInv
  OBVIOUS
<1>1. Init
  BY DEF BtInit
<1>2. IndInv
  BY <1>1, InitInv
<1>3. ClientInv
  BY BtMdAssumption DEF BtInit, Init, ClientInv
<1>4. Queue = <<>>
  BY <1>1, InitFifo DEF Fifo!Init
<1>5. Used = 0
  BY <1>1, <1>2, <1>4, QueueSeq, EmptySeq DEF QueueIsSeq
<1>6. RowsInOrder
  BY <1>4, <1>5 DEF BtInit, RowsInOrder
<1> QED
  BY <1>2, <1>3, <1>6 DEF BtInv

-----------------------------------------------------------------------------
(* The invariant of the pipeline.                                          *)
THEOREM BtInductive == BtSpec => []BtInv
<1>1. BtInv /\ [BtNext]_bt_vars => BtInv'
  BY BtStep, ChannelStep, ClientStep, RowsStep DEF BtInv
<1> QED
  BY BtInitInv, <1>1, PTL DEF BtSpec

(* The pipeline's two threads are a producer and a consumer as Spsc        *)
(* assumes them, so every theorem about Spsc's specification is one about  *)
(* the pipeline.                                                           *)
THEOREM UsesChannel == BtSpec => Spec
<1>1. BtInit => Init
  BY DEF BtInit
<1>2. BtInv /\ [BtNext]_bt_vars => [Next]_vars
  BY BtStep DEF BtInv
<1> QED
  BY BtInductive, <1>1, <1>2, PTL DEF BtSpec, Spec

(* For every ring and every number of rows, with loads that lag and pushes *)
(* that are refused and repeated, the consumer gets each row once and in   *)
(* order.                                                                  *)
THEOREM RowsInOrderAlways == BtSpec => []RowsInOrder
<1>1. BtInv => RowsInOrder
  BY DEF BtInv
<1> QED
  BY BtInductive, <1>1, PTL

(* In the pipeline too the channel is a bounded FIFO queue.                *)
THEOREM PipelineFifo == BtSpec => ImplementsFifo
BY UsesChannel, Refinement

-----------------------------------------------------------------------------
(* What subscribe() makes of the symbols.                                  *)
Symbols == asked \cup {Nothing}

(* The literals are sequences of symbols, and only those at the seams have *)
(* been lost.                                                              *)
HolderInv == /\ calls \in Nat
             /\ holder \in Seq(Seq(Symbols))
             /\ calls = 0 => holder = <<>> /\ asked = {}
             /\ calls > 0 => holder # <<>>
             /\ IsFiniteSet(asked \ Selected)
             /\ OnlySeamsLost

LEMMA ListType ==
  ASSUME NEW list \in Lists
  PROVE  /\ list \in Seq({list[i] : i \in 1 .. Len(list)})
         /\ Len(list) \in Nat
<1>1. list \in Seq({list[i] : i \in DOMAIN list} \ {Nothing})
  BY BtMdAssumption
<1>2. Len(list) \in Nat /\ DOMAIN list = 1 .. Len(list)
  BY <1>1, LenProperties
<1> QED
  BY <1>1, <1>2

(* The literals of one list.                                               *)
LEMMA QuotedType ==
  ASSUME NEW list \in Lists, NEW S, \A i \in 1 .. Len(list) : list[i] \in S
  PROVE  /\ Quoted(list) \in Seq(Seq(S \cup {Nothing}))
         /\ Quoted(list) # <<>>
         /\ \A i \in 1 .. Len(list) : /\ i \in 1 .. Len(Quoted(list))
                                      /\ Quoted(list)[i] = <<list[i]>>
<1>1. Len(list) \in Nat
  BY ListType
<1>2. CASE list = <<>>
  <2>1. Quoted(list) = << <<Nothing>> >> /\ Len(list) = 0
    BY <1>2 DEF Quoted
  <2>2. <<Nothing>> \in Seq(S \cup {Nothing})
    OBVIOUS
  <2> QED
    BY <2>1, <2>2
<1>3. CASE list # <<>>
  <2>1. Quoted(list) = [i \in 1 .. Len(list) |-> <<list[i]>>]
    BY <1>3 DEF Quoted
  <2>2. \A i \in 1 .. Len(list) : <<list[i]>> \in Seq(S \cup {Nothing})
    OBVIOUS
  <2>3. Quoted(list) \in Seq(Seq(S \cup {Nothing})) /\ Len(Quoted(list)) = Len(list)
    BY <1>1, <2>1, <2>2
  <2>4. Len(list) > 0
    BY <1>1, <1>3, ListType, EmptySeq
  <2>5. Quoted(list) # <<>>
    BY <2>3, <2>4, EmptySeq
  <2> QED
    BY <2>1, <2>3, <2>5
<1> QED
  BY <1>2, <1>3

(* A further call keeps all literals but the last and adds all of its own  *)
(* but the first.                                                          *)
LEMMA AppendedKeeps ==
  ASSUME NEW S, holder \in Seq(Seq(S)), holder # <<>>,
         NEW list \in Lists, \A i \in 1 .. Len(list) : list[i] \in S, Nothing \in S
  PROVE  /\ Appended(list) \in Seq(Seq(S)) /\ Appended(list) # <<>>
         /\ \A i \in 1 .. Len(holder) - 1 : /\ i \in 1 .. Len(Appended(list))
                                            /\ Appended(list)[i] = holder[i]
         /\ \A j \in 2 .. Len(list) : /\ Len(holder) + j - 1 \in 1 .. Len(Appended(list))
                                      /\ Appended(list)[Len(holder) + j - 1] = <<list[j]>>
<1> DEFINE L == Len(holder)
           Q == Quoted(list)
           X == holder[L] \o Q[1]
           H == [holder EXCEPT ![L] = X]
<1>1. L \in Nat /\ L > 0 /\ L \in 1 .. L
  BY EmptySeq, LenProperties
<1>2. S \cup {Nothing} = S
  OBVIOUS
<1>3. /\ Q \in Seq(Seq(S)) /\ Q # <<>>
      /\ \A i \in 1 .. Len(list) : i \in 1 .. Len(Q) /\ Q[i] = <<list[i]>>
  <2>1. /\ Q \in Seq(Seq(S \cup {Nothing})) /\ Q # <<>>
        /\ \A i \in 1 .. Len(list) : i \in 1 .. Len(Q) /\ Q[i] = <<list[i]>>
    BY QuotedType
  <2> QED
    BY <1>2, <2>1
<1>4. Appended(list) = H \o Tail(Q)
  BY DEF Appended
<1> HIDE DEF Q
<1>5. X \in Seq(S)
  <2>1. 1 \in 1 .. Len(Q)
    BY <1>3, EmptySeq, LenProperties
  <2>2. holder[L] \in Seq(S) /\ Q[1] \in Seq(S)
    BY <1>1, <1>3, <2>1, ElementOfSeq
  <2> QED
    BY <2>2, ConcatProperties
<1> HIDE DEF X
<1>6. /\ H \in Seq(Seq(S)) /\ Len(H) = L
      /\ \A j \in 1 .. L : H[j] = IF j = L THEN X ELSE holder[j]
  BY <1>1, <1>5, ExceptSeq
<1>7. /\ Tail(Q) \in Seq(Seq(S)) /\ Len(Tail(Q)) = Len(Q) - 1 /\ Len(Q) \in Nat
      /\ \A i \in 1 .. Len(Tail(Q)) : Tail(Q)[i] = Q[i + 1]
  BY <1>3, HeadTailProperties, LenProperties
<1> DEFINE T == Tail(Q)
<1> HIDE DEF H, T
<1>8. /\ H \o T \in Seq(Seq(S)) /\ Len(H \o T) = L + Len(T)
      /\ \A i \in 1 .. L + Len(T) : (H \o T)[i] = IF i <= L THEN H[i] ELSE T[i - L]
  <2>1. T \in Seq(Seq(S))
    BY <1>7 DEF T
  <2>2. H \in Seq(Seq(S)) /\ Len(H) = L
    BY <1>6
  <2> HIDE DEF L
  <2>3. /\ H \o T \in Seq(Seq(S)) /\ Len(H \o T) = Len(H) + Len(T)
        /\ \A i \in 1 .. Len(H) + Len(T) :
             (H \o T)[i] = IF i <= Len(H) THEN H[i] ELSE T[i - Len(H)]
    BY <2>1, <2>2, ConcatProperties
  <2> QED
    BY <2>2, <2>3
<1> DEFINE R == H \o T
<1>9. R = Appended(list)
  BY <1>4 DEF T
<1>10. /\ R \in Seq(Seq(S)) /\ Len(R) = L + Len(T) /\ Len(T) = Len(Q) - 1
       /\ \A i \in 1 .. L + Len(T) : R[i] = IF i <= L THEN H[i] ELSE T[i - L]
       /\ \A i \in 1 .. Len(T) : T[i] = Q[i + 1]
  BY <1>7, <1>8 DEF T
<1> HIDE DEF R, L
<1>11. Len(Q) > 0
  BY <1>3, <1>7, EmptySeq
<1>12. R # <<>>
  BY <1>1, <1>7, <1>10, <1>11, EmptySeq
<1>13. ASSUME NEW i \in 1 .. L - 1 PROVE i \in 1 .. Len(R) /\ R[i] = holder[i]
  <2>1. i \in 1 .. L + Len(T) /\ i <= L /\ i \in 1 .. L /\ i # L
    BY <1>1, <1>7, <1>10, <1>11
  <2> QED
    BY <1>6, <1>10, <2>1
<1>14. ASSUME NEW j \in 2 .. Len(list)
       PROVE  L + j - 1 \in 1 .. Len(R) /\ R[L + j - 1] = <<list[j]>>
  <2>1. j \in 1 .. Len(Q) /\ Q[j] = <<list[j]>>
    <3>1. j \in 1 .. Len(list)
      BY ListType
    <3> QED
      BY <1>3, <3>1
  <2>2. /\ L + j - 1 \in 1 .. L + Len(T) /\ ~(L + j - 1 <= L)
        /\ (L + j - 1) - L = j - 1 /\ j - 1 \in 1 .. Len(T) /\ (j - 1) + 1 = j
    <3> DEFINE n == Len(T)
    <3>1. L \in Nat /\ n \in Nat /\ n = Len(Q) - 1 /\ Len(Q) \in Nat
      <4>1. Len(T) = Len(Q) - 1 /\ Len(Q) \in Nat /\ Len(Q) > 0
        BY <1>7, <1>10, <1>11
      <4> QED
        BY <1>1, <4>1
    <3>2. j \in Int /\ 2 <= j /\ j <= Len(Q)
      BY <2>1
    <3> HIDE DEF n
    <3>3. j - 1 <= n
      BY <3>1, <3>2
    <3>4. /\ L + j - 1 \in 1 .. L + n /\ ~(L + j - 1 <= L)
          /\ (L + j - 1) - L = j - 1 /\ j - 1 \in 1 .. n /\ (j - 1) + 1 = j
      BY <3>1, <3>2, <3>3
    <3> QED
      BY <3>4 DEF n
  <2>3. R[L + j - 1] = T[(L + j - 1) - L]
    BY <1>10, <2>2
  <2>4. T[j - 1] = Q[(j - 1) + 1]
    BY <1>10, <2>2
  <2> QED
    BY <1>10, <2>1, <2>2, <2>3, <2>4
<1> QED
  BY <1>9, <1>10, <1>12, <1>13, <1>14 DEF L

(* So a call loses at most the symbols of the two literals that became     *)
(* one.                                                                    *)
LEMMA SubscribeLoses ==
  ASSUME HolderInv, NEW list \in Lists, Subscribe(list), calls > 0
  PROVE  /\ holder' \in Seq(Seq(Symbols')) /\ holder' # <<>>
         /\ asked' \ Selected'
              \subseteq ((asked \ Selected) \cup {holder[Len(holder)][1]}) \cup {list[1]}
<1>1. /\ asked' = asked \cup {list[i] : i \in 1 .. Len(list)}
      /\ holder' = Appended(list)
  BY DEF Subscribe
<1>2. /\ holder \in Seq(Seq(Symbols)) /\ holder # <<>> /\ Len(holder) \in Nat
  BY LenProperties DEF HolderInv
<1>3. holder \in Seq(Seq(Symbols'))
  <2>1. Symbols \subseteq Symbols'
    BY <1>1 DEF Symbols
  <2> QED
    BY <1>2, <2>1
<1>4. /\ \A i \in 1 .. Len(list) : list[i] \in Symbols'
      /\ Nothing \in Symbols'
  BY <1>1 DEF Symbols
<1>5. /\ holder' \in Seq(Seq(Symbols')) /\ holder' # <<>>
      /\ \A i \in 1 .. Len(holder) - 1 : /\ i \in 1 .. Len(holder')
                                         /\ holder'[i] = holder[i]
      /\ \A j \in 2 .. Len(list) : /\ Len(holder) + j - 1 \in 1 .. Len(holder')
                                   /\ holder'[Len(holder) + j - 1] = <<list[j]>>
  <2> DEFINE S == Symbols'
             a == Appended(list)
  <2>1. \A i \in 1 .. Len(list) : list[i] \in S
    BY <1>4
  <2>2. holder \in Seq(Seq(S)) /\ Nothing \in S
    BY <1>3, <1>4
  <2> HIDE DEF S
  <2>3. /\ a \in Seq(Seq(S)) /\ a # <<>>
        /\ \A i \in 1 .. Len(holder) - 1 : i \in 1 .. Len(a) /\ a[i] = holder[i]
        /\ \A j \in 2 .. Len(list) : /\ Len(holder) + j - 1 \in 1 .. Len(a)
                                     /\ a[Len(holder) + j - 1] = <<list[j]>>
    BY <1>2, <2>1, <2>2, AppendedKeeps
  <2> HIDE DEF a
  <2>4. holder' = a
    BY <1>1 DEF a
  <2> QED
    BY <2>3, <2>4 DEF S
<1>6. ASSUME NEW s \in asked', s \notin Selected',
             s # holder[Len(holder)][1], s # list[1]
      PROVE  s \in asked \ Selected
  <2>1. \A i \in 1 .. Len(holder') : holder'[i] # <<s>>
    BY <1>6 DEF Selected
  <2>2. s \in asked
    <3> SUFFICES ASSUME NEW j \in 1 .. Len(list), s = list[j] PROVE FALSE
      BY <1>1, <1>6
    <3>1. j \in 2 .. Len(list)
      BY <1>6, ListType
    <3> QED
      BY <1>5, <2>1, <3>1
  <2>3. s \notin Selected
    <3> SUFFICES ASSUME NEW i \in 1 .. Len(holder), holder[i] = <<s>> PROVE FALSE
      BY DEF Selected
    <3>1. i # Len(holder)
      BY <1>6
    <3>2. i \in 1 .. Len(holder) - 1
      BY <1>2, <3>1
    <3> QED
      BY <1>5, <2>1, <3>2
  <2> QED
    BY <2>2, <2>3
<1> QED
  BY <1>5, <1>6

LEMMA OneMore ==
  ASSUME NEW S, IsFiniteSet(S), NEW x
  PROVE  /\ IsFiniteSet(S \cup {x}) /\ Cardinality(S) \in Nat
         /\ Cardinality(S \cup {x}) \in Nat
         /\ Cardinality(S \cup {x}) <= Cardinality(S) + 1
<1>1. /\ IsFiniteSet(S \cup {x})
      /\ Cardinality(S \cup {x}) = IF x \in S THEN Cardinality(S) ELSE Cardinality(S) + 1
  BY Zenon, FS_AddElement
<1>2. Cardinality(S) \in Nat
  BY Zenon, FS_CardinalityType
<1> QED
  BY <1>1, <1>2

LEMMA TwoMore ==
  ASSUME NEW S, IsFiniteSet(S), NEW x, NEW y,
         NEW T \in SUBSET ((S \cup {x}) \cup {y})
  PROVE  IsFiniteSet(T) /\ Cardinality(T) <= Cardinality(S) + 2
<1> DEFINE A == S \cup {x}
           B == A \cup {y}
<1>1. /\ IsFiniteSet(A) /\ Cardinality(S) \in Nat /\ Cardinality(A) \in Nat
      /\ Cardinality(A) <= Cardinality(S) + 1
  BY OneMore
<1> HIDE DEF A
<1>2. /\ IsFiniteSet(B) /\ Cardinality(B) \in Nat
      /\ Cardinality(B) <= Cardinality(A) + 1
  BY <1>1, OneMore
<1>3. T \in SUBSET B
  BY DEF A
<1> HIDE DEF B
<1>4. IsFiniteSet(T) /\ Cardinality(T) <= Cardinality(B)
  BY <1>2, <1>3, FS_Subset
<1>5. Cardinality(T) \in Nat
  BY <1>4, FS_CardinalityType
<1> QED
  BY <1>1, <1>2, <1>4, <1>5

(* The first call loses nothing.                                           *)
LEMMA FirstSubscribe ==
  ASSUME HolderInv, NEW list \in Lists, Subscribe(list), calls = 0
  PROVE  /\ holder' \in Seq(Seq(Symbols')) /\ holder' # <<>>
         /\ asked' \ Selected' = {}
<1>1. /\ asked' = {list[i] : i \in 1 .. Len(list)}
      /\ holder' = Quoted(list)
  BY DEF Subscribe, HolderInv, Appended
<1>2. \A i \in 1 .. Len(list) : list[i] \in asked'
  BY <1>1
<1>3. /\ holder' \in Seq(Seq(asked' \cup {Nothing})) /\ holder' # <<>>
      /\ \A i \in 1 .. Len(list) : /\ i \in 1 .. Len(holder')
                                   /\ holder'[i] = <<list[i]>>
  BY <1>1, <1>2, QuotedType
<1>4. asked' \ Selected' = {}
  BY <1>1, <1>3 DEF Selected
<1> QED
  BY <1>3, <1>4 DEF Symbols

LEMMA HolderStep == HolderInv /\ [BtNext]_bt_vars => HolderInv'
<1> SUFFICES ASSUME HolderInv, [BtNext]_bt_vars PROVE HolderInv'
  OBVIOUS
<1>1. ASSUME NEW list \in Lists, Subscribe(list) PROVE HolderInv'
  <2> DEFINE lost == asked \ Selected
             lost2 == asked' \ Selected'
  <2>1. /\ calls \in Nat /\ calls' = calls + 1 /\ IsFiniteSet(lost)
        /\ (calls > 0 => Cardinality(lost) <= 2 * (calls - 1))
    BY <1>1 DEF HolderInv, Subscribe, OnlySeamsLost
  <2>2. CASE calls = 0
    <3>1. /\ holder' \in Seq(Seq(Symbols')) /\ holder' # <<>>
          /\ lost2 = {}
      BY <1>1, <2>2, FirstSubscribe
    <3>2. IsFiniteSet(lost2) /\ Cardinality(lost2) = 0
      BY <3>1, FS_EmptySet
    <3> QED
      BY <2>1, <2>2, <3>1, <3>2 DEF HolderInv, OnlySeamsLost
  <2>3. CASE calls > 0
    <3>1. /\ holder' \in Seq(Seq(Symbols')) /\ holder' # <<>>
          /\ lost2 \subseteq (lost \cup {holder[Len(holder)][1]}) \cup {list[1]}
      BY <1>1, <2>3, SubscribeLoses
    <3>2. IsFiniteSet(lost2) /\ Cardinality(lost2) <= Cardinality(lost) + 2
      <4> HIDE DEF lost, lost2
      <4> QED
        BY <2>1, <3>1, TwoMore
    <3>3. Cardinality(lost2) <= 2 * (calls' - 1)
      <4>1. Cardinality(lost) \in Nat /\ Cardinality(lost2) \in Nat
        BY <2>1, <3>2, FS_CardinalityType
      <4> HIDE DEF lost, lost2
      <4> QED
        BY <2>1, <2>3, <3>2, <4>1
    <3> QED
      BY <2>1, <3>1, <3>2, <3>3 DEF HolderInv, OnlySeamsLost
  <2> QED
    BY <2>1, <2>2, <2>3
<1>2. ASSUME UNCHANGED <<holder, calls, asked>> PROVE HolderInv'
  BY <1>2 DEF HolderInv, Symbols, Selected, OnlySeamsLost
<1>3. CASE \/ QueryFails
           \/ Query
           \/ InStart
           \/ Consume
           \/ UNCHANGED bt_vars
  <2>1. UNCHANGED <<holder, calls, asked>>
    BY <1>3 DEF QueryFails, Query, InStart, NextRow, Pushing, Retry, Return, Consume,
                client_vars, bt_vars
  <2> QED
    BY <1>2, <2>1
<1> QED
  BY <1>1, <1>3 DEF BtNext

(* However often subscribe() is called and with whatever lists, an empty   *)
(* one or a repeated symbol among them: each further call loses the two    *)
(* symbols at the seam at most, one call none.                             *)
THEOREM OnlySeamsLostAlways == BtSpec => []OnlySeamsLost
<1>1. BtInit => HolderInv
  <2> SUFFICES ASSUME BtInit PROVE HolderInv
    OBVIOUS
  <2>1. holder = <<>> /\ calls = 0 /\ asked = {} /\ asked \ Selected = {}
    BY DEF BtInit
  <2>2. IsFiniteSet(asked \ Selected)
    BY <2>1, FS_EmptySet
  <2> QED
    BY <2>1, <2>2 DEF HolderInv, OnlySeamsLost
<1>2. HolderInv => OnlySeamsLost
  BY DEF HolderInv
<1> QED
  BY <1>1, <1>2, HolderStep, PTL DEF BtSpec
=============================================================================
