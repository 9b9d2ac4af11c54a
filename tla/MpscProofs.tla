----------------------------- MODULE MpscProofs -----------------------------
(***************************************************************************)
(* Proofs about lockfree::MPSC, for every BufSize, WordSize, set of values *)
(* and finite set of producers: tickets overrun the ring by less than the  *)
(* number of producers, accesses to a slot never meet, and the ring is a   *)
(* queue of claimed places, TicketQueue.  Up to BufSize + 1 producers,     *)
(* notify_one() reaches the one whose turn the freed slot is.              *)
(***************************************************************************)
EXTENDS Mpsc, RingIndexProofs, FiniteSetTheorems, SequenceTheorems

(* Tickets that have been drawn and whose slot the consumer has not given  *)
(* back yet: the first Drawn ones from Front on.                           *)
Drawn     == Sub(head, Front)
Ticket(k) == Add(Front, k)

(* The slot of a ticket waits for it, or holds its value.                  *)
Free(k)      == seq[Slot(Ticket(k))] = Ticket(k)
Published(k) == seq[Slot(Ticket(k))] = Add(Ticket(k), 1)

(* The tickets producers hold are different ones of those.                 *)
HeldTickets == \A p \in Holding : /\ Sub(pos[p], Front) < Drawn
                                  /\ \A q \in Holding : pos[p] = pos[q] => p = q

(* The slots serve the next BufSize tickets, in turn.                      *)
SlotsInTurn == \A k \in Slots : \/ Free(k)
                                \/ /\ Published(k)
                                   /\ k < Drawn
                                   /\ \A p \in Holding : pos[p] # Ticket(k)

(* A producer that has stopped waiting has one of these tickets.           *)
InOwnSlot == \A p \in Producers :
               ppc[p] \in {"write", "publish"} => Sub(pos[p], Front) < BufSize

TakesPublished == /\ cpc \in {"read", "free"} => Published(0)
                  /\ cpc \in {"notify", "store_tail"} => tail # head

(* Who has drawn ticket tail + k, k >= BufSize - 1, has it still or cannot *)
(* have drawn a later one since: the check of its next push() fails as     *)
(* long as tail is the same.                                               *)
Draws(p, k) == \/ p \in Holding /\ pos[p] = Add(tail, k)
               \/ ppc[p] = "idle"
               \/ ppc[p] = "load_tail" /\ Sub(cur_head[p], tail) > k

(* So the tickets from there on have been drawn by different producers.    *)
LateTickets == BufSize - 1 .. Sub(head, tail) - 1

DifferentDrawers == \E d \in Injection(LateTickets, Producers) :
                      \A k \in LateTickets : Draws(d[k], k)

RingInv == HeldTickets /\ SlotsInTurn /\ InOwnSlot
IndInv  == TypeOK /\ RingInv /\ TakesPublished /\ DifferentDrawers

-----------------------------------------------------------------------------
LEMMA Constants ==
  /\ BufSize \in Nat /\ BufSize >= 2
  /\ WordSize \in Nat /\ WordSize >= 2 * BufSize
  /\ Cardinality(Producers) \in Nat
  /\ BufSize + Cardinality(Producers) <= WordSize
BY MpscAssumption, RingAssumption, TwoRings, FS_CardinalityType

LEMMA InitInv == Init => IndInv
<1> SUFFICES ASSUME Init PROVE IndInv
  OBVIOUS
<1>1. 0 \in Positions /\ Slots \subseteq Positions
  BY RingAssumption DEF Positions, Slots
<1>2. TypeOK
  BY <1>1 DEF Init, TypeOK
<1>3. Front = 0 /\ Holding = {} /\ \A p \in Producers : ppc[p] = "idle"
  BY DEF Init, Front, Holding
<1>4. ASSUME NEW k \in Slots PROVE Free(k)
  <2>1. Ticket(k) = k
    BY <1>1, <1>3, AddForm, RingAssumption DEF Ticket, Positions, Slots
  <2>2. Slot(k) = k
    <3>1. k \in 0 .. BufSize - 1 /\ 0 \in Int /\ k = BufSize * 0 + k
      BY RingAssumption DEF Slots
    <3> QED
      BY <3>1, RingAssumption, RemainderUnique DEF Slot
  <2> QED
    BY <2>1, <2>2 DEF Init, Free
<1>5. RingInv
  BY <1>3, <1>4 DEF RingInv, HeldTickets, SlotsInTurn, InOwnSlot
<1>6. TakesPublished
  BY DEF Init, TakesPublished
<1>7. DifferentDrawers
  <2>1. Sub(head, tail) = 0
    BY <1>1, SubForm DEF Init
  <2>2. LateTickets = {}
    BY <2>1, Constants DEF LateTickets
  <2> DEFINE d == [k \in {} |-> CHOOSE p \in Producers : TRUE]
  <2>3. d \in Injection(LateTickets, Producers)
    BY <2>2 DEF Injection, IsInjective
  <2> QED
    BY <2>2, <2>3 DEF DifferentDrawers
<1> QED
  BY <1>2, <1>5, <1>6, <1>7 DEF IndInv

-----------------------------------------------------------------------------
(* What the invariant says of the distance of the indices.                 *)
LEMMA Overrun ==
  ASSUME IndInv
  PROVE  /\ Sub(head, tail) \in Nat
         /\ Sub(head, tail) < BufSize + Cardinality(Producers)
<1>1. head \in Positions /\ tail \in Positions
  BY DEF IndInv, TypeOK
<1>2. Sub(head, tail) \in Nat
  BY <1>1, SubNat
<1>3. Cardinality(LateTickets) <= Cardinality(Producers)
  BY FS_Injection, MpscAssumption DEF IndInv, DifferentDrawers
<1>4. BufSize - 1 \in Int /\ Sub(head, tail) - 1 \in Int
  BY <1>2, Constants
<1>5. Cardinality(LateTickets)
        = IF BufSize - 1 > Sub(head, tail) - 1 THEN 0
          ELSE (Sub(head, tail) - 1) - (BufSize - 1) + 1
  BY <1>4, FS_Interval DEF LateTickets
<1> QED
  BY <1>2, <1>3, <1>5, Constants

(* The next position is another one.                                       *)
LEMMA NextDiffers ==
  ASSUME NEW x \in Positions
  PROVE  Add(x, 1) \in Positions /\ Add(x, 1) # x
<1>1. 1 \in Positions /\ WordSize \in Nat /\ WordSize > 1
  BY Constants DEF Positions
<1>2. Add(x, 1) = IF x + 1 < WordSize THEN x + 1 ELSE x + 1 - WordSize
  BY <1>1, AddForm
<1> QED
  BY <1>1, <1>2 DEF Positions

LEMMA DistanceZero ==
  ASSUME NEW a \in Positions, NEW b \in Positions
  PROVE  Sub(a, b) \in Nat /\ (Sub(a, b) = 0 <=> a = b)
<1>1. Sub(a, b) = IF a >= b THEN a - b ELSE a - b + WordSize
  BY SubForm
<1>2. Sub(a, b) \in Nat /\ WordSize \in Nat
  BY SubNat, Constants
<1> QED
  BY <1>1, <1>2 DEF Positions

LEMMA FrontFacts ==
  ASSUME IndInv
  PROVE  /\ head \in Positions /\ tail \in Positions /\ Front \in Positions
         /\ Drawn \in Nat /\ Drawn < WordSize
         /\ Sub(head, tail) = IF Front = tail THEN Drawn ELSE Drawn + 1
         /\ cpc \in {"notify", "store_tail"} <=> Front # tail
<1>1. head \in Positions /\ tail \in Positions
  BY DEF IndInv, TypeOK
<1>2. Add(tail, 1) \in Positions /\ Add(tail, 1) # tail
  BY <1>1, NextDiffers
<1>3. Front \in Positions /\ (cpc \in {"notify", "store_tail"} <=> Front # tail)
  BY <1>1, <1>2 DEF Front
<1>4. Drawn \in Positions
  BY <1>1, <1>3, SubType DEF Drawn, Positions
<1>5. CASE Front # tail
  <2>1. Front = Add(tail, 1) /\ tail # head
    BY <1>3, <1>5 DEF Front, IndInv, TakesPublished
  <2>2. Sub(head, tail) \in Nat /\ Sub(head, tail) > 0
    BY <1>1, <2>1, SubForm, Constants DEF Positions
  <2>3. Drawn = Sub(head, tail) - 1
    BY <1>1, <2>1, <2>2, SubStep DEF Drawn
  <2> QED
    BY <1>1, <1>3, <1>4, <1>5, <2>2, <2>3, Constants DEF Positions
<1> QED
  BY <1>1, <1>3, <1>4, <1>5, Constants DEF Drawn, Positions

(* Offsets from Front name tickets.                                        *)
LEMMA Offsets ==
  ASSUME IndInv, NEW x \in Positions
  PROVE  /\ Sub(x, Front) \in Nat /\ Sub(x, Front) \in Positions
         /\ x = Ticket(Sub(x, Front))
<1>1. Front \in Positions
  BY FrontFacts
<1> QED
  BY <1>1, SubNat, SubType, AddSub DEF Ticket, Positions

LEMMA TicketFacts ==
  ASSUME IndInv, NEW k \in Positions
  PROVE  Ticket(k) \in Positions /\ Sub(Ticket(k), Front) = k
<1>1. Front \in Positions
  BY FrontFacts
<1> QED
  BY <1>1, AddType, SubAdd DEF Ticket, Positions

(* The ticket after the k-th.                                              *)
LEMMA NextTicket ==
  ASSUME IndInv, NEW k \in Positions, k + 1 \in Positions
  PROVE  Add(Ticket(k), 1) = Ticket(k + 1)
<1>1. Front \in Positions /\ WordSize \in Nat /\ 1 \in Positions
  BY FrontFacts, Constants DEF Positions
<1>2. Ticket(k) = IF Front + k < WordSize THEN Front + k ELSE Front + k - WordSize
  BY <1>1, AddForm DEF Ticket
<1>3. Ticket(k + 1) = IF Front + (k + 1) < WordSize THEN Front + (k + 1)
                      ELSE Front + (k + 1) - WordSize
  BY <1>1, AddForm DEF Ticket
<1>4. Ticket(k) \in Positions
  BY TicketFacts
<1>5. Add(Ticket(k), 1) = IF Ticket(k) + 1 < WordSize THEN Ticket(k) + 1
                          ELSE Ticket(k) + 1 - WordSize
  BY <1>1, <1>4, AddForm
<1> QED
  BY <1>1, <1>2, <1>3, <1>5 DEF Positions

LEMMA SlotsArePositions == Slots \subseteq Positions
BY RingAssumption DEF Slots, Positions

LEMMA TicketSlots ==
  ASSUME IndInv, NEW k \in Slots
  PROVE  /\ Slot(Ticket(k)) \in Slots
         /\ \A j \in Slots : j # k => Slot(Ticket(j)) # Slot(Ticket(k))
<1>1. Front \in Positions /\ Ticket(k) \in Int
  BY FrontFacts, TicketFacts, SlotsArePositions DEF Positions
<1> QED
  BY <1>1, SlotType, SlotDistinct DEF Ticket

(* The slot of a ticket that is held and served is free for it.            *)
LEMMA HeldIsFree ==
  ASSUME IndInv, NEW p \in Holding, Sub(pos[p], Front) < BufSize
  PROVE  /\ Sub(pos[p], Front) \in Slots
         /\ pos[p] = Ticket(Sub(pos[p], Front))
         /\ Free(Sub(pos[p], Front))
<1>1. pos[p] \in Positions
  BY DEF IndInv, TypeOK, Holding
<1>2. Sub(pos[p], Front) \in Slots /\ pos[p] = Ticket(Sub(pos[p], Front))
  BY <1>1, Offsets, Constants DEF Slots
<1> QED
  BY <1>2 DEF IndInv, RingInv, SlotsInTurn

(* A slot being written is neither another one being written nor one that  *)
(* is published.                                                           *)
LEMMA WritesApart ==
  ASSUME IndInv, NEW p \in Producers, ppc[p] \in {"write", "publish"}
  PROVE  /\ Slot(pos[p]) \in Slots
         /\ \A q \in Producers \ {p} :
              ppc[q] \in {"write", "publish"} => Slot(pos[p]) # Slot(pos[q])
         /\ \A k \in Slots : Published(k) => Slot(pos[p]) # Slot(Ticket(k))
<1>1. ASSUME NEW q \in Producers, ppc[q] \in {"write", "publish"}
      PROVE  /\ q \in Holding
             /\ Sub(pos[q], Front) \in Slots
             /\ pos[q] = Ticket(Sub(pos[q], Front))
             /\ Free(Sub(pos[q], Front))
  <2>1. q \in Holding /\ Sub(pos[q], Front) < BufSize
    BY <1>1 DEF Holding, IndInv, RingInv, InOwnSlot
  <2> QED
    BY <2>1, HeldIsFree
<1>2. ASSUME NEW q \in Producers \ {p}, ppc[q] \in {"write", "publish"}
      PROVE  Slot(pos[p]) # Slot(pos[q])
  <2>1. pos[p] # pos[q]
    BY <1>1, <1>2 DEF IndInv, RingInv, HeldTickets
  <2> QED
    BY <1>1, <1>2, <2>1, TicketSlots
<1>3. ASSUME NEW k \in Slots, Published(k) PROVE Slot(pos[p]) # Slot(Ticket(k))
  <2>1. ~Free(k)
    BY <1>3, TicketFacts, SlotsArePositions, NextDiffers DEF Free, Published
  <2> QED
    BY <1>1, <2>1, TicketSlots
<1> QED
  BY <1>1, <1>2, <1>3, TicketSlots

-----------------------------------------------------------------------------
LEMMA TypeStep == TypeOK /\ [Next]_vars => TypeOK'
<1> SUFFICES ASSUME TypeOK, [Next]_vars PROVE TypeOK'
  OBVIOUS
<1> USE DEF TypeOK
<1>1. ASSUME NEW p \in Producers, NEW v \in Values, PushCall(p, v) PROVE TypeOK'
  BY <1>1 DEF PushCall, Goto, shared, cvars
<1>2. ASSUME NEW p \in Producers, InPush(p) \/ SpuriousWake(p) PROVE TypeOK'
  <2>1. 0 \in Positions
    BY Constants DEF Positions
  <2>2. CASE PushFull(p)
    BY <2>1, <2>2 DEF PushFull, Return, Goto, shared, cvars
  <2>3. CASE PushRoom(p)
    BY <2>1, <2>3 DEF PushRoom, Goto, shared, cvars
  <2>4. CASE TakeTicket(p)
    <3>1. Add(head, 1) \in Positions
      BY AddType DEF Positions
    <3> QED
      BY <2>4, <3>1 DEF TakeTicket, Goto, cvars
  <2>5. CASE LoadSeq(p)
    <3>1. seq[Slot(pos[p])] \in Positions
      BY SlotType DEF Positions
    <3> QED
      BY <2>5, <3>1 DEF LoadSeq, Goto, shared, cvars
  <2>6. CASE Wait(p)
    BY <2>6 DEF Wait, Goto, shared, cvars
  <2>7. CASE PushWrite(p)
    BY <2>7 DEF PushWrite, Goto, cvars
  <2>8. CASE PushPublish(p)
    <3>1. Add(pos[p], 1) \in Positions
      BY AddType DEF Positions
    <3> QED
      BY <2>1, <2>8, <3>1 DEF PushPublish, Return, Goto, cvars
  <2>9. CASE SpuriousWake(p)
    BY <2>9 DEF SpuriousWake, Goto, shared, cvars
  <2> QED
    BY <1>2, <2>2, <2>3, <2>4, <2>5, <2>6, <2>7, <2>8, <2>9 DEF InPush
<1>3. CASE Consumer
  <2>1. CASE PopEmpty \/ PopReady
    BY <2>1 DEF PopEmpty, PopReady, shared, pvars
  <2>2. CASE PopRead
    <3>1. data[Slot(tail)] \in Values \cup {Blank}
      BY SlotType DEF Positions
    <3> QED
      BY <2>2, <3>1 DEF PopRead, shared, pvars
  <2>3. CASE PopFree
    <3>1. Add(tail, BufSize) \in Positions
      BY AddType, RingAssumption DEF Positions
    <3> QED
      BY <2>3, <3>1 DEF PopFree, pvars
  <2>4. CASE PopNotify
    BY <2>4 DEF PopNotify, shared
  <2>5. CASE PopStoreTail
    <3>1. Add(tail, 1) \in Positions
      BY AddType DEF Positions
    <3> QED
      BY <2>5, <3>1 DEF PopStoreTail, pvars
  <2> QED
    BY <1>3, <2>1, <2>2, <2>3, <2>4, <2>5 DEF Consumer
<1>4. CASE UNCHANGED vars
  BY <1>4 DEF vars, shared, pvars, cvars
<1> QED
  BY <1>1, <1>2, <1>3, <1>4 DEF Next

(* Steps that touch neither the indices nor a sequence number, nor give a  *)
(* producer a ticket or a slot.                                            *)
LEMMA KeepsRing ==
  ASSUME RingInv,
         head' = head, seq' = seq, Front' = Front,
         Holding' \subseteq Holding,
         \A p \in Holding' : pos'[p] = pos[p],
         \A p \in Producers : ppc'[p] \in {"write", "publish"}
                                => ppc[p] \in {"write", "publish"}
  PROVE  RingInv'
<1>1. Drawn' = Drawn /\ \A k \in Slots : Ticket(k)' = Ticket(k)
  BY DEF Drawn, Ticket
<1>2. HeldTickets'
  BY <1>1 DEF RingInv, HeldTickets
<1>3. SlotsInTurn'
  BY <1>1 DEF RingInv, SlotsInTurn, Free, Published
<1>4. InOwnSlot'
  <2> SUFFICES ASSUME NEW p \in Producers, ppc'[p] \in {"write", "publish"}
               PROVE  Sub(pos'[p], Front) < BufSize
    BY DEF InOwnSlot
  <2>1. p \in Holding'
    BY DEF Holding
  <2> QED
    BY <2>1 DEF RingInv, InOwnSlot
<1> QED
  BY <1>2, <1>3, <1>4 DEF RingInv

(* A producer that stops waiting has been reached by its slot.             *)
LEMMA LoadSeqRing ==
  ASSUME IndInv, NEW p \in Producers, LoadSeq(p)
  PROVE  RingInv'
<1>1. /\ ppc[p] = "load_seq" /\ p \in Holding
      /\ UNCHANGED <<head, seq, Front, pos, cpc, tail>>
      /\ \A q \in Producers \ {p} : ppc'[q] = ppc[q]
      /\ ppc'[p] = IF seq[Slot(pos[p])] = pos[p] THEN "write" ELSE "wait"
  BY DEF LoadSeq, Goto, Holding, IndInv, TypeOK, shared, cvars, Front
<1>2. Holding' = Holding
  BY <1>1 DEF Holding
<1>3. ASSUME ppc'[p] = "write", ~(Sub(pos[p], Front) < BufSize)
      PROVE  FALSE
  <2> DEFINE x == Sub(pos[p], Front)
  <2>1. /\ pos[p] \in Positions /\ x \in Nat /\ x \in Positions /\ x >= BufSize
        /\ pos[p] = Ticket(x)
    BY <1>3, Offsets, Constants DEF IndInv, TypeOK
  <2>2. seq[Slot(Ticket(x))] = Ticket(x)
    BY <1>1, <1>3, <2>1
  <2> HIDE DEF x
  <2>3. PICK k \in Slots : k + BufSize <= x /\ Slot(Ticket(k)) = Slot(Ticket(x))
    BY <2>1, SlotFound, FrontFacts DEF Ticket
  <2>4. Ticket(x) = Ticket(k) \/ Ticket(x) = Add(Ticket(k), 1)
    BY <2>2, <2>3 DEF IndInv, RingInv, SlotsInTurn, Free, Published
  <2>5. k \in Positions /\ k + 1 \in Positions /\ k + 1 < x
    BY <2>1, <2>3, Constants DEF Positions, Slots
  <2>6. Add(Ticket(k), 1) = Ticket(k + 1)
    BY <2>5, NextTicket
  <2>7. Sub(Ticket(x), Front) = x /\ Sub(Ticket(k), Front) = k
        /\ Sub(Ticket(k + 1), Front) = k + 1
    BY <2>1, <2>5, TicketFacts
  <2>8. k \in Int /\ x \in Int
    BY <2>1, <2>5 DEF Positions
  <2> QED
    BY <2>3, <2>4, <2>5, <2>6, <2>7, <2>8, Constants
<1>4. HeldTickets' /\ SlotsInTurn'
  BY <1>1, <1>2 DEF IndInv, RingInv, HeldTickets, SlotsInTurn, Drawn, Free, Published, Ticket
<1>5. InOwnSlot'
  BY <1>1, <1>3 DEF IndInv, RingInv, InOwnSlot
<1> QED
  BY <1>4, <1>5 DEF RingInv

(* A function that takes no value twice is an injection.                   *)
LEMMA InjectionIs ==
  ASSUME NEW S, NEW T, NEW e \in [S -> T],
         \A a, b \in S : e[a] = e[b] => a = b
  PROVE  e \in Injection(S, T)
<1>1. IsInjective(e)
  BY DEF IsInjective
<1> QED
  BY <1>1 DEF Injection

(* A producer about to draw a ticket is not among those that drew the late *)
(* ones, so there is one producer more than these.                         *)
LEMMA OneMore ==
  ASSUME IndInv, NEW p \in Producers, ppc[p] = "ticket",
         NEW d \in Injection(LateTickets, Producers),
         \A k \in LateTickets : Draws(d[k], k),
         NEW e, e = [k \in BufSize - 1 .. Sub(head, tail) |->
                       IF k = Sub(head, tail) THEN p ELSE d[k]]
  PROVE  /\ e \in Injection(BufSize - 1 .. Sub(head, tail), Producers)
         /\ Sub(head, tail) + 1 < BufSize + Cardinality(Producers)
<1> DEFINE n == Sub(head, tail)
           S == BufSize - 1 .. n
<1>1. n \in Nat /\ BufSize \in Nat /\ BufSize >= 2
  BY Overrun, Constants
<1>2. d \in [LateTickets -> Producers] /\ \A a, b \in LateTickets : d[a] = d[b] => a = b
  BY DEF Injection, IsInjective
<1>3. LateTickets = S \ {n}
  BY <1>1 DEF LateTickets
<1>4. \A k \in LateTickets : d[k] # p
  BY DEF Draws, Holding
<1> HIDE DEF n
<1>5. e \in [S -> Producers] /\ \A a, b \in S : e[a] = e[b] => a = b
  BY <1>2, <1>3, <1>4 DEF n
<1>6. e \in Injection(S, Producers)
  BY <1>5, InjectionIs
<1>7. Cardinality(S) <= Cardinality(Producers)
  BY <1>6, FS_Injection, MpscAssumption
<1>8. BufSize - 1 \in Int /\ n \in Int
  BY <1>1
<1>9. Cardinality(S) = IF BufSize - 1 > n THEN 0 ELSE n - (BufSize - 1) + 1
  BY <1>8, FS_Interval
<1>10. Cardinality(Producers) \in Nat /\ Cardinality(Producers) > 0
  <2>1. {p} \in SUBSET Producers
    OBVIOUS
  <2>2. Cardinality({p}) = 1
    BY FS_Singleton
  <2> QED
    BY <2>1, <2>2, FS_Subset, MpscAssumption, Constants
<1>11. n + 1 < BufSize + Cardinality(Producers)
  BY <1>1, <1>7, <1>9, <1>10
<1> QED
  BY <1>6, <1>11 DEF n

LEMMA RoomForTicket ==
  ASSUME IndInv, NEW p \in Producers, TakeTicket(p)
  PROVE  /\ head' \in Positions
         /\ Sub(head', tail) = Sub(head, tail) + 1
         /\ Sub(head', Front) = Drawn + 1
<1>1. head \in Positions /\ tail \in Positions /\ Front \in Positions
  BY FrontFacts
<1>2. PICK d \in Injection(LateTickets, Producers) : \A k \in LateTickets : Draws(d[k], k)
  BY DEF IndInv, DifferentDrawers
<1> DEFINE e == [k \in BufSize - 1 .. Sub(head, tail) |->
                   IF k = Sub(head, tail) THEN p ELSE d[k]]
<1>3. ppc[p] = "ticket" /\ head' = Add(head, 1)
  BY DEF TakeTicket
<1> HIDE DEF e
<1>4. Sub(head, tail) + 1 < BufSize + Cardinality(Producers)
  BY <1>2, <1>3, OneMore DEF e
<1>5. /\ Sub(head, tail) \in Nat /\ Sub(head, tail) < WordSize - 1
      /\ Sub(head, Front) < WordSize - 1
  BY <1>4, Overrun, Constants, FrontFacts DEF Drawn
<1> QED
  BY <1>1, <1>3, <1>5, NextDiffers, SubStep DEF Drawn

LEMMA TakeTicketRing ==
  ASSUME IndInv, NEW p \in Producers, TakeTicket(p)
  PROVE  RingInv'
<1>1. /\ ppc[p] = "ticket" /\ p \notin Holding
      /\ UNCHANGED <<seq, Front, cpc, tail>>
      /\ pos' = [pos EXCEPT ![p] = head]
      /\ ppc' = [ppc EXCEPT ![p] = "load_seq"]
  BY DEF TakeTicket, Goto, Holding, cvars, Front
<1>2. /\ pos \in [Producers -> Positions]
      /\ ppc'[p] = "load_seq" /\ pos'[p] = head
      /\ \A q \in Producers \ {p} : ppc'[q] = ppc[q] /\ pos'[q] = pos[q]
  BY <1>1 DEF IndInv, TypeOK
<1>3. Holding' = Holding \cup {p}
  BY <1>2 DEF Holding
<1>4. Drawn \in Nat /\ Drawn' = Drawn + 1 /\ head \in Positions /\ Sub(head, Front) = Drawn
  BY <1>1, FrontFacts, RoomForTicket DEF Drawn
<1>5. \A q \in Holding : q # p /\ q \in Producers /\ pos[q] # head
                          /\ Sub(pos[q], Front) < Drawn /\ Sub(pos[q], Front) \in Nat
  <2> SUFFICES ASSUME NEW q \in Holding
               PROVE  /\ q # p /\ q \in Producers /\ pos[q] # head
                      /\ Sub(pos[q], Front) < Drawn /\ Sub(pos[q], Front) \in Nat
    OBVIOUS
  <2>1. q # p /\ q \in Producers /\ Sub(pos[q], Front) < Drawn
    BY <1>1 DEF IndInv, RingInv, HeldTickets, Holding
  <2>2. Sub(pos[q], Front) \in Nat
    BY <1>2, <2>1, Offsets
  <2> QED
    BY <1>4, <2>1, <2>2
<1>6. HeldTickets'
  <2>1. ASSUME NEW q \in Holding' PROVE Sub(pos'[q], Front) < Drawn + 1
    BY <1>2, <1>3, <1>4, <1>5
  <2>2. ASSUME NEW q \in Holding', NEW r \in Holding', pos'[q] = pos'[r] PROVE q = r
    BY <1>2, <1>3, <1>5, <2>2 DEF IndInv, RingInv, HeldTickets
  <2> QED
    BY <1>1, <1>4, <2>1, <2>2 DEF HeldTickets
<1>7. SlotsInTurn'
  <2> SUFFICES ASSUME NEW k \in Slots, ~Free(k)
               PROVE  /\ Published(k) /\ k < Drawn + 1
                      /\ \A q \in Holding' : pos'[q] # Ticket(k)
    BY <1>1, <1>4 DEF SlotsInTurn, Free, Published, Ticket
  <2>1. Published(k) /\ k < Drawn /\ \A q \in Holding : pos[q] # Ticket(k)
    BY DEF IndInv, RingInv, SlotsInTurn
  <2>2. Sub(Ticket(k), Front) = k /\ k \in Int
    BY TicketFacts, SlotsArePositions DEF Slots
  <2>3. head # Ticket(k)
    BY <1>4, <2>1, <2>2
  <2> QED
    BY <1>2, <1>3, <1>4, <1>5, <2>1, <2>2, <2>3
<1>8. InOwnSlot'
  <2> SUFFICES ASSUME NEW q \in Producers, ppc'[q] \in {"write", "publish"}
               PROVE  Sub(pos'[q], Front) < BufSize
    BY <1>1 DEF InOwnSlot
  <2>1. q # p
    BY <1>2
  <2> QED
    BY <1>2, <2>1 DEF IndInv, RingInv, InOwnSlot
<1> QED
  BY <1>6, <1>7, <1>8 DEF RingInv

(* A producer publishes the x-th ticket, which its slot waited for.         *)
LEMMA PublishFacts ==
  ASSUME IndInv, NEW p \in Producers, PushPublish(p), NEW x, x = Sub(pos[p], Front)
  PROVE  /\ x \in Slots /\ x < Drawn /\ pos[p] = Ticket(x) /\ Free(x) /\ ~Published(x)
         /\ UNCHANGED <<head, tail, Front, Drawn, cpc>>
         /\ \A k \in Slots : Ticket(k)' = Ticket(k)
         /\ Published(x)'
         /\ \A k \in Slots \ {x} : /\ Free(k)' <=> Free(k)
                                   /\ Published(k)' <=> Published(k)
         /\ p \in Holding /\ Holding' = Holding \ {p}
         /\ ppc' = [ppc EXCEPT ![p] = "idle"]
         /\ \A q \in Holding' : pos'[q] = pos[q] /\ pos[q] # Ticket(x)
<1>1. /\ ppc[p] = "publish" /\ p \in Holding
      /\ UNCHANGED <<head, Front, cpc, tail>>
      /\ seq' = [seq EXCEPT ![Slot(pos[p])] = Add(pos[p], 1)]
      /\ ppc' = [ppc EXCEPT ![p] = "idle"]
      /\ pos' = [pos EXCEPT ![p] = 0]
  BY DEF PushPublish, Return, Goto, Holding, cvars, Front
<1>2. /\ ppc'[p] = "idle"
      /\ \A q \in Producers \ {p} : ppc'[q] = ppc[q] /\ pos'[q] = pos[q]
  BY <1>1 DEF IndInv, TypeOK
<1>3. Holding' = Holding \ {p}
  BY <1>2 DEF Holding
<1>4. x \in Slots /\ pos[p] = Ticket(x) /\ Free(x)
  BY <1>1, HeldIsFree DEF IndInv, RingInv, InOwnSlot
<1>5. x < Drawn
  BY <1>1 DEF IndInv, RingInv, HeldTickets
<1>6. ~Published(x)
  BY <1>4, TicketFacts, SlotsArePositions, NextDiffers DEF Free, Published
<1>7. Slot(Ticket(x)) \in Slots
      /\ \A k \in Slots : k # x => /\ Slot(Ticket(k)) \in Slots
                                  /\ Slot(Ticket(k)) # Slot(Ticket(x))
  BY <1>4, TicketSlots
<1>8. Drawn' = Drawn /\ \A k \in Slots : Ticket(k)' = Ticket(k)
  BY <1>1 DEF Drawn, Ticket
<1>9. /\ seq'[Slot(Ticket(x))] = Add(Ticket(x), 1)
      /\ \A k \in Slots : k # x => seq'[Slot(Ticket(k))] = seq[Slot(Ticket(k))]
  BY <1>1, <1>4, <1>7 DEF IndInv, TypeOK
<1>10. \A q \in Holding' : q \in Holding /\ pos'[q] = pos[q] /\ pos[q] # Ticket(x)
  BY <1>1, <1>2, <1>3, <1>4 DEF IndInv, RingInv, HeldTickets, Holding
<1>11. /\ Published(x)'
       /\ \A k \in Slots \ {x} : (Free(k)' <=> Free(k)) /\ (Published(k)' <=> Published(k))
  BY <1>4, <1>8, <1>9 DEF Free, Published
<1> QED
  BY <1>1, <1>3, <1>4, <1>5, <1>6, <1>8, <1>10, <1>11

LEMMA PublishRing ==
  ASSUME IndInv, NEW p \in Producers, PushPublish(p)
  PROVE  RingInv' /\ (Published(0) => Published(0)')
<1>1. PICK x : x = Sub(pos[p], Front)
  OBVIOUS
<1>2. /\ x \in Slots /\ x < Drawn /\ pos[p] = Ticket(x) /\ ~Published(x)
      /\ UNCHANGED <<Front, Drawn>>
      /\ \A k \in Slots : Ticket(k)' = Ticket(k)
      /\ Published(x)'
      /\ \A k \in Slots \ {x} : (Free(k)' <=> Free(k)) /\ (Published(k)' <=> Published(k))
      /\ ppc' = [ppc EXCEPT ![p] = "idle"]
      /\ Holding' = Holding \ {p}
      /\ \A q \in Holding' : pos'[q] = pos[q] /\ pos[q] # Ticket(x)
  BY <1>1, PublishFacts
<1>3. HeldTickets'
  BY <1>2 DEF IndInv, RingInv, HeldTickets
<1>4. SlotsInTurn'
  BY <1>2 DEF IndInv, RingInv, SlotsInTurn
<1>5. InOwnSlot'
  <2> SUFFICES ASSUME NEW q \in Producers, ppc'[q] \in {"write", "publish"}
               PROVE  Sub(pos'[q], Front) < BufSize
    BY <1>2 DEF InOwnSlot
  <2>1. ppc[q] = ppc'[q] /\ q \in Holding'
    BY <1>2 DEF IndInv, TypeOK, Holding
  <2> QED
    BY <1>2, <2>1 DEF IndInv, RingInv, InOwnSlot
<1>6. Published(0) => Published(0)'
  BY <1>2, Constants DEF Slots
<1> QED
  BY <1>3, <1>4, <1>5, <1>6 DEF RingInv

(* The consumer gives the slot of the first ticket to the one a ring later.*)
LEMMA FreeFacts ==
  ASSUME IndInv, PopFree
  PROVE  /\ Front = tail /\ tail' = tail /\ tail # head /\ Ticket(0) = tail
         /\ Published(0) /\ 0 < Drawn /\ Drawn' = Drawn - 1
         /\ UNCHANGED <<Holding, pos, ppc, u, push_ret, data, value>>
         /\ Free(BufSize - 1)'
         /\ \A k \in Nat : k + 1 < WordSize => Ticket(k)' = Ticket(k + 1)
         /\ \A k \in Slots \ {0} : seq'[Slot(Ticket(k))] = seq[Slot(Ticket(k))]
         /\ \A p \in Holding : /\ Sub(pos[p], Front) \in Nat
                               /\ Sub(pos[p], Front') = Sub(pos[p], Front) - 1
<1>1. /\ UNCHANGED <<head, tail, pvars, data, value>>
      /\ seq' = [seq EXCEPT ![Slot(tail)] = Add(tail, BufSize)]
      /\ Front = tail /\ Front' = Add(tail, 1)
      /\ Published(0)
  BY DEF PopFree, Front, IndInv, TakesPublished
<1>2. /\ head \in Positions /\ tail \in Positions /\ Add(tail, 1) \in Positions
      /\ Drawn \in Nat /\ Drawn < WordSize
  BY FrontFacts, NextDiffers
<1>3. BufSize \in Nat /\ BufSize >= 2 /\ WordSize \in Nat /\ WordSize >= 2 * BufSize
  BY Constants
<1>4. 0 \in Slots /\ 0 \in Positions /\ BufSize \in Positions
  BY <1>3 DEF Slots, Positions
<1>5. Ticket(0) = tail /\ Ticket(0) \in Positions
  BY <1>1, <1>2, AddZero DEF Ticket
<1>6. 0 < Drawn /\ \A p \in Holding : pos[p] # tail
  <2>1. ~Free(0)
    BY <1>1, <1>5, NextDiffers DEF Free, Published
  <2> QED
    BY <1>4, <1>5, <2>1 DEF IndInv, RingInv, SlotsInTurn
<1>7. tail # head
  BY <1>1, <1>2, <1>6, DistanceZero DEF Drawn
<1>8. Drawn' = Drawn - 1
  BY <1>1, <1>2, <1>6, SubStep DEF Drawn
<1>9. \A k \in Nat : k + 1 < WordSize => Ticket(k)' = Ticket(k + 1)
  BY <1>1, <1>2, AddSuccessor DEF Ticket
<1>10. UNCHANGED <<Holding, pos, ppc, u, push_ret, data, value>>
  BY <1>1 DEF pvars, Holding
<1>11. ASSUME NEW p \in Holding
       PROVE  /\ Sub(pos[p], Front) \in Nat
              /\ Sub(pos[p], Front') = Sub(pos[p], Front) - 1
  <2>1. pos[p] \in Positions /\ pos[p] # tail
    BY <1>6 DEF IndInv, TypeOK, Holding
  <2>2. Sub(pos[p], tail) \in Nat /\ Sub(pos[p], tail) > 0
    BY <1>2, <2>1, DistanceZero
  <2> QED
    BY <1>1, <1>2, <2>1, <2>2, SubStep
<1>12. Free(BufSize - 1)'
  <2>1. Slot(Ticket(BufSize)) = Slot(tail) /\ Ticket(BufSize) = Add(tail, BufSize)
    BY <1>1, <1>2, SlotRound DEF Ticket
  <2>2. Slot(tail) \in Slots
    BY <1>2, SlotType DEF Positions
  <2>3. Ticket(BufSize - 1)' = Ticket(BufSize)
    BY <1>3, <1>9
  <2> QED
    BY <1>1, <2>1, <2>2, <2>3 DEF IndInv, TypeOK, Free
<1>13. ASSUME NEW k \in Slots \ {0}
       PROVE  seq'[Slot(Ticket(k))] = seq[Slot(Ticket(k))]
  <2>1. Slot(Ticket(k)) # Slot(tail) /\ Slot(Ticket(k)) \in Slots
    BY <1>4, <1>5, TicketSlots
  <2> QED
    BY <1>1, <2>1 DEF IndInv, TypeOK
<1> QED
  BY <1>1, <1>5, <1>6, <1>7, <1>8, <1>9, <1>10, <1>11, <1>12, <1>13

LEMMA FreeRing ==
  ASSUME IndInv, PopFree
  PROVE  RingInv' /\ tail' = tail /\ tail # head
<1>1. /\ BufSize \in Nat /\ BufSize >= 2 /\ WordSize \in Nat /\ WordSize >= 2 * BufSize
      /\ Drawn \in Nat /\ Drawn' = Drawn - 1
      /\ UNCHANGED <<Holding, pos, ppc>>
  BY Constants, FrontFacts, FreeFacts
<1>2. \A p \in Holding : /\ Sub(pos[p], Front) \in Nat
                         /\ Sub(pos[p], Front') = Sub(pos[p], Front) - 1
  BY FreeFacts
<1>3. HeldTickets'
  <2>1. \A p \in Holding : Sub(pos[p], Front) < Drawn
                          /\ \A q \in Holding : pos[p] = pos[q] => p = q
    BY DEF IndInv, RingInv, HeldTickets
  <2>2. \A p \in Holding : Sub(pos[p], Front') < Drawn - 1
    BY <1>1, <1>2, <2>1
  <2> QED
    BY <1>1, <2>1, <2>2 DEF HeldTickets
<1>4. SlotsInTurn'
  <2> SUFFICES ASSUME NEW k \in Slots, ~Free(k)'
               PROVE  /\ Published(k)' /\ k < Drawn - 1
                      /\ \A p \in Holding : pos[p] # Ticket(k)'
    BY <1>1 DEF SlotsInTurn
  <2>1. k \in Nat /\ k + 1 < WordSize /\ k + 1 \in Slots
    <3>1. k # BufSize - 1
      BY FreeFacts
    <3> QED
      BY <1>1, <3>1 DEF Slots
  <2>2. /\ Ticket(k)' = Ticket(k + 1)
        /\ seq'[Slot(Ticket(k + 1))] = seq[Slot(Ticket(k + 1))]
    <3>1. k + 1 \in Slots \ {0}
      BY <2>1
    <3> QED
      BY <2>1, <3>1, FreeFacts
  <2>3. ~Free(k + 1)
    BY <2>2 DEF Free
  <2>4. Published(k + 1) /\ k + 1 < Drawn /\ \A p \in Holding : pos[p] # Ticket(k + 1)
    BY <2>1, <2>3 DEF IndInv, RingInv, SlotsInTurn
  <2> QED
    BY <1>1, <2>1, <2>2, <2>4 DEF Published
<1>5. InOwnSlot'
  <2> SUFFICES ASSUME NEW p \in Producers, ppc[p] \in {"write", "publish"}
               PROVE  Sub(pos[p], Front') < BufSize
    BY <1>1 DEF InOwnSlot
  <2>1. p \in Holding /\ Sub(pos[p], Front) < BufSize
    BY DEF Holding, IndInv, RingInv, InOwnSlot
  <2> QED
    BY <1>1, <1>2, <2>1
<1> QED
  BY <1>3, <1>4, <1>5, FreeFacts DEF RingInv

(* The other steps of a producer.                                          *)
LEMMA QuietPush ==
  ASSUME IndInv, NEW p \in Producers,
         \/ \E v \in Values : PushCall(p, v)
         \/ PushFull(p)
         \/ PushRoom(p)
         \/ Wait(p)
         \/ PushWrite(p)
         \/ SpuriousWake(p)
  PROVE  RingInv'
<1>1. UNCHANGED <<head, tail, seq, cpc>>
  BY DEF PushCall, PushFull, PushRoom, Wait, PushWrite, SpuriousWake, shared, cvars
<1>2. Front' = Front
  BY <1>1 DEF Front
<1>3. /\ \A q \in Producers \ {p} : ppc'[q] = ppc[q] /\ pos'[q] = pos[q]
      /\ ppc'[p] \in {"write", "publish"} => ppc[p] \in {"write", "publish"}
      /\ p \in Holding' => p \in Holding /\ pos'[p] = pos[p]
  BY DEF PushCall, PushFull, PushRoom, Wait, PushWrite, SpuriousWake, Return, Goto,
         Holding, IndInv, TypeOK
<1>4. Holding' \subseteq Holding /\ \A q \in Holding' : pos'[q] = pos[q]
  BY <1>3 DEF Holding
<1> QED
  BY <1>1, <1>2, <1>3, <1>4, KeepsRing DEF IndInv

(* The other steps of the consumer.                                        *)
LEMMA QuietPop ==
  ASSUME IndInv, PopEmpty \/ PopReady \/ PopRead \/ PopNotify \/ PopStoreTail
                 \/ UNCHANGED vars
  PROVE  RingInv'
<1>1. UNCHANGED <<head, seq, pos>>
  BY DEF PopEmpty, PopReady, PopRead, PopNotify, PopStoreTail, shared, pvars, vars
<1>2. Front' = Front
  BY DEF PopEmpty, PopReady, PopRead, PopNotify, PopStoreTail, shared, vars, cvars, Front
<1>3. \A q \in Producers : \/ ppc'[q] = ppc[q]
                           \/ ppc[q] = "blocked" /\ ppc'[q] = "wait"
  <2>1. CASE PopNotify
    BY <2>1 DEF PopNotify, Eligible, IndInv, TypeOK
  <2> QED
    BY <2>1 DEF PopEmpty, PopReady, PopRead, PopStoreTail, pvars, vars
<1>4. Holding' = Holding
  BY <1>3 DEF Holding
<1> QED
  BY <1>1, <1>2, <1>3, <1>4, KeepsRing DEF IndInv

LEMMA RingStep == IndInv /\ [Next]_vars => RingInv'
<1> SUFFICES ASSUME IndInv, [Next]_vars PROVE RingInv'
  OBVIOUS
<1>1. ASSUME NEW p \in Producers,
             (\E v \in Values : PushCall(p, v)) \/ InPush(p) \/ SpuriousWake(p)
      PROVE  RingInv'
  BY <1>1, QuietPush, TakeTicketRing, LoadSeqRing, PublishRing DEF InPush
<1>2. CASE Consumer \/ UNCHANGED vars
  BY <1>2, QuietPop, FreeRing DEF Consumer
<1> QED
  BY <1>1, <1>2 DEF Next

-----------------------------------------------------------------------------
(* What the consumer relies on while it is in pop().                       *)
LEMMA TakesStep == IndInv /\ [Next]_vars => TakesPublished'
<1> SUFFICES ASSUME IndInv, [Next]_vars PROVE TakesPublished'
  OBVIOUS
<1>1. ASSUME UNCHANGED <<head, tail, seq, cpc>> PROVE TakesPublished'
  BY <1>1 DEF IndInv, TakesPublished, Published, Ticket, Front
<1>2. ASSUME NEW p \in Producers,
             (\E v \in Values : PushCall(p, v)) \/ InPush(p) \/ SpuriousWake(p)
      PROVE  TakesPublished'
  <2>1. CASE TakeTicket(p)
    <3>1. UNCHANGED <<tail, seq, cpc>>
      BY <2>1 DEF TakeTicket, cvars
    <3>2. Sub(head', tail) = Sub(head, tail) + 1 /\ head' \in Positions
          /\ Sub(head, tail) \in Nat /\ tail \in Positions
      BY <2>1, RoomForTicket, Overrun, FrontFacts
    <3>3. head' # tail
      BY <3>2, DistanceZero
    <3> QED
      BY <3>1, <3>3 DEF IndInv, TakesPublished, Published, Ticket, Front
  <2>2. CASE PushPublish(p)
    <3>1. UNCHANGED <<head, tail, cpc>>
      BY <2>2 DEF PushPublish, cvars
    <3> QED
      BY <2>2, <3>1, PublishRing DEF IndInv, TakesPublished
  <2>3. CASE \/ \E v \in Values : PushCall(p, v)
             \/ PushFull(p)
             \/ PushRoom(p)
             \/ LoadSeq(p)
             \/ Wait(p)
             \/ PushWrite(p)
             \/ SpuriousWake(p)
    BY <1>1, <2>3 DEF PushCall, PushFull, PushRoom, LoadSeq, Wait, PushWrite, SpuriousWake,
                      shared, cvars
  <2> QED
    BY <1>2, <2>1, <2>2, <2>3 DEF InPush
<1>3. CASE PopReady
  <2>1. Front = tail /\ Front' = tail /\ tail \in Positions
    BY <1>3, FrontFacts DEF PopReady, Front, shared
  <2>2. Ticket(0) = tail /\ Ticket(0)' = tail
    BY <2>1, AddZero DEF Ticket
  <2> QED
    BY <1>3, <2>2 DEF PopReady, TakesPublished, Published, shared
<1>4. CASE PopRead
  BY <1>4 DEF PopRead, IndInv, TakesPublished, Published, Ticket, Front, shared
<1>5. CASE PopFree
  BY <1>5, FreeRing DEF PopFree, TakesPublished
<1>6. CASE PopNotify
  BY <1>6 DEF PopNotify, IndInv, TakesPublished, shared
<1>7. CASE PopEmpty \/ PopStoreTail
  BY <1>7 DEF PopEmpty, PopStoreTail, IndInv, TakesPublished, Published, Ticket, Front, shared
<1>8. CASE UNCHANGED vars
  BY <1>1, <1>8 DEF vars, shared, cvars
<1> QED
  BY <1>2, <1>3, <1>4, <1>5, <1>6, <1>7, <1>8 DEF Next, Consumer

-----------------------------------------------------------------------------
(* Steps by which nobody who has drawn a late ticket comes into a position *)
(* to draw another.                                                        *)
LEMMA KeepsDraws ==
  ASSUME IndInv, head' = head, tail' = tail,
         \A p \in Producers, k \in LateTickets : Draws(p, k) => Draws(p, k)'
  PROVE  DifferentDrawers'
<1>1. PICK d \in Injection(LateTickets, Producers) : \A k \in LateTickets : Draws(d[k], k)
  BY DEF IndInv, DifferentDrawers
<1>2. d \in [LateTickets -> Producers] /\ LateTickets' = LateTickets
  BY <1>1 DEF Injection, LateTickets
<1>3. \A k \in LateTickets : Draws(d[k], k)'
  BY <1>1, <1>2
<1> QED
  BY <1>1, <1>2, <1>3 DEF DifferentDrawers

LEMMA PushDraws ==
  ASSUME IndInv, NEW p \in Producers,
         \/ \E v \in Values : PushCall(p, v)
         \/ PushFull(p)
         \/ PushRoom(p)
         \/ LoadSeq(p)
         \/ Wait(p)
         \/ PushWrite(p)
         \/ PushPublish(p)
         \/ SpuriousWake(p)
  PROVE  DifferentDrawers'
<1>1. UNCHANGED <<head, tail>>
  BY DEF PushCall, PushFull, PushRoom, LoadSeq, Wait, PushWrite, PushPublish,
         SpuriousWake, shared
<1>2. ASSUME NEW q \in Producers \ {p}, NEW k, Draws(q, k) PROVE Draws(q, k)'
  <2>1. ppc'[q] = ppc[q] /\ pos'[q] = pos[q] /\ cur_head'[q] = cur_head[q]
    BY DEF PushCall, PushFull, PushRoom, LoadSeq, Wait, PushWrite, PushPublish,
           SpuriousWake, Return, Goto, IndInv, TypeOK
  <2> QED
    BY <1>1, <1>2, <2>1 DEF Draws, Holding
<1>3. ASSUME NEW k \in LateTickets, Draws(p, k) PROVE Draws(p, k)'
  <2>1. k < Sub(head, tail) /\ k >= BufSize - 1 /\ k \in Int
    BY Overrun, Constants DEF LateTickets
  <2>2. CASE \E v \in Values : PushCall(p, v)
    BY <1>1, <2>1, <2>2 DEF PushCall, Goto, Draws, IndInv, TypeOK
  <2>3. CASE PushFull(p) \/ PushPublish(p)
    BY <2>3 DEF PushFull, PushPublish, Return, Goto, Draws, IndInv, TypeOK
  <2>4. CASE PushRoom(p)
    <3>1. Sub(cur_head[p], tail) < BufSize /\ Sub(cur_head[p], tail) > k
      BY <1>3, <2>4 DEF PushRoom, Draws, Holding
    <3>2. Sub(cur_head[p], tail) \in Nat
      BY SubNat DEF IndInv, TypeOK
    <3> QED
      BY <2>1, <3>1, <3>2, Constants
  <2>5. CASE LoadSeq(p) \/ Wait(p) \/ PushWrite(p) \/ SpuriousWake(p)
    <3>1. p \in Holding /\ p \in Holding' /\ pos' = pos
      BY <2>5 DEF LoadSeq, Wait, PushWrite, SpuriousWake, Goto, Holding, IndInv, TypeOK
    <3> QED
      BY <1>1, <1>3, <3>1 DEF Draws, Holding
  <2> QED
    BY <2>2, <2>3, <2>4, <2>5
<1> QED
  BY <1>1, <1>2, <1>3, KeepsDraws

LEMMA TicketDraws ==
  ASSUME IndInv, NEW p \in Producers, TakeTicket(p)
  PROVE  DifferentDrawers'
<1>1. PICK d \in Injection(LateTickets, Producers) : \A k \in LateTickets : Draws(d[k], k)
  BY DEF IndInv, DifferentDrawers
<1>2. PICK n : n = Sub(head, tail)
  OBVIOUS
<1>3. PICK e : e = [k \in BufSize - 1 .. n |-> IF k = n THEN p ELSE d[k]]
  OBVIOUS
<1>4. /\ ppc[p] = "ticket" /\ tail' = tail
      /\ ppc' = [ppc EXCEPT ![p] = "load_seq"]
      /\ pos' = [pos EXCEPT ![p] = head]
      /\ cur_head' = cur_head
  BY DEF TakeTicket, Goto
<1>5. e \in Injection(BufSize - 1 .. n, Producers)
  BY <1>2, <1>3, <1>1, <1>4, OneMore
<1>6. LateTickets' = BufSize - 1 .. n /\ n \in Nat
  BY <1>2, <1>4, RoomForTicket, Overrun DEF LateTickets
<1>7. ASSUME NEW k \in BufSize - 1 .. n PROVE Draws(e[k], k)'
  <2>1. CASE k = n
    <3>1. p \in Holding' /\ pos'[p] = head
      BY <1>4 DEF Holding, IndInv, TypeOK
    <3>2. head = Add(tail, n)
      BY <1>2, FrontFacts, AddSub
    <3>3. e[k] = p
      BY <1>3, <2>1
    <3> QED
      BY <1>4, <2>1, <3>1, <3>2, <3>3 DEF Draws, Holding
  <2>2. CASE k # n
    <3>1. k \in LateTickets
      BY <1>2, <1>6, <2>2, Constants DEF LateTickets
    <3>2. e[k] = d[k] /\ d[k] \in Producers /\ Draws(d[k], k)
      BY <1>3, <1>1, <2>2, <3>1 DEF Injection
    <3>3. d[k] # p
      BY <1>4, <3>2 DEF Draws, Holding
    <3>4. /\ ppc'[d[k]] = ppc[d[k]] /\ pos'[d[k]] = pos[d[k]]
          /\ cur_head'[d[k]] = cur_head[d[k]]
      BY <1>4, <3>2, <3>3 DEF IndInv, TypeOK
    <3> QED
      BY <1>4, <3>2, <3>4 DEF Draws, Holding
  <2> QED
    BY <2>1, <2>2
<1> QED
  BY <1>5, <1>6, <1>7 DEF DifferentDrawers

(* When tail moves on, the late tickets begin one later.                   *)
LEMMA StoreDraws ==
  ASSUME IndInv, PopStoreTail
  PROVE  DifferentDrawers'
<1>1. PICK d \in Injection(LateTickets, Producers) : \A k \in LateTickets : Draws(d[k], k)
  BY DEF IndInv, DifferentDrawers
<1>2. UNCHANGED <<head, ppc, pos, cur_head>> /\ tail' = Add(tail, 1) /\ head # tail
  BY DEF PopStoreTail, pvars, IndInv, TakesPublished
<1>3. /\ head \in Positions /\ tail \in Positions /\ tail' \in Positions
      /\ Sub(head, tail) \in Nat /\ Sub(head, tail) > 0
  BY <1>2, FrontFacts, NextDiffers, DistanceZero
<1>4. Sub(head, tail) < WordSize
  BY Overrun, Constants
<1> DEFINE n == Sub(head, tail)
<1>5. Sub(head', tail') = n - 1
  BY <1>2, <1>3, SubStep
<1>6. /\ LateTickets = BufSize - 1 .. n - 1 /\ LateTickets' = BufSize - 1 .. (n - 1) - 1
      /\ n \in Nat /\ BufSize \in Nat /\ BufSize >= 2 /\ WordSize \in Nat /\ n < WordSize
  BY <1>3, <1>4, <1>5, Constants DEF LateTickets
<1> HIDE DEF n
<1>7. PICK e : e = [k \in LateTickets' |-> d[k + 1]]
  OBVIOUS
<1>8. \A k \in LateTickets' : k \in Int /\ k + 1 \in LateTickets /\ k + 1 < WordSize /\ k >= 0
  BY <1>6
<1>9. e \in Injection(LateTickets', Producers)
  <2>1. d \in [LateTickets -> Producers] /\ \A a, b \in LateTickets : d[a] = d[b] => a = b
    BY <1>1 DEF Injection, IsInjective
  <2>2. e \in [LateTickets' -> Producers]
    BY <1>7, <1>8, <2>1
  <2>3. ASSUME NEW a \in LateTickets', NEW b \in LateTickets', e[a] = e[b] PROVE a = b
    <3>1. a + 1 = b + 1
      BY <1>7, <1>8, <2>1, <2>3
    <3> QED
      BY <1>8, <3>1
  <2> QED
    BY <2>2, <2>3 DEF Injection, IsInjective
<1>10. ASSUME NEW k \in LateTickets' PROVE Draws(e[k], k)'
  <2>1. e[k] = d[k + 1] /\ d[k + 1] \in Producers /\ Draws(d[k + 1], k + 1)
    BY <1>7, <1>1, <1>8 DEF Injection
  <2>2. k \in Nat /\ k + 1 < WordSize
    BY <1>8
  <2>3. Add(tail', k) = Add(tail, k + 1)
    BY <1>2, <1>3, <2>2, AddSuccessor
  <2> DEFINE p == d[k + 1]
  <2>4. CASE ppc[p] = "load_tail" /\ Sub(cur_head[p], tail) > k + 1
    <3>1. cur_head[p] \in Positions
      BY <2>1 DEF IndInv, TypeOK
    <3>2. Sub(cur_head[p], tail) \in Nat /\ Sub(cur_head[p], tail) > 0
      BY <1>3, <2>2, <2>4, <3>1, DistanceZero
    <3>3. Sub(cur_head[p], tail') = Sub(cur_head[p], tail) - 1
      BY <1>2, <1>3, <3>1, <3>2, SubStep
    <3>4. Sub(cur_head[p], tail') > k
      BY <2>2, <2>4, <3>2, <3>3
    <3> QED
      BY <1>2, <2>1, <2>4, <3>4 DEF Draws
  <2>5. CASE (p \in Holding /\ pos[p] = Add(tail, k + 1)) \/ ppc[p] = "idle"
    BY <1>2, <2>1, <2>3, <2>5 DEF Draws, Holding
  <2> QED
    BY <2>1, <2>4, <2>5 DEF Draws
<1> QED
  BY <1>9, <1>10 DEF DifferentDrawers

LEMMA DrawsStep == IndInv /\ [Next]_vars => DifferentDrawers'
<1> SUFFICES ASSUME IndInv, [Next]_vars PROVE DifferentDrawers'
  OBVIOUS
<1>1. ASSUME NEW p \in Producers,
             (\E v \in Values : PushCall(p, v)) \/ InPush(p) \/ SpuriousWake(p)
      PROVE  DifferentDrawers'
  BY <1>1, PushDraws, TicketDraws DEF InPush
<1>2. CASE PopEmpty \/ PopReady \/ PopRead \/ PopFree \/ PopNotify \/ UNCHANGED vars
  <2>1. UNCHANGED <<head, tail, pos, cur_head>>
    BY <1>2 DEF PopEmpty, PopReady, PopRead, PopFree, PopNotify, shared, pvars, vars
  <2>2. ASSUME NEW q \in Producers
        PROVE  ppc'[q] = ppc[q] \/ (ppc[q] = "blocked" /\ ppc'[q] = "wait")
    <3>1. CASE PopNotify
      BY <3>1 DEF PopNotify, Eligible, IndInv, TypeOK
    <3> QED
      BY <1>2, <3>1 DEF PopEmpty, PopReady, PopRead, PopFree, pvars, vars
  <2>3. ASSUME NEW q \in Producers, NEW k, Draws(q, k) PROVE Draws(q, k)'
    BY <2>1, <2>2, <2>3 DEF Draws, Holding
  <2> QED
    BY <2>1, <2>3, KeepsDraws
<1> QED
  BY <1>1, <1>2, StoreDraws DEF Next, Consumer

-----------------------------------------------------------------------------
(* The invariant holds in every reachable state of push() and pop().       *)
THEOREM Inductive == Spec => []IndInv
<1>1. IndInv /\ [Next]_vars => IndInv'
  BY TypeStep, RingStep, TakesStep, DrawsStep DEF IndInv
<1> QED
  BY InitInv, <1>1, PTL DEF Spec

(* Every variable keeps its type.                                          *)
THEOREM TypeCorrect == Spec => []TypeOK
<1>1. IndInv => TypeOK
  BY DEF IndInv
<1> QED
  BY <1>1, Inductive, PTL

(* Although a ticket is drawn after the check and not with it, tickets     *)
(* overrun the ring by less than the number of producers, for any number.  *)
THEOREM OverrunBoundedAlways == Spec => []OverrunBounded
<1>1. IndInv => OverrunBounded
  BY Overrun DEF OverrunBounded
<1> QED
  BY <1>1, Inductive, PTL

(* For every ring and any number of producers, the accesses to a slot      *)
(* never meet, which is what makes push() and pop() safe without a lock.   *)
THEOREM NoDataRaceAlways == Spec => []NoDataRace
<1>1. IndInv => NoDataRace
  <2> SUFFICES ASSUME IndInv, NEW p \in Producers, ppc[p] = "write"
               PROVE  /\ cpc = "read" => Slot(pos[p]) # Slot(tail)
                      /\ \A q \in Producers \ {p} :
                           ppc[q] = "write" => Slot(pos[p]) # Slot(pos[q])
    BY DEF NoDataRace
  <2>1. ASSUME cpc = "read" PROVE Slot(pos[p]) # Slot(tail)
    <3>1. Published(0) /\ Front = tail /\ tail \in Positions
      BY <2>1, FrontFacts DEF IndInv, TakesPublished, Front
    <3>2. Ticket(0) = tail /\ 0 \in Slots
      BY <3>1, AddZero, Constants DEF Ticket, Slots
    <3> QED
      BY <3>1, <3>2, WritesApart
  <2> QED
    BY <2>1, WritesApart
<1> QED
  BY <1>1, Inductive, PTL

(* A producer waits because its slot showed another sequence number.       *)
WaitsForSlot ==
  \A p \in Producers : ppc[p] \in {"wait", "blocked"} => seq_val[p] # pos[p]

LEMMA WaitsStep == TypeOK /\ WaitsForSlot /\ [Next]_vars => WaitsForSlot'
<1> SUFFICES ASSUME TypeOK, WaitsForSlot, [Next]_vars, NEW q \in Producers,
                    ppc'[q] \in {"wait", "blocked"}
             PROVE  seq_val'[q] # pos'[q]
  BY DEF WaitsForSlot
<1>1. ASSUME NEW p \in Producers, NEW v \in Values, PushCall(p, v)
      PROVE  seq_val'[q] # pos'[q]
  BY <1>1 DEF TypeOK, WaitsForSlot, PushCall, Goto
<1>2. ASSUME NEW p \in Producers, PushFull(p) \/ PushPublish(p)
      PROVE  seq_val'[q] # pos'[q]
  BY <1>2 DEF TypeOK, WaitsForSlot, PushFull, PushPublish, Return, Goto
<1>3. ASSUME NEW p \in Producers, PushRoom(p) \/ TakeTicket(p) \/ PushWrite(p)
      PROVE  seq_val'[q] # pos'[q]
  BY <1>3 DEF TypeOK, WaitsForSlot, PushRoom, TakeTicket, PushWrite, Goto
<1>4. ASSUME NEW p \in Producers, LoadSeq(p) \/ Wait(p) \/ SpuriousWake(p)
      PROVE  seq_val'[q] # pos'[q]
  BY <1>4 DEF TypeOK, WaitsForSlot, LoadSeq, Wait, SpuriousWake, Goto
<1>5. CASE Consumer \/ UNCHANGED vars
  BY <1>5 DEF TypeOK, WaitsForSlot, Consumer, PopEmpty, PopReady, PopRead, PopFree, PopNotify,
              PopStoreTail, Eligible, vars, pvars
<1> QED
  BY <1>1, <1>2, <1>3, <1>4, <1>5 DEF Next, InPush

(* The slot the consumer gives back waits for one ticket, and with at most *)
(* BufSize + 1 producers nobody holds a later ticket of the same slot.     *)
LEMMA SlotOwner ==
  ASSUME IndInv, Cardinality(Producers) <= BufSize + 1, cpc = "notify",
         NEW p \in Holding, pos[p] = Add(tail, BufSize)
  PROVE  /\ seq[Slot(tail)] = pos[p]
         /\ Slot(pos[p]) = Slot(tail)
         /\ \A q \in Holding : Slot(pos[q]) = Slot(tail) => q = p
<1> DEFINE k == BufSize - 1
<1>1. /\ k \in Slots /\ k \in Positions /\ k \in Nat /\ k + 1 = BufSize /\ BufSize < WordSize
      /\ tail \in Positions
  BY Constants, FrontFacts DEF Slots, Positions
<1>2. pos[p] = Ticket(k)
  BY <1>1, AddSuccessor DEF Ticket, Front
<1>3. Sub(pos[p], Front) = k /\ Free(k)
  <2>1. Sub(pos[p], Front) = k
    BY <1>1, <1>2, TicketFacts
  <2> QED
    BY <1>1, <2>1, HeldIsFree, Constants
<1>4. Slot(pos[p]) = Slot(tail)
  BY <1>1, SlotRound
<1>5. seq[Slot(tail)] = pos[p]
  BY <1>2, <1>3, <1>4 DEF Free
<1>6. ASSUME NEW q \in Holding, Slot(pos[q]) = Slot(tail) PROVE q = p
  <2> DEFINE x == Sub(pos[q], Front)
  <2>1. pos[q] \in Positions
    BY DEF IndInv, TypeOK, Holding
  <2>2. x \in Nat /\ pos[q] = Ticket(x) /\ x < Drawn
    BY <2>1, Offsets DEF IndInv, RingInv, HeldTickets
  <2>3. Slot(Ticket(x)) = Slot(Ticket(k))
    BY <1>2, <1>4, <1>6, <2>2
  <2>4. Drawn \in Nat /\ Drawn + 1 < BufSize + Cardinality(Producers)
    BY Overrun, FrontFacts
  <2>5. x + 1 < 2 * BufSize
    BY <2>2, <2>4, Constants
  <2>6. x < BufSize
    <3> SUFFICES ASSUME x >= BufSize PROVE FALSE
      BY <2>2, Constants
    <3>1. PICK j \in Slots : j + BufSize <= x /\ Slot(Ticket(j)) = Slot(Ticket(x))
      BY <2>2, FrontFacts, SlotFound DEF Ticket
    <3>2. j # k
      BY <2>2, <2>5, <3>1, Constants DEF Slots
    <3> QED
      BY <1>1, <2>3, <3>1, <3>2, TicketSlots
  <2>7. x \in Slots
    BY <2>2, <2>6, Constants DEF Slots
  <2>8. x = k
    BY <1>1, <2>3, <2>7, TicketSlots
  <2> QED
    BY <1>2, <2>2, <2>8 DEF IndInv, RingInv, HeldTickets
<1> QED
  BY <1>4, <1>5, <1>6

(* notify_one() reaches the producer whose turn the slot is, for every     *)
(* ring and up to BufSize + 1 producers.                                   *)
THEOREM NotifyReachesOwnerAlways ==
  ASSUME Cardinality(Producers) <= BufSize + 1
  PROVE  Spec => NotifyReachesOwner
<1>1. Init => WaitsForSlot
  BY DEF Init, WaitsForSlot
<1>2. IndInv => TypeOK
  BY DEF IndInv
<1>3. IndInv /\ WaitsForSlot /\ [Next]_vars
        => [PopNotify => \A p \in Producers :
              (ppc[p] = "blocked" /\ pos[p] = Add(tail, BufSize)) => ppc'[p] # "blocked"]_vars
  <2> SUFFICES ASSUME IndInv, WaitsForSlot, PopNotify, NEW p \in Producers,
                      ppc[p] = "blocked", pos[p] = Add(tail, BufSize)
               PROVE  ppc'[p] # "blocked"
    OBVIOUS
  <2>1. PICK woken \in SUBSET Eligible :
          /\ woken = {} => Eligible = {}
          /\ ppc' = [q \in Producers |-> IF q \in woken THEN "wait" ELSE ppc[q]]
    BY DEF PopNotify
  <2>2. /\ seq[Slot(tail)] = pos[p] /\ Slot(pos[p]) = Slot(tail)
        /\ \A q \in Holding : Slot(pos[q]) = Slot(tail) => q = p
    BY SlotOwner DEF PopNotify, Holding
  <2>3. p \in Eligible
    BY <2>2 DEF Eligible, WaitsForSlot
  <2>4. Eligible \subseteq {p}
    BY <2>2 DEF Eligible, Holding
  <2>5. p \in woken
    BY <2>1, <2>3, <2>4
  <2> QED
    BY <2>1, <2>5
<1> QED
  BY <1>1, <1>2, <1>3, WaitsStep, Inductive, PTL DEF Spec, NotifyReachesOwner

-----------------------------------------------------------------------------
(* For the refinement: a ticket that has been drawn is published or held,  *)
(* and what is under way is the value pushed.                              *)
HeldOrPublished == \A k \in 0 .. Drawn - 1 :
                     \/ k \in Slots /\ Published(k)
                     \/ \E p \in Holding : pos[p] = Ticket(k)

InFlight == /\ \A p \in Producers : /\ ppc[p] # "idle" => u[p] \in Values
                                    /\ ppc[p] = "publish" => data[Slot(pos[p])] = u[p]
            /\ cpc = "free" => value = data[Slot(tail)]

RefInv == HeldOrPublished /\ InFlight

(* Steps by which no ticket is drawn, published or given back.             *)
LEMMA KeepsTickets ==
  ASSUME IndInv, RefInv, UNCHANGED <<head, seq, Front>>,
         \A p \in Holding : p \in Holding' /\ pos'[p] = pos[p]
  PROVE  HeldOrPublished'
<1>1. Drawn' = Drawn
  BY DEF Drawn
<1> SUFFICES ASSUME NEW k \in 0 .. Drawn - 1
             PROVE  \/ k \in Slots /\ seq[Slot(Ticket(k))] = Add(Ticket(k), 1)
                    \/ \E p \in Holding' : pos'[p] = Ticket(k)
  BY <1>1 DEF HeldOrPublished, Published, Ticket
<1> QED
  BY DEF RefInv, HeldOrPublished, Published

LEMMA TakeTicketKeeps ==
  ASSUME IndInv, RefInv, NEW p \in Producers, TakeTicket(p)
  PROVE  HeldOrPublished'
<1>1. /\ UNCHANGED <<seq, Front>>
      /\ p \notin Holding /\ p \in Holding' /\ pos'[p] = head
      /\ \A q \in Holding : q \in Holding' /\ pos'[q] = pos[q]
  BY DEF TakeTicket, Goto, Holding, cvars, Front, IndInv, TypeOK
<1>2. Drawn \in Nat /\ Drawn' = Drawn + 1 /\ head = Ticket(Drawn)
  BY <1>1, FrontFacts, RoomForTicket, Offsets DEF Drawn
<1> SUFFICES ASSUME NEW k \in 0 .. Drawn
             PROVE  \/ k \in Slots /\ seq[Slot(Ticket(k))] = Add(Ticket(k), 1)
                    \/ \E q \in Holding' : pos'[q] = Ticket(k)
  BY <1>1, <1>2 DEF HeldOrPublished, Published, Ticket
<1>3. CASE k = Drawn
  BY <1>1, <1>2, <1>3
<1>4. CASE k \in 0 .. Drawn - 1
  BY <1>1, <1>4 DEF RefInv, HeldOrPublished, Published
<1> QED
  BY <1>2, <1>3, <1>4

(* The ticket a producer gives up is published.                            *)
LEMMA PublishKeeps ==
  ASSUME IndInv, RefInv, NEW p \in Producers, PushPublish(p)
  PROVE  HeldOrPublished'
<1>1. PICK x : x = Sub(pos[p], Front)
  OBVIOUS
<1>2. /\ x \in Slots /\ pos[p] = Ticket(x)
      /\ UNCHANGED <<Front, Drawn>>
      /\ Published(x)'
      /\ \A k \in Slots \ {x} : Published(k)' <=> Published(k)
      /\ Holding' = Holding \ {p}
      /\ \A q \in Holding' : pos'[q] = pos[q]
  BY <1>1, PublishFacts
<1>3. ASSUME NEW k \in 0 .. Drawn - 1
      PROVE  \/ k \in Slots /\ Published(k)'
             \/ \E q \in Holding' : pos'[q] = Ticket(k)'
  <2>1. Ticket(k)' = Ticket(k)
    BY <1>2 DEF Ticket
  <2>2. CASE k = x
    BY <1>2, <2>2
  <2>3. CASE k # x /\ k \in Slots /\ Published(k)
    BY <1>2, <2>3
  <2>4. ASSUME NEW q \in Holding, pos[q] = Ticket(k), k # x
        PROVE  \E r \in Holding' : pos'[r] = Ticket(k)'
    <3>1. k \in Positions /\ x \in Positions
      BY <1>2, FrontFacts, SlotsArePositions, Constants DEF Positions
    <3>2. q # p
      BY <1>2, <2>4, <3>1, TicketFacts
    <3> QED
      BY <1>2, <2>1, <2>4, <3>2
  <2> QED
    BY <2>2, <2>3, <2>4 DEF RefInv, HeldOrPublished
<1> QED
  BY <1>2, <1>3 DEF HeldOrPublished

(* The tickets after the first keep their slots.                           *)
LEMMA FreeKeeps ==
  ASSUME IndInv, RefInv, PopFree
  PROVE  HeldOrPublished'
<1>1. /\ Drawn \in Nat /\ Drawn < WordSize /\ Drawn' = Drawn - 1
      /\ UNCHANGED <<Holding, pos>>
      /\ BufSize \in Nat
  BY FrontFacts, FreeFacts, Constants
<1>2. ASSUME NEW k \in 0 .. Drawn - 2
      PROVE  \/ k \in Slots /\ Published(k)'
             \/ \E q \in Holding : pos[q] = Ticket(k)'
  <2>1. k \in Nat /\ k + 1 \in 0 .. Drawn - 1 /\ k + 1 < WordSize /\ k + 1 # 0
    BY <1>1, Constants
  <2>2. Ticket(k)' = Ticket(k + 1)
    BY <2>1, FreeFacts
  <2>3. CASE k + 1 \in Slots /\ Published(k + 1)
    <3>1. k + 1 \in Slots \ {0} /\ k \in Slots
      BY <1>1, <2>1, <2>3 DEF Slots
    <3>2. seq'[Slot(Ticket(k + 1))] = seq[Slot(Ticket(k + 1))]
      BY <3>1, FreeFacts
    <3> QED
      BY <2>2, <2>3, <3>1, <3>2 DEF Published
  <2> QED
    BY <2>1, <2>2, <2>3 DEF RefInv, HeldOrPublished
<1>3. 0 .. Drawn' - 1 = 0 .. Drawn - 2
  BY <1>1
<1> QED
  BY <1>1, <1>2, <1>3 DEF HeldOrPublished

LEMMA HeldOrPublishedStep == IndInv /\ RefInv /\ [Next]_vars => HeldOrPublished'
<1> SUFFICES ASSUME IndInv, RefInv, [Next]_vars PROVE HeldOrPublished'
  OBVIOUS
<1>1. ASSUME NEW p \in Producers,
             \/ \E v \in Values : PushCall(p, v)
             \/ PushFull(p)
             \/ PushRoom(p)
             \/ LoadSeq(p)
             \/ Wait(p)
             \/ PushWrite(p)
             \/ SpuriousWake(p)
      PROVE  HeldOrPublished'
  <2>1. UNCHANGED <<head, seq, Front>>
    BY <1>1 DEF PushCall, PushFull, PushRoom, LoadSeq, Wait, PushWrite, SpuriousWake,
                shared, cvars, Front
  <2>2. \A q \in Holding : q \in Holding' /\ pos'[q] = pos[q]
    BY <1>1 DEF PushCall, PushFull, PushRoom, LoadSeq, Wait, PushWrite, SpuriousWake,
                Return, Goto, Holding, IndInv, TypeOK
  <2> QED
    BY <2>1, <2>2, KeepsTickets
<1>2. CASE PopEmpty \/ PopReady \/ PopRead \/ PopNotify \/ PopStoreTail \/ UNCHANGED vars
  <2>1. UNCHANGED <<head, seq, pos, Front>>
    BY <1>2 DEF PopEmpty, PopReady, PopRead, PopNotify, PopStoreTail, shared, pvars, cvars,
                vars, Front
  <2>2. Holding \subseteq Holding'
    <3>1. CASE PopNotify
      BY <3>1 DEF PopNotify, Eligible, Holding, IndInv, TypeOK
    <3> QED
      BY <1>2, <3>1 DEF PopEmpty, PopReady, PopRead, PopStoreTail, pvars, vars, Holding
  <2> QED
    BY <2>1, <2>2, KeepsTickets
<1> QED
  BY <1>1, <1>2, TakeTicketKeeps, PublishKeeps, FreeKeeps DEF Next, InPush, Consumer

LEMMA InFlightStep == IndInv /\ RefInv /\ [Next]_vars => InFlight'
<1> SUFFICES ASSUME IndInv, RefInv, [Next]_vars PROVE InFlight'
  OBVIOUS
<1> USE DEF IndInv, TypeOK, RefInv, InFlight
<1>1. ASSUME NEW p \in Producers,
             \/ \E v \in Values : PushCall(p, v)
             \/ PushFull(p) \/ PushRoom(p) \/ TakeTicket(p) \/ LoadSeq(p) \/ Wait(p)
             \/ PushPublish(p) \/ SpuriousWake(p)
      PROVE  InFlight'
  BY <1>1 DEF PushCall, PushFull, PushRoom, TakeTicket, LoadSeq, Wait, PushPublish,
              SpuriousWake, Return, Goto, shared, cvars
<1>2. ASSUME NEW p \in Producers, PushWrite(p) PROVE InFlight'
  <2>1. /\ ppc[p] = "write" /\ ppc' = [ppc EXCEPT ![p] = "publish"]
        /\ data' = [data EXCEPT ![Slot(pos[p])] = u[p]]
        /\ UNCHANGED <<u, pos, cpc, value, tail>>
    BY <1>2 DEF PushWrite, Goto, cvars
  <2>2. /\ Slot(pos[p]) \in Slots
        /\ \A q \in Producers \ {p} : ppc[q] = "publish" => Slot(pos[q]) # Slot(pos[p])
    BY <2>1, WritesApart
  <2>3. ASSUME cpc = "free" PROVE Slot(tail) # Slot(pos[p])
    <3>1. Published(0) /\ Front = tail /\ tail \in Positions
      BY <2>3, FrontFacts DEF TakesPublished, Front
    <3>2. Ticket(0) = tail /\ 0 \in Slots
      BY <3>1, AddZero, Constants DEF Ticket, Slots
    <3> QED
      BY <2>1, <3>1, <3>2, WritesApart
  <2> QED
    BY <2>1, <2>2, <2>3
<1>3. CASE PopEmpty \/ PopReady \/ PopRead \/ PopFree \/ PopStoreTail \/ UNCHANGED vars
  BY <1>3 DEF PopEmpty, PopReady, PopRead, PopFree, PopStoreTail, shared, pvars, cvars, vars
<1>4. CASE PopNotify
  BY <1>4 DEF PopNotify, Eligible, shared
<1> QED
  BY <1>1, <1>2, <1>3, <1>4 DEF Next, InPush, Consumer

LEMMA InitRef == Init => RefInv
<1> SUFFICES ASSUME Init PROVE RefInv
  OBVIOUS
<1>1. Drawn = 0
  <2>1. 0 \in Positions
    BY Constants DEF Positions
  <2> QED
    BY <2>1, SubForm DEF Init, Front, Drawn
<1> QED
  BY <1>1 DEF Init, RefInv, HeldOrPublished, InFlight

-----------------------------------------------------------------------------
(* The places of the abstract queue, ticket by ticket.                     *)
PlaceSet == [by : Producers \cup {Nobody}, value : Values \cup {Blank}]

PlacesKnown ==
  /\ Places \in Seq(PlaceSet)
  /\ Len(Places) = Drawn
  /\ \A k \in 0 .. Drawn - 1 :
       /\ Published(k) =>
            /\ k \in Slots
            /\ Places[k + 1] = [by |-> Nobody, value |-> data[Slot(Ticket(k))]]
       /\ ~Published(k) =>
            \E p \in Holding : pos[p] = Ticket(k)
       /\ \A p \in Holding : pos[p] = Ticket(k) =>
            /\ ~Published(k)
            /\ Places[k + 1] = [by |-> p, value |-> u[p]]

(* The slot of a ticket that is not served yet is not published for it.    *)
LEMMA NotServedYet ==
  ASSUME IndInv, NEW k \in 0 .. Drawn - 1, k \notin Slots
  PROVE  ~Published(k)
<1>1. /\ k \in Nat /\ k >= BufSize /\ k \in Positions /\ k + 1 \in Positions
      /\ BufSize \in Nat /\ BufSize >= 2
  BY FrontFacts, Constants DEF Slots, Positions
<1>2. PICK j \in Slots : j + BufSize <= k /\ Slot(Ticket(j)) = Slot(Ticket(k))
  BY <1>1, SlotFound, FrontFacts DEF Ticket
<1>3. j \in Int /\ j \in Positions /\ j + 1 \in Positions /\ j + 1 < k + 1
  BY <1>1, <1>2, Constants DEF Positions, Slots
<1>4. seq[Slot(Ticket(k))] = Ticket(j) \/ seq[Slot(Ticket(k))] = Ticket(j + 1)
  BY <1>2, <1>3, NextTicket DEF IndInv, RingInv, SlotsInTurn, Free, Published
<1>5. /\ Add(Ticket(k), 1) = Ticket(k + 1)
      /\ Sub(Ticket(k + 1), Front) = k + 1
      /\ Sub(Ticket(j), Front) = j /\ Sub(Ticket(j + 1), Front) = j + 1
  BY <1>1, <1>3, NextTicket, TicketFacts
<1> QED
  BY <1>3, <1>4, <1>5 DEF Published

LEMMA PlacesAre == IndInv /\ RefInv => PlacesKnown
<1> SUFFICES ASSUME IndInv, RefInv PROVE PlacesKnown
  OBVIOUS
<1>1. Drawn \in Nat /\ Drawn < WordSize
  BY FrontFacts
<1>2. Places = [i \in 1 .. Drawn |-> Place(Ticket(i - 1))]
  BY DEF Places, Drawn, Ticket
<1>3. ASSUME NEW k \in 0 .. Drawn - 1, Published(k)
      PROVE  k \in Slots /\ Place(Ticket(k)) = [by |-> Nobody, value |-> data[Slot(Ticket(k))]]
  BY <1>3, NotServedYet DEF Place, Published
<1>4. ASSUME NEW k \in 0 .. Drawn - 1, NEW p \in Holding, pos[p] = Ticket(k)
      PROVE  ~Published(k) /\ Place(Ticket(k)) = [by |-> p, value |-> u[p]]
  <2>1. ~Published(k)
    <3>1. CASE k \in Slots
      <4>1. Free(k) /\ Ticket(k) \in Positions
        BY <1>4, <3>1, TicketFacts, SlotsArePositions DEF IndInv, RingInv, SlotsInTurn
      <4> QED
        BY <4>1, NextDiffers DEF Free, Published
    <3> QED
      BY <3>1, NotServedYet
  <2>2. (CHOOSE q \in Holding : pos[q] = Ticket(k)) = p
    BY <1>4 DEF IndInv, RingInv, HeldTickets
  <2> QED
    BY <2>1, <2>2 DEF Place, Published
<1>5. ASSUME NEW k \in 0 .. Drawn - 1, ~Published(k)
      PROVE  \E p \in Holding : pos[p] = Ticket(k)
  BY <1>5 DEF RefInv, HeldOrPublished
<1>6. ASSUME NEW k \in 0 .. Drawn - 1 PROVE Place(Ticket(k)) \in PlaceSet
  <2>1. CASE Published(k)
    <3>1. Slot(Ticket(k)) \in Slots
      BY <1>3, <2>1, TicketSlots
    <3> QED
      BY <1>3, <2>1, <3>1 DEF PlaceSet, IndInv, TypeOK
  <2>2. CASE ~Published(k)
    BY <1>4, <1>5, <2>2 DEF PlaceSet, Holding, IndInv, TypeOK
  <2> QED
    BY <2>1, <2>2
<1>7. ASSUME NEW i \in 1 .. Drawn PROVE Place(Ticket(i - 1)) \in PlaceSet
  <2>1. i - 1 \in 0 .. Drawn - 1
    BY <1>1
  <2> QED
    BY <1>6, <2>1
<1>8. Places \in [1 .. Drawn -> PlaceSet]
  BY <1>2, <1>7
<1>9. Places \in Seq(PlaceSet) /\ Len(Places) = Drawn
  BY <1>1, <1>8
<1>10. ASSUME NEW k \in 0 .. Drawn - 1 PROVE Places[k + 1] = Place(Ticket(k))
  <2>1. k + 1 \in 1 .. Drawn /\ (k + 1) - 1 = k
    BY <1>1
  <2> QED
    BY <1>2, <2>1
<1> QED
  BY <1>3, <1>4, <1>5, <1>9, <1>10 DEF PlacesKnown

(* Steps by which no ticket changes hands.                                 *)
LEMMA SamePlaces ==
  ASSUME IndInv, PlacesKnown, PlacesKnown', UNCHANGED <<head, seq, Front>>,
         \A k \in Slots : Published(k) => data'[Slot(Ticket(k))] = data[Slot(Ticket(k))],
         \A p \in Holding : p \in Holding' /\ pos'[p] = pos[p] /\ u'[p] = u[p]
  PROVE  Places' = Places
<1>1. Drawn' = Drawn /\ Drawn \in Nat
  BY FrontFacts DEF Drawn
<1>2. ASSUME NEW k \in 0 .. Drawn - 1 PROVE Places'[k + 1] = Places[k + 1]
  <2>1. Ticket(k)' = Ticket(k)
    BY DEF Ticket
  <2>2. CASE Published(k)
    <3>1. Published(k)'
      BY <2>1, <2>2 DEF Published
    <3>2. Places'[k + 1] = [by |-> Nobody, value |-> data'[Slot(Ticket(k))]]
      BY <1>1, <2>1, <3>1 DEF PlacesKnown
    <3> QED
      BY <2>2, <3>2 DEF PlacesKnown
  <2>3. CASE ~Published(k)
    <3>1. PICK p \in Holding : pos[p] = Ticket(k)
      BY <2>3 DEF PlacesKnown
    <3>2. p \in Holding' /\ pos'[p] = Ticket(k)' /\ u'[p] = u[p]
      BY <2>1, <3>1
    <3>3. Places'[k + 1] = [by |-> p, value |-> u'[p]]
      BY <1>1, <3>2 DEF PlacesKnown
    <3>4. Places[k + 1] = [by |-> p, value |-> u[p]]
      BY <3>1 DEF PlacesKnown
    <3> QED
      BY <3>2, <3>3, <3>4
  <2> QED
    BY <2>2, <2>3
<1>3. /\ Places \in Seq(PlaceSet) /\ Places' \in Seq(PlaceSet)
      /\ Len(Places) = Drawn /\ Len(Places') = Drawn
  BY <1>1 DEF PlacesKnown, PlaceSet
<1>4. ASSUME NEW i \in 1 .. Len(Places) PROVE Places[i] = Places'[i]
  <2>1. i - 1 \in 0 .. Drawn - 1 /\ (i - 1) + 1 = i
    BY <1>1, <1>3
  <2> QED
    BY <1>2, <2>1
<1> QED
  BY <1>3, <1>4, SeqEqual

(* A producer without ticket has no place to fill.                         *)
LEMMA HolderOfPlace ==
  ASSUME IndInv, PlacesKnown, NEW p \in Producers, p \notin Holding
  PROVE  \A i \in 1 .. Len(Places) : Places[i].by # p
<1>1. Drawn \in Nat /\ Len(Places) = Drawn /\ Nobody # p
  BY FrontFacts, MpscAssumption DEF PlacesKnown
<1> SUFFICES ASSUME NEW i \in 1 .. Len(Places) PROVE Places[i].by # p
  OBVIOUS
<1>2. i - 1 \in 0 .. Drawn - 1 /\ (i - 1) + 1 = i
  BY <1>1
<1> DEFINE k == i - 1
<1>3. CASE Published(k)
  <2>1. Places[k + 1] = [by |-> Nobody, value |-> data[Slot(Ticket(k))]]
    BY <1>2, <1>3 DEF PlacesKnown
  <2> QED
    BY <1>1, <1>2, <2>1
<1>4. CASE ~Published(k)
  <2>1. PICK q \in Holding : pos[q] = Ticket(k)
    BY <1>2, <1>4 DEF PlacesKnown
  <2>2. Places[k + 1] = [by |-> q, value |-> u[q]]
    BY <1>2, <2>1 DEF PlacesKnown
  <2> QED
    BY <1>2, <2>1, <2>2
<1> QED
  BY <1>3, <1>4

(* Steps the callers of the queue do not see.                              *)
LEMMA Invisible ==
  ASSUME IndInv, PlacesKnown, PlacesKnown',
         \/ \E p \in Producers, v \in Values : PushCall(p, v)
         \/ \E p \in Producers : \/ PushRoom(p) \/ LoadSeq(p) \/ Wait(p) \/ PushWrite(p)
                                \/ SpuriousWake(p)
         \/ PopReady \/ PopRead \/ PopNotify \/ PopStoreTail
         \/ UNCHANGED vars
  PROVE  UNCHANGED Tickets!vars
<1>1. UNCHANGED <<head, seq, Front, push_ret, Returned>>
  BY DEF PushCall, PushRoom, LoadSeq, Wait, PushWrite, SpuriousWake, PopReady, PopRead,
         PopNotify, PopStoreTail, vars, shared, pvars, cvars, Front, Returned
<1>2. \A p \in Holding : p \in Holding' /\ pos'[p] = pos[p] /\ u'[p] = u[p]
  <2>1. CASE PopNotify
    BY <2>1 DEF PopNotify, Eligible, Holding, IndInv, TypeOK
  <2> QED
    BY <2>1 DEF PushCall, PushRoom, LoadSeq, Wait, PushWrite, SpuriousWake, PopReady, PopRead,
                PopStoreTail, vars, pvars, Goto, Holding, IndInv, TypeOK
<1>3. ASSUME NEW k \in Slots, Published(k)
      PROVE  data'[Slot(Ticket(k))] = data[Slot(Ticket(k))]
  <2>1. ASSUME NEW p \in Producers, PushWrite(p)
        PROVE  data'[Slot(Ticket(k))] = data[Slot(Ticket(k))]
    <3>1. ppc[p] = "write" /\ data' = [data EXCEPT ![Slot(pos[p])] = u[p]]
      BY <2>1 DEF PushWrite
    <3>2. Slot(pos[p]) # Slot(Ticket(k)) /\ Slot(Ticket(k)) \in Slots
      BY <1>3, <3>1, WritesApart, TicketSlots
    <3> QED
      BY <3>1, <3>2 DEF IndInv, TypeOK
  <2> QED
    BY <2>1 DEF PushCall, PushRoom, LoadSeq, Wait, SpuriousWake, PopReady, PopRead,
                PopNotify, PopStoreTail, vars, shared
<1>4. Places' = Places
  BY <1>1, <1>2, <1>3, SamePlaces
<1> QED
  BY <1>1, <1>4 DEF Tickets!vars

(* The answers "full" and "nothing there".                                 *)
LEMMA FullRefuses ==
  ASSUME IndInv, PlacesKnown, PlacesKnown', NEW p \in Producers, PushFull(p)
  PROVE  Tickets!Refuse(p)
<1>1. /\ UNCHANGED <<head, seq, data, Front, Returned>>
      /\ push_ret' = [push_ret EXCEPT ![p] = FALSE]
      /\ p \notin Holding
  BY DEF PushFull, Return, shared, cvars, Front, Returned, Holding
<1>2. \A q \in Holding : q \in Holding' /\ pos'[q] = pos[q] /\ u'[q] = u[q]
  BY <1>1 DEF PushFull, Return, Goto, Holding, IndInv, TypeOK
<1>3. Places' = Places
  BY <1>1, <1>2, SamePlaces
<1> QED
  BY <1>1, <1>3, HolderOfPlace DEF Tickets!Refuse

LEMMA EmptyIsNothing ==
  ASSUME IndInv, PlacesKnown, PlacesKnown', PopEmpty
  PROVE  Tickets!Nothing
<1>1. /\ UNCHANGED <<head, seq, data, pos, u, ppc, Front, Holding, push_ret>>
      /\ Returned' = NullOpt
      /\ Front = tail /\ seq[Slot(tail)] # Add(tail, 1)
  BY DEF PopEmpty, shared, pvars, Front, Returned, Holding
<1>2. Places' = Places
  BY <1>1, SamePlaces
<1>3. ASSUME Places # <<>> PROVE Head(Places).by # Nobody
  <2>1. Drawn \in Nat /\ Len(Places) = Drawn /\ Places \in Seq(PlaceSet) /\ tail \in Positions
    BY FrontFacts DEF PlacesKnown
  <2>2. 0 \in 0 .. Drawn - 1
    BY <1>3, <2>1
  <2>3. ~Published(0)
    BY <1>1, <2>1, AddZero DEF Published, Ticket
  <2>4. PICK p \in Holding : pos[p] = Ticket(0)
    BY <2>2, <2>3 DEF PlacesKnown
  <2>5. Places[0 + 1] = [by |-> p, value |-> u[p]]
    BY <2>2, <2>4 DEF PlacesKnown
  <2> QED
    BY <2>4, <2>5, MpscAssumption DEF Head, Holding
<1> QED
  BY <1>1, <1>2, <1>3 DEF Tickets!Nothing

(* Drawing a ticket claims the last place.                                 *)
LEMMA TicketClaims ==
  ASSUME IndInv, InFlight, PlacesKnown, PlacesKnown', NEW p \in Producers, TakeTicket(p)
  PROVE  Tickets!Claim(p, u[p]) /\ u[p] \in Values
<1>1. /\ UNCHANGED <<seq, data, u, push_ret, Front, Returned>>
      /\ ppc[p] = "ticket" /\ u[p] \in Values
      /\ p \notin Holding /\ p \in Holding' /\ pos'[p] = head
      /\ \A q \in Holding : q \in Holding' /\ pos'[q] = pos[q]
  BY DEF TakeTicket, Goto, Holding, cvars, Front, Returned, InFlight, IndInv, TypeOK
<1>2. Drawn \in Nat /\ Drawn' = Drawn + 1 /\ head = Ticket(Drawn)
  BY <1>1, FrontFacts, RoomForTicket, Offsets DEF Drawn
<1>3. Len(Places) < BufSize + Cardinality(Producers) - 1
  <2>1. PICK d \in Injection(LateTickets, Producers) : \A k \in LateTickets : Draws(d[k], k)
    BY DEF IndInv, DifferentDrawers
  <2>2. PICK e : e = [k \in BufSize - 1 .. Sub(head, tail) |->
                        IF k = Sub(head, tail) THEN p ELSE d[k]]
    OBVIOUS
  <2>3. Sub(head, tail) + 1 < BufSize + Cardinality(Producers)
    BY <1>1, <2>1, <2>2, OneMore
  <2>4. Drawn <= Sub(head, tail) /\ Sub(head, tail) \in Nat
    BY FrontFacts, Overrun
  <2> QED
    BY <1>2, <2>3, <2>4, Constants DEF PlacesKnown
<1> DEFINE new == [by |-> p, value |-> u[p]]
<1>4. Places'[Drawn + 1] = new
  <2>1. PICK n : n = Drawn
    OBVIOUS
  <2>2. n \in 0 .. Drawn' - 1 /\ pos'[p] = Ticket(n)'
    BY <1>1, <1>2, <2>1 DEF Ticket
  <2>3. Places'[n + 1] = [by |-> p, value |-> u'[p]]
    BY <1>1, <2>2 DEF PlacesKnown
  <2> QED
    BY <1>1, <2>1, <2>3
<1>5. ASSUME NEW k \in 0 .. Drawn - 1 PROVE Places'[k + 1] = Places[k + 1]
  <2>1. Ticket(k)' = Ticket(k) /\ k \in 0 .. Drawn' - 1
    BY <1>1, <1>2 DEF Ticket
  <2>2. CASE Published(k)
    <3>1. Published(k)'
      BY <1>1, <2>1, <2>2 DEF Published
    <3>2. Places'[k + 1] = [by |-> Nobody, value |-> data'[Slot(Ticket(k))]]
      BY <2>1, <3>1 DEF PlacesKnown
    <3> QED
      BY <1>1, <2>2, <3>2 DEF PlacesKnown
  <2>3. CASE ~Published(k)
    <3>1. PICK q \in Holding : pos[q] = Ticket(k)
      BY <2>3 DEF PlacesKnown
    <3>2. q \in Holding' /\ pos'[q] = Ticket(k)'
      BY <1>1, <2>1, <3>1
    <3>3. Places'[k + 1] = [by |-> q, value |-> u'[q]]
      BY <2>1, <3>2 DEF PlacesKnown
    <3> QED
      BY <1>1, <3>1, <3>3 DEF PlacesKnown
  <2> QED
    BY <2>2, <2>3
<1>6. /\ Places \in Seq(PlaceSet) /\ Places' \in Seq(PlaceSet) /\ new \in PlaceSet
      /\ Len(Places) = Drawn /\ Len(Places') = Drawn + 1
  BY <1>1, <1>2 DEF PlacesKnown, PlaceSet
<1> HIDE DEF new
<1>7. /\ Append(Places, new) \in Seq(PlaceSet) /\ Len(Append(Places, new)) = Drawn + 1
      /\ \A i \in 1 .. Drawn : Append(Places, new)[i] = Places[i]
      /\ Append(Places, new)[Drawn + 1] = new
  BY <1>6, AppendProperties
<1>8. ASSUME NEW i \in 1 .. Len(Places') PROVE Places'[i] = Append(Places, new)[i]
  <2>1. CASE i = Drawn + 1
    BY <1>4, <1>7, <2>1
  <2>2. CASE i # Drawn + 1
    <3>1. i - 1 \in 0 .. Drawn - 1 /\ (i - 1) + 1 = i /\ i \in 1 .. Drawn
      BY <1>2, <1>6, <2>2
    <3> QED
      BY <1>5, <1>7, <3>1
  <2> QED
    BY <2>1, <2>2
<1>9. Places' = Append(Places, new)
  BY <1>6, <1>7, <1>8, SeqEqual
<1>10. \A i \in 1 .. Len(Places) : Places[i].by # p
  BY <1>1, HolderOfPlace
<1>11. Places' = Append(Places, [by |-> p, value |-> u[p]]) /\ UNCHANGED <<push_ret, Returned>>
  BY <1>1, <1>9 DEF new
<1>12. Tickets!Cardinality(Producers) = Cardinality(Producers)
  BY Zenon DEF Tickets!Cardinality, Cardinality
<1> QED
  BY <1>1, <1>3, <1>10, <1>11, <1>12 DEF Tickets!Claim

(* Publishing fills the producer's place.                                  *)
LEMMA PublishFills ==
  ASSUME IndInv, InFlight, PlacesKnown, PlacesKnown', NEW p \in Producers, PushPublish(p)
  PROVE  Tickets!Fill(p)
<1>1. PICK x : x = Sub(pos[p], Front)
  OBVIOUS
<1>2. /\ x \in Slots /\ x < Drawn /\ pos[p] = Ticket(x)
      /\ UNCHANGED <<Front, Drawn>>
      /\ \A k \in Slots : Ticket(k)' = Ticket(k)
      /\ Published(x)'
      /\ \A k \in Slots \ {x} : Published(k)' <=> Published(k)
      /\ p \in Holding /\ Holding' = Holding \ {p}
      /\ \A q \in Holding' : pos'[q] = pos[q]
  BY <1>1, PublishFacts
<1>3. /\ data' = data /\ Returned' = Returned
      /\ push_ret' = [push_ret EXCEPT ![p] = TRUE]
      /\ data[Slot(pos[p])] = u[p]
      /\ \A q \in Producers \ {p} : u'[q] = u[q]
  BY DEF PushPublish, Return, cvars, Returned, InFlight, IndInv, TypeOK
<1>4. /\ Drawn \in Nat /\ x \in 0 .. Drawn - 1 /\ x + 1 \in 1 .. Len(Places)
      /\ x + 1 <= BufSize /\ Len(Places) = Drawn /\ Len(Places') = Drawn
      /\ Places \in Seq(PlaceSet) /\ Places' \in Seq(PlaceSet)
  BY <1>2, FrontFacts, Constants DEF PlacesKnown, Slots, PlaceSet
<1>5. Places[x + 1] = [by |-> p, value |-> u[p]]
  BY <1>2, <1>4 DEF PlacesKnown
<1>6. Places'[x + 1] = [by |-> Nobody, value |-> u[p]]
  BY <1>2, <1>3, <1>4 DEF PlacesKnown
<1>7. ASSUME NEW k \in 0 .. Drawn - 1, k # x PROVE Places'[k + 1] = Places[k + 1]
  <2>1. Ticket(k)' = Ticket(k)
    BY <1>2 DEF Ticket
  <2>2. CASE Published(k)
    <3>1. k \in Slots
      BY <2>2 DEF PlacesKnown
    <3>2. Published(k)'
      BY <1>2, <1>7, <2>2, <3>1
    <3>3. Places'[k + 1] = [by |-> Nobody, value |-> data'[Slot(Ticket(k))]]
      BY <1>2, <2>1, <3>2 DEF PlacesKnown
    <3> QED
      BY <1>3, <2>2, <3>3 DEF PlacesKnown
  <2>3. CASE ~Published(k)
    <3>1. PICK q \in Holding : pos[q] = Ticket(k)
      BY <2>3 DEF PlacesKnown
    <3>2. q # p
      <4>1. k \in Positions /\ x \in Positions
        BY <1>4, FrontFacts, Constants DEF Positions
      <4> QED
        BY <1>2, <1>7, <3>1, <4>1, TicketFacts
    <3>3. q \in Producers /\ q \in Holding' /\ pos'[q] = Ticket(k)'
      BY <1>2, <2>1, <3>1, <3>2 DEF Holding
    <3>4. Places'[k + 1] = [by |-> q, value |-> u'[q]]
      BY <1>2, <3>3 DEF PlacesKnown
    <3>5. Places[k + 1] = [by |-> q, value |-> u[q]]
      BY <3>1 DEF PlacesKnown
    <3> QED
      BY <1>3, <3>2, <3>3, <3>4, <3>5
  <2> QED
    BY <2>2, <2>3
<1> DEFINE filled == [Places EXCEPT ![x + 1].by = Nobody]
<1>8. /\ filled \in Seq(PlaceSet) /\ Len(filled) = Drawn
      /\ filled[x + 1] = [by |-> Nobody, value |-> u[p]]
      /\ \A i \in 1 .. Drawn : i # x + 1 => filled[i] = Places[i]
  <2>1. Places \in [1 .. Drawn -> PlaceSet]
    BY <1>4
  <2>2. [Places[x + 1] EXCEPT !.by = Nobody] = [by |-> Nobody, value |-> u[p]]
    BY <1>5
  <2>3. [by |-> Nobody, value |-> u[p]] \in PlaceSet
    BY DEF PlaceSet, IndInv, TypeOK
  <2>4. filled = [Places EXCEPT ![x + 1] = [by |-> Nobody, value |-> u[p]]]
    BY <2>2
  <2> HIDE DEF filled
  <2>5. filled \in [1 .. Drawn -> PlaceSet]
    BY <2>1, <2>3, <2>4
  <2> QED
    BY <1>4, <2>1, <2>4, <2>5
<1> HIDE DEF filled
<1>9. ASSUME NEW i \in 1 .. Len(Places') PROVE Places'[i] = filled[i]
  <2>1. i - 1 \in 0 .. Drawn - 1 /\ (i - 1) + 1 = i /\ i \in 1 .. Drawn
        /\ (i - 1 = x <=> i = x + 1)
    BY <1>4
  <2> QED
    BY <1>6, <1>7, <1>8, <2>1
<1>10. Places' = filled
  BY <1>4, <1>8, <1>9, SeqEqual
<1>11. Places[x + 1].by = p
  BY <1>5
<1> QED
  BY <1>3, <1>4, <1>10, <1>11 DEF Tickets!Fill, filled

(* Giving a slot back takes the first place.                               *)
LEMMA FreeTakes ==
  ASSUME IndInv, InFlight, PlacesKnown, PlacesKnown', PopFree
  PROVE  Tickets!Take
<1>1. /\ Drawn \in Nat /\ Drawn < WordSize /\ 0 < Drawn /\ Drawn' = Drawn - 1
      /\ Front = tail /\ Ticket(0) = tail /\ Published(0)
      /\ UNCHANGED <<Holding, pos, u, push_ret, data, value>>
      /\ BufSize \in Nat
  BY FrontFacts, FreeFacts, Constants
<1>2. Returned' = data[Slot(tail)]
  BY <1>1 DEF PopFree, Returned, InFlight
<1>3. /\ Places \in Seq(PlaceSet) /\ Places' \in Seq(PlaceSet)
      /\ Len(Places) = Drawn /\ Len(Places') = Drawn - 1
  BY <1>1 DEF PlacesKnown, PlaceSet
<1>4. Places # <<>> /\ Head(Places) = [by |-> Nobody, value |-> data[Slot(tail)]]
  <2>1. 0 \in 0 .. Drawn - 1
    BY <1>1
  <2>2. Places[0 + 1] = [by |-> Nobody, value |-> data[Slot(tail)]]
    BY <1>1, <2>1 DEF PlacesKnown
  <2> QED
    BY <1>1, <1>3, <2>2 DEF Head
<1>5. ASSUME NEW k \in 0 .. Drawn - 2 PROVE Places'[k + 1] = Places[(k + 1) + 1]
  <2>1. /\ k \in Nat /\ k \in 0 .. Drawn' - 1 /\ k + 1 \in 0 .. Drawn - 1
        /\ k + 1 < WordSize /\ k + 1 # 0
    BY <1>1, Constants
  <2>2. Ticket(k)' = Ticket(k + 1)
    BY <2>1, FreeFacts
  <2>3. CASE Published(k + 1)
    <3>1. k + 1 \in Slots \ {0}
      BY <2>1, <2>3 DEF PlacesKnown
    <3>2. seq'[Slot(Ticket(k + 1))] = seq[Slot(Ticket(k + 1))]
      BY <3>1, FreeFacts
    <3>3. Published(k)'
      BY <2>2, <2>3, <3>2 DEF Published
    <3>4. Places'[k + 1] = [by |-> Nobody, value |-> data'[Slot(Ticket(k + 1))]]
      BY <2>1, <2>2, <3>3 DEF PlacesKnown
    <3> QED
      BY <1>1, <2>1, <2>3, <3>4 DEF PlacesKnown
  <2>4. CASE ~Published(k + 1)
    <3>1. PICK q \in Holding : pos[q] = Ticket(k + 1)
      BY <2>1, <2>4 DEF PlacesKnown
    <3>2. q \in Holding' /\ pos'[q] = Ticket(k)'
      BY <1>1, <2>2, <3>1
    <3>3. Places'[k + 1] = [by |-> q, value |-> u'[q]]
      BY <2>1, <3>2 DEF PlacesKnown
    <3> QED
      BY <1>1, <2>1, <3>1, <3>3 DEF PlacesKnown
  <2> QED
    BY <2>3, <2>4
<1>6. /\ Tail(Places) \in Seq(PlaceSet) /\ Len(Tail(Places)) = Drawn - 1
      /\ \A i \in 1 .. Drawn - 1 : Tail(Places)[i] = Places[i + 1]
  BY <1>3, <1>4, HeadTailProperties
<1>7. ASSUME NEW i \in 1 .. Len(Places') PROVE Places'[i] = Tail(Places)[i]
  <2>1. i - 1 \in 0 .. Drawn - 2 /\ (i - 1) + 1 = i /\ i \in 1 .. Drawn - 1
    BY <1>1, <1>3
  <2> QED
    BY <1>5, <1>6, <2>1
<1>8. Places' = Tail(Places)
  BY <1>3, <1>6, <1>7, SeqEqual
<1> QED
  BY <1>1, <1>2, <1>4, <1>8 DEF Tickets!Take

(* Step by step, the ring behaves as the queue of places.                  *)
LEMMA StepRefines ==
  IndInv /\ RefInv /\ PlacesKnown /\ PlacesKnown' /\ [Next]_vars
    => [Tickets!Next]_(Tickets!vars)
<1> SUFFICES ASSUME IndInv, RefInv, PlacesKnown, PlacesKnown', [Next]_vars
             PROVE  [Tickets!Next]_(Tickets!vars)
  OBVIOUS
<1>1. ASSUME NEW p \in Producers, PushFull(p) \/ TakeTicket(p) \/ PushPublish(p)
      PROVE  Tickets!Next
  <2>1. CASE PushFull(p)
    BY <2>1, FullRefuses DEF Tickets!Next
  <2>2. CASE TakeTicket(p)
    BY <2>2, TicketClaims DEF Tickets!Next, RefInv
  <2>3. CASE PushPublish(p)
    BY <2>3, PublishFills DEF Tickets!Next, RefInv
  <2> QED
    BY <1>1, <2>1, <2>2, <2>3
<1>2. CASE PopEmpty \/ PopFree
  BY <1>2, EmptyIsNothing, FreeTakes DEF Tickets!Next, RefInv
<1>3. CASE \/ \E p \in Producers, v \in Values : PushCall(p, v)
           \/ \E p \in Producers : \/ PushRoom(p) \/ LoadSeq(p) \/ Wait(p) \/ PushWrite(p)
                                  \/ SpuriousWake(p)
           \/ PopReady \/ PopRead \/ PopNotify \/ PopStoreTail
           \/ UNCHANGED vars
  BY <1>3, Invisible
<1> QED
  BY <1>1, <1>2, <1>3 DEF Next, InPush, Consumer

LEMMA InitTickets == Init => Tickets!Init
<1> SUFFICES ASSUME Init PROVE Tickets!Init
  OBVIOUS
<1>1. PlacesKnown
  BY InitInv, InitRef, PlacesAre
<1>2. Drawn = 0
  <2>1. 0 \in Positions
    BY Constants DEF Positions
  <2> QED
    BY <2>1, SubForm DEF Init, Front, Drawn
<1>3. Places = <<>>
  BY <1>1, <1>2, EmptySeq DEF PlacesKnown
<1> QED
  BY <1>3 DEF Init, Returned, Tickets!Init

(* lockfree::MPSC is a queue of claimed places, for every ring, any number *)
(* of producers and all interleavings: a value takes its place when its    *)
(* producer draws a ticket, may be taken once it is published, and comes   *)
(* out once, unchanged and in its turn.                                    *)
THEOREM Refinement == Spec => ImplementsTicketQueue
<1>1. Init => RefInv /\ Tickets!Init
  BY InitRef, InitTickets
<1>2. IndInv /\ RefInv /\ [Next]_vars => RefInv'
  BY HeldOrPublishedStep, InFlightStep DEF RefInv
<1>3. IndInv /\ RefInv => PlacesKnown
  BY PlacesAre
<1>4. IndInv /\ RefInv /\ PlacesKnown /\ PlacesKnown' /\ [Next]_vars
        => [Tickets!Next]_(Tickets!vars)
  BY StepRefines
<1> QED
  BY <1>1, <1>2, <1>3, <1>4, Inductive, PTL DEF Spec, ImplementsTicketQueue, Tickets!Spec
=============================================================================
