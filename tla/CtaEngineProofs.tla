-------------------------- MODULE CtaEngineProofs --------------------------
(***************************************************************************)
(* Proofs about CtaEngine, for any strategies and symbols and any ring.    *)
(* With any number of workers: the types, that the engine is a user of the *)
(* MPSC channel (so that what is proved of it holds here), that nothing    *)
(* runs once start() has returned or undoes stop(), and that an order with *)
(* a ticket keeps its place.  With one worker: that _position is the sum   *)
(* of the orders, and that what is sent is pairs of OPEN and CLOSE.        *)
(***************************************************************************)
EXTENDS CtaEngine, FiniteSetTheorems, SequenceTheorems, TLAPS

(* The channel with what is proved of it.                                  *)
Ring == INSTANCE MpscProofs WITH
          Producers <- Workers, Values <- Orders, Blank <- NoOrder

(* A worker is inside push() exactly while it is "pushing", the            *)
(* order-push thread inside pop() only at "pop"; there is nothing to do    *)
(* before start() is called and once it has returned.                      *)
CallInv ==
  /\ \A w \in Workers : /\ wpc[w] = "pushing" <=> ppc[w] # "idle"
                        /\ wpc[w] \in {"store", "return", "push"} => order[w] \in Orders
                        /\ wpc[w] # "idle" => task[w] \in Symbols
  /\ pusher # "pop" => cpc = "idle"
  /\ main = "off" => pusher = "off"
  /\ main \in {"off", "join", "returned"} =>
       /\ \A sym \in Symbols : tasks[sym] = 0
       /\ \A w \in Workers : wpc[w] = "idle"

(* What is in the channel and what comes out of it are orders.             *)
QueueInv == /\ \A i \in 1 .. Len(Ring!Places) : Ring!Places[i].value \in Orders
            /\ Ring!Returned \in Orders \cup {NullOpt}
            /\ cpc \in {"notify", "store_tail"} => value \in Orders
            /\ pusher = "send" => pop_ret # NullOpt

LocalTypes == /\ stg_map \in [Symbols -> Seq(Strategies)]
              /\ running \in BOOLEAN
              /\ main \in {"off", "join", "check", "poll", "wait_for_all", "returned"}
              /\ received \in 0 .. MaxTicks
              /\ tasks \in [Symbols -> Nat]
              /\ wpc \in [Workers -> {"idle", "strategies", "store", "return", "push", "pushing"}]
              /\ task \in [Workers -> Symbols \cup {NoTask}]
              /\ nxt \in [Workers -> Nat \ {0}]
              /\ order \in [Workers -> Orders \cup {NoOrder}]
              /\ position \in [Strategies -> {-1, 0, 1}]
              /\ member \in [Strategies -> SUBSET Orders]
              /\ pusher \in {"off", "check", "pop", "send", "exited"}

(* The orders sent, those the channel refused, and what came after stop(). *)
HistoryTypes == /\ sent \in Seq(Orders) /\ dropped \in Seq(Orders)
                /\ stopped \in BOOLEAN
                /\ late \in [ticks : Nat, orders : Nat]

RingInv == Ring!IndInv /\ Ring!RefInv

EngineInv == LocalTypes /\ CallInv /\ RingInv /\ QueueInv /\ HistoryTypes

-----------------------------------------------------------------------------
(* The channel the engine uses and the channel the theorems are about are  *)
(* the same.                                                               *)
LEMMA ChannelConstants == Ring!RingAssumption /\ Ring!MpscAssumption
<1>1. Channel!IsFiniteSet(Workers) <=> Ring!IsFiniteSet(Workers)
  BY Zenon DEF Channel!IsFiniteSet, Ring!IsFiniteSet
<1>2. Channel!Cardinality(Workers) = Ring!Cardinality(Workers)
  BY Zenon DEF Channel!Cardinality, Ring!Cardinality
<1> QED
  BY <1>1, <1>2, ChannelAssumption
  DEF Channel!RingAssumption, Channel!MpscAssumption, Ring!RingAssumption,
      Ring!MpscAssumption

LEMMA SameInit == Channel!Init <=> Ring!Init
BY DEF Channel!Init, Ring!Init, Channel!Slots, Ring!Slots

LEMMA SameTypes == Channel!TypeOK <=> Ring!TypeOK
BY DEF Channel!TypeOK, Ring!TypeOK, Channel!Slots, Ring!Slots, Channel!Positions,
       Ring!Positions

LEMMA SamePush ==
  ASSUME NEW w
  PROVE  /\ \A v : Channel!PushCall(w, v) <=> Ring!PushCall(w, v)
         /\ Channel!PushFull(w) <=> Ring!PushFull(w)
         /\ Channel!PushRoom(w) <=> Ring!PushRoom(w)
         /\ Channel!TakeTicket(w) <=> Ring!TakeTicket(w)
         /\ Channel!LoadSeq(w) <=> Ring!LoadSeq(w)
         /\ Channel!Wait(w) <=> Ring!Wait(w)
         /\ Channel!PushWrite(w) <=> Ring!PushWrite(w)
         /\ Channel!PushPublish(w) <=> Ring!PushPublish(w)
         /\ Channel!InPush(w) <=> Ring!InPush(w)
         /\ Channel!SpuriousWake(w) <=> Ring!SpuriousWake(w)
<1> USE DEF Channel!Goto, Ring!Goto, Channel!Return, Ring!Return, Channel!shared, Ring!shared,
            Channel!cvars, Ring!cvars, Channel!Slot, Ring!Slot, Channel!Add, Ring!Add,
            Channel!Sub, Ring!Sub
<1>1. \A v : Channel!PushCall(w, v) <=> Ring!PushCall(w, v)
  BY DEF Channel!PushCall, Ring!PushCall
<1>2. Channel!PushFull(w) <=> Ring!PushFull(w)
  BY DEF Channel!PushFull, Ring!PushFull
<1>3. Channel!PushRoom(w) <=> Ring!PushRoom(w)
  BY DEF Channel!PushRoom, Ring!PushRoom
<1>4. Channel!TakeTicket(w) <=> Ring!TakeTicket(w)
  BY DEF Channel!TakeTicket, Ring!TakeTicket
<1>5. Channel!LoadSeq(w) <=> Ring!LoadSeq(w)
  BY DEF Channel!LoadSeq, Ring!LoadSeq
<1>6. Channel!Wait(w) <=> Ring!Wait(w)
  BY DEF Channel!Wait, Ring!Wait
<1>7. Channel!PushWrite(w) <=> Ring!PushWrite(w)
  BY DEF Channel!PushWrite, Ring!PushWrite
<1>8. Channel!PushPublish(w) <=> Ring!PushPublish(w)
  BY DEF Channel!PushPublish, Ring!PushPublish
<1>9. Channel!SpuriousWake(w) <=> Ring!SpuriousWake(w)
  BY DEF Channel!SpuriousWake, Ring!SpuriousWake
<1> QED
  BY <1>1, <1>2, <1>3, <1>4, <1>5, <1>6, <1>7, <1>8, <1>9 DEF Channel!InPush, Ring!InPush

LEMMA SamePop ==
  /\ Channel!PopEmpty <=> Ring!PopEmpty
  /\ Channel!PopReady <=> Ring!PopReady
  /\ Channel!PopRead <=> Ring!PopRead
  /\ Channel!PopFree <=> Ring!PopFree
  /\ Channel!PopNotify <=> Ring!PopNotify
  /\ Channel!PopStoreTail <=> Ring!PopStoreTail
  /\ Channel!Consumer <=> Ring!Consumer
<1> USE DEF Channel!shared, Ring!shared, Channel!pvars, Ring!pvars, Channel!Slot, Ring!Slot,
            Channel!Add, Ring!Add
<1>1. Channel!PopEmpty <=> Ring!PopEmpty
  BY DEF Channel!PopEmpty, Ring!PopEmpty
<1>2. Channel!PopReady <=> Ring!PopReady
  BY DEF Channel!PopReady, Ring!PopReady
<1>3. Channel!PopRead <=> Ring!PopRead
  BY DEF Channel!PopRead, Ring!PopRead
<1>4. Channel!PopFree <=> Ring!PopFree
  BY DEF Channel!PopFree, Ring!PopFree
<1>5. Channel!PopNotify <=> Ring!PopNotify
  BY DEF Channel!PopNotify, Ring!PopNotify, Channel!Eligible, Ring!Eligible
<1>6. Channel!PopStoreTail <=> Ring!PopStoreTail
  BY DEF Channel!PopStoreTail, Ring!PopStoreTail
<1> QED
  BY <1>1, <1>2, <1>3, <1>4, <1>5, <1>6 DEF Channel!Consumer, Ring!Consumer

LEMMA SamePlaces == Channel!Places = Ring!Places /\ Channel!Places' = Ring!Places'
BY DEF Channel!Places, Ring!Places, Channel!Place, Ring!Place, Channel!Front, Ring!Front,
       Channel!Holding, Ring!Holding, Channel!Slot, Ring!Slot, Channel!Add, Ring!Add,
       Channel!Sub, Ring!Sub

LEMMA SameSteps == [Channel!Next]_(Channel!vars) <=> [Ring!Next]_(Ring!vars)
<1>1. Channel!Next <=> Ring!Next
  BY SamePush, SamePop DEF Channel!Next, Ring!Next
<1>2. Channel!vars = Ring!vars /\ Channel!vars' = Ring!vars'
  BY DEF Channel!vars, Ring!vars, Channel!shared, Ring!shared, Channel!pvars, Ring!pvars,
         Channel!cvars, Ring!cvars
<1> QED
  BY <1>1, <1>2

LEMMA SameSpec == Channel!Spec <=> Ring!Spec
BY SameInit, SameSteps, PTL DEF Channel!Spec, Ring!Spec

LEMMA SameQueueSpec == Channel!ImplementsTicketQueue <=> Ring!ImplementsTicketQueue
<1> USE DEF Channel!Returned, Ring!Returned
<1>1. Channel!Tickets!Init <=> Ring!Tickets!Init
  BY SamePlaces DEF Channel!Tickets!Init, Ring!Tickets!Init
<1>2. Channel!Tickets!Next <=> Ring!Tickets!Next
  <2>1. Channel!Tickets!Cardinality(Workers) = Ring!Tickets!Cardinality(Workers)
    BY Zenon DEF Channel!Tickets!Cardinality, Ring!Tickets!Cardinality
  <2> QED
  BY <2>1, SamePlaces DEF Channel!Tickets!Next, Ring!Tickets!Next, Channel!Tickets!Refuse, Ring!Tickets!Refuse,
    Channel!Tickets!Claim, Ring!Tickets!Claim, Channel!Tickets!Fill, Ring!Tickets!Fill,
    Channel!Tickets!Take, Ring!Tickets!Take, Channel!Tickets!Nothing, Ring!Tickets!Nothing
<1>3. /\ Channel!Tickets!vars = Ring!Tickets!vars
      /\ Channel!Tickets!vars' = Ring!Tickets!vars'
  BY SamePlaces DEF Channel!Tickets!vars, Ring!Tickets!vars
<1>4. [Channel!Tickets!Next]_(Channel!Tickets!vars) <=> [Ring!Tickets!Next]_(Ring!Tickets!vars)
  BY <1>2, <1>3
<1> QED
BY <1>1, <1>4, PTL DEF Channel!ImplementsTicketQueue, Ring!ImplementsTicketQueue, Channel!Tickets!Spec, Ring!Tickets!Spec

-----------------------------------------------------------------------------
(* What a step of the channel does to the calls.                           *)
LEMMA PushLocal ==
  ASSUME Channel!TypeOK, NEW w \in Workers, Channel!InPush(w) \/ Channel!SpuriousWake(w)
  PROVE  /\ ppc[w] # "idle"
         /\ Channel!SpuriousWake(w) => ppc'[w] # "idle"
         /\ \A x \in Workers \ {w} : ppc'[x] = ppc[x]
         /\ UNCHANGED <<cpc, value, pop_ret>>
BY DEF Channel!TypeOK, Channel!InPush, Channel!SpuriousWake, Channel!PushFull,
       Channel!PushRoom, Channel!TakeTicket, Channel!LoadSeq, Channel!Wait,
       Channel!PushWrite, Channel!PushPublish, Channel!Return, Channel!Goto, Channel!cvars

LEMMA PopLocal ==
  ASSUME Channel!TypeOK, Channel!Consumer
  PROVE  \A x \in Workers : ppc'[x] = "idle" <=> ppc[x] = "idle"
BY DEF Channel!TypeOK, Channel!Consumer, Channel!PopEmpty, Channel!PopReady,
       Channel!PopRead, Channel!PopFree, Channel!PopNotify, Channel!Eligible,
       Channel!PopStoreTail, Channel!pvars

LEMMA CallStep ==
  LocalTypes /\ CallInv /\ Channel!TypeOK /\ [Next]_vars => LocalTypes' /\ CallInv'
<1> SUFFICES ASSUME LocalTypes, CallInv, Channel!TypeOK, [Next]_vars
             PROVE  LocalTypes' /\ CallInv'
  OBVIOUS
<1> USE DEF LocalTypes, CallInv
<1>1. ASSUME NEW s \in Strategies, AddStrategy(s) PROVE LocalTypes' /\ CallInv'
  <2>1. SymbolOf[s] \in Symbols /\ Append(stg_map[SymbolOf[s]], s) \in Seq(Strategies)
    BY EngineAssumption, AppendProperties
  <2>2. stg_map' \in [Symbols -> Seq(Strategies)]
    BY <1>1, <2>1 DEF AddStrategy
  <2>3. UNCHANGED <<running, main, received, tasks, workers, channel, pusher>>
    BY <1>1 DEF AddStrategy
  <2>4. LocalTypes'
    BY <2>2, <2>3 DEF workers
  <2>5. CallInv'
    BY <2>3 DEF workers, channel
  <2> QED
    BY <2>4, <2>5
<1>2. CASE Start \/ Restart \/ Join \/ Stop
  <2>1. /\ UNCHANGED <<stg_map, received, tasks, wpc, task, nxt, order, position, member,
                       ppc, cpc>>
        /\ running' \in BOOLEAN
        /\ \/ UNCHANGED <<main, pusher>>
           \/ main = "returned" /\ main' = "join" /\ UNCHANGED pusher
           \/ main' = "check" /\ pusher' \in {"check", "exited"} /\ pusher # "pop"
    BY <1>2 DEF Start, Restart, Join, Stop, workers, channel
  <2> QED
    BY <2>1
<1>3. CASE Main
  <2>1. CASE CheckRunning \/ PollTimeout \/ WaitForAll
    BY <2>1 DEF CheckRunning, PollTimeout, WaitForAll, workers, channel
  <2>2. ASSUME NEW sym \in Symbols, PollTick(sym) PROVE LocalTypes' /\ CallInv'
    <3>1. tasks' \in [Symbols -> Nat]
      BY <2>2 DEF PollTick
    <3>2. main = "poll" /\ main' = "check" /\ received' \in 0 .. MaxTicks
      BY <2>2, EngineAssumption DEF PollTick
    <3>3. UNCHANGED <<stg_map, running, workers, ppc, cpc, pusher>>
      BY <2>2 DEF PollTick, channel
    <3> QED
      BY <3>1, <3>2, <3>3 DEF workers
  <2> QED
    BY <1>2, <1>3, <2>1, <2>2 DEF Main
<1>4. ASSUME NEW w \in Workers, Worker(w) \/ Unblocked(w)
      PROVE  LocalTypes' /\ CallInv'
  <2>1. CASE BeginTask(w)
    <3>1. PICK sym \in Symbols : /\ tasks[sym] > 0
                                 /\ task' = [task EXCEPT ![w] = sym]
                                 /\ tasks' = [tasks EXCEPT ![sym] = @ - 1]
      BY <2>1 DEF BeginTask
    <3>2. tasks' \in [Symbols -> Nat] /\ main \notin {"off", "join", "returned"}
      BY <3>1
    <3> QED
      BY <2>1, <3>1, <3>2 DEF BeginTask, channel
  <2>2. CASE EndTask(w)
    BY <2>2 DEF EndTask, channel
  <2>3. CASE OnTickNothing(w)
    BY <2>3 DEF OnTickNothing, channel
  <2>4. CASE OnTickDecide(w)
    BY <2>4 DEF OnTickDecide, channel, Decisions
  <2>5. CASE OnTickStore(w)
    <3>1. PositionAfter(order[w]) \in {-1, 0, 1}
      BY DEF PositionAfter
    <3>2. position' \in [Strategies -> {-1, 0, 1}]
      BY <2>5, <3>1 DEF OnTickStore
    <3>3. wpc' = [wpc EXCEPT ![w] = "return"] /\ wpc[w] = "store"
      BY <2>5 DEF OnTickStore
    <3>4. member' \in [Strategies -> SUBSET Orders]
      BY <2>5 DEF OnTickStore
    <3> QED
      BY <2>5, <3>2, <3>3, <3>4 DEF OnTickStore, channel
  <2>9. CASE OnTickReturn(w)
    <3>1. PICK o \in Orders : order' = [order EXCEPT ![w] = o]
      BY <2>9 DEF OnTickReturn, Copies
    <3>2. member' \in [Strategies -> SUBSET Orders]
      BY <2>9 DEF OnTickReturn
    <3> QED
      BY <2>9, <3>1, <3>2 DEF OnTickReturn, channel
  <2>6. CASE PushOrder(w)
    BY <2>6 DEF PushOrder, Channel!PushCall, Channel!Goto, Channel!cvars, Channel!TypeOK
  <2>7. CASE Pushing(w)
    <3>1. /\ \A x \in Workers \ {w} : ppc'[x] = ppc[x]
          /\ cpc' = cpc
      BY <2>7, PushLocal DEF Pushing
    <3>2. /\ wpc[w] = "pushing"
          /\ UNCHANGED <<running, main, stg_map, received, tasks, task, order, position,
                        member, pusher>>
      BY <2>7 DEF Pushing
    <3>3. CASE ppc'[w] = "idle"
      <4>1. wpc' = [wpc EXCEPT ![w] = "strategies"] /\ nxt' = [nxt EXCEPT ![w] = @ + 1]
        BY <2>7, <3>3 DEF Pushing
      <4>2. LocalTypes'
        BY <3>2, <4>1
      <4>3. CallInv'
        BY <3>1, <3>2, <3>3, <4>1
      <4> QED
        BY <4>2, <4>3
    <3>4. CASE ppc'[w] # "idle"
      <4>1. UNCHANGED <<wpc, nxt>>
        BY <2>7, <3>4 DEF Pushing
      <4>2. LocalTypes'
        BY <3>2, <4>1
      <4>3. CallInv'
        BY <3>1, <3>2, <3>4, <4>1
      <4> QED
        BY <4>2, <4>3
    <3> QED
      BY <3>3, <3>4
  <2>8. CASE Unblocked(w)
    <3>1. /\ ppc'[w] # "idle"
          /\ \A x \in Workers \ {w} : ppc'[x] = ppc[x]
          /\ cpc' = cpc
      BY <2>8, PushLocal DEF Unblocked
    <3> QED
      BY <2>8, <3>1 DEF Unblocked, workers
  <2> QED
    BY <1>4, <2>1, <2>2, <2>3, <2>4, <2>5, <2>6, <2>7, <2>8, <2>9
    DEF Worker
<1>5. CASE Pusher
  <2>1. CASE PusherCheck \/ PusherSend
    BY <2>1 DEF PusherCheck, PusherSend, workers, channel
  <2>2. CASE PusherPop
    BY <2>2, PopLocal DEF PusherPop, workers
  <2> QED
    BY <1>5, <2>1, <2>2 DEF Pusher
<1>6. CASE UNCHANGED vars
  BY <1>6 DEF vars, workers, channel
<1> QED
  BY <1>1, <1>2, <1>3, <1>4, <1>5, <1>6 DEF Next

(* The threads of the engine do to the channel what Mpsc lets them do.     *)
LEMMA ChannelStep == CallInv /\ [Next]_vars => [Channel!Next]_(Channel!vars)
<1> SUFFICES ASSUME CallInv, [Next]_vars PROVE [Channel!Next]_(Channel!vars)
  OBVIOUS
<1>1. ASSUME NEW w \in Workers, PushOrder(w) PROVE Channel!Next
  BY <1>1 DEF PushOrder, CallInv, Channel!Next
<1>2. ASSUME NEW w \in Workers, Pushing(w) \/ Unblocked(w) PROVE Channel!Next
  BY <1>2 DEF Pushing, Unblocked, Channel!Next
<1>3. CASE PusherPop
  BY <1>3 DEF PusherPop, Channel!Next
<1>4. CASE UNCHANGED channel
  BY <1>4 DEF channel, Channel!vars, Channel!shared, Channel!pvars, Channel!cvars
<1>5. \/ \E w \in Workers : PushOrder(w) \/ Pushing(w) \/ Unblocked(w)
      \/ PusherPop
      \/ UNCHANGED channel
  BY DEF Next, vars, Main, Worker, Pusher, AddStrategy, Start, Restart, Join, Stop, CheckRunning,
         PollTick, PollTimeout, WaitForAll, BeginTask, EndTask, OnTickNothing, OnTickDecide,
         OnTickStore, OnTickReturn, PusherCheck, PusherSend
<1> QED
  BY <1>1, <1>2, <1>3, <1>4, <1>5

-----------------------------------------------------------------------------
LEMMA PlacesAreKnown == RingInv => Ring!PlacesKnown
BY ChannelConstants, Ring!PlacesAre DEF RingInv

(* The channel's own invariants, and that it is a queue of places, step by *)
(* step.                                                                   *)
LEMMA RingStep ==
  RingInv /\ [Channel!Next]_(Channel!vars) =>
    /\ RingInv'
    /\ Ring!PlacesKnown /\ Ring!PlacesKnown'
    /\ [Ring!Tickets!Next]_(Ring!Tickets!vars)
<1>1. RingInv => Ring!PlacesKnown
  BY PlacesAreKnown
<1>2. RingInv /\ [Ring!Next]_(Ring!vars) => RingInv'
  BY ChannelConstants, Ring!TypeStep, Ring!RingStep, Ring!TakesStep, Ring!DrawsStep,
     Ring!HeldOrPublishedStep, Ring!InFlightStep
  DEF RingInv, Ring!IndInv, Ring!RefInv
<1>3. RingInv /\ Ring!PlacesKnown /\ Ring!PlacesKnown' /\ [Ring!Next]_(Ring!vars)
        => [Ring!Tickets!Next]_(Ring!Tickets!vars)
  BY ChannelConstants, Ring!StepRefines DEF RingInv
<1> QED
  BY <1>1, <1>2, <1>3, SameSteps, PTL

(* The orders in the channel, by ticket, and the steps that change them.   *)
Queued == [i \in 1 .. Len(Ring!Places) |-> Ring!Places[i].value]

LEMMA QueuedType ==
  ASSUME RingInv, QueueInv
  PROVE  Queued \in Seq(Orders) /\ Len(Queued) = Len(Ring!Places)
<1>1. Ring!Places \in Seq(Ring!PlaceSet)
  BY ChannelConstants, Ring!PlacesAre DEF RingInv, Ring!PlacesKnown
<1>2. Len(Ring!Places) \in Nat
  BY <1>1
<1>3. Queued \in [1 .. Len(Ring!Places) -> Orders]
  BY DEF Queued, QueueInv
<1> QED
  BY <1>2, <1>3

LEMMA QueuedKept ==
  ASSUME RingInv, RingInv',
         \/ UNCHANGED Ring!vars
         \/ Ring!PopEmpty \/ Ring!PopReady \/ Ring!PopRead \/ Ring!PopNotify
         \/ Ring!PopStoreTail
  PROVE  Queued' = Queued
<1>1. /\ Ring!IndInv /\ Ring!RefInv
      /\ Ring!PlacesKnown /\ Ring!PlacesKnown'
  <2>1. RingInv' => Ring!PlacesKnown'
    BY PlacesAreKnown, PTL
  <2> QED
    BY <2>1, PlacesAreKnown DEF RingInv
<1>2. CASE Ring!PopEmpty
  BY <1>1, <1>2, ChannelConstants, Ring!EmptyIsNothing DEF Ring!Tickets!Nothing, Queued
<1>3. CASE \/ UNCHANGED Ring!vars
           \/ Ring!PopReady \/ Ring!PopRead \/ Ring!PopNotify \/ Ring!PopStoreTail
  <2>1. UNCHANGED Ring!Tickets!vars
    BY <1>1, <1>3, ChannelConstants, Ring!Invisible
  <2> QED
    BY <2>1 DEF Ring!Tickets!vars, Queued
<1> QED
  BY <1>2, <1>3

LEMMA QueuedPushing ==
  ASSUME RingInv, RingInv', NEW w \in Workers,
         \/ \E v \in Orders : Ring!PushCall(w, v)
         \/ Ring!PushFull(w) \/ Ring!PushRoom(w) \/ Ring!LoadSeq(w) \/ Ring!Wait(w)
         \/ Ring!PushWrite(w) \/ Ring!PushPublish(w) \/ Ring!SpuriousWake(w)
  PROVE  Queued' = Queued
<1>1. /\ Ring!IndInv /\ Ring!RefInv
      /\ Ring!PlacesKnown /\ Ring!PlacesKnown'
      /\ Ring!Places \in Seq(Ring!PlaceSet)
  <2>1. RingInv' => Ring!PlacesKnown'
    BY PlacesAreKnown, PTL
  <2> QED
    BY <2>1, PlacesAreKnown DEF RingInv, Ring!PlacesKnown
<1>2. CASE Ring!PushPublish(w)
  <2>1. Ring!Tickets!Fill(w)
    BY <1>1, <1>2, ChannelConstants, Ring!PublishFills DEF Ring!RefInv
  <2>2. PICK i \in 1 .. Len(Ring!Places) :
          Ring!Places' = [Ring!Places EXCEPT ![i].by = Nobody]
    BY <2>1 DEF Ring!Tickets!Fill
  <2>3. /\ Len(Ring!Places') = Len(Ring!Places)
        /\ \A j \in 1 .. Len(Ring!Places) : Ring!Places'[j].value = Ring!Places[j].value
    BY <1>1, <2>2 DEF Ring!PlaceSet
  <2> QED
    BY <2>3 DEF Queued
<1>3. CASE Ring!PushFull(w)
  <2>1. Ring!Places' = Ring!Places
    BY <1>1, <1>3, ChannelConstants, Ring!FullRefuses DEF Ring!Tickets!Refuse
  <2> QED
    BY <2>1 DEF Queued
<1>4. CASE \/ \E v \in Orders : Ring!PushCall(w, v)
           \/ Ring!PushRoom(w) \/ Ring!LoadSeq(w) \/ Ring!Wait(w)
           \/ Ring!PushWrite(w) \/ Ring!SpuriousWake(w)
  <2>1. UNCHANGED Ring!Tickets!vars
    BY <1>1, <1>4, ChannelConstants, Ring!Invisible
  <2> QED
    BY <2>1 DEF Ring!Tickets!vars, Queued
<1> QED
  BY <1>2, <1>3, <1>4

LEMMA QueuedGrows ==
  ASSUME RingInv, RingInv', QueueInv, NEW w \in Workers, Ring!TakeTicket(w)
  PROVE  u[w] \in Orders /\ Queued' = Append(Queued, u[w])
<1>1. Ring!PlacesKnown
  BY PlacesAreKnown
<1>2. RingInv' => Ring!PlacesKnown'
  BY PlacesAreKnown, PTL
<1>3. Ring!Tickets!Claim(w, u[w]) /\ u[w] \in Orders
  BY <1>1, <1>2, ChannelConstants, Ring!TicketClaims DEF RingInv, Ring!RefInv
<1>4. /\ Ring!Places' = Append(Ring!Places, [by |-> w, value |-> u[w]])
      /\ Ring!Places \in Seq(Ring!PlaceSet)
  BY <1>1, <1>3 DEF Ring!Tickets!Claim, Ring!PlacesKnown
<1> QED
  BY <1>3, <1>4, QueuedType DEF Queued

LEMMA QueuedShrinks ==
  ASSUME RingInv, RingInv', QueueInv, Ring!PopFree
  PROVE  Queued # <<>> /\ value' = Head(Queued) /\ Queued' = Tail(Queued)
<1>1. Ring!PlacesKnown
  BY PlacesAreKnown
<1>2. RingInv' => Ring!PlacesKnown'
  BY PlacesAreKnown, PTL
<1>3. Ring!Tickets!Take
  BY <1>1, <1>2, ChannelConstants, Ring!FreeTakes DEF RingInv, Ring!RefInv
<1>4. /\ Ring!Places # <<>> /\ Ring!Places' = Tail(Ring!Places)
      /\ Ring!Returned' = Head(Ring!Places).value
      /\ Ring!Places \in Seq(Ring!PlaceSet)
  BY <1>1, <1>3 DEF Ring!Tickets!Take, Ring!PlacesKnown
<1>5. Ring!Returned' = value'
  BY DEF Ring!PopFree, Ring!Returned
<1> QED
  BY <1>4, <1>5, QueuedType DEF Queued

-----------------------------------------------------------------------------
(* What the order-push thread sends is an order.                           *)
LEMMA SendsOrder ==
  ASSUME CallInv, QueueInv, pusher = "send"
  PROVE  pop_ret \in Orders
BY DEF CallInv, QueueInv, Ring!Returned

LEMMA QueueStep ==
  CallInv /\ RingInv /\ QueueInv /\ [Next]_vars => QueueInv'
<1> SUFFICES ASSUME CallInv, RingInv, QueueInv, [Next]_vars PROVE QueueInv'
  OBVIOUS
<1>1. /\ RingInv' /\ Ring!PlacesKnown
      /\ [Ring!Tickets!Next]_(Ring!Tickets!vars)
  BY RingStep, ChannelStep
<1>2. Ring!Places \in Seq(Ring!PlaceSet)
  BY <1>1 DEF Ring!PlacesKnown
<1> DEFINE Hold == /\ \A i \in 1 .. Len(Ring!Places') : Ring!Places'[i].value \in Orders
                   /\ Ring!Returned' \in Orders \cup {NullOpt}
<1>3. Hold
  <2>1. CASE UNCHANGED Ring!Tickets!vars
    BY <2>1 DEF QueueInv, Ring!Tickets!vars
  <2>2. ASSUME NEW w \in Workers, Ring!Tickets!Refuse(w) PROVE Hold
    BY <2>2 DEF Ring!Tickets!Refuse, QueueInv
  <2>3. ASSUME NEW w \in Workers, NEW v \in Orders, Ring!Tickets!Claim(w, v) PROVE Hold
    BY <1>2, <2>3 DEF Ring!Tickets!Claim, QueueInv
  <2>4. ASSUME NEW w \in Workers, Ring!Tickets!Fill(w) PROVE Hold
    BY <1>2, <2>4 DEF Ring!Tickets!Fill, QueueInv, Ring!PlaceSet
  <2>5. CASE Ring!Tickets!Take
    BY <1>2, <2>5 DEF Ring!Tickets!Take, QueueInv
  <2>6. CASE Ring!Tickets!Nothing
    BY <2>6 DEF Ring!Tickets!Nothing, QueueInv
  <2> QED
    BY <1>1, <2>1, <2>2, <2>3, <2>4, <2>5, <2>6 DEF Ring!Tickets!Next
<1>4. ASSUME pusher' = "send" PROVE pop_ret' # NullOpt
  <2>1. CASE pusher = "send"
    <3>1. ASSUME NEW w \in Workers, Pushing(w) \/ Unblocked(w) PROVE pop_ret' = pop_ret
      BY <3>1, PushLocal, SameTypes DEF Pushing, Unblocked, RingInv, Ring!IndInv
    <3>2. ASSUME NEW w \in Workers, PushOrder(w) PROVE pop_ret' = pop_ret
      BY <3>2 DEF PushOrder, Channel!PushCall, Channel!cvars
    <3>3. pop_ret' = pop_ret
      BY <2>1, <3>1, <3>2
      DEF Next, vars, channel, Main, Worker, Pusher, AddStrategy, Start, Restart, Join, Stop,
          CheckRunning, PollTick, PollTimeout, WaitForAll, BeginTask, EndTask, OnTickNothing,
          OnTickDecide, OnTickStore, OnTickReturn, PusherCheck, PusherPop, PusherSend
    <3> QED
      BY <2>1, <3>3 DEF QueueInv
  <2> QED
    BY <1>4, <2>1
    DEF Next, vars, Main, Worker, Pusher, AddStrategy, Start, Restart, Join, Stop,
        CheckRunning, PollTick, PollTimeout, WaitForAll, BeginTask, EndTask, OnTickNothing,
        OnTickDecide, OnTickStore, OnTickReturn, PushOrder, Pushing, Unblocked, PusherCheck,
        PusherPop, PusherSend
<1>5. ASSUME cpc' \in {"notify", "store_tail"} PROVE value' \in Orders
  <2>1. CASE Ring!PopFree
    <3>1. Queued \in Seq(Orders) /\ Queued # <<>> /\ value' = Head(Queued)
      BY <1>1, <2>1, QueuedType, QueuedShrinks
    <3> QED
      BY <3>1
  <2>2. ASSUME NEW w \in Workers, Pushing(w) \/ Unblocked(w) PROVE UNCHANGED <<cpc, value>>
    BY <2>2, PushLocal, SameTypes DEF Pushing, Unblocked, RingInv, Ring!IndInv
  <2>3. ASSUME NEW w \in Workers, PushOrder(w) PROVE UNCHANGED <<cpc, value>>
    BY <2>3 DEF PushOrder, Channel!PushCall, Channel!cvars
  <2>4. CASE PusherPop /\ ~Ring!PopFree
    BY <1>5, <2>4, SamePop
    DEF PusherPop, Ring!Consumer, Ring!PopEmpty, Ring!PopReady, Ring!PopRead, Ring!PopNotify,
        Ring!PopStoreTail, QueueInv
  <2>5. CASE ~PusherPop
    <3>1. UNCHANGED <<cpc, value>>
      BY <2>2, <2>3, <2>5
      DEF Next, vars, channel, Main, Worker, Pusher, AddStrategy, Start, Restart, Join, Stop,
          CheckRunning, PollTick, PollTimeout, WaitForAll, BeginTask, EndTask, OnTickNothing,
          OnTickDecide, OnTickStore, OnTickReturn, PusherCheck, PusherSend
    <3> QED
      BY <1>5, <3>1 DEF QueueInv
  <2> QED
    BY <2>1, <2>4, <2>5
<1> QED
  BY <1>3, <1>4, <1>5 DEF QueueInv

LEMMA HistoryStep ==
  CallInv /\ RingInv /\ QueueInv /\ HistoryTypes /\ [Next]_vars => HistoryTypes'
<1> SUFFICES ASSUME CallInv, RingInv, QueueInv, HistoryTypes, [Next]_vars
             PROVE  HistoryTypes'
  OBVIOUS
<1>1. ASSUME NEW w \in Workers, Pushing(w) PROVE HistoryTypes'
  <2>1. u[w] \in Orders
    BY <1>1 DEF Pushing, CallInv, RingInv, Ring!RefInv, Ring!InFlight
  <2>2. dropped' \in {dropped, Append(dropped, u[w])} /\ sent' = sent
    BY <1>1 DEF Pushing
  <2>3. UNCHANGED <<stopped, late>>
    BY <1>1 DEF Pushing, audit
  <2>4. sent' \in Seq(Orders) /\ dropped' \in Seq(Orders)
    <3>1. sent \in Seq(Orders) /\ dropped \in Seq(Orders)
      BY DEF HistoryTypes
    <3>2. Append(dropped, u[w]) \in Seq(Orders)
      BY <2>1, <3>1, AppendProperties
    <3> QED
      BY <2>2, <3>1, <3>2
  <2>5. stopped' \in BOOLEAN /\ late' \in [ticks : Nat, orders : Nat]
    BY <2>3 DEF HistoryTypes
  <2> QED
    BY <2>4, <2>5 DEF HistoryTypes
<1>2. CASE PusherSend
  BY <1>2, SendsOrder DEF PusherSend, HistoryTypes
<1>3. ASSUME NEW sym \in Symbols, PollTick(sym) PROVE HistoryTypes'
  BY <1>3 DEF PollTick, HistoryTypes
<1>4. CASE Stop
  BY <1>4 DEF Stop, HistoryTypes
<1>5. CASE UNCHANGED <<sent, dropped, audit>>
  BY <1>5 DEF HistoryTypes, audit
<1>6. \/ \E w \in Workers : Pushing(w)
      \/ PusherSend
      \/ \E sym \in Symbols : PollTick(sym)
      \/ Stop
      \/ UNCHANGED <<sent, dropped, audit>>
  BY DEF Next, vars, Main, Worker, Pusher, AddStrategy, Start, Restart, Join, CheckRunning,
         PollTimeout, WaitForAll, BeginTask, EndTask, OnTickNothing, OnTickDecide,
         OnTickStore, OnTickReturn, PushOrder, Unblocked, PusherCheck, PusherPop
<1> QED
  BY <1>1, <1>2, <1>3, <1>4, <1>5, <1>6

LEMMA InitEngine == Init => EngineInv
<1> SUFFICES ASSUME Init PROVE EngineInv
  OBVIOUS
<1>1. RingInv
  BY ChannelConstants, SameInit, Ring!InitInv, Ring!InitRef DEF Init, RingInv
<1>2. QueueInv
  <2>1. Ring!Tickets!Init
    BY ChannelConstants, SameInit, Ring!InitTickets DEF Init
  <2> QED
    BY <2>1 DEF Ring!Tickets!Init, QueueInv, Init, Channel!Init
<1>3. LocalTypes /\ CallInv
  BY EngineAssumption DEF Init, LocalTypes, CallInv, Channel!Init
<1>4. HistoryTypes
  <2>1. sent = <<>> /\ dropped = <<>> /\ stopped = FALSE
    BY DEF Init
  <2>2. late = [ticks |-> 0, orders |-> 0]
    BY DEF Init
  <2>3. sent \in Seq(Orders) /\ dropped \in Seq(Orders)
    BY <2>1
  <2>4. stopped \in BOOLEAN /\ late \in [ticks : Nat, orders : Nat]
    BY <2>1, <2>2
  <2> QED
    BY <2>3, <2>4 DEF HistoryTypes
<1> QED
  BY <1>1, <1>2, <1>3, <1>4 DEF EngineInv

LEMMA EngineStep == EngineInv /\ [Next]_vars => EngineInv'
<1>1. EngineInv => Channel!TypeOK
  BY SameTypes DEF EngineInv, RingInv, Ring!IndInv
<1> QED
  BY <1>1, CallStep, ChannelStep, RingStep, QueueStep, HistoryStep DEF EngineInv

(* The invariant holds in every reachable state of the engine.             *)
THEOREM Inductive == Spec => []EngineInv
BY InitEngine, EngineStep, PTL DEF Spec

(* Every variable keeps its type; in particular what is sent and what is   *)
(* dropped are orders that a strategy has returned.                        *)
THEOREM TypeCorrect == Spec => []TypeOK
<1>1. EngineInv => TypeOK
  BY SameTypes DEF EngineInv, LocalTypes, HistoryTypes, RingInv, Ring!IndInv, TypeOK
<1> QED
  BY <1>1, Inductive, PTL

(* The engine uses its channel as module Mpsc says its producers and its   *)
(* one consumer do: each worker is in one push() at a time, and only the   *)
(* order-push thread pops, also after a second start().                    *)
THEOREM UsesChannel == Spec => Channel!Spec
<1>1. Init => Channel!Init
  BY DEF Init
<1>2. EngineInv => CallInv
  BY DEF EngineInv
<1> QED
  BY <1>1, <1>2, ChannelStep, Inductive, PTL DEF Spec, Channel!Spec

(* So the accesses of workers and order-push thread to a slot never meet,  *)
(* tickets overrun the ring by a bounded amount ...                        *)
THEOREM ChannelSafe == Spec => [](Channel!NoDataRace /\ Channel!OverrunBounded)
<1>1. Spec => [](Ring!NoDataRace /\ Ring!OverrunBounded)
  BY UsesChannel, SameSpec, ChannelConstants, Ring!NoDataRaceAlways, Ring!OverrunBoundedAlways,
     PTL
<1>2. Ring!NoDataRace => Channel!NoDataRace
  BY DEF Ring!NoDataRace, Channel!NoDataRace, Ring!Slot, Channel!Slot
<1>3. Ring!OverrunBounded => Channel!OverrunBounded
  <2>1. Channel!Cardinality(Workers) = Ring!Cardinality(Workers)
    BY Zenon DEF Channel!Cardinality, Ring!Cardinality
  <2> QED
    BY <2>1 DEF Ring!OverrunBounded, Channel!OverrunBounded, Ring!Sub, Channel!Sub
<1> QED
  BY <1>1, <1>2, <1>3, PTL

(* ... and what comes out of the channel are the workers' orders, in the   *)
(* order of their tickets, each once and unchanged.                        *)
THEOREM ChannelIsQueue == Spec => Channel!ImplementsTicketQueue
BY UsesChannel, SameSpec, SameQueueSpec, ChannelConstants, Ring!Refinement, PTL

-----------------------------------------------------------------------------
(* No strategy runs once start() has returned, whatever has been called    *)
(* meanwhile.                                                              *)
THEOREM NothingRuns == Spec => NothingAfterReturn
<1>1. EngineInv /\ [Next]_vars => [main = "returned" => UNCHANGED <<tasks, workers>>]_vars
  <2> SUFFICES ASSUME CallInv, main = "returned", [Next]_vars
               PROVE  UNCHANGED <<tasks, workers>>
    BY DEF EngineInv
  <2>1. (\A sym \in Symbols : tasks[sym] = 0) /\ \A w \in Workers : wpc[w] = "idle"
    BY DEF CallInv
  <2> QED
    BY <2>1 DEF Next, vars, Main, Worker, Pusher, AddStrategy, Start, Restart, Join, Stop,
                CheckRunning, PollTick, PollTimeout, WaitForAll, BeginTask, EndTask,
                OnTickNothing, OnTickDecide, OnTickStore, OnTickReturn, PushOrder, Pushing, Unblocked,
                PusherCheck, PusherPop, PusherSend
<1> QED
  BY <1>1, Inductive, PTL DEF Spec, NothingAfterReturn

(* StopIsFinal is not inductive: what may still come in or go out after    *)
(* stop() is the tick being polled for and the order being popped, and     *)
(* nobody gets to another poll or pop without looking at _running.         *)
StopInv ==
  IF stopped
  THEN /\ ~running
       /\ late.ticks + (IF main = "poll" THEN 1 ELSE 0) <= 1
       /\ late.orders + (IF pusher \in {"pop", "send"} THEN 1 ELSE 0) <= 1
  ELSE late = [ticks |-> 0, orders |-> 0]

LEMMA StopStep == EngineInv /\ StopInv /\ [Next]_vars => StopInv'
<1> SUFFICES ASSUME EngineInv, StopInv, [Next]_vars PROVE StopInv'
  OBVIOUS
<1>1. /\ stopped \in BOOLEAN /\ late \in [ticks : Nat, orders : Nat]
      /\ main = "off" => pusher = "off"
  BY DEF EngineInv, HistoryTypes, CallInv
<1>2. CASE Stop
  BY <1>1, <1>2 DEF Stop, StopInv
<1>3. ASSUME NEW sym \in Symbols, PollTick(sym) PROVE StopInv'
  BY <1>1, <1>3 DEF PollTick, StopInv
<1>4. CASE PusherSend
  BY <1>1, <1>4 DEF PusherSend, StopInv
<1>5. CASE PusherPop
  <2>1. pusher = "pop" /\ pusher' \in {"pop", "check", "send"}
    BY <1>5 DEF PusherPop
  <2>2. UNCHANGED <<main, running, stopped, late>>
    BY <1>5 DEF PusherPop, audit
  <2> QED
    BY <1>1, <2>1, <2>2 DEF StopInv
<1>6. CASE \/ Start \/ Restart \/ Join \/ CheckRunning \/ PollTimeout \/ WaitForAll
           \/ PusherCheck
  BY <1>1, <1>6 DEF Start, Restart, Join, CheckRunning, PollTimeout, WaitForAll, PusherCheck,
                    audit, StopInv
<1>7. CASE UNCHANGED <<main, running, pusher, stopped, late>>
  BY <1>7 DEF StopInv
<1>8. \/ Stop \/ (\E sym \in Symbols : PollTick(sym)) \/ PusherSend \/ PusherPop
      \/ Start \/ Restart \/ Join \/ CheckRunning \/ PollTimeout \/ WaitForAll
      \/ PusherCheck
      \/ UNCHANGED <<main, running, pusher, stopped, late>>
  BY DEF Next, vars, audit, Main, Worker, Pusher, AddStrategy, BeginTask, EndTask,
         OnTickNothing, OnTickDecide, OnTickStore, OnTickReturn, PushOrder, Pushing, Unblocked
<1> QED
  BY <1>2, <1>3, <1>4, <1>5, <1>6, <1>7, <1>8

(* After stop() the engine takes in at most one more tick and sends at     *)
(* most one more order, however often start() is called again.             *)
THEOREM StopFinal == Spec => []StopIsFinal
<1>1. Init => StopInv
  BY DEF Init, StopInv
<1>2. EngineInv /\ StopInv => StopIsFinal
  BY DEF EngineInv, HistoryTypes, StopInv, StopIsFinal
<1> QED
  BY <1>1, <1>2, StopStep, Inductive, PTL DEF Spec

-----------------------------------------------------------------------------
(* The orders that have been sent and those on their way, oldest first.    *)
Trail == sent \o InFlight

LEMMA InFlightForm ==
  InFlight = (IF pusher = "send" THEN <<pop_ret>> ELSE <<>>)
               \o (IF cpc \in {"notify", "store_tail"} THEN <<value>> ELSE <<>>)
               \o Queued
BY SamePlaces DEF InFlight, Queued

LEMMA TrailType ==
  ASSUME EngineInv
  PROVE  sent \in Seq(Orders) /\ InFlight \in Seq(Orders) /\ Trail \in Seq(Orders)
<1>1. Queued \in Seq(Orders) /\ sent \in Seq(Orders)
  BY QueuedType DEF EngineInv, HistoryTypes
<1>2. (IF pusher = "send" THEN <<pop_ret>> ELSE <<>>) \in Seq(Orders)
  BY SendsOrder DEF EngineInv
<1>3. (IF cpc \in {"notify", "store_tail"} THEN <<value>> ELSE <<>>) \in Seq(Orders)
  BY DEF EngineInv, QueueInv
<1>4. InFlight \in Seq(Orders)
  BY <1>1, <1>2, <1>3, InFlightForm, ConcatProperties
<1> QED
  BY <1>1, <1>4, ConcatProperties DEF Trail

OrdersInTrail == Trail \in Seq(Orders)

LEMMA TrailIsOrders == EngineInv => OrdersInTrail
BY TrailType DEF OrdersInTrail

LEMMA ConcatAppend ==
  ASSUME NEW S, NEW q \in Seq(S), NEW r \in Seq(S), NEW x \in S
  PROVE  q \o Append(r, x) = Append(q \o r, x)
BY AppendIsConcat, ConcatAssociative, ConcatProperties

LEMMA HeadTailConcat ==
  ASSUME NEW S, NEW q \in Seq(S), q # <<>>
  PROVE  <<Head(q)>> \o Tail(q) = q
<1>1. Head(q) = q[1] /\ Head(q) \in S /\ Len(q) \in Nat /\ Len(q) > 0
  BY HeadTailProperties, EmptySeq
<1>2. Tail(q) \in Seq(S) /\ Len(Tail(q)) = Len(q) - 1
      /\ \A i \in 1 .. Len(q) - 1 : Tail(q)[i] = q[i + 1]
  BY HeadTailProperties
<1> QED
  BY <1>1, <1>2, SeqEqual, ConcatProperties

(* Only a ticket adds an order to those on their way, and it adds it at    *)
(* the end; none is lost, and none overtakes another.                      *)
LEMMA TrailStep ==
  ASSUME EngineInv, EngineInv', [Next]_vars
  PROVE  \/ \E w \in Workers : /\ Pushing(w) /\ Ring!TakeTicket(w)
                                /\ u[w] \in Orders
                                /\ Trail' = Append(Trail, u[w])
         \/ /\ \A w \in Workers : ~(Pushing(w) /\ Ring!TakeTicket(w))
            /\ Trail' = Trail
<1> DEFINE Popped == IF pusher = "send" THEN <<pop_ret>> ELSE <<>>
           Taken  == IF cpc \in {"notify", "store_tail"} THEN <<value>> ELSE <<>>
<1>1. /\ Trail = sent \o ((Popped \o Taken) \o Queued)
      /\ Trail' = sent' \o ((Popped' \o Taken') \o Queued')
  <2>1. Queued' = [i \in 1 .. Len(Ring!Places') |-> Ring!Places'[i].value]
    BY DEF Queued
  <2>2. InFlight' = (Popped' \o Taken') \o Queued'
    BY <2>1, SamePlaces DEF InFlight
  <2> QED
    BY <2>2, InFlightForm DEF Trail
<1>2. /\ sent \in Seq(Orders) /\ Popped \in Seq(Orders) /\ Taken \in Seq(Orders)
      /\ Queued \in Seq(Orders)
      /\ RingInv /\ RingInv' /\ QueueInv /\ CallInv /\ Channel!TypeOK
  BY QueuedType, SendsOrder, SameTypes
  DEF EngineInv, HistoryTypes, QueueInv, RingInv, Ring!IndInv
<1>3. ASSUME UNCHANGED <<sent, Popped, Taken, Queued>> PROVE Trail' = Trail
  BY <1>1, <1>3
<1>4. ASSUME NEW w \in Workers, PushOrder(w) PROVE Trail' = Trail
  <2>1. UNCHANGED <<sent, pusher, pop_ret, cpc, value>>
    BY <1>4 DEF PushOrder, Channel!PushCall, Channel!cvars
  <2>2. Queued' = Queued
    BY <1>2, <1>4, SamePush, QueuedPushing DEF PushOrder, CallInv
  <2> QED
    BY <1>3, <2>1, <2>2
<1>5. ASSUME NEW w \in Workers, Pushing(w) \/ Unblocked(w), ~Ring!TakeTicket(w)
      PROVE  Trail' = Trail
  <2>1. UNCHANGED <<sent, pusher, pop_ret, cpc, value>>
    BY <1>2, <1>5, PushLocal DEF Pushing, Unblocked
  <2>2. Queued' = Queued
    <3>1. Channel!InPush(w) \/ Channel!SpuriousWake(w)
      BY <1>5 DEF Pushing, Unblocked
    <3>2. \/ Ring!PushFull(w) \/ Ring!PushRoom(w) \/ Ring!LoadSeq(w) \/ Ring!Wait(w)
          \/ Ring!PushWrite(w) \/ Ring!PushPublish(w) \/ Ring!SpuriousWake(w)
      BY <1>5, <3>1, SamePush DEF Channel!InPush
    <3> QED
      BY <1>2, <3>2, QueuedPushing
  <2> QED
    BY <1>3, <2>1, <2>2
<1>6. ASSUME NEW w \in Workers, Pushing(w), Ring!TakeTicket(w)
      PROVE  u[w] \in Orders /\ Trail' = Append(Trail, u[w])
  <2>1. UNCHANGED <<sent, pusher, pop_ret, cpc, value>>
    BY <1>2, <1>6, PushLocal DEF Pushing
  <2>2. u[w] \in Orders /\ Queued' = Append(Queued, u[w])
    BY <1>2, <1>6, QueuedGrows
  <2> QED
    <3>1. Popped' = Popped /\ Taken' = Taken
      BY <2>1
    <3> HIDE DEF Popped, Taken
    <3> DEFINE before == (Popped \o Taken) \o Queued
    <3>2. Popped \o Taken \in Seq(Orders) /\ before \in Seq(Orders)
      BY <1>2, ConcatProperties
    <3>3. (Popped \o Taken) \o Append(Queued, u[w]) = Append(before, u[w])
      BY <1>2, <2>2, <3>2, ConcatAppend
    <3>4. Trail = sent \o before
      BY <1>1
    <3>5. Trail' = sent \o Append(before, u[w])
      BY <1>1, <2>1, <2>2, <3>1, <3>3
    <3> HIDE DEF before
    <3>6. sent \o Append(before, u[w]) = Append(sent \o before, u[w])
      BY <1>2, <2>2, <3>2, ConcatAppend
    <3> QED
      BY <2>2, <3>4, <3>5, <3>6
<1>7. ASSUME PusherPop PROVE Trail' = Trail
  <2>1. pusher = "pop" /\ sent' = sent /\ Popped = <<>>
    BY <1>7 DEF PusherPop
  <2>2. CASE Ring!PopEmpty \/ Ring!PopReady \/ Ring!PopRead \/ Ring!PopNotify
    <3>1. Queued' = Queued
      BY <1>2, <2>2, QueuedKept
    <3>2. pusher' # "send"
      BY <1>7, <2>2 DEF PusherPop, Ring!PopEmpty, Ring!PopReady, Ring!PopRead, Ring!PopNotify
    <3>3. Taken' = Taken
      BY <2>2 DEF Ring!PopEmpty, Ring!PopReady, Ring!PopRead, Ring!PopNotify
    <3> QED
      BY <1>3, <2>1, <3>1, <3>2, <3>3
  <2>3. CASE Ring!PopFree
    <3>1. Queued # <<>> /\ value' = Head(Queued) /\ Queued' = Tail(Queued)
      BY <1>2, <2>3, QueuedShrinks
    <3>2. pusher' # "send" /\ Taken = <<>> /\ Taken' = <<value'>>
      BY <1>7, <2>3 DEF PusherPop, Ring!PopFree
    <3>3. <<Head(Queued)>> \o Tail(Queued) = Queued
      BY <1>2, <3>1, HeadTailConcat
    <3>4. (Popped \o Taken) \o Queued = Queued
      BY <1>2, <2>1, <3>2, ConcatEmptySeq, EmptySeq
    <3>5. Popped' = <<>> /\ Taken' = <<Head(Queued)>>
      BY <3>1, <3>2
    <3>6. (Popped' \o Taken') \o Queued' = Queued
      <4>1. <<Head(Queued)>> \in Seq(Orders)
        BY <1>2, <3>1, HeadTailProperties
      <4>2. Popped' \o Taken' = <<Head(Queued)>>
        BY <3>5, <4>1, ConcatEmptySeq
      <4> HIDE DEF Popped, Taken
      <4> QED
        BY <3>1, <3>3, <4>2
    <3> QED
      BY <1>1, <2>1, <3>4, <3>6
  <2>4. CASE Ring!PopStoreTail
    <3>1. Queued' = Queued
      BY <1>2, <2>4, QueuedKept
    <3>2. /\ value \in Orders /\ Taken = <<value>> /\ Taken' = <<>>
          /\ Popped' = <<value>>
      BY <1>2, <1>7, <2>4, ChannelConstants
      DEF PusherPop, Ring!PopStoreTail, QueueInv, Ring!MpscAssumption
    <3>3. Popped \o Taken = <<value>> /\ Popped' \o Taken' = <<value>>
      <4>1. <<value>> \in Seq(Orders)
        BY <3>2
      <4> HIDE DEF Popped, Taken
      <4> QED
        BY <2>1, <3>2, <4>1, ConcatEmptySeq
    <3> HIDE DEF Popped, Taken
    <3> QED
      BY <1>1, <2>1, <3>1, <3>3
  <2> QED
    BY <1>7, <2>2, <2>3, <2>4, SamePop DEF PusherPop, Ring!Consumer
<1>8. ASSUME PusherSend PROVE Trail' = Trail
  <2>1. /\ pop_ret \in Orders /\ Popped = <<pop_ret>> /\ Popped' = <<>>
        /\ sent' = Append(sent, pop_ret) /\ UNCHANGED channel
        /\ Taken = <<>> /\ Taken' = <<>>
    BY <1>2, <1>8, SendsOrder DEF PusherSend, CallInv, channel
  <2>2. Queued' = Queued
    BY <1>2, <2>1, QueuedKept DEF channel, Ring!vars, Ring!shared, Ring!pvars, Ring!cvars
  <2>3. (Popped \o Taken) \o Queued = <<pop_ret>> \o Queued
    BY <1>2, <2>1, ConcatEmptySeq
  <2>4. (Popped' \o Taken') \o Queued' = Queued
    BY <1>2, <2>1, <2>2, ConcatEmptySeq, EmptySeq
  <2>5. Append(sent, pop_ret) \o Queued = sent \o (<<pop_ret>> \o Queued)
    BY <1>2, <2>1, AppendIsConcat, ConcatAssociative
  <2> QED
    BY <1>1, <2>1, <2>3, <2>4, <2>5
<1>9. ASSUME UNCHANGED <<channel, sent>>,
             pusher' = pusher \/ {pusher, pusher'} \subseteq {"off", "check", "pop", "exited"}
      PROVE  Trail' = Trail
  <2>1. Queued' = Queued
    BY <1>2, <1>9, QueuedKept DEF channel, Ring!vars, Ring!shared, Ring!pvars, Ring!cvars
  <2>2. UNCHANGED <<Popped, Taken>>
    BY <1>9 DEF channel
  <2> QED
    BY <1>3, <1>9, <2>1, <2>2
<1>10. \/ \E w \in Workers : PushOrder(w) \/ Pushing(w) \/ Unblocked(w)
       \/ PusherPop
       \/ PusherSend
       \/ /\ UNCHANGED <<channel, sent>>
          /\ pusher' = pusher \/ {pusher, pusher'} \subseteq {"off", "check", "pop", "exited"}
  BY <1>2 DEF Next, vars, Main, Worker, Pusher, AddStrategy, Start, Restart, Join, Stop, CheckRunning,
         PollTick, PollTimeout, WaitForAll, BeginTask, EndTask, OnTickNothing, OnTickDecide,
         OnTickStore, OnTickReturn, PusherCheck, CallInv
<1>11. ASSUME \A w \in Workers : ~(Pushing(w) /\ Ring!TakeTicket(w)) PROVE Trail' = Trail
  <2>1. ASSUME NEW w \in Workers, PushOrder(w) \/ Pushing(w) \/ Unblocked(w)
        PROVE  Trail' = Trail
    <3>1. CASE Unblocked(w)
      <4>1. ~Ring!TakeTicket(w)
        BY <3>1 DEF Unblocked, Channel!SpuriousWake, Ring!TakeTicket
      <4> QED
        BY <1>5, <3>1, <4>1
    <3> QED
      BY <1>4, <1>5, <1>11, <2>1, <3>1
  <2> QED
    BY <1>7, <1>8, <1>9, <1>10, <2>1
<1> QED
  BY <1>6, <1>11

(* For any number of workers, an order that has its ticket keeps its       *)
(* place: what has been sent and what is on its way only ever grows, at    *)
(* the end, by the order of the worker that draws a ticket.                *)
OrdersKeepTheirPlace ==
  [][\/ Trail' = Trail
     \/ \E w \in Workers : u[w] \in Orders /\ Trail' = Append(Trail, u[w])]_vars

THEOREM TicketOrder == Spec => OrdersKeepTheirPlace
<1>1. EngineInv /\ EngineInv' /\ [Next]_vars
        => [\/ Trail' = Trail
            \/ \E w \in Workers : u[w] \in Orders /\ Trail' = Append(Trail, u[w])]_vars
  BY TrailStep
<1> QED
  BY <1>1, Inductive, PTL DEF Spec, OrdersKeepTheirPlace

-----------------------------------------------------------------------------
(* Counting orders.                                                        *)
LEMMA CountType ==
  ASSUME NEW q \in Seq(Orders), NEW s, NEW d
  PROVE  Count(q, s, d) \in Nat
<1>1. Len(q) \in Nat
  OBVIOUS
<1>2. IsFiniteSet(1 .. Len(q))
  BY <1>1, FS_Interval
<1>3. IsFiniteSet({i \in 1 .. Len(q) : q[i].stg = s /\ q[i].direction = d})
  BY <1>2, FS_Subset
<1> QED
  BY <1>3, FS_CardinalityType DEF Count

LEMMA CountFew ==
  ASSUME NEW s, NEW d
  PROVE  /\ Count(<<>>, s, d) = 0
         /\ \A o : Count(<<o>>, s, d) = IF o.stg = s /\ o.direction = d THEN 1 ELSE 0
<1>1. {i \in 1 .. Len(<<>>) : <<>>[i].stg = s /\ <<>>[i].direction = d} = {}
  OBVIOUS
<1>2. ASSUME NEW o
      PROVE  {i \in 1 .. Len(<<o>>) : <<o>>[i].stg = s /\ <<o>>[i].direction = d}
               = IF o.stg = s /\ o.direction = d THEN {1} ELSE {}
  <2>1. Len(<<o>>) = 1 /\ <<o>>[1] = o /\ 1 .. 1 = {1}
    OBVIOUS
  <2> QED
    BY <2>1
<1>3. Cardinality({}) = 0 /\ Cardinality({1}) = 1
  BY FS_EmptySet, FS_Singleton
<1>4. Count(<<>>, s, d) = 0
  BY <1>1, <1>3 DEF Count
<1>5. ASSUME NEW o
      PROVE  Count(<<o>>, s, d) = IF o.stg = s /\ o.direction = d THEN 1 ELSE 0
  <2>1. CASE o.stg = s /\ o.direction = d
    BY <1>2, <1>3, <2>1 DEF Count
  <2>2. CASE ~(o.stg = s /\ o.direction = d)
    BY <1>2, <1>3, <2>2 DEF Count
  <2> QED
    BY <2>1, <2>2
<1> QED
  BY <1>4, <1>5

LEMMA CountConcat ==
  ASSUME NEW q \in Seq(Orders), NEW r \in Seq(Orders), NEW s, NEW d
  PROVE  Count(q \o r, s, d) = Count(q, s, d) + Count(r, s, d)
<1> DEFINE Is(o) == o.stg = s /\ o.direction = d
           n == Len(q)
           A == {i \in 1 .. Len(q) : q[i].stg = s /\ q[i].direction = d}
           B == {i \in 1 .. Len(r) : r[i].stg = s /\ r[i].direction = d}
           C == {i \in 1 .. Len(q \o r) : (q \o r)[i].stg = s /\ (q \o r)[i].direction = d}
           D == {i \in C : i > n}
<1>1. n \in Nat /\ Len(r) \in Nat /\ Len(q \o r) = n + Len(r)
  BY ConcatProperties
<1>2. /\ \A i \in 1 .. n : (q \o r)[i] = q[i]
      /\ \A i \in 1 .. Len(r) : (q \o r)[i + n] = r[i]
  BY <1>1, ConcatProperties
<1>3. C = A \cup D /\ A \cap D = {}
  BY <1>1, <1>2
<1>4. IsFiniteSet(A) /\ IsFiniteSet(B)
  <2>1. IsFiniteSet(1 .. n) /\ IsFiniteSet(1 .. Len(r))
    BY <1>1, FS_Interval
  <2>2. A \in SUBSET (1 .. n) /\ B \in SUBSET (1 .. Len(r))
    OBVIOUS
  <2> HIDE DEF A, B, n
  <2> QED
    BY <2>1, <2>2, FS_Subset
<1>5. ExistsBijection(B, D)
  <2> DEFINE f == [i \in B |-> i + n]
  <2>1. \A i \in B : i + n \in D
    BY <1>1, <1>2
  <2>2. \A j \in D : j - n \in B /\ j = (j - n) + n
    <3> TAKE j \in D
    <3>1. j - n \in 1 .. Len(r) /\ j = (j - n) + n
      BY <1>1
    <3>2. (q \o r)[j] = r[j - n]
      BY <1>2, <3>1
    <3> QED
      BY <3>1, <3>2
  <2>3. \A i, j \in B : f[i] = f[j] => i = j
    BY <1>1
  <2>4. f \in [B -> D]
    BY <2>1
  <2>5. f \in Bijection(B, D)
    BY <2>2, <2>3, <2>4 DEF Bijection, Injection, Surjection, IsInjective
  <2> QED
    BY <2>5 DEF ExistsBijection
<1>6. IsFiniteSet(D) /\ Cardinality(D) = Cardinality(B)
  BY <1>4, <1>5, FS_Bijection
<1> HIDE DEF A, B, C, D
<1>7. Cardinality(C) = Cardinality(A) + Cardinality(B) - Cardinality({})
  BY <1>3, <1>4, <1>6, FS_Union
<1>8. Cardinality(A) \in Nat /\ Cardinality(B) \in Nat /\ Cardinality({}) = 0
  BY <1>4, FS_CardinalityType, FS_EmptySet
<1>9. Cardinality(C) = Cardinality(A) + Cardinality(B)
  BY <1>7, <1>8
<1> QED
  BY <1>9 DEF Count, A, B, C

LEMMA NetConcat ==
  ASSUME NEW q \in Seq(Orders), NEW r \in Seq(Orders), NEW s
  PROVE  Net(q \o r, s) = Net(q, s) + Net(r, s) /\ Net(q, s) \in Int
<1> DEFINE b == Count(q, s, "BUY")
           c == Count(q, s, "SELL")
           e == Count(r, s, "BUY")
           f == Count(r, s, "SELL")
<1>1. b \in Nat /\ c \in Nat /\ e \in Nat /\ f \in Nat
  BY CountType
<1>2. Count(q \o r, s, "BUY") = b + e /\ Count(q \o r, s, "SELL") = c + f
  BY CountConcat
<1>3. Net(q, s) = b - c /\ Net(r, s) = e - f /\ Net(q \o r, s) = (b + e) - (c + f)
  BY <1>2 DEF Net
<1> HIDE DEF b, c, e, f
<1> QED
  BY <1>1, <1>3

-----------------------------------------------------------------------------
(* One worker.  The order it has stored the position of and holds no       *)
(* ticket for yet.                                                         *)
Pending(w) == IF wpc[w] \in {"return", "push"} THEN <<order[w]>>
              ELSE IF ppc[w] \in {"load_tail", "ticket"} THEN <<u[w]>> ELSE <<>>

LEMMA PendingType ==
  ASSUME EngineInv, NEW w \in Workers
  PROVE  Pending(w) \in Seq(Orders)
<1>1. /\ wpc[w] \in {"return", "push"} => order[w] \in Orders
      /\ ppc[w] # "idle" => u[w] \in Orders
  BY DEF EngineInv, CallInv, RingInv, Ring!RefInv, Ring!InFlight
<1> QED
  BY <1>1 DEF Pending

LEMMA AboutToPushIsPending ==
  ASSUME EngineInv, NEW w, Workers = {w}, NEW s, NEW d
  PROVE  Cardinality(AboutToPush(s, d)) = Count(Pending(w), s, d)
<1>1. wpc[w] \in {"return", "push"} => ppc[w] = "idle"
  BY DEF EngineInv, CallInv
<1> DEFINE Is == \/ /\ wpc[w] \in {"return", "push"}
                    /\ order[w].stg = s /\ order[w].direction = d
                 \/ /\ ppc[w] \in {"load_tail", "ticket"}
                    /\ u[w].stg = s /\ u[w].direction = d
<1>2. Count(Pending(w), s, d) = IF Is THEN 1 ELSE 0
  BY <1>1, CountFew DEF Pending
<1>3. AboutToPush(s, d) = IF Is THEN {w} ELSE {}
  BY DEF AboutToPush
<1> HIDE DEF Is
<1>4. CASE Is
  BY <1>2, <1>3, <1>4, FS_Singleton
<1>5. CASE ~Is
  BY <1>2, <1>3, <1>5, FS_EmptySet
<1> QED
  BY <1>4, <1>5

(* What a step does to the order that is pending, to those that have a     *)
(* ticket and to those that have been refused.                             *)
Stores(w) == /\ OnTickStore(w)
             /\ UNCHANGED <<Trail, dropped>>
             /\ Pending(w) = <<>> /\ Pending(w)' = <<order[w]>>

GetsTicket(w) == /\ u[w] \in Orders
                 /\ Trail' = Append(Trail, u[w])
                 /\ UNCHANGED <<position, dropped>>
                 /\ Pending(w) = <<u[w]>> /\ Pending(w)' = <<>>

IsRefused(w) == /\ u[w] \in Orders
                /\ dropped' = Append(dropped, u[w])
                /\ UNCHANGED <<position, Trail>>
                /\ Pending(w) = <<u[w]>> /\ Pending(w)' = <<>>

LEMMA PendingPushed ==
  ASSUME EngineInv, EngineInv', NEW w \in Workers, Pushing(w)
  PROVE  /\ Ring!TakeTicket(w) => /\ u[w] \in Orders
                                  /\ Pending(w) = <<u[w]>> /\ Pending(w)' = <<>>
                                  /\ UNCHANGED dropped
         /\ Ring!PushFull(w) => /\ u[w] \in Orders
                                /\ Pending(w) = <<u[w]>> /\ Pending(w)' = <<>>
                                /\ dropped' = Append(dropped, u[w])
         /\ ~Ring!TakeTicket(w) /\ ~Ring!PushFull(w) =>
              UNCHANGED <<Pending(w), dropped>>
<1>1. /\ wpc[w] = "pushing" /\ wpc'[w] \in {"pushing", "strategies"}
      /\ u[w] \in Orders
      /\ ppc \in [Workers -> {"idle", "load_tail", "ticket", "load_seq", "wait", "blocked",
                               "write", "publish"}]
      /\ u \in [Workers -> Orders \cup {NoOrder}]
      /\ push_ret \in [Workers -> BOOLEAN]
      /\ dropped' = IF ppc'[w] = "idle"
                    THEN IF push_ret'[w] THEN dropped ELSE Append(dropped, u[w])
                    ELSE dropped
  BY DEF Pushing, EngineInv, LocalTypes, CallInv, RingInv, Ring!RefInv, Ring!InFlight,
         Ring!IndInv, Ring!TypeOK
<1>2. ASSUME Ring!TakeTicket(w)
      PROVE  Pending(w) = <<u[w]>> /\ Pending(w)' = <<>> /\ dropped' = dropped
  BY <1>1, <1>2 DEF Ring!TakeTicket, Ring!Goto, Pending
<1>3. ASSUME Ring!PushFull(w)
      PROVE  /\ Pending(w) = <<u[w]>> /\ Pending(w)' = <<>>
             /\ dropped' = Append(dropped, u[w])
  BY <1>1, <1>3 DEF Ring!PushFull, Ring!Return, Ring!Goto, Pending
<1>4. ASSUME Ring!PushRoom(w) PROVE UNCHANGED <<Pending(w), dropped>>
  BY <1>1, <1>4 DEF Ring!PushRoom, Ring!Goto, Pending
<1>5. ASSUME Ring!LoadSeq(w) \/ Ring!Wait(w) \/ Ring!PushWrite(w)
      PROVE  UNCHANGED <<Pending(w), dropped>>
  BY <1>1, <1>5 DEF Ring!LoadSeq, Ring!Wait, Ring!PushWrite, Ring!Goto, Pending
<1>6. ASSUME Ring!PushPublish(w) PROVE UNCHANGED <<Pending(w), dropped>>
  BY <1>1, <1>6 DEF Ring!PushPublish, Ring!Return, Ring!Goto, Pending
<1>7. \/ Ring!PushFull(w) \/ Ring!PushRoom(w) \/ Ring!TakeTicket(w) \/ Ring!LoadSeq(w)
      \/ Ring!Wait(w) \/ Ring!PushWrite(w) \/ Ring!PushPublish(w)
  BY SamePush DEF Pushing, Channel!InPush
<1> QED
  BY <1>1, <1>2, <1>3, <1>4, <1>5, <1>6, <1>7

(* With one worker nobody changes _position between its load and its       *)
(* store, so the order about to be booked is still one the strategy may    *)
(* return, and nobody else writes _order, so onTick returns that order.    *)
Decided == \A w \in Workers :
             wpc[w] = "store" =>
               order[w] \in Decisions(order[w].stg, position[order[w].stg])

OwnCopy == \A w \in Workers, s \in Strategies :
             member[s] = IF wpc[w] = "return" /\ order[w].stg = s THEN {order[w]} ELSE {}

Alone == Decided /\ OwnCopy

LEMMA CopyOfOne ==
  ASSUME NEW o \in Orders
  PROVE  Copies({o}) = {o}
<1>1. [o EXCEPT !.offset = o.offset] = o
  BY DEF Orders
<1> QED
  BY <1>1 DEF Copies

LEMMA ReturnsStored ==
  ASSUME EngineInv, OwnCopy, NEW w, Workers = {w}, OnTickReturn(w)
  PROVE  /\ order' = order
         /\ \A s \in Strategies : member'[s] = {}
<1>1. /\ wpc[w] = "return" /\ order[w] \in Orders /\ order[w].stg \in Strategies
      /\ order \in [Workers -> Orders \cup {NoOrder}]
      /\ member \in [Strategies -> SUBSET Orders]
  BY DEF OnTickReturn, EngineInv, LocalTypes, CallInv, Orders
<1>2. InOnTick(order[w].stg) = {w} /\ member[order[w].stg] = {order[w]}
  BY <1>1 DEF InOnTick, OwnCopy
<1>3. member[order[w].stg] \cup {order[v] : v \in InOnTick(order[w].stg)} = {order[w]}
  BY <1>2
<1>4. PICK o \in Copies({order[w]}) : order' = [order EXCEPT ![w] = o]
  BY <1>3 DEF OnTickReturn
<1>5. order' = order
  BY <1>1, <1>4, CopyOfOne
<1>6. member' = [member EXCEPT ![order[w].stg] = {}]
  BY <1>2 DEF OnTickReturn
<1>7. \A s \in Strategies : s # order[w].stg => member[s] = {}
  BY <1>1 DEF OwnCopy
<1> QED
  BY <1>1, <1>5, <1>6, <1>7

LEMMA OwnCopyStep ==
  ASSUME EngineInv, OwnCopy, [Next]_vars, NEW w, Workers = {w}
  PROVE  OwnCopy'
<1>1. /\ wpc \in [Workers -> {"idle", "strategies", "store", "return", "push", "pushing"}]
      /\ order \in [Workers -> Orders \cup {NoOrder}]
      /\ member \in [Strategies -> SUBSET Orders]
      /\ w \in Workers
  BY DEF EngineInv, LocalTypes
<1> DEFINE Copy(s) == IF wpc[w] = "return" /\ order[w].stg = s THEN {order[w]} ELSE {}
<1>2. \A s \in Strategies : member[s] = Copy(s)
  BY DEF OwnCopy
<1> SUFFICES ASSUME NEW s \in Strategies PROVE member'[s] = Copy(s)'
  BY DEF OwnCopy
<1>3. CASE OnTickStore(w)
  <2>1. /\ wpc[w] = "store" /\ wpc'[w] = "return" /\ order' = order
        /\ member' = [member EXCEPT ![order[w].stg] = @ \cup {order[w]}]
    BY <1>1, <1>3 DEF OnTickStore
  <2>2. member[s] = {}
    BY <1>2, <2>1
  <2> QED
    BY <1>1, <2>1, <2>2
<1>4. CASE OnTickReturn(w)
  <2>1. wpc'[w] = "push"
    BY <1>1, <1>4 DEF OnTickReturn
  <2> QED
    BY <1>4, <2>1, ReturnsStored
<1>5. CASE ~OnTickStore(w) /\ ~OnTickReturn(w)
  <2>1. /\ member' = member
        /\ wpc'[w] = "return" <=> wpc[w] = "return"
        /\ wpc[w] = "return" => order' = order
    BY <1>1, <1>5
    DEF Next, vars, Main, Worker, Pusher, AddStrategy, Start, Restart, Join, Stop,
        CheckRunning, PollTick, PollTimeout, WaitForAll, BeginTask, EndTask, OnTickNothing,
        OnTickDecide, PushOrder, Pushing, Unblocked, PusherCheck, PusherPop, PusherSend,
        workers
  <2> QED
    BY <1>2, <2>1
<1> QED
  BY <1>3, <1>4, <1>5

LEMMA DecidedStep ==
  ASSUME EngineInv, Decided, [Next]_vars, NEW w, Workers = {w}
  PROVE  Decided'
<1>1. /\ wpc \in [Workers -> {"idle", "strategies", "store", "return", "push", "pushing"}]
      /\ order \in [Workers -> Orders \cup {NoOrder}]
      /\ w \in Workers
  BY DEF EngineInv, LocalTypes
<1> SUFFICES ASSUME wpc'[w] = "store"
             PROVE  order'[w] \in Decisions(order'[w].stg, position'[order'[w].stg])
  BY DEF Decided, Decisions
<1>2. CASE OnTickDecide(w)
  <2>1. PICK s, o : o \in Decisions(s, position[s]) /\ order' = [order EXCEPT ![w] = o]
    BY <1>2 DEF OnTickDecide
  <2>2. order'[w] = o /\ position' = position
    BY <1>1, <1>2, <2>1 DEF OnTickDecide
  <2>3. o.stg = s
    BY <2>1 DEF Decisions
  <2> QED
    BY <2>1, <2>2, <2>3
<1>3. CASE ~OnTickDecide(w)
  <2>1. wpc[w] = "store" /\ UNCHANGED <<order, position>>
    BY <1>1, <1>3
    DEF Next, vars, Main, Worker, Pusher, AddStrategy, Start, Restart, Join, Stop, CheckRunning,
        PollTick, PollTimeout, WaitForAll, BeginTask, EndTask, OnTickNothing, OnTickStore,
        OnTickReturn, PushOrder, Pushing, Unblocked, PusherCheck, PusherPop, PusherSend, workers
  <2> QED
    BY <1>1, <2>1 DEF Decided
<1> QED
  BY <1>2, <1>3

LEMMA BookStep ==
  ASSUME EngineInv, EngineInv', OwnCopy, [Next]_vars, NEW w, Workers = {w}
  PROVE  \/ Stores(w)
         \/ GetsTicket(w)
         \/ IsRefused(w)
         \/ UNCHANGED <<position, Trail, dropped, Pending(w)>>
<1>1. /\ CallInv /\ Channel!TypeOK /\ w \in Workers
      /\ wpc \in [Workers -> {"idle", "strategies", "store", "return", "push", "pushing"}]
      /\ order \in [Workers -> Orders \cup {NoOrder}]
  BY SameTypes DEF EngineInv, LocalTypes, RingInv, Ring!IndInv
<1>2. ASSUME ~(Pushing(w) /\ Ring!TakeTicket(w)) PROVE Trail' = Trail
  BY <1>2, TrailStep
<1>3. CASE Pushing(w)
  <2>1. CASE Ring!TakeTicket(w)
    <3>1. Trail' = Append(Trail, u[w])
      BY <1>3, <2>1, TrailStep
    <3>2. position' = position
      BY <1>3 DEF Pushing
    <3> QED
      BY <1>1, <1>3, <2>1, <3>1, <3>2, PendingPushed DEF GetsTicket
  <2>2. CASE ~Ring!TakeTicket(w)
    <3>1. Trail' = Trail /\ position' = position
      BY <1>2, <1>3, <2>2 DEF Pushing
    <3> QED
      BY <1>1, <1>3, <2>2, <3>1, PendingPushed DEF IsRefused
  <2> QED
    BY <2>1, <2>2
<1>4. CASE OnTickStore(w)
  <2>1. Trail' = Trail
    BY <1>2, <1>4 DEF OnTickStore, Pushing
  <2>2. /\ wpc[w] = "store" /\ wpc'[w] = "return" /\ UNCHANGED <<order, ppc, dropped>>
    BY <1>1, <1>4 DEF OnTickStore, channel
  <2>3. Pending(w) = <<>> /\ Pending(w)' = <<order[w]>>
    BY <1>1, <2>2 DEF Pending, CallInv
  <2> QED
    BY <1>4, <2>1, <2>2, <2>3 DEF Stores
<1>5. CASE OnTickReturn(w)
  <2>1. Trail' = Trail
    BY <1>2, <1>5 DEF OnTickReturn, Pushing
  <2>2. order' = order
    BY <1>5, ReturnsStored
  <2>3. /\ wpc[w] = "return" /\ wpc'[w] = "push" /\ UNCHANGED <<position, ppc, dropped>>
    BY <1>1, <1>5 DEF OnTickReturn, channel
  <2>4. Pending(w)' = Pending(w)
    BY <2>2, <2>3 DEF Pending
  <2> QED
    BY <2>1, <2>3, <2>4
<1>6. CASE ~Pushing(w) /\ ~OnTickStore(w) /\ ~OnTickReturn(w)
  <2>1. Trail' = Trail
    BY <1>2, <1>6
  <2>2. UNCHANGED <<position, dropped>>
    BY <1>1, <1>6
    DEF Next, vars, Main, Worker, Pusher, AddStrategy, Start, Restart, Join, Stop, CheckRunning,
        PollTick, PollTimeout, WaitForAll, BeginTask, EndTask, OnTickNothing, OnTickDecide,
        PushOrder, Unblocked, PusherCheck, PusherPop, PusherSend, workers
  <2>3. Pending(w)' = Pending(w)
    <3>1. CASE PusherPop
      <4>1. /\ ppc'[w] \in {"load_tail", "ticket"} <=> ppc[w] \in {"load_tail", "ticket"}
            /\ UNCHANGED <<u, wpc, order>>
        BY <1>1, <3>1
        DEF PusherPop, workers, Channel!TypeOK, Channel!Consumer, Channel!PopEmpty,
            Channel!PopReady, Channel!PopRead, Channel!PopFree, Channel!PopNotify,
            Channel!Eligible, Channel!PopStoreTail, Channel!pvars
      <4> QED
        BY <4>1 DEF Pending
    <3>2. CASE Unblocked(w)
      BY <1>1, <3>2 DEF Unblocked, workers, Channel!SpuriousWake, Channel!Goto,
                        Channel!TypeOK, Pending
    <3>3. CASE PushOrder(w)
      BY <1>1, <3>3 DEF PushOrder, Channel!PushCall, Channel!Goto, Channel!TypeOK, Pending
    <3>4. CASE BeginTask(w) \/ EndTask(w) \/ OnTickNothing(w) \/ OnTickDecide(w)
      BY <1>1, <3>4 DEF BeginTask, EndTask, OnTickNothing, OnTickDecide, channel, CallInv,
                        Pending
    <3>5. CASE UNCHANGED <<workers, channel>>
      BY <3>5 DEF workers, channel, Pending
    <3> QED
      BY <1>1, <1>6, <3>1, <3>2, <3>3, <3>4, <3>5
      DEF Next, vars, Main, Worker, Pusher, AddStrategy, Start, Restart, Join, Stop, CheckRunning,
          PollTick, PollTimeout, WaitForAll, PusherCheck, PusherSend
  <2> QED
    BY <2>1, <2>2, <2>3
<1> QED
  BY <1>3, <1>4, <1>5, <1>6

(* PositionExplained with the orders in sequences.                         *)
Explained(w) ==
  \A s \in Strategies :
    position[s] = Net(Trail, s) + Net(dropped, s) + Net(Pending(w), s)

LEMMA ExplainedIs ==
  ASSUME EngineInv, NEW w, Workers = {w}
  PROVE  PositionExplained <=> Explained(w)
<1>1. ASSUME NEW s \in Strategies
      PROVE  Net(sent, s) + Net(InFlight, s) + Net(dropped, s)
               + Cardinality(AboutToPush(s, "BUY")) - Cardinality(AboutToPush(s, "SELL"))
             = Net(Trail, s) + Net(dropped, s) + Net(Pending(w), s)
  <2>1. /\ Net(Trail, s) = Net(sent, s) + Net(InFlight, s)
        /\ Net(sent, s) \in Int /\ Net(InFlight, s) \in Int
    BY TrailType, NetConcat DEF Trail
  <2>2. Net(dropped, s) \in Int
    BY NetConcat DEF EngineInv, HistoryTypes
  <2>3. /\ Cardinality(AboutToPush(s, "BUY")) = Count(Pending(w), s, "BUY")
        /\ Cardinality(AboutToPush(s, "SELL")) = Count(Pending(w), s, "SELL")
    BY AboutToPushIsPending
  <2>4. Count(Pending(w), s, "BUY") \in Nat /\ Count(Pending(w), s, "SELL") \in Nat
    BY PendingType, CountType
  <2>5. Net(Pending(w), s) = Count(Pending(w), s, "BUY") - Count(Pending(w), s, "SELL")
    BY DEF Net
  <2> QED
    BY <2>1, <2>2, <2>3, <2>4, <2>5
<1> QED
  BY <1>1 DEF PositionExplained, Explained

LEMMA NetAppend ==
  ASSUME NEW q \in Seq(Orders), NEW o \in Orders, NEW s
  PROVE  /\ Net(Append(q, o), s) = Net(q, s) + Net(<<o>>, s)
         /\ Net(q, s) \in Int
<1>1. <<o>> \in Seq(Orders)
  OBVIOUS
<1>2. Append(q, o) = q \o <<o>>
  BY AppendIsConcat
<1>3. Net(q \o <<o>>, s) = Net(q, s) + Net(<<o>>, s) /\ Net(q, s) \in Int
  BY <1>1, NetConcat
<1> QED
  BY <1>2, <1>3

LEMMA NetFew ==
  ASSUME NEW s
  PROVE  /\ Net(<<>>, s) = 0
         /\ \A o \in Orders : Net(<<o>>, s) = IF o.stg # s THEN 0
                                             ELSE IF o.direction = "BUY" THEN 1 ELSE -1
<1>1. Net(<<>>, s) = 0
  BY CountFew DEF Net
<1>2. ASSUME NEW o \in Orders
      PROVE  Net(<<o>>, s) = IF o.stg # s THEN 0
                             ELSE IF o.direction = "BUY" THEN 1 ELSE -1
  <2>1. o.direction \in {"BUY", "SELL"}
    BY DEF Orders
  <2>2. /\ Count(<<o>>, s, "BUY") = IF o.stg = s /\ o.direction = "BUY" THEN 1 ELSE 0
        /\ Count(<<o>>, s, "SELL") = IF o.stg = s /\ o.direction = "SELL" THEN 1 ELSE 0
    BY CountFew
  <2> QED
    BY <2>1, <2>2 DEF Net
<1> QED
  BY <1>1, <1>2

LEMMA ExplainedStep ==
  ASSUME EngineInv, EngineInv', Alone, [Next]_vars, NEW w, Workers = {w}, Explained(w)
  PROVE  Explained(w)'
<1>1. Trail \in Seq(Orders) /\ dropped \in Seq(Orders)
  BY TrailType DEF EngineInv, HistoryTypes
<1>2. /\ position \in [Strategies -> {-1, 0, 1}]
      /\ w \in Workers
  BY DEF EngineInv, LocalTypes
<1> SUFFICES ASSUME NEW s \in Strategies
             PROVE  position'[s] = Net(Trail', s) + Net(dropped', s) + Net(Pending(w)', s)
  BY DEF Explained
<1>3. /\ Net(Trail, s) \in Int /\ Net(dropped, s) \in Int
      /\ position[s] = Net(Trail, s) + Net(dropped, s) + Net(Pending(w), s)
  BY <1>1, NetConcat DEF Explained
<1>4. CASE Stores(w)
  <2> DEFINE o == order[w]
  <2>1. /\ o \in Orders /\ o \in Decisions(o.stg, position[o.stg])
        /\ position' = [position EXCEPT ![o.stg] = PositionAfter(o)]
        /\ Trail' = Trail /\ dropped' = dropped
    BY <1>2, <1>4 DEF Stores, OnTickStore, Alone, Decided, Decisions
  <2>2. Net(Pending(w), s) = 0 /\ Net(Pending(w)', s) = Net(<<o>>, s)
    BY <1>4, NetFew DEF Stores
  <2>3. Net(<<o>>, s) = IF o.stg # s THEN 0 ELSE IF o.direction = "BUY" THEN 1 ELSE -1
    BY <2>1, NetFew
  <2>4. position'[s] = position[s] + Net(<<o>>, s)
    <3> HIDE DEF o
    <3>1. CASE o.stg # s
      BY <1>2, <2>1, <2>3, <3>1
    <3>2. CASE o.stg = s
      <4>1. position'[s] = PositionAfter(o)
        BY <1>2, <2>1, <3>2
      <4>2. /\ position[s] \in {-1, 0, 1} /\ o.direction \in {"BUY", "SELL"}
            /\ o.offset = IF position[s] = 0 THEN "OPEN" ELSE "CLOSE"
            /\ position[s] > 0 => o.direction = "SELL"
            /\ position[s] < 0 => o.direction = "BUY"
        BY <1>2, <2>1, <3>2 DEF Decisions, Orders
      <4> QED
        BY <2>3, <3>2, <4>1, <4>2 DEF PositionAfter
    <3> QED
      BY <3>1, <3>2
  <2>5. Net(<<o>>, s) \in Int /\ position[s] \in Int
    BY <1>2, <2>3
  <2> QED
    BY <1>3, <2>1, <2>2, <2>4, <2>5
<1>5. CASE GetsTicket(w)
  <2>1. /\ u[w] \in Orders /\ Trail' = Append(Trail, u[w])
        /\ position' = position /\ dropped' = dropped
        /\ Pending(w) = <<u[w]>> /\ Pending(w)' = <<>>
    BY <1>5 DEF GetsTicket
  <2>2. Net(Trail', s) = Net(Trail, s) + Net(<<u[w]>>, s)
    BY <1>1, <2>1, NetAppend
  <2>3. Net(<<u[w]>>, s) \in Int
    <3>1. <<u[w]>> \in Seq(Orders)
      BY <2>1
    <3> QED
      BY <3>1, NetConcat
  <2>4. Net(Pending(w)', s) = 0
    BY <2>1, NetFew
  <2> QED
    BY <1>3, <2>1, <2>2, <2>3, <2>4
<1>6. CASE IsRefused(w)
  <2>1. /\ u[w] \in Orders /\ dropped' = Append(dropped, u[w])
        /\ position' = position /\ Trail' = Trail
        /\ Pending(w) = <<u[w]>> /\ Pending(w)' = <<>>
    BY <1>6 DEF IsRefused
  <2>2. Net(dropped', s) = Net(dropped, s) + Net(<<u[w]>>, s)
    BY <1>1, <2>1, NetAppend
  <2>3. Net(<<u[w]>>, s) \in Int
    <3>1. <<u[w]>> \in Seq(Orders)
      BY <2>1
    <3> QED
      BY <3>1, NetConcat
  <2>4. Net(Pending(w)', s) = 0
    BY <2>1, NetFew
  <2> QED
    BY <1>3, <2>1, <2>2, <2>3, <2>4
<1>7. CASE UNCHANGED <<position, Trail, dropped, Pending(w)>>
  BY <1>3, <1>7
<1> QED
  BY <1>4, <1>5, <1>6, <1>7, BookStep DEF Alone

LEMMA TheWorker ==
  ASSUME Cardinality(Workers) = 1
  PROVE  \E w : Workers = {w}
<1>1. Channel!IsFiniteSet(Workers) <=> IsFiniteSet(Workers)
  BY Zenon DEF Channel!IsFiniteSet, IsFiniteSet
<1> QED
  BY <1>1, FS_Singleton, ChannelAssumption DEF Channel!MpscAssumption

LEMMA InitTrail == Init => Trail = <<>>
<1> SUFFICES ASSUME Init PROVE Trail = <<>>
  OBVIOUS
<1>1. Ring!Places = <<>>
  <2>1. Ring!Init
    BY SameInit DEF Init
  <2> QED
    BY <2>1, ChannelConstants, Ring!InitTickets DEF Ring!Tickets!Init
<1>2. Queued = <<>>
  BY <1>1 DEF Queued
<1>3. sent = <<>> /\ pusher = "off" /\ cpc = "idle"
  BY SameInit DEF Init, Ring!Init
<1> QED
  BY <1>2, <1>3, InFlightForm DEF Trail

(* With one worker a strategy's _position is the sum of its orders,        *)
(* wherever they are, at every moment.                                     *)
THEOREM PositionExplainedAlways ==
  ASSUME Cardinality(Workers) = 1
  PROVE  Spec => []PositionExplained
<1>1. PICK w : Workers = {w}
  BY TheWorker
<1>2. Init => Alone /\ Explained(w)
  <2> SUFFICES ASSUME Init PROVE Alone /\ Explained(w)
    OBVIOUS
  <2>1. Pending(w) = <<>> /\ dropped = <<>> /\ Alone
    BY <1>1 DEF Init, Channel!Init, Pending, Alone, Decided, OwnCopy
  <2>2. Trail = <<>>
    BY InitTrail
  <2> QED
    BY <2>1, <2>2, NetFew DEF Explained, Init
<1>3. EngineInv /\ EngineInv' /\ Alone /\ Explained(w) /\ [Next]_vars
        => Alone' /\ Explained(w)'
  BY <1>1, DecidedStep, OwnCopyStep, ExplainedStep DEF Alone
<1>4. EngineInv /\ Explained(w) => PositionExplained
  BY <1>1, ExplainedIs
<1> QED
  BY <1>2, <1>3, <1>4, Inductive, PTL DEF Spec
-----------------------------------------------------------------------------
(* Every order with a ticket and the one that is pending, in order; and    *)
(* that the positions p are those of each strategy's last order in q.      *)
Booked(w) == Trail \o Pending(w)

Agrees(q, p) ==
  \A s \in Strategies :
    /\ (\A i \in 1 .. Len(q) : q[i].stg # s) => p[s] = 0
    /\ \A j \in 1 .. Len(q) :
         q[j].stg = s /\ (\A k \in j + 1 .. Len(q) : q[k].stg # s)
           => p[s] = PositionAfter(q[j])

(* PairsUp is not inductive: it needs that _position still tells what the  *)
(* last order was, and it must hold of the orders not sent yet as well.    *)
Holding(w) == dropped = <<>> => PairsUp(Booked(w)) /\ Agrees(Booked(w), position)

(* One more order onTick may return keeps the pairs.                       *)
LEMMA PairsAppend ==
  ASSUME NEW q \in Seq(Orders), NEW p \in [Strategies -> {-1, 0, 1}],
         NEW o \in Orders, o \in Decisions(o.stg, p[o.stg]),
         PairsUp(q), Agrees(q, p)
  PROVE  /\ PairsUp(Append(q, o))
         /\ Agrees(Append(q, o), [p EXCEPT ![o.stg] = PositionAfter(o)])
<1> DEFINE r == Append(q, o)
           n == Len(q)
           c == [p EXCEPT ![o.stg] = PositionAfter(o)]
<1>1. /\ n \in Nat /\ Len(r) = n + 1 /\ r[n + 1] = o
      /\ \A i \in 1 .. n : r[i] = q[i] /\ q[i] \in Orders
  BY AppendProperties, ElementOfSeq
<1>2. /\ o.stg \in Strategies /\ o.direction \in {"BUY", "SELL"}
      /\ p[o.stg] \in {-1, 0, 1}
      /\ o.offset = IF p[o.stg] = 0 THEN "OPEN" ELSE "CLOSE"
      /\ p[o.stg] > 0 => o.direction = "SELL"
      /\ p[o.stg] < 0 => o.direction = "BUY"
  BY DEF Orders, Decisions
<1>3. /\ c[o.stg] = PositionAfter(o)
      /\ \A s \in Strategies : s # o.stg => c[s] = p[s]
  BY <1>2
<1> HIDE DEF r, n, c
<1>4. ASSUME NEW j \in 1 .. n
      PROVE  /\ First(r, j) => r[j].offset = "OPEN"
             /\ \A i \in 1 .. j - 1 :
                  Consecutive(r, i, j) =>
                    /\ r[j].offset # r[i].offset
                    /\ r[j].offset = "CLOSE" => r[j].direction # r[i].direction
  <2>1. \A i \in 1 .. j : r[i] = q[i]
    BY <1>1
  <2>2. First(r, j) => First(q, j)
    BY <1>1, <2>1 DEF First
  <2>3. \A i \in 1 .. j - 1 : Consecutive(r, i, j) => Consecutive(q, i, j)
    BY <1>1, <2>1 DEF Consecutive
  <2> QED
    BY <1>1, <2>1, <2>2, <2>3 DEF PairsUp, n
<1>5. First(r, n + 1) => o.offset = "OPEN"
  <2> SUFFICES ASSUME First(r, n + 1) PROVE o.offset = "OPEN"
    OBVIOUS
  <2>1. \A i \in 1 .. n : q[i].stg # o.stg
    BY <1>1 DEF First
  <2>2. p[o.stg] = 0
    BY <1>2, <2>1 DEF Agrees, n
  <2> QED
    BY <1>2, <2>2
<1>6. ASSUME NEW i \in 1 .. n, Consecutive(r, i, n + 1)
      PROVE  /\ o.offset # r[i].offset
             /\ o.offset = "CLOSE" => o.direction # r[i].direction
  <2>1. q[i].stg = o.stg /\ \A k \in i + 1 .. n : q[k].stg # o.stg
    BY <1>1, <1>6 DEF Consecutive
  <2>2. p[o.stg] = PositionAfter(q[i])
    BY <1>2, <2>1 DEF Agrees, n
  <2>3. q[i].offset \in {"OPEN", "CLOSE"} /\ q[i].direction \in {"BUY", "SELL"}
    BY <1>1 DEF Orders
  <2>4. r[i] = q[i]
    BY <1>1
  <2> QED
    BY <1>2, <2>2, <2>3, <2>4 DEF PositionAfter
<1>7. PairsUp(r)
  <2>1. \A j \in 1 .. Len(r) : j \in 1 .. n \/ j = n + 1
    BY <1>1
  <2>2. (n + 1) - 1 = n
    BY <1>1
  <2> QED
    BY <1>1, <1>4, <1>5, <1>6, <2>1, <2>2 DEF PairsUp
<1>8. Agrees(r, c)
  <2> SUFFICES ASSUME NEW s \in Strategies
               PROVE  /\ (\A i \in 1 .. Len(r) : r[i].stg # s) => c[s] = 0
                      /\ \A j \in 1 .. Len(r) :
                           r[j].stg = s /\ (\A k \in j + 1 .. Len(r) : r[k].stg # s)
                             => c[s] = PositionAfter(r[j])
    BY DEF Agrees
  <2>1. CASE s = o.stg
    <3>1. n + 1 \in 1 .. Len(r) /\ r[n + 1].stg = s
      BY <1>1, <2>1
    <3>2. ASSUME NEW j \in 1 .. Len(r), \A k \in j + 1 .. Len(r) : r[k].stg # s
          PROVE  r[j] = o
      <4>1. n + 1 \notin j + 1 .. Len(r)
        BY <3>1, <3>2
      <4>2. j = n + 1
        BY <1>1, <4>1
      <4> QED
        BY <1>1, <4>2
    <3> QED
      BY <1>3, <2>1, <3>1, <3>2
  <2>2. CASE s # o.stg
    <3>1. c[s] = p[s]
      BY <1>3, <2>2
    <3>2. (\A i \in 1 .. Len(r) : r[i].stg # s) => \A i \in 1 .. n : q[i].stg # s
      BY <1>1
    <3>3. ASSUME NEW j \in 1 .. Len(r), r[j].stg = s,
                 \A k \in j + 1 .. Len(r) : r[k].stg # s
          PROVE  p[s] = PositionAfter(r[j])
      <4>1. j \in 1 .. n
        BY <1>1, <2>2, <3>3
      <4>2. q[j].stg = s /\ \A k \in j + 1 .. n : q[k].stg # s
        BY <1>1, <3>3, <4>1
      <4> QED
        BY <1>1, <4>1, <4>2 DEF Agrees, n
    <3> QED
      BY <3>1, <3>2, <3>3 DEF Agrees, n
  <2> QED
    BY <2>1, <2>2
<1> QED
  BY <1>7, <1>8 DEF r, c

LEMMA PairsPrefix ==
  ASSUME NEW q \in Seq(Orders), NEW r \in Seq(Orders), PairsUp(q \o r)
  PROVE  PairsUp(q)
<1>1. /\ Len(q) \in Nat /\ Len(r) \in Nat /\ Len(q \o r) = Len(q) + Len(r)
      /\ \A i \in 1 .. Len(q) : (q \o r)[i] = q[i]
  BY ConcatProperties
<1> SUFFICES ASSUME NEW j \in 1 .. Len(q)
             PROVE  /\ First(q, j) => q[j].offset = "OPEN"
                    /\ \A i \in 1 .. j - 1 :
                         Consecutive(q, i, j) =>
                           /\ q[j].offset # q[i].offset
                           /\ q[j].offset = "CLOSE" => q[j].direction # q[i].direction
  BY DEF PairsUp
<1>2. j \in 1 .. Len(q \o r) /\ \A i \in 1 .. j : (q \o r)[i] = q[i]
  BY <1>1
<1>3. First(q, j) => First(q \o r, j)
  BY <1>1, <1>2 DEF First
<1>4. \A i \in 1 .. j - 1 : Consecutive(q, i, j) => Consecutive(q \o r, i, j)
  BY <1>1, <1>2 DEF Consecutive
<1> QED
  BY <1>1, <1>2, <1>3, <1>4 DEF PairsUp

LEMMA HoldingStep ==
  ASSUME EngineInv, EngineInv', Alone, [Next]_vars, NEW w, Workers = {w}, Holding(w)
  PROVE  Holding(w)'
<1>1. /\ Trail \in Seq(Orders) /\ dropped \in Seq(Orders) /\ Trail' \in Seq(Orders)
      /\ position \in [Strategies -> {-1, 0, 1}]
      /\ w \in Workers
      /\ Booked(w)' = Trail' \o Pending(w)'
  <2>1. EngineInv' => OrdersInTrail'
    BY TrailIsOrders, PTL
  <2> QED
    BY <2>1, TrailType DEF EngineInv, HistoryTypes, LocalTypes, Booked, OrdersInTrail
<1> SUFFICES ASSUME dropped' = <<>>
             PROVE  PairsUp(Booked(w)') /\ Agrees(Booked(w)', position')
  BY DEF Holding, Agrees, PairsUp, First, Consecutive
<1>2. CASE Stores(w)
  <2> DEFINE o == order[w]
  <2>1. /\ o \in Orders /\ o \in Decisions(o.stg, position[o.stg])
        /\ position' = [position EXCEPT ![o.stg] = PositionAfter(o)]
        /\ Trail' = Trail /\ dropped = <<>>
    BY <1>1, <1>2 DEF Stores, OnTickStore, Alone, Decided, Decisions
  <2>2. Booked(w) = Trail
    BY <1>1, <1>2, ConcatEmptySeq DEF Stores, Booked
  <2>3. Booked(w)' = Append(Trail, o)
    BY <1>1, <1>2, <2>1, AppendIsConcat DEF Stores
  <2>4. PairsUp(Trail) /\ Agrees(Trail, position)
    BY <2>1, <2>2 DEF Holding
  <2> HIDE DEF o
  <2> QED
    BY <1>1, <2>1, <2>3, <2>4, PairsAppend
<1>3. CASE GetsTicket(w)
  <2>1. Booked(w) = Append(Trail, u[w])
    BY <1>1, <1>3, AppendIsConcat DEF GetsTicket, Booked
  <2>2. Booked(w)' = Trail'
    BY <1>1, <1>3, ConcatEmptySeq DEF GetsTicket
  <2>3. Booked(w)' = Booked(w) /\ position' = position /\ dropped = <<>>
    BY <1>3, <2>1, <2>2 DEF GetsTicket
  <2> QED
    BY <2>3 DEF Holding
<1>4. CASE IsRefused(w)
  <2>1. dropped' = Append(dropped, u[w]) /\ u[w] \in Orders
    BY <1>4 DEF IsRefused
  <2>2. Append(dropped, u[w]) # <<>>
    BY <1>1, <2>1, AppendProperties
  <2> QED
    BY <2>1, <2>2
<1>5. CASE UNCHANGED <<position, Trail, dropped, Pending(w)>>
  <2>1. PairsUp(Booked(w)) /\ Agrees(Booked(w), position)
    BY <1>5 DEF Holding
  <2>2. Booked(w)' = Booked(w) /\ position' = position
    BY <1>1, <1>5 DEF Booked
  <2> QED
    BY <2>1, <2>2
<1> QED
  BY <1>2, <1>3, <1>4, <1>5, BookStep DEF Alone

(* With one worker, as long as the channel refuses nothing, what leaves    *)
(* the engine is OPEN, CLOSE, OPEN, ... of each strategy.                  *)
THEOREM TradesPairUpAlways ==
  ASSUME Cardinality(Workers) = 1
  PROVE  Spec => []TradesPairUp
<1>1. PICK w : Workers = {w}
  BY TheWorker
<1>2. Init => Alone /\ Holding(w)
  <2> SUFFICES ASSUME Init PROVE Alone /\ Holding(w)
    OBVIOUS
  <2>1. Pending(w) = <<>> /\ Alone /\ position = [s \in Strategies |-> 0]
    BY <1>1 DEF Init, Channel!Init, Pending, Alone, Decided, OwnCopy
  <2>2. Booked(w) = <<>>
    BY <2>1, InitTrail, ConcatEmptySeq, EmptySeq DEF Booked
  <2> QED
    BY <2>1, <2>2 DEF Holding, PairsUp, Agrees
<1>3. EngineInv /\ EngineInv' /\ Alone /\ Holding(w) /\ [Next]_vars
        => Alone' /\ Holding(w)'
  BY <1>1, DecidedStep, OwnCopyStep, HoldingStep DEF Alone
<1>4. EngineInv /\ Holding(w) => TradesPairUp
  <2> SUFFICES ASSUME EngineInv, Holding(w), dropped = <<>> PROVE PairsUp(sent)
    BY DEF TradesPairUp
  <2>1. /\ sent \in Seq(Orders) /\ InFlight \in Seq(Orders)
        /\ Pending(w) \in Seq(Orders)
    BY <1>1, TrailType, PendingType
  <2>2. InFlight \o Pending(w) \in Seq(Orders)
    BY <2>1, ConcatProperties
  <2>3. Booked(w) = sent \o (InFlight \o Pending(w))
    BY <2>1, ConcatAssociative DEF Booked, Trail
  <2> QED
    BY <2>1, <2>2, <2>3, PairsPrefix DEF Holding
<1> QED
  BY <1>2, <1>3, <1>4, Inductive, PTL DEF Spec
=============================================================================
