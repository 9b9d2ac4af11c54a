-------------------------- MODULE TickParserProofs --------------------------
(***************************************************************************)
(* Proofs about BarGenerator, for every interval and every sequence of     *)
(* ticks, in or out of order: a bar is what its ticks say, and no volume   *)
(* is lost or counted twice.                                               *)
(***************************************************************************)
EXTENDS TickParser, TLAPS

(* The histories are there as soon as there is a bar.                      *)
HistoryThere == IF current = NoBar THEN began = NoTick /\ several = FALSE
                ELSE /\ current \in Bars
                     /\ began \in Ticks /\ opened \in Ticks /\ last \in Ticks

(* _last_bar_vol, a sum of differences, is the volume at which the current *)
(* bar began to count.                                                     *)
VolumeAtStart == current # NoBar =>
                   /\ last_bar_vol = began.volume + counted
                   /\ current.volume = IF several THEN last.volume - last_bar_vol ELSE 0

IndInv == TypeOK /\ HistoryThere /\ VolumeAtStart /\ BarIsItsTicks

-----------------------------------------------------------------------------
(* Rounding down to the interval stays within the natural numbers.         *)
LEMMA FloorType ==
  ASSUME NEW time \in Nat
  PROVE  FloorToInterval(time) \in Nat
<1>1. Interval \in Nat \ {0}
  BY TickParserAssumption
<1>2. time % Interval \in 0 .. (Interval - 1) /\ time % Interval <= time
  BY <1>1, SMT
<1> QED
  BY <1>1, <1>2 DEF FloorToInterval

LEMMA TickFields ==
  ASSUME NEW t \in Ticks
  PROVE  /\ t.time \in Nat /\ t.price \in Int /\ t.volume \in Nat
         /\ t.price \in Prices /\ t.volume \in Volumes
         /\ t # NoTick
BY TickParserAssumption DEF Ticks

LEMMA NewBarFields ==
  ASSUME NEW t \in Ticks
  PROVE  /\ NewBar(t) \in Bars
         /\ NewBar(t) # NoBar
         /\ NewBar(t).stamp_start = FloorToInterval(t.time)
         /\ NewBar(t).stamp_last = t.time
         /\ NewBar(t).open = t.price
         /\ NewBar(t).high = t.price
         /\ NewBar(t).low = t.price
         /\ NewBar(t).close = t.price
         /\ NewBar(t).volume = 0
<1>1. NewBar(t) \in Bars
  BY TickFields, FloorType DEF NewBar, Bars
<1> QED
  BY <1>1, TickParserAssumption DEF NewBar

LEMMA InitInv == Init => IndInv
<1> SUFFICES ASSUME Init PROVE IndInv
  OBVIOUS
<1>1. TypeOK
  <2>1. /\ current \in Bars \cup {NoBar}
        /\ {began, opened, last} \subseteq Ticks \cup {NoTick}
        /\ prices \subseteq Prices
    BY DEF Init
  <2>2. last_bar_vol \in Volumes \cup {0} /\ counted \in Int
    BY DEF Init
  <2>3. several \in BOOLEAN
    BY DEF Init
  <2> QED
    BY <2>1, <2>2, <2>3 DEF TypeOK
<1>2. HistoryThere /\ VolumeAtStart /\ BarIsItsTicks
  BY DEF Init, HistoryThere, VolumeAtStart, BarIsItsTicks
<1> QED
  BY <1>1, <1>2 DEF IndInv

(* The first tick of a bar, be it the first of all or not.                 *)
LEMMA BarBegins ==
  ASSUME IndInv, NEW t \in Ticks,
         current' = NewBar(t), Begins(t), last' = t,
         began' = (IF began = NoTick THEN t ELSE began),
         \/ FirstTick(t)
         \/ NextBar(t)
  PROVE  IndInv'
<1>1. /\ opened' = t /\ prices' = {t.price} /\ several' = FALSE
      /\ counted' = IF current = NoBar THEN 0 ELSE counted + current.volume
  BY DEF Begins
<1>2. /\ last_bar_vol' \in Volumes \cup {0} /\ counted' \in Int
      /\ began' \in Ticks
      /\ last_bar_vol' = began'.volume + counted'
  <2>1. CASE FirstTick(t)
    <3>1. current = NoBar /\ last_bar_vol' = t.volume
      BY <2>1 DEF FirstTick
    <3>2. began = NoTick
      BY <3>1 DEF IndInv, HistoryThere
    <3> QED
      BY <1>1, <3>1, <3>2, TickFields
  <2>2. CASE NextBar(t)
    <3>1. current # NoBar /\ last_bar_vol' = last_bar_vol + current.volume
      BY <2>2 DEF NextBar, Another
    <3>2. /\ began' = began /\ began \in Ticks /\ last \in Ticks /\ began # NoTick
          /\ current \in Bars
      BY <3>1, TickFields DEF IndInv, HistoryThere
    <3>3. /\ counted \in Int /\ last_bar_vol \in Volumes \cup {0}
          /\ current.volume \in Int /\ began.volume \in Nat
          /\ last.volume \in Volumes /\ Volumes \subseteq Nat
      BY <3>2, TickFields, TickParserAssumption DEF IndInv, TypeOK, Bars
    <3>4. /\ last_bar_vol = began.volume + counted
          /\ current.volume = IF several THEN last.volume - last_bar_vol ELSE 0
      BY <3>1 DEF IndInv, VolumeAtStart
    <3>5. last_bar_vol \in Int /\ last.volume \in Int
      BY <3>2, TickFields, TickParserAssumption DEF IndInv, TypeOK
    <3>6. last_bar_vol' = (IF several THEN last.volume ELSE last_bar_vol)
      BY <3>1, <3>4, <3>5
    <3> QED
      BY <1>1, <3>1, <3>2, <3>3, <3>4, <3>5, <3>6
  <2> QED
    BY <2>1, <2>2
<1>3. TypeOK'
  BY <1>1, <1>2, NewBarFields, TickFields DEF IndInv, TypeOK
<1>4. HistoryThere'
  BY <1>1, <1>2, NewBarFields DEF HistoryThere
<1>5. VolumeAtStart'
  BY <1>1, <1>2, NewBarFields DEF VolumeAtStart
<1>6. BarIsItsTicks'
  BY <1>1, NewBarFields, TickFields DEF BarIsItsTicks
<1> QED
  BY <1>3, <1>4, <1>5, <1>6 DEF IndInv

LEMMA BarContinues ==
  ASSUME IndInv, NEW t \in Ticks, SameBar(t), Continues(t), last' = t,
         began' = (IF began = NoTick THEN t ELSE began)
  PROVE  IndInv'
<1>1. /\ current # NoBar /\ current \in Bars
      /\ began' = began /\ began \in Ticks /\ opened \in Ticks
      /\ FloorToInterval(t.time) = current.stamp_start
  BY TickFields DEF SameBar, Another, IndInv, HistoryThere
<1>2. /\ prices' = prices \cup {t.price} /\ several' = TRUE
      /\ UNCHANGED <<opened, counted, last_bar_vol>>
  BY DEF Continues, SameBar
<1>3. /\ current.stamp_start \in Nat /\ current.open \in Int /\ current.high \in Int
      /\ current.low \in Int
      /\ last_bar_vol \in Int /\ t.time \in Nat /\ t.price \in Int /\ t.volume \in Nat
      /\ t.price \in Prices /\ prices \subseteq Int
  BY <1>1, TickFields, TickParserAssumption DEF Bars, IndInv, TypeOK
<1>4. /\ Higher(current.high, t.price) \in {current.high, t.price}
      /\ Higher(current.high, t.price) >= current.high
      /\ Higher(current.high, t.price) >= t.price
      /\ Lower(current.low, t.price) \in {current.low, t.price}
      /\ Lower(current.low, t.price) <= current.low
      /\ Lower(current.low, t.price) <= t.price
  BY <1>3 DEF Higher, Lower
<1>5. /\ current'.stamp_start = current.stamp_start
      /\ current'.stamp_last = t.time
      /\ current'.open = current.open
      /\ current'.high = Higher(current.high, t.price)
      /\ current'.low = Lower(current.low, t.price)
      /\ current'.close = t.price
      /\ current'.volume = t.volume - last_bar_vol
      /\ current' \in Bars
  <2>1. current' = [stamp_start |-> current.stamp_start, stamp_last |-> t.time,
                    open |-> current.open, high |-> Higher(current.high, t.price),
                    low |-> Lower(current.low, t.price), close |-> t.price,
                    volume |-> t.volume - last_bar_vol]
    BY <1>1 DEF SameBar, Bars
  <2>2. /\ Higher(current.high, t.price) \in Int /\ Lower(current.low, t.price) \in Int
        /\ t.volume - last_bar_vol \in Int
    BY <1>3, <1>4
  <2> QED
    BY <1>3, <2>1, <2>2 DEF Bars
<1>6. current' # NoBar
  BY <1>5, TickParserAssumption
<1>7. TypeOK'
  BY <1>1, <1>2, <1>3, <1>5 DEF IndInv, TypeOK
<1>8. HistoryThere'
  BY <1>1, <1>2, <1>5, <1>6 DEF HistoryThere
<1>9. VolumeAtStart'
  BY <1>1, <1>2, <1>5, <1>6 DEF IndInv, VolumeAtStart
<1>10. BarIsItsTicks'
  <2>1. /\ current.open = opened.price
        /\ current.high \in prices /\ \A p \in prices : p <= current.high
        /\ current.low \in prices /\ \A p \in prices : current.low <= p
        /\ FloorToInterval(opened.time) = current.stamp_start
    BY <1>1 DEF IndInv, BarIsItsTicks
  <2>2. /\ current'.high \in prices' /\ \A p \in prices' : p <= current'.high
        /\ current'.low \in prices' /\ \A p \in prices' : current'.low <= p
    BY <1>2, <1>3, <1>4, <1>5, <2>1
  <2> QED
    BY <1>1, <1>2, <1>5, <2>1, <2>2 DEF BarIsItsTicks
<1> QED
  BY <1>7, <1>8, <1>9, <1>10 DEF IndInv

(* The strengthening is an invariant of the bar generator.                 *)
THEOREM Inductive == Spec => []IndInv
<1>1. IndInv /\ [Next]_vars => IndInv'
  <2> SUFFICES ASSUME IndInv, [Next]_vars PROVE IndInv'
    OBVIOUS
  <2>1. ASSUME NEW t \in Ticks, ProcessTick(t) PROVE IndInv'
    <3>1. /\ last' = t
          /\ began' = IF began = NoTick THEN t ELSE began
      BY <2>1 DEF ProcessTick
    <3>2. CASE FirstTick(t) /\ Begins(t)
      BY <3>1, <3>2, BarBegins DEF FirstTick
    <3>3. CASE NextBar(t) /\ Begins(t)
      BY <3>1, <3>3, BarBegins DEF NextBar
    <3>4. CASE SameBar(t) /\ Continues(t)
      BY <3>1, <3>4, BarContinues
    <3> QED
      BY <2>1, <3>2, <3>3, <3>4 DEF ProcessTick
  <2>2. CASE UNCHANGED vars
    BY <2>2 DEF vars, history, IndInv, TypeOK, HistoryThere, VolumeAtStart, BarIsItsTicks
  <2> QED
    BY <2>1, <2>2 DEF Next
<1> QED
  BY InitInv, <1>1, PTL DEF Spec

(* The types, and that _last_bar_vol is always the volume of some tick.    *)
THEOREM TypeCorrect == Spec => []TypeOK
BY Inductive, PTL DEF IndInv

(* Every bar is what its ticks say.                                        *)
THEOREM BarIsItsTicksAlways == Spec => []BarIsItsTicks
BY Inductive, PTL DEF IndInv

(* The volumes of the bars add up to what was traded.                      *)
THEOREM VolumeConservedAlways == Spec => []VolumeConserved
<1>1. IndInv => VolumeConserved
  <2> SUFFICES ASSUME IndInv PROVE VolumeConserved
    OBVIOUS
  <2>1. several => current # NoBar
    BY DEF IndInv, HistoryThere
  <2>2. CASE current = NoBar
    BY <2>1, <2>2 DEF VolumeConserved, IndInv, TypeOK
  <2>3. CASE current # NoBar
    <3>1. /\ counted \in Int /\ last_bar_vol \in Int
          /\ began.volume \in Nat /\ last.volume \in Nat
      BY <2>3, TickFields, TickParserAssumption DEF IndInv, TypeOK, HistoryThere
    <3> QED
      BY <2>3, <3>1 DEF IndInv, VolumeAtStart, VolumeConserved
  <2> QED
    BY <2>2, <2>3
<1> QED
  BY Inductive, <1>1, PTL
=============================================================================
