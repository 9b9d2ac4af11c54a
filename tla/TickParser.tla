----------------------------- MODULE TickParser -----------------------------
(***************************************************************************)
(* BarGenerator of src/parser/tick_parser.hpp: the ticks of an instrument  *)
(* become bars of Interval seconds.  A tick carries the volume of the      *)
(* whole day, a bar the volume traded in it, so the generator keeps the    *)
(* volume at which the bar began.                                          *)
(*                                                                         *)
(* A tick is its time (0, the epoch, if it cannot be parsed), its price    *)
(* and the day's volume.  Nothing is assumed of their order: a tick may    *)
(* be late, and the volume begins again with a new day.  Milliseconds,     *)
(* adj and symbol are left out; amount goes the way of volume and oi that  *)
(* of close.                                                               *)
(***************************************************************************)
EXTENDS Integers

CONSTANTS Interval,     \* _interval
          Times, Prices, Volumes,       \* of the ticks
          NoBar, NoTick

Ticks == [time : Times, price : Prices, volume : Volumes]
Bars  == [stamp_start : Nat, stamp_last : Nat, open : Int, high : Int, low : Int,
          close : Int, volume : Int]

ASSUME TickParserAssumption ==
  /\ Interval \in Nat \ {0}
  /\ Times \subseteq Nat /\ Prices \subseteq Int /\ Volumes \subseteq Nat
  /\ NoBar \notin Bars /\ NoTick \notin Ticks

VARIABLES current,      \* _current
          last_bar_vol, \* _last_bar_vol
          began,        \* history: the first tick of all
          opened,       \* history: the first tick of the current bar
          last,         \* history: the last tick
          prices,       \* history: the prices in the current bar
          several,      \* history: has the current bar two ticks or more?
          counted       \* history: the volumes of the closed bars, added up

history == <<began, opened, last, prices, several, counted>>
vars    == <<current, last_bar_vol, history>>

Init == /\ current = NoBar
        /\ last_bar_vol = 0
        /\ began = NoTick /\ opened = NoTick /\ last = NoTick
        /\ prices = {}
        /\ several = FALSE
        /\ counted = 0

FloorToInterval(time) == time - (time % Interval)

NewBar(t) == [stamp_start |-> FloorToInterval(t.time), stamp_last |-> t.time,
              open |-> t.price, high |-> t.price, low |-> t.price, close |-> t.price,
              volume |-> 0]

FirstTick(t) == /\ current = NoBar
                /\ last_bar_vol' = t.volume
                /\ current' = NewBar(t)

Another(t) == current # NoBar /\ FloorToInterval(t.time) # current.stamp_start

(* Mutant: the bar begins at the volume of its own first tick.             *)
NextBarFromTick(t) == /\ Another(t)
                      /\ last_bar_vol' = t.volume
                      /\ current' = NewBar(t)

(* Mutant: the new bar is the old one with other prices.                   *)
NextBarKeepsVolume(t) == /\ Another(t)
                         /\ last_bar_vol' = last_bar_vol + current.volume
                         /\ current' = [NewBar(t) EXCEPT !.volume = current.volume]

(* _current is closed and the next bar begins.                             *)
NextBar(t) == /\ Another(t)
              /\ last_bar_vol' = last_bar_vol + current.volume
              /\ current' = NewBar(t)

Higher(x, y) == IF x < y THEN y ELSE x
Lower(x, y)  == IF y < x THEN y ELSE x

(* Mutant: a new high is not looked at for the low.                        *)
SameBarElse(t) == /\ current # NoBar /\ ~Another(t)
                  /\ current' = [current EXCEPT !.stamp_last = t.time,
                                                !.high   = Higher(@, t.price),
                                                !.low    = Higher(@, t.price),
                                                !.close  = t.price,
                                                !.volume = t.volume - last_bar_vol]
                  /\ UNCHANGED last_bar_vol

(* Still within the bar.                                                   *)
SameBar(t) == /\ current # NoBar /\ ~Another(t)
              /\ current' = [current EXCEPT !.stamp_last = t.time,
                                            !.high   = Higher(@, t.price),
                                            !.low    = Lower(@, t.price),
                                            !.close  = t.price,
                                            !.volume = t.volume - last_bar_vol]
              /\ UNCHANGED last_bar_vol

Begins(t) == /\ opened' = t
             /\ prices' = {t.price}
             /\ several' = FALSE
             /\ counted' = IF current = NoBar THEN 0 ELSE counted + current.volume

Continues(t) == /\ prices' = prices \cup {t.price}
                /\ several' = TRUE
                /\ UNCHANGED <<opened, counted>>

ProcessTick(t) == /\ \/ FirstTick(t) /\ Begins(t)
                     \/ NextBar(t) /\ Begins(t)
                     \/ SameBar(t) /\ Continues(t)
                  /\ began' = IF began = NoTick THEN t ELSE began
                  /\ last' = t

Next == \E t \in Ticks : ProcessTick(t)

Spec == Init /\ [][Next]_vars

-----------------------------------------------------------------------------
(* _last_bar_vol is a sum of differences and yet always the volume of some *)
(* tick (or its initial 0).                                                *)
TypeOK == /\ current \in Bars \cup {NoBar}
          /\ last_bar_vol \in Volumes \cup {0}
          /\ {began, opened, last} \subseteq Ticks \cup {NoTick}
          /\ prices \subseteq Prices
          /\ several \in BOOLEAN
          /\ counted \in Int

(* A bar is what its ticks say and nothing of the bar before, also when a  *)
(* late tick goes back to an earlier interval.                             *)
BarIsItsTicks ==
  current # NoBar =>
    /\ current.open = opened.price
    /\ current.close = last.price
    /\ current.high \in prices /\ \A p \in prices : p <= current.high
    /\ current.low \in prices /\ \A p \in prices : current.low <= p
    /\ current.stamp_last = last.time
    /\ {FloorToInterval(opened.time), FloorToInterval(last.time)} = {current.stamp_start}

(* No volume is lost or counted twice, in whatever order ticks come: with  *)
(* the second tick of a bar the closed bars and this one add up to what    *)
(* was traded since the first tick of all.  A bar of one tick counts 0,    *)
(* and its volume goes to the bar after it; when the day's volume begins   *)
(* again, what it has fallen by is subtracted.                             *)
VolumeConserved ==
  IF several THEN counted + current.volume = last.volume - began.volume
             ELSE current # NoBar => current.volume = 0
=============================================================================
