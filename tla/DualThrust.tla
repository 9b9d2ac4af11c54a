----------------------------- MODULE DualThrust -----------------------------
(***************************************************************************)
(* DualThrust of src/stra_cta/dual_thrust.hpp: opens when the price is     *)
(* half of the range so far above (below) the first price, and closes when *)
(* it is back across the first price, to begin anew with the next tick.    *)
(***************************************************************************)
EXTENDS Doubles

CONSTANT NoOrder        \* std::nullopt

VARIABLES initialized,  \* _initialized
          open,         \* _open
          max,          \* _max
          min,          \* _min
          position,     \* _position
          order         \* what the last onTick returned

vars == <<initialized, open, max, min, position, order>>

Init == /\ initialized = FALSE
        /\ open = 0
        /\ max = 0
        /\ min = 0
        /\ position = 0
        /\ order = NoOrder

(* _open, _max and _min with the tick's price.                             *)
Observe(last) == /\ open' = IF initialized THEN open ELSE last
                 /\ max' = IF initialized THEN StdMax(max, last) ELSE last
                 /\ min' = IF initialized THEN StdMin(min, last) ELSE last

(* last >= buy_threshold and last <= sell_threshold, multiplied by 2.      *)
Twice(x)    == Plus(x, x)
Range       == Minus(max', min')
Buys(last)  == AtLeast(Twice(last), Plus(Twice(open'), Range))
Sells(last) == AtLeast(Minus(Twice(open'), Range), Twice(last))

(* Mutant: the sell threshold is looked at first.                          *)
SellFirst(last) == IF Sells(last) THEN -1 ELSE IF Buys(last) THEN 1 ELSE 0

(* The position opened, 0 for none.                                        *)
Side(last) == IF Buys(last) THEN 1 ELSE IF Sells(last) THEN -1 ELSE 0

(* Mutant: the comparison with the first price is the wrong way round.     *)
CrossesSwapped(last) == IF position > 0 THEN Less(open', last) ELSE Less(last, open')

Crosses(last) == IF position > 0 THEN Less(last, open') ELSE Less(open', last)

Open(last) == /\ position = 0
              /\ Side(last) # 0
              /\ position' = Side(last)
              /\ order' = [direction |-> IF Side(last) > 0 THEN "BUY" ELSE "SELL",
                           offset    |-> "OPEN"]
              /\ initialized' = TRUE

(* Mutant: the closing order has the direction of the opening one.         *)
CloseSameWay(last) == /\ position # 0
                      /\ Crosses(last)
                      /\ position' = 0
                      /\ order' = [direction |-> IF position > 0 THEN "BUY" ELSE "SELL",
                                   offset    |-> "CLOSE"]
                      /\ initialized' = FALSE

Close(last) == /\ position # 0
               /\ Crosses(last)
               /\ position' = 0
               /\ order' = [direction |-> IF position > 0 THEN "SELL" ELSE "BUY",
                            offset    |-> "CLOSE"]
               /\ initialized' = FALSE

Nothing(last) == /\ IF position = 0 THEN Side(last) = 0 ELSE ~Crosses(last)
                 /\ order' = NoOrder
                 /\ UNCHANGED position
                 /\ initialized' = TRUE

OnTick(last) == /\ Observe(last)
                /\ \/ Open(last)
                   \/ Close(last)
                   \/ Nothing(last)
=============================================================================
