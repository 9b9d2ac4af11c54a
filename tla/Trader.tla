------------------------------- MODULE Trader -------------------------------
(***************************************************************************)
(* What every strategy of src/stra_cta promises, whatever the prices: with *)
(* no position it opens one or does nothing, with a position it closes it  *)
(* or does nothing, and it says so by the order it returns.  This is the   *)
(* strategy the module CtaEngine runs (its Decisions and PositionAfter).   *)
(***************************************************************************)
EXTENDS Integers

CONSTANT NoOrder        \* std::nullopt

VARIABLES position,     \* _position: 1 long, -1 short, 0 none
          order         \* what the last onTick returned

Opening(side) == [direction |-> IF side > 0 THEN "BUY" ELSE "SELL", offset |-> "OPEN"]
Closing(side) == [direction |-> IF side > 0 THEN "SELL" ELSE "BUY", offset |-> "CLOSE"]

Init == /\ position = 0
        /\ order = NoOrder

Open(side) == /\ position = 0
              /\ position' = side
              /\ order' = Opening(side)

Close == /\ position # 0
         /\ position' = 0
         /\ order' = Closing(position)

Nothing == /\ order' = NoOrder
           /\ UNCHANGED position

Next == \/ \E side \in {1, -1} : Open(side)
        \/ Close
        \/ Nothing

Spec == Init /\ [][Next]_<<position, order>>
=============================================================================
