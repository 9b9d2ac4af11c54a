---------------------------- MODULE MCStrategies ----------------------------
(* Strategies on feeds of few prices each, in which any two of the finite  *)
(* prices, NaN and the infinities meet.                                    *)
EXTENDS Strategies

CONSTANT Feeds          \* sets of prices

VARIABLE feed           \* the one the ticks come from

MCInit == /\ Init
          /\ feed \in Feeds

MCNext == /\ \E last \in feed : OnTick(last)
          /\ UNCHANGED feed

MCSpec == MCInit /\ [][MCNext]_<<vars, feed>>
=============================================================================
