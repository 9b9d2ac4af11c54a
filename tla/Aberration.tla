----------------------------- MODULE Aberration -----------------------------
(***************************************************************************)
(* Aberration of src/stra_cta/aberration.hpp: opens when the price is more *)
(* than two standard deviations off the mean of the last N prices (100 in  *)
(* the code), the price itself included, closes when it is back across the *)
(* mean.  Its operators are rolling::Meaner and rolling::Stder.            *)
(*                                                                         *)
(* With S the sum and Q the sum of squares of the window, the mean is S/N  *)
(* and the variance (Q - S*S/N)/(N-1).  Comparisons with them are          *)
(* multiplied out, so that they stay in the integers.                      *)
(***************************************************************************)
EXTENDS Rolling

CONSTANT NoOrder        \* std::nullopt

VARIABLES meaner,       \* the Sumer of _meaner
          sumer,        \* sumer of _stder
          sq_sumer,     \* sq_sumer of _stder
          position,     \* _position
          order         \* what the last onTick returned

vars == <<meaner, sumer, sq_sumer, position, order>>

Init == /\ meaner = NewSumer
        /\ sumer = NewSumer
        /\ sq_sumer = NewSumer
        /\ position = 0
        /\ order = NoOrder

(* N times the distance of the price from the mean m/N, NaN without mean.  *)
OffMean(last, m) == IF NanOrInf(last) \/ NanOrInf(m) THEN NaN ELSE N * last - m

(* Mutant: the variance is divided by N.                                   *)
OverBandPopulation(dist, s, q) == /\ ~NanOrInf(s) /\ ~NanOrInf(q)
                                  /\ Less(0, dist)
                                  /\ dist * dist > 4 * (N * q - s * s)

(* Is a price dist/N off the mean more than two standard deviations above? *)
OverBand(dist, s, q) == /\ ~NanOrInf(s) /\ ~NanOrInf(q)
                        /\ Less(0, dist)
                        /\ dist * dist * (N - 1) > 4 * N * (N * q - s * s)

Times(side, dist) == IF NanOrInf(dist) THEN NaN ELSE side * dist

Breaks(side, dist) == OverBand(Times(side, dist), Returned(sumer'), Returned(sq_sumer'))

Crosses(dist) == Less(Times(position, dist), 0)

Open(side, dist) == /\ position = 0
                    /\ Breaks(side, dist)
                    /\ position' = side
                    /\ order' = [direction |-> IF side > 0 THEN "BUY" ELSE "SELL",
                                 offset    |-> "OPEN"]

(* Mutant: closing does not look at the mean's side.                       *)
CloseAnyhow(dist) == /\ position # 0
                     /\ position' = 0
                     /\ order' = [direction |-> IF position > 0 THEN "SELL" ELSE "BUY",
                                  offset    |-> "CLOSE"]

Close(dist) == /\ position # 0
               /\ Crosses(dist)
               /\ position' = 0
               /\ order' = [direction |-> IF position > 0 THEN "SELL" ELSE "BUY",
                            offset    |-> "CLOSE"]

Nothing(dist) == /\ IF position = 0 THEN \A side \in {1, -1} : ~Breaks(side, dist)
                                    ELSE ~Crosses(dist)
                 /\ order' = NoOrder
                 /\ UNCHANGED position

OnTick(last) == /\ meaner' = Update(meaner, last)
                /\ sumer' = Update(sumer, last)
                /\ sq_sumer' = Update(sq_sumer, Square(last))
                /\ LET dist == OffMean(last, Returned(meaner'))
                   IN  \/ \E side \in {1, -1} : Open(side, dist)
                       \/ Close(dist)
                       \/ Nothing(dist)
=============================================================================
