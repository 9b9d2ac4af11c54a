----------------------------- MODULE Strategies -----------------------------
(***************************************************************************)
(* The two strategies of src/stra_cta on one stream of ticks, as in the    *)
(* task of engine_cta.hpp, which gives each tick to every strategy of its  *)
(* symbol in turn.                                                         *)
(***************************************************************************)
EXTENDS Rolling, Sequences

CONSTANTS Prices,       \* the prices a tick may have
          NoOrder

ASSUME StrategiesAssumption == Prices \subseteq Double

VARIABLES meaner, sumer, sq_sumer, a_position, a_order,         \* Aberration
          initialized, open, max, min, d_position, d_order,     \* DualThrust
          seen,         \* history: the last N prices, oldest first
          entry         \* history: the price DualThrust opened at last

abb  == <<meaner, sumer, sq_sumer, a_position, a_order>>
dual == <<initialized, open, max, min, d_position, d_order>>
vars == <<abb, dual, seen, entry>>

A == INSTANCE Aberration WITH position <- a_position, order <- a_order
D == INSTANCE DualThrust WITH position <- d_position, order <- d_order

Init == /\ A!Init
        /\ D!Init
        /\ seen = [i \in 1 .. N |-> NaN]
        /\ entry = NaN

OnTick(last) == /\ A!OnTick(last)
                /\ D!OnTick(last)
                /\ seen' = Append(Tail(seen), last)
                /\ entry' = IF d_position = 0 /\ d_position' # 0 THEN last ELSE entry

Next == \E last \in Prices : OnTick(last)

Spec == Init /\ [][Next]_vars

-----------------------------------------------------------------------------
TypeOK == /\ {meaner, sumer, sq_sumer} \subseteq Sumers
          /\ \A s \in {meaner, sumer, sq_sumer} : s.nan_count <= N
          /\ a_position \in {-1, 0, 1}
          /\ initialized \in BOOLEAN
          /\ {open, max, min} \subseteq Double
          /\ d_position \in {-1, 0, 1}

(* The definitions rolling.hpp computes step by step, over the last N      *)
(* prices.  The squared distances of all pairs add up to N*(N-1) times the *)
(* variance.                                                               *)
Upto(f)  == LET sum[i \in 0 .. N] == IF i = 0 THEN 0 ELSE sum[i - 1] + f[i] IN sum
SumOf(f) == Upto(f)[N]

NansSeen    == SumOf([i \in 1 .. N |-> Nans(seen[i])])
SumSeen     == SumOf([i \in 1 .. N |-> Amount(seen[i])])
SquaresSeen == SumOf([i \in 1 .. N |-> Amount(Square(seen[i]))])
PairsSeen   == SumOf([i \in 1 .. N |->
                        SumOf([j \in 1 .. N |-> Square(seen[i] - seen[j])])]) \div 2

price == seen[N]
Off   == N * price - SumSeen

BandBroken(side) == /\ NansSeen = 0
                    /\ side * Off > 0
                    /\ Off * Off * (N - 1) > 4 * N * PairsSeen

(* Sumer keeps the sum and the number of NaNs of the last N values exactly,*)
(* through NaNs that come and go and however often the window has turned.  *)
WindowExact ==
  /\ \A s \in {meaner, sumer} : s.nan_count = NansSeen /\ s.sum = SumSeen
  /\ sq_sumer.nan_count = NansSeen /\ sq_sumer.sum = SquaresSeen

(* Aberration without a position opens exactly when the window holds N     *)
(* finite prices and the last of them is beyond two standard deviations of *)
(* these, and in the direction of the break.                               *)
OpensAtBand ==
  [][a_position = 0 => \A side \in {1, -1} : a_position' = side <=> BandBroken(side)']_vars

(* Aberration gives up a position exactly when the price is across the     *)
(* mean of N finite prices: one NaN keeps it in its position for N ticks.  *)
ClosesAtMean ==
  [][a_position # 0 =>
       (a_position' = 0 <=> NansSeen' = 0 /\ a_position * Off' < 0)]_vars

(* Whatever the prices, both strategies open from no position, close what  *)
(* they opened, in the opposite direction, and nothing else: they          *)
(* implement the strategy the engine's module runs.                        *)
AbbTrader  == INSTANCE Trader WITH position <- a_position, order <- a_order
DualTrader == INSTANCE Trader WITH position <- d_position, order <- d_order
ImplementTrader == AbbTrader!Spec /\ DualTrader!Spec

(* The tick after a closing order opens a long position again, at any      *)
(* finite price: the range is 0 then and the buy threshold is the price.   *)
ReopensAtOnce ==
  [][(~initialized /\ ~NanOrInf(price')) => d_position' = 1]_vars

(* So the thresholds never decide anything at a finite price: DualThrust   *)
(* opens where _open is, on which the closing is decided, and holds the    *)
(* position only while the price has not crossed that.  Short, for which   *)
(* it has the code of dual_thrust.hpp:41-50, it only goes at minus         *)
(* infinity, the second time this is the price.                            *)
HeldFromEntry ==
  d_position # 0 =>
    /\ open = entry /\ entry # NaN
    /\ d_position > 0 => entry # NegInf /\ ~Less(price, entry)
    /\ d_position < 0 => entry = NegInf /\ ~Less(entry, price)
=============================================================================
