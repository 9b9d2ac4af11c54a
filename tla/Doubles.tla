------------------------------ MODULE Doubles ------------------------------
(***************************************************************************)
(* The doubles of a price: the integers, the infinities and NaN, with the  *)
(* comparisons and sums of IEEE 754.  Rounding and overflow are left out.  *)
(***************************************************************************)
EXTENDS Integers

CONSTANTS NaN, PosInf, NegInf

ASSUME DoublesAssumption == /\ {NaN, PosInf, NegInf} \cap Int = {}
                            /\ NaN # PosInf /\ NaN # NegInf /\ PosInf # NegInf

(* rolling::nan_or_inf: x - x is not 0                                     *)
NanOrInf(x) == x \in {NaN, PosInf, NegInf}

Double == Int \cup {NaN, PosInf, NegInf}

(* x < y, and x >= y, which is not its negation: both are false of NaN.    *)
Less(x, y)    == IF NanOrInf(x) \/ NanOrInf(y)
                 THEN \/ x = NegInf /\ y # NaN /\ y # NegInf
                      \/ y = PosInf /\ x # NaN /\ x # PosInf
                 ELSE x < y
AtLeast(x, y) == Less(y, x) \/ (x = y /\ x # NaN)

(* std::max and std::min, which keep the first argument when the           *)
(* comparison is false.                                                    *)
StdMax(x, y) == IF Less(x, y) THEN y ELSE x
StdMin(x, y) == IF Less(y, x) THEN y ELSE x

Plus(x, y) == IF NanOrInf(x) \/ NanOrInf(y)
              THEN IF NaN \in {x, y} \/ {PosInf, NegInf} \subseteq {x, y} THEN NaN
                   ELSE IF PosInf \in {x, y} THEN PosInf ELSE NegInf
              ELSE x + y

Negative(x) == CASE x = PosInf -> NegInf
                 [] x = NegInf -> PosInf
                 [] x = NaN    -> NaN
                 [] OTHER      -> -x

Minus(x, y) == Plus(x, Negative(y))

Square(x) == IF x = NaN THEN NaN ELSE IF NanOrInf(x) THEN PosInf ELSE x * x
=============================================================================
