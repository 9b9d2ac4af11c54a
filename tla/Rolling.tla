------------------------------ MODULE Rolling ------------------------------
(***************************************************************************)
(* rolling::Container and rolling::Sumer of src/operator/rolling.hpp: the  *)
(* sum of the last N values, kept up to date from the value that comes and *)
(* the one that goes, with a count of the values that are not finite.  A   *)
(* struct is a record, update() a function of it and the new value.        *)
(* tail_idx, which nobody reads, is left out.                              *)
(***************************************************************************)
EXTENDS Doubles

CONSTANT N      \* the length of the window

ASSUME RollingAssumption == N \in Nat \ {0}

Indices == 0 .. N - 1

Sumers == [buf : [Indices -> Double], head_idx : Indices, nan_count : Nat, sum : Int]

NewSumer == [buf |-> [i \in Indices |-> NaN], head_idx |-> 0, nan_count |-> N, sum |-> 0]

(* What a value counts for in nan_count and in sum.                        *)
Nans(x)   == IF NanOrInf(x) THEN 1 ELSE 0
Amount(x) == IF NanOrInf(x) THEN 0 ELSE x

(* Mutant: the value that goes is read after the new one is stored.        *)
UpdateThenRead(s, x) == [buf       |-> [s.buf EXCEPT ![s.head_idx] = x],
                         head_idx  |-> (s.head_idx + 1) % N,
                         nan_count |-> s.nan_count - Nans(s.buf[(s.head_idx + 1) % N]) + Nans(x),
                         sum       |-> s.sum - Amount(s.buf[(s.head_idx + 1) % N]) + Amount(x)]

(* Mutant: a value that is not finite is not counted when it comes.        *)
UpdateUncounted(s, x) == [buf       |-> [s.buf EXCEPT ![s.head_idx] = x],
                          head_idx  |-> (s.head_idx + 1) % N,
                          nan_count |-> s.nan_count - Nans(s.buf[s.head_idx]),
                          sum       |-> s.sum - Amount(s.buf[s.head_idx]) + Amount(x)]

Update(s, x) == [buf       |-> [s.buf EXCEPT ![s.head_idx] = x],
                 head_idx  |-> (s.head_idx + 1) % N,
                 nan_count |-> s.nan_count - Nans(s.buf[s.head_idx]) + Nans(x),
                 sum       |-> s.sum - Amount(s.buf[s.head_idx]) + Amount(x)]

(* What update() returns.                                                  *)
Returned(s) == IF s.nan_count > 0 THEN NaN ELSE s.sum
=============================================================================
