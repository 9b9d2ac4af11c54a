---------------------------- MODULE TicketQueue ----------------------------
(***************************************************************************)
(* What lockfree::MPSC promises: values come out in the order in which     *)
(* their producers claimed a place.  A push() that is not refused first    *)
(* claims the last place and some time later fills it; pop() takes the     *)
(* first value only once its place is filled, so one slow producer holds   *)
(* back those behind it.  Filled places are among the first Capacity;      *)
(* there may be more claims than that, but not one more per producer.      *)
(*                                                                         *)
(* push() may answer false at any time: its check of the two indices is    *)
(* not atomic (see RefusedOnlyWhenFull of module Mpsc).                    *)
(***************************************************************************)
EXTENDS Integers, Sequences, FiniteSets

CONSTANTS Producers, Values, Capacity,
          NullOpt,    \* pop()'s "no value"
          Nobody      \* the claimant of a place that has been filled

VARIABLES places,     \* sequence of [by, value]: by is the producer that has
                      \* yet to fill the place, or Nobody
          push_ret,   \* what the last completed push() of a producer returned
          pop_ret     \* what the last completed pop() returned

vars == <<places, push_ret, pop_ret>>

Init == /\ places = <<>>
        /\ push_ret = [p \in Producers |-> TRUE]
        /\ pop_ret = NullOpt

Refuse(p) == /\ \A i \in 1 .. Len(places) : places[i].by # p
             /\ push_ret' = [push_ret EXCEPT ![p] = FALSE]
             /\ UNCHANGED <<places, pop_ret>>

Claim(p, v) == /\ Len(places) < Capacity + Cardinality(Producers) - 1
               /\ \A i \in 1 .. Len(places) : places[i].by # p
               /\ places' = Append(places, [by |-> p, value |-> v])
               /\ UNCHANGED <<push_ret, pop_ret>>

Fill(p) == /\ \E i \in 1 .. Len(places) :
                /\ i <= Capacity
                /\ places[i].by = p
                /\ places' = [places EXCEPT ![i].by = Nobody]
           /\ push_ret' = [push_ret EXCEPT ![p] = TRUE]
           /\ UNCHANGED pop_ret

(* pop() up to where the place is free for its next claimant, and its      *)
(* return.                                                                 *)
Take == /\ places # <<>>
        /\ Head(places).by = Nobody
        /\ places' = Tail(places)
        /\ pop_ret' = Head(places).value
        /\ UNCHANGED push_ret

Nothing == /\ places # <<>> => Head(places).by # Nobody
           /\ pop_ret' = NullOpt
           /\ UNCHANGED <<places, push_ret>>

Next == \/ \E p \in Producers : Refuse(p) \/ Fill(p)
        \/ \E p \in Producers, v \in Values : Claim(p, v)
        \/ Take
        \/ Nothing

Spec == Init /\ [][Next]_vars
=============================================================================
