---------------------------- MODULE BoundedFifo ----------------------------
(***************************************************************************)
(* What lockfree::SPSC promises its two callers: a FIFO queue of at most   *)
(* Capacity values.  push() answers true and appends, or answers false,    *)
(* and then the queue was full; pop() answers with the oldest value and    *)
(* removes it, or answers nullopt, and then the queue was empty.           *)
(*                                                                         *)
(* When Exact is FALSE the refusals may also come late: the queue was full *)
(* (empty) a moment ago and the caller has not seen the other side move.   *)
(*                                                                         *)
(* Each operation is one step here.  Module Spsc, where every access to    *)
(* shared memory is a step of its own, is shown to implement this module.  *)
(***************************************************************************)
EXTENDS Naturals, Sequences

CONSTANTS Values,     \* what the callers push
          Capacity,   \* the template parameter BufSize
          NullOpt,    \* pop()'s "no value"
          Exact       \* TRUE: "full" and "empty" are answered only when they
                      \* hold; FALSE: a caller may still see an older index

VARIABLES queue,      \* the values pushed and not yet popped, oldest first
          push_ret,   \* what the last completed push() returned
          pop_ret     \* what the last completed pop() returned

vars == <<queue, push_ret, pop_ret>>

Init == /\ queue = <<>>
        /\ push_ret = TRUE
        /\ pop_ret = NullOpt

Push(v) == /\ Len(queue) < Capacity
           /\ queue' = Append(queue, v)
           /\ push_ret' = TRUE
           /\ UNCHANGED pop_ret

PushFull == /\ Exact => Len(queue) = Capacity
            /\ push_ret' = FALSE
            /\ UNCHANGED <<queue, pop_ret>>

Pop == /\ queue # <<>>
       /\ pop_ret' = Head(queue)
       /\ queue' = Tail(queue)
       /\ UNCHANGED push_ret

PopEmpty == /\ Exact => queue = <<>>
            /\ pop_ret' = NullOpt
            /\ UNCHANGED <<queue, push_ret>>

Next == \/ \E v \in Values : Push(v)
        \/ PushFull
        \/ Pop
        \/ PopEmpty

Spec == Init /\ [][Next]_vars
=============================================================================
