----------------------------- MODULE RingIndex -----------------------------
(***************************************************************************)
(* The index arithmetic both ring buffers of src/channel share: free-      *)
(* running size_t positions that wrap at WordSize (2^64 in the program), a *)
(* slot found by masking a position with BufSize - 1.                      *)
(*                                                                         *)
(* BufSize is a power of two (the requires clause of both templates), so   *)
(* the mask is a remainder and BufSize divides WordSize; that divisibility *)
(* is all the algorithms need.                                             *)
(***************************************************************************)
EXTENDS Integers

CONSTANTS BufSize,    \* the template parameter
          WordSize    \* number of values of a size_t

ASSUME RingAssumption == /\ BufSize \in Nat
                         /\ BufSize >= 2
                         /\ WordSize \in Nat
                         /\ WordSize > BufSize
                         /\ WordSize % BufSize = 0

Positions == 0 .. WordSize - 1
Slots     == 0 .. BufSize - 1

(* pos & MASK *)
Slot(pos) == pos % BufSize

(* size_t addition and subtraction, which wrap *)
Add(a, k) == (a + k) % WordSize
Sub(a, b) == (a - b) % WordSize

(* The positions from a up to b, in ring order.                            *)
Upto(a, b) == {p \in Positions : Sub(p, a) <= Sub(b, a)}
=============================================================================
