-------------------------------- MODULE Spsc --------------------------------
(***************************************************************************)
(* lockfree::SPSC of src/channel/spsc.hpp: a ring buffer between ONE       *)
(* producer thread and ONE consumer thread, without locks.                 *)
(*                                                                         *)
(* Every access to memory the two threads share is a step of its own, and  *)
(* the steps of the threads interleave freely.  A thread's load of the     *)
(* index only it writes is merged with the call.  The two overloads of     *)
(* pop() have the same steps and are one here.                             *)
(*                                                                         *)
(* The loads of the OTHER side's index are acquire loads.  With StaleReads *)
(* they may return any value between the one the thread saw last and the   *)
(* current one, which is all the C++ memory model promises; without it     *)
(* they return the current value.                                          *)
(***************************************************************************)
EXTENDS RingIndex, Sequences

CONSTANTS Values,       \* what the producer pushes
          Blank,        \* T{}, what a slot holds before its first use
          NullOpt,      \* std::nullopt
          StaleReads    \* may an acquire load lag behind the last store?

ASSUME SpscAssumption == /\ StaleReads \in BOOLEAN
                         /\ NullOpt \notin Values

VARIABLES buffer,       \* _buffer
          write_pos,    \* _write_pos, stored by the producer only
          read_pos,     \* _read_pos, stored by the consumer only
          ppc,          \* where the producer is inside push()
          u,            \* push()'s argument
          w,            \* push()'s local copy of _write_pos
          r_seen,       \* the _read_pos the producer loaded last
          push_ret,     \* what the last push() returned
          cpc,          \* where the consumer is inside pop()
          r,            \* pop()'s local copy of _read_pos
          w_seen,       \* the _write_pos the consumer loaded last
          value,        \* pop()'s local value (out in the second overload)
          pop_ret       \* what the last pop() returned

pvars == <<ppc, u, w, r_seen, push_ret>>
cvars == <<cpc, r, w_seen, value, pop_ret>>
vars  == <<buffer, write_pos, read_pos, pvars, cvars>>

Init == /\ buffer = [i \in Slots |-> Blank]
        /\ write_pos = 0
        /\ read_pos = 0
        /\ ppc = "idle"
        /\ u = Blank
        /\ w = 0
        /\ r_seen = 0
        /\ push_ret = TRUE
        /\ cpc = "idle"
        /\ r = 0
        /\ w_seen = 0
        /\ value = Blank
        /\ pop_ret = NullOpt

(* What an acquire load of an index may return, last being what the thread *)
(* has seen of it and now its current value.                               *)
Loadable(last, now) == IF StaleReads THEN Upto(last, now) ELSE {now}

-----------------------------------------------------------------------------
(* push() *)

PushCall(v) == /\ ppc = "idle"
               /\ ppc' = "load_read_pos"
               /\ u' = v
               /\ w' = write_pos
               /\ UNCHANGED <<buffer, write_pos, read_pos, r_seen, push_ret, cvars>>

PushFull == /\ ppc = "load_read_pos"
            /\ r_seen' \in Loadable(r_seen, read_pos)
            /\ Sub(w, r_seen') >= BufSize
            /\ ppc' = "idle"
            /\ push_ret' = FALSE
            /\ UNCHANGED <<buffer, write_pos, read_pos, u, w, cvars>>

(* Mutant: the full check is off by one.                                   *)
PushRoomOffByOne == /\ ppc = "load_read_pos"
                    /\ r_seen' \in Loadable(r_seen, read_pos)
                    /\ Sub(w, r_seen') <= BufSize
                    /\ ppc' = "write"
                    /\ UNCHANGED <<buffer, write_pos, read_pos, u, w, push_ret, cvars>>

PushRoom == /\ ppc = "load_read_pos"
            /\ r_seen' \in Loadable(r_seen, read_pos)
            /\ Sub(w, r_seen') < BufSize
            /\ ppc' = "write"
            /\ UNCHANGED <<buffer, write_pos, read_pos, u, w, push_ret, cvars>>

(* Mutant: _write_pos is incremented before it is used to find the slot.   *)
PushWriteAhead == /\ ppc = "write"
                  /\ buffer' = [buffer EXCEPT ![Slot(Add(w, 1))] = u]
                  /\ ppc' = "publish"
                  /\ UNCHANGED <<write_pos, read_pos, u, w, r_seen, push_ret, cvars>>

PushWrite == /\ ppc = "write"
             /\ buffer' = [buffer EXCEPT ![Slot(w)] = u]
             /\ ppc' = "publish"
             /\ UNCHANGED <<write_pos, read_pos, u, w, r_seen, push_ret, cvars>>

(* Mutant: a position that does not wrap.                                  *)
PushPublishUnwrapped == /\ ppc = "publish"
                        /\ write_pos' = w + 1
                        /\ ppc' = "idle"
                        /\ push_ret' = TRUE
                        /\ UNCHANGED <<buffer, read_pos, u, w, r_seen, cvars>>

PushPublish == /\ ppc = "publish"
               /\ write_pos' = Add(w, 1)
               /\ ppc' = "idle"
               /\ push_ret' = TRUE
               /\ UNCHANGED <<buffer, read_pos, u, w, r_seen, cvars>>

-----------------------------------------------------------------------------
(* pop() *)

PopCall == /\ cpc = "idle"
           /\ cpc' = "load_write_pos"
           /\ r' = read_pos
           /\ UNCHANGED <<buffer, write_pos, read_pos, w_seen, value, pop_ret, pvars>>

PopEmpty == /\ cpc = "load_write_pos"
            /\ w_seen' \in Loadable(w_seen, write_pos)
            /\ Sub(w_seen', r) = 0
            /\ cpc' = "idle"
            /\ pop_ret' = NullOpt
            /\ UNCHANGED <<buffer, write_pos, read_pos, r, value, pvars>>

(* Mutant: pop() does not look whether the ring is empty.                  *)
PopReadyUnchecked == /\ cpc = "load_write_pos"
                     /\ w_seen' \in Loadable(w_seen, write_pos)
                     /\ cpc' = "read"
                     /\ UNCHANGED <<buffer, write_pos, read_pos, r, value, pop_ret, pvars>>

PopReady == /\ cpc = "load_write_pos"
            /\ w_seen' \in Loadable(w_seen, write_pos)
            /\ Sub(w_seen', r) # 0
            /\ cpc' = "read"
            /\ UNCHANGED <<buffer, write_pos, read_pos, r, value, pop_ret, pvars>>

PopRead == /\ cpc = "read"
           /\ value' = buffer[Slot(r)]
           /\ cpc' = "advance"
           /\ UNCHANGED <<buffer, write_pos, read_pos, r, w_seen, pop_ret, pvars>>

PopAdvance == /\ cpc = "advance"
              /\ read_pos' = Add(r, 1)
              /\ cpc' = "idle"
              /\ pop_ret' = value
              /\ UNCHANGED <<buffer, write_pos, r, w_seen, value, pvars>>

-----------------------------------------------------------------------------
InPush == \/ PushFull
          \/ PushRoom
          \/ PushWrite
          \/ PushPublish

Consumer == \/ PopCall
            \/ PopEmpty
            \/ PopReady
            \/ PopRead
            \/ PopAdvance

Next == \/ \E v \in Values : PushCall(v)
        \/ InPush
        \/ Consumer

Spec == Init /\ [][Next]_vars

-----------------------------------------------------------------------------
TypeOK == /\ buffer \in [Slots -> Values \cup {Blank}]
          /\ write_pos \in Positions
          /\ read_pos \in Positions
          /\ ppc \in {"idle", "load_read_pos", "write", "publish"}
          /\ u \in Values \cup {Blank}
          /\ w \in Positions
          /\ r_seen \in Positions
          /\ push_ret \in BOOLEAN
          /\ cpc \in {"idle", "load_write_pos", "read", "advance"}
          /\ r \in Positions
          /\ w_seen \in Positions
          /\ value \in Values \cup {Blank}
          /\ pop_ret \in Values \cup {Blank, NullOpt}

Used == Sub(write_pos, read_pos)

(* The producer never laps the consumer, although it decides on an index   *)
(* the consumer may have moved since, and the indices wrap: at most        *)
(* BufSize published values, and one slot free while it is writing.        *)
NeverLapped == /\ Used <= BufSize
               /\ ppc \in {"write", "publish"} => Used < BufSize

(* The plain (non-atomic) accesses to a slot never meet: the producer is   *)
(* not about to write the slot the consumer is about to read.              *)
NoDataRace == ~(ppc = "write" /\ cpc = "read" /\ Slot(w) = Slot(r))

(* spsc.hpp as a FIFO queue: the published slots, oldest first.            *)
Queue == [i \in 1 .. Used |-> buffer[Slot(Add(read_pos, i - 1))]]

Fifo == INSTANCE BoundedFifo WITH
          Capacity <- BufSize, Exact <- ~StaleReads, queue <- Queue

(* push() and pop() are the operations of a bounded FIFO queue: nothing is *)
(* lost, duplicated, reordered or invented, "false" means full, nullopt    *)
(* means empty.                                                            *)
ImplementsFifo == Fifo!Spec
=============================================================================
