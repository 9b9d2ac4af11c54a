-------------------------------- MODULE Mpsc --------------------------------
(***************************************************************************)
(* lockfree::MPSC of src/channel/mpsc.hpp: a ring buffer between several   *)
(* producer threads and ONE consumer thread.  A producer draws a ticket    *)
(* from _head, waits until the sequence number of the ticket's slot is the *)
(* ticket, writes and publishes; the consumer takes the slot of _tail once *)
(* its sequence number says it is published.                               *)
(*                                                                         *)
(* Every access to memory the threads share is a step, and the steps of    *)
(* the threads interleave freely; the consumer's load of _tail, which only *)
(* it writes, is merged with its load of the slot's sequence number.  The  *)
(* two overloads of pop() have the same steps and are one here.  A local   *)
(* variable has its initial value while the code does not need it.         *)
(*                                                                         *)
(* atomic::wait blocks a producer in the same step that compares, and      *)
(* atomic::notify_one unblocks at least one of the producers blocked on    *)
(* the slot whose wait is over: that is all C++ promises.                  *)
(***************************************************************************)
EXTENDS RingIndex, Sequences, FiniteSets

CONSTANTS Producers,    \* the threads that call push()
          Values,       \* what they push
          Blank,        \* T{}, what a slot holds before its first use
          NullOpt,      \* std::nullopt
          Nobody        \* not a producer

ASSUME MpscAssumption == /\ IsFiniteSet(Producers)
                         /\ BufSize + Cardinality(Producers) <= WordSize
                         /\ NullOpt \notin Values
                         /\ Nobody \notin Producers

VARIABLES head,         \* _head, the ticket dispenser
          tail,         \* _tail, stored by the consumer only
          seq,          \* _buffer[i].seq
          data,         \* _buffer[i].data
          ppc,          \* where each producer is inside push()
          u,            \* its argument
          cur_head,     \* the _head it loaded for the check
          pos,          \* its ticket
          seq_val,      \* the sequence number it loaded last
          push_ret,     \* what its last push() returned
          cpc,          \* where the consumer is inside pop()
          value,        \* pop()'s local value (out in the second overload)
          pop_ret       \* what the last pop() returned

shared == <<head, tail, seq, data>>
pvars  == <<ppc, u, cur_head, pos, seq_val, push_ret>>
cvars  == <<cpc, value, pop_ret>>
vars   == <<shared, pvars, cvars>>

Init == /\ head = 0
        /\ tail = 0
        /\ seq = [i \in Slots |-> i]
        /\ data = [i \in Slots |-> Blank]
        /\ ppc = [p \in Producers |-> "idle"]
        /\ u = [p \in Producers |-> Blank]
        /\ cur_head = [p \in Producers |-> 0]
        /\ pos = [p \in Producers |-> 0]
        /\ seq_val = [p \in Producers |-> 0]
        /\ push_ret = [p \in Producers |-> TRUE]
        /\ cpc = "idle"
        /\ value = Blank
        /\ pop_ret = NullOpt

Goto(p, label) == ppc' = [ppc EXCEPT ![p] = label]

(* Producer p returns from push().                                         *)
Return(p, result) == /\ Goto(p, "idle")
                     /\ push_ret' = [push_ret EXCEPT ![p] = result]
                     /\ u' = [u EXCEPT ![p] = Blank]
                     /\ cur_head' = [cur_head EXCEPT ![p] = 0]
                     /\ pos' = [pos EXCEPT ![p] = 0]
                     /\ seq_val' = [seq_val EXCEPT ![p] = 0]

-----------------------------------------------------------------------------
(* push() by producer p *)

PushCall(p, v) == /\ ppc[p] = "idle"
                  /\ Goto(p, "load_tail")
                  /\ u' = [u EXCEPT ![p] = v]
                  /\ cur_head' = [cur_head EXCEPT ![p] = head]
                  /\ UNCHANGED <<shared, pos, seq_val, push_ret, cvars>>

PushFull(p) == /\ ppc[p] = "load_tail"
               /\ Sub(cur_head[p], tail) >= BufSize
               /\ Return(p, FALSE)
               /\ UNCHANGED <<shared, cvars>>

(* Mutant: no check for a full queue.                                      *)
PushRoomUnchecked(p) == /\ ppc[p] = "load_tail"
                        /\ Goto(p, "ticket")
                        /\ cur_head' = [cur_head EXCEPT ![p] = 0]
                        /\ UNCHANGED <<shared, u, pos, seq_val, push_ret, cvars>>

PushRoom(p) == /\ ppc[p] = "load_tail"
               /\ Sub(cur_head[p], tail) < BufSize
               /\ Goto(p, "ticket")
               /\ cur_head' = [cur_head EXCEPT ![p] = 0]
               /\ UNCHANGED <<shared, u, pos, seq_val, push_ret, cvars>>

(* Mutant: a ticket dispenser that does not wrap.                          *)
TakeTicketUnwrapped(p) == /\ ppc[p] = "ticket"
                          /\ pos' = [pos EXCEPT ![p] = head]
                          /\ head' = head + 1
                          /\ Goto(p, "load_seq")
                          /\ UNCHANGED <<tail, seq, data, u, cur_head, seq_val, push_ret,
                                         cvars>>

(* _head.fetch_add(1) *)
TakeTicket(p) == /\ ppc[p] = "ticket"
                 /\ pos' = [pos EXCEPT ![p] = head]
                 /\ head' = Add(head, 1)
                 /\ Goto(p, "load_seq")
                 /\ UNCHANGED <<tail, seq, data, u, cur_head, seq_val, push_ret, cvars>>

(* Mutant: the ticket's slot is written without waiting for it.            *)
LoadSeqNoWait(p) == /\ ppc[p] = "load_seq"
                    /\ seq_val' = [seq_val EXCEPT ![p] = seq[Slot(pos[p])]]
                    /\ Goto(p, "write")
                    /\ UNCHANGED <<shared, u, cur_head, pos, push_ret, cvars>>

LoadSeq(p) == /\ ppc[p] = "load_seq"
              /\ seq_val' = [seq_val EXCEPT ![p] = seq[Slot(pos[p])]]
              /\ Goto(p, IF seq_val'[p] = pos[p] THEN "write" ELSE "wait")
              /\ UNCHANGED <<shared, u, cur_head, pos, push_ret, cvars>>

(* Mutant: a wait that does not compare, as on a condition variable.       *)
WaitUncompared(p) == /\ ppc[p] = "wait"
                     /\ Goto(p, "blocked")
                     /\ UNCHANGED <<shared, u, cur_head, pos, seq_val, push_ret, cvars>>

(* slot.seq.wait(seq_val): blocks while the value is still seq_val.        *)
Wait(p) == /\ ppc[p] = "wait"
           /\ Goto(p, IF seq[Slot(pos[p])] = seq_val[p] THEN "blocked" ELSE "load_seq")
           /\ UNCHANGED <<shared, u, cur_head, pos, seq_val, push_ret, cvars>>

(* wait() may unblock without a notification; it compares again.           *)
SpuriousWake(p) == /\ ppc[p] = "blocked"
                   /\ Goto(p, "wait")
                   /\ UNCHANGED <<shared, u, cur_head, pos, seq_val,
                                  push_ret, cvars>>

PushWrite(p) == /\ ppc[p] = "write"
                /\ data' = [data EXCEPT ![Slot(pos[p])] = u[p]]
                /\ Goto(p, "publish")
                /\ UNCHANGED <<head, tail, seq, u, cur_head, pos, seq_val,
                               push_ret, cvars>>

PushPublish(p) == /\ ppc[p] = "publish"
                  /\ seq' = [seq EXCEPT ![Slot(pos[p])] = Add(pos[p], 1)]
                  /\ Return(p, TRUE)
                  /\ UNCHANGED <<head, tail, data, cvars>>

-----------------------------------------------------------------------------
(* pop() by the consumer *)

PopEmpty == /\ cpc = "idle"
            /\ seq[Slot(tail)] # Add(tail, 1)
            /\ pop_ret' = NullOpt
            /\ UNCHANGED <<shared, pvars, cpc, value>>

(* Mutant: pop() takes a claimed slot for a published one.                 *)
PopReadyClaimed == /\ cpc = "idle"
                   /\ tail # head
                   /\ cpc' = "read"
                   /\ UNCHANGED <<shared, pvars, value, pop_ret>>

PopReady == /\ cpc = "idle"
            /\ seq[Slot(tail)] = Add(tail, 1)
            /\ cpc' = "read"
            /\ UNCHANGED <<shared, pvars, value, pop_ret>>

PopRead == /\ cpc = "read"
           /\ value' = data[Slot(tail)]
           /\ cpc' = "free"
           /\ UNCHANGED <<shared, pvars, pop_ret>>

PopFree == /\ cpc = "free"
           /\ seq' = [seq EXCEPT ![Slot(tail)] = Add(tail, BufSize)]
           /\ cpc' = "notify"
           /\ UNCHANGED <<head, tail, data, pvars, value, pop_ret>>

(* The producers notify_one() may unblock: blocked on this slot, and no    *)
(* longer on its current value.                                            *)
Eligible == {p \in Producers : /\ ppc[p] = "blocked"
                               /\ Slot(pos[p]) = Slot(tail)
                               /\ seq_val[p] # seq[Slot(tail)]}

(* Mutant: pop() wakes nobody.                                             *)
PopNotifyNobody == /\ cpc = "notify"
                   /\ cpc' = "store_tail"
                   /\ UNCHANGED <<shared, pvars, value, pop_ret>>

PopNotify == /\ cpc = "notify"
             /\ \E woken \in SUBSET Eligible :
                  /\ woken = {} => Eligible = {}
                  /\ ppc' = [p \in Producers |-> IF p \in woken THEN "wait" ELSE ppc[p]]
             /\ cpc' = "store_tail"
             /\ UNCHANGED <<shared, u, cur_head, pos, seq_val, push_ret,
                            value, pop_ret>>

PopStoreTail == /\ cpc = "store_tail"
                /\ tail' = Add(tail, 1)
                /\ pop_ret' = value
                /\ value' = Blank
                /\ cpc' = "idle"
                /\ UNCHANGED <<head, seq, data, pvars>>

-----------------------------------------------------------------------------
(* What a producer does once it has called push(); a spurious wake-up is   *)
(* not something to count on.                                              *)
InPush(p) == \/ PushFull(p)
             \/ PushRoom(p)
             \/ TakeTicket(p)
             \/ LoadSeq(p)
             \/ Wait(p)
             \/ PushWrite(p)
             \/ PushPublish(p)

Consumer == \/ PopEmpty
            \/ PopReady
            \/ PopRead
            \/ PopFree
            \/ PopNotify
            \/ PopStoreTail

Next == \/ \E p \in Producers, v \in Values : PushCall(p, v)
        \/ \E p \in Producers : InPush(p) \/ SpuriousWake(p)
        \/ Consumer

Spec == Init /\ [][Next]_vars

(* Threads inside push() run, and the consumer polls forever, as the       *)
(* engine's order pusher does while it runs; nobody has to push.           *)
FairSpec == /\ Spec
            /\ \A p \in Producers : WF_vars(InPush(p))
            /\ WF_vars(Consumer)

-----------------------------------------------------------------------------
TypeOK == /\ head \in Positions
          /\ tail \in Positions
          /\ seq \in [Slots -> Positions]
          /\ data \in [Slots -> Values \cup {Blank}]
          /\ ppc \in [Producers -> {"idle", "load_tail", "ticket", "load_seq", "wait",
                                    "blocked", "write", "publish"}]
          /\ u \in [Producers -> Values \cup {Blank}]
          /\ cur_head \in [Producers -> Positions]
          /\ pos \in [Producers -> Positions]
          /\ seq_val \in [Producers -> Positions]
          /\ push_ret \in [Producers -> BOOLEAN]
          /\ cpc \in {"idle", "read", "free", "notify", "store_tail"}
          /\ value \in Values \cup {Blank}
          /\ pop_ret \in Values \cup {Blank, NullOpt}

(* Producers that hold a ticket they have not published yet.               *)
Holding == {p \in Producers : ppc[p] \in {"load_seq", "wait", "blocked", "write",
                                          "publish"}}

(* The plain (non-atomic) accesses to a slot never meet: neither two       *)
(* producers' writes, nor a write and the consumer's read.                 *)
NoDataRace == \A p \in Producers : ppc[p] = "write" =>
                /\ cpc = "read" => Slot(pos[p]) # Slot(tail)
                /\ \A q \in Producers \ {p} :
                     ppc[q] = "write" => Slot(pos[p]) # Slot(pos[q])

(* The check and the draw of the ticket are separate, so tickets overrun   *)
(* the ring, but by less than the number of producers.                     *)
OverrunBounded == Sub(head, tail) < BufSize + Cardinality(Producers)

(* mpsc.hpp: "wake exactly one producer waiting for this slot".  The one   *)
(* to wake is the producer whose ticket the slot was just given to; with   *)
(* at most BufSize + 1 producers no other one is blocked on the slot.      *)
NotifyReachesOwner ==
  [][PopNotify => \A p \in Producers :
       (ppc[p] = "blocked" /\ pos[p] = Add(tail, BufSize)) => ppc'[p] # "blocked"]_vars

-----------------------------------------------------------------------------
(* mpsc.hpp as a queue of claimed and filled places.  The consumer has     *)
(* given its slot back before it stores _tail.                             *)
Front == IF cpc \in {"notify", "store_tail"} THEN Add(tail, 1) ELSE tail

Place(at) == IF seq[Slot(at)] = Add(at, 1)
             THEN [by |-> Nobody, value |-> data[Slot(at)]]
             ELSE LET p == CHOOSE p \in Holding : pos[p] = at
                  IN  [by |-> p, value |-> u[p]]

Places == [i \in 1 .. Sub(head, Front) |-> Place(Add(Front, i - 1))]

(* A value the consumer has taken is returned when it stores _tail.        *)
Returned == IF cpc \in {"notify", "store_tail"} THEN value ELSE pop_ret

Tickets == INSTANCE TicketQueue WITH
             Capacity <- BufSize, places <- Places, pop_ret <- Returned

(* Values come out in ticket order, each once and unchanged, and one that  *)
(* pop() can take is taken: nullopt means that the oldest ticket has not   *)
(* been published.                                                         *)
ImplementsTicketQueue == Tickets!Spec

(* A push() always comes back, with true or with false.                    *)
PushReturns == \A p \in Producers : (ppc[p] # "idle") ~> (ppc[p] = "idle")

(* mpsc.hpp: "Returns false immediately if the queue is (definitely) full."*)
RefusedOnlyWhenFull ==
  [][\A p \in Producers : PushFull(p) => Sub(head, tail) >= BufSize]_vars
=============================================================================
