----------------------------- MODULE CtaEngine -----------------------------
(***************************************************************************)
(* CtaEngine of src/engine/engine_cta.hpp: the thread that calls start()   *)
(* polls for ticks and gives each to the Taskflow executor; the workers    *)
(* run the strategies of the tick's symbol and push their orders into an   *)
(* MPSC channel; the order-push thread pops them and sends them out.       *)
(* stop() may be called at any time from another thread.                   *)
(*                                                                         *)
(* The channel is module Mpsc, step for step.  A strategy is abstracted to *)
(* its _position and the orders onTick may produce from it; no lock        *)
(* protects _position, so its load and its store are two steps.  The       *)
(* executor may run the tasks in any order, so those of a symbol, whose    *)
(* prices are abstracted, are only counted.                                *)
(***************************************************************************)
EXTENDS Integers, Sequences, FiniteSets

LOCAL INSTANCE Functions    \* Range

CONSTANTS Workers,      \* the executor's threads
          Strategies,
          Symbols,
          SymbolOf,     \* the symbol each strategy is added for
          Matched,      \* the subscriptions, which are prefixes, a symbol matches
          BufSize, WordSize,    \* of the channel
          MaxTicks,     \* bound: ticks received
          NullOpt, Nobody, NoOrder, NoTask

Orders == [stg : Strategies, direction : {"BUY", "SELL"}, offset : {"OPEN", "CLOSE"}]

ASSUME EngineAssumption ==
  /\ SymbolOf \in [Strategies -> Symbols]
  /\ Matched \in [Symbols -> SUBSET Symbols]
  /\ \A sym \in Symbols : sym \in Matched[sym]
  /\ MaxTicks \in Nat
  /\ NoOrder \notin Orders
  /\ NoTask \notin Symbols

VARIABLES stg_map,      \* _stg_map: the strategies of a symbol, in order
          running,      \* _running
          main,         \* where the thread is that calls start()
          received,     \* ticks received so far
          tasks,        \* tasks given to the executor and not begun, per symbol
          wpc,          \* where each worker is in its task
          task,         \* the symbol of the worker's task
          nxt,          \* index of the next strategy of its symbol
          order,        \* the order onTick is returning
          position,     \* _position of each strategy
          member,       \* _order of each strategy: what the onTicks under way have stored
          head, tail, seq, data,        \* _channel, its producers ...
          ppc, u, cur_head, pos, seq_val, push_ret,
          cpc, value, pop_ret,          \* ... and its consumer
          pusher,       \* where the order-push thread is
          sent,         \* the orders sent, in order
          dropped,      \* history: the orders the channel refused
          stopped,      \* history: stop() has been called
          late          \* history: ticks received and orders sent since

channel == <<head, tail, seq, data, ppc, u, cur_head, pos, seq_val, push_ret,
             cpc, value, pop_ret>>
workers == <<wpc, task, nxt, order, position, member>>
audit   == <<stopped, late>>
vars    == <<stg_map, running, main, received, tasks, workers, channel, pusher, sent,
             dropped, audit>>

Channel == INSTANCE Mpsc WITH
             Producers <- Workers, Values <- Orders, Blank <- NoOrder

(* The executor has finitely many threads, fewer than a size_t counts.     *)
ASSUME ChannelAssumption == Channel!RingAssumption /\ Channel!MpscAssumption

Init == /\ stg_map = [sym \in Symbols |-> <<>>]
        /\ running = TRUE
        /\ main = "off"
        /\ received = 0
        /\ tasks = [sym \in Symbols |-> 0]
        /\ wpc = [w \in Workers |-> "idle"]
        /\ task = [w \in Workers |-> NoTask]
        /\ nxt = [w \in Workers |-> 1]
        /\ order = [w \in Workers |-> NoOrder]
        /\ position = [s \in Strategies |-> 0]
        /\ member = [s \in Strategies |-> {}]
        /\ Channel!Init
        /\ pusher = "off"
        /\ sent = <<>>
        /\ dropped = <<>>
        /\ stopped = FALSE
        /\ late = [ticks |-> 0, orders |-> 0]

-----------------------------------------------------------------------------
(* addStrategy() and start(), in the thread that calls them *)

(* A strategy is moved in, so an object is added once.  Its symbol is      *)
(* subscribed to with the call.                                            *)
AddStrategy(s) == /\ main \in {"off", "returned"}
                  /\ \A sym \in Symbols : s \notin Range(stg_map[sym])
                  /\ stg_map' = [stg_map EXCEPT ![SymbolOf[s]] = Append(@, s)]
                  /\ UNCHANGED <<running, main, received, tasks, workers, channel, pusher,
                                 sent, dropped, audit>>

Start == /\ main = "off"
         /\ main' = "check"
         /\ pusher' = "check"
         /\ UNCHANGED <<running, stg_map, received, tasks, workers, channel, sent, dropped,
                        audit>>

(* start() once more, in the thread it has returned to: a new order-push   *)
(* thread is started, then the assignment to _order_push_thread joins the  *)
(* one before.                                                             *)
Restart == /\ main = "returned"
           /\ main' = "join"
           /\ UNCHANGED <<running, stg_map, received, tasks, workers, channel, pusher, sent,
                          dropped, audit>>

(* _running is FALSE by now, so all the new thread can have done meanwhile *)
(* is to look at it and end.                                               *)
Join == /\ main = "join"
        /\ pusher = "exited"
        /\ main' = "check"
        /\ pusher' \in IF running THEN {"check"} ELSE {"check", "exited"}
        /\ UNCHANGED <<running, stg_map, received, tasks, workers, channel, sent, dropped,
                       audit>>

CheckRunning == /\ main = "check"
                /\ main' = IF running THEN "poll" ELSE "wait_for_all"
                /\ UNCHANGED <<running, stg_map, received, tasks, workers, channel, pusher,
                               sent, dropped, audit>>

(* The SUB socket only receives what matches a subscription.               *)
PollTick(sym) == /\ main = "poll"
                 /\ received < MaxTicks
                 /\ \E sub \in Matched[sym] : stg_map[sub] # <<>>
                 /\ received' = received + 1
                 /\ tasks' = [tasks EXCEPT ![sym] = @ + 1]
                 /\ late' = IF stopped THEN [late EXCEPT !.ticks = @ + 1] ELSE late
                 /\ main' = "check"
                 /\ UNCHANGED <<stg_map, running, workers, channel, pusher, sent, dropped,
                                stopped>>

PollTimeout == /\ main = "poll"
               /\ main' = "check"
               /\ UNCHANGED <<running, stg_map, received, tasks, workers, channel, pusher,
                              sent, dropped, audit>>

(* Mutant: start() returns without waiting for the executor.               *)
WaitForNobody == /\ main = "wait_for_all"
                 /\ running' = FALSE
                 /\ main' = "returned"
                 /\ UNCHANGED <<stg_map, received, tasks, workers, channel, pusher, sent,
                                dropped, audit>>

WaitForAll == /\ main = "wait_for_all"
              /\ \A sym \in Symbols : tasks[sym] = 0
              /\ \A w \in Workers : wpc[w] = "idle"
              /\ running' = FALSE
              /\ main' = "returned"
              /\ UNCHANGED <<stg_map, received, tasks, workers, channel, pusher, sent,
                             dropped, audit>>

Stop == /\ running' = FALSE
        /\ stopped' = TRUE
        /\ UNCHANGED <<main, stg_map, received, tasks, workers, channel, pusher, sent,
                       dropped, late>>

-----------------------------------------------------------------------------
(* The task of a tick, in worker w *)

BeginTask(w) == /\ wpc[w] = "idle"
                /\ \E sym \in Symbols : /\ tasks[sym] > 0
                                         /\ task' = [task EXCEPT ![w] = sym]
                                         /\ tasks' = [tasks EXCEPT ![sym] = @ - 1]
                /\ wpc' = [wpc EXCEPT ![w] = "strategies"]
                /\ UNCHANGED <<running, main, stg_map, received, nxt, order, position,
                               member, channel, pusher, sent, dropped, audit>>

Todo(w) == stg_map[task[w]]

EndTask(w) == /\ wpc[w] = "strategies"
              /\ nxt[w] > Len(Todo(w))
              /\ wpc' = [wpc EXCEPT ![w] = "idle"]
              /\ task' = [task EXCEPT ![w] = NoTask]
              /\ nxt' = [nxt EXCEPT ![w] = 1]
              /\ UNCHANGED <<running, main, stg_map, received, tasks, order, position,
                             member, channel, pusher, sent, dropped, audit>>

(* Mutant: onTick opens without looking at _position.                      *)
DecisionsUnchecked(s, p) == {o \in Orders : o.stg = s /\ o.offset = "OPEN"}

(* The orders onTick of strategy s may return when it finds _position = p; *)
(* the prices, which decide whether it does, are abstracted.               *)
Decisions(s, p) ==
  {o \in Orders :
     /\ o.stg = s
     /\ o.offset = IF p = 0 THEN "OPEN" ELSE "CLOSE"
     /\ p > 0 => o.direction = "SELL"
     /\ p < 0 => o.direction = "BUY"}

(* Mutant: closing does not reset _position.                               *)
PositionAfterNoReset(o) == IF o.direction = "BUY" THEN 1 ELSE -1

(* The _position onTick stores when it returns order o.                    *)
PositionAfter(o) == IF o.offset = "CLOSE" THEN 0
                    ELSE IF o.direction = "BUY" THEN 1 ELSE -1

OnTickNothing(w) == /\ wpc[w] = "strategies"
                    /\ nxt[w] <= Len(Todo(w))
                    /\ nxt' = [nxt EXCEPT ![w] = @ + 1]
                    /\ UNCHANGED <<running, main, stg_map, received, tasks, wpc, task,
                                   order, position, member, channel, pusher, sent, dropped,
                                   audit>>

OnTickDecide(w) == /\ wpc[w] = "strategies"
                   /\ nxt[w] <= Len(Todo(w))
                   /\ LET s == Todo(w)[nxt[w]]
                      IN  \E o \in Decisions(s, position[s]) :
                            order' = [order EXCEPT ![w] = o]
                   /\ wpc' = [wpc EXCEPT ![w] = "store"]
                   /\ UNCHANGED <<running, main, stg_map, received, tasks, task, nxt,
                                  position, member, channel, pusher, sent, dropped, audit>>

(* Mutant: _position is incremented instead of assigned.                   *)
OnTickAccumulate(w) ==
  /\ wpc[w] = "store"
  /\ position' = [position EXCEPT ![order[w].stg] =
                    IF order[w].direction = "BUY" THEN @ + 1 ELSE @ - 1]
  /\ member' = [member EXCEPT ![order[w].stg] = @ \cup {order[w]}]
  /\ wpc' = [wpc EXCEPT ![w] = "return"]
  /\ UNCHANGED <<running, main, stg_map, received, tasks, task, nxt, order, channel, pusher,
                 sent, dropped, audit>>

OnTickStore(w) ==
  /\ wpc[w] = "store"
  /\ position' = [position EXCEPT ![order[w].stg] = PositionAfter(order[w])]
  /\ member' = [member EXCEPT ![order[w].stg] = @ \cup {order[w]}]
  /\ wpc' = [wpc EXCEPT ![w] = "return"]
  /\ UNCHANGED <<running, main, stg_map, received, tasks, task, nxt, order, channel, pusher,
                 sent, dropped, audit>>

InOnTick(s) == {w \in Workers : wpc[w] \in {"store", "return"} /\ order[w].stg = s}

(* What a copy of _order may be when any of these orders may have been     *)
(* stored last in each of its fields.                                      *)
Copies(written) == {o \in Orders : \E a, b \in written : o = [a EXCEPT !.offset = b.offset]}

(* onTick returns a copy of _order, which is one member of the strategy:   *)
(* with others in onTick the copy may mix what they store with its own.    *)
OnTickReturn(w) ==
  /\ wpc[w] = "return"
  /\ LET s == order[w].stg
     IN  /\ \E o \in Copies(member[s] \cup {order[v] : v \in InOnTick(s)}) :
              order' = [order EXCEPT ![w] = o]
         /\ member' = [member EXCEPT ![s] = IF InOnTick(s) = {w} THEN {} ELSE @]
  /\ wpc' = [wpc EXCEPT ![w] = "push"]
  /\ UNCHANGED <<running, main, stg_map, received, tasks, task, nxt, position, channel,
                 pusher, sent, dropped, audit>>

(* _channel.push(order.value())                                            *)
PushOrder(w) == /\ wpc[w] = "push"
                /\ Channel!PushCall(w, order[w])
                /\ wpc' = [wpc EXCEPT ![w] = "pushing"]
                /\ order' = [order EXCEPT ![w] = NoOrder]
                /\ UNCHANGED <<running, main, stg_map, received, tasks, task, nxt, position,
                               member, pusher, sent, dropped, audit>>

(* push() goes on; when it is done the next strategy is.  Nobody looks at  *)
(* what it returned.                                                       *)
Pushing(w) == /\ wpc[w] = "pushing"
              /\ Channel!InPush(w)
              /\ IF ppc'[w] = "idle"
                 THEN /\ wpc' = [wpc EXCEPT ![w] = "strategies"]
                      /\ nxt' = [nxt EXCEPT ![w] = @ + 1]
                      /\ dropped' = IF push_ret'[w] THEN dropped ELSE Append(dropped, u[w])
                 ELSE UNCHANGED <<wpc, nxt, dropped>>
              /\ UNCHANGED <<running, main, stg_map, received, tasks, task, order, position,
                             member, pusher, sent, audit>>

Unblocked(w) == /\ wpc[w] = "pushing"
                /\ Channel!SpuriousWake(w)
                /\ UNCHANGED <<running, main, stg_map, received, tasks, workers, pusher,
                               sent, dropped, audit>>

-----------------------------------------------------------------------------
(* The order-push thread *)

(* Mutant: the thread does not look at _running.                           *)
PusherCheckForgotten == /\ pusher = "check"
                        /\ pusher' = "pop"
                        /\ UNCHANGED <<running, main, stg_map, received, tasks, workers,
                                       channel, sent, dropped, audit>>

PusherCheck == /\ pusher = "check"
               /\ pusher' = IF running THEN "pop" ELSE "exited"
               /\ UNCHANGED <<running, main, stg_map, received, tasks, workers, channel,
                              sent, dropped, audit>>

(* Mutant: the thread ends when there is nothing to pop.                   *)
PusherPopEnds == /\ pusher = "pop"
                 /\ Channel!Consumer
                 /\ pusher' = IF cpc' # "idle" THEN "pop"
                              ELSE IF pop_ret' = NullOpt THEN "exited" ELSE "send"
                 /\ UNCHANGED <<running, main, stg_map, received, tasks, workers, sent,
                                dropped, audit>>

(* _channel.pop(): to "send" when it returns an order, else to the sleep   *)
(* and on to the check.                                                    *)
PusherPop == /\ pusher = "pop"
             /\ Channel!Consumer
             /\ pusher' = IF cpc' # "idle" THEN "pop"
                          ELSE IF pop_ret' = NullOpt THEN "check" ELSE "send"
             /\ UNCHANGED <<running, main, stg_map, received, tasks, workers, sent,
                            dropped, audit>>

PusherSend == /\ pusher = "send"
              /\ sent' = Append(sent, pop_ret)
              /\ late' = IF stopped THEN [late EXCEPT !.orders = @ + 1] ELSE late
              /\ pusher' = "check"
              /\ UNCHANGED <<running, main, stg_map, received, tasks, workers, channel,
                             dropped, stopped>>

-----------------------------------------------------------------------------
Main == \/ Join
        \/ CheckRunning
        \/ \E sym \in Symbols : PollTick(sym)
        \/ PollTimeout
        \/ WaitForAll

Worker(w) == \/ BeginTask(w)
             \/ OnTickNothing(w)
             \/ OnTickDecide(w)
             \/ OnTickStore(w)
             \/ OnTickReturn(w)
             \/ PushOrder(w)
             \/ Pushing(w)
             \/ EndTask(w)

Pusher == \/ PusherCheck
          \/ PusherPop
          \/ PusherSend

Next == \/ \E s \in Strategies : AddStrategy(s)
        \/ Start
        \/ Restart
        \/ Stop
        \/ Main
        \/ \E w \in Workers : Worker(w) \/ Unblocked(w)
        \/ Pusher

Spec == Init /\ [][Next]_vars

(* Every thread runs; nobody has to call start() or stop().                *)
FairSpec == /\ Spec
            /\ WF_vars(Main)
            /\ \A w \in Workers : WF_vars(Worker(w))
            /\ WF_vars(Pusher)

-----------------------------------------------------------------------------
TypeOK == /\ stg_map \in [Symbols -> Seq(Strategies)]
          /\ running \in BOOLEAN
          /\ main \in {"off", "join", "check", "poll", "wait_for_all", "returned"}
          /\ received \in 0 .. MaxTicks
          /\ tasks \in [Symbols -> Nat]
          /\ wpc \in [Workers -> {"idle", "strategies", "store", "return", "push", "pushing"}]
          /\ task \in [Workers -> Symbols \cup {NoTask}]
          /\ nxt \in [Workers -> Nat \ {0}]
          /\ order \in [Workers -> Orders \cup {NoOrder}]
          /\ position \in [Strategies -> {-1, 0, 1}]
          /\ member \in [Strategies -> SUBSET Orders]
          /\ Channel!TypeOK
          /\ pusher \in {"off", "check", "pop", "send", "exited"}
          /\ sent \in Seq(Orders)
          /\ dropped \in Seq(Orders)
          /\ stopped \in BOOLEAN
          /\ late \in [ticks : Nat, orders : Nat]

-----------------------------------------------------------------------------
Count(q, s, d) == Cardinality({i \in 1 .. Len(q) : q[i].stg = s /\ q[i].direction = d})
Net(q, s)      == Count(q, s, "BUY") - Count(q, s, "SELL")

(* The orders on their way, oldest first: popped, in the channel, and with *)
(* the workers that have stored the position but hold no ticket yet.       *)
InFlight == (IF pusher = "send" THEN <<pop_ret>> ELSE <<>>)
              \o (IF cpc \in {"notify", "store_tail"} THEN <<value>> ELSE <<>>)
              \o [i \in 1 .. Len(Channel!Places) |-> Channel!Places[i].value]

AboutToPush(s, d) ==
  {w \in Workers : \/ /\ wpc[w] \in {"return", "push"}
                       /\ order[w].stg = s /\ order[w].direction = d
                   \/ /\ ppc[w] \in {"load_tail", "ticket"}
                      /\ u[w].stg = s /\ u[w].direction = d}

(* With ONE worker a strategy's _position is the sum of its orders: those  *)
(* sent, those on their way, those the channel refused, and the one that   *)
(* is still to be pushed.                                                  *)
PositionExplained ==
  \A s \in Strategies :
    position[s] = Net(sent, s) + Net(InFlight, s) + Net(dropped, s)
                  + Cardinality(AboutToPush(s, "BUY"))
                  - Cardinality(AboutToPush(s, "SELL"))

(* With ONE worker, what leaves the engine while no order is lost is, per  *)
(* strategy, OPEN, CLOSE, OPEN, ... where each CLOSE undoes the OPEN       *)
(* before it.                                                              *)
First(q, j) == \A i \in 1 .. j - 1 : q[i].stg # q[j].stg

Consecutive(q, i, j) == /\ q[i].stg = q[j].stg
                        /\ \A k \in i + 1 .. j - 1 : q[k].stg # q[j].stg

PairsUp(q) == \A j \in 1 .. Len(q) :
                /\ First(q, j) => q[j].offset = "OPEN"
                /\ \A i \in 1 .. j - 1 :
                     Consecutive(q, i, j) =>
                       /\ q[j].offset # q[i].offset
                       /\ q[j].offset = "CLOSE" => q[j].direction # q[i].direction

TradesPairUp == dropped = <<>> => PairsUp(sent)

Quiet == /\ \A sym \in Symbols : tasks[sym] = 0
         /\ \A w \in Workers : wpc[w] = "idle"
         /\ head = tail
         /\ pusher # "send"

(* dual_thrust.hpp: _position is "the current holding: 1 long, -1 short,   *)
(* 0 flat".  So while none was refused, once every order of every tick is  *)
(* out, _position is what the orders sent add up to.                       *)
PositionIsHolding == (Quiet /\ dropped = <<>>) =>
                       \A s \in Strategies : position[s] = Net(sent, s)

(* No strategy runs once start() has returned: wait_for_all() "waits until *)
(* all in-flight tasks finish before returning".                           *)
NothingAfterReturn ==
  [][main = "returned" => UNCHANGED <<tasks, workers>>]_vars

(* stop() is final: after it the engine takes in at most the tick it is    *)
(* polling for and sends at most the order it is popping, also when        *)
(* start() is called again.  What else is in the channel, or is pushed     *)
(* into it from here on, stays there.                                      *)
StopIsFinal == late.ticks <= 1 /\ late.orders <= 1

(* "once stop() is called, _running flips to false, everything exits       *)
(* cleanly": start() returns and the order-push thread ends.               *)
Exits == /\ (main # "off" /\ ~running) ~> main = "returned"
         /\ (main # "off" /\ ~running) ~> pusher = "exited"

(* The same as an invariant: once the order-push thread, the only consumer *)
(* of the channel, has ended, no worker is blocked in push().              *)
NobodyStranded == pusher = "exited" => \A w \in Workers : ppc[w] # "blocked"

(* While the engine runs, the order-push thread gets to every order in the *)
(* channel.                                                                *)
OrdersLeave == \A p \in Channel!Positions :
                 (main # "off" /\ tail = p /\ head # p) ~> (tail # p \/ ~running)
=============================================================================
