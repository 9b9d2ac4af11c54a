# A verification development of futrader

futrader trades futures: it receives ticks from a CTP market data front (or, in
a backtest, from DuckDB), runs strategies on them and sends the resulting orders
out. This directory holds TLA+ models of its code, the TLC runs that check them,
and proofs that TLAPS checks. Paths below are relative to the repository, whose
code is in `src/`.

## 1. The system

| component | state | operations | hard behaviour | what makes it correct |
|---|---|---|---|---|
| SPSC channel, `channel/spsc.hpp` | ring of slots, `_write_pos`, `_read_pos`, both free running and wrapping | `push` (producer), `pop` (consumer) | two threads without a lock; acquire loads that may lag; wrapping | FIFO, nothing lost, duplicated or overwritten; no data race |
| MPSC channel, `channel/mpsc.hpp` | ring of (seq, data), `_head`, `_tail` | `push` (many producers; draws a ticket, may block in `atomic::wait`), `pop` (one consumer; `notify_one`) | check and ticket apart; more tickets than slots; wake-ups | FIFO by ticket, no data race, a blocked producer comes back |
| CTA engine, `engine/engine_cta.hpp` | `_running`, `_stg_map`, `_executor`, `_channel` | `addStrategy`, `start`, `stop`; the tick loop, the tasks, the order-push thread | strategies of one symbol run on several workers; shutdown with work under way | orders match positions; start() returns after stop(); no order runs after it |
| Strategies, `stra_cta/*.hpp` | `_position`, prices, rolling windows | `onTick` | first tick after each closing, NaN windows, no lock | an order only from the state it belongs to; `_position` is the holding |
| CTP market data, `ctp_md/ctp_md.hpp` | a binary semaphore shared by all answers, the CTP API | `start`, callbacks on the API's thread | answers, disconnection and reconnection in any order | each step of start() goes on only after its own answer; ticks carry their day |
| CTP trading, `ctp_td/ctp_td.cpp` | the same with requests, order references | `Start`, requests, callbacks | as above; requests that release without an acquire; retries | as above |
| Backtest data, `bt_md/bt_md.hpp` | query text, callback | `subscribe`, `start` | repeated `subscribe`; a callback that must wait for its channel | every symbol asked for is queried, every row is delivered once and in order |
| Rolling operators, `operator/rolling.hpp` | window, sum, NaN count, index | `update` of Sumer, Meaner, ... | NaNs entering and leaving, long runs | equal to the definition over the last N values |
| Tick parser, `parser/tick_parser.hpp` | current bar, day cache | `BarGenerator`, `TimeStampCalculator`, `hashFutureSymbol` | minute and day boundaries, volume differences | bars add up to the ticks |
| Config, error, string, struct parsers | none | read TOML, format | none (sequential input and output) | - |
| Test pipelines, `ctp_md_test.cc`, `bt_md_test.cc` | SPSC channel between a client and a consumer | push or drop, push or retry | full channel | order kept, nothing lost when the push is repeated |

Interactions. A market data client calls back on its own thread and the test
pipelines hand the tick over through an SPSC channel. The engine receives ticks
over a ZeroMQ SUB socket, gives each to a Taskflow executor, whose workers run
the strategies of the symbol and push orders into the MPSC channel; the
order-push thread pops them and sends them over a ZeroMQ PUSH socket. The CTP
clients exchange requests and answers with the CTP library, which calls back on
its own thread and releases the semaphore the calling thread acquires.

`PROJECT.json` lists the components, their status, and every hazard with its
line and the properties that would catch it.

## 2. The modules

| module | models | role |
|---|---|---|
| `RingIndex` | index arithmetic of both channels: wrapping positions, slot of a position | pure operators |
| `Spsc` | `spsc.hpp`, one action per access to shared memory | detailed |
| `BoundedFifo` | what `spsc.hpp` promises: a bounded FIFO queue | abstract; implemented by `Spsc` |
| `RingIndexProofs` | - | lemmas on wrapping indices |
| `Mpsc` | `mpsc.hpp`, one action per access to shared memory, with wait and notify | detailed |
| `TicketQueue` | what `mpsc.hpp` promises: places drawn in order, filled in any order, taken in order | abstract; implemented by `Mpsc` |
| `MpscProofs` | - | proofs |
| `CtaEngine` | `engine_cta.hpp` over `Mpsc`, strategies abstracted to position and orders | composition |
| `MCCtaEngine` | the instances of the engine | TLC |
| `CtaEngineProofs` | - | proofs |
| `CtpMd`, `CtpMdProofs` | `ctp_md.hpp`: `start()`, the callbacks, the stamp of a tick | detailed; proofs |
| `CtpTd`, `CtpTdProofs` | `ctp_td.cpp`: `Start()`, requests and answers | detailed; proofs |
| `Doubles` | prices: integers, the infinities and NaN, with the comparisons and sums of IEEE 754, `std::max`, `std::min` | pure operators |
| `Rolling` | `rolling.hpp`: one `update` of a `Sumer` | pure operators |
| `Aberration`, `DualThrust` | `onTick` of the two strategies | detailed |
| `Trader` | what a strategy promises the engine: opens, closes what it opened, nothing else | abstract; implemented by both |
| `Strategies`, `StrategiesProofs` | both strategies on one stream of ticks, with the histories their properties speak of | composition; proofs |
| `MCStrategies` | the feeds the prices come from | TLC |
| `TickParser`, `TickParserProofs` | `BarGenerator` of `tick_parser.hpp` | detailed; proofs |
| `BtMd` | `bt_md.hpp` and the pipeline of `bt_md_test.cc` over `Spsc` | composition |
| `BtMdProofs` | - | proofs, of `Spsc` and of the pipeline |
| `MCBtMd` | the lists given to `subscribe` | TLC |

### 2.1 Indices (`RingIndex`)

Both channels address slot `pos & MASK` by a position that runs freely in a
`size_t`. `Positions` is `0 .. WordSize - 1`, `Slots` is `0 .. BufSize - 1`,
`Slot(pos)` is `pos % BufSize`, `Add` and `Sub` are the unsigned operations
modulo `WordSize`. The code requires `BufSize` to be a power of two, `size_t`
has a power of two of values; what the models and the proofs use of this is
only that `BufSize` divides `WordSize` and is smaller (`RingAssumption`). A tiny
`WordSize` makes the indices wrap after a few operations, so wrapping is part
of every run.

### 2.2 SPSC channel (`Spsc`, `BoundedFifo`)

`push` is `PushCall`, then `PushFull` or `PushRoom` (the load of `_read_pos` and
the check), `PushWrite` (the slot), `PushPublish` (the release store). `pop` is
`PopCall`, then `PopEmpty` or `PopReady`, `PopRead`, `PopAdvance`. The load of
the index that only the calling thread writes is merged with the call: no other
step can tell.

Memory order. The load of the other side's index is an acquire load that reads
from a release store. With `StaleReads` the load returns any value between the
last one this thread saw and the current one, which is what coherence and
acquire/release allow for one location; the slot accesses are ordered by the
release/acquire pair, so they need no weaker model. Without `StaleReads` the
loads are current and the refusals are exact.

`BoundedFifo` is a sequence of at most `Capacity` values with `Push`, `PushFull`,
`Pop` and `PopEmpty`; if `Exact`, a push is refused only when the queue is full
and a pop answers nothing only when it is empty, else either may come late.
`Queue` in `Spsc`, the published slots from the oldest on, is the refinement
mapping: `PushPublish` and `PopAdvance` are where a push and a pop take effect.

### 2.3 MPSC channel (`Mpsc`, `TicketQueue`)

`push` by producer `p`: `PushCall` (loads `_head`), `PushFull`/`PushRoom` (loads
`_tail`, checks), `TakeTicket` (`fetch_add`), `LoadSeq`, `Wait`, `PushWrite`,
`PushPublish`. `pop`: `PopEmpty`/`PopReady`, `PopRead`, `PopFree`, `PopNotify`,
`PopStoreTail`. `atomic::wait` compares and blocks in one step and may wake
without notification (`SpuriousWake`). `notify_one` unblocks at least one of the
producers whose wait is over (the value of the slot differs from the one they
wait on), any of them: that is the guarantee of the C++ standard. An
implementation may wake all of them, which is one of the choices.

Accesses interleave sequentially consistently. For `_head` (read-modify-write)
and `seq` (acquire/release) that is what the code has; the relaxed loads of the
full check could lag behind as well, which the model leaves out: the check can be
passed or failed wrongly already because its two loads are apart.

`TicketQueue` is a sequence of places, each claimed by a producer or filled with
a value. A producer draws the next place, fills it some time after it has come among
the first `BufSize`, and the consumer takes the first place once it is filled. `Places` and `Returned` in `Mpsc` are
the refinement mapping.

### 2.4 CTA engine (`CtaEngine`)

`Mpsc` is instantiated with the workers as producers and orders as values, and
every step of `push` and `pop` is a step of the engine. The thread in `start()`
is `main`: `CheckRunning`, `PollTick` (a tick becomes a task, `silent_async`) or
`PollTimeout`, and at the end `WaitForAll`. A worker takes any waiting task
(`BeginTask`), and for each strategy of its symbol does `OnTickNothing`, or
`OnTickDecide` (reads `_position`, chooses an order), `OnTickStore` (writes
`_position` and `_order`), `OnTickReturn` (copies `_order`), `PushOrder` and
`Pushing` (the steps of `push`). The order-push thread is
`PusherCheck`, `PusherPop`, `PusherSend`. `Stop` may happen at any time, also
before `start()`, and more than once.

`_order` is one member of the strategy, written field by field and returned as a
copy. `member` keeps what the `onTick`s under way have stored in it; what a worker
returns may mix these, its own and what others are storing (`Copies`: the direction
of one, the offset of another). A worker alone in `onTick` returns what it stored.

What is abstracted: the prices (`Decisions` is every order `onTick` could return
for the position it found: from 0 it opens in either direction, from a position
it closes it); the order in which the executor begins tasks (any; since the prices are
left out, `tasks` only counts those of each symbol); the sleep of
the order-push thread (no time); the ZeroMQ sockets (`PollTick` receives any
symbol that matches a subscription, also one that does so only as a prefix and has no
strategies, and sends succeed, that is, the PUSH socket has a reader).

`AddStrategy` is a call of `addStrategy`, with which the symbol is subscribed to, by the thread
that calls `start()`: before it or after it has returned. Strategies come in any order, and
`start()` may find only some of them, or none. `SymbolOf` says which symbol each is added
for, `Matched` which subscriptions are prefixes of a symbol.

`Restart` is `start()` called again after it has returned. It begins a new
order-push thread, and then the assignment to `_order_push_thread` joins the old one
(`Join`). `_running` is false by then and nothing sets it again, so all the new thread
can have done meanwhile is to look at it and end, and `start()` returns at once. `late`
counts the ticks received and the orders sent since `stop()`, and `StopIsFinal` bounds
both by one: the tick that is being polled for, the order that is being popped. What
is left in the channel, or pushed into it later, is never sent.

### 2.5 CTP clients (`CtpMd`, `CtpTd`)

Two threads: the one that calls the client and the one of the CTP library, which
runs the callbacks. Each callback is an action, and so is each `_sem.acquire()`
(`Acquire`) and each request (`Ask`). The answers say nothing the code looks at
(`handle_resp` prints them), so the models keep only what can go wrong: which
answer is due to whom, and the token. `CtpMd` also keeps what the front has
accepted on this connection, because what `start()` is for is a subscription.

`_req_id` is passed to the library and never compared, so it is left out; `CtpTd`
tells apart the parts due of the answer the caller waits for (`own`) and the
answers due to nobody (`others`: those of `QryExchange` and the other requests that
do not wait, and those a caller did not wait long enough for). One thread
makes the calls, as in the tests.

External: the library connects again by itself and then calls `OnFrontConnected`
again (`third_party/ctp/ThostFtdcTraderApi.h:32-35`); the connection that was
lost takes the answers due with it; requests are refused with the codes of
`REQ_ERRORS` (`error_parser.hpp:44`), -1 without connection, -2 with too many
unanswered, -3 with too many in a second. `CtpTd` counts what the two limits are
about; in `CtpMd` the library may refuse either request (`denied`), and `start()`, which
does not look at what a request returned, then waits until the connection is lost
(`StartReturns` leaves that out). An accepted order has no
`OnRspOrderInsert`. `release()` on a full binary semaphore is undefined: the models
let the token be lost or counted.

A tick of `CtpMd` (`OnRtnDepthMarketData`) is what its stamp depends on: its
`ActionDay`, which may be missing. `Compute` is `TimeStampCalculator::compute` with its
cache of one day; `Unspecified` is what the code computes from characters that
are no date, `Day0` the epoch the cache begins with. Two things
follow that the code does not say: a stamp is that of the tick's own day whatever
came before (`StampOfDay`), and a front that has gone silent after `start()` has
returned, since nobody logs in on a new connection, stays so (`SilenceIsFinal`).

### 2.6 Strategies (`Rolling`, `Aberration`, `DualThrust`, `Trader`, `Strategies`)

A price is an integer, an infinity or `NaN`. `Doubles` compares and adds them as
IEEE 754 does: every comparison with a NaN is false, an infinity compares and is kept by
`std::max` and `std::min` like any value, and the difference of an infinity and itself is a NaN. `rolling.hpp` counts the infinities
among its NaNs (`nan_or_inf`).

`Rolling` is the step of `Container::update` and `Sumer::update`: which value
leaves the window, how the sum and the count of NaNs change, and when NaN is
returned. `Aberration` has three of them, as `_meaner` and `_stder` have.
The mean is a quotient and the standard deviation the root of one; so that no
fraction is needed, `last > mean + 2 * std` is multiplied out and squared:
`dist > 0` and `dist^2 (N-1) > 4 N (N q - s^2)`, with `dist = N last - s`.

`DualThrust` keeps `_open`, `_max`, `_min`; the thresholds are multiplied by two,
since the factor of the range is 0.5.

`Strategies` gives each tick to both, as the engine's task does for a symbol that has
both, and keeps what the properties compare with: `seen`, the last N prices, and
`entry`, the price `DualThrust` opened at. `WindowExact` compares the running sums
with the sums over `seen`; `OpensAtBand` and `ClosesAtMean` compare the decisions
with mean and variance computed from `seen` (the variance from the pairwise
differences, a formula the code does not use). `ImplementTrader` shows that both
implement `Trader`, which is the assumption `CtaEngine` makes in `Decisions`.

What the model brought to light about `DualThrust`: at the tick after each
closing the range is 0, a finite price meets the buy threshold, and a long position is opened
(`ReopensAtOnce`). The thresholds of later ticks decide nothing at finite prices, and
`_open` is the price of entry (`HeldFromEntry`). If that first price is NaN, no comparison
is ever true again and the strategy is silent for good. If it is an infinity the range is
NaN or infinite: the strategy waits until, after some other price, that infinity comes again, and opens then, long at plus
infinity and short at minus infinity, the only way to a short position.

### 2.7 Bars (`TickParser`)

`ProcessTick` is `process_tick`: the first tick, a tick of the same interval
(`SameBar`), or one of another (`NextBar`), which closes the bar whether it is later or
earlier. The symbol is left out: a generator is made for one. The histories
`opened`, `last`, `prices`, `several` say which ticks the current bar is made of, and
`counted` adds up the volumes of the closed bars. A bar of one tick has volume 0, and
its volume goes to the next bar; when the accumulated volume of the day falls, what
it fell by is subtracted. With that, `VolumeConserved` holds for every order of ticks.

### 2.8 Backtest pipeline (`BtMd`)

One thread runs `subscribe()` and `start()`; the callback of a row pushes its tick and,
refused, sleeps and pushes again. Another polls and counts. `BtMd` EXTENDS `Spsc`: `NextRow` and `Retry` are `PushCall`,
`Pushing` and `Consume` are its other steps, so the channel is the one of section
2.2, access by access, with loads that lag. A tick is the number of its row; DuckDB
is external: a query fails or has any number of rows.

`holder` is what `subscribe()` has built of the query: a sequence of SQL string
literals. The code puts no comma between the lists of two calls, so that the
quote that ends one and the quote that begins the next are together one escaped
quote, and two symbols make one literal that names neither. `OnlySeamsLost` bounds the loss:
two symbols per further call, and none with one call.

## 3. The runs

| run | instance | asks |
|---|---|---|
| `mpsc_order` | 2 producers, 2 slots, 4 positions, 2 values, fair | does `Mpsc` implement `TicketQueue`; does every `push` come back |
| `mpsc_waiters` | 3 producers, 2 slots, 6 positions | slots not shared, tickets overrun by less than the number of producers, `notify_one` reaches the owner of the freed slot |
| `mpsc_refusal` | 2 producers | violation: `push` refused on a queue that is not full |
| `engine_one_worker` | 1 worker, up to 2 strategies on one symbol, 2 ticks, fair | positions are explained by the orders; trades pair up; orders leave the channel; after `stop()` everything ends |
| `engine_tasks` | 2 workers (symmetric), 1 strategy, 2 symbols, 3 ticks | types; nothing runs after `start()` has returned; at most one tick comes in and one order goes out after `stop()`, also with a second `start()` |
| `engine_holding` | 2 workers, 1 strategy, 2 ticks | violation: `_position` is not the holding |
| `engine_stop_hangs` | 2 workers, 1 strategy, 3 ticks | violation: a worker is stranded in `push` after `stop()` |
| `ctp_td_session` | 2 parts, 2 unanswered, 2 per second, 2 lost connections | calls return, on their own answer while nothing is stray; `Start()` returns |
| `ctp_md_start` | 2 instruments, 2 days, 3 lost connections | `start()` returns unless a request is refused; then all instruments are subscribed unless an answer or a connection failed; ticks are stamped with their day; silence is final |
| `strategies` | window of 6; seven feeds of 3 prices out of 1, 2, 4, NaN and the infinities; any number of ticks | rolling sums exact; `Aberration` opens and closes where its definition says; `DualThrust` opens long at once at a finite price, holds while the price is not across it, and goes short only at minus infinity; both implement `Trader` |
| `tick_parser` | intervals of 2, 4 times, 3 prices, 3 volumes, any number of ticks | bars are what their ticks say; volumes add up |
| `bt_pipeline` | 2 slots, 4 positions, lagging loads, 5 rows, 2 calls of `subscribe` | the ring is a FIFO queue and free of races; rows arrive once and in order; `start()` ends; only seams are lost |

### 3.1 Bounds

* `BufSize = 2` is the smallest ring the code accepts in which a slot has a
  neighbour; that nothing depends on 2 is proved for the SPSC ring. `WordSize` is the smallest
  multiple of it that can tell the tickets in flight apart
  (`MpscAssumption`: `BufSize` plus the number of producers), so all runs wrap.
* Three producers are `BufSize + 1`: two hold the slots, one overruns and blocks,
  so that blocked producers meet `notify_one`. More would let two block on ONE
  slot, where `notify_one` need only wake one of them and may pick the later
  ticket; `mpsc.hpp` does not bound the number of producers, and libraries that
  wake every waiter of an address are not affected. `NotifyReachesOwner` is therefore
  claimed up to `BufSize + 1` producers. `mpsc_order` has two: both fill
  and publish out of order, and one can block behind a full ring.
* Two values tell a reordering from a duplicate; the runs with one value ask
  nothing about values.
* `MaxTicks` bounds the ticks received. Two ticks with two strategies each give
  four orders on two slots: the channel fills, refuses and wraps. Three are
  needed for a worker to pass the check and then find the slot taken.
* Two lost connections: the second can hit while the effects of the first (a
  stray token, an answer of the old connection) are still there; `ctp_md_start` has a
  third, so that one can be lost after `start()` has returned on the tokens of the
  others. `MaxTokens` lets every one of them leave a token. `Rate = 2` lets `Start()` log in within one
  second and makes `QryDepthMarketData` meet refusals.

* `strategies` bounds neither the number of ticks nor what is summed: the state is the
  window, so it is finite. `N = 6` (100 in the code) is the smallest window in which
  a price can be two standard deviations off a mean it is part of: the most it
  can be off is `(N-1)/sqrt(N)` of them. Prices 1, 2 and 4 give unequal distances.
  A window of six has too many contents for all six prices at once, so `MCStrategies` draws
  the prices of a run from one feed of three: 1, 2 and 4; two finite prices with NaN or minus
  infinity; one finite price with two of NaN and the infinities. Every window starts full of NaN, so each feed
  has NaNs go, and some have them come back. The proofs of `StrategiesProofs` need no such bound.
* `tick_parser` likewise: two intervals with two times each, so that ticks arrive late
  within a bar and before it; three volumes, so that they rise, stay and fall.
* `bt_pipeline`: five rows turn the ring of two twice and wrap the positions of a
  four-valued word; the producer fills it, is refused, and repeats. Two calls of
  `subscribe` with lists of up to three symbols, the empty one among them, have one seam.

The engine runs stop receiving at `MaxTicks` but keep polling (`PollTimeout`).
Deadlock is checked in every run; in the engine `stop()` can always be called
again, so there it is `Exits` and `NobodyStranded` that say whether anyone is
left waiting. The same goes for `CtpTd`, where time always passes. `ctp_md_start`
does not check deadlock: once `start()` has returned nothing need happen.

### 3.2 Fairness

`Mpsc`: a thread inside `push` keeps running, and the consumer polls
for ever, as each consumer loop of the repository does while it runs. Nothing makes
anyone call `push`, and no spurious wake-up is counted on. `CtaEngine`: the
polling thread, each worker and the order-push thread run. `Start`, `Stop` and
spurious wake-ups are not fair. `CtpMd` and `CtpTd`: the library connects and the
front answers what it accepted, time passes, the thread inside a call runs; no
call has to be made and no connection has to be lost. All this fairness is weak: every step is
one a running thread can take by itself.

`BtMd` runs the client's thread and the consumer weakly fairly, and adds strong
fairness of `PushRoom` and `PopReady`. With lagging loads each of them competes with
a load that still sees the old index. C++ asks that a store become visible in a finite
time ([intro.progress]), so a thread that looks again and again sees the index move:
that is what strong fairness says. The retry loop sleeps between two looks and the
consumer's loop polls, so both do look again.

### 3.3 What the violations show

* **Refusal on an empty queue** (`mpsc.hpp:84-86`). `_head` is loaded before
  `_tail`. When another producer's tickets are taken and consumed in between,
  `cur_tail` has passed `cur_head`, the difference underflows and `push` returns
  false; the comment at `mpsc.hpp:62` promises false only if the queue is
  definitely full.
* **Position is not the holding** (`engine_cta.hpp:152`, `dual_thrust.hpp:87`).
  Two tasks of one symbol run on two workers; both see `_position = 0` and open.
  With one worker it does not happen (`engine_one_worker`).
* **Stop strands a worker** (`engine_cta.hpp:126-163`). The order-push thread, the
  only consumer, ends when it sees `_running` false; a worker that still waits for
  a slot waits for ever, and so does `wait_for_all`. With one worker there is only one
  producer, the check and the ticket cannot be overtaken, and `Exits` holds
  (`engine_one_worker`).

## 4. The proofs

`RingIndexProofs` holds the lemmas on wrapping indices: sums and differences stay
in range, `Sub(Add(a, n), a) = n`, adding is associative, two positions
less than `BufSize` apart have different slots. They are proved from
`RingAssumption` alone, by writing the modulus as a quotient and a remainder.

`BtMdProofs` proves, first of `Spsc` alone, for every `BufSize`, `WordSize`, set of values and
both choices of `StaleReads`:

| theorem | states |
|---|---|
| `TypeCorrect` | `Spec => []TypeOK` |
| `NeverLappedAlways` | `Spec => []NeverLapped` |
| `NoDataRaceAlways` | `Spec => []NoDataRace` |
| `Refinement` | `Spec => ImplementsFifo` |

The argument. `NeverLapped` is not inductive: the producer decides on a copy of
`_read_pos` that may be old. `IndInv` adds what makes the old copy safe:

* `LocalsCurrent`: inside a call, the thread's copy of its own index is current;
* `ViewsBehind`: each thread's copy of the other index lies on the arc behind the
  current one, `r_seen` at most as far behind `read_pos` as keeps
  `write_pos - r_seen` within `BufSize`, and `w_seen` between `read_pos` and `write_pos`;
* `InFlight`: a producer that passed the check still has room, a consumer that
  passed it still has a value, and the value it read is the one in the slot.

A stale copy can then only make a thread see less room or fewer values than there are.
`NeverLapped` and `NoDataRace` follow, and the refinement step by step: `PushPublish` appends, since the
slot written is none of those in use; `PopAdvance` removes the head; the refusals
follow from `ViewsBehind`; every other step leaves `Queue` unchanged.

`MpscProofs` proves of `Mpsc`, for every ring, any values and any finite set of producers:

| theorem | states |
|---|---|
| `TypeCorrect` | `Spec => []TypeOK` |
| `OverrunBoundedAlways` | `Spec => []OverrunBounded` |
| `NoDataRaceAlways` | `Spec => []NoDataRace` |
| `Refinement` | `Spec => ImplementsTicketQueue` |
| `NotifyReachesOwnerAlways` | `Spec => NotifyReachesOwner`, if there are at most `BufSize + 1` producers |

The argument. The tickets that have been drawn and not taken are the first `Drawn` ones from
`Front` on; `RingInv` says who has them and what the slots are at:

* `HeldTickets`: the tickets producers hold are different ones of those;
* `SlotsInTurn`: the slots serve the next `BufSize` tickets, each waiting for its
  ticket (`Free`) or holding its value (`Published`), which then nobody holds;
* `InOwnSlot`: a producer that has stopped waiting has one of these `BufSize` tickets,
  so two of them, or one and the consumer, are never at the same slot.

All of this needs two tickets never to be confused, so `head` must not run round the word and
meet `tail`. The full check alone does not prevent it, as it is apart from the draw. `DifferentDrawers` does:
a ticket `tail + k` with `k >= BufSize - 1` is late; who drew it still has it, or cannot pass
the check again while `tail` is the same, because a later `_head` is at least `BufSize` past it. Late
tickets therefore have different drawers: there is an injection from them to the producers,
and a producer about to draw is not among its values. Counting gives `OverrunBounded`
before and after each draw, and `MpscAssumption` (a word holds the ring and one ticket per
producer) keeps the indices apart.

For the refinement, `HeldOrPublished` (a drawn ticket is published or held) and
`InFlight` (the value under way is the one pushed) give `PlacesKnown`, the places ticket by
ticket. `TakeTicket` claims, `PushPublish` fills, `PopFree` takes, `PushFull` and `PopEmpty`
refuse, every other step leaves the places unchanged.

`NotifyReachesOwnerAlways` adds `WaitsForSlot` (a producer waits because its slot showed a sequence number
other than its ticket) and `SlotOwner`: the slot given back at `tail` waits for the ticket `tail + BufSize`, and the next
ticket of the same slot, `tail + 2 * BufSize`, has not been drawn, since tickets overrun the ring by at most
`BufSize` when there are `BufSize + 1` producers. So whoever is blocked on the slot is its owner. The hypothesis on the number of
producers is needed (section 3.1).

`CtaEngineProofs` proves of `CtaEngine`, for any strategies, symbols, ticks and any ring:

| theorem | states | workers |
|---|---|---|
| `TypeCorrect` | `Spec => []TypeOK` | any |
| `UsesChannel` | `Spec => Channel!Spec`: the engine's behaviours are behaviours of `Mpsc` | any |
| `ChannelSafe` | `Spec => [](Channel!NoDataRace /\ Channel!OverrunBounded)` | any |
| `ChannelIsQueue` | `Spec => Channel!ImplementsTicketQueue` | any |
| `NothingRuns` | `Spec => NothingAfterReturn` | any |
| `StopFinal` | `Spec => []StopIsFinal` | any |
| `TicketOrder` | `Spec => OrdersKeepTheirPlace`: what is sent or has a ticket only grows, at the end | any |
| `PositionExplainedAlways` | `Spec => []PositionExplained` | one |
| `TradesPairUpAlways` | `Spec => []TradesPairUp` | one |

The argument. `CallInv` says where each thread is in relation to the channel: a worker is inside `push`
exactly while it is `pushing`, the order-push thread inside `pop` only at `pop`, and nobody has work to
do before `start()` is called and once it has returned. That makes every step of the engine one of `Mpsc` or
none (`UsesChannel`), discharging what `Mpsc` assumes of its callers, and `Ring`, an instance of `MpscProofs`
with the workers as producers, carries its theorems over. `ChannelAssumption` says of the
constants what the proofs of `Mpsc` need (a finite number of workers that the word has
room for, `BufSize` dividing `WordSize`).

`StopIsFinal` bounds what has come in and gone out after `stop()`, and is not inductive: the next
step may be the one that takes a tick or sends an order. `StopInv` counts it in advance: what has come in
plus the poll under way is at most one, and so is what has gone out plus the pop or send under way.
It holds because nobody gets to another poll or pop without looking at `_running`, which nothing sets.

`PositionExplained` and `TradesPairUp` speak of orders in several places. `Trail` is the orders sent, the one
being popped and those with a place in the channel, in this order: `TicketOrder` shows that a step of the channel moves
orders within it and that it grows by the order of a worker that draws a ticket. `Pending` is the order between `_position` and its
ticket. With one worker each step then does one of four things (`BookStep`): `onTick` stores
`_position` and the order becomes pending, a pending order gets its ticket, it is refused, or none of
these changes (when `onTick` returns, the order stays the same: `OwnCopy` says that with one worker
`_order` holds what this worker stored). `Explained`, the sum over `Trail`, `dropped` and `Pending`, is kept by all four, but for the first it needs
`Decided`: the order about to be stored is one the strategy may return at its *present* position. For `TradesPairUp` the
invariant is `Holding`: while nothing is refused, trail and pending order together pair up, and
`_position` is what the last of them left (`Agrees`), without which the next order could not be judged.
One worker is the hypothesis because `Decided` is false with two: the position may
change between `OnTickDecide` and `OnTickStore` (the run `engine_holding`).

`CtpTdProofs` proves of `CtpTd`, for answers of any number of parts, any limits
of the library and any number of lost connections:

| theorem | states |
|---|---|
| `TypeCorrect` | `Spec => []TypeOK` |
| `OwnAnswerAlways` | `Spec => OwnAnswer`: a call returns on its own answer while no token is stray |
| `BinaryRespectedAlways` | `Spec => BinaryRespected`: no release on a full semaphore while no token is stray |

Neither property is inductive: that the token in the semaphore is the caller's depends
on there being none before the request. `OneToken` says that, place by place:
the token comes with the connection in `connecting`, with the last part of the own answer
while a call waits, and is absent everywhere else. `DueBounded` bounds the answers due,
also when a stray token has turned an own answer into one for nobody.

`CtpMdProofs` proves of `CtpMd`, for any instruments, days, limits and numbers of
lost connections: `TypeCorrect`, `StartedMeansSubscribedAlways`, `StampOfDayAlways`,
`SilenceIsFinalAlways`. `StartedMeansSubscribed` speaks of the end of `start()` only; `InStep` says, for each
place in it, what has been asked for, answered and released while no connection is lost: one token at most, which
comes with the last answer of the request that is waited for, and none if that request was refused. `CacheRight` is what makes
the stamp right: the cached epoch belongs to the cached day.

`TickParserProofs` proves of `TickParser`, for every interval and any prices and volumes: `TypeCorrect`,
`BarIsItsTicksAlways`, `VolumeConservedAlways`. `VolumeAtStart` is the strengthening: `_last_bar_vol`, a
sum of differences, is always the volume of the first tick plus what closed bars count, which is
the volume the current bar begins at.

`StrategiesProofs` proves of `Strategies`, for every window length and any prices:

| theorem | states |
|---|---|
| `TypeCorrect` | `Spec => []TypeOK` |
| `WindowExactAlways` | `Spec => []WindowExact` |
| `OpensAtBandAlways` | `Spec => OpensAtBand` |
| `ClosesAtMeanAlways` | `Spec => ClosesAtMean` |
| `Refinement` | `Spec => ImplementTrader` |
| `HeldFromEntryAlways` | `Spec => []HeldFromEntry` |
| `ReopensAtOnceAlways` | `Spec => ReopensAtOnce` |

For `DualThrust` the invariant, `DualState`, has the states it can be in between ticks:
begun anew; long, with `_open` finite; begun with NaN and stuck; or begun with an infinity, which waits until
that infinity comes again. Together with `HeldFromEntry` itself it is inductive.

For `Aberration` it is `AbbState`: each `Sumer` `Tracks` a window, `_stder`'s second one the squares. `Tracks` is
stronger than `WindowExact`: the ring buffer, read from `head_idx` on, is the window itself, so that what an
update takes off the sum is what it once added. The sums over the window are recursive functions of
the data, and the induction theorems of the library, which take a predicate as a parameter, cannot be
instantiated by the installed provers. `Induction` does it for a set instead
(a set of naturals that has 0 and successors is `Nat`), from the least element that
`NatLessThanWellFounded` gives every set of naturals. With it: `UptoIs` (the recursive function
exists and obeys its equation), `SumMoves` (a window that moves on loses its first value and gains a new one),
`SumCombines` (sums are linear), `SumCounts` (a count of NaNs is 0 only if nothing is NaN) and
`PairsIdentity`: the squared distances of all pairs add up to `2 (N q - s^2)`, so that the variance the code gets
from its running sums is the one of the prices in the window (`BandIs`).

`BtMdProofs` proves of `BtMd`, for every ring, any number of rows, any lists:

| theorem | states |
|---|---|
| `UsesChannel` | `BtSpec => Spec`: the pipeline's behaviours are behaviours of `Spsc` |
| `PipelineFifo` | `BtSpec => ImplementsFifo` |
| `RowsInOrderAlways` | `BtSpec => []RowsInOrder` |
| `OnlySeamsLostAlways` | `BtSpec => []OnlySeamsLost` |

`UsesChannel` is where the assumption of the SPSC channel, one producer that finishes a push
before it begins the next and one consumer, is discharged: `ClientInv` says that the client is
inside `push` exactly while its callback is. `RowsInOrder` is inductive together with the two
invariants; its steps cite what the proofs of `Spsc` say a publication and a pop do to `Queue`.
`OnlySeamsLost` is inductive with `HolderInv`: a further call keeps all literals but the last
and adds all of its own but the first (`AppendedKeeps`), so it loses two symbols at most.

Assumed of the constants, and nothing else: `BufSize` divides `WordSize` and is smaller, a word
has room for the ring and a ticket per producer, intervals of bars and times are natural, windows have at least one price, prices
are integers, infinities or NaN, `subscribe()` of the market data client was given at least one
instrument and finitely many (`Symbols # {}`: the front answers a subscription once per instrument),
an answer of the trading front has at least one part and a semaphore holds at least one token, each strategy is
added for a symbol, which matches its own subscription, bounds and limits are natural numbers, the marks for "nothing" are not values. Each assumption is named, stands in the module that declares the
constant, and is evaluated by TLC in every run of that module.

Only model-checked: the liveness properties (`PushReturns`, `Exits`, `OrdersLeave`, `StartReturns`, `CallsReturn`,
`AllRowsConsumed`), which the prover does not support. Every other property of a passing
run is also proved. The three violations are counterexamples of TLC.

## 5. Plan

Done: the channels, the engine, the CTP sessions, the strategies with their operators,
the bars, the backtest pipeline, and the proofs above: every safety and action property of a passing run
is proved for all values of the constants. Left: what the CTP clients promise as abstract
specifications (a call and its answer), and the steps of the liveness arguments that are safety, such as
what a blocked caller waits for.

Not modelled, and why:

* The column shift at `bt_md.hpp:69`: a comma is missing between two columns of the
  query, which therefore has 29 where `start()` reads 30. It is read off the source;
  no state and no order of steps is involved.
* `Skewer` of `rolling.hpp`, which no strategy uses; rounding and overflow of doubles, since sums of the models are exact.
* `hashFutureSymbol`, which packs letters into a number, and `check_zoned_time`, which prints.
* File formats and printing in `parser/`: sequential input and output.
* The pipelines of the tests over ZeroMQ, whose sockets are external, and the one of
  `ctp_md_test.cc` that drops a tick when the channel is full: it adds nothing to the channel.
* The CTP library, ZeroMQ, Taskflow and DuckDB themselves: third-party, their behaviour towards
  `src/` is modelled where it is used.
* `bt_td`, which is empty, and `ctp_td.hpp`, an older copy that no target builds.
