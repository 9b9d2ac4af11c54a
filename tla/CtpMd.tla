------------------------------- MODULE CtpMd -------------------------------
(***************************************************************************)
(* CtpMdClient of src/ctp_md/ctp_md.hpp: start() connects, logs in and     *)
(* subscribes, each time waiting on one binary semaphore that the          *)
(* callbacks release on a thread of the CTP library.  What an answer says  *)
(* is printed and not looked at.  Ticks are stamped by TimeStampCalculator *)
(* of src/parser/tick_parser.hpp, which caches the epoch of the day, and   *)
(* handed on; of a tick only the day it carries and the day it is stamped  *)
(* with are kept.                                                          *)
(*                                                                         *)
(* The front and the library are external.  The front serves requests in   *)
(* the order sent and answers a subscription once per instrument, the last *)
(* answer marked; each connection begins before login; a lost connection   *)
(* loses the requests not yet answered.  The library may refuse a request  *)
(* with -2 or -3, "more than allowed" unanswered or per second.  Releasing *)
(* a semaphore that holds its token already is undefined; the token is     *)
(* lost or counted.                                                        *)
(***************************************************************************)
EXTENDS Integers, Sequences, FiniteSets

CONSTANTS Symbols,      \* what subscribe() was given
          Days,         \* the days a tick's ActionDay may give
          NoDay,        \* an ActionDay that is no number, 0 in the code
          Day0,         \* 1970-01-01, where the calculator starts
          Unspecified,  \* what the digits of no number make of a day
          MaxDrops,     \* bound: times the connection is lost
          MaxTokens     \* bound: tokens counted in the semaphore

ASSUME CtpMdAssumption == /\ IsFiniteSet(Symbols) /\ Symbols # {}
                          /\ Cardinality({NoDay, Day0, Unspecified}) = 3
                          /\ {NoDay, Day0, Unspecified} \cap Days = {}
                          /\ MaxDrops \in Nat
                          /\ MaxTokens \in Nat \ {0}

VARIABLES link,         \* the connection to the front
          drops,        \* times it was lost
          logged_in,    \* has the front accepted a login on this connection?
          subscribed,   \* the instruments it sends on this connection
          requests,     \* requests under way to the front, in order
          unanswered,   \* instruments to answer of the subscription served
          refused,      \* history: did an answer carry an error?
          denied,       \* history: has the library refused a request on
                        \* this connection?
          sem,          \* _sem
          pc,           \* where start() is
          cached_day,   \* _cached_day
          cached_epoch, \* _cached_day_epoch
          tick          \* the tick the callback has been given last: the
                        \* day it carries and the day it is stamped with

session == <<link, drops, logged_in, subscribed, requests, unanswered, refused,
             denied>>
ticks   == <<cached_day, cached_epoch, tick>>
vars    == <<session, sem, pc, ticks>>

Init == /\ link = "off"
        /\ drops = 0
        /\ logged_in = FALSE
        /\ subscribed = {}
        /\ requests = <<>>
        /\ unanswered = {}
        /\ refused = FALSE
        /\ denied = FALSE
        /\ sem = 0
        /\ pc = "off"
        /\ cached_day = NoDay
        /\ cached_epoch = Day0
        /\ tick = [day |-> NoDay, stamp |-> Day0]

(* _sem.release()                                                          *)
Release == sem' \in IF sem = 0 THEN {1} ELSE {sem, sem + 1} \cap (0 .. MaxTokens)

-----------------------------------------------------------------------------
(* The callbacks *)

(* Mutant: a connection does not release.                                  *)
OnFrontConnectedSilent == /\ link = "down"
                          /\ link' = "up"
                          /\ sem' = IF drops = 0 THEN 1 ELSE sem
                          /\ UNCHANGED <<drops, logged_in, subscribed, requests,
                                         unanswered, refused, denied, pc, ticks>>

(* Mutant: a connection after start() logs in and subscribes anew.         *)
OnFrontConnectedAsks == /\ link = "down"
                        /\ link' = "up"
                        /\ requests' = IF pc = "started" THEN <<"login", "subscribe">>
                                                         ELSE requests
                        /\ Release
                        /\ UNCHANGED <<drops, logged_in, subscribed, unanswered, refused,
                                       denied, pc, ticks>>

OnFrontConnected == /\ link = "down"
                    /\ link' = "up"
                    /\ Release
                    /\ UNCHANGED <<drops, logged_in, subscribed, requests, unanswered,
                                   refused, denied, pc, ticks>>

OnFrontDisconnected == /\ link = "up"
                       /\ drops < MaxDrops
                       /\ link' = "down"
                       /\ drops' = drops + 1
                       /\ logged_in' = FALSE
                       /\ subscribed' = {}
                       /\ requests' = <<>>
                       /\ unanswered' = {}
                       /\ denied' = FALSE
                       /\ UNCHANGED <<refused, sem, pc, ticks>>

OnRspUserLogin(ok) == /\ unanswered = {}
                      /\ requests # <<>> /\ Head(requests) = "login"
                      /\ requests' = Tail(requests)
                      /\ logged_in' = (logged_in \/ ok)
                      /\ refused' = (refused \/ ~ok)
                      /\ Release
                      /\ UNCHANGED <<link, drops, subscribed, unanswered, denied, pc,
                                     ticks>>

ServeSubscription == /\ unanswered = {}
                     /\ requests # <<>> /\ Head(requests) = "subscribe"
                     /\ requests' = Tail(requests)
                     /\ unanswered' = Symbols
                     /\ UNCHANGED <<link, drops, logged_in, subscribed, refused, denied,
                                    sem, pc, ticks>>

(* Mutant: every answer releases, not only the last one.                   *)
OnRspSubEveryReleases(s, ok) ==
  /\ s \in unanswered
  /\ ok => logged_in
  /\ unanswered' = unanswered \ {s}
  /\ subscribed' = IF ok THEN subscribed \cup {s} ELSE subscribed
  /\ refused' = (refused \/ ~ok)
  /\ Release
  /\ UNCHANGED <<link, drops, logged_in, requests, denied, pc, ticks>>

OnRspSubMarketData(s, ok) ==
  /\ s \in unanswered
  /\ ok => logged_in
  /\ unanswered' = unanswered \ {s}
  /\ subscribed' = IF ok THEN subscribed \cup {s} ELSE subscribed
  /\ refused' = (refused \/ ~ok)
  /\ IF unanswered' = {} THEN Release ELSE UNCHANGED sem
  /\ UNCHANGED <<link, drops, logged_in, requests, denied, pc, ticks>>

(* Mutant: the cache is filled once.                                       *)
ComputeOnce(day) == IF cached_day = NoDay /\ day \in Days
                      THEN cached_day' = day /\ cached_epoch' = day
                      ELSE UNCHANGED <<cached_day, cached_epoch>>

(* TimeStampCalculator::compute()                                          *)
Compute(day) == IF day # cached_day
                  THEN /\ cached_day' = day
                       /\ cached_epoch' = IF day \in Days THEN day ELSE Unspecified
                  ELSE UNCHANGED <<cached_day, cached_epoch>>

OnRtnDepthMarketData(day) == /\ subscribed # {}
                             /\ Compute(day)
                             /\ tick' = [day |-> day, stamp |-> cached_epoch']
                             /\ UNCHANGED <<session, sem, pc>>

-----------------------------------------------------------------------------
(* start() *)

Start == /\ pc = "off"
         /\ pc' = "connecting"
         /\ link' = "down"
         /\ UNCHANGED <<drops, logged_in, subscribed, requests, unanswered, refused, denied,
                        sem, ticks>>

(* A request; without connection it fails, and with one the library may    *)
(* refuse it.  Nobody looks at what it returned: start() goes on to wait.  *)
Ask(request, from, to) ==
  /\ pc = from
  /\ pc' = to
  /\ \/ /\ requests' = IF link = "up" THEN Append(requests, request) ELSE requests
        /\ UNCHANGED denied
     \/ /\ link = "up"
        /\ denied' = TRUE
        /\ UNCHANGED requests
  /\ UNCHANGED <<link, drops, logged_in, subscribed, unanswered, refused, sem, ticks>>

ReqUserLogin == Ask("login", "login", "logging_in")

SubscribeMarketData == Ask("subscribe", "subscribe", "subscribing")

AfterWait == [connecting  |-> "login",
              logging_in  |-> "subscribe",
              subscribing |-> "started"]

(* Mutant: does not wait for the token.                                    *)
AcquireUnchecked == /\ pc \in DOMAIN AfterWait
                    /\ sem' = sem - 1
                    /\ pc' = AfterWait[pc]
                    /\ UNCHANGED <<session, ticks>>

(* _sem.acquire()                                                          *)
Acquire == /\ pc \in DOMAIN AfterWait
           /\ sem > 0
           /\ sem' = sem - 1
           /\ pc' = AfterWait[pc]
           /\ UNCHANGED <<session, ticks>>

-----------------------------------------------------------------------------
Answer == \/ \E ok \in BOOLEAN : OnRspUserLogin(ok)
          \/ ServeSubscription
          \/ \E s \in Symbols, ok \in BOOLEAN : OnRspSubMarketData(s, ok)

InStart == \/ ReqUserLogin
           \/ SubscribeMarketData
           \/ Acquire

Next == \/ OnFrontConnected
        \/ OnFrontDisconnected
        \/ Answer
        \/ \E day \in Days \cup {NoDay} : OnRtnDepthMarketData(day)
        \/ Start
        \/ InStart

Spec == Init /\ [][Next]_vars

(* The library connects, the front answers, start() runs once it is        *)
(* called; no connection has to be lost.                                   *)
FairSpec == /\ Spec
            /\ WF_vars(OnFrontConnected)
            /\ WF_vars(Answer)
            /\ WF_vars(InStart)

-----------------------------------------------------------------------------
TypeOK == /\ link \in {"off", "down", "up"}
          /\ drops \in 0 .. MaxDrops
          /\ logged_in \in BOOLEAN
          /\ subscribed \subseteq Symbols
          /\ requests \in Seq({"login", "subscribe"})
          /\ unanswered \subseteq Symbols
          /\ refused \in BOOLEAN
          /\ denied \in BOOLEAN
          /\ sem \in 0 .. MaxTokens
          /\ pc \in {"off", "connecting", "login", "logging_in", "subscribe",
                     "subscribing", "started"}
          /\ cached_day \in Days \cup {NoDay}
          /\ cached_epoch \in Days \cup {Day0, Unspecified}
          /\ tick \in [day : Days \cup {NoDay}, stamp : Days \cup {Day0, Unspecified}]

(* When start() returns the front sends every instrument asked for, unless *)
(* an answer carried an error or the connection was lost.                  *)
StartedMeansSubscribed ==
  (pc = "started" /\ drops = 0 /\ ~refused) => (logged_in /\ subscribed = Symbols)

(* A tick with a day is stamped with that day, whatever ticks, with other  *)
(* days or with none, came before it and on however many connections.      *)
StampOfDay == tick.day \in Days => tick.stamp = tick.day

(* Once start() has returned, a front that sends nothing and has nothing   *)
(* left to answer never sends a tick again: the callbacks of a new         *)
(* connection neither log in nor subscribe.                                *)
Silent == pc = "started" /\ subscribed = {} /\ unanswered = {} /\ requests = <<>>

SilenceIsFinal == [][Silent => Silent' /\ UNCHANGED tick]_vars

(* start() returns, whatever answers say and although connections are      *)
(* lost: OnFrontConnected releases in place of an answer that is lost.     *)
(* Only a request the library refuses may leave it waiting, and that no    *)
(* longer than until the connection is lost.                               *)
StartReturns == (pc = "connecting") ~> (pc = "started" \/ []denied)
=============================================================================
