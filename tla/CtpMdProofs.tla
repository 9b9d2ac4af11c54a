---------------------------- MODULE CtpMdProofs ----------------------------
(***************************************************************************)
(* Proofs about CtpMdClient, for any set of instruments, any days and any  *)
(* number of lost connections: start() returns after the last answer of    *)
(* the subscription, a silent front stays silent, and ticks are stamped    *)
(* with their day.                                                         *)
(***************************************************************************)
EXTENDS CtpMd, TLAPS

(* What start() is about to do, or waits for, while no connection has been *)
(* lost: nothing is under way, or one request, or the answers of one, or   *)
(* the token they release, or nothing because the request was refused.     *)
Quiet == requests = <<>> /\ unanswered = {} /\ sem = 0

LoggedIn   == ~refused => logged_in
Subscribed == ~refused => logged_in /\ subscribed = Symbols

Connecting == /\ requests = <<>> /\ unanswered = {}
              /\ sem = IF link = "up" THEN 1 ELSE 0

LoggingIn == /\ unanswered = {}
             /\ \/ requests = <<"login">> /\ sem = 0
                \/ requests = <<>> /\ sem = 0 /\ denied
                \/ requests = <<>> /\ sem = 1 /\ LoggedIn

Subscribing == /\ LoggedIn
               /\ \/ requests = <<"subscribe">> /\ unanswered = {} /\ sem = 0
                  \/ requests = <<>> /\ unanswered = {} /\ sem = 0 /\ denied
                  \/ /\ requests = <<>> /\ unanswered # {} /\ sem = 0
                     /\ ~refused => subscribed \cup unanswered = Symbols
                  \/ requests = <<>> /\ unanswered = {} /\ sem = 1 /\ Subscribed

InStep == drops = 0 =>
  /\ link = "off" <=> pc = "off"
  /\ link = "down" => pc = "connecting"
  /\ pc \in {"off", "login"} => Quiet
  /\ pc = "connecting"  => Connecting
  /\ pc = "logging_in"  => LoggingIn
  /\ pc = "subscribe"   => Quiet /\ LoggedIn
  /\ pc = "subscribing" => Subscribing
  /\ pc = "started"     => Quiet /\ Subscribed

(* The cache holds the day it says it holds.                               *)
CacheRight == cached_day \in Days => cached_epoch = cached_day

IndInv == TypeOK /\ InStep /\ CacheRight /\ StampOfDay

-----------------------------------------------------------------------------
LEMMA InitInv == Init => IndInv
<1> SUFFICES ASSUME Init PROVE IndInv
  OBVIOUS
<1>1. TypeOK
  <2>1. drops \in 0 .. MaxDrops /\ sem \in 0 .. MaxTokens /\ requests \in Seq({"login", "subscribe"})
    BY CtpMdAssumption DEF Init
  <2> QED
    BY <2>1 DEF Init, TypeOK
<1>2. InStep
  BY DEF Init, InStep, Quiet
<1>3. NoDay \notin Days
  BY CtpMdAssumption
<1> QED
  BY <1>1, <1>2, <1>3 DEF Init, IndInv, CacheRight, StampOfDay

LEMMA ReleaseTokens ==
  ASSUME sem \in 0 .. MaxTokens, Release
  PROVE  sem' \in 0 .. MaxTokens /\ (sem = 0 => sem' = 1)
BY CtpMdAssumption DEF Release

(* What has no part in the ticks leaves the cache as it is.                *)
LEMMA CacheKept ==
  ASSUME IndInv, UNCHANGED ticks, InStep', TypeOK'
  PROVE  IndInv'
BY DEF IndInv, CacheRight, StampOfDay, ticks

LEMMA ConnectionStep ==
  ASSUME IndInv, OnFrontConnected \/ OnFrontDisconnected
  PROVE  IndInv'
<1> USE DEF IndInv
<1>1. CASE OnFrontConnected
  <2>1. TypeOK'
    BY <1>1, ReleaseTokens DEF OnFrontConnected, TypeOK, ticks
  <2>2. InStep'
    BY <1>1, ReleaseTokens
    DEF OnFrontConnected, TypeOK, InStep, Quiet, LoggedIn, Subscribed, Connecting,
        LoggingIn, Subscribing
  <2> QED
    BY <1>1, <2>1, <2>2, CacheKept DEF OnFrontConnected
<1>2. CASE OnFrontDisconnected
  <2>1. drops' \in 0 .. MaxDrops /\ drops' # 0
    BY <1>2, CtpMdAssumption DEF OnFrontDisconnected, TypeOK
  <2>2. requests' \in Seq({"login", "subscribe"})
    BY <1>2 DEF OnFrontDisconnected
  <2>3. TypeOK'
    BY <1>2, <2>1, <2>2 DEF OnFrontDisconnected, TypeOK, ticks
  <2>4. InStep'
    BY <2>1 DEF InStep
  <2> QED
    BY <1>2, <2>3, <2>4, CacheKept DEF OnFrontDisconnected
<1> QED
  BY <1>1, <1>2

LEMMA LoginAnswered ==
  ASSUME IndInv, NEW ok \in BOOLEAN, OnRspUserLogin(ok)
  PROVE  IndInv'
<1> USE DEF IndInv
<1>1. requests # <<>> /\ requests' = Tail(requests) /\ Head(requests) = "login"
  BY DEF OnRspUserLogin
<1>2. requests' \in Seq({"login", "subscribe"})
  BY <1>1 DEF TypeOK
<1>3. TypeOK'
  BY <1>2, ReleaseTokens DEF OnRspUserLogin, TypeOK, ticks
<1>4. requests = <<"login">> => requests' = <<>>
  BY <1>1
<1>5. requests # <<"subscribe">>
  BY <1>1
<1>6. InStep'
  <2> SUFFICES ASSUME drops = 0 PROVE InStep'
    BY DEF OnRspUserLogin, InStep
  <2>1. pc = "logging_in" /\ LoggingIn
    BY <1>1, <1>5
    DEF TypeOK, InStep, Quiet, Connecting, Subscribing
  <2>2. requests' = <<>> /\ unanswered' = {} /\ sem' = 1 /\ LoggedIn'
    BY <1>1, <1>4, <2>1, ReleaseTokens DEF OnRspUserLogin, TypeOK, LoggingIn, LoggedIn
  <2> QED
    BY <2>1, <2>2 DEF OnRspUserLogin, InStep, LoggingIn
<1> QED
  BY <1>3, <1>6, CacheKept DEF OnRspUserLogin

LEMMA SubscriptionServed ==
  ASSUME IndInv, ServeSubscription
  PROVE  IndInv'
<1> USE DEF IndInv
<1>1. requests # <<>> /\ requests' = Tail(requests) /\ Head(requests) = "subscribe"
  BY DEF ServeSubscription
<1>2. requests' \in Seq({"login", "subscribe"})
  BY <1>1 DEF TypeOK
<1>3. TypeOK'
  BY <1>2 DEF ServeSubscription, TypeOK, ticks
<1>4. requests = <<"subscribe">> => requests' = <<>>
  BY <1>1
<1>5. requests # <<"login">>
  BY <1>1
<1>6. InStep'
  <2> SUFFICES ASSUME drops = 0 PROVE InStep'
    BY DEF ServeSubscription, InStep
  <2>1. pc = "subscribing" /\ Subscribing
    BY <1>1, <1>5
    DEF TypeOK, InStep, Quiet, Connecting, LoggingIn
  <2>2. requests' = <<>> /\ unanswered' = Symbols /\ Symbols # {} /\ sem' = 0
    BY <1>1, <1>4, <2>1, CtpMdAssumption DEF ServeSubscription, Subscribing
  <2>3. subscribed' \cup unanswered' = Symbols
    BY <2>2 DEF ServeSubscription, TypeOK
  <2> QED
    BY <2>1, <2>2, <2>3 DEF ServeSubscription, InStep, Subscribing, LoggedIn
<1> QED
  BY <1>3, <1>6, CacheKept DEF ServeSubscription

LEMMA InstrumentAnswered ==
  ASSUME IndInv, NEW s \in Symbols, NEW ok \in BOOLEAN, OnRspSubMarketData(s, ok)
  PROVE  IndInv'
<1> USE DEF IndInv
<1>1. TypeOK'
  BY ReleaseTokens DEF OnRspSubMarketData, TypeOK, ticks
<1>2. InStep'
  <2> SUFFICES ASSUME drops = 0 PROVE InStep'
    BY DEF OnRspSubMarketData, InStep
  <2>1. /\ pc = "subscribing" /\ LoggedIn /\ requests = <<>> /\ sem = 0
        /\ ~refused => subscribed \cup unanswered = Symbols
    BY DEF OnRspSubMarketData, TypeOK, InStep, Quiet, Connecting, LoggingIn, Subscribing
  <2>2. /\ pc' = "subscribing" /\ LoggedIn' /\ requests' = <<>>
        /\ ~refused' => subscribed' \cup unanswered' = Symbols
    BY <2>1 DEF OnRspSubMarketData, LoggedIn
  <2>3. IF unanswered' = {} THEN sem' = 1 ELSE sem' = 0
    BY <2>1, ReleaseTokens DEF OnRspSubMarketData, TypeOK
  <2>4. Subscribing'
    BY <2>2, <2>3 DEF Subscribing, Subscribed, LoggedIn
  <2> QED
    BY <2>1, <2>2, <2>4 DEF OnRspSubMarketData, InStep
<1> QED
  BY <1>1, <1>2, CacheKept DEF OnRspSubMarketData

LEMMA AskStep ==
  ASSUME IndInv, ReqUserLogin \/ SubscribeMarketData
  PROVE  IndInv'
<1> USE DEF IndInv
<1> DEFINE request == IF pc = "login" THEN "login" ELSE "subscribe"
<1>1. /\ pc \in {"login", "subscribe"}
      /\ pc' = IF pc = "login" THEN "logging_in" ELSE "subscribing"
      /\ \/ requests' = IF link = "up" THEN Append(requests, request) ELSE requests
         \/ requests' = requests /\ denied'
      /\ denied' \in BOOLEAN
      /\ UNCHANGED <<link, drops, logged_in, subscribed, unanswered, refused, sem, ticks>>
  BY DEF ReqUserLogin, SubscribeMarketData, Ask, TypeOK
<1>2. requests' \in Seq({"login", "subscribe"})
  <2>1. requests \in Seq({"login", "subscribe"}) /\ request \in {"login", "subscribe"}
    BY DEF TypeOK
  <2>2. Append(requests, request) \in Seq({"login", "subscribe"})
    BY <2>1
  <2>3. requests' = Append(requests, request) \/ requests' = requests
    BY <1>1
  <2> QED
    BY <2>1, <2>2, <2>3
<1>3. TypeOK'
  BY <1>1, <1>2 DEF TypeOK, ticks
<1>4. InStep'
  <2> SUFFICES ASSUME drops = 0 PROVE InStep'
    BY <1>1 DEF InStep
  <2>1. link = "up" /\ Quiet
    BY <1>1 DEF TypeOK, InStep
  <2>2. requests' = <<request>> \/ (requests' = <<>> /\ denied')
    BY <1>1, <2>1 DEF Quiet
  <2> QED
    BY <1>1, <2>1, <2>2 DEF InStep, Quiet, LoggingIn, Subscribing, LoggedIn
<1> QED
  BY <1>1, <1>3, <1>4, CacheKept

LEMMA StartStep ==
  ASSUME IndInv, Start \/ Acquire
  PROVE  IndInv'
<1> USE DEF IndInv
<1>1. CASE Start
  <2>1. TypeOK'
    BY <1>1 DEF Start, TypeOK, ticks
  <2>2. InStep'
    BY <1>1 DEF Start, InStep, Quiet, Connecting
  <2> QED
    BY <1>1, <2>1, <2>2, CacheKept DEF Start
<1>2. CASE Acquire
  <2>1. /\ pc \in {"connecting", "logging_in", "subscribing"}
        /\ pc = "connecting" => pc' = "login"
        /\ pc = "logging_in" => pc' = "subscribe"
        /\ pc = "subscribing" => pc' = "started"
        /\ sem > 0 /\ sem' = sem - 1 /\ UNCHANGED <<session, ticks>>
    BY <1>2 DEF Acquire, AfterWait
  <2>2. sem' \in 0 .. MaxTokens /\ sem # 0
    BY <2>1, CtpMdAssumption DEF TypeOK
  <2>3. TypeOK'
    BY <2>1, <2>2 DEF TypeOK, session, ticks
  <2>4. InStep'
    <3> SUFFICES ASSUME drops = 0 PROVE InStep'
      BY <2>1 DEF InStep, session
    <3>1. Connecting /\ sem # 0 => link = "up" /\ sem = 1
      BY DEF Connecting
    <3>2. CASE pc = "connecting"
      BY <2>1, <2>2, <3>1, <3>2 DEF InStep, Connecting, Quiet, session
    <3>3. CASE pc = "logging_in"
      BY <2>1, <2>2, <3>3 DEF InStep, LoggingIn, LoggedIn, Quiet, session
    <3>4. CASE pc = "subscribing"
      BY <2>1, <2>2, <3>4 DEF InStep, Subscribing, Subscribed, Quiet, session
    <3> QED
      BY <2>1, <3>2, <3>3, <3>4
  <2> QED
    BY <2>1, <2>3, <2>4, CacheKept
<1> QED
  BY <1>1, <1>2

LEMMA TickStep ==
  ASSUME IndInv, NEW day \in Days \cup {NoDay}, OnRtnDepthMarketData(day)
  PROVE  IndInv'
<1>1. /\ cached_day' \in Days \cup {NoDay} /\ cached_epoch' \in Days \cup {Day0, Unspecified}
      /\ cached_day' = day /\ (day \in Days => cached_epoch' = day)
  BY DEF OnRtnDepthMarketData, Compute, IndInv, TypeOK, CacheRight
<1>2. UNCHANGED <<session, sem, pc>> /\ tick' = [day |-> day, stamp |-> cached_epoch']
  BY DEF OnRtnDepthMarketData
<1>3. InStep'
  BY <1>2 DEF session, IndInv, InStep, Quiet, LoggedIn, Subscribed, Connecting,
              LoggingIn, Subscribing
<1> QED
  BY <1>1, <1>2, <1>3 DEF session, IndInv, TypeOK, CacheRight, StampOfDay

LEMMA StutterStep ==
  ASSUME IndInv, UNCHANGED vars
  PROVE  IndInv'
BY DEF IndInv, TypeOK, InStep, Quiet, LoggedIn, Subscribed, Connecting, LoggingIn,
       Subscribing, CacheRight, StampOfDay, vars, session, ticks

(* The strengthening is an invariant of the market data client.            *)
THEOREM Inductive == Spec => []IndInv
<1>1. IndInv /\ [Next]_vars => IndInv'
  BY ConnectionStep, LoginAnswered, SubscriptionServed, InstrumentAnswered, AskStep,
     StartStep, TickStep, StutterStep DEF Next, Answer, InStart
<1> QED
  BY InitInv, <1>1, PTL DEF Spec

(* The types, among them that the semaphore is never acquired when empty.  *)
THEOREM TypeCorrect == Spec => []TypeOK
BY Inductive, PTL DEF IndInv

(* While no connection is lost and no answer carries an error, start()     *)
(* returns only when the front sends every instrument asked for.           *)
THEOREM StartedMeansSubscribedAlways == Spec => []StartedMeansSubscribed
<1>1. IndInv => StartedMeansSubscribed
  BY DEF IndInv, InStep, Subscribed, StartedMeansSubscribed
<1> QED
  BY Inductive, <1>1, PTL

(* A tick is stamped with its own day, whatever the cache has held before. *)
THEOREM StampOfDayAlways == Spec => []StampOfDay
BY Inductive, PTL DEF IndInv

(* No callback ends the silence of a front after start() has returned.     *)
THEOREM SilenceIsFinalAlways == Spec => SilenceIsFinal
<1>1. [Next]_vars => [Silent => Silent' /\ UNCHANGED tick]_vars
  <2> SUFFICES ASSUME Next, Silent PROVE Silent' /\ UNCHANGED tick
    OBVIOUS
  <2> USE DEF Silent, ticks
  <2>1. CASE OnFrontConnected
    BY <2>1 DEF OnFrontConnected
  <2>2. CASE OnFrontDisconnected
    BY <2>2 DEF OnFrontDisconnected
  <2>3. CASE Answer
    BY <2>3 DEF Answer, OnRspUserLogin, ServeSubscription, OnRspSubMarketData
  <2>4. CASE \E day \in Days \cup {NoDay} : OnRtnDepthMarketData(day)
    BY <2>4 DEF OnRtnDepthMarketData
  <2>5. CASE Start \/ InStart
    BY <2>5 DEF Start, InStart, ReqUserLogin, SubscribeMarketData, Ask, Acquire, AfterWait
  <2> QED
    BY <2>1, <2>2, <2>3, <2>4, <2>5 DEF Next
<1> QED
  BY <1>1, PTL DEF Spec, SilenceIsFinal
=============================================================================
