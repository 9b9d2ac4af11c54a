---------------------------- MODULE CtpTdProofs ----------------------------
(***************************************************************************)
(* Proofs about CtpTdClient, for answers of any number of parts, any       *)
(* limits of the library and any number of lost connections: as long as    *)
(* the connection lasts and every call waits, the one semaphore tells the  *)
(* caller that ITS answer has come, and never holds a second token.        *)
(***************************************************************************)
EXTENDS CtpTd, TLAPS

(* The calling thread waits for the answer to a request.                   *)
Asked == pc \in {"authenticating", "logging_in", "waiting"}

(* Answers due are bounded by what the library accepts, and one is due to  *)
(* the caller only while it waits for it.                                  *)
DueBounded == /\ others + Due(own) <= MaxPending
              /\ own > 0 => Asked

(* Without strays the token is on its way or there: it comes with the      *)
(* connection while start() waits for that, and with the last part of the  *)
(* answer while the caller waits for that.                                 *)
OneToken == tokens = "matched" =>
  /\ others = 0
  /\ link = "off" <=> pc = "off"
  /\ link = "down" => pc = "connecting" /\ sem = 0
  /\ pc = "connecting" /\ link = "up" => sem = 1
  /\ Asked => /\ own > 0 => sem = 0
              /\ sem > 0 => sem = 1 /\ answer = "come"
  /\ pc # "connecting" /\ ~Asked => sem = 0

IndInv == TypeOK /\ DueBounded /\ OneToken

-----------------------------------------------------------------------------
(* What the steps of the library and of the calling thread do to the       *)
(* number of tokens.                                                       *)
LEMMA ReleaseTokens ==
  ASSUME sem \in 0 .. MaxTokens, Release
  PROVE  /\ sem' \in 0 .. MaxTokens
         /\ sem = 0 => sem' = 1
BY CtpTdAssumption DEF Release

LEMMA InitInv == Init => IndInv
<1> SUFFICES ASSUME Init PROVE IndInv
  OBVIOUS
<1>1. TypeOK
  BY CtpTdAssumption DEF Init, TypeOK, Waits
<1>2. DueBounded
  BY CtpTdAssumption DEF Init, DueBounded, Due
<1>3. OneToken
  BY DEF Init, OneToken, Asked
<1> QED
  BY <1>1, <1>2, <1>3 DEF IndInv

LEMMA FrontStep ==
  ASSUME IndInv, Front \/ OnFrontDisconnected \/ SecondPasses
  PROVE  IndInv'
<1> USE CtpTdAssumption DEF IndInv, TypeOK, DueBounded, OneToken, Waits, Asked, Due, front
<1>1. CASE OnFrontConnected
  BY <1>1, ReleaseTokens DEF OnFrontConnected
<1>2. CASE OnRspPart
  BY <1>2 DEF OnRspPart
<1>3. CASE OnRspLast
  BY <1>3, ReleaseTokens DEF OnRspLast
<1>4. CASE OnRspOther
  BY <1>4, ReleaseTokens DEF OnRspOther
<1>5. CASE OnFrontDisconnected
  BY <1>5 DEF OnFrontDisconnected
<1>6. CASE SecondPasses
  BY <1>6 DEF SecondPasses
<1> QED
  BY <1>1, <1>2, <1>3, <1>4, <1>5, <1>6 DEF Front

(* A request the caller waits for, from any place where it is not waiting. *)
LEMMA AskStep ==
  ASSUME IndInv, NEW from, NEW to, Ask(from, to),
         from \in {"authenticate", "login", "idle", "depth"},
         to \in {"authenticating", "logging_in", "waiting"}
  PROVE  IndInv'
<1> USE CtpTdAssumption DEF IndInv, TypeOK, DueBounded, OneToken, Waits, Asked, Due, front
<1>1. /\ pc = from /\ pc' = to /\ answer' = "due" /\ Asked'
      /\ own = 0
      /\ UNCHANGED <<link, drops, sem, others, tokens>>
  BY DEF Ask
<1>2. CASE Accepted
  <2>1. own' \in 1 .. MaxParts /\ spent' = spent + 1
    BY <1>2 DEF Ask
  <2> QED
    BY <1>1, <1>2, <2>1 DEF Accepted
<1>3. CASE ~Accepted
  <2>1. own' = 0 /\ spent' = spent
    BY <1>3 DEF Ask
  <2> QED
    BY <1>1, <2>1
<1> QED
  BY <1>2, <1>3

LEMMA CallerStep ==
  ASSUME IndInv, Start \/ InCall \/ WaitingQuery \/ QryDepthMarketData \/ FreeRequest
  PROVE  IndInv'
<1> USE DEF IndInv
<1>1. CASE Start
  BY <1>1, CtpTdAssumption
  DEF Start, TypeOK, DueBounded, OneToken, Waits, Asked, Due
<1>2. CASE Authenticate
  BY <1>2, AskStep DEF Authenticate
<1>3. CASE Login
  BY <1>3, AskStep DEF Login
<1>4. CASE TryDepth
  BY <1>4, AskStep DEF TryDepth
<1>5. CASE WaitingQuery
  BY <1>5, AskStep DEF WaitingQuery
<1>6. CASE Acquire
  <2>1. /\ sem' \in 0 .. MaxTokens /\ sem' = sem - 1
        /\ pc' \in {"authenticate", "login", "idle"}
    BY <1>6, CtpTdAssumption DEF Acquire, TypeOK, AfterWait, Waits
  <2>2. tokens = "matched" => sem' = 0 /\ own = 0 /\ pc' # "off" /\ link = "up"
    BY <1>6, <2>1, CtpTdAssumption
    DEF Acquire, TypeOK, DueBounded, OneToken, Waits, Asked
  <2> QED
    BY <1>6, <2>1, <2>2, CtpTdAssumption
    DEF Acquire, TypeOK, DueBounded, OneToken, Waits, Asked, Due, front
<1>7. CASE QryDepthMarketData
  BY <1>7, CtpTdAssumption
  DEF QryDepthMarketData, TypeOK, DueBounded, OneToken, Waits, Asked, Due, front
<1>8. CASE FreeRequest
  BY <1>8, CtpTdAssumption
  DEF FreeRequest, Accepted, TypeOK, DueBounded, OneToken, Waits, Asked, Due, front
<1> QED
  BY <1>1, <1>2, <1>3, <1>4, <1>5, <1>6, <1>7, <1>8 DEF InCall

LEMMA StutterStep ==
  ASSUME IndInv, UNCHANGED vars
  PROVE  IndInv'
BY DEF IndInv, TypeOK, DueBounded, OneToken, Waits, Asked, Due, vars, front

(* The strengthening is an invariant of the trading client.                *)
THEOREM Inductive == Spec => []IndInv
<1>1. IndInv /\ [Next]_vars => IndInv'
  BY FrontStep, CallerStep, StutterStep DEF Next
<1> QED
  BY InitInv, <1>1, PTL DEF Spec

(* The types, among them that the library's limits bound what is under way *)
(* also when answers belong to nobody.                                     *)
THEOREM TypeCorrect == Spec => []TypeOK
BY Inductive, PTL DEF IndInv

(* Without strays acquire() returns only when the caller's own answer has  *)
(* come.                                                                   *)
THEOREM OwnAnswerAlways == Spec => OwnAnswer
<1>1. IndInv /\ [Next]_vars
        => [(Acquire /\ tokens = "matched" /\ pc # "connecting") => answer = "come"]_vars
  BY CtpTdAssumption DEF IndInv, TypeOK, OneToken, Acquire, Waits, Asked
<1> QED
  BY Inductive, <1>1, PTL DEF Spec, OwnAnswer

(* Without strays release() finds the semaphore empty.                     *)
THEOREM BinaryRespectedAlways == Spec => BinaryRespected
<1>1. IndInv /\ [Next]_vars
        => [((OnFrontConnected \/ OnRspLast \/ OnRspOther) /\ tokens = "matched") => sem = 0]_vars
  BY CtpTdAssumption
  DEF IndInv, TypeOK, DueBounded, OneToken, OnFrontConnected, OnRspLast, OnRspOther, Asked
<1> QED
  BY Inductive, <1>1, PTL DEF Spec, BinaryRespected
=============================================================================
