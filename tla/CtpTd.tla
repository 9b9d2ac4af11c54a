------------------------------- MODULE CtpTd -------------------------------
(***************************************************************************)
(* CtpTdClient of src/ctp_td/ctp_td.cpp: one thread calls Start() and the  *)
(* requests, the CTP library calls the On... functions on a thread of its  *)
(* own, and ONE binary semaphore carries every answer from the second to   *)
(* the first.  An answer comes in parts of which the last releases.        *)
(*                                                                         *)
(* Nobody looks at request numbers or at what an answer says, so neither   *)
(* is here; what matters is whether the answer that comes is the one the   *)
(* caller waits for.  Releasing a semaphore that holds its token already   *)
(* is undefined; the token is lost or counted.                             *)
(*                                                                         *)
(* The front and the library are external: they connect again by           *)
(* themselves, a lost connection loses the answers due, and a request is   *)
(* refused without connection (-1), with too many requests unanswered      *)
(* (-2) or in the same second (-3).                                        *)
(***************************************************************************)
EXTENDS Integers

CONSTANTS MaxParts,     \* bound: parts of an answer
          MaxPending,   \* unanswered requests the library accepts
          Rate,         \* requests the library accepts in a second
          MaxDrops,     \* bound: times the connection is lost
          MaxTokens     \* bound: tokens counted in the semaphore

ASSUME CtpTdAssumption == /\ MaxParts \in Nat \ {0}
                          /\ MaxPending \in Nat
                          /\ Rate \in Nat
                          /\ MaxDrops \in Nat
                          /\ MaxTokens \in Nat \ {0}

VARIABLES link,         \* the connection to the front
          drops,        \* times it was lost
          sem,          \* _sem
          pc,           \* where the calling thread is
          own,          \* parts due of the answer the caller waits for
          answer,       \* history: is that answer due or has it come?
          others,       \* requests whose answers are due and nobody waits for
          spent,        \* requests accepted in this second
          tokens        \* history: has every release been for the caller that
                        \* waits, or may some have been stray?

front == <<link, drops>>
vars  == <<link, drops, sem, pc, own, answer, others, spent, tokens>>

Waits == {"connecting", "authenticating", "logging_in", "waiting"}

Init == /\ link = "off"
        /\ drops = 0
        /\ sem = 0
        /\ pc = "off"
        /\ own = 0
        /\ answer = "due"
        /\ others = 0
        /\ spent = 0
        /\ tokens = "matched"

Due(parts) == IF parts > 0 THEN 1 ELSE 0

(* _sem.release()                                                          *)
Release == sem' \in IF sem = 0 THEN {1} ELSE {sem, sem + 1} \cap (0 .. MaxTokens)

-----------------------------------------------------------------------------
(* The front and the library *)

Accepted == link = "up" /\ others < MaxPending /\ spent < Rate

SecondPasses == /\ spent' = 0
                /\ UNCHANGED <<front, sem, pc, own, answer, others, tokens>>

(* Mutant: a connection does not release.                                  *)
OnFrontConnectedSilent == /\ link = "down"
                          /\ link' = "up"
                          /\ sem' = IF drops = 0 THEN 1 ELSE sem
                          /\ UNCHANGED <<drops, pc, own, answer, others, spent, tokens>>

OnFrontConnected == /\ link = "down"
                    /\ link' = "up"
                    /\ Release
                    /\ UNCHANGED <<drops, pc, own, answer, others, spent, tokens>>

OnFrontDisconnected == /\ link = "up"
                       /\ drops < MaxDrops
                       /\ link' = "down"
                       /\ drops' = drops + 1
                       /\ own' = 0
                       /\ others' = 0
                       /\ tokens' = "stray"
                       /\ UNCHANGED <<sem, pc, answer, spent>>

(* Mutant: every part of an answer releases.                               *)
OnRspPartReleases == /\ own > 1
                     /\ own' = own - 1
                     /\ Release
                     /\ UNCHANGED <<front, pc, answer, others, spent, tokens>>

(* A part of the answer that is not the last one.                          *)
OnRspPart == /\ own > 1
             /\ own' = own - 1
             /\ UNCHANGED <<front, sem, pc, answer, others, spent, tokens>>

OnRspLast == /\ own = 1
             /\ own' = 0
             /\ answer' = "come"
             /\ Release
             /\ UNCHANGED <<front, pc, others, spent, tokens>>

(* The last part of an answer nobody waits for.                            *)
OnRspOther == /\ others > 0
              /\ others' = others - 1
              /\ Release
              /\ UNCHANGED <<front, pc, own, answer, spent, tokens>>

-----------------------------------------------------------------------------
(* The calling thread *)

Start == /\ pc = "off"
         /\ pc' = "connecting"
         /\ link' = "down"
         /\ UNCHANGED <<drops, sem, own, answer, others, spent, tokens>>

(* A request whose answer the caller waits for; what it returns is ignored.*)
Ask(from, to) == /\ pc = from
                 /\ pc' = to
                 /\ own' \in IF Accepted THEN 1 .. MaxParts ELSE {0}
                 /\ spent' = IF Accepted THEN spent + 1 ELSE spent
                 /\ answer' = "due"
                 /\ UNCHANGED <<front, sem, others, tokens>>

Authenticate == Ask("authenticate", "authenticating")

Login == Ask("login", "logging_in")

(* SettlementInfo, QryInvestorPosition, QryTradingAccount                  *)
WaitingQuery == Ask("idle", "waiting")

QryDepthMarketData == /\ pc = "idle"
                      /\ pc' = "depth"
                      /\ UNCHANGED <<front, sem, own, answer, others, spent, tokens>>

(* Mutant: returns without waiting for the answer.                         *)
TryDepthNoWait == Accepted /\ Ask("depth", "idle")

(* Mutant: waits although the request was refused.                         *)
TryDepthOnce == Ask("depth", "waiting")

(* One round of QryDepthMarketData's loop: refused, it sleeps and asks     *)
(* again.                                                                  *)
TryDepth == Accepted /\ Ask("depth", "waiting")

(* OrderInsert, OrderAction and the queries that do not wait.  An order    *)
(* that is accepted has no answer.                                         *)
FreeRequest == /\ pc = "idle"
               /\ Accepted
               /\ spent' = spent + 1
               /\ \/ /\ others' = others + 1
                     /\ tokens' = "stray"
                  \/ UNCHANGED <<others, tokens>>
               /\ UNCHANGED <<front, sem, pc, own, answer>>

AfterWait == [connecting     |-> "authenticate",
              authenticating |-> "login",
              logging_in     |-> "idle",
              waiting        |-> "idle"]

(* Mutant: does not wait for the token.                                    *)
AcquireUnchecked == /\ pc \in Waits
                    /\ sem' = sem - 1
                    /\ pc' = AfterWait[pc]
                    /\ own' = 0
                    /\ others' = others + Due(own)
                    /\ UNCHANGED <<front, answer, spent, tokens>>

(* _sem.acquire().  An answer still due is nobody's from now on.           *)
Acquire == /\ pc \in Waits
           /\ sem > 0
           /\ sem' = sem - 1
           /\ pc' = AfterWait[pc]
           /\ own' = 0
           /\ others' = others + Due(own)
           /\ UNCHANGED <<front, answer, spent, tokens>>

-----------------------------------------------------------------------------
Front == \/ OnFrontConnected
         \/ OnRspPart
         \/ OnRspLast
         \/ OnRspOther

(* What the calling thread does inside a call.                             *)
InCall == \/ Authenticate
          \/ Login
          \/ TryDepth
          \/ Acquire

Next == \/ Front
        \/ OnFrontDisconnected
        \/ SecondPasses
        \/ Start
        \/ InCall
        \/ WaitingQuery
        \/ QryDepthMarketData
        \/ FreeRequest

Spec == Init /\ [][Next]_vars

(* The library connects and answers, time passes, a thread inside a call   *)
(* runs; nobody has to call, and no connection has to be lost.             *)
FairSpec == /\ Spec
            /\ WF_vars(OnFrontConnected)
            /\ WF_vars(OnRspPart)
            /\ WF_vars(OnRspLast)
            /\ WF_vars(OnRspOther)
            /\ WF_vars(SecondPasses)
            /\ WF_vars(InCall)

-----------------------------------------------------------------------------
TypeOK == /\ link \in {"off", "down", "up"}
          /\ drops \in 0 .. MaxDrops
          /\ sem \in 0 .. MaxTokens
          /\ pc \in Waits \cup {"off", "authenticate", "login", "idle", "depth"}
          /\ own \in 0 .. MaxParts
          /\ answer \in {"due", "come"}
          /\ others \in 0 .. MaxPending
          /\ spent \in 0 .. Rate
          /\ tokens \in {"matched", "stray"}

(* While the connection lasts and the caller uses only calls that wait, a  *)
(* call returns on its own answer, and not before its last part.           *)
OwnAnswer == [][(Acquire /\ tokens = "matched" /\ pc # "connecting")
                 => answer = "come"]_vars

(* ... and release() keeps its precondition: never on a semaphore that     *)
(* holds its token already.                                                *)
BinaryRespected ==
  [][((OnFrontConnected \/ OnRspLast \/ OnRspOther) /\ tokens = "matched")
     => sem = 0]_vars

(* Start() returns even when the connection is lost meanwhile, provided    *)
(* the library accepts two requests in a second: OnFrontConnected releases *)
(* in place of an answer that is lost or a request that is refused.        *)
StartReturns == (pc = "connecting") ~> (pc = "idle")

(* A call whose request was accepted returns even when the connection is   *)
(* lost, and QryDepthMarketData returns although requests are refused.     *)
CallsReturn == /\ (pc \in Waits /\ own > 0) ~> (pc \notin Waits)
               /\ (pc = "depth") ~> (pc = "idle")
=============================================================================
