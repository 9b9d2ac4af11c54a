-------------------------------- MODULE BtMd --------------------------------
(***************************************************************************)
(* BactestMdClient of src/bt_md/bt_md.hpp and the pipeline of its test: a  *)
(* thread subscribes and runs start(), which gives every row of a DuckDB   *)
(* query to a callback; the callback pushes it into an SPSC channel and,   *)
(* when that is full, tries again; another thread polls the channel and    *)
(* counts.  The channel is module Spsc, step for step, and so are its      *)
(* properties.  A tick is the number of its row.                           *)
(*                                                                         *)
(* DuckDB is external: the query fails or has any number of rows, none if  *)
(* it selects no code.                                                     *)
(***************************************************************************)
EXTENDS Spsc, FiniteSets

CONSTANTS Lists,        \* what subscribe() is given: sequences of symbols
          Nothing,      \* the empty string
          MaxCalls,     \* bound: calls of subscribe()
          MaxRows       \* bound: rows of the query

ASSUME BtMdAssumption == /\ {MaxCalls, MaxRows} \subseteq Nat
                         /\ \A list \in Lists :
                              list \in Seq({list[i] : i \in DOMAIN list} \ {Nothing})
                         /\ Values = 1 .. MaxRows

VARIABLES holder,       \* _symbols_holder, the string literals in it; a
                        \* literal is what lies between its quotes, a
                        \* sequence of symbols with a quote between them
          calls,        \* history: calls of subscribe()
          asked,        \* history: the symbols asked for
          client,       \* where the thread is that calls the client
          rows,         \* rows of the query
          row,          \* the row the callback has been given last
          count         \* ticks the consumer has counted

client_vars == <<holder, calls, asked, client, rows, row>>
bt_vars     == <<vars, client_vars, count>>

BtInit == /\ Init
          /\ holder = <<>>
          /\ calls = 0
          /\ asked = {}
          /\ client = "off"
          /\ rows = 0
          /\ row = 0
          /\ count = 0

-----------------------------------------------------------------------------
(* 'a','b' of the list <<a, b>>, and '' of no symbol.                      *)
Quoted(list) == IF list = <<>> THEN << <<Nothing>> >>
                               ELSE [i \in 1 .. Len(list) |-> <<list[i]>>]

(* Mutant: the symbols of a list are not separated.                        *)
AppendedUnseparated(list) == Append(holder, list)

(* What is appended follows without a comma, and '' in a literal is a      *)
(* quote: the last literal and the first new one become one.               *)
Appended(list) ==
  IF holder = <<>> THEN Quoted(list)
  ELSE LET last == Len(holder)
       IN  [holder EXCEPT ![last] = @ \o Quoted(list)[1]] \o Tail(Quoted(list))

Subscribe(list) == /\ client = "off"
                   /\ calls < MaxCalls
                   /\ holder' = Appended(list)
                   /\ calls' = calls + 1
                   /\ asked' = asked \cup {list[i] : i \in 1 .. Len(list)}
                   /\ UNCHANGED <<vars, client, rows, row, count>>

(* The codes the query selects.                                            *)
Selected == {s \in asked : \E i \in 1 .. Len(holder) : holder[i] = <<s>>}

(* Nothing in parentheses is a syntax error.                               *)
QueryFails == /\ client = "off"
              /\ client' = "returned"
              /\ UNCHANGED <<vars, holder, calls, asked, rows, row, count>>

Query == /\ client = "off"
         /\ holder # <<>>
         /\ rows' \in IF Selected = {} THEN {0} ELSE 0 .. MaxRows
         /\ client' = "rows"
         /\ UNCHANGED <<vars, holder, calls, asked, row, count>>

(* _callback(tick), and in it channel.push(tick)                           *)
NextRow == /\ client = "rows"
           /\ row < rows
           /\ row' = row + 1
           /\ PushCall(row')
           /\ client' = "pushing"
           /\ UNCHANGED <<holder, calls, asked, rows, count>>

(* Mutant: the callback does not look at what push() returned.             *)
PushingOnce == /\ client = "pushing"
               /\ InPush
               /\ client' = IF ppc' # "idle" THEN "pushing" ELSE "rows"
               /\ UNCHANGED <<holder, calls, asked, rows, row, count>>

Pushing == /\ client = "pushing"
           /\ InPush
           /\ client' = IF ppc' # "idle" THEN "pushing"
                        ELSE IF push_ret' THEN "rows" ELSE "retry"
           /\ UNCHANGED <<holder, calls, asked, rows, row, count>>

(* Mutant: the sleep ends the callback.                                    *)
RetryNever == /\ client = "retry"
              /\ client' = "retry"
              /\ UNCHANGED <<vars, holder, calls, asked, rows, row, count>>

Retry == /\ client = "retry"
         /\ PushCall(row)
         /\ client' = "pushing"
         /\ UNCHANGED <<holder, calls, asked, rows, row, count>>

Return == /\ client = "rows"
          /\ row = rows
          /\ client' = "returned"
          /\ UNCHANGED <<vars, holder, calls, asked, rows, row, count>>

(* The consumer's loop.                                                    *)
Consume == /\ Consumer
           /\ count' = IF cpc = "advance" THEN count + 1 ELSE count
           /\ UNCHANGED client_vars

InStart == NextRow \/ Pushing \/ Retry \/ Return

BtNext == \/ \E list \in Lists : Subscribe(list)
          \/ QueryFails
          \/ Query
          \/ InStart
          \/ Consume

BtSpec == BtInit /\ [][BtNext]_bt_vars

(* Both threads run, and a store is not invisible for ever: a thread that  *)
(* looks at the other one's index again and again sees it move.            *)
BtFairSpec == /\ BtSpec
              /\ WF_bt_vars(InStart)
              /\ WF_bt_vars(Consume)
              /\ SF_bt_vars(Pushing /\ PushRoom)
              /\ SF_bt_vars(Consume /\ PopReady)

-----------------------------------------------------------------------------
(* The consumer gets every row once and in order, whatever push() refuses: *)
(* what is in the channel are the rows after those it has counted, up to   *)
(* the last one or, while that is still to be pushed, the one before it.   *)
RowsInOrder == /\ Queue = [i \in 1 .. Used |-> count + i]
               /\ count + Used = IF client \in {"pushing", "retry"} THEN row - 1 ELSE row

(* Each further call of subscribe() loses the two symbols where its list   *)
(* meets the one before, and no other; one call loses none.                *)
OnlySeamsLost == calls > 0 => Cardinality(asked \ Selected) <= 2 * (calls - 1)

(* Although it pushes faster than the consumer pops and repeats every push *)
(* that is refused, start() returns, and every row is consumed.            *)
AllRowsConsumed == (client = "rows") ~> (client = "returned" /\ count = rows)
=============================================================================
