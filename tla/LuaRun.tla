------------------------------- MODULE LuaRun -------------------------------
(***************************************************************************)
(* Requests that run their scripts at the same time: execute_script of     *)
(* run_lua.c, the scripts of me/you/and/yourself, the queries of           *)
(* mysql_utils.c, and format_response_C, whose buffer all threads share.   *)
(* Each request has a thread and a Lua state of its own.  A step is what   *)
(* other threads cannot see the middle of; the shared buffer is a row of   *)
(* cells that are written, measured and copied one after the other.  The   *)
(* database and the Lua modules that the scripts require are outside: they *)
(* may fail.                                                               *)
(***************************************************************************)
EXTENDS Integers, Sequences

CONSTANTS
  Threads,
  Calls,       \* the script calls that analyze_method may make
  NoThread,    \* what a thread of an earlier request has written
  NUL,         \* the end of a text
  MaxRows,     \* bound: rows in the table
  FitRows,     \* rows whose text response_buffer has room for
  BufferCells, \* MAX_WRITE_SIZE: the first cell is the status line and the headers
  Length       \* Length[a]: the cells of the response with answer a, without its NUL

\* What an argument is to a script: text that decodes to a flat or to a nested table,
\* XML, name=value, or something else.
Kinds == {"object", "nested", "xml", "pair", "other"}

Scripts == {"GET_default", "GET_testforme", "POST_testforme", "PUT_testforme",
            "DELETE_testforme", "none"}

\* args: the body, if it is passed, and the parameters.  nargs: how many are announced.
IsCall(c) ==
  /\ c.script \in Scripts
  /\ c.args \in Seq(Kinds)
  /\ c.nargs \in Nat
  /\ Len(c.args) =< c.nargs

Answers == {"rows", "long_rows", "success", "exception"}

\* Only a response of long rows has no room in the buffer with its NUL.
ASSUME LuaRunAssumption ==
  /\ \A c \in Calls : IsCall(c)
  /\ NoThread \notin Threads /\ NUL \notin Threads /\ NUL # NoThread
  /\ MaxRows \in Nat /\ FitRows \in Nat
  /\ BufferCells \in Nat
  /\ Length \in [Answers -> Nat \ {0}]
  /\ \A a \in Answers : Length[a] < BufferCells <=> a # "long_rows"

VARIABLES
  pc,
  call,
  primed,            \* the script was loaded and has defined test
  connected,
  answer,            \* what the query function returned to the script
  response_buffer,   \* response_buffer[k]: whose text is in cell k, or NUL
  place,             \* place[t]: the cell t has come to, or where it has found a NUL
  reply,             \* what capilua returns, if not "FAILED": whose text, cell by cell
  alone,             \* ghost: no other thread wrote to the buffer while this one used it
  rows,              \* the number of rows in table_1
  changes,           \* ghost: the requests whose query has changed the table
  refused,           \* ghost: the requests that the database failed
  overrun,           \* something behind response_buffer has been written to
  dead               \* the process

format == <<response_buffer, place, reply, alone>>

vars == <<pc, call, primed, connected, answer, format, rows, changes, refused, overrun,
          dead>>

PCs == {"idle", "load", "call", "connect", "query", "head", "message", "measure", "copy",
        "replied", "failed"}

Cells == Threads \union {NoThread, NUL}

NoCall == [script |-> "none", args |-> <<>>, nargs |-> 0]

TypeOK ==
  /\ pc \in [Threads -> PCs]
  /\ call \in [Threads -> Calls \union {NoCall}]
  /\ primed \in [Threads -> BOOLEAN]
  /\ connected \in [Threads -> BOOLEAN]
  /\ answer \in [Threads -> Answers \union {"none"}]
  /\ response_buffer \in [1..BufferCells -> Cells]
  /\ place \in [Threads -> Nat \ {0}]
  /\ reply \in [Threads -> Seq(Cells)]
  /\ alone \in [Threads -> BOOLEAN]
  /\ rows \in 0..MaxRows
  /\ changes \subseteq Threads
  /\ refused \subseteq Threads
  /\ overrun \in BOOLEAN
  /\ dead \in BOOLEAN

\* The table may have rows already, and the buffer, which starts as zeros, the response
\* to an earlier request.
Init ==
  /\ pc = [t \in Threads |-> "idle"]
  /\ call = [t \in Threads |-> NoCall]
  /\ primed = [t \in Threads |-> FALSE]
  /\ connected = [t \in Threads |-> FALSE]
  /\ answer = [t \in Threads |-> "none"]
  /\ \E n \in 0..(BufferCells - 1) :
        response_buffer = [k \in 1..BufferCells |-> IF k =< n THEN NoThread ELSE NUL]
  /\ place = [t \in Threads |-> 1]
  /\ reply = [t \in Threads |-> <<>>]
  /\ alone = [t \in Threads |-> TRUE]
  /\ rows \in 0..MaxRows
  /\ changes = {}
  /\ refused = {}
  /\ overrun = FALSE
  /\ dead = FALSE

-----------------------------------------------------------------------------
(***************************************************************************)
(* What the scripts ask for.                                               *)
(***************************************************************************)

\* The kinds of argument that test(...) of a script goes on with, one by one.
Takes(script) ==
  CASE script \in {"GET_testforme", "DELETE_testforme"} -> [k \in 1..4 |-> {"pair"}]
    [] script = "POST_testforme" -> <<{"object", "xml"}>>
    [] script = "PUT_testforme"  -> <<{"object", "nested"}, {"pair"}, {"pair"}>>
    [] OTHER -> <<>>

\* Faulty variant of Accepts: the number of parameters is not looked at.
AcceptsAnyNumber(c) ==
  \/ c.script = "GET_default"
  \/ /\ c.script # "none"
     /\ \A k \in DOMAIN c.args :
          k \in DOMAIN Takes(c.script) => c.args[k] \in Takes(c.script)[k]

\* The script gets as far as its query: any other number or kind of argument is an
\* error.  test() of GET_default has no parameters and drops what it is passed.
Accepts(c) ==
  \/ c.script = "GET_default"
  \/ /\ c.script # "none"
     /\ Len(c.args) = Len(Takes(c.script))
     /\ \A k \in DOMAIN c.args : c.args[k] \in Takes(c.script)[k]

Selects(c) == c.script \in {"GET_default", "GET_testforme"}

-----------------------------------------------------------------------------

At(t, where) == ~dead /\ pc[t] = where

Goto(t, where) == pc' = [pc EXCEPT ![t] = where]

Die == dead' = TRUE /\ UNCHANGED <<pc, call, primed, connected, answer, format,
                                   rows, changes, refused, overrun>>

\* capilua with what analyze_method made of a request.
Capilua(t, c) ==
  /\ At(t, "idle")
  /\ call' = [call EXCEPT ![t] = c]
  /\ Goto(t, "load")
  /\ UNCHANGED <<primed, connected, answer, format, rows, changes,
                 refused, overrun, dead>>

\* luaL_loadfile and the priming run.  A file that is not there, or a module that it
\* requires and that is not, leaves a message on the stack and no global test; both
\* are reported and the function goes on.
Prime(t, ok) ==
  /\ At(t, "load")
  /\ ok => call[t].script # "none"
  /\ primed' = [primed EXCEPT ![t] = ok]
  /\ Goto(t, "call")
  /\ UNCHANGED <<call, connected, answer, format, rows, changes,
                 refused, overrun, dead>>

\* How many values lie between what is called and test, were more announced than pushed.
Missing(t) == call[t].nargs - Len(call[t].args)

\* Below test there is the message of a script that could not be primed, and nil: to
\* call these, a nil test, or test with arguments it does not accept, is an error, and
\* "FAILED" is what capilua returns.
ScriptFails(t) ==
  /\ At(t, "call")
  /\ Missing(t) > 0 \/ ~primed[t] \/ ~Accepts(call[t])
  /\ Goto(t, "failed")
  /\ UNCHANGED <<call, primed, connected, answer, format, rows,
                 changes, refused, overrun, dead>>

\* What is called lies before the stack.
CallsOutside(t) ==
  /\ At(t, "call")
  /\ Missing(t) > (IF primed[t] THEN 1 ELSE 2)
  /\ Die

ScriptRuns(t) ==
  /\ At(t, "call")
  /\ Missing(t) = 0
  /\ primed[t]
  /\ Accepts(call[t])
  /\ Goto(t, "connect")
  /\ UNCHANGED <<call, primed, connected, answer, format, rows,
                 changes, refused, overrun, dead>>

-----------------------------------------------------------------------------
(***************************************************************************)
(* The query functions, execute_query and query_select_C.                  *)
(***************************************************************************)

\* mysql_init returns NULL, which mysql_real_connect dereferences.
MysqlInitFails(t) ==
  /\ At(t, "connect")
  /\ refused' = refused \union {t}
  /\ dead' = TRUE
  /\ UNCHANGED <<pc, call, primed, connected, answer, format, rows,
                 changes, overrun>>

\* Faulty variant of Connect: what could not be connected must not be queried.
ConnectOrDie(t, ok) ==
  /\ At(t, "connect")
  /\ connected' = [connected EXCEPT ![t] = ok]
  /\ dead' = ~ok
  /\ Goto(t, "query")
  /\ UNCHANGED <<call, primed, answer, format, rows, changes,
                 refused, overrun>>

\* What could not be connected is queried nevertheless.
Connect(t, ok) ==
  /\ At(t, "connect")
  /\ connected' = [connected EXCEPT ![t] = ok]
  /\ Goto(t, "query")
  /\ UNCHANGED <<call, primed, answer, format, rows, changes,
                 refused, overrun, dead>>

\* The number of rows a query may leave: INSERT adds one, DELETE takes any away.
RowsAfter(c) ==
  CASE c.script = "POST_testforme"   -> {rows + 1}
    [] c.script = "DELETE_testforme" -> 0..rows
    [] OTHER                         -> {rows}

\* GET_default selects all rows, GET_testforme any part of them.
AnswersTo(c) ==
  IF ~Selects(c) THEN {"success"}
  ELSE {a \in {"rows", "long_rows"} :
          /\ a = "long_rows" => rows > FitRows
          /\ a = "rows" => rows =< FitRows \/ c.script = "GET_testforme"}

QueryWorks(t) ==
  /\ At(t, "query")
  /\ connected[t]
  /\ call[t].script = "POST_testforme" => rows < MaxRows
  /\ rows' \in RowsAfter(call[t])
  /\ changes' = IF Selects(call[t]) THEN changes ELSE changes \union {t}
  /\ \E a \in AnswersTo(call[t]) : answer' = [answer EXCEPT ![t] = a]
  /\ Goto(t, "head")
  /\ UNCHANGED <<call, primed, connected, format, refused, overrun,
                 dead>>

\* The message of the last failure is on top of the stack and is what the script gets.
\* query_select_C goes on to mysql_num_fields(NULL).
QueryRefused(t) ==
  /\ At(t, "query")
  /\ refused' = refused \union {t}
  /\ IF Selects(call[t])
     THEN dead' = TRUE /\ UNCHANGED <<pc, answer>>
     ELSE /\ answer' = [answer EXCEPT ![t] = "exception"]
          /\ Goto(t, "head")
          /\ UNCHANGED dead
  /\ UNCHANGED <<call, primed, connected, format, rows, changes,
                 overrun>>

-----------------------------------------------------------------------------
(***************************************************************************)
(* format_response_C.  sprintf writes the response into the static buffer, *)
(* its NUL last; lua_pushstring looks for a NUL from the beginning of the  *)
(* buffer and then copies what lies before the place where it found one.   *)
(* Threads that do so at the same time come between all of these.  No      *)
(* answer is "FAILED", so the script's other branch is never taken and the *)
(* status is 200.                                                          *)
(***************************************************************************)

Formatting(t) == pc[t] \in {"message", "measure", "copy"}

\* Threads in the middle of format_response_C see a write of t.
Disturb(t) == alone' = [u \in Threads |-> alone[u] /\ (u = t \/ ~Formatting(u))]

\* Faulty variant of FormatHead: the headers are left as the last response set them.
FormatHeadOnce(t) ==
  /\ At(t, "head")
  /\ response_buffer' = IF response_buffer[1] = NUL
                        THEN [response_buffer EXCEPT ![1] = t] ELSE response_buffer
  /\ place' = [place EXCEPT ![t] = 2]
  /\ Disturb(t)
  /\ Goto(t, "message")
  /\ UNCHANGED <<call, primed, connected, answer, reply, rows, changes, refused, overrun,
                 dead>>

FormatHead(t) ==
  /\ At(t, "head")
  /\ response_buffer' = [response_buffer EXCEPT ![1] = t]
  /\ place' = [place EXCEPT ![t] = 2]
  /\ Disturb(t)
  /\ Goto(t, "message")
  /\ UNCHANGED <<call, primed, connected, answer, reply, rows, changes, refused, overrun,
                 dead>>

\* One cell more is written.  A long text goes on behind the buffer, where anything
\* may be that the process needs.
Put(t, cell) ==
  /\ LET outside == place[t] > BufferCells
     IN /\ response_buffer' = IF outside THEN response_buffer
                              ELSE [response_buffer EXCEPT ![place[t]] = cell]
        /\ overrun' = (overrun \/ outside)
        /\ dead' \in {FALSE, outside}
  /\ Disturb(t)
  /\ UNCHANGED <<call, primed, connected, answer, reply, rows, changes, refused>>

FormatMessage(t) ==
  /\ At(t, "message")
  /\ place[t] =< Length[answer[t]]
  /\ Put(t, t)
  /\ place' = [place EXCEPT ![t] = @ + 1]
  /\ UNCHANGED pc

FormatEnd(t) ==
  /\ At(t, "message")
  /\ place[t] > Length[answer[t]]
  /\ Put(t, NUL)
  /\ place' = [place EXCEPT ![t] = 1]
  /\ Goto(t, "measure")

\* strlen.  What lies behind the buffer is not modelled: a text that goes on there is
\* taken to its end in the buffer.
Measure(t) ==
  /\ At(t, "measure")
  /\ IF place[t] =< BufferCells /\ response_buffer[place[t]] # NUL
     THEN place' = [place EXCEPT ![t] = @ + 1] /\ UNCHANGED pc
     ELSE Goto(t, "copy") /\ UNCHANGED place
  /\ UNCHANGED <<call, primed, connected, answer, response_buffer, reply, alone, rows,
                 changes, refused, overrun, dead>>

\* memcpy of what was measured, whatever is there by now.  execute_script passes the
\* copy on with strdup, for which it ends at the first NUL.
Push(t) ==
  /\ At(t, "copy")
  /\ LET k == Len(reply[t]) + 1
     IN IF k < place[t] /\ response_buffer[k] # NUL
        THEN /\ reply' = [reply EXCEPT ![t] = Append(@, response_buffer[k])]
             /\ UNCHANGED pc
        ELSE Goto(t, "replied") /\ UNCHANGED reply
  /\ UNCHANGED <<call, primed, connected, answer, response_buffer, place, alone, rows,
                 changes, refused, overrun, dead>>

-----------------------------------------------------------------------------

Format(t) ==
  FormatHead(t) \/ FormatMessage(t) \/ FormatEnd(t) \/ Measure(t) \/ Push(t)

Step(t) ==
  \/ \E ok \in BOOLEAN : Prime(t, ok) \/ Connect(t, ok)
  \/ ScriptFails(t) \/ CallsOutside(t) \/ ScriptRuns(t)
  \/ MysqlInitFails(t) \/ QueryWorks(t) \/ QueryRefused(t)
  \/ Format(t)

Next ==
  \E t \in Threads :
    \/ \E c \in Calls : Capilua(t, c)
    \/ Step(t)

Spec == Init /\ [][Next]_vars

-----------------------------------------------------------------------------
(***************************************************************************)
(* Properties.                                                             *)
(***************************************************************************)

\* The table is changed only by a script that got all it was announced: a DELETE with
\* four conditions, a PUT with a body and two conditions, a POST with one flat body,
\* whatever was repeated, left out or refused on the way to it.
ChangesAsAsked ==
  \A t \in changes :
    LET c == call[t]
    IN /\ c.nargs = Len(c.args)
       /\ \/ /\ c.script = "DELETE_testforme"
             /\ c.args = <<"pair", "pair", "pair", "pair">>
          \/ /\ c.script = "PUT_testforme"
             /\ c.args \in {<<b, "pair", "pair">> : b \in {"object", "nested"}}
          \/ /\ c.script = "POST_testforme"
             /\ c.args \in {<<"object">>, <<"xml">>}

\* How much of the response of t the buffer has room for.
Shown(t) == IF Length[answer[t]] < BufferCells THEN Length[answer[t]] ELSE BufferCells

\* A thread that nobody disturbed in format_response_C returns its own response, all of
\* it and nothing else, whatever the others have left in the buffer.
OwnReply ==
  \A t \in Threads :
    pc[t] = "replied" /\ alone[t] => reply[t] = [k \in 1..Shown(t) |-> t]

\* What t said of its request is so: the table was changed by requests that say so, and
\* not by those that say "MYSQL EXCEPTION".
Truthful(t) ==
  /\ answer[t] = "success" <=> t \in changes
  /\ answer[t] = "exception" => t \in refused

\* A disturbed reply may be torn.  But "FAILED" is never said of a change that was made,
\* a reply starts with the headers of a response of its time, and each part of it is what
\* some response has at that very place, one that is true of its request.  What earlier
\* requests have left in the buffer shows only behind the NUL of the request itself.
PartsInPlace ==
  \A t \in Threads :
    /\ pc[t] = "failed" => t \notin changes
    /\ pc[t] = "replied" => reply[t] # <<>> /\ reply[t][1] \in Threads
    /\ \A k \in DOMAIN reply[t] :
         LET u == reply[t][k]
         IN \/ u \in Threads /\ k =< Length[answer[u]] /\ Truthful(u)
            \/ u = NoThread /\ k > Length[answer[t]] + 1

\* However the responses are torn, strlen and the copy come to a NUL inside the buffer,
\* unless some response is by itself too long for it.
EndsInside ==
  (\A t \in Threads : answer[t] # "long_rows") =>
    \A t \in Threads : pc[t] \in {"measure", "copy"} => place[t] =< BufferCells

\* What the process does not survive.
Trouble ==
  \/ \E t \in refused : Selects(call[t]) \/ pc[t] = "connect"
  \/ \E t \in Threads : Missing(t) > 1
  \/ overrun

\* Nothing else ends the process: a request that the database refuses to change its
\* table for is answered, as is one whose script cannot be run.
DiesOnlyInTrouble == dead => Trouble

\* A reply is the request's own if nobody disturbed it in format_response_C; if somebody
\* did, it is made of parts in their places, and nothing is read from behind the buffer
\* (run_lua.c:80-83).
RepliesRight ==
  /\ TypeOK
  /\ OwnReply
  /\ PartsInPlace
  /\ EndsInside

=============================================================================
