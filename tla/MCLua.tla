------------------------------- MODULE MCLua --------------------------------
(***************************************************************************)
(* The interpreter that runs the server's scripts, for TLC: its parts are  *)
(* systems of their own, of which a behaviour is one.  part says which:    *)
(* the collector, with three heaps that differ in the kinds of objects;    *)
(* the tables; the code generator; the calls; the patterns; the lists.     *)
(***************************************************************************)
EXTENDS LuaTableLib, LuaCalls, TLC

CONSTANTS R, t1, ud1, str1, co, cl, main, nil, plain, co1

VARIABLES part,
          g, stack, full, cycles, ops, called,
          t, store, walk,
          code_call,
          match_call

-----------------------------------------------------------------------------
(* Tables: three integers, a string and an object whose places collide.    *)

SomeKeys == {<<"int", 1>>, <<"int", 2>>, <<"int", 3>>, <<"str", 6, "a">>, <<"ref", 5>>}

-----------------------------------------------------------------------------
(* Programs: conditions in every position, loops, assignments with more    *)
(* and fewer values than targets, locals without a value.                  *)

V(n)       == <<"var", n>>
N1         == <<"num", 1>>
N3         == <<"num", 3>>
Asg(n, x)  == <<"assign", <<V(n)>>, <<x>>>>
Local(names, values) == <<"local", names, values>>
If(cond, then)       == <<"if", <<<<cond, then>>>>, <<>>>>

Atoms == {<<"nil">>, <<"true">>, <<"false">>, N1, V("a"), V("x")}
Simple ==
  Atoms \cup {<<"not", x>> : x \in Atoms} \cup {<<"neg", V("b")>>, <<"index", V("b"), V("a")>>}
  \cup {<<o, x, y>> : o \in {"and", "or", "EQ", "LT", "GE", "ADD", "CONCAT"},
                      x \in {V("a"), N1}, y \in {V("b"), N1, <<"false">>}}
Conditions ==
  {V("a"), <<"not", V("a")>>, <<"LT", V("a"), N1>>, <<"and", V("a"), V("b")>>,
   <<"or", V("b"), V("a")>>, <<"NE", V("a"), V("b")>>, <<"false">>, <<"index", V("b"), N1>>}
Double ==
  {<<o, x, y>> : o \in {"and", "or"}, x \in Simple, y \in Conditions}
  \cup {<<o, y, x>> : o \in {"and", "or", "EQ", "CONCAT"}, x \in Simple, y \in Conditions}
  \cup {<<"not", x>> : x \in Simple} \cup {<<"paren", x>> : x \in Simple}
Junctions == {<<o, x, y>> : o \in {"and", "or"}, x \in Conditions, y \in Conditions}
Expressions ==
  Simple \cup Double \cup {<<"not", x>> : x \in Junctions}
  \cup {<<o, x, z>> : o \in {"and", "or"}, x \in Junctions, z \in {V("a"), <<"EQ", V("b"), N1>>, <<"false">>}}

More(name) == Asg(name, <<"ADD", V(name), N1>>)
Bodies ==
  {<<More("a")>>,
   <<If(<<"EQ", V("a"), N1>>, <<<<"break">>>>), More("a")>>,
   <<Local(<<"c">>, <<>>),
     <<"if", <<<<<<"LT", V("b"), V("a")>>, <<Asg("x", V("c")), <<"break">>>>>>>>, <<More("a")>>>>>>}
Below3 == <<"LT", V("a"), N3>>
Loops ==
  {<<<<"while", c, b>>>> : c \in {Below3, <<"and", Below3, V("b")>>}, b \in Bodies}
  \cup {<<<<"repeat", b, c>>>> : c \in {<<"GE", V("a"), N3>>, <<"not", Below3>>}, b \in Bodies}
  \cup {<<<<"for", "i", f, l, st, b \o <<Asg("y", V("i"))>>>>>> :
          f \in {N1, V("a")}, l \in {N3, V("b")}, st \in {N1, <<"neg", N1>>}, b \in Bodies}

Targets == {V("a"), V("b"), V("x"), <<"index", V("b"), V("a")>>, <<"index", V("a"), N1>>}
Assignments ==
  {<<<<"assign", <<v, w>>, <<x, y>>>>>> :
     v \in Targets, w \in Targets, x \in {V("a"), V("b"), <<"and", V("a"), V("b")>>}, y \in {N1, V("a")}}
  \cup {<<<<"assign", <<v, w, V("y")>>, l>>>> :
          v \in Targets, w \in Targets, l \in {<<N1>>, <<V("b"), V("a"), N1, N1>>}}
  \cup {<<Local(<<"c", "d">>, l), Local(<<"e">>, <<>>), Asg("x", V("e")), Asg("y", V("d"))>> :
          l \in {<<>>, <<N1>>, <<V("b"), V("a"), N1>>}}
  \cup {<<Local(<<"c">>, <<N1>>), <<"while", V("c"), <<Asg("c", <<"nil">>)>>>>, Local(<<"d">>, <<>>),
          If(V("a"), <<Asg("d", N1)>>), Local(<<"e">>, <<>>), Asg("x", V("d")), Asg("y", V("e"))>>}

SomePrograms ==
  {<<Asg("x", x)>> : x \in Expressions} \cup {<<Asg("b", x)>> : x \in Double}
  \cup {<<Local(<<"c">>, <<x>>), Asg("x", <<"CONCAT", N1, <<"CONCAT", V("c"), V("c")>>>>)>> : x \in Simple}
  \cup {<<<<"if", <<<<x, <<Asg("x", N1)>>>>, <<y, <<Asg("y", N1)>>>>>>, e>>>> :
          x \in Conditions \cup Simple, y \in Conditions, e \in {<<>>, <<Asg("x", <<"nil">>)>>}}
  \cup {<<If(x, <<Local(<<"d">>, <<>>)>>), Local(<<"e">>, <<>>), Asg("x", V("e"))>> : x \in Conditions}
  \cup Loops \cup Assignments

NilValue    == <<"nil">>
Number(n)   == <<"num", n>>
Start(x, y) ==
  [a |-> x, b |-> y,
   env |-> (<<"name", "x">> :> Number(1)) @@ (Number(1) :> Number(5)) @@ (Number(0) :> NilValue)]
SomeStarts ==
  {Start(NilValue, Number(1)), Start(Number(0), <<"table">>), Start(Number(1), <<"bool", FALSE>>),
   Start(<<"table">>, Number(1)), Start(Number(1), Number(1)), Start(Number(1), <<"table">>)}

-----------------------------------------------------------------------------
(* Patterns of up to four items over the characters a and b, each with     *)
(* what it means; 97 is a, 98 is b.                                        *)

Chars   == {0, 36, 37, 40, 41, 45, 46, 93, 94, 97, 98, 99}
ABC     == {97, 98, 99}
Sources == {<<>>, <<98, 97, 97>>, <<97, 97, 98, 97>>, <<40, 97, 40, 98, 41, 41, 97>>, <<36, 94, 97>>}

One(text, set)             == <<text, <<"one", set, "">>>>
Many(text, set, code, suffix) == <<Append(text, code), <<"one", set, suffix>>>>
As ==
  {One(<<97>>, {97}), Many(<<97>>, {97}, 42, "*"), Many(<<97>>, {97}, 43, "+"),
   Many(<<97>>, {97}, 45, "-"), Many(<<97>>, {97}, 63, "?")}
AnyFew  == Many(<<46>>, Chars, 45, "-")
Ones ==
  As \cup {AnyFew, Many(<<46>>, Chars, 42, "*"), One(<<91, 94, 97, 93>>, Chars \ {97}),
           Many(<<91, 94, 97, 93>>, Chars \ {97}, 63, "?")}
\* [a-c] []] %a %A [%a] [-] [^-a] %. [a-] %$ b
OtherSets ==
  {One(<<91, 97, 45, 99, 93>>, ABC), One(<<91, 93, 93>>, {93}), One(<<37, 97>>, ABC),
   One(<<37, 65>>, Chars \ ABC), One(<<91, 37, 97, 93>>, ABC), One(<<91, 45, 93>>, {45}),
   One(<<91, 94, 45, 97, 93>>, Chars \ {45, 97}), One(<<37, 46>>, {46}),
   One(<<91, 97, 45, 93>>, {97, 45}), One(<<37, 36>>, {36}), One(<<98>>, {98})}
Opens    == <<<<40>>, <<"open">>>>
Closes   == <<<<41>>, <<"close">>>>
Position == <<<<40, 41>>, <<"position">>>>
Back(n)  == <<<<37, 48 + n>>, <<"back", n>>>>
AtEnd    == <<<<36>>, <<"end">>>>
Begins   == <<<<94>>, <<"start">>>>
Balanced == <<<<37, 98, 40, 41>>, <<"balance", 40, 41>>>>
BorderA  == <<<<37, 102, 91, 97, 93>>, <<"border", {97}>>>>
BorderNotA == <<<<37, 102, 91, 94, 97, 93>>, <<"border", Chars \ {97}>>>>
Malformed == "malformed pattern"
\* % [a [] [%] %ba %fa %f[a
Wrong ==
  {<<<<37>>, <<"wrong", Malformed>>>>, <<<<91, 97>>, <<"wrong", Malformed>>>>,
   <<<<91, 93>>, <<"wrong", Malformed>>>>, <<<<91, 37, 93>>, <<"wrong", Malformed>>>>,
   <<<<37, 98, 97>>, <<"wrong", "missing arguments">>>>, <<<<37, 102, 97>>, <<"wrong", "missing [">>>>,
   <<<<37, 102, 91, 97>>, <<"wrong", Malformed>>>>}
Items == Ones \cup {Opens, Closes, Position, Back(1), AtEnd, BorderA, Balanced}
\* ( and ) next to each other would be a position.
Apart(q) == \A k \in 1..(Len(q) - 1) : q[k] # Opens \/ q[k + 1] # Closes
SomePatterns ==
  {q \in UNION {[1..k -> Items] : k \in 0..2} : Apart(q)}
  \cup {q \in {<<x, y, z>> : x \in {Opens, AnyFew, Position}, y \in {Opens, Many(<<97>>, {97}, 63, "?")},
                             z \in Items} : Apart(q)}
  \cup {<<Opens, x, Closes, z>> : x \in Ones, z \in Items}
  \cup {<<Begins>> \o q : q \in UNION {[1..k -> As \cup {Position, AtEnd, Begins}] : k \in 0..2}}
  \cup {<<x>> : x \in OtherSets \cup Wrong} \cup {<<x, w>> : x \in As, w \in Wrong}
  \cup {<<Opens, Opens, x, Closes, AnyFew, Closes, Back(n)>> : x \in As, n \in 1..3}
  \cup {<<BorderNotA>>, <<BorderA, BorderNotA>>, <<Opens, Back(1), Closes>>}

-----------------------------------------------------------------------------
(* Lists: all of up to five values, and three of seven, long enough here   *)
(* for a random pivot once they were parted unevenly.                      *)

SomeLists ==
  UNION {[1..n -> Elements] : n \in 0..5}
  \cup {<<1, 3, 3, 2, 3, 3, 3>>, <<2, 1, 3, 1, 2, 3, 1>>, <<3, 3, 2, 2, 1, 1, 1>>}

-----------------------------------------------------------------------------

AllModes == {{}, {"k"}, {"v"}, {"k", "v"}}

\* Two tables and an object with a finalizer; a table and a string, twice collected; a
\* coroutine and a closure with an upvalue.
G1 == INSTANCE LuaGC WITH
  Tables <- {R, t1}, Strings <- {}, Userdata <- {ud1}, Coroutines <- {}, Closures <- {},
  Main <- main, Registry <- R, Nil <- nil, Plain <- plain, Modes <- AllModes,
  SweepMax <- 2, MaxCycles <- 1, MaxOps <- 5
G2 == INSTANCE LuaGC WITH
  Tables <- {R}, Strings <- {str1}, Userdata <- {ud1}, Coroutines <- {}, Closures <- {},
  Main <- main, Registry <- R, Nil <- nil, Plain <- plain, Modes <- AllModes,
  SweepMax <- 2, MaxCycles <- 2, MaxOps <- 6
G3 == INSTANCE LuaGC WITH
  Tables <- {R}, Strings <- {}, Userdata <- {}, Coroutines <- {co}, Closures <- {cl},
  Main <- main, Registry <- R, Nil <- nil, Plain <- plain, Modes <- AllModes,
  SweepMax <- 2, MaxCycles <- 1, MaxOps <- 6

Table == INSTANCE LuaTable WITH
  Keys <- SomeKeys, MAX_INT <- 3, SizesArray <- {0, 3}, SizesHash <- {0, 2}
Code  == INSTANCE LuaCode WITH
  Programs <- SomePrograms, Starts <- SomeStarts, Fuel <- 80, call <- code_call
Pattern == INSTANCE LuaMatch WITH
  Patterns <- SomePatterns, MAXCCALLS <- 5, call <- match_call

ASSUME G1!LuaGCAssumption /\ G2!LuaGCAssumption /\ G3!LuaGCAssumption
ASSUME Table!LuaTableAssumption /\ LuaTableLibAssumption /\ LuaCallsAssumption

gcVars    == <<g, stack, full, cycles, ops, called>>
tableVars == <<t, store, walk>>
luaVars   == <<part, gcVars, tableVars, code_call, callsVars, match_call, vars>>

LuaInit ==
  /\ part \in {"gc1", "gc2", "gc3", "table", "code", "calls", "match", "lists"}
  /\ CASE part = "gc2" -> G2!Init
       [] part = "gc3" -> G3!Init
       [] OTHER        -> G1!Init
  /\ Table!Init /\ Code!Init /\ CallsInit /\ Pattern!Init /\ Init
  /\ part # "table" => t = Table!New(0, 0)

LuaNext ==
  /\ UNCHANGED part
  /\ \/ /\ \/ part = "gc1" /\ G1!Next
           \/ part = "gc2" /\ G2!Next
           \/ part = "gc3" /\ G3!Next
        /\ UNCHANGED <<tableVars, code_call, callsVars, match_call, vars>>
     \/ part = "table" /\ Table!Next /\ UNCHANGED <<gcVars, code_call, callsVars, match_call, vars>>
     \/ part = "code" /\ Code!Next /\ UNCHANGED <<gcVars, tableVars, callsVars, match_call, vars>>
     \/ part = "calls" /\ CallsNext /\ UNCHANGED <<gcVars, tableVars, code_call, match_call, vars>>
     \/ part = "match" /\ Pattern!Next /\ UNCHANGED <<gcVars, tableVars, code_call, callsVars, vars>>
     \/ part = "lists" /\ Next /\ UNCHANGED <<gcVars, tableVars, code_call, callsVars, match_call>>

LuaSpec == LuaInit /\ [][LuaNext]_luaVars

-----------------------------------------------------------------------------
(* The properties of the parts.                                            *)

\* The collector frees nothing that is used.
CollectorSafe ==
  /\ part = "gc1" => G1!CollectorSafe
  /\ part = "gc2" => G2!CollectorSafe
  /\ part = "gc3" => G3!CollectorSafe

Collects ==
  CASE part = "gc1" -> G1!OnlyGarbage /\ G1!LeavesNoGarbage
    [] part = "gc2" -> G2!OnlyGarbage /\ G2!LeavesNoGarbage
    [] part = "gc3" -> G3!OnlyGarbage /\ G3!LeavesNoGarbage
    [] OTHER        -> TRUE

\* Finalizers are called for garbage only, and a full collection leaves none.
CollectsGarbage == [][Collects]_luaVars

\* A table keeps what was stored in it, and the array part is as large as it should be.
TablesKeep ==
  /\ [](part = "table" => Table!TableKeeps)
  /\ [][part = "table" => Table!WellUsed]_luaVars

\* What the other parts promise.
CodeMeansProgram == [][part = "code" => Code!ProgramsMean]_luaVars
PatternsMatch    == [][part = "match" => Pattern!PatternsDo]_luaVars
=============================================================================
