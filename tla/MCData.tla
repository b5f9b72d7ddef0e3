------------------------------- MODULE MCData -------------------------------
(***************************************************************************)
(* What the server keeps its data in, for TLC: four systems of which a     *)
(* behaviour is one.  part says which: the hash table, the trees of cJSON, *)
(* its texts, or its utilities (pointers, patches and sorting).            *)
(***************************************************************************)
EXTENDS MCHashTable, SequencesExt

CONSTANTS Addresses, Blocks, Names, TreeValues, MaxCalls, NestingLimit, BufferSize

VARIABLES part, heap, roots, lists, leaked, calls, text_call, utils_call

-----------------------------------------------------------------------------
(* Texts: null, numbers, and strings with characters that are escaped.     *)

Leaves ==
  {<<"null">>, <<"false">>, <<"number", -10>>, <<"string", <<>>>>, <<"string", <<97, 1, 34>>>>,
   <<"string", <<92>>>>, <<"array", <<>>>>, <<"object", <<>>>>}
Small == {<<"null">>, <<"string", <<31, 92, 98>>>>, <<"string", <<92>>>>}
TextValues ==
  Leaves
  \cup {<<"array", <<a>>>> : a \in Leaves}
  \cup {<<"array", <<a, b>>>> : a \in Leaves, b \in Small}
  \cup {<<"object", <<<<n, a>>>>>> : a \in Leaves, n \in {<<>>, <<92>>, <<97, 34>>}}
  \cup {<<"object", <<<<<<97>>, a>>, <<<<97>>, b>>>>>> : a \in Leaves, b \in Small}
  \cup {<<"object", <<<<<<97>>, <<"array", <<a, <<"object", <<<<<<>>, b>>>>>>>>>>>>>>>> :
          a \in Leaves, b \in Small}

\* [ ] { } , : "" space 1: every text of four of them, and some longer ones.
Tokens == {<<91>>, <<93>>, <<123>>, <<125>>, <<44>>, <<58>>, <<34, 34>>, <<32>>, <<49>>}
ParsedTexts ==
  UNION {{FlattenSeq(s) : s \in [1..k -> Tokens]} : k \in 0..4}
  \cup {<<91, 91, 91, 91, 93, 93, 93, 93>>, <<239, 187, 191, 91, 93>>,
        <<123, 34, 34, 58, 49, 44, 125>>, <<34, 92, 34>>, <<123, 34, 34, 58, 49, 44>>}

\* The first and last codes of one, two and three bytes, and of the two kinds of surrogates.
LiteralCodes ==
  {0, 1, 127, 128, 291, 2047, 2048, 43981, 55295, 55296, 56319, 56320, 57343, 57344, 65535}

-----------------------------------------------------------------------------
(* Utilities: values that differ in one place or in several, names that    *)
(* differ in their case only, and names with / and ~.                      *)

Number(n)   == <<"number", n>>
Array1(s)   == <<"array", s>>
Object(s)   == <<"object", s, Len(s)>>
Member(n, v) == <<n, v>>
Simple == {<<"null">>, Number(1), <<"string", <<97>>>>}
MemberNames == {<<97>>, <<65>>, <<98>>, <<97, 97>>}
Nested ==
  {Object(<<>>), Object(<<Member(<<97>>, Number(1))>>),
   Object(<<Member(<<98>>, Number(1)), Member(<<97>>, Number(1))>>),
   Array1(<<>>), Array1(<<Number(1)>>),
   Array1(<<Number(2), Number(1), Object(<<Member(<<97>>, Number(2))>>)>>)}
UtilsValues ==
  Simple \cup Nested
  \cup {Object(<<Member(n, v)>>) : n \in MemberNames, v \in Simple \cup Nested}
  \cup {Object(<<Member(n, Number(1)), Member(m, v)>>) :
          n \in MemberNames, m \in MemberNames, v \in {Number(1), Number(2), Object(<<>>)}}
  \cup {Object(<<Member(<<98>>, Number(1)), Member(<<97>>, Number(2)), Member(<<97, 97>>, v),
                 Member(<<99>>, Number(3))>>) : v \in Nested}
  \cup {Object(<<Member(<<97, 126, 47>>, Number(1))>>)}
  \cup {Object(<<Member(<<97>>, v), Member(<<99>>, Number(1)), Member(<<98>>, Number(2))>>) :
          v \in {Number(2)} \cup Nested}

Pointed == {<<>>, <<47>>, <<126>>, <<126, 49>>, <<126, 48>>, <<97>>, <<65>>, <<47, 97>>}
PointedRoots ==
  {Object(<<Member(a, Number(1)),
            Member(b, Array1(<<Number(1), Object(<<Member(c, Number(1))>>)>>))>>) :
     a \in Pointed, b \in Pointed, c \in Pointed}
  \cup {Array1([k \in 1..12 |-> Number(k)])}

\* In order, and out of order.
Patched ==
  LET A == Member(<<97>>, Array1(<<Number(1), Object(<<Member(<<98>>, Number(7))>>)>>))
      B == Member(<<98>>, Array1(<<>>))
      C == Member(<<126>>, Object(<<Member(<<97>>, Number(7))>>))
  IN  {Object(<<A, B, C>>), Object(<<B, C, A>>)}
Pointer(s) == FlattenSeq([k \in DOMAIN s |-> <<47>> \o s[k]])
PatchPointers ==
  {Pointer(s) :
     s \in {<<>>, <<<<97>>>>, <<<<98>>>>, <<<<99>>>>, <<<<97>>, <<48>>>>, <<<<97>>, <<49>>>>,
            <<<<97>>, <<50>>>>, <<<<97>>, <<51>>>>, <<<<97>>, <<45>>>>, <<<<97>>, <<48, 49>>>>,
            <<<<97>>, <<49>>, <<98>>>>, <<<<97>>, <<49>>, <<99>>>>, <<<<99>>, <<99>>>>,
            <<<<97>>, <<48>>, <<98>>>>, <<<<98>>, <<48>>>>, <<<<126, 48>>>>, <<<<126, 48>>, <<97>>>>}}

-----------------------------------------------------------------------------

Tree == INSTANCE CJsonTree WITH Values <- TreeValues
Text == INSTANCE CJsonText WITH
  Values <- TextValues, Texts <- ParsedTexts, Codes <- LiteralCodes,
  call <- text_call
Utils == INSTANCE CJsonUtils WITH
  Values <- UtilsValues, Roots <- PointedRoots, Pointers <- PatchPointers, Given <- Patched,
  call <- utils_call

treeVars  == <<heap, roots, lists, leaked, calls>>
dataVars  == <<part, vars, treeVars, text_call, utils_call>>

DataInit ==
  /\ part \in {"table", "tree", "text", "utils"}
  /\ Init /\ Tree!Init /\ Text!Init /\ Utils!Init

DataNext ==
  /\ UNCHANGED part
  /\ \/ part = "table" /\ Next       /\ UNCHANGED <<treeVars, text_call, utils_call>>
     \/ part = "tree"  /\ Tree!Next  /\ UNCHANGED <<vars, text_call, utils_call>>
     \/ part = "text"  /\ Text!Next  /\ UNCHANGED <<vars, treeVars, utils_call>>
     \/ part = "utils" /\ Utils!Next /\ UNCHANGED <<vars, treeVars, text_call>>

DataSpec ==
  /\ DataInit /\ [][DataNext]_dataVars
  /\ WF_dataVars(part = "table" /\ InCall /\ UNCHANGED <<part, treeVars, text_call, utils_call>>)

\* The properties of the trees, the texts and the utilities.
TreesWhole  == Tree!TreesWhole
TreesMean   == Tree!TreesMean
PrintsRight == [][part = "text" => Text!PrintsAreRight]_dataVars
ParsesRight == [][part = "text" => Text!ParsesAreRight]_dataVars
UtilsReach  == [][part = "utils" => Utils!UtilsDo]_dataVars
=============================================================================
