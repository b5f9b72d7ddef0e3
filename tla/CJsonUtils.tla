----------------------------- MODULE CJsonUtils -----------------------------
(***************************************************************************)
(* cJSON_Utils.c: JSON pointers, patches and merge patches.  Values are as *)
(* in CJsonText: <<"null">>, <<"number", n>>, <<"string", codes>>,         *)
(* <<"array", values>>, <<"object", pairs of a name and a value, end>>;    *)
(* names and pointers are sequences of character codes.  An item inside a  *)
(* value is known by its path, the numbers of the children that lead to it.*)
(*                                                                         *)
(* end is where the prev of an object's first item points: the number of   *)
(* its last item, behind which the next is put, until the object is        *)
(* sorted; then it may be another's, 0 for NULL, or Gone for an item that  *)
(* is no longer in the list.  Arrays are not sorted, and keep their end.   *)
(* Patches are records with the members of the patch object; those that a  *)
(* patch lacks are not in the record.                                      *)
(*                                                                         *)
(* A behaviour is one call, and Returned is what the code gives for it.    *)
(***************************************************************************)
EXTENDS Integers, Sequences, FiniteSets, TLC, SequencesExt

CONSTANTS Values,     \* the values that are compared, patched and merged
          Roots,      \* the values in which items are looked for
          Pointers,   \* the pointers of single patches
          Given       \* the values of single patches

VARIABLE call   \* what is asked for

SLASH == 47
TILDE == 126
ZERO  == 48
ONE   == 49
DASH  == <<45>>

Nothing == <<"nothing">>   \* NULL for an item
Wild    == <<"wild">>      \* an object that was written behind an item it had lost
Gone    == -1

Lower(c) == IF c \in 65..90 THEN c + 32 ELSE c
Folded(name, case_sensitive) ==
  IF case_sensitive THEN name ELSE [k \in DOMAIN name |-> Lower(name[k])]

\* compare_strings, and strcmp where case is not asked about: below zero, zero or above.
RECURSIVE Order(_, _)
Order(s, t) ==
  CASE s = <<>> /\ t = <<>> -> 0
    [] s = <<>> /\ t # <<>> -> -1
    [] s # <<>> /\ t = <<>> -> 1
    [] OTHER -> IF Head(s) # Head(t) THEN Head(s) - Head(t) ELSE Order(Tail(s), Tail(t))

CompareStrings(s, t, case_sensitive) ==
  Order(Folded(s, case_sensitive), Folded(t, case_sensitive))

Children(v) == IF v[1] \in {"array", "object"} THEN v[2] ELSE <<>>
ChildOf(v, k) == IF v[1] = "object" THEN v[2][k][2] ELSE v[2][k]

RECURSIVE ItemAt(_, _)
ItemAt(v, path) == IF path = <<>> THEN v ELSE ItemAt(ChildOf(v, Head(path)), Tail(path))

\* The value with what it has at a path changed.
RECURSIVE With(_, _, _)
With(v, path, new) ==
  IF path = <<>> THEN new
  ELSE LET k    == Head(path)
           item == With(ChildOf(v, k), Tail(path), new)
           here == IF v[1] = "object" THEN <<v[2][k][1], item>> ELSE item
       IN  [v EXCEPT ![2] = SubSeq(@, 1, k - 1) \o <<here>> \o SubSeq(@, k + 1, Len(@))]

\* cJSON's own lookup of a member, whatever it is asked about case: its number, or 0.
MemberOf(v, name, case_sensitive) ==
  SelectInSeq(v[2], LAMBDA m : CompareStrings(m[1], name, case_sensitive) = 0)

Object(members) == <<"object", members, Len(members)>>

\* cJSON_Duplicate: the copy's prevs are right, whatever those of the original are.
RECURSIVE Duplicate(_)
Duplicate(v) ==
  CASE v[1] = "object" -> Object([k \in DOMAIN v[2] |-> <<v[2][k][1], Duplicate(v[2][k][2])>>])
    [] v[1] = "array"  -> <<"array", [k \in DOMAIN v[2] |-> Duplicate(v[2][k])]>>
    [] OTHER -> v

\* cJSON_DetachItemViaPointer and detach_item_from_array: only when the last item goes is the end
\* set; otherwise the first item's prev stays, or is the next item's when the first one goes.
Without(v, k) ==
  LET n   == Len(v[2])
      end == CASE k = n -> n - 1
               [] k # n /\ v[3] = k -> Gone
               [] k # n /\ v[3] > k -> v[3] - 1
               [] OTHER -> v[3]
  IN  IF v[1] = "array" THEN <<"array", RemoveAt(v[2], k)>>
      ELSE <<"object", RemoveAt(v[2], k), end>>

\* cJSON_AddItemToObject: nothing is added where the first item's prev is NULL, and what comes
\* behind the item that it points to is no longer in the list.
AddMember(v, member) ==
  CASE v[2] = <<>> -> Object(<<member>>)
    [] v[2] # <<>> /\ v[3] = 0 -> v
    [] v[2] # <<>> /\ v[3] = Gone -> Wild
    [] OTHER -> <<"object", Append(SubSeq(v[2], 1, v[3]), member), v[3] + 1>>

-----------------------------------------------------------------------------
(* Pointers *)

\* compare_pointers: a name and the next part of a pointer, of which ~0 and ~1 are escapes.
RECURSIVE ComparePointers(_, _, _)
ComparePointers(name, pointer, case_sensitive) ==
  LET ended == pointer = <<>> \/ (pointer # <<>> /\ Head(pointer) = SLASH)
      n     == Head(name)
      p     == Head(pointer)
      next  == IF Len(pointer) > 1 THEN pointer[2] ELSE 0
  IN  IF name = <<>> \/ ended THEN ended /\ name = <<>>
      ELSE IF p = TILDE
      THEN /\ \/ next = ZERO /\ n = TILDE
              \/ next = ONE /\ n = SLASH
           /\ ComparePointers(Tail(name), Tail(Tail(pointer)), case_sensitive)
      ELSE /\ IF case_sensitive THEN n = p ELSE Lower(n) = Lower(p)
           /\ ComparePointers(Tail(name), Tail(pointer), case_sensitive)

\* encode_string_as_pointer
EncodeAsPointer(name) ==
  FlattenSeq([k \in DOMAIN name |-> CASE name[k] = SLASH -> <<TILDE, ONE>>
                                      [] name[k] = TILDE -> <<TILDE, ZERO>>
                                      [] OTHER -> <<name[k]>>])

RECURSIVE Decimal(_)
Decimal(n) == IF n < 10 THEN <<48 + n>> ELSE Append(Decimal(n \div 10), 48 + (n % 10))

\* The pointer to the child with a number.
PointerTo(v, k) ==
  <<SLASH>> \o IF v[1] = "object" THEN EncodeAsPointer(v[2][k][1]) ELSE Decimal(k - 1)

\* cJSONUtils_FindPointerFromObjectTo: the path is the target's address.
RECURSIVE FindPointer(_, _)
FindPointer(v, path) ==
  IF path = <<>> THEN <<>>
  ELSE PointerTo(v, Head(path)) \o FindPointer(ChildOf(v, Head(path)), Tail(path))

\* decode_array_index_from_pointer: an index, or -1.  That the characters are digits is asked
\* of the first one only.
DecodeIndex(pointer) ==
  LET stops  == {k \in 1..Len(pointer) + 1 :
                   k > Len(pointer) \/ (k <= Len(pointer) /\ (pointer[k] < ZERO \/ pointer[1] > 57))}
      stop   == CHOOSE k \in stops : \A l \in stops : k <= l
      Ends(k) == k > Len(pointer) \/ (k <= Len(pointer) /\ pointer[k] = SLASH)
  IN  IF ~Ends(1) /\ pointer[1] = ZERO /\ ~Ends(2) THEN -1
      ELSE IF ~Ends(stop) THEN -1
      ELSE FoldLeft(LAMBDA n, c : 10 * n + (c - ZERO), 0, SubSeq(pointer, 1, stop - 1))

\* get_item_from_pointer: the path of the item, or <<0>>.
RECURSIVE GetItem(_, _, _)
GetItem(v, pointer, case_sensitive) ==
  LET part  == Tail(pointer)
      slash == SelectInSeq(part, LAMBDA c : c = SLASH)
      rest  == IF slash = 0 THEN <<>> ELSE SubSeq(part, slash, Len(part))
      k     == CASE v[1] = "array"  -> LET i == DecodeIndex(part) IN
                                       IF i >= 0 /\ i < Len(v[2]) THEN i + 1 ELSE 0
                 [] v[1] = "object" ->
                      SelectInSeq(v[2], LAMBDA m : ComparePointers(m[1], part, case_sensitive))
                 [] OTHER -> 0
      below == GetItem(ChildOf(v, k), rest, case_sensitive)
  IN  IF pointer = <<>> \/ (pointer # <<>> /\ Head(pointer) # SLASH) THEN <<>>
      ELSE IF k = 0 THEN <<0>>
      ELSE IF below = <<0>> THEN <<0>>
      ELSE <<k>> \o below

\* decode_pointer_inplace: behind an escape characters are not moved to their place, ~1 puts its
\* slash one too far, and at a tilde without 0 or 1 it leaves the string as it is.
DecodeInplace(string) ==
  LET n == Len(string)
      Step(s, k) ==
        IF s.skip \/ s.bad THEN [s EXCEPT !.skip = FALSE]
        ELSE IF s.bytes[k] # TILDE THEN [s EXCEPT !.at = @ + 1]
        ELSE IF k < n /\ s.bytes[k + 1] = ZERO
        THEN [s EXCEPT !.bytes[s.at] = TILDE, !.at = @ + 1, !.skip = TRUE]
        ELSE IF k < n /\ s.bytes[k + 1] = ONE
        THEN [s EXCEPT !.bytes[s.at + 1] = SLASH, !.at = @ + 1, !.skip = TRUE]
        ELSE [s EXCEPT !.bad = TRUE]
      last == FoldLeft(Step, [bytes |-> string, at |-> 1, skip |-> FALSE, bad |-> FALSE],
                       [k \in DOMAIN string |-> k])
  IN  IF last.bad THEN last.bytes ELSE SubSeq(last.bytes, 1, last.at - 1)

-----------------------------------------------------------------------------
(* Sorting and comparing *)

RECURSIVE Merge(_, _, _)
Merge(s, t, case_sensitive) ==
  IF s = <<>> THEN t ELSE IF t = <<>> THEN s
  ELSE IF CompareStrings(s[1][1], t[1][1], case_sensitive) < 0
  THEN <<Head(s)>> \o Merge(Tail(s), t, case_sensitive)
  ELSE <<Head(t)>> \o Merge(s, Tail(t), case_sensitive)

\* sort_list: halves that are sorted and merged, a list in strict order left alone.  The first
\* of the second half has no prev, the first of the list keeps its own, and the merged list's
\* is what that of its first item is.
RECURSIVE SortList(_, _, _)
SortList(list, end, case_sensitive) ==
  LET half   == (Len(list) + 1) \div 2
      first  == SortList(SubSeq(list, 1, half), end, case_sensitive)
      second == SortList(SubSeq(list, half + 1, Len(list)), 0, case_sensitive)
      merged == Merge(first.list, second.list, case_sensitive)
  IN  IF \A k \in 1..Len(list) - 1 : CompareStrings(list[k][1], list[k + 1][1], case_sensitive) < 0
      THEN [list |-> list, end |-> end]
      ELSE [list |-> merged, end |-> IF Head(merged) = Head(first.list) THEN first.end ELSE second.end]

\* Members are sorted with the numbers they had.
SortObject(v, case_sensitive) ==
  LET items  == [k \in DOMAIN v[2] |-> Append(v[2][k], k)]
      sorted == SortList(items, v[3], case_sensitive)
      end    == IF sorted.end \in DOMAIN v[2]
                THEN SelectInSeq(sorted.list, LAMBDA m : m[3] = sorted.end) ELSE sorted.end
  IN  <<"object", [k \in DOMAIN v[2] |-> Front(sorted.list[k])], end>>

\* compare_json: whether the two are the same, and what is left of them, for it sorts the
\* objects that it comes to.
RECURSIVE CompareJson(_, _, _)
CompareJson(v, w, case_sensitive) ==
  LET Are(same)  == [same |-> same, left |-> v, right |-> w]
      Sorted(x)  == IF x[1] = "object" THEN SortObject(x, case_sensitive) ELSE x
      sorted     == [same |-> TRUE, left |-> Sorted(v), right |-> Sorted(w)]
      Named(x, k) == IF x[1] = "object" THEN x[2][k][1] ELSE <<>>
      Each(r, k) ==
        LET below == CompareJson(ChildOf(r.left, k), ChildOf(r.right, k), case_sensitive) IN
        IF ~r.same THEN r
        ELSE IF CompareStrings(Named(r.left, k), Named(r.right, k), case_sensitive) # 0
        THEN [r EXCEPT !.same = FALSE]
        ELSE [same |-> below.same, left |-> With(r.left, <<k>>, below.left),
              right |-> With(r.right, <<k>>, below.right)]
      all        == FoldLeft(Each, sorted, [k \in DOMAIN v[2] \cap DOMAIN w[2] |-> k])
  IN  IF v = Nothing \/ w = Nothing THEN Are(FALSE)
      ELSE IF v[1] # w[1] THEN Are(FALSE)
      ELSE CASE v[1] \in {"number", "string"} -> Are(v[2] = w[2])
             [] v[1] \in {"array", "object"} -> [all EXCEPT !.same = @ /\ Len(v[2]) = Len(w[2])]
             [] OTHER -> Are(TRUE)

-----------------------------------------------------------------------------
(* Patches *)

\* The two parts of a pointer at its last slash.
SplitAt(pointer) ==
  LET slashes == {k \in DOMAIN pointer : pointer[k] = SLASH}
      last    == CHOOSE k \in slashes : \A l \in slashes : k >= l
  IN  IF slashes = {} THEN [found |-> FALSE, parent |-> pointer, child |-> <<>>]
      ELSE [found |-> TRUE, parent |-> SubSeq(pointer, 1, last - 1),
            child |-> DecodeInplace(SubSeq(pointer, last + 1, Len(pointer)))]

\* detach_path: a member is found without regard to case, whatever the caller asked for.
DetachPath(v, pointer, case_sensitive) ==
  LET split  == SplitAt(pointer)
      path   == GetItem(v, split.parent, case_sensitive)
      parent == ItemAt(v, path)
      index  == DecodeIndex(split.child)
      k      == CASE parent[1] = "array"  -> IF index < Len(parent[2]) THEN index + 1 ELSE 0
                  [] parent[1] = "object" -> MemberOf(parent, split.child, FALSE)
                  [] OTHER -> 0
  IN  IF ~split.found \/ path = <<0>> \/ (path # <<0>> /\ k = 0) THEN [rest |-> v, item |-> Nothing]
      ELSE [rest |-> With(v, path, Without(parent, k)),
            item |-> ChildOf(parent, k)]

\* The last part of apply_patch: a value is put to its path.
PutTo(v, pointer, value, case_sensitive) ==
  LET split  == SplitAt(pointer)
      path   == GetItem(v, split.parent, case_sensitive)
      parent == ItemAt(v, path)
      index  == DecodeIndex(split.child)
      old    == MemberOf(parent, split.child, case_sensitive)
      others == IF old = 0 THEN parent ELSE Without(parent, old)
      Status(s)  == [value |-> v, status |-> s]
      Put(new)   == [value |-> With(v, path, new), status |-> 0]
  IN  IF path = <<0>> \/ ~split.found THEN Status(9)
      ELSE CASE parent[1] = "array" ->
                  IF split.child = DASH THEN Put(<<"array", Append(parent[2], value)>>)
                  ELSE IF index < 0 THEN Status(11)
                  ELSE IF index > Len(parent[2]) THEN Status(10)
                  ELSE Put(<<"array", InsertAt(parent[2], index + 1, value)>>)
             [] parent[1] = "object" -> Put(AddMember(others, <<split.child, value>>))
             [] OTHER -> Status(9)

\* apply_patch: a replaced item is gone before the new value is looked for, and a test sorts
\* what it compares.
ApplyPatch(v, patch, case_sensitive) ==
  LET op        == patch.op
      Has(m)    == m \in DOMAIN patch
      Status(w, s) == [value |-> w, status |-> s]
      old       == DetachPath(v, patch.path, case_sensitive)
      without   == IF op = "replace" THEN old.rest ELSE v
      source    == GetItem(v, patch.from, case_sensitive)
      moved     == DetachPath(v, patch.from, case_sensitive)
      tested    == GetItem(v, patch.path, case_sensitive)
      compared  == CompareJson(ItemAt(v, tested), patch.value, case_sensitive)
  IN  IF ~Has("path") THEN Status(v, 2)
      ELSE IF op \notin {"add", "remove", "replace", "move", "copy", "test"} THEN Status(v, 3)
      ELSE IF op = "test"
      THEN IF ~Has("value") \/ tested = <<0>> THEN Status(v, 1)
           ELSE Status(With(v, tested, compared.left), IF compared.same THEN 0 ELSE 1)
      ELSE IF patch.path = <<>> /\ op = "remove" THEN Status(<<"invalid">>, 0)
      ELSE IF patch.path = <<>> /\ op \in {"replace", "add"}
      THEN IF Has("value") THEN Status(Duplicate(patch.value), 0) ELSE Status(v, 7)
      ELSE IF op \in {"remove", "replace"} /\ old.item = Nothing THEN Status(v, 13)
      ELSE IF op = "remove" THEN Status(old.rest, 0)
      ELSE IF op \in {"move", "copy"}
      THEN IF ~Has("from") THEN Status(v, 4)
           ELSE IF op = "copy"
           THEN IF source = <<0>> THEN Status(v, 5)
                ELSE PutTo(v, patch.path, Duplicate(ItemAt(v, source)), case_sensitive)
           ELSE IF moved.item = Nothing THEN Status(v, 5)
           ELSE PutTo(moved.rest, patch.path, moved.item, case_sensitive)
      ELSE IF ~Has("value") THEN Status(without, 7)
      ELSE PutTo(without, patch.path, Duplicate(patch.value), case_sensitive)

\* cJSONUtils_ApplyPatches: up to the first that fails.
ApplyPatches(v, patches, case_sensitive) ==
  FoldLeft(LAMBDA r, patch : IF r.status = 0 THEN ApplyPatch(r.value, patch, case_sensitive) ELSE r,
           [value |-> v, status |-> 0], patches)

\* compose_patch
ComposePatch(op, path)          == <<[op |-> op, path |-> path]>>
ComposeValue(op, path, value)   == <<[op |-> op, path |-> path, value |-> Duplicate(value)]>>
Below(path, suffix)             == path \o <<SLASH>> \o EncodeAsPointer(suffix)

\* Faulty variant of Removals: goes on to the next place.
RemovalsMoveOn(path, n, many) ==
  FlattenSeq([k \in 1..many |-> ComposePatch("remove", Below(path, Decimal(n + k - 1)))])

\* What an array has too many goes from the same place again and again.
Removals(path, n, many) ==
  FlattenSeq([k \in 1..many |-> ComposePatch("remove", Below(path, Decimal(n)))])

\* create_patches: the patches so far and what is left of the values, for their objects are
\* sorted.  i and j are the members of the two that are looked at.
RECURSIVE CreatePatches(_, _, _, _)
RECURSIVE MemberPatches(_, _, _)
CreatePatches(path, from, to, case_sensitive) ==
  LET a == Children(from)
      b == Children(to)
      n == IF Len(a) < Len(b) THEN Len(a) ELSE Len(b)
      Made(patches) == [patches |-> patches, from |-> from, to |-> to]
      Each(s, k) ==
        LET below == CreatePatches(path \o PointerTo(from, k), a[k], b[k], case_sensitive)
        IN  [patches |-> s.patches \o below.patches, from |-> With(s.from, <<k>>, below.from),
             to |-> With(s.to, <<k>>, below.to)]
      both    == FoldLeft(Each, Made(<<>>), [k \in 1..n |-> k])
      members == [patches |-> <<>>, from |-> SortObject(from, case_sensitive),
                  to |-> SortObject(to, case_sensitive), i |-> 1, j |-> 1]
  IN  IF from[1] # to[1] THEN Made(ComposeValue("replace", path, to))
      ELSE CASE from[1] \in {"number", "string"} ->
                  Made(IF from[2] = to[2] THEN <<>> ELSE ComposeValue("replace", path, to))
             [] from[1] = "array" ->
                  [both EXCEPT !.patches = @ \o Removals(path, n, Len(a) - n)
                     \o FlattenSeq([k \in 1..Len(b) - n |-> ComposeValue("add", Below(path, DASH), b[n + k])])]
             [] from[1] = "object" -> MemberPatches(path, members, case_sensitive)
             [] OTHER -> Made(<<>>)

MemberPatches(path, s, case_sensitive) ==
  LET a     == s.from[2]
      b     == s.to[2]
      more  == <<s.i <= Len(a), s.j <= Len(b)>>
      diff  == CASE more = <<TRUE, TRUE>>  -> CompareStrings(a[s.i][1], b[s.j][1], case_sensitive)
                 [] more = <<TRUE, FALSE>> -> -1
                 [] OTHER -> 1
      below == CreatePatches(Below(path, a[s.i][1]), a[s.i][2], b[s.j][2], case_sensitive)
  IN  IF more = <<FALSE, FALSE>> THEN s
      ELSE MemberPatches(path,
        CASE diff = 0 -> [patches |-> s.patches \o below.patches, from |-> With(s.from, <<s.i>>, below.from),
                          to |-> With(s.to, <<s.j>>, below.to), i |-> s.i + 1, j |-> s.j + 1]
          [] diff < 0 -> [s EXCEPT !.patches = @ \o ComposePatch("remove", Below(path, a[s.i][1])),
                                   !.i = @ + 1]
          [] diff > 0 -> [s EXCEPT !.patches = @ \o ComposeValue("add", Below(path, b[s.j][1]), b[s.j][2]),
                                   !.j = @ + 1], case_sensitive)

GeneratePatches(from, to, case_sensitive) == CreatePatches(<<>>, from, to, case_sensitive)

-----------------------------------------------------------------------------
(* Merge patches *)

\* merge_patch: null takes a member away; what is not an object takes the target's place.
RECURSIVE MergePatch(_, _, _)
MergePatch(target, patch, case_sensitive) ==
  LET Take(object, m) ==
        LET k    == MemberOf(object, m[1], case_sensitive)
            old  == IF k = 0 THEN Nothing ELSE object[2][k][2]
            rest == IF k = 0 THEN object ELSE Without(object, k)
        IN  IF object = Wild THEN Wild
            ELSE IF m[2] = <<"null">> THEN rest
            ELSE AddMember(rest, <<m[1], MergePatch(old, m[2], case_sensitive)>>)
  IN  IF patch[1] # "object" THEN Duplicate(patch)
      ELSE FoldLeft(Take, IF target[1] = "object" THEN target ELSE Object(<<>>), patch[2])

\* generate_merge_patch: the order of names is strcmp's, whatever the lists are sorted by, and
\* below the root case is never regarded.  Nothing is no patch.  Both values are sorted.
RECURSIVE GenerateMergePatch(_, _, _)
RECURSIVE MergeMembers(_, _)
GenerateMergePatch(from, to, case_sensitive) ==
  LET members == MergeMembers([patch |-> Object(<<>>), from |-> SortObject(from, case_sensitive),
                               to |-> SortObject(to, case_sensitive), i |-> 1, j |-> 1], case_sensitive)
  IN  IF to[1] # "object" \/ from[1] # "object"
      THEN [patch |-> Duplicate(to), from |-> from, to |-> to]
      ELSE [members EXCEPT !.patch = IF @[2] = <<>> THEN Nothing ELSE @]

MergeMembers(s, case_sensitive) ==
  LET a     == s.from[2]
      b     == s.to[2]
      more  == <<s.i <= Len(a), s.j <= Len(b)>>
      diff  == CASE more = <<TRUE, TRUE>>  -> Order(a[s.i][1], b[s.j][1])
                 [] more = <<TRUE, FALSE>> -> -1
                 [] OTHER -> 1
      compared == CompareJson(a[s.i][2], b[s.j][2], case_sensitive)
      below    == IF compared.same
                  THEN [patch |-> Nothing, from |-> compared.left, to |-> compared.right]
                  ELSE GenerateMergePatch(compared.left, compared.right, FALSE)
  IN  IF more = <<FALSE, FALSE>> THEN s
      ELSE MergeMembers(
        CASE diff < 0 -> [s EXCEPT !.patch = AddMember(@, <<a[s.i][1], <<"null">>>>), !.i = @ + 1]
          [] diff > 0 -> [s EXCEPT !.patch = AddMember(@, <<b[s.j][1], Duplicate(b[s.j][2])>>), !.j = @ + 1]
          [] diff = 0 -> [patch |-> IF below.patch = Nothing THEN s.patch
                                    ELSE AddMember(s.patch, <<b[s.j][1], below.patch>>),
                          from |-> With(s.from, <<s.i>>, below.from),
                          to |-> With(s.to, <<s.j>>, below.to), i |-> s.i + 1, j |-> s.j + 1],
        case_sensitive)

-----------------------------------------------------------------------------

NoCall == [call |-> "none"]

Init == call = NoCall

\* The paths of what a value has in it.
RECURSIVE Paths(_)
Paths(v) == {<<>>} \cup UNION {{<<k>> \o p : p \in Paths(ChildOf(v, k))} : k \in DOMAIN Children(v)}

FindPointerTo ==
  \E v \in Roots, case_sensitive \in BOOLEAN :
    \E path \in Paths(v) :
      call' = [call |-> "find", value |-> v, path |-> path, case |-> case_sensitive]

Sort ==
  \E v \in Values \cup Roots, case_sensitive \in BOOLEAN :
    /\ v[1] = "object"
    /\ call' = [call |-> "sort", value |-> v, case |-> case_sensitive]

GenerateAndApply ==
  \E from, to \in Values, case_sensitive \in BOOLEAN :
    call' = [call |-> "patches", from |-> from, to |-> to, case |-> case_sensitive]

GenerateAndMerge ==
  \E from, to \in Values, case_sensitive \in BOOLEAN :
    call' = [call |-> "merge", from |-> from, to |-> to, case |-> case_sensitive]

PatchOnce ==
  \E op \in {"add", "remove", "replace", "move", "copy", "test", "swap"}, path, from \in Pointers,
     value \in {<<"number", 7>>, <<"array", <<>>>>}, case_sensitive, tested \in BOOLEAN, given \in Given :
    \E patch \in {[op |-> op, path |-> path], [op |-> op, path |-> path, from |-> from],
                  [op |-> op, path |-> path, value |-> value], [op |-> op, value |-> value]} :
      call' = [call |-> "patch", value |-> given, tested |-> tested, patch |-> patch,
               case |-> case_sensitive]

\* Patches are generated and applied to a copy of the value they were made for, and to the
\* value itself, which has been sorted.
Patched(from, made, case_sensitive) ==
  [made   |-> made,
   copy   |-> ApplyPatches(from, made.patches, case_sensitive),
   itself |-> ApplyPatches(made.from, made.patches, case_sensitive)]

\* The same with a merge patch.
Merged(from, made, case_sensitive) ==
  LET Into(v) == IF made.patch = Nothing THEN v ELSE MergePatch(v, made.patch, case_sensitive)
  IN  [made |-> made, copy |-> Into(from), itself |-> Into(made.from)]

\* A patch is applied, it may be after a test of the whole value that finds it as it is.
Tests(job) == IF job.tested THEN <<[op |-> "test", path |-> <<>>, value |-> job.value]>> ELSE <<>>

\* What a call gives.
Returned(job) ==
  CASE job.call = "find"    -> GetItem(job.value, FindPointer(job.value, job.path), job.case)
    [] job.call = "sort"    -> SortObject(job.value, job.case)
    [] job.call = "patches" ->
         Patched(job.from, GeneratePatches(job.from, job.to, job.case), job.case)
    [] job.call = "merge"   ->
         Merged(job.from, GenerateMergePatch(job.from, job.to, job.case), job.case)
    [] job.call = "patch"   ->
         ApplyPatches(job.value, Append(Tests(job), job.patch), job.case)

Next == call = NoCall /\ (FindPointerTo \/ Sort \/ GenerateAndApply \/ GenerateAndMerge \/ PatchOnce)

Spec == Init /\ [][Next]_call

-----------------------------------------------------------------------------
(* Properties *)

\* Two values are the same when they differ in nothing but the order of members, and in the
\* case of names where case is not regarded.
RECURSIVE Meaning(_, _)
Meaning(v, case_sensitive) ==
  CASE v[1] = "object" -> <<"object", {<<Folded(m[1], case_sensitive), Meaning(m[2], case_sensitive)>> :
                                         m \in ToSet(v[2])}>>
    [] v[1] = "array"  -> <<"array", [k \in DOMAIN v[2] |-> Meaning(v[2][k], case_sensitive)]>>
    [] OTHER -> v

\* What holds of every object in a value.
RECURSIVE Everywhere(_, _)
Everywhere(Test(_), v) ==
  /\ v[1] = "object" => Test(v[2])
  /\ \A k \in DOMAIN Children(v) : Everywhere(Test, ChildOf(v, k))

Distinct(case_sensitive, members) ==
  \A k, l \in DOMAIN members :
    Folded(members[k][1], case_sensitive) = Folded(members[l][1], case_sensitive) => k = l
\* Sorting leaves such an object alone.
InOrder(case_sensitive, members) ==
  \A k \in 1..Len(members) - 1 : CompareStrings(members[k][1], members[k + 1][1], case_sensitive) < 0
NoEscapes(members) == \A k \in DOMAIN members : ToSet(members[k][1]) \cap {SLASH, TILDE} = {}
NoCapitals(members) == \A k \in DOMAIN members : ToSet(members[k][1]) \cap 65..90 = {}
NoNulls(members) == \A k \in DOMAIN members : members[k][2] # <<"null">>

\* The pointer that cJSONUtils_FindPointerFromObjectTo makes leads cJSONUtils_GetPointer back
\* to the item, whatever slashes and tildes names have, when no name comes twice in an object.
PointerFinds(job, out) ==
  job.call = "find" /\ Everywhere(LAMBDA m : Distinct(job.case, m), job.value) => out = job.path

\* cJSONUtils_SortObject loses no member, gains none, and leaves them in order.
SortSorts(job, out) ==
  job.call = "sort" =>
    /\ Len(out[2]) = Len(job.value[2])
    /\ \A m \in ToSet(job.value[2]) :
         Cardinality({k \in DOMAIN out[2] : out[2][k] = m})
         = Cardinality({k \in DOMAIN job.value[2] : job.value[2][k] = m})
    /\ \A k \in 1..Len(out[2]) - 1 : CompareStrings(out[2][k][1], out[2][k + 1][1], job.case) <= 0

\* The patches from one value to another are all applied to a copy of the first and give the
\* other, when names have no escapes in a pointer (decode_pointer_inplace) and no two in an
\* object differ only in case (detach_path).  Applied to the value itself, which is sorted by
\* then, they do so when its objects were in order before.  Making them changes no meaning.
PatchesReach(job, out) ==
  /\ job.call = "patches"
  /\ \A v \in {job.from, job.to} : Everywhere(NoEscapes, v) /\ Everywhere(LAMBDA m : Distinct(FALSE, m), v)
  => LET Reached(r) == r.status = 0 /\ Meaning(r.value, job.case) = Meaning(job.to, job.case)
     IN  /\ Reached(out.copy)
         /\ Everywhere(LAMBDA m : InOrder(job.case, m), job.from) => Reached(out.itself)
         /\ Meaning(out.made.from, TRUE) = Meaning(job.from, TRUE)
         /\ Meaning(out.made.to, TRUE) = Meaning(job.to, TRUE)

\* A value that has nothing but what another has, but may lack members of its objects.
RECURSIVE Lacks(_, _)
Lacks(v, w) ==
  IF v[1] # "object" \/ w[1] # "object" THEN Meaning(v, TRUE) = Meaning(w, TRUE)
  ELSE \A m \in ToSet(v[2]) : \E n \in ToSet(w[2]) : m[1] = n[1] /\ Lacks(m[2], n[2])

RECURSIVE RunsWild(_)
RunsWild(v) == v = Wild \/ \E k \in DOMAIN Children(v) : RunsWild(ChildOf(v, k))

\* The merge patch from one value to another, merged into a copy of the first, gives the other,
\* and there is none for values that are the same; null cannot be reached, and capitals are
\* not in the order that generate_merge_patch takes the sorted names to be in.  Merged into
\* the value itself it does so when the objects of that were in order before; when they were
\* not, members are lost, but those there are are right, unless memory is written that was
\* freed.
MergeReaches(job, out) ==
  /\ job.call = "merge"
  /\ Everywhere(NoNulls, job.to)
  /\ \A v \in {job.from, job.to} : Everywhere(NoCapitals, v) /\ Everywhere(LAMBDA m : Distinct(TRUE, m), v)
  => /\ Meaning(out.copy, TRUE) = Meaning(job.to, TRUE)
     /\ IF Everywhere(LAMBDA m : InOrder(TRUE, m), job.from)
        THEN Meaning(out.itself, TRUE) = Meaning(job.to, TRUE)
        ELSE RunsWild(out.itself) \/ Lacks(out.itself, job.to)
     /\ out.made.patch = Nothing => Meaning(job.from, TRUE) = Meaning(job.to, TRUE)
     /\ Meaning(out.made.from, TRUE) = Meaning(job.from, TRUE)
     /\ Meaning(out.made.to, TRUE) = Meaning(job.to, TRUE)

\* RFC 6901 and 6902: the parts of a pointer, the item they lead to, and what each operation
\* gives, or Nothing.
RECURSIVE Parts(_)
Parts(pointer) ==
  LET part  == Tail(pointer)
      slash == SelectInSeq(part, LAMBDA c : c = SLASH)
  IN  IF pointer = <<>> THEN <<>>
      ELSE IF slash = 0 THEN <<part>>
      ELSE <<SubSeq(part, 1, slash - 1)>> \o Parts(SubSeq(part, slash, Len(part)))

RECURSIVE Resolve(_, _)
Resolve(v, parts) ==
  LET here == {k \in DOMAIN Children(v) : PointerTo(v, k) = <<SLASH>> \o Head(parts)}
      k    == CHOOSE l \in here : TRUE
      rest == Resolve(ChildOf(v, k), Tail(parts))
  IN  IF parts = <<>> THEN <<>>
      ELSE IF here = {} THEN <<0>> ELSE IF rest = <<0>> THEN <<0>> ELSE <<k>> \o rest

Taken(v, parts) ==
  LET path   == Resolve(v, parts)
      parent == ItemAt(v, Front(path))
  IN  IF parts = <<>> \/ path = <<0>> THEN Nothing
      ELSE With(v, Front(path), <<parent[1], RemoveAt(parent[2], Last(path))>>)

Placed(v, parts, value) ==
  LET path   == Resolve(v, Front(parts))
      parent == ItemAt(v, path)
      places == {i \in 1..Len(parent[2]) + 1 :
                   Last(parts) = Decimal(i - 1) \/ (Last(parts) = DASH /\ i = Len(parent[2]) + 1)}
      names  == {Tail(PointerTo(parent, k)) : k \in DOMAIN parent[2]}
      kept   == SelectSeq(parent[2], LAMBDA m : EncodeAsPointer(m[1]) # Last(parts))
      name   == CHOOSE n \in {Last(parts), <<TILDE>>} : EncodeAsPointer(n) = Last(parts)
  IN  IF parts = <<>> THEN value
      ELSE IF path = <<0>> THEN Nothing
      ELSE CASE parent[1] = "object" -> With(v, path, <<"object", Append(kept, <<name, value>>)>>)
             [] parent[1] = "array" /\ places # {} ->
                  With(v, path, <<"array", InsertAt(parent[2], CHOOSE i \in places : TRUE, value)>>)
             [] OTHER -> Nothing

Reference(v, patch) ==
  LET to      == Parts(patch.path)
      from    == Parts(patch.from)
      without == Taken(v, to)
      moved   == Taken(v, from)
      Has(m)  == m \in DOMAIN patch
  IN  IF ~Has("path") THEN Nothing
      ELSE CASE patch.op = "add" /\ Has("value") -> Placed(v, to, patch.value)
             [] patch.op = "remove" -> IF to = <<>> THEN <<"invalid">> ELSE without
             [] patch.op = "replace" /\ Has("value") ->
                  IF to = <<>> THEN patch.value
                  ELSE IF without = Nothing THEN Nothing ELSE Placed(without, to, patch.value)
             [] patch.op = "move" /\ Has("from") ->
                  IF moved = Nothing THEN Nothing ELSE Placed(moved, to, ItemAt(v, Resolve(v, from)))
             [] patch.op = "copy" /\ Has("from") ->
                  IF Resolve(v, from) = <<0>> THEN Nothing
                  ELSE Placed(v, to, ItemAt(v, Resolve(v, from)))
             [] patch.op = "test" /\ Has("value") ->
                  IF Resolve(v, to) = <<0>> THEN Nothing
                  ELSE IF Meaning(ItemAt(v, Resolve(v, to)), TRUE) = Meaning(patch.value, TRUE)
                  THEN v ELSE Nothing
             [] OTHER -> Nothing

\* One operation does what RFC 6902 says or gives a status, and then leaves the value as it
\* was, but for a move or a replacement that has already taken the old item away.  The whole
\* value can be given and taken away but not moved or copied to.  It does so after a test as
\* well where objects were in order, for a test sorts them.
OperationsRight(job, out) ==
  /\ job.call = "patch"
  /\ job.tested => Everywhere(LAMBDA m : InOrder(job.case, m), job.value)
  => LET patch  == job.patch
         wanted == Reference(job.value, patch)
     IN  \/ patch.op \in {"move", "copy"} /\ "path" \in DOMAIN patch /\ patch.path = <<>>
         \/ IF out.status = 0 THEN wanted # Nothing /\ Meaning(out.value, TRUE) = Meaning(wanted, TRUE)
            ELSE wanted = Nothing /\ (out.value = job.value \/ patch.op \in {"move", "replace"})

\* Pointers, patches and merge patches that were made lead to what they were made for, and
\* one operation does what RFC 6902 says (cJSON_Utils.c).
UtilsDo ==
  \A job \in {call'} : \A out \in {Returned(job)} :
    /\ PointerFinds(job, out)
    /\ SortSorts(job, out)
    /\ PatchesReach(job, out)
    /\ MergeReaches(job, out)
    /\ OperationsRight(job, out)
UtilsReach == [][UtilsDo]_call

=============================================================================
