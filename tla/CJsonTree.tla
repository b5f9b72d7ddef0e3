----------------------------- MODULE CJsonTree -----------------------------
(***************************************************************************)
(* The trees of cJSON.c as they lie in memory: items that are linked by    *)
(* next, prev and child, names and values in blocks of their own, and an   *)
(* allocator that runs out of either.  One action is one call of a client  *)
(* that keeps to the rules of cJSON.h: it adds and deletes only roots, it  *)
(* does not put a tree into itself, and what a reference still shows it    *)
(* does not delete.                                                        *)
(*                                                                         *)
(* heap is the memory, roots are the items that the client has to delete,  *)
(* lists says what it has put into each array and object, in which order,  *)
(* and leaked is what it was never given a pointer to.                     *)
(*                                                                         *)
(* A text is a number: 2 is 1 in capitals, 3 is longer.  A pointer to a    *)
(* text is a block, or below zero for a text that the program contains.    *)
(***************************************************************************)
EXTENDS Integers, Sequences, FiniteSets, SequencesExt, FiniteSetsExt

CONSTANTS Addresses,   \* where items may be, numbers from 1
          Blocks,      \* where texts may be, numbers from 1
          Names,       \* the texts that are given as names
          Values,      \* the texts that are given as values
          MaxCalls     \* bounds the calls of a behaviour

VARIABLES heap, roots, lists, leaked, calls

vars == <<heap, roots, lists, leaked, calls>>

NULL == 0

Fold(text)   == IF text = 2 THEN 1 ELSE text
Strlen(text) == IF text = 3 THEN 2 ELSE 1

Blank == [type |-> "null", ref |-> FALSE, const |-> FALSE, next |-> NULL, prev |-> NULL,
          child |-> NULL, string |-> NULL, valuestring |-> NULL]

\* heap.fault: something was used or freed that was not allocated, or written behind its end.
Fault(h) == [h EXCEPT !.fault = TRUE]

Put(h, x, f, v) == IF x \in h.live THEN [h EXCEPT !.item[x] = [@ EXCEPT ![f] = v]] ELSE Fault(h)

Text(h, p) == IF p < 0 THEN -p ELSE h.block[p].text

Result(h, x) == [heap |-> h, ptr |-> x]

\* cJSON_New_Item: a cleared item, or NULL.
NewItem(h) ==
  IF Addresses \subseteq h.live THEN Result(h, NULL)
  ELSE LET x == Min(Addresses \ h.live) IN Result([h EXCEPT !.live = @ \cup {x}], x)

\* cJSON_strdup: a copy of a text, or NULL.
Strdup(h, text) ==
  LET free == {b \in Blocks : h.block[b].size = 0} IN
  IF free = {} THEN Result(h, NULL)
  ELSE Result([h EXCEPT !.block[Min(free)] = [text |-> text, size |-> Strlen(text)]], Min(free))

FreeBlock(h, p) ==
  IF p = NULL THEN h
  ELSE IF p < 0 \/ h.block[p].size = 0 THEN Fault(h)
  ELSE [h EXCEPT !.block[p] = [text |-> 0, size |-> 0]]

FreeItem(h, x) == [h EXCEPT !.live = @ \ {x}, !.item[x] = Blank]

\* cJSON_Delete: an item, what is below it and what follows it.
RECURSIVE Delete(_, _)
Delete(h, x) ==
  IF x = NULL THEN h
  ELSE IF x \notin h.live THEN Fault(h)
  ELSE LET i      == h.item[x]
           below  == IF i.ref THEN h ELSE FreeBlock(Delete(h, i.child), i.valuestring)
           naming == IF i.const THEN below ELSE FreeBlock(below, i.string)
       IN  Delete(FreeItem(naming, x), i.next)

-----------------------------------------------------------------------------
(* Looking up *)

RECURSIVE Chain(_, _, _)
Chain(h, x, n) == IF x = NULL \/ n = 0 THEN <<>> ELSE <<x>> \o Chain(h, h.item[x].next, n - 1)

\* The items that a walk along next meets; a list is never longer than the memory.
Walk(h, a) == Chain(h, h.item[a].child, Cardinality(Addresses) + 1)

\* get_array_item
ArrayItem(h, a, which) == IF which < Len(Walk(h, a)) THEN Walk(h, a)[which + 1] ELSE NULL

\* get_object_item: the first item of that name; with regard to case, a nameless item ends
\* the search.
ObjectItem(h, o, name, case_sensitive) ==
  LET walk     == Walk(h, o)
      NoName(x) == h.item[x].string = NULL
      Stops(x) == IF NoName(x) THEN case_sensitive
                  ELSE LET t == Text(h, h.item[x].string)
                       IN  t = name \/ (~case_sensitive /\ Fold(t) = Fold(name))
      at       == SelectInSeq(walk, Stops)
  IN  IF at = 0 \/ (at # 0 /\ NoName(walk[at])) THEN NULL ELSE walk[at]

\* Faulty variant of Compare: a part of an object is equal to it.
RECURSIVE CompareOneWay(_, _, _, _)
CompareOneWay(h, x, y, case_sensitive) ==
  LET a == h.item[x] IN
  /\ a.type = h.item[y].type
  /\ CASE a.type = "null" -> TRUE
       [] a.type = "string" -> Text(h, a.valuestring) = Text(h, h.item[y].valuestring)
       [] a.type = "array" ->
            /\ Len(Walk(h, x)) = Len(Walk(h, y))
            /\ \A k \in DOMAIN Walk(h, x) :
                 CompareOneWay(h, Walk(h, x)[k], Walk(h, y)[k], case_sensitive)
       [] a.type = "object" ->
            \A e \in ToSet(Walk(h, x)) :
              LET other == ObjectItem(h, y, Text(h, h.item[e].string), case_sensitive)
              IN  other # NULL /\ CompareOneWay(h, e, other, case_sensitive)

\* cJSON_Compare
RECURSIVE Compare(_, _, _, _)
Compare(h, x, y, case_sensitive) ==
  LET a == h.item[x]
      b == h.item[y]
      Found(from, in) ==
        \A e \in ToSet(Walk(h, from)) :
          LET other == IF h.item[e].string = NULL THEN NULL
                       ELSE ObjectItem(h, in, Text(h, h.item[e].string), case_sensitive)
          IN  other # NULL /\ Compare(h, e, other, case_sensitive)
  IN  /\ a.type = b.type
      /\ \/ x = y
         \/ a.type = "null"
         \/ /\ a.type = "string"
            /\ a.valuestring # NULL /\ b.valuestring # NULL
            /\ Text(h, a.valuestring) = Text(h, b.valuestring)
         \/ /\ a.type = "array"
            /\ Len(Walk(h, x)) = Len(Walk(h, y))
            /\ \A k \in DOMAIN Walk(h, x) :
                 Compare(h, Walk(h, x)[k], Walk(h, y)[k], case_sensitive)
         \/ a.type = "object" /\ Found(x, y) /\ Found(y, x)

-----------------------------------------------------------------------------
(* Building *)

\* suffix_object
SuffixObject(h, prev, x) == Put(Put(h, prev, "next", x), x, "prev", prev)

\* add_item_to_array: a head without a prev is not added to, and nobody is told.
AddToArray(h, a, x) ==
  LET child == h.item[a].child IN
  IF x = NULL \/ a = NULL \/ a = x THEN [heap |-> h, ok |-> FALSE]
  ELSE [heap |-> IF child = NULL
                 THEN Put(Put(Put(h, a, "child", x), x, "prev", x), x, "next", NULL)
                 ELSE IF h.item[child].prev = NULL THEN h
                 ELSE Put(SuffixObject(h, h.item[child].prev, x), child, "prev", x),
        ok   |-> TRUE]

\* add_item_to_object: the item gets its name, and the name it had is freed.
AddToObject(h, o, name, x, constant_key) ==
  LET key   == IF constant_key THEN Result(h, -name) ELSE Strdup(h, name)
      freed == IF h.item[x].const THEN key.heap ELSE FreeBlock(key.heap, h.item[x].string)
  IN  IF o = NULL \/ x = NULL \/ o = x \/ (x # NULL /\ key.ptr = NULL)
      THEN [heap |-> h, ok |-> FALSE]
      ELSE AddToArray(Put(Put(freed, x, "string", key.ptr), x, "const", constant_key), o, x)

\* create_reference: a copy of the item itself, which shares what is below it.
CreateReference(h, x) ==
  LET new == NewItem(h) IN
  IF new.ptr = NULL THEN new
  ELSE Result([new.heap EXCEPT !.item[new.ptr] =
                 [h.item[x] EXCEPT !.string = NULL, !.ref = TRUE, !.next = NULL, !.prev = NULL]],
              new.ptr)

\* cJSON_CreateNull ... cJSON_CreateObject: an item of a type, a string with its text.
CreateItem(h, type, text) ==
  LET new  == NewItem(h)
      kind == Put(new.heap, new.ptr, "type", type)
      copy == Strdup(kind, text)
  IN  IF new.ptr = NULL THEN new
      ELSE IF type # "string" THEN Result(kind, new.ptr)
      ELSE IF copy.ptr = NULL THEN Result(Delete(kind, new.ptr), NULL)
      ELSE Result(Put(copy.heap, new.ptr, "valuestring", copy.ptr), new.ptr)

\* cJSON_CreateIntArray ... cJSON_CreateStringArray: an array of strings, or of items of a
\* type without text, whose list is only closed at the end.
RECURSIVE FillArray(_, _, _, _, _)
FillArray(h, a, p, type, texts) ==
  LET n == CreateItem(h, type, Head(texts)) IN
  IF texts = <<>>
  THEN Result(IF p = NULL THEN h ELSE Put(h, h.item[a].child, "prev", p), a)
  ELSE IF n.ptr = NULL THEN Result(Delete(n.heap, a), NULL)
  ELSE FillArray(IF p = NULL THEN Put(n.heap, a, "child", n.ptr)
                 ELSE SuffixObject(n.heap, p, n.ptr), a, n.ptr, type, Tail(texts))

CreateArrayOf(h, type, texts) ==
  LET a == CreateItem(h, "array", 0) IN
  IF a.ptr = NULL THEN a ELSE FillArray(a.heap, a.ptr, NULL, type, texts)

\* cJSON_Duplicate: a copy that owns everything but constant names; half a copy is deleted.
RECURSIVE Duplicate(_, _, _)
RECURSIVE DuplicateChildren(_, _, _, _)
Duplicate(h, x, recurse) ==
  LET i     == h.item[x]
      new   == NewItem(h)
      typed == [new.heap EXCEPT !.item[new.ptr] =
                  [Blank EXCEPT !.type = i.type, !.const = i.const]]
      value == IF i.valuestring = NULL THEN Result(typed, NULL)
               ELSE Strdup(typed, Text(h, i.valuestring))
      part  == Put(value.heap, new.ptr, "valuestring", value.ptr)
      name  == IF i.string = NULL \/ i.const THEN Result(part, i.string)
               ELSE Strdup(part, Text(h, i.string))
      whole == Put(name.heap, new.ptr, "string", name.ptr)
  IN  IF new.ptr = NULL THEN new
      ELSE IF i.valuestring # NULL /\ value.ptr = NULL THEN Result(Delete(part, new.ptr), NULL)
      ELSE IF i.string # NULL /\ name.ptr = NULL THEN Result(Delete(whole, new.ptr), NULL)
      ELSE IF ~recurse THEN Result(whole, new.ptr)
      ELSE DuplicateChildren(whole, new.ptr, NULL, i.child)

DuplicateChildren(h, new, last, child) ==
  LET copy == Duplicate(h, child, TRUE) IN
  IF child = NULL
  THEN Result(IF last = NULL THEN h ELSE Put(h, h.item[new].child, "prev", last), new)
  ELSE IF copy.ptr = NULL THEN Result(Delete(copy.heap, new), NULL)
  ELSE DuplicateChildren(IF last = NULL THEN Put(copy.heap, new, "child", copy.ptr)
                         ELSE SuffixObject(copy.heap, last, copy.ptr),
                         new, copy.ptr, h.item[child].next)

-----------------------------------------------------------------------------
(* Taking apart *)

\* Faulty variant of DetachViaPointer: the head does not learn of a new end.
DetachKeepsEnd(h, parent, x) ==
  LET i      == h.item[x]
      before == IF x # h.item[parent].child THEN Put(h, i.prev, "next", i.next) ELSE h
      behind == IF i.next # NULL THEN Put(before, i.next, "prev", i.prev) ELSE before
      ends   == IF x = h.item[parent].child THEN Put(behind, parent, "child", i.next) ELSE behind
  IN  Put(Put(ends, x, "prev", NULL), x, "next", NULL)

\* cJSON_DetachItemViaPointer
DetachViaPointer(h, parent, x) ==
  LET i      == h.item[x]
      first  == h.item[parent].child
      before == IF x # first THEN Put(h, i.prev, "next", i.next) ELSE h
      behind == IF i.next # NULL THEN Put(before, i.next, "prev", i.prev) ELSE before
      ends   == IF x = first THEN Put(behind, parent, "child", i.next)
                ELSE IF i.next = NULL THEN Put(behind, first, "prev", i.prev)
                ELSE behind
  IN  Put(Put(ends, x, "prev", NULL), x, "next", NULL)

\* cJSON_InsertItemInArray
InsertInArray(h, a, which, x) ==
  LET after == ArrayItem(h, a, which)
      first == h.item[a].child
      prev  == h.item[after].prev
      in    == Put(Put(Put(h, x, "next", after), x, "prev", prev), after, "prev", x)
  IN  IF after = NULL THEN AddToArray(h, a, x)
      ELSE IF after # first /\ prev = NULL THEN [heap |-> h, ok |-> FALSE]
      ELSE [heap |-> IF after = first THEN Put(in, a, "child", x) ELSE Put(in, prev, "next", x),
            ok   |-> TRUE]

\* cJSON_ReplaceItemViaPointer: the replacement takes the item's place, the item is deleted.
ReplaceViaPointer(h, parent, x, new) ==
  LET i      == h.item[x]
      first  == h.item[parent].child
      linked == Put(Put(h, new, "next", i.next), new, "prev", i.prev)
      behind == IF i.next # NULL THEN Put(linked, i.next, "prev", new) ELSE linked
      alone  == IF behind.item[first].prev = first THEN Put(behind, new, "prev", new) ELSE behind
      before == IF i.prev # NULL THEN Put(behind, i.prev, "next", new) ELSE behind
      placed == IF first = x THEN Put(alone, parent, "child", new)
                ELSE IF i.next = NULL THEN Put(before, first, "prev", new)
                ELSE before
  IN  Delete(Put(Put(placed, x, "next", NULL), x, "prev", NULL), x)

ReplaceOrRefuse(h, parent, x, new) ==
  IF x = NULL \/ h.item[parent].child = NULL THEN [heap |-> h, ok |-> FALSE]
  ELSE [heap |-> ReplaceViaPointer(h, parent, x, new), ok |-> TRUE]

\* replace_item_in_object: the replacement is renamed before the item is looked up.
ReplaceInObject(h, o, name, new, case_sensitive) ==
  LET i     == h.item[new]
      freed == IF i.const THEN h ELSE FreeBlock(h, i.string)
      key   == Strdup(freed, name)
      named == Put(key.heap, new, "string", key.ptr)
  IN  IF key.ptr = NULL THEN [heap |-> named, ok |-> FALSE]
      ELSE LET ready == Put(named, new, "const", FALSE)
           IN  ReplaceOrRefuse(ready, o, ObjectItem(ready, o, name, case_sensitive), new)

\* cJSON_SetValuestring: in place when the text fits, else in a new block.
SetValuestring(h, x, text) ==
  LET p    == h.item[x].valuestring
      copy == Strdup(h, text)
  IN  IF h.item[x].type # "string" \/ h.item[x].ref \/ p = NULL THEN h
      ELSE IF Strlen(text) <= Strlen(Text(h, p))
      THEN IF Strlen(text) > h.block[p].size THEN Fault(h)
           ELSE [h EXCEPT !.block[p] = [@ EXCEPT !.text = text]]
      ELSE IF copy.ptr = NULL THEN h
      ELSE Put(FreeBlock(copy.heap, p), x, "valuestring", copy.ptr)

-----------------------------------------------------------------------------
(* The client *)

Containers == {a \in heap.live : heap.item[a].type \in {"array", "object"} /\ ~heap.item[a].ref}
Arrays     == {a \in Containers : heap.item[a].type = "array"}
Objects    == Containers \ Arrays

\* An item and what is below it.
RECURSIVE Tree(_, _)
Tree(h, x) == {x} \cup (IF h.item[x].ref THEN {}
                       ELSE UNION {Tree(h, c) : c \in ToSet(Walk(h, x))})

\* No reference outside a set of items shows one of them or its text.
Unseen(gone) ==
  \A r \in heap.live \ gone :
     heap.item[r].ref =>
       /\ heap.item[r].child \notin gone
       /\ \A x \in gone : heap.item[r].valuestring # NULL
                           => heap.item[r].valuestring # heap.item[x].valuestring

\* No reference below an item leads back to it.
RECURSIVE Shallow(_, _, _)
Shallow(h, x, n) == n > 0 /\ \A c \in ToSet(Walk(h, x)) : Shallow(h, c, n - 1)
Finite(h, x) == Shallow(h, x, Cardinality(Addresses))

Empty == [live  |-> {}, item |-> [x \in Addresses |-> Blank],
          block |-> [b \in Blocks |-> [text |-> 0, size |-> 0]], fault |-> FALSE]

\* An object with two members, made as AddNewToObject makes it.
Start ==
  LET o == CreateItem(Empty, "object", 0)
      a == CreateItem(o.heap, "string", 1)
      b == CreateItem(AddToObject(a.heap, o.ptr, 1, a.ptr, FALSE).heap, "string", 3)
  IN  [heap |-> AddToObject(b.heap, o.ptr, 3, b.ptr, FALSE).heap, object |-> o.ptr]

Init ==
  /\ heap = Start.heap
  /\ roots = {Start.object}
  /\ lists = [a \in Addresses |-> Walk(heap, a)]
  /\ leaked = {}
  /\ calls = 0

\* The memory after a call, which gave the client new roots and forgot what is not live.
Becomes(h, owned, content) ==
  /\ calls' = calls + 1
  /\ heap' = h
  /\ roots' = owned \ {NULL}
  /\ lists' = [a \in Addresses |-> IF a \in h.live THEN content[a] ELSE <<>>]

Put1(a, s) == [lists EXCEPT ![a] = s]

Create ==
  /\ \/ \E type \in {"null", "array", "object"} :
           LET r == CreateItem(heap, type, 0) IN Becomes(r.heap, roots \cup {r.ptr}, lists)
     \/ \E text \in Values :
           LET r == CreateItem(heap, "string", text) IN Becomes(r.heap, roots \cup {r.ptr}, lists)
  /\ UNCHANGED leaked

CreateArray ==
  /\ \E n \in 0..3, text \in Values :
       LET r == CreateArrayOf(heap, "string", [k \in 1..n |-> text])
       IN  Becomes(r.heap, roots \cup {r.ptr},
                   IF r.ptr = NULL THEN lists ELSE Put1(r.ptr, Walk(r.heap, r.ptr)))
  /\ UNCHANGED leaked

\* The client has put x into a, at a place, if the call says so.
Placed(r, a, x, content) ==
  IF r.ok THEN Becomes(r.heap, roots \ {x}, Put1(a, content))
  ELSE Becomes(r.heap, roots, lists)

AddItemToArray(a, x) ==
  /\ a \in Arrays /\ x \in roots /\ a \notin Tree(heap, x) \ {x}
  /\ Placed(AddToArray(heap, a, x), a, x, Append(lists[a], x))
  /\ UNCHANGED leaked

AddItemToObject(o, x) ==
  /\ o \in Objects /\ x \in roots /\ o \notin Tree(heap, x) \ {x}
  /\ \E name \in Names, constant \in BOOLEAN :
       Placed(AddToObject(heap, o, name, x, constant), o, x, Append(lists[o], x))
  /\ UNCHANGED leaked

\* cJSON_AddStringToObject and the others of its kind: what is not added is deleted.
AddNewToObject(o) ==
  /\ o \in Objects
  /\ \E name \in Names, text \in Values :
       LET new == CreateItem(heap, "string", text)
           r   == AddToObject(new.heap, o, name, new.ptr, FALSE)
       IN  IF r.ok THEN Becomes(r.heap, roots, Put1(o, Append(lists[o], new.ptr)))
           ELSE Becomes(Delete(r.heap, new.ptr), roots, lists)
  /\ UNCHANGED leaked

AddReferenceToArray(a, x) ==
  /\ a \in Arrays /\ x \in heap.live /\ a \notin Tree(heap, x)
  /\ LET new == CreateReference(heap, x)
     IN  Placed(AddToArray(new.heap, a, new.ptr), a, new.ptr, Append(lists[a], new.ptr))
  /\ UNCHANGED leaked

\* A reference that gets no name is kept by nobody.
AddReferenceToObject(o, x) ==
  /\ o \in Objects /\ x \in heap.live /\ o \notin Tree(heap, x)
  /\ \E name \in Names :
       LET new == CreateReference(heap, x)
           r   == AddToObject(new.heap, o, name, new.ptr, FALSE)
       IN  /\ Placed(r, o, new.ptr, Append(lists[o], new.ptr))
           /\ leaked' = IF r.ok THEN leaked ELSE leaked \cup ({new.ptr} \ {NULL})

\* What an index or a name finds, given back to the client ...
Detach(a) ==
  /\ a \in Containers
  /\ \E x \in (IF a \in Arrays THEN {ArrayItem(heap, a, which) : which \in 0..Len(lists[a])}
               ELSE {ObjectItem(heap, a, name, case) : name \in Names, case \in BOOLEAN}) :
       IF x = NULL THEN Becomes(heap, roots, lists)
       ELSE Becomes(DetachViaPointer(heap, a, x), roots \cup {x}, Put1(a, Remove(lists[a], x)))
  /\ UNCHANGED leaked

\* ... or deleted.
DeleteFrom(a) ==
  /\ a \in Containers
  /\ \E x \in ToSet(lists[a]) :
       /\ x \in (IF a \in Arrays THEN {ArrayItem(heap, a, which) : which \in 0..Len(lists[a])}
                 ELSE {ObjectItem(heap, a, name, case) : name \in Names, case \in BOOLEAN})
       /\ Unseen(Tree(heap, x))
       /\ Becomes(Delete(DetachViaPointer(heap, a, x), x), roots, Put1(a, Remove(lists[a], x)))
  /\ UNCHANGED leaked

InsertItemInArray(a, x) ==
  /\ a \in Arrays /\ x \in roots /\ a \notin Tree(heap, x)
  /\ \E which \in 0..Len(lists[a]) :
       Placed(InsertInArray(heap, a, which, x), a, x, InsertAt(lists[a], which + 1, x))
  /\ UNCHANGED leaked

ReplaceItemInArray(a, x) ==
  /\ a \in Arrays /\ x \in roots /\ a \notin Tree(heap, x)
  /\ \E which \in 0..Len(lists[a]) :
       LET old == ArrayItem(heap, a, which) IN
       /\ old # NULL => Unseen(Tree(heap, old))
       /\ Placed(ReplaceOrRefuse(heap, a, old, x), a, x, ReplaceAll(lists[a], old, x))
  /\ UNCHANGED leaked

ReplaceItemInObject(o, x) ==
  /\ o \in Objects /\ x \in roots /\ o \notin Tree(heap, x)
  /\ \E name \in Names, case_sensitive \in BOOLEAN :
       LET old == ObjectItem(heap, o, name, case_sensitive) IN
       /\ old # NULL => Unseen(Tree(heap, old))
       /\ Placed(ReplaceInObject(heap, o, name, x, case_sensitive), o, x,
                 ReplaceAll(lists[o], old, x))
  /\ UNCHANGED leaked

\* The copy of a tree is a root; its lists are those of the tree.
DuplicateItem(x) ==
  /\ x \in heap.live /\ Finite(heap, x)
  /\ \E recurse \in BOOLEAN :
       LET r == Duplicate(heap, x, recurse) IN
       Becomes(r.heap, roots \cup {r.ptr},
               [a \in Addresses |-> IF a \in r.heap.live \ heap.live THEN Walk(r.heap, a)
                                   ELSE lists[a]])
  /\ UNCHANGED leaked

SetText(x) ==
  /\ x \in heap.live
  /\ \E text \in Values :
       /\ Strlen(text) > 1 => Unseen({x})
       /\ Becomes(SetValuestring(heap, x, text), roots, lists)
  /\ UNCHANGED leaked

DeleteRoot(x) ==
  /\ x \in roots /\ Unseen(Tree(heap, x))
  /\ Becomes(Delete(heap, x), roots \ {x}, lists)
  /\ UNCHANGED leaked

Next ==
  /\ calls < MaxCalls
  /\ \/ Create \/ CreateArray
     \/ \E a \in heap.live : AddNewToObject(a) \/ Detach(a) \/ DeleteFrom(a)
                           \/ DuplicateItem(a) \/ SetText(a) \/ DeleteRoot(a)
     \/ \E a, x \in heap.live : \/ AddItemToArray(a, x) \/ AddItemToObject(a, x)
                              \/ AddReferenceToArray(a, x) \/ AddReferenceToObject(a, x)
                              \/ InsertItemInArray(a, x)
                              \/ ReplaceItemInArray(a, x) \/ ReplaceItemInObject(a, x)

Spec == Init /\ [][Next]_vars

-----------------------------------------------------------------------------
(* Properties *)

\* Each list is what the client has put there, in both directions, and the head knows the
\* end: the pointers that add, detach, insert, replace and duplicate move agree.
ListsAsGiven ==
  \A a \in Containers :
    LET w == Walk(heap, a) IN
    /\ w = lists[a]
    /\ \A k \in DOMAIN w : heap.item[w[k]].prev = w[IF k = 1 THEN Len(w) ELSE k - 1]

\* Nothing is freed twice, used after it was freed or written behind its end, and no live
\* item points to what is free, whatever a failed allocation left half done.
MemorySafe ==
  /\ ~heap.fault
  /\ \A x \in heap.live :
       LET i == heap.item[x] IN
       /\ {i.next, i.prev, i.child} \subseteq heap.live \cup {NULL}
       /\ \A p \in {i.string, i.valuestring} : p > 0 => heap.block[p].size > 0

\* What is live the client can delete through its roots, and each text has one owner: only
\* a reference that got no name is lost.
OnlyReferencesLeak ==
  LET owned == UNION {Tree(heap, x) : x \in roots} \cup leaked
      Owners(b) == {x \in heap.live :
                      \/ heap.item[x].string = b /\ ~heap.item[x].const
                      \/ heap.item[x].valuestring = b /\ ~heap.item[x].ref}
  IN  /\ owned = heap.live
      /\ \A b \in Blocks : Cardinality(Owners(b)) = IF heap.block[b].size > 0 THEN 1 ELSE 0

\* What a tree says: arrays in their order, objects as sets of named values.
RECURSIVE Meaning(_, _, _)
Meaning(h, x, case_sensitive) ==
  LET i == h.item[x]
      w == Walk(h, x)
      NameOf(c) == LET t == Text(h, h.item[c].string) IN IF case_sensitive THEN t ELSE Fold(t)
  IN  CASE i.type = "null"   -> <<"null">>
        [] i.type = "string" -> <<"string", Text(h, i.valuestring)>>
        [] i.type = "array"  -> <<"array", [k \in DOMAIN w |-> Meaning(h, w[k], case_sensitive)]>>
        [] i.type = "object" -> <<"object", {<<NameOf(c), Meaning(h, c, case_sensitive)>> :
                                             c \in ToSet(w)}>>

\* Every member of an object has a name, and if asked for one of its own.
RECURSIVE Named(_, _, _)
Named(h, x, own) ==
  LET w == ToSet(Walk(h, x))
      NameOf(c) == Fold(Text(h, h.item[c].string))
  IN  /\ h.item[x].type = "object" =>
           /\ \A c \in w : h.item[c].string # NULL
           /\ own => \A c, d \in w : NameOf(c) = NameOf(d) => c = d
      /\ \A c \in w : Named(h, c, own)

Comparable(h, x) == Finite(h, x) /\ Named(h, x, TRUE)

\* cJSON_Compare answers whether two trees say the same, in either order of their members,
\* as long as no object has a name twice.
CompareIsMeaning ==
  LET several == {x \in heap.live : heap.item[x].child # NULL /\ Comparable(heap, x)} IN
  \A x, y \in several, case_sensitive \in BOOLEAN :
    heap.item[x].type = heap.item[y].type
    => Compare(heap, x, y, case_sensitive)
         = (Meaning(heap, x, case_sensitive) = Meaning(heap, y, case_sensitive))

\* A copy says what its original says and shares nothing with it, references included; a
\* copy that runs out of memory leaves the memory as it was.
CopiesAreWhole ==
  \A x \in heap.live :
    Finite(heap, x) /\ Named(heap, x, FALSE) =>
      LET r == Duplicate(heap, x, TRUE) IN
      IF r.ptr = NULL THEN r.heap = heap
      ELSE /\ Meaning(r.heap, r.ptr, TRUE) = Meaning(heap, x, TRUE)
           /\ Tree(r.heap, r.ptr) \cap heap.live = {}

\* Whatever call is made, and whichever allocation in it fails, the lists are what the client
\* has made of them, memory is used as it may be, and can be given back (cJSON.c).
TreesWhole ==
  /\ ListsAsGiven
  /\ MemorySafe
  /\ OnlyReferencesLeak

\* Trees that were built, taken apart and copied in any order are compared by what they
\* say, and copied with all they say (cJSON_Compare, cJSON_Duplicate).
TreesMean ==
  /\ CompareIsMeaning
  /\ CopiesAreWhole

=============================================================================
