-------------------------------- MODULE LuaGC --------------------------------
(***************************************************************************)
(* The garbage collector of the Lua interpreter that runs the scripts      *)
(* (lgc.c), with what the interpreter does between two of its steps:       *)
(* objects are created, stored in tables that may be weak, in upvalues and *)
(* in coroutines, given finalizers, forgotten, and strings are found again *)
(* in the string table (lstring.c, lfunc.c).                               *)
(* A table has one entry, a userdata one value, a coroutine one stack slot,*)
(* a closure one upvalue.  Metatables are reachable and not modelled; the  *)
(* weak mode of a table is that of its first metatable.  Sizes, debts and  *)
(* the pace of the collector are left out: it may step at any time.        *)
(***************************************************************************)
EXTENDS Integers, Sequences, SequencesExt

CONSTANTS
  Tables, Strings, Userdata, Coroutines, Closures,
  Main,        \* the main thread
  Registry,    \* a table
  Nil,         \* no value
  Plain,       \* a value that is no object
  Modes,       \* the weak modes that tables may get: sets of "k" and "v"
  SweepMax,    \* GCSWEEPMAX
  MaxCycles,   \* bound: collections that are started
  MaxOps       \* bound: steps of the program

Threads == Coroutines \union {Main}
Objects == Tables \union Strings \union Userdata \union Threads \union Closures

LuaGCAssumption ==
  /\ Registry \in Tables
  /\ Modes \subseteq SUBSET {"k", "v"}
  /\ SweepMax \in Nat \ {0} /\ MaxCycles \in Nat /\ MaxOps \in Nat

VARIABLES
  g,       \* global_State, and the fields of all objects
  stack,   \* the objects on the stack of the main thread
  full,    \* how far luaC_fullgc has got
  cycles,  \* collections started
  ops,     \* steps of the program
  called   \* ghost: objects whose finalizer was called since they were given it

vars == <<g, stack, full, cycles, ops, called>>

Fresh == "fresh"   \* not created yet
Freed == "freed"

KeepInvariant(h) == h.gcstate \in {"propagate", "atomic"}
Sweeping(h) == h.gcstate \in {"swpallgc", "swpfinobj", "swptobefnz", "swpend"}

White(h, o)  == h.color[o] \in {"white0", "white1"}
OtherWhite(h) == IF h.currentwhite = "white0" THEN "white1" ELSE "white0"
Dead(h, o)   == h.color[o] = OtherWhite(h)
Exists(h, o) == h.color[o] \notin {Fresh, Freed}
IsWhite(h, v) == v \in Objects /\ White(h, v)

\* The bit is set while an object is on one of these lists.
ToFinalize(h, o) == o \in ToSet(h.finobj) \union ToSet(h.tobefnz)

Paint(h, o, c) == [h EXCEPT !.color[o] = c]

\* What an upvalue is worth: a slot of a coroutine while it is open.
UpValue(h, c) == IF h.open[c] = Nil THEN h.val[c] ELSE h.val[h.open[c]]

\* They stay on the thread's list when their closure is freed.
OpenUpvals(h, t) == {c \in Closures : h.open[c] = t}

-----------------------------------------------------------------------------
(***************************************************************************)
(* Mark functions.                                                         *)
(***************************************************************************)

\* reallymarkobject, for what is white.
RECURSIVE MarkValue(_, _)
MarkValue(h, v) ==
  IF ~IsWhite(h, v) THEN h
  ELSE IF v \in Strings THEN Paint(h, v, "black")
  ELSE IF v \in Userdata THEN MarkValue(Paint(h, v, "black"), h.val[v])
  ELSE [Paint(h, v, "gray") EXCEPT !.gray = @ \union {v}]

MarkAll(h, S) == FoldSet(LAMBDA v, r : MarkValue(r, v), h, S)

MarkBeingFnz(h) == MarkAll(h, ToSet(h.tobefnz))

RestartCollection(h) ==
  LET none == [h EXCEPT !.gray = {}, !.grayagain = {}, !.weak = {}, !.allweak = {},
                        !.ephemeron = {}]
  IN MarkBeingFnz(MarkAll(none, {Main, Registry}))

\* Threads that were not marked leave the list, and the values of their open upvalues
\* are marked if a closure that has one was.
RemarkUpvals(h) ==
  LET gone == {t \in h.twups : ~(h.color[t] = "gray" /\ OpenUpvals(h, t) # {})}
      uvs == {c \in UNION {OpenUpvals(h, t) : t \in gone} : h.touched[c]}
      marked == MarkAll(h, {UpValue(h, c) : c \in uvs})
  IN [marked EXCEPT !.twups = @ \ gone,
                    !.touched = [c \in Closures |-> @[c] /\ c \notin uvs]]

-----------------------------------------------------------------------------
(***************************************************************************)
(* Traverse functions.                                                     *)
(***************************************************************************)

\* A key without a value is not marked, and is forgotten if it may be freed.
RemoveEntry(h, t) == IF IsWhite(h, h.key[t]) THEN [h EXCEPT !.key[t] = Plain] ELSE h

\* Strings are values: they are never taken from a weak table.
MarkIfString(h, v) == IF v \in Strings THEN MarkValue(h, v) ELSE h
Cleared(h, v) == v \notin Strings /\ IsWhite(h, v)

Propagating(h) == h.gcstate = "propagate"

TraverseWeakValue(h, t) ==
  LET m == IF h.val[t] = Nil THEN RemoveEntry(h, t)
           ELSE MarkIfString(MarkValue(h, h.key[t]), h.val[t])
  IN IF Propagating(m) THEN [m EXCEPT !.grayagain = @ \union {t}]
     ELSE IF Cleared(m, m.val[t]) THEN [m EXCEPT !.weak = @ \union {t}]
     ELSE m

TraverseEphemeron(h, t) ==
  LET k == MarkIfString(h, h.key[t])
      m == IF h.val[t] = Nil THEN RemoveEntry(h, t)
           ELSE IF Cleared(k, k.key[t]) THEN k
           ELSE MarkValue(k, k.val[t])
      hasclears == m.val[t] # Nil /\ Cleared(m, m.key[t])
  IN IF Propagating(m) THEN [m EXCEPT !.grayagain = @ \union {t}]
     ELSE IF hasclears /\ IsWhite(m, m.val[t]) THEN [m EXCEPT !.ephemeron = @ \union {t}]
     ELSE IF hasclears THEN [m EXCEPT !.allweak = @ \union {t}]
     ELSE m

\* The traversal has marked the value.
EphemeronMarks(h, t) ==
  h.val[t] # Nil /\ IsWhite(h, h.val[t]) /\ ~Cleared(h, h.key[t])

TraverseStrongTable(h, t) ==
  IF h.val[t] = Nil THEN RemoveEntry(h, t)
  ELSE MarkValue(MarkValue(h, h.key[t]), h.val[t])

TraverseTable(h, t) ==
  LET gray == Paint(h, t, "gray")
  IN CASE h.mode[t] = {}         -> TraverseStrongTable(h, t)
       [] h.mode[t] = {"v"}      -> TraverseWeakValue(gray, t)
       [] h.mode[t] = {"k"}      -> TraverseEphemeron(gray, t)
       [] h.mode[t] = {"k", "v"} -> [gray EXCEPT !.allweak = @ \union {t}]

\* The value of an open upvalue is marked with its thread, or when that turns out dead.
TraverseClosure(h, c) ==
  IF h.open[c] # Nil /\ h.gcstate # "insideatomic"
  THEN [h EXCEPT !.touched[c] = TRUE]
  ELSE MarkValue(h, UpValue(h, c))

\* Threads stay gray.
TraverseThread(h, t) ==
  LET again == [Paint(h, t, "gray") EXCEPT !.grayagain = @ \union {t}]
      m == IF t = Main THEN MarkAll(again, stack) ELSE MarkValue(again, h.val[t])
  IN IF h.gcstate = "insideatomic" /\ OpenUpvals(h, t) # {}
     THEN [m EXCEPT !.twups = @ \union {t}] ELSE m

PropagateMark(h, o) ==
  LET m == [Paint(h, o, "black") EXCEPT !.gray = @ \ {o}]
  IN CASE o \in Tables   -> TraverseTable(m, o)
       [] o \in Closures -> TraverseClosure(m, o)
       [] OTHER          -> TraverseThread(m, o)

RECURSIVE PropagateAll(_)
PropagateAll(h) ==
  IF h.gray = {} THEN h
  ELSE PropagateAll(PropagateMark(h, CHOOSE o \in h.gray : TRUE))

\* One round over the list: tables may return to it.
ConvergeOnce(h) ==
  FoldSet(LAMBDA t, r : [g |-> IF EphemeronMarks(r.g, t)
                               THEN PropagateAll(TraverseEphemeron(r.g, t))
                               ELSE TraverseEphemeron(r.g, t),
                         changed |-> r.changed \/ EphemeronMarks(r.g, t)],
          [g |-> [h EXCEPT !.ephemeron = {}], changed |-> FALSE], h.ephemeron)

RECURSIVE ConvergeEphemerons(_)
UntilUnchanged(r)     == IF r.changed THEN ConvergeEphemerons(r.g) ELSE r.g
ConvergeEphemerons(h) == UntilUnchanged(ConvergeOnce(h))

-----------------------------------------------------------------------------
(***************************************************************************)
(* The atomic phase.                                                       *)
(***************************************************************************)

\* The value goes, and the key if it is white.
Clear(h, t) == RemoveEntry([h EXCEPT !.val[t] = Nil], t)

ClearKey(h, t) ==
  LET m == IF h.val[t] = Nil THEN h ELSE MarkIfString(h, h.key[t])
  IN IF m.val[t] # Nil /\ Cleared(m, m.key[t]) THEN Clear(m, t) ELSE m

ClearValue(h, t) ==
  LET m == MarkIfString(h, h.val[t])
  IN IF Cleared(m, m.val[t]) THEN Clear(m, t) ELSE m

ClearKeys(h, S)   == FoldSet(LAMBDA t, r : ClearKey(r, t), h, S)
ClearValues(h, S) == FoldSet(LAMBDA t, r : ClearValue(r, t), h, S)

\* Faulty variant of SeparateToBeFnz: what is gray is taken too.
SeparateNotBlack(h, all) ==
  LET Taken(o) == all \/ h.color[o] # "black"
  IN [h EXCEPT !.finobj = SelectSeq(@, LAMBDA o : ~Taken(o)),
               !.tobefnz = @ \o SelectSeq(h.finobj, Taken)]

\* What is not marked and has a finalizer moves to the end of the other list.
SeparateToBeFnz(h, all) ==
  LET Taken(o) == all \/ White(h, o)
  IN [h EXCEPT !.finobj = SelectSeq(@, LAMBDA o : ~Taken(o)),
               !.tobefnz = @ \o SelectSeq(h.finobj, Taken)]

MarkRoots(h) ==
  LET roots == MarkAll([h EXCEPT !.gcstate = "insideatomic"], {Main, Registry})
      marked == PropagateAll(RemarkUpvals([roots EXCEPT !.grayagain = {}]))
  IN ConvergeEphemerons(PropagateAll([marked EXCEPT !.gray = h.grayagain]))

\* Values in weak tables go before objects are brought back for their finalizers, keys after.
Separate(h)     == SeparateToBeFnz(ClearValues(h, h.weak \union h.allweak), FALSE)
BringBack(h)    == ConvergeEphemerons(PropagateAll(MarkBeingFnz(h)))
ClearAllKeys(h) == ClearKeys(h, h.ephemeron \union h.allweak)
\* Of the tables that have become known as weak since strong.
ClearLateValues(h, strong) ==
  ClearValues(h, (h.weak \ strong.weak) \union (h.allweak \ strong.allweak))
ClearWeak(strong) ==
  ClearLateValues(ClearAllKeys(BringBack(Separate(strong))), strong)

FlipWhite(h) ==
  [h EXCEPT !.currentwhite = OtherWhite(h),
            !.strcache = IF IsWhite(h, @) THEN Nil ELSE @]

Atomic(h) == FlipWhite(ClearWeak(MarkRoots(h)))

-----------------------------------------------------------------------------
(***************************************************************************)
(* Sweeping.  sweepgc is the place behind an element of a list (0 is its   *)
(* head), from where the list is still to be swept.                        *)
(***************************************************************************)

NoSweep == [list |-> "none", at |-> 0]

\* luaF_close on a thread: the upvalues that are used take their value with them.
CloseUpvals(h, t) ==
  [h EXCEPT !.val = [o \in Objects |-> IF o \in OpenUpvals(h, t) THEN h.val[t] ELSE @[o]],
            !.open = [c \in Closures |-> IF @[c] = t THEN Nil ELSE @[c]]]

FreeObj(h, o) ==
  LET m == IF o \in Coroutines THEN CloseUpvals(h, o) ELSE h
  IN [m EXCEPT !.color[o] = Freed, !.key[o] = Plain, !.val[o] = Nil]

\* One element: freed if it is dead, else white again.
SweepOne(h, p) ==
  LET curr == h[p.list][p.at + 1]
  IN IF Dead(h, curr)
     THEN [g |-> [FreeObj(h, curr) EXCEPT ![p.list] = RemoveAt(@, p.at + 1)], p |-> p]
     ELSE [g |-> Paint(h, curr, h.currentwhite), p |-> [p EXCEPT !.at = @ + 1]]

RECURSIVE SweepList(_, _, _)
SweepList(h, p, count) ==
  IF p.at = Len(h[p.list]) THEN [h EXCEPT !.sweepgc = NoSweep]
  ELSE IF count = 0 THEN [h EXCEPT !.sweepgc = p]
  ELSE LET r == SweepOne(h, p) IN SweepList(r.g, r.p, count - 1)

\* Up to a live object, so that the place is behind another one.
RECURSIVE SweepToLive(_, _)
SweepToLive(h, p) ==
  LET m == SweepList(h, p, 1) IN IF m.sweepgc = p THEN SweepToLive(m, p) ELSE m

EnterSweep(h) ==
  SweepList([h EXCEPT !.gcstate = "swpallgc"], [list |-> "allgc", at |-> 0], 1)

SweepStep(h, nextstate, nextlist) ==
  LET m == IF h.sweepgc = NoSweep THEN h ELSE SweepList(h, h.sweepgc, SweepMax)
  IN IF m.sweepgc # NoSweep THEN m
     ELSE [m EXCEPT !.gcstate = nextstate, !.sweepgc = [list |-> nextlist, at |-> 0]]

\* An element comes to the front of a list, or an element leaves it: a place keeps the
\* element it is behind.
PutFirst(h, list, o) ==
  [h EXCEPT ![list] = <<o>> \o @,
            !.sweepgc.at = IF h.sweepgc.list = list /\ @ > 0 THEN @ + 1 ELSE @]

TakeOut(h, list, n) ==
  [h EXCEPT ![list] = RemoveAt(@, n),
            !.sweepgc.at = IF h.sweepgc.list = list /\ @ >= n THEN @ - 1 ELSE @]

-----------------------------------------------------------------------------
(***************************************************************************)
(* The collector's steps.  luaC_fullgc takes them without a pause, up to   *)
(* one state after the other.                                              *)
(***************************************************************************)

Collect(h) ==
  /\ g' = h
  /\ full' = CASE full = "finish" /\ h.gcstate = "pause"   -> "start"
               [] full = "start"  /\ h.gcstate # "pause"   -> "run"
               [] full = "run"    /\ h.gcstate = "callfin" -> "end"
               [] full = "end"    /\ h.gcstate = "pause"   -> "no"
               [] OTHER -> full

Restart ==
  /\ g.gcstate = "pause"
  /\ cycles < MaxCycles
  /\ cycles' = cycles + 1
  /\ Collect([RestartCollection(g) EXCEPT !.gcstate = "propagate"])
  /\ UNCHANGED <<stack, ops, called>>

Propagate ==
  /\ g.gcstate = "propagate"
  /\ \E o \in g.gray :
        LET m == PropagateMark(g, o)
        IN Collect([m EXCEPT !.gcstate = IF m.gray = {} THEN "atomic" ELSE @])
  /\ UNCHANGED <<stack, cycles, ops, called>>

AtomicStep ==
  /\ g.gcstate = "atomic"
  /\ Collect(EnterSweep(Atomic(PropagateAll(g))))
  /\ UNCHANGED <<stack, cycles, ops, called>>

Sweep ==
  /\ \/ g.gcstate = "swpallgc"    /\ Collect(SweepStep(g, "swpfinobj", "finobj"))
     \/ g.gcstate = "swpfinobj"   /\ Collect(SweepStep(g, "swptobefnz", "tobefnz"))
     \/ g.gcstate = "swptobefnz"  /\ Collect(SweepStep(g, "swpend", "none"))
     \/ g.gcstate = "swpend"      /\ Collect([Paint(g, Main, g.currentwhite)
                                               EXCEPT !.gcstate = "callfin"])
  /\ UNCHANGED <<stack, cycles, ops, called>>

EndCycle ==
  /\ g.gcstate = "callfin"
  /\ g.tobefnz = <<>> \/ g.gckind = "emergency"
  /\ Collect([g EXCEPT !.gcstate = "pause",
                       !.gckind = IF full = "end" THEN "normal" ELSE @])
  /\ UNCHANGED <<stack, cycles, ops, called>>

\* udata2finalize: the object is a usual one again.  A place behind it goes with it.
UdataToFinalize(h) ==
  LET o == Head(h.tobefnz)
      moved == PutFirst([h EXCEPT !.tobefnz = Tail(@)], "allgc", o)
      swept == IF Sweeping(h) THEN Paint(moved, o, h.currentwhite) ELSE moved
  IN IF h.sweepgc.list # "tobefnz" \/ h.sweepgc.at = 0 THEN swept
     ELSE IF h.sweepgc.at = 1 THEN [swept EXCEPT !.sweepgc = [list |-> "allgc", at |-> 1]]
     ELSE [swept EXCEPT !.sweepgc.at = @ - 1]

\* GCTM, from callfin or at the end of a step of any other state: the finalizer has the
\* object on its stack, and may keep it.
RunFinalizer ==
  /\ g.tobefnz # <<>>
  /\ full = "no" \/ (full = "end" /\ g.gckind = "normal")
  /\ g' = UdataToFinalize(g)
  /\ stack' = stack \union {Head(g.tobefnz)}
  /\ called' = called \union {Head(g.tobefnz)}
  /\ UNCHANGED <<full, cycles, ops>>

\* Black objects are turned white without freeing any, before the collection starts.
FullGC(kind) ==
  /\ full = "no"
  /\ cycles < MaxCycles
  /\ LET m == IF KeepInvariant(g) THEN EnterSweep(g) ELSE g
     IN /\ g' = [m EXCEPT !.gckind = kind]
        /\ full' = IF m.gcstate = "pause" THEN "start" ELSE "finish"
  /\ UNCHANGED <<stack, cycles, ops, called>>

-----------------------------------------------------------------------------
(***************************************************************************)
(* Between two steps.                                                      *)
(***************************************************************************)

Black(h, o) == h.color[o] = "black"

\* Forward: the white object is marked, or the black one is swept.
Barrier(h, o, v) ==
  IF ~(Black(h, o) /\ IsWhite(h, v)) THEN h
  ELSE IF KeepInvariant(h) THEN MarkValue(h, v)
  ELSE Paint(h, o, h.currentwhite)

\* Faulty variant of BarrierBack: the table stays black.
BarrierBackNone(h, t, v) == h

\* Backward: the table is traversed again.
BarrierBack(h, t, v) ==
  IF Black(h, t) /\ IsWhite(h, v)
  THEN [Paint(h, t, "gray") EXCEPT !.grayagain = @ \union {t}]
  ELSE h

UpvalBarrier(h, c) ==
  IF KeepInvariant(h) /\ h.open[c] = Nil THEN MarkValue(h, h.val[c]) ELSE h

\* luaC_newobj
NewObj(h, o) == PutFirst(Paint(h, o, h.currentwhite), "allgc", o)

Mutator == full = "no" /\ ops < MaxOps /\ ops' = ops + 1 /\ UNCHANGED <<full, cycles>>

Create(o) ==
  /\ Mutator
  /\ o \notin Strings
  /\ g.color[o] = Fresh
  /\ \E mode \in (IF o \in Tables THEN Modes ELSE {{}}) :
        \E t \in (IF o \in Closures THEN {Nil} \union (Coroutines \intersect stack)
                  ELSE {Nil}) :
           \* A closure's upvalue is closed and new, or a slot of a coroutine.
           g' = [NewObj(g, o) EXCEPT
                  !.mode = IF o \in Tables THEN [@ EXCEPT ![o] = mode] ELSE @,
                  !.open = IF o \in Closures THEN [@ EXCEPT ![o] = t] ELSE @,
                  !.touched = IF t # Nil THEN [@ EXCEPT ![o] = TRUE] ELSE @,
                  !.twups = IF t # Nil THEN @ \union {t} ELSE @]
  /\ stack' = stack \union {o}
  /\ UNCHANGED called

\* luaS_new: from the cache, or from the string table, where it may be dead and not yet
\* swept, or new.
PushString(s) ==
  /\ Mutator
  /\ g' = IF g.strcache = s THEN g
          ELSE IF Dead(g, s) THEN [Paint(g, s, g.currentwhite) EXCEPT !.strcache = s]
          ELSE IF Exists(g, s) THEN [g EXCEPT !.strcache = s]
          ELSE [NewObj(g, s) EXCEPT !.strcache = s]
  /\ stack' = stack \union {s}
  /\ UNCHANGED called

Pop(o) ==
  /\ Mutator
  /\ o \in stack
  /\ stack' = stack \ {o}
  /\ UNCHANGED <<g, called>>

\* What an object that the program has leads to.
Inside(o) ==
  {v \in IF o \in Tables THEN (IF g.val[o] = Nil THEN {} ELSE {g.key[o], g.val[o]})
         ELSE IF o \in Closures THEN {UpValue(g, o)}
         ELSE {g.val[o]} : v \in Objects}

Load(o) ==
  /\ Mutator
  /\ o \in stack \union {Registry}
  /\ Inside(o) # {}
  /\ stack' = stack \union Inside(o)
  /\ UNCHANGED <<g, called>>

\* luaV_settable: a new key where there is no value, or a new value.
SetTable(t, k, v) ==
  /\ Mutator
  /\ t \in (stack \intersect Tables) \union {Registry}
  /\ k \in stack \union {Plain} /\ v \in stack \union {Nil}
  /\ g.val[t] = Nil \/ g.key[t] = k
  /\ t = Registry => k = Plain
  /\ <<k, v>> # <<g.key[t], g.val[t]>>
  /\ g' = BarrierBack(BarrierBack([g EXCEPT !.key[t] = k, !.val[t] = v], t, k), t, v)
  /\ UNCHANGED <<stack, called>>

\* lua_setuservalue
SetUserValue(u, v) ==
  /\ Mutator
  /\ u \in stack
  /\ v \in stack \union {Nil}
  /\ v # g.val[u]
  /\ g' = Barrier([g EXCEPT !.val[u] = v], u, v)
  /\ UNCHANGED <<stack, called>>

\* OP_SETUPVAL: to the slot, or to the closure's own place.
SetUpval(c, v) ==
  /\ Mutator
  /\ c \in stack
  /\ v \in stack \union {Nil}
  /\ v # UpValue(g, c)
  /\ g' = UpvalBarrier([g EXCEPT !.val[IF g.open[c] = Nil THEN c ELSE g.open[c]] = v], c)
  /\ UNCHANGED <<stack, called>>

\* A coroutine runs up to where it yields with another value in its slot: threads have no
\* barriers.
SetSlot(t, v) ==
  /\ Mutator
  /\ t \in stack
  /\ v \in stack \union {Nil}
  /\ v # g.val[t]
  /\ g' = [g EXCEPT !.val[t] = v]
  /\ UNCHANGED <<stack, called>>

\* Or up to its end, and its upvalues are closed.
Return(t) ==
  /\ Mutator
  /\ t \in stack
  /\ g.val[t] # Nil
  /\ g' = FoldSet(LAMBDA c, r : UpvalBarrier(r, c), [CloseUpvals(g, t) EXCEPT !.val[t] = Nil],
                  OpenUpvals(g, t))
  /\ UNCHANGED <<stack, called>>

\* luaC_checkfinalizer, when an object gets a metatable that has one.
SetFinalizer(o) ==
  /\ Mutator
  /\ o \in stack \ {Registry}
  /\ ~ToFinalize(g, o)
  /\ LET n == CHOOSE k \in DOMAIN g.allgc : g.allgc[k] = o
         place == [list |-> "allgc", at |-> n]
         white == IF Sweeping(g) THEN Paint(g, o, g.currentwhite) ELSE g
         moved == IF Sweeping(g) /\ g.sweepgc = place THEN SweepToLive(white, place)
                  ELSE white
     IN g' = PutFirst(TakeOut(moved, "allgc", n), "finobj", o)
  /\ called' = called \ {o}
  /\ UNCHANGED stack

-----------------------------------------------------------------------------

CollectorStep == Restart \/ Propagate \/ AtomicStep \/ Sweep \/ EndCycle

Program ==
  \/ \E o \in Objects : Create(o) \/ Pop(o) \/ Load(o)
  \/ \E s \in Strings : PushString(s)
  \/ \E v \in Objects \union {Nil} :
       \/ \E t \in Tables, k \in Objects \union {Plain} : SetTable(t, k, v)
       \/ \E u \in Userdata : SetUserValue(u, v)
       \/ \E c \in Closures : SetUpval(c, v)
       \/ \E t \in Coroutines : SetSlot(t, v)
  \/ \E t \in Coroutines : Return(t)
  \/ \E o \in Tables \union Userdata : SetFinalizer(o)

Next ==
  \/ CollectorStep
  \/ RunFinalizer
  \/ \E kind \in {"normal", "emergency"} : FullGC(kind)
  \/ Program

Init ==
  /\ g = [gcstate |-> "pause", gckind |-> "normal", currentwhite |-> "white0",
          allgc |-> <<Registry>>, finobj |-> <<>>, tobefnz |-> <<>>, sweepgc |-> NoSweep,
          gray |-> {}, grayagain |-> {}, weak |-> {}, allweak |-> {}, ephemeron |-> {},
          twups |-> {}, strcache |-> Nil,
          color |-> [o \in Objects |-> IF o \in {Main, Registry} THEN "white0" ELSE Fresh],
          mode |-> [t \in Tables |-> {}],
          key |-> [o \in Objects |-> Plain],
          val |-> [o \in Objects |-> Nil],
          open |-> [c \in Closures |-> Nil],
          touched |-> [c \in Closures |-> FALSE]]
  /\ stack = {}
  /\ full = "no"
  /\ cycles = 0
  /\ ops = 0
  /\ called = {}

Spec == Init /\ [][Next]_vars

-----------------------------------------------------------------------------
(***************************************************************************)
(* Properties.                                                             *)
(***************************************************************************)

\* What an object keeps alive by itself, and what a table of weak keys keeps alive with
\* its key.  Strings are values, and are kept by weak tables too.
Keeps(o, alive) ==
  {v \in IF o \in Tables
         THEN IF g.val[o] = Nil THEN {}
              ELSE (IF "k" \in g.mode[o] /\ g.key[o] \notin Strings THEN {} ELSE {g.key[o]})
                   \union
                   (IF \/ "v" \notin g.mode[o]
                         /\ ("k" \in g.mode[o] => g.key[o] \in alive \union Strings \union {Plain})
                       \/ g.val[o] \in Strings /\ g.key[o] \in alive \union {Plain}
                    THEN {g.val[o]} ELSE {})
         ELSE IF o \in Closures THEN {UpValue(g, o)}
         ELSE IF o \in Strings \union {Main} THEN {}
         ELSE {g.val[o]} : v \in Objects}

RECURSIVE Closure(_)
Closure(S) ==
  LET T == S \union UNION {Keeps(o, S) : o \in S} IN IF T = S THEN S ELSE Closure(T)

\* What the program can come to, its finalizers included.
Reachable == Closure(stack \union {Main, Registry} \union ToSet(g.tobefnz))

\* Nothing that the program can come to is freed, whatever it did between the steps of
\* the collector; a weak table holds nothing that was freed, nor does an upvalue.
NothingLost ==
  /\ \A o \in Reachable : Exists(g, o)
  /\ \A t \in Reachable \intersect Tables : g.val[t] # Nil =>
       \A v \in {g.key[t], g.val[t]} \intersect Objects : Exists(g, v)

\* While it marks, nothing black leads to anything white: what is black need not be looked
\* at again, but for what may have lost its value since.
NoBlackToWhite ==
  KeepInvariant(g) =>
    \A o \in Objects : Black(g, o) =>
      IF o \in Closures THEN g.open[o] = Nil => ~IsWhite(g, g.val[o])
      ELSE /\ ~IsWhite(g, g.val[o])
           /\ g.val[o] # Nil => ~IsWhite(g, g.key[o])

\* The link of an object is for one list: it is on one of those that are swept, and on at
\* most one of those of gray objects.
OneList ==
  /\ \A o \in Objects \ {Main} :
       Cardinality({n \in DOMAIN g.allgc : g.allgc[n] = o})
         + Cardinality({n \in DOMAIN g.finobj : g.finobj[n] = o})
         + Cardinality({n \in DOMAIN g.tobefnz : g.tobefnz[n] = o})
       = IF Exists(g, o) THEN 1 ELSE 0
  /\ KeepInvariant(g) =>
       \A o \in Objects :
         LET on == {l \in {"gray", "grayagain", "weak", "allweak", "ephemeron"} : o \in g[l]}
         IN Cardinality(on) = IF g.color[o] = "gray" THEN 1 ELSE 0

\* A collection finds everything white, and of the current white, though objects changed
\* lists while they were swept.
AllWhiteAgain ==
  g.gcstate = "pause" => \A o \in Objects : Exists(g, o) => g.color[o] = g.currentwhite

\* A finalizer is called, and an entry taken from a weak table, only for what the program
\* could not come to any more; a finalizer only once.
OnlyGarbage ==
  /\ \A o \in ToSet(g.finobj) \intersect ToSet(g'.tobefnz) : o \notin Reachable
  /\ CollectorStep => \A t \in Reachable \intersect Tables :
       g.val[t] # Nil /\ g'.val[t] = Nil => ~({g.key[t], g.val[t]} \subseteq Reachable \union {Plain})
  /\ RunFinalizer => Head(g.tobefnz) \notin called

GarbageOnly == [][OnlyGarbage]_vars

\* No object had a finalizer, and no upvalue was open in a coroutine that is gone: a new
\* one keeps its value for one more collection.
NothingSpared ==
  /\ called = {} /\ g.finobj = <<>> /\ g.tobefnz = <<>>
  /\ \A c \in Closures : g.open[c] = Nil
  /\ \A t \in Coroutines : g.color[t] # Freed

\* When a full collection ends, all that there is, is what the program can come to.
LeavesNoGarbage ==
  full = "end" /\ full' = "no" /\ NothingSpared =>
    \A o \in Objects : Exists(g, o) => o \in Reachable

FullCollects == [][LeavesNoGarbage]_vars

\* The collector frees nothing that is used, whatever the program does between its steps,
\* and keeps what it needs for the next cycle to be as safe (lgc.c).
CollectorSafe ==
  /\ NothingLost
  /\ OneList
  /\ NoBlackToWhite
  /\ AllWhiteAgain

=============================================================================
