------------------------------ MODULE LuaMatch ------------------------------
(***************************************************************************)
(* lstrlib.c: patterns of Lua.  Texts and patterns are sequences of        *)
(* character codes, positions count from one, and both end in a zero that  *)
(* the code reads.  ms is the MatchState that the calls of match share:    *)
(* its captures, which a call that fails has to leave as it found them,    *)
(* and its matchdepth.  What a call gives is a record [s, ms, error]: the  *)
(* end of what matched or NULL, the MatchState, and the message of         *)
(* luaL_error or "".                                                       *)
(*                                                                         *)
(* A behaviour is one call of find or match, or of gmatch to its end and   *)
(* of gsub; Returned is what the code gives for it.                        *)
(***************************************************************************)
EXTENDS Integers, Sequences, FiniteSets, TLC, SequencesExt

CONSTANTS Sources,      \* the texts that are searched
          Patterns,     \* the patterns, as sequences of tokens <<text, meaning>>
          MAXCCALLS     \* how deep match may call itself

VARIABLE call   \* what is asked for

NULL == 0
CAP_UNFINISHED == -1
CAP_POSITION   == -2
ESC   == 37
OPEN  == 40
CLOSE == 41
STAR  == 42
PLUS  == 43
MINUS == 45
DOT   == 46
ASK   == 63
LEFT  == 91
RIGHT == 93
CARET == 94
DOLLAR == 36
DIGITS  == 48..57
SPECIALS == {CARET, DOLLAR, STAR, PLUS, ASK, DOT, OPEN, LEFT, ESC, MINUS}

End(text)   == Len(text) + 1
At(text, k) == IF k = End(text) THEN 0 ELSE text[k]

Ended(ms, s)   == [s |-> s, ms |-> ms, error |-> ""]
Failed(ms)     == Ended(ms, NULL)
Raised(ms, e)  == [s |-> NULL, ms |-> ms, error |-> e]
Tried(r)       == r.s # NULL \/ r.error # ""

-----------------------------------------------------------------------------
(* Classes and sets.                                                       *)

Lower(c) == IF c \in 65..90 THEN c + 32 ELSE c
Letters  == (65..90) \cup (97..122)
ClassOf(letter) ==
  CASE letter = 97  -> Letters
    [] letter = 99  -> (0..31) \cup {127}
    [] letter = 100 -> DIGITS
    [] letter = 103 -> 33..126
    [] letter = 108 -> 97..122
    [] letter = 112 -> (33..126) \ (Letters \cup DIGITS)
    [] letter = 115 -> (9..13) \cup {32}
    [] letter = 117 -> 65..90
    [] letter = 119 -> Letters \cup DIGITS
    [] letter = 120 -> DIGITS \cup (65..70) \cup (97..102)
    [] letter = 122 -> {0}
    [] OTHER        -> {}
ClassLetters == {97, 99, 100, 103, 108, 112, 115, 117, 119, 120, 122}

MatchClass(c, cl) ==
  IF Lower(cl) \notin ClassLetters THEN cl = c
  ELSE (c \in ClassOf(Lower(cl))) = (cl = Lower(cl))

\* classend: the place behind the class or set at p, or NULL with a message.
RECURSIVE SetEnd(_, _)
SetEnd(pat, p) ==
  LET next == IF At(pat, p) = ESC /\ p + 1 < End(pat) THEN p + 2 ELSE p + 1
  IN  IF p = End(pat) THEN NULL
      ELSE IF At(pat, next) = RIGHT THEN next + 1 ELSE SetEnd(pat, next)

ClassEnd(pat, p) ==
  CASE pat[p] = ESC  -> IF p + 1 = End(pat) THEN NULL ELSE p + 2
    [] pat[p] = LEFT -> SetEnd(pat, IF At(pat, p + 1) = CARET THEN p + 2 ELSE p + 1)
    [] OTHER         -> p + 1

RECURSIVE InSet(_, _, _, _)
InSet(c, pat, p, ec) ==
  /\ p < ec
  /\ IF pat[p] = ESC THEN MatchClass(c, pat[p + 1]) \/ InSet(c, pat, p + 2, ec)
     ELSE IF pat[p + 1] = MINUS /\ p + 2 < ec
     THEN c \in pat[p]..pat[p + 2] \/ InSet(c, pat, p + 3, ec)
     ELSE pat[p] = c \/ InSet(c, pat, p + 1, ec)

MatchBracketClass(c, pat, p, ec) ==
  IF pat[p + 1] = CARET THEN ~InSet(c, pat, p + 2, ec) ELSE InSet(c, pat, p + 1, ec)

SingleMatch(q, s, p, ep) ==
  /\ s < End(q.src)
  /\ LET c == q.src[s] IN
     CASE q.pat[p] = DOT  -> TRUE
       [] q.pat[p] = ESC  -> MatchClass(c, q.pat[p + 1])
       [] q.pat[p] = LEFT -> MatchBracketClass(c, q.pat, p, ep - 1)
       [] OTHER           -> q.pat[p] = c

-----------------------------------------------------------------------------
(* Balances and captures.                                                  *)

\* matchbalance: the loop that counts, from s with cont open.
RECURSIVE Balance(_, _, _, _, _)
Balance(src, s, b, e, cont) ==
  IF s >= End(src) THEN NULL
  ELSE IF src[s] = e THEN IF cont = 1 THEN s + 1 ELSE Balance(src, s + 1, b, e, cont - 1)
  ELSE Balance(src, s + 1, b, e, IF src[s] = b THEN cont + 1 ELSE cont)

MatchBalance(q, ms, s, p) ==
  IF p >= End(q.pat) - 1 THEN Raised(ms, "missing arguments")
  ELSE Ended(ms, IF At(q.src, s) # q.pat[p] THEN NULL
                 ELSE Balance(q.src, s + 1, q.pat[p], q.pat[p + 1], 1))

Level(ms)   == Len(ms.capture)
Unfinished(ms) == {l \in 1..Level(ms) : ms.capture[l].len = CAP_UNFINISHED}

Captured(q, c) == SubSeq(q.src, c.init, c.init + c.len - 1)

\* The length of a position capture is, taken as a size, more than any text has.
MatchCapture(q, ms, s, digit) ==
  LET l == digit - 48
      c == ms.capture[l]
  IN  IF l \notin 1..Level(ms) \/ l \in Unfinished(ms) THEN Raised(ms, "invalid capture index")
      ELSE Ended(ms, IF /\ c.len # CAP_POSITION
                        /\ End(q.src) - s >= c.len
                        /\ SubSeq(q.src, s, s + c.len - 1) = Captured(q, c)
                     THEN s + c.len ELSE NULL)

RECURSIVE Match(_, _, _, _), DoMatch(_, _, _, _), Longest(_, _, _, _, _), Shortest(_, _, _, _, _)

MaxCaptures == 32

StartCapture(q, ms, s, p, what) ==
  LET r == Match(q, [ms EXCEPT !.capture = Append(@, [init |-> s, len |-> what])], s, p)
  IN  IF Level(ms) >= MaxCaptures THEN Raised(ms, "too many captures")
      ELSE IF Tried(r) THEN r ELSE [r EXCEPT !.ms.capture = Front(@)]

\* Faulty variant of EndCapture: the end of the capture stays when the rest does not match.
EndCaptureStays(q, ms, s, p) ==
  LET l == CHOOSE k \in Unfinished(ms) : \A j \in Unfinished(ms) : j <= k
  IN  IF Unfinished(ms) = {} THEN Raised(ms, "invalid pattern capture")
      ELSE Match(q, [ms EXCEPT !.capture[l].len = s - ms.capture[l].init], s, p)

EndCapture(q, ms, s, p) ==
  LET l == CHOOSE k \in Unfinished(ms) : \A j \in Unfinished(ms) : j <= k
      r == Match(q, [ms EXCEPT !.capture[l].len = s - ms.capture[l].init], s, p)
  IN  IF Unfinished(ms) = {} THEN Raised(ms, "invalid pattern capture")
      ELSE IF Tried(r) THEN r ELSE [r EXCEPT !.ms.capture[l].len = CAP_UNFINISHED]

-----------------------------------------------------------------------------
(* match.                                                                  *)

\* max_expand: the repetitions are counted first and then given back one by one.
Longest(q, ms, s, i, p) ==
  LET r == Match(q, ms, s + i, p)
  IN  IF Tried(r) \/ i = 0 THEN r ELSE Longest(q, r.ms, s, i - 1, p)

MaxExpand(q, ms, s, p, ep) ==
  LET i == CHOOSE n \in 0..Len(q.src) :
             /\ ~SingleMatch(q, s + n, p, ep)
             /\ \A k \in 0..(n - 1) : SingleMatch(q, s + k, p, ep)
  IN  Longest(q, ms, s, i, ep + 1)

\* min_expand.
Shortest(q, ms, s, p, ep) ==
  LET r == Match(q, ms, s, ep + 1)
  IN  IF Tried(r) THEN r
      ELSE IF SingleMatch(q, s, p, ep) THEN Shortest(q, r.ms, s + 1, p, ep) ELSE r

Optional(q, ms, s, p, ep) ==
  LET r == Match(q, ms, s + 1, ep + 1)
  IN  IF Tried(r) THEN r ELSE DoMatch(q, r.ms, s, ep + 1)

\* dflt: a class with what follows it.
Default(q, ms, s, p) ==
  LET ep     == ClassEnd(q.pat, p)
      suffix == At(q.pat, ep)
  IN  IF ep = NULL THEN Raised(ms, "malformed pattern")
      ELSE IF ~SingleMatch(q, s, p, ep)
      THEN IF suffix \in {STAR, ASK, MINUS} THEN DoMatch(q, ms, s, ep + 1) ELSE Failed(ms)
      ELSE CASE suffix = ASK   -> Optional(q, ms, s, p, ep)
             [] suffix = PLUS  -> MaxExpand(q, ms, s + 1, p, ep)
             [] suffix = STAR  -> MaxExpand(q, ms, s, p, ep)
             [] suffix = MINUS -> Shortest(q, ms, s, p, ep)
             [] OTHER          -> DoMatch(q, ms, s + 1, ep)

\* %f: q.src[0] is taken to be zero, and so is what is behind the text.
Frontier(q, ms, s, p) ==
  LET ep       == ClassEnd(q.pat, p)
      previous == IF s = 1 THEN 0 ELSE q.src[s - 1]
  IN  IF At(q.pat, p) # LEFT THEN Raised(ms, "missing [")
      ELSE IF ep = NULL THEN Raised(ms, "malformed pattern")
      ELSE IF /\ ~MatchBracketClass(previous, q.pat, p, ep - 1)
              /\ MatchBracketClass(At(q.src, s), q.pat, p, ep - 1)
      THEN DoMatch(q, ms, s, ep) ELSE Failed(ms)

After(q, r, p) == IF r.s = NULL THEN r ELSE DoMatch(q, r.ms, r.s, p)

\* The loop at init: and the goto's that come back to it.
DoMatch(q, ms, s, p) ==
  LET c    == At(q.pat, p)
      next == q.pat[p + 1]
      more == p + 1 < End(q.pat)
  IN  CASE p = End(q.pat) -> Ended(ms, s)
        [] c = OPEN  -> IF more /\ next = CLOSE THEN StartCapture(q, ms, s, p + 2, CAP_POSITION)
                        ELSE StartCapture(q, ms, s, p + 1, CAP_UNFINISHED)
        [] c = CLOSE -> EndCapture(q, ms, s, p + 1)
        [] c = DOLLAR /\ ~more -> IF s = End(q.src) THEN Ended(ms, s) ELSE Failed(ms)
        [] c = ESC /\ more /\ next = 98 -> After(q, MatchBalance(q, ms, s, p + 2), p + 4)
        [] c = ESC /\ more /\ next = 102 -> Frontier(q, ms, s, p + 2)
        [] c = ESC /\ more /\ next \in DIGITS -> After(q, MatchCapture(q, ms, s, next), p + 2)
        [] OTHER -> Default(q, ms, s, p)

\* A message leaves matchdepth as it is.
Match(q, ms, s, p) ==
  LET r == DoMatch(q, [ms EXCEPT !.depth = @ - 1], s, p)
  IN  IF ms.depth = 0 THEN Raised(ms, "pattern too complex")
      ELSE IF r.error # "" THEN r ELSE [r EXCEPT !.ms.depth = @ + 1]

-----------------------------------------------------------------------------
(* find, match, gmatch and gsub.                                           *)

PrepState(ms) == [ms EXCEPT !.capture = <<>>]   \* reprepstate
NewState == [capture |-> <<>>, depth |-> MAXCCALLS]

\* push_captures: a position, a text, or the whole match where there are no captures; where
\* a text of one capture is, it stands for itself.
PushOne(q, ms, l, s, e) ==
  IF l > Level(ms) THEN IF l = 1 THEN SubSeq(q.src, s, e - 1) ELSE <<"invalid capture index">>
  ELSE CASE l \in Unfinished(ms) -> <<"unfinished capture">>
         [] ms.capture[l].len = CAP_POSITION -> ms.capture[l].init
         [] OTHER -> Captured(q, ms.capture[l])

PushCaptures(q, ms, whole, s, e) ==
  [l \in 1..(IF Level(ms) = 0 /\ whole THEN 1 ELSE Level(ms)) |-> PushOne(q, ms, l, s, e)]

Result(kind, from, to, values) == [kind |-> kind, from |-> from, to |-> to, values |-> values]
NotFound   == Result("nil", 0, 0, <<>>)
Error(e)   == Result(e, 0, 0, <<>>)

Anchored(pat) == pat # <<>> /\ pat[1] = CARET

\* lmemfind, from init.
MemFind(src, pat, init) ==
  LET places == {k \in init..(End(src) - Len(pat)) : SubSeq(src, k, k + Len(pat) - 1) = pat}
  IN  IF places = {} THEN NULL ELSE CHOOSE k \in places : \A l \in places : k <= l

NoSpecials(pat) == ToSet(pat) \cap SPECIALS = {}

\* str_find_aux: the loop over the places where a match may begin.
RECURSIVE SearchFrom(_, _, _, _, _)
SearchFrom(q, ms, s1, anchor, find) ==
  LET r == Match(q, PrepState(ms), s1, 1)
  IN  CASE r.error # "" -> Error(r.error)
        [] r.s # NULL ->
             IF Unfinished(r.ms) # {} THEN Error("unfinished capture")
             ELSE Result("found", s1, r.s - 1, PushCaptures(q, r.ms, ~find, s1, r.s))
        [] OTHER ->
             IF s1 < End(q.src) /\ ~anchor THEN SearchFrom(q, r.ms, s1 + 1, anchor, find)
             ELSE NotFound

PosRelat(pos, len) == IF pos >= 0 THEN pos ELSE IF -pos > len THEN 0 ELSE len + pos + 1

StrFindAux(src, pat, init, plain, find) ==
  LET from   == PosRelat(init, Len(src))
      start  == IF from < 1 THEN 1 ELSE from
      anchor == Anchored(pat)
      place  == MemFind(src, pat, start)
  IN  IF start > End(src) THEN NotFound
      ELSE IF find /\ (plain \/ NoSpecials(pat))
      THEN IF place = NULL THEN NotFound
           ELSE Result("found", place, place + Len(pat) - 1, <<>>)
      ELSE SearchFrom([src |-> src, pat |-> IF anchor THEN Tail(pat) ELSE pat], NewState,
                      start, anchor, find)

\* gmatch_aux until it finds nothing: the matches, each with its place.
RECURSIVE GMatch(_, _, _, _)
GMatch(q, ms, src, lastmatch) ==
  LET r == Match(q, PrepState(ms), src, 1)
  IN  CASE src > End(q.src) -> <<>>
        [] r.error # "" -> <<Error(r.error)>>
        [] r.s # NULL /\ r.s # lastmatch ->
             IF Unfinished(r.ms) # {} THEN <<Error("unfinished capture")>>
             ELSE <<Result("found", src, r.s - 1, PushCaptures(q, r.ms, TRUE, src, r.s))>>
                  \o GMatch(q, r.ms, r.s, r.s)
        [] OTHER -> GMatch(q, r.ms, src + 1, lastmatch)

\* add_s: a string that names captures, a part for each: 0 is the whole match, and what is
\* over nine a character of its own.  A position is written with one digit here.
Named(repl)     == ToSet(repl) \cap (1..9)
BadName(ms, repl) == \E l \in Named(repl) : (l > Level(ms) /\ l > 1) \/ l \in Unfinished(ms)
AddS(q, ms, repl, s, e) ==
  LET Part(k) ==
        CASE repl[k] = 0 -> SubSeq(q.src, s, e - 1)
          [] repl[k] > 9 -> <<repl[k]>>
          [] repl[k] <= Level(ms) /\ ms.capture[repl[k]].len = CAP_POSITION ->
               <<48 + PushOne(q, ms, repl[k], s, e)>>
          [] OTHER -> PushOne(q, ms, repl[k], s, e)
  IN  FlattenSeq([k \in DOMAIN repl |-> Part(k)])

\* add_value, added to what str_gsub has done; calls are those of a function that gives nil.
AddValue(q, ms, kind, repl, s, e, done) ==
  IF kind = "string"
  THEN IF BadName(ms, repl) THEN [done EXCEPT !.error = "capture"]
       ELSE [done EXCEPT !.text = @ \o AddS(q, ms, repl, s, e), !.n = @ + 1]
  ELSE IF Unfinished(ms) # {} THEN [done EXCEPT !.error = "unfinished capture"]
  ELSE [done EXCEPT !.text = @ \o SubSeq(q.src, s, e - 1), !.n = @ + 1,
                    !.calls = Append(@, Result("found", s, e - 1, PushCaptures(q, ms, TRUE, s, e)))]

\* str_gsub: how its loop goes on from src.
RECURSIVE GSub(_, _, _, _, _, _)
GSub(q, ms, src, lastmatch, job, done) ==
  LET r     == Match(q, PrepState(ms), src, 1)
      found == r.s # NULL /\ r.s # lastmatch
      at    == IF found THEN r.s ELSE src + 1
      ended == [done EXCEPT !.text = @ \o SubSeq(q.src, src, Len(q.src))]
      next  == IF found THEN AddValue(q, r.ms, job.kind, job.repl, src, r.s, done)
               ELSE [done EXCEPT !.text = Append(@, q.src[src])]
  IN  CASE done.n >= job.max_s -> ended
        [] r.error # "" -> [done EXCEPT !.error = r.error]
        [] ~found /\ src >= End(q.src) -> ended
        [] OTHER ->
             IF next.error # "" THEN next
             ELSE IF Anchored(job.pat) THEN [next EXCEPT !.text = @ \o SubSeq(q.src, at, Len(q.src))]
             ELSE GSub(q, r.ms, at, IF found THEN r.s ELSE lastmatch, job, next)

StrGSub(job) ==
  GSub([src |-> job.src, pat |-> IF Anchored(job.pat) THEN Tail(job.pat) ELSE job.pat],
       NewState, 1, NULL, job, [text |-> <<>>, n |-> 0, calls |-> <<>>, error |-> ""])

-----------------------------------------------------------------------------
(* One call.                                                               *)

NoCall == [call |-> "none"]

Init == call = NoCall

TextOf(tokens) == FlattenSeq([k \in DOMAIN tokens |-> tokens[k][1]])

Find ==
  \E src \in Sources, tokens \in Patterns, init \in {-2, 1}, kind \in {"find", "plain", "match"} :
    call' = [call |-> kind, src |-> src, tokens |-> tokens, init |-> init]

\* gsub and gmatch walk over the text in the same way.
Walk ==
  \E src \in Sources, tokens \in Patterns, kind \in {"string", "function"} :
    call' = [call |-> "walk", src |-> src, tokens |-> tokens, pat |-> TextOf(tokens), kind |-> kind,
             repl |-> <<0, 1>>, max_s |-> IF kind = "string" THEN 1 ELSE Len(src) + 1]

\* What a call gives.
Returned(job) ==
  IF job.call = "walk"
  THEN [gsub   |-> StrGSub(job),
        gmatch |-> GMatch([src |-> job.src, pat |-> job.pat], NewState, 1, NULL)]
  ELSE StrFindAux(job.src, TextOf(job.tokens), job.init, job.call = "plain", job.call # "match")

Next == call = NoCall /\ (Find \/ Walk)

Spec == Init /\ [][Next]_call

-----------------------------------------------------------------------------
(* Properties *)

\* What a pattern means: all the ways in which its items, from the first on, match the text
\* from place s on, the preferred one first.  A way is where it ends and what it captures, or
\* the message of a pattern that is wrong there.
Run(src, s, set) ==
  CHOOSE n \in 0..(Len(src) - s + 1) :
    /\ \A k \in 0..(n - 1) : src[s + k] \in set
    /\ s + n <= Len(src) => src[s + n] \notin set
Upwards(least, most) == [k \in 1..(most - least + 1) |-> least + k - 1]

RECURSIVE Ways(_, _, _, _)
Ways(src, items, s, caps) ==
  LET item  == Head(items)
      open  == {l \in DOMAIN caps : caps[l].len = CAP_UNFINISHED}
      last  == CHOOSE l \in open : \A k \in open : k <= l
      On(t, c)  == Ways(src, Tail(items), t, c)
      All(counts) == FlattenSeq([k \in DOMAIN counts |-> On(s + counts[k], caps)])
      If(holds, t) == IF holds THEN On(t, caps) ELSE <<>>
      Wrong(e)  == <<[to |-> NULL, caps |-> <<>>, error |-> e]>>
      Here(t)   == IF t \in DOMAIN src THEN src[t] ELSE 0
      Nested(t) == Cardinality({k \in s..t : src[k] = item[2]})
      Ended_(t) == Cardinality({k \in s..t : src[k] = item[3]})
  IN  IF items = <<>> THEN <<[to |-> s, caps |-> caps, error |-> ""]>>
      ELSE CASE item[1] = "one" ->
                  LET run   == Run(src, s, item[2])
                      least == IF item[3] \in {"", "+"} THEN 1 ELSE 0
                      most  == IF item[3] \in {"", "?"} /\ run > 1 THEN 1 ELSE run
                      tries == Upwards(least, most)
                  IN  All(IF item[3] = "-" THEN tries ELSE Reverse(tries))
             [] item[1] = "open"     -> On(s, Append(caps, [init |-> s, len |-> CAP_UNFINISHED]))
             [] item[1] = "position" -> On(s, Append(caps, [init |-> s, len |-> CAP_POSITION]))
             [] item[1] = "close"    ->
                  IF open = {} THEN Wrong("invalid pattern capture")
                  ELSE On(s, [caps EXCEPT ![last].len = s - caps[last].init])
             [] item[1] = "back"     ->
                  IF item[2] \notin DOMAIN caps \/ item[2] \in open THEN Wrong("invalid capture index")
                  ELSE LET c == caps[item[2]]
                           t == s + c.len - 1
                       IN  If(/\ c.len # CAP_POSITION /\ t <= Len(src)
                              /\ SubSeq(src, s, t) = SubSeq(src, c.init, c.init + c.len - 1), t + 1)
             [] item[1] = "border"   ->
                  If(Here(s - 1) \notin item[2] /\ Here(s) \in item[2], s)
             [] item[1] = "balance"  ->
                  LET ends == {t \in s..Len(src) : src[s] = item[2] /\ Nested(t) = Ended_(t)}
                  IN  If(ends # {}, CHOOSE t \in {u + 1 : u \in ends} : \A u \in ends : t <= u + 1)
             [] item[1] = "end"      -> If(s = End(src), s)
             [] item[1] = "wrong"    -> Wrong(item[2])

\* The items of tokens: $ means the end as the last of them only, and ^ is read by the caller.
Items(tokens) ==
  [k \in DOMAIN tokens |->
     LET item == tokens[k][2]
     IN  IF item[1] = "end" /\ k < Len(tokens) THEN <<"one", {DOLLAR}, "">>
         ELSE IF item[1] = "start" THEN <<"one", {CARET}, "">> ELSE item]

Starts(tokens) == tokens # <<>> /\ tokens[1][2][1] = "start"
Searched(tokens) == IF Starts(tokens) THEN Tail(Items(tokens)) ELSE Items(tokens)

\* The values that a way gives: a position or a text for each capture.
Values(src, way) ==
  [l \in DOMAIN way.caps |->
     LET c == way.caps[l]
     IN  IF c.len = CAP_POSITION THEN c.init ELSE SubSeq(src, c.init, c.init + c.len - 1)]

Meant(src, tokens, start, whole) ==
  LET W(s)   == Ways(src, Searched(tokens), s, <<>>)
      places == {s \in start..End(src) : W(s) # <<>> /\ (Starts(tokens) => s = start)}
      s      == CHOOSE p \in places : \A o \in places : p <= o
      way    == Head(W(s))
      text   == SubSeq(src, s, way.to - 1)
  IN  CASE places = {} -> NotFound
        [] way.error # "" -> Error(way.error)
        [] \E l \in DOMAIN way.caps : way.caps[l].len = CAP_UNFINISHED -> Error("unfinished capture")
        [] OTHER -> Result("found", s, way.to - 1,
                           IF whole /\ way.caps = <<>> THEN <<text>> ELSE Values(src, way))

\* Whether the first capture is a position.
Positional(tokens) ==
  LET k == SelectInSeq(tokens, LAMBDA t : t[2][1] \in {"open", "position"})
  IN  k > 0 /\ tokens[k][2][1] = "position"

BareClose(tokens) == CLOSE \in ToSet(TextOf(tokens)) /\ NoSpecials(TextOf(tokens))

TooComplex == "pattern too complex"

\* find and match give the first place where the pattern matches, what it prefers there, and
\* its captures, whatever was tried and undone before; a plain find, and that of a pattern
\* whose only special character is ), gives the first place where the text of the pattern is.
FindsWhatIsMeant(job, out) ==
  job.call \in {"find", "match", "plain"} =>
    LET start == LET p == PosRelat(job.init, Len(job.src)) IN IF p < 1 THEN 1 ELSE p
        text  == TextOf(job.tokens)
        there == {k \in start..(End(job.src) - Len(text)) : SubSeq(job.src, k, k + Len(text) - 1) = text}
    IN  \/ out.kind = TooComplex
        \/ start > End(job.src) /\ out = NotFound
        \/ IF job.call = "plain" \/ (job.call = "find" /\ BareClose(job.tokens))
           THEN IF there = {} THEN out = NotFound
                ELSE out.from \in there /\ \A k \in there : out.from <= k /\ out.to = out.from + Len(text) - 1
           ELSE out = Meant(job.src, job.tokens, start, job.call = "match")

\* How deep match calls itself is bounded by the pattern, not by the text or by what was tried
\* before: every call gives back what it takes of matchdepth.
DepthIsThePatterns(job, out) ==
  /\ job.call \in {"find", "match"} /\ out.kind = TooComplex => Len(job.tokens) >= MAXCCALLS
  /\ job.call = "walk" /\ out.gsub.error = TooComplex => Len(job.tokens) >= MAXCCALLS

\* gmatch and gsub meet the same matches, those that Lua's manual says: from the left, none
\* over another, none that is empty just behind another, and none left out between two; and
\* a gsub that puts back what it finds gives the text it was given.
WalksMeetAll(job, out) ==
  job.call = "walk" /\ job.kind = "function" /\ out.gsub.error = "" /\ job.max_s > Len(job.src)
    /\ ~Starts(job.tokens) =>
    LET calls == out.gsub.calls
        n     == Len(calls)
        After_(k) == IF k = 0 THEN 1 ELSE calls[k].to + 1
        until(k)  == IF k > n THEN End(job.src) ELSE calls[k].from - 1
    IN  /\ out.gmatch = calls
        /\ out.gsub.n = n /\ out.gsub.text = job.src
        /\ \A k \in 1..n : calls[k] = Meant(job.src, <<<<<<>>, <<"start">>>>>> \o job.tokens, calls[k].from, TRUE)
        /\ \A k \in 0..n : \A s \in After_(k)..until(k + 1) :
             LET m == Meant(job.src, <<<<<<>>, <<"start">>>>>> \o job.tokens, s, TRUE)
             IN  m = NotFound \/ (k > 0 /\ s = After_(k) /\ m.to = s - 1)

\* The replacement of a string: between two matches the text stays, and for a match come the
\* whole of it and its first capture.
ReplacesInPlace(job, out) ==
  job.call = "walk" /\ job.kind = "string" /\ out.gsub.error = "" /\ out.gsub.n > 0
    /\ job.max_s = 1 =>
    LET m == Meant(job.src, job.tokens, 1, TRUE)
    IN  m.kind = "found" =>
          LET w == SubSeq(job.src, m.from, m.to)
              c == IF DOMAIN m.values = {} THEN w ELSE m.values[1]
          IN  out.gsub.text = SubSeq(job.src, 1, m.from - 1) \o w
                              \o (IF Positional(job.tokens) THEN <<48 + c>> ELSE c)
                              \o SubSeq(job.src, m.to + 1, Len(job.src))

\* The functions of patterns find, walk over and replace what the pattern means, and call
\* themselves no deeper than the pattern makes them (lstrlib.c).
PatternsDo ==
  \A job \in {call'} : \A out \in {Returned(job)} :
    /\ FindsWhatIsMeant(job, out)
    /\ DepthIsThePatterns(job, out)
    /\ WalksMeetAll(job, out)
    /\ ReplacesInPlace(job, out)
PatternsMatch == [][PatternsDo]_call

=============================================================================
