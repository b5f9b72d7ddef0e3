----------------------------- MODULE CJsonText -----------------------------
(***************************************************************************)
(* The texts of cJSON.c: the parser as it moves an offset through a        *)
(* buffer, the printer as it fills one that may have to grow, and          *)
(* cJSON_Minify.  A text is a sequence of character codes that ends in     *)
(* NUL, a value one of                                                     *)
(*   <<"null">>  <<"true">>  <<"false">>  <<"number", n>>                  *)
(*   <<"string", codes>>  <<"array", values>>                              *)
(*   <<"object", pairs of a name and a value>>                             *)
(* and the memory of the tree is CJsonTree's subject.                      *)
(*                                                                         *)
(* A behaviour is one call, and Returned is what the code gives for it.    *)
(***************************************************************************)
EXTENDS Integers, Sequences, FiniteSets, TLC, SequencesExt

CONSTANTS NestingLimit,   \* CJSON_NESTING_LIMIT
          BufferSize,     \* default_buffer_size of print
          Values,         \* the values that are printed, nested within the limit
          Texts,          \* the texts that are parsed
          Codes           \* the codes of \uXXXX literals

VARIABLE call   \* what is asked for

NUL == 0
TAB == 9
NEWLINE == 10
SPACE == 32
QUOTE == 34
STAR == 42
COMMA == 44
MINUS == 45
SLASH == 47
COLON == 58
OPEN == 91
BACKSLASH == 92
CLOSE == 93
LETTER_U == 117
BEGIN == 123
END == 125

Literal == [null |-> <<110, 117, 108, 108>>, true |-> <<116, 114, 117, 101>>,
            false |-> <<102, 97, 108, 115, 101>>]

Digits == 48..57

\* The characters that an escape stands for, by the letter behind the backslash.
Escapes == (98 :> 8) @@ (102 :> 12) @@ (110 :> 10) @@ (114 :> 13) @@ (116 :> 9)
           @@ (34 :> 34) @@ (92 :> 92) @@ (47 :> 47)

-----------------------------------------------------------------------------
(* Parsing.  p has the offset (from 0), the depth, the value of the last   *)
(* success, and over: whether a character behind the buffer was read.      *)

CanAccess(t, i) == i < Len(t)

\* A character that the code looks at without asking first.
Peek(t, i) == IF i < Len(t) THEN t[i + 1] ELSE NUL

Sees(t, p, c) == CanAccess(t, p.offset) /\ Peek(t, p.offset) = c

Fail(p)     == [p EXCEPT !.ok = FALSE]
Move(p, n)  == [p EXCEPT !.offset = @ + n]
Give(p, v)  == [p EXCEPT !.ok = TRUE, !.value = v]

\* buffer_skip_whitespace: NUL counts as space, and the end is stepped back from.
SkipWhitespace(t, p) ==
  LET stops == {k \in p.offset..Len(t) : k = Len(t) \/ t[k + 1] > SPACE}
      to    == CHOOSE k \in stops : \A l \in stops : k <= l
  IN  IF ~CanAccess(t, p.offset) THEN p
      ELSE [p EXCEPT !.offset = IF to = Len(t) THEN to - 1 ELSE to]

\* skip_utf8_bom: the offset behind a byte order mark, if two more bytes can be read.
Bom == <<239, 187, 191>>

SkipUtf8Bom(t) == IF CanAccess(t, 4) /\ SubSeq(t, 1, 3) = Bom THEN 3 ELSE 0

\* parse_hex4: four digits, or 0.
Hex(c) == CASE c \in Digits -> c - 48 [] c \in 65..70 -> c - 55 [] c \in 97..102 -> c - 87
            [] OTHER -> -1

ParseHex4(t, i) ==
  LET d == [k \in 0..3 |-> Hex(Peek(t, i + k))] IN
  IF \E k \in 0..3 : d[k] < 0 THEN 0 ELSE ((d[0] * 16 + d[1]) * 16 + d[2]) * 16 + d[3]

\* The bytes of a code point as the loop of utf16_literal_to_utf8 makes them, from the last.
Utf8(codepoint) ==
  LET len  == IF codepoint < 128 THEN 1 ELSE IF codepoint < 2048 THEN 2
              ELSE IF codepoint < 65536 THEN 3 ELSE 4
      mark == <<0, 192, 224, 240>>[len]
      rest == [k \in 0..3 |-> codepoint \div <<1, 64, 4096, 262144>>[k + 1]]
  IN  [k \in 1..len |-> IF k = 1 THEN (IF len = 1 THEN codepoint ELSE mark + rest[len - 1])
                        ELSE 128 + (rest[len - k] % 64)]

\* Faulty variant of Utf16Literal: the second half of a pair may be anything.
Utf16AnySecond(t, i, end) ==
  LET first == ParseHex4(t, i + 2) IN
  IF end - i < 6 \/ first \in 56320..57343 THEN [length |-> 0, bytes |-> <<>>]
  ELSE IF first \notin 55296..56319 THEN [length |-> 6, bytes |-> Utf8(first)]
  ELSE IF end - (i + 6) < 6 THEN [length |-> 0, bytes |-> <<>>]
  ELSE [length |-> 12,
        bytes  |-> Utf8(65536 + ((first % 1024) * 1024) + (ParseHex4(t, i + 8) % 1024))]

\* utf16_literal_to_utf8: a literal at i of a string that ends at end, or a pair of two.
Utf16Literal(t, i, end) ==
  LET first  == ParseHex4(t, i + 2)
      second == ParseHex4(t, i + 8)
      none   == [length |-> 0, bytes |-> <<>>]
  IN  IF end - i < 6 \/ first \in 56320..57343 THEN none
      ELSE IF first \notin 55296..56319 THEN [length |-> 6, bytes |-> Utf8(first)]
      ELSE IF \/ end - (i + 6) < 6
              \/ Peek(t, i + 6) # BACKSLASH \/ Peek(t, i + 7) # LETTER_U
              \/ second \notin 56320..57343
           THEN none
      ELSE [length |-> 12,
            bytes  |-> Utf8(65536 + ((first % 1024) * 1024) + (second % 1024))]

\* parse_string: where it ends, counting escapes, then what it says.
RECURSIVE StringEnd(_, _, _)
StringEnd(t, i, skipped) ==
  IF ~CanAccess(t, i) THEN [found |-> FALSE]
  ELSE IF t[i + 1] = QUOTE THEN [found |-> TRUE, end |-> i, skipped |-> skipped]
  ELSE IF t[i + 1] # BACKSLASH THEN StringEnd(t, i + 1, skipped)
  ELSE IF ~CanAccess(t, i + 1) THEN [found |-> FALSE]
  ELSE StringEnd(t, i + 2, skipped + 1)

RECURSIVE Unescape(_, _, _, _)
Unescape(t, i, end, output) ==
  LET c   == Peek(t, i + 1)
      lit == Utf16Literal(t, i, end)
  IN  IF i >= end THEN [ok |-> TRUE, output |-> output]
      ELSE IF t[i + 1] # BACKSLASH THEN Unescape(t, i + 1, end, Append(output, t[i + 1]))
      ELSE IF c \in DOMAIN Escapes THEN Unescape(t, i + 2, end, Append(output, Escapes[c]))
      ELSE IF c = LETTER_U /\ lit.length > 0
      THEN Unescape(t, i + lit.length, end, output \o lit.bytes)
      ELSE [ok |-> FALSE, output |-> output]

\* A NUL among the output ends the C string.
CString(output) ==
  LET at == SelectInSeq(output, LAMBDA c : c = NUL) IN
  IF at = 0 THEN output ELSE SubSeq(output, 1, at - 1)

ParseString(t, p) ==
  LET end  == StringEnd(t, p.offset + 1, 0)
      said == Unescape(t, p.offset + 1, end.end, <<>>)
      seen == [p EXCEPT !.over = @ \/ ~CanAccess(t, p.offset)]
  IN  IF Peek(t, p.offset) # QUOTE \/ ~end.found THEN Fail(seen)
      ELSE LET whole == [seen EXCEPT !.over = @ \/ Len(said.output) > end.end - p.offset - end.skipped]
           IN  IF ~said.ok THEN Fail(whole)
               ELSE Give([whole EXCEPT !.offset = end.end + 1], <<"string", CString(said.output)>>)

\* parse_number: of what may be in a number as much as strtod takes, here a whole number.
ParseNumber(t, p) ==
  LET signed == Peek(t, p.offset) = MINUS
      from   == p.offset + (IF signed THEN 1 ELSE 0)
      ends   == {k \in from..Len(t) : k = Len(t) \/ t[k + 1] \notin Digits}
      to     == CHOOSE k \in ends : \A l \in ends : k <= l
      number == FoldLeft(LAMBDA n, c : 10 * n + (c - 48), 0, SubSeq(t, from + 1, to))
  IN  IF to = from THEN Fail(p)
      ELSE Give([p EXCEPT !.offset = to], <<"number", IF signed THEN -number ELSE number>>)

ReadsLiteral(t, p, w) ==
  /\ p.offset + Len(Literal[w]) <= Len(t)
  /\ SubSeq(t, p.offset + 1, p.offset + Len(Literal[w])) = Literal[w]

RECURSIVE ParseValue(_, _)
RECURSIVE ParseElements(_, _, _)
RECURSIVE ParseMembers(_, _, _)

ParseArray(t, p) ==
  LET in == SkipWhitespace(t, Move([p EXCEPT !.depth = @ + 1], 1)) IN
  IF p.depth >= NestingLimit THEN Fail(p)
  ELSE IF Sees(t, in, CLOSE) THEN Give(Move([in EXCEPT !.depth = @ - 1], 1), <<"array", <<>>>>)
  ELSE IF ~CanAccess(t, in.offset) THEN Fail(Move(in, -1))
  ELSE ParseElements(t, Move(in, -1), <<>>)

\* The loop of parse_array: p is in front of an element, at the bracket or the comma.
ParseElements(t, p, elements) ==
  LET value == ParseValue(t, SkipWhitespace(t, Move(p, 1)))
      next  == SkipWhitespace(t, value)
      all   == Append(elements, value.value)
  IN  IF ~value.ok THEN value
      ELSE IF Sees(t, next, COMMA) THEN ParseElements(t, next, all)
      ELSE IF Sees(t, next, CLOSE)
      THEN Give(Move([next EXCEPT !.depth = @ - 1], 1), <<"array", all>>)
      ELSE Fail(next)

ParseObject(t, p) ==
  LET in == SkipWhitespace(t, Move([p EXCEPT !.depth = @ + 1], 1)) IN
  IF p.depth >= NestingLimit THEN Fail(p)
  ELSE IF Sees(t, in, END) THEN Give(Move([in EXCEPT !.depth = @ - 1], 1), <<"object", <<>>>>)
  ELSE IF ~CanAccess(t, in.offset) THEN Fail(Move(in, -1))
  ELSE ParseMembers(t, Move(in, -1), <<>>)

\* The loop of parse_object, likewise.
ParseMembers(t, p, members) ==
  LET name  == ParseString(t, SkipWhitespace(t, Move(p, 1)))
      colon == SkipWhitespace(t, name)
      value == ParseValue(t, SkipWhitespace(t, Move(colon, 1)))
      next  == SkipWhitespace(t, value)
      all   == Append(members, <<name.value[2], value.value>>)
  IN  IF ~name.ok THEN name
      ELSE IF ~Sees(t, colon, COLON) THEN Fail(colon)
      ELSE IF ~value.ok THEN value
      ELSE IF Sees(t, next, COMMA) THEN ParseMembers(t, next, all)
      ELSE IF Sees(t, next, END)
      THEN Give(Move([next EXCEPT !.depth = @ - 1], 1), <<"object", all>>)
      ELSE Fail(next)

ParseValue(t, p) ==
  IF \E w \in DOMAIN Literal : ReadsLiteral(t, p, w)
  THEN LET w == CHOOSE w \in DOMAIN Literal : ReadsLiteral(t, p, w)
       IN  Give(Move(p, Len(Literal[w])), <<w>>)
  ELSE IF Sees(t, p, QUOTE) THEN ParseString(t, p)
  ELSE IF Sees(t, p, MINUS) \/ \E d \in Digits : Sees(t, p, d) THEN ParseNumber(t, p)
  ELSE IF Sees(t, p, OPEN)  THEN ParseArray(t, p)
  ELSE IF Sees(t, p, BEGIN) THEN ParseObject(t, p)
  ELSE Fail(p)

\* cJSON_ParseWithLengthOpts: with require_null_terminated, only NUL may follow.
ParseWithOpts(t, require_null_terminated) ==
  LET start == [offset |-> SkipUtf8Bom(t), depth |-> 0, ok |-> FALSE, value |-> <<"null">>, over |-> FALSE]
      value == ParseValue(t, SkipWhitespace(t, start))
      after == SkipWhitespace(t, value)
  IN  IF t = <<>> THEN start
      ELSE IF ~value.ok \/ ~require_null_terminated THEN value
      ELSE IF after.offset >= Len(t) \/ Peek(t, after.offset) # NUL THEN Fail(after)
      ELSE after

-----------------------------------------------------------------------------
(* Printing.  b has the bytes of the buffer (-1 where nothing was written), *)
(* its offset and depth, how it is to be printed, how often an allocation   *)
(* succeeds, and over: whether it was written or read behind its end.       *)

Refuse(b) == [b EXCEPT !.ok = FALSE]

\* ensure: room for so many bytes and one, in a buffer that doubles.
Ensure(b, needed) ==
  LET need == needed + b.offset + 1 IN
  IF b.cells # <<>> /\ b.offset >= Len(b.cells) THEN Refuse(b)
  ELSE IF need <= Len(b.cells) THEN b
  ELSE IF b.noalloc \/ b.grants = 0 THEN Refuse(b)
  ELSE [b EXCEPT !.grants = @ - 1,
                 !.cells = @ \o [k \in 1..(2 * need - Len(@)) |-> -1]]

\* Bytes stored at the offset, and so many of them passed.
Store(b, bytes, pass) ==
  [b EXCEPT !.over = @ \/ b.offset + Len(bytes) > Len(b.cells),
            !.cells = [k \in DOMAIN @ |-> IF k - b.offset \in DOMAIN bytes
                                          THEN bytes[k - b.offset] ELSE @[k]],
            !.offset = @ + pass]

Reserve(b, needed, bytes, pass) ==
  LET room == Ensure(b, needed) IN IF room.ok THEN Store(room, bytes, pass) ELSE room

\* update_offset: strlen of what was printed last.
UpdateOffset(b) ==
  LET ends == {k \in b.offset + 1..Len(b.cells) : b.cells[k] = NUL} IN
  IF ends = {} THEN [b EXCEPT !.over = TRUE]
  ELSE [b EXCEPT !.offset = (CHOOSE k \in ends : \A l \in ends : k <= l) - 1]

RECURSIVE Decimal(_)
Decimal(n) == IF n < 0 THEN <<MINUS>> \o Decimal(-n)
              ELSE IF n < 10 THEN <<48 + n>> ELSE Append(Decimal(n \div 10), 48 + (n % 10))

HexDigit(d) == IF d < 10 THEN 48 + d ELSE 87 + d

\* print_string_ptr: what is put for a character, and how many more they are counted to be.
Escaped(c) ==
  IF c \in {Escapes[e] : e \in DOMAIN Escapes \ {SLASH}}
  THEN <<BACKSLASH, CHOOSE e \in DOMAIN Escapes : Escapes[e] = c>>
  ELSE IF c < SPACE THEN <<BACKSLASH, LETTER_U, 48, 48, 48 + (c \div 16), HexDigit(c % 16)>>
  ELSE <<c>>

\* Faulty variant of EscapeCharacters: a control character is counted like the escapes of one letter.
EscapeOneEach(s) ==
  FoldLeft(LAMBDA n, c : IF c \in {QUOTE, BACKSLASH} \/ c < SPACE THEN n + 1 ELSE n, 0, s)

EscapeCharacters(s) ==
  FoldLeft(LAMBDA n, c : IF c \in {QUOTE, BACKSLASH, 8, 12, 10, 13, 9} THEN n + 1
                         ELSE IF c < SPACE THEN n + 5 ELSE n, 0, s)

PrintString(b, s) ==
  Reserve(b, Len(s) + EscapeCharacters(s) + 3,
          <<QUOTE>> \o FlattenSeq([k \in DOMAIN s |-> Escaped(s[k])]) \o <<QUOTE, NUL>>, 0)

PrintNumber(b, n) == Reserve(b, Len(Decimal(n)) + 1, Append(Decimal(n), NUL), Len(Decimal(n)))

Tabs(n) == [k \in 1..n |-> TAB]

RECURSIVE PrintValue(_, _)
RECURSIVE PrintElements(_, _)
RECURSIVE PrintMembers(_, _)

PrintArray(b, elements) ==
  LET open == Reserve(b, 1, <<OPEN>>, 1) IN
  IF ~open.ok THEN open ELSE PrintElements([open EXCEPT !.depth = @ + 1], elements)

\* The loop of print_array and what follows it.
PrintElements(b, elements) ==
  LET value == PrintValue(b, Head(elements))
      past  == UpdateOffset(value)
      comma == IF b.format THEN <<COMMA, SPACE>> ELSE <<COMMA>>
      next  == IF Tail(elements) = <<>> THEN past
               ELSE Reserve(past, Len(comma) + 1, Append(comma, NUL), Len(comma))
      close == Reserve(b, 2, <<CLOSE, NUL>>, 0)
  IN  IF elements = <<>> THEN (IF close.ok THEN [close EXCEPT !.depth = @ - 1] ELSE close)
      ELSE IF ~value.ok THEN value
      ELSE IF ~next.ok THEN next
      ELSE PrintElements(next, Tail(elements))

PrintObject(b, members) ==
  LET begin == IF b.format THEN <<BEGIN, NEWLINE>> ELSE <<BEGIN>>
      open  == Reserve(b, Len(begin) + 1, begin, Len(begin))
  IN  IF ~open.ok THEN open ELSE PrintMembers([open EXCEPT !.depth = @ + 1], members)

\* The loop of print_object and what follows it.
PrintMembers(b, members) ==
  LET indent == IF b.format THEN Reserve(b, b.depth, Tabs(b.depth), b.depth) ELSE b
      name   == PrintString(indent, Head(members)[1])
      sep    == IF b.format THEN <<COLON, TAB>> ELSE <<COLON>>
      colon  == Reserve(UpdateOffset(name), Len(sep), sep, Len(sep))
      value  == PrintValue(colon, Head(members)[2])
      stop   == (IF Tail(members) = <<>> THEN <<>> ELSE <<COMMA>>)
                \o (IF b.format THEN <<NEWLINE>> ELSE <<>>)
      next   == Reserve(UpdateOffset(value), Len(stop) + 1, Append(stop, NUL), Len(stop))
      close  == Reserve(b, IF b.format THEN b.depth + 1 ELSE 2,
                        (IF b.format THEN Tabs(b.depth - 1) ELSE <<>>) \o <<END, NUL>>, 0)
  IN  IF members = <<>> THEN (IF close.ok THEN [close EXCEPT !.depth = @ - 1] ELSE close)
      ELSE IF ~indent.ok THEN indent
      ELSE IF ~name.ok THEN name
      ELSE IF ~colon.ok THEN colon
      ELSE IF ~value.ok THEN value
      ELSE IF ~next.ok THEN next
      ELSE PrintMembers(next, Tail(members))

PrintValue(b, v) ==
  CASE v[1] \in DOMAIN Literal ->
         Reserve(b, Len(Literal[v[1]]) + 1, Append(Literal[v[1]], NUL), 0)
    [] v[1] = "number" -> PrintNumber(b, v[2])
    [] v[1] = "string" -> PrintString(b, v[2])
    [] v[1] = "array"  -> PrintArray(b, v[2])
    [] v[1] = "object" -> PrintObject(b, v[2])

Buffer(size, noalloc, format, grants) ==
  [cells |-> [k \in 1..size |-> -1], offset |-> 0, depth |-> 0, noalloc |-> noalloc,
   format |-> format, grants |-> grants, ok |-> TRUE, over |-> FALSE]

\* print: a buffer of the default size that grows, cut to the text's length at the end.
PrintItem(v, format, grants) ==
  LET printed == PrintValue(Buffer(BufferSize, FALSE, format, grants - 1), v)
      whole   == UpdateOffset(printed)
  IN  IF grants = 0 THEN Refuse(Buffer(0, FALSE, format, 0))
      ELSE IF ~printed.ok THEN printed
      ELSE IF whole.grants = 0 THEN Refuse(whole)
      ELSE [whole EXCEPT !.cells = SubSeq(@, 1, whole.offset + 1)]

\* cJSON_PrintBuffered: from a first size of the client's choice.
PrintBuffered(v, prebuffer, format, grants) ==
  IF grants = 0 THEN Refuse(Buffer(0, FALSE, format, 0))
  ELSE PrintValue(Buffer(prebuffer, FALSE, format, grants - 1), v)

\* cJSON_PrintPreallocated: into the client's buffer.
PrintPreallocated(v, length, format) == PrintValue(Buffer(length, TRUE, format, 0), v)

\* What a client reads in a printed buffer.
TextOf(b) ==
  LET at == SelectInSeq(b.cells, LAMBDA c : c = NUL)
  IN  IF at = 0 THEN <<>> ELSE SubSeq(b.cells, 1, at)

-----------------------------------------------------------------------------
(* cJSON_Minify *)

RECURSIVE SkipOneline(_, _)
SkipOneline(t, i) ==
  IF t[i] = NUL THEN i ELSE IF t[i] = NEWLINE THEN i + 1 ELSE SkipOneline(t, i + 1)

RECURSIVE SkipMultiline(_, _)
SkipMultiline(t, i) ==
  IF t[i] = NUL THEN i
  ELSE IF t[i] = STAR /\ t[i + 1] = SLASH THEN i + 2 ELSE SkipMultiline(t, i + 1)

\* minify_string: up to a quote with no backslash before it.
RECURSIVE MinifyString(_, _, _)
MinifyString(t, i, into) ==
  IF t[i] = NUL THEN [at |-> i, into |-> into]
  ELSE IF t[i] = QUOTE THEN [at |-> i + 1, into |-> Append(into, QUOTE)]
  ELSE IF t[i] = BACKSLASH /\ t[i + 1] = QUOTE
  THEN MinifyString(t, i + 2, into \o <<BACKSLASH, QUOTE>>)
  ELSE MinifyString(t, i + 1, Append(into, t[i]))

RECURSIVE MinifyFrom(_, _, _)
MinifyFrom(t, i, into) ==
  CASE t[i] = NUL -> Append(into, NUL)
    [] t[i] \in {SPACE, TAB, 13, NEWLINE} -> MinifyFrom(t, i + 1, into)
    [] t[i] = SLASH -> MinifyFrom(t, CASE t[i + 1] = SLASH -> SkipOneline(t, i + 2)
                                       [] t[i + 1] = STAR  -> SkipMultiline(t, i + 2)
                                       [] OTHER            -> i + 1, into)
    [] t[i] = QUOTE -> LET s == MinifyString(t, i + 1, Append(into, QUOTE))
                       IN  MinifyFrom(t, s.at, s.into)
    [] OTHER -> MinifyFrom(t, i + 1, Append(into, t[i]))

Minify(t) == MinifyFrom(t, 1, <<>>)

-----------------------------------------------------------------------------
(* The calls *)

NoCall == [call |-> "none"]

Init == call = NoCall

\* A text is parsed that is terminated, as by cJSON_Parse, or not, as by cJSON_ParseWithLength.
Parse ==
  \E t \in Texts, terminated, require \in BOOLEAN :
    call' = [call |-> "parse", text |-> t, terminated |-> terminated, require |-> require]

PrintAlloc ==
  \E v \in Values, format \in BOOLEAN, grants \in 0..4 :
    call' = [call |-> "print", value |-> v, format |-> format, grants |-> grants]

PrintInto ==
  \E v \in Values, format \in BOOLEAN, size \in 0..BufferSize, kind \in {"buffered", "preallocated"} :
    call' = [call |-> kind, value |-> v, format |-> format, size |-> size]

ParseLiterals ==
  \E codes \in [1..1 -> Codes] \cup [1..2 -> Codes], base \in {55, 87} :
    call' = [call |-> "literals", codes |-> codes, base |-> base]

\* The literal of a code, in lower or upper case.
UnicodeLiteral(code, base) ==
  <<BACKSLASH, LETTER_U>> \o
  [k \in 1..4 |-> LET d == (code \div <<4096, 256, 16, 1>>[k]) % 16
                 IN  IF d < 10 THEN 48 + d ELSE base + d]

\* What a call gives.
Returned(job) ==
  CASE job.call = "parse" ->
         ParseWithOpts(IF job.terminated THEN Append(job.text, NUL) ELSE job.text, job.require)
    [] job.call = "literals" ->
         ParseWithOpts(<<QUOTE>> \o FlattenSeq([k \in DOMAIN job.codes |->
                         UnicodeLiteral(job.codes[k], job.base)]) \o <<QUOTE, NUL>>, TRUE)
    [] job.call = "print"        -> PrintItem(job.value, job.format, job.grants)
    [] job.call = "buffered"     -> PrintBuffered(job.value, job.size, job.format, 4)
    [] job.call = "preallocated" -> PrintPreallocated(job.value, job.size, job.format)

Next == call = NoCall /\ (Parse \/ ParseLiterals \/ PrintAlloc \/ PrintInto)

Spec == Init /\ [][Next]_call

-----------------------------------------------------------------------------
(* Properties *)

Prints == {"print", "buffered", "preallocated"}

\* No print writes behind its buffer, wherever in the value the room ends, nor does
\* update_offset look for a NUL behind it; what is printed ends inside.
PrintsInside(job, out) ==
  job.call \in Prints => ~out.over /\ (out.ok => TextOf(out) # <<>>)

\* What is printed, in either format and into whatever kind of buffer, is parsed to the
\* value that was printed, up to its end.
PrintsParse(job, out) ==
  job.call \in Prints /\ out.ok =>
    LET p == ParseWithOpts(TextOf(out), TRUE)
    IN  p.ok /\ p.value = job.value /\ p.offset = Len(TextOf(out)) - 1

Enough == 1000

Needed(v, format) == Len(PrintItem(v, format, Enough).cells)

\* cJSON_PrintPreallocated succeeds in a buffer that has five bytes more than the text, as
\* cJSON.h asks for; the others succeed when memory does.
RoomIsEnough(job, out) ==
  /\ job.call = "preallocated" /\ job.size >= Needed(job.value, job.format) + 5 => out.ok
  /\ job.call \in {"print", "buffered"} /\ ~out.ok => out.grants = 0

\* Some string in the value ends in a backslash.
RECURSIVE EndsInBackslash(_)
EndsInBackslash(v) ==
  LET Ends(str) == str # <<>> /\ Last(str) = BACKSLASH IN
  CASE v[1] = "string" -> Ends(v[2])
    [] v[1] = "array"  -> \E k \in DOMAIN v[2] : EndsInBackslash(v[2][k])
    [] v[1] = "object" -> \E k \in DOMAIN v[2] : Ends(v[2][k][1]) \/ EndsInBackslash(v[2][k][2])
    [] OTHER -> FALSE

Remark == <<SLASH, STAR, QUOTE, STAR, STAR, SLASH, SLASH, SLASH, QUOTE, NEWLINE>>

\* cJSON_Minify turns the formatted text, comments before and behind it included, into the
\* unformatted one, unless a string ends in a backslash: then it takes the quote behind the
\* escaped backslash for an escaped quote.
MinifyUnformats(job, out) ==
  job.call = "print" /\ job.format /\ out.ok /\ ~EndsInBackslash(job.value)
  => Minify(Remark \o SubSeq(TextOf(out), 1, Len(TextOf(out)) - 1) \o Append(Remark, NUL))
     = TextOf(PrintItem(job.value, FALSE, Enough))

\* The grammar: values with space around them, by cutting a text at its commas and colons.
Trimmed(t) ==
  LET k == {n \in DOMAIN t : t[n] # SPACE} IN
  IF k = {} THEN <<>>
  ELSE SubSeq(t, CHOOSE n \in k : \A m \in k : n <= m, CHOOSE n \in k : \A m \in k : n >= m)

IsString(t) == Len(t) = 2 /\ t = <<QUOTE, QUOTE>>

RECURSIVE IsValue(_, _)
IsValue(padded, depth) ==
  LET t     == Trimmed(padded)
      inner == SubSeq(t, 2, Len(t) - 1)
      IsMember(m) == \E c \in DOMAIN m :
                       /\ m[c] = COLON /\ IsString(Trimmed(SubSeq(m, 1, c - 1)))
                       /\ IsValue(SubSeq(m, c + 1, Len(m)), depth + 1)
      IsPart(m) == IF t[1] = OPEN THEN IsValue(m, depth + 1) ELSE IsMember(m)
      AreParts[from \in 1..Len(inner) + 1] ==
        \/ IsPart(SubSeq(inner, from, Len(inner)))
        \/ \E c \in from..Len(inner) :
             inner[c] = COMMA /\ IsPart(SubSeq(inner, from, c - 1)) /\ AreParts[c + 1]
  IN  \/ t # <<>> /\ \A k \in DOMAIN t : t[k] \in Digits
      \/ IsString(t)
      \/ /\ Len(t) >= 2 /\ depth < NestingLimit
         /\ <<t[1], Last(t)>> \in {<<OPEN, CLOSE>>, <<BEGIN, END>>}
         /\ Trimmed(inner) = <<>> \/ AreParts[1]

\* The parser accepts the texts of the grammar up to the limit of nesting, and no others;
\* without require_null_terminated, those of which a part from the start is one.
ParsesGrammar(job, out) ==
  job.call = "parse" =>
    LET t == IF IsStrictPrefix(Bom, job.text) THEN SubSeq(job.text, 4, Len(job.text)) ELSE job.text
    IN  out.ok = IF job.require THEN job.terminated /\ IsValue(t, 0)
                 ELSE \E n \in DOMAIN t : IsValue(SubSeq(t, 1, n), 0)

\* No character behind a terminated text is read.
ReadsInside(job, out) ==
  /\ job.call = "parse" /\ job.terminated => ~out.over
  /\ job.call = "literals" => ~out.over

\* The code point that bytes of UTF-8 encode.
Decoded(b) ==
  CASE Len(b) = 1 /\ b[1] < 128 -> b[1]
    [] Len(b) = 2 /\ b[1] \in 192..223 -> (b[1] - 192) * 64 + b[2] - 128
    [] Len(b) = 3 /\ b[1] \in 224..239 -> ((b[1] - 224) * 64 + b[2] - 128) * 64 + b[3] - 128
    [] Len(b) = 4 /\ b[1] \in 240..247 ->
         (((b[1] - 240) * 64 + b[2] - 128) * 64 + b[3] - 128) * 64 + b[4] - 128
    [] OTHER -> -1

High == 55296..56319
Low  == 56320..57343

\* A literal, or a pair of surrogates, becomes the UTF-8 of its code point; half a pair is
\* refused, and a literal that says 0 ends the string.
LiteralsDecode(job, out) ==
  job.call = "literals" =>
    LET c == job.codes
        n == Len(c)
    IN  IF n = 2 /\ c[1] \in High /\ c[2] \in Low
        THEN out.ok /\ Decoded(out.value[2]) = 65536 + (c[1] - 55296) * 1024 + (c[2] - 56320)
        ELSE IF \E k \in 1..n : c[k] \in High \cup Low THEN ~out.ok
        ELSE out.ok /\ IF c[1] = 0 THEN out.value[2] = <<>>
                       ELSE \E k \in DOMAIN out.value[2] :
                              /\ Decoded(SubSeq(out.value[2], 1, k)) = c[1]
                              /\ \/ n = 1 /\ k = Len(out.value[2])
                                 \/ n = 2 /\ Decoded(SubSeq(out.value[2], k + 1, Len(out.value[2])))
                                            = IF c[2] = 0 THEN -1 ELSE c[2]

\* What is printed stays inside its buffer, fits where cJSON.h says it does, and reads back
\* as the value it was, minified or not (cJSON.c).
PrintsAreRight ==
  \A job \in {call'} : \A out \in {Returned(job)} :
    /\ PrintsInside(job, out)
    /\ PrintsParse(job, out)
    /\ RoomIsEnough(job, out)
    /\ MinifyUnformats(job, out)
PrintsRight == [][PrintsAreRight]_call

\* The parser takes the texts of the grammar, and no others, for what they say, and reads no
\* character behind them (cJSON.c).
ParsesAreRight ==
  \A job \in {call'} : \A out \in {Returned(job)} :
    /\ ParsesGrammar(job, out)
    /\ ReadsInside(job, out)
    /\ LiteralsDecode(job, out)
ParsesRight == [][ParsesAreRight]_call

=============================================================================
