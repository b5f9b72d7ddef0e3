----------------------------- MODULE Tokenizer -----------------------------
(***************************************************************************)
(* tokenizer and get_next_token of src/dev-capi/server/impl/str_utils.c.   *)
(* A string is the sequence of the pieces between its separators: there is *)
(* always one, and each may be Blank, the empty string.  The result is     *)
(* ret[0], ..., ret[i] for the i that is returned, none of them for -1;    *)
(* past the limit i is returned and ret[i] is not stored.                  *)
(***************************************************************************)
EXTENDS Integers, Sequences, FiniteSets

CONSTANTS
  Blank,
  MAX_HEADER_HEADERS   \* the only limit the tokenizer knows, whatever it is used for

ASSUME TokenizerAssumption == MAX_HEADER_HEADERS \in Nat \ {0}

\* get_next_token on the last piece: NULL if that is empty, or the string is cut into
\* lines, the last of which must be ended.
NoNextToken(piece, lines) == lines \/ piece = Blank

\* i > MAX_HEADER_HEADERS ends the loop.
Full(ret) == Len(ret) - 1 > MAX_HEADER_HEADERS

\* Faulty variant of NextToken: empty pieces are kept everywhere.
NextTokenEmpty(ret, pieces, k, lines) ==
  IF Full(ret) \/ (k = Len(pieces) /\ NoNextToken(pieces[k], lines))
  THEN ret ELSE Append(ret, pieces[k])

\* One round of the loop, with the piece at place k > 1: empty ones are not kept.
NextToken(ret, pieces, k, lines) ==
  IF \/ Full(ret)
     \/ k < Len(pieces) /\ pieces[k] = Blank
     \/ k = Len(pieces) /\ NoNextToken(pieces[k], lines)
  THEN ret ELSE Append(ret, pieces[k])

\* ret after each round: the first piece is kept even if it is empty.
Rounds(pieces, lines) ==
  LET Round[k \in 1..Len(pieces)] ==
        IF k = 1 THEN <<pieces[1]>> ELSE NextToken(Round[k - 1], pieces, k, lines)
  IN Round

Tokenize(pieces, lines) ==
  IF Len(pieces) = 1 /\ NoNextToken(pieces[1], lines) THEN <<>>
  ELSE Rounds(pieces, lines)[Len(pieces)]

-----------------------------------------------------------------------------

\* The places of the pieces that should be tokens: the first, if there are more, and the
\* ones that are not empty, but for the last line, which is not ended.
Wanted(pieces, lines) ==
  {k \in DOMAIN pieces :
     /\ lines => k # Len(pieces)
     /\ pieces[k] # Blank \/ (k = 1 /\ Len(pieces) > 1)}

\* Which token the piece at place k should be.
Rank(wanted, k) == Cardinality({j \in wanted : j =< k})

\* The tokens are those pieces in their order, up to the limit and one more by which the
\* caller can tell.
SplitsRight(pieces, lines) ==
  LET wanted == Wanted(pieces, lines)
      tokens == Tokenize(pieces, lines)
      most   == MAX_HEADER_HEADERS + 2
  IN /\ Len(tokens) = IF Cardinality(wanted) > most THEN most ELSE Cardinality(wanted)
     /\ \A k \in wanted : Rank(wanted, k) =< most => tokens[Rank(wanted, k)] = pieces[k]
=============================================================================
