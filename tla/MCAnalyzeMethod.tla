-------------------------- MODULE MCAnalyzeMethod --------------------------
(***************************************************************************)
(* Messages for TLC: every one of three families, in each of which some    *)
(* parts vary over short sequences and the others stay plain.              *)
(***************************************************************************)
EXTENDS AnalyzeMethod

CONSTANTS t1, t2, v1, v2, v3, e1, e2

Upto(S, n) == UNION {[1..k -> S] : k \in 0..n}

Message(faults, carries, base, params, headers, body) ==
  [faults |-> faults, carries |-> carries, base |-> base, params |-> params,
   headers |-> headers, body |-> body]

P(t, v) == [tag |-> t, value |-> v]

\* One parameter more than the limit of the code lets pass, and one more still.
WithParams ==
  {Message({}, carries, base, params, headers, <<"other">>) :
     carries \in BOOLEAN, base \in {"path", "root"},
     params \in Upto({Blank, BadParam, P(t1, v1), P(t1, v2), P(t1, v3), P(t2, v1),
                      P(NoTag, v1)},
                     MAX_HEADER_URL_PARAMETERS + 2),
     headers \in {<<"length">>, <<"malformed">>}}

WithLines ==
  {Message({}, TRUE, "path", params, headers, body) :
     params \in {<<P(t1, v1), P(t2, v1)>>},
     headers \in Upto(Lines \ {e2}, MAX_HEADER_HEADERS + 1),
     body \in Upto({Blank, "other", "malformed", e2}, 2) \ {<<>>}}

WithFaults ==
  {Message(faults, carries, base, params, <<"other">>, <<Blank>>) :
     faults \in {{f, g} : f, g \in Faults} \union {{}},
     carries \in BOOLEAN, base \in Bases,
     params \in {<<>>, <<P(t1, v1), P(t2, v1)>>}}

AllMessages == WithParams \union WithLines \union WithFaults
=============================================================================
