--------------------------- MODULE AnalyzeMethod ---------------------------
(***************************************************************************)
(* One request through analyze_method of server.c: init_header takes the   *)
(* message apart, get_lua_file_signature makes a script call of what it    *)
(* left, and execute_script pushes the arguments.  What init_header        *)
(* returns is ignored, so the script call is made of whatever was filled   *)
(* in before an error.  The http_header is calloc'ed for each request:     *)
(* nothing of one is left for the next.  Tables of parameters are the      *)
(* dictionaries that HashTable implements; the tables of valid verbs are   *)
(* in ValidMap.                                                            *)
(***************************************************************************)
EXTENDS Tokenizer

CONSTANTS
  Messages,     \* the messages a client may send
  FirstLine,
  Endpoints,    \* names of scripts; as a line of a message, "_epnt: name"
  NoEndpoint,
  Tags,         \* names of URL parameters
  NoTag,        \* the empty name, as in "?=1"
  Values,
  Unended,      \* the values that fill what calloc gave, and have no NUL behind them
  Garbled,      \* such a value with what follows it in memory
  NoValue,
  BadParam,     \* a parameter without "=", or with nothing after it
  MAX_HEADER_URL_PARAMETERS

Param == [tag : Tags \union {NoTag}, value : Values]

Lines == {"other", "length", "bad_length", "bad_endpoint", "malformed"} \union Endpoints

Bases == {"root", "path", "overrun", "deep", "long", "empty"}

\* What may be wrong with a message before its URL, in the order of the checks, and
\* the codes for it.
StartChecks ==
  << <<"size", -100>>, <<"delimiter", -101>>, <<"lines", -102>>, <<"words", -104>>,
     <<"verb_length", -105>>, <<"verb", -106>>, <<"version_length", -107>>,
     <<"version_parts", -108>>, <<"protocol", -109>>, <<"version", -110>>,
     <<"url_length", -112>> >>

Faults == {StartChecks[n][1] : n \in DOMAIN StartChecks} \ {"lines"}

\* carries: the verb is PUT or POST.  params: the pieces between "&" of what follows
\* the "?", <<>> if there is none.  body: its pieces between line ends.
IsMessage(m) ==
  /\ m.faults \subseteq Faults
  /\ m.carries \in BOOLEAN
  /\ m.base \in Bases
  /\ m.params \in Seq(Param \union {BadParam, Blank})
  /\ m.headers \in Seq(Lines)
  /\ m.body \in Seq(Lines \union {Blank}) \ {<<>>}

ASSUME AnalyzeMethodAssumption ==
  /\ \A m \in Messages : IsMessage(m)
  /\ Unended \subseteq Values
  /\ Garbled \notin Values /\ NoValue \notin Values \union {Garbled}
  /\ NoEndpoint \notin Endpoints
  /\ NoTag \notin Tags
  /\ Blank \notin Lines \union Param \union {FirstLine, BadParam}
  /\ BadParam \notin Param
  /\ Endpoints \intersect {"other", "length", "bad_length", "bad_endpoint", "malformed"} = {}
  /\ MAX_HEADER_URL_PARAMETERS \in 1..MAX_HEADER_HEADERS

VARIABLES
  msg,                 \* the request, NoMessage before it
  pc,
  i,                   \* loop counter
  rc,                  \* what init_header returned, 0 before it does
  url_base,            \* url_base is set
  url_body,            \* url_body is set
  content_length,      \* 0 from calloc, -1 for none, 1 for the length that was given
  epnt,
  url_params_tokens,
  url_params_ordered,  \* the tags that have been stored
  url_params_values,
  call                 \* the script call: what is passed and how many are announced

hh   == <<url_base, url_body, content_length, epnt,
          url_params_tokens, url_params_ordered, url_params_values>>
vars == <<msg, pc, i, rc, hh, call>>

-----------------------------------------------------------------------------

NoMessage == [faults |-> {}, carries |-> FALSE, base |-> "empty", params |-> <<>>,
              headers |-> <<>>, body |-> <<Blank>>]

EmptyTable == [t \in Tags \union {NoTag} |-> NoValue]

NoCall == [script |-> NoEndpoint, params |-> {}, body |-> FALSE, nargs |-> 0]

PCs == {"idle", "start", "base", "headers", "query", "params", "signature",
        "crashed", "called"}

TypeOK ==
  /\ IsMessage(msg)
  /\ pc \in PCs
  /\ i \in Nat
  /\ rc \in -119..0
  /\ url_base \in BOOLEAN
  /\ url_body \in BOOLEAN
  /\ content_length \in -1..1
  /\ epnt \in Endpoints \union {NoEndpoint}
  /\ url_params_tokens \in 0..(MAX_HEADER_HEADERS + 1)
  /\ url_params_ordered \in Seq(Tags \union {NoTag})
  /\ url_params_values \in [Tags \union {NoTag} -> Values \union {Garbled, NoValue}]
  /\ call.params \subseteq Tags \X (Values \union {Garbled})
  /\ call.nargs \in 0..(MAX_HEADER_HEADERS + 2)
  /\ Len(url_params_ordered) =< url_params_tokens

Init ==
  /\ msg = NoMessage
  /\ pc = "idle"
  /\ i = 0
  /\ rc = 0
  /\ url_base = FALSE
  /\ url_body = FALSE
  /\ content_length = 0
  /\ epnt = NoEndpoint
  /\ url_params_tokens = 0
  /\ url_params_ordered = <<>>
  /\ url_params_values = EmptyTable
  /\ call = NoCall

\* header_lines[1], ...: the pieces of the whole message, its body included.
HeaderLines(m) ==
  Tail(Tokenize(<<FirstLine>> \o m.headers \o <<Blank>> \o m.body, TRUE))

UrlParams(m) == Tokenize(m.params, FALSE)

-----------------------------------------------------------------------------

Receive ==
  /\ pc = "idle"
  /\ msg' \in Messages
  /\ pc' = "start"
  /\ UNCHANGED <<i, rc, hh, call>>

\* init_header returns.
Return(code) == rc' = code /\ pc' = "signature"

Failing(m) ==
  {n \in DOMAIN StartChecks :
     \/ StartChecks[n][1] \in m.faults
     \/ StartChecks[n][1] = "lines" /\ Len(HeaderLines(m)) > MAX_HEADER_HEADERS}

\* Before these are reported, tokens are written past the memory for three words or
\* for two parts of a version, or a version that is missing is read uninitialised.
MayCrash(check) ==
  \/ check \in {"words", "version_parts", "version"}
  \/ check = "protocol" /\ "version" \in msg.faults

\* A check up to the URL fails: the first that does is the one that is reported.
FailStart ==
  /\ pc = "start"
  /\ \E n \in Failing(msg) :
        /\ \A k \in Failing(msg) : n =< k
        /\ \/ Return(StartChecks[n][2])
           \/ MayCrash(StartChecks[n][1]) /\ pc' = "crashed" /\ UNCHANGED rc
        /\ url_body' = (msg.carries /\ \E k \in 1..(n - 1) : StartChecks[k][1] = "verb")
  /\ UNCHANGED <<msg, i, url_base, content_length, epnt, url_params_tokens,
                 url_params_ordered, url_params_values, call>>

PassStart ==
  /\ pc = "start"
  /\ Failing(msg) = {}
  /\ url_body' = msg.carries
  /\ url_base' = TRUE
  /\ pc' = "base"
  /\ UNCHANGED <<msg, i, rc, content_length, epnt, url_params_tokens,
                 url_params_ordered, url_params_values, call>>

\* For "/" the headers are not looked at.
RootBase ==
  /\ pc = "base"
  /\ msg.base = "root"
  /\ pc' = "query"
  /\ UNCHANGED <<msg, i, rc, hh, call>>

\* The tokens of a path that is too deep are written past their array before they are
\* counted; the allocator may find out.
DeepBase ==
  /\ pc = "base"
  /\ msg.base = "deep"
  /\ \/ Return(-113)
     \/ pc' = "crashed" /\ UNCHANGED rc
  /\ UNCHANGED <<msg, i, hh, call>>

\* A name in the path of 24 or 25 bytes, or of 16 more and so on, is copied to less
\* memory than it needs: strlen(s + 1), not strlen(s) + 1.
PathBase ==
  /\ pc = "base"
  /\ msg.base \notin {"root", "deep"}
  /\ \/ pc' = "headers"
     \/ msg.base = "overrun" /\ pc' = "crashed"
  /\ i' = 1
  /\ content_length' = -1
  /\ epnt' = NoEndpoint
  /\ UNCHANGED <<msg, rc, url_base, url_body, url_params_tokens, url_params_ordered,
                 url_params_values, call>>

-----------------------------------------------------------------------------

\* One round of the loop over the headers.
Header(line) == pc = "headers" /\ i =< Len(HeaderLines(msg)) /\ HeaderLines(msg)[i] = line

\* Faulty variant of BadHeader: a header without a colon is passed over.
BadHeaderPassed ==
  /\ \/ Header("malformed") /\ i' = i + 1 /\ UNCHANGED <<pc, rc>>
     \/ Header("bad_length") /\ Return(-118) /\ UNCHANGED i
     \/ Header("bad_endpoint") /\ Return(-119) /\ UNCHANGED i
  /\ UNCHANGED <<msg, hh, call>>

BadHeader ==
  /\ \/ Header("malformed") /\ Return(-117)
     \/ Header("bad_length") /\ Return(-118)
     \/ Header("bad_endpoint") /\ Return(-119)
  /\ UNCHANGED <<msg, i, hh, call>>

ContentLength ==
  /\ Header("length")
  /\ i' = i + 1
  /\ content_length' = 1
  /\ UNCHANGED <<msg, pc, rc, url_base, url_body, epnt, url_params_tokens,
                 url_params_ordered, url_params_values, call>>

Endpoint(e) ==
  /\ Header(e)
  /\ i' = i + 1
  /\ epnt' = e
  /\ UNCHANGED <<msg, pc, rc, url_base, url_body, content_length, url_params_tokens,
                 url_params_ordered, url_params_values, call>>

OtherHeader ==
  /\ Header("other")
  /\ i' = i + 1
  /\ UNCHANGED <<msg, pc, rc, hh, call>>

EndHeaders ==
  /\ pc = "headers"
  /\ i > Len(HeaderLines(msg))
  /\ pc' = "query"
  /\ UNCHANGED <<msg, i, rc, hh, call>>

-----------------------------------------------------------------------------

NoQuery ==
  /\ pc = "query"
  /\ msg.params = <<>>
  /\ Return(0)
  /\ UNCHANGED <<msg, i, hh, call>>

TooManyParams ==
  /\ pc = "query"
  /\ msg.params # <<>>
  /\ Len(UrlParams(msg)) - 1 > MAX_HEADER_URL_PARAMETERS
  /\ Return(-115)
  /\ UNCHANGED <<msg, i, hh, call>>

\* Faulty variant of Query: tokenizer's result is taken for the number of parameters.
QueryOneLess ==
  /\ pc = "query"
  /\ msg.params # <<>>
  /\ Len(UrlParams(msg)) - 1 =< MAX_HEADER_URL_PARAMETERS
  /\ url_params_tokens' = Len(UrlParams(msg)) - 1
  /\ i' = 1
  /\ pc' = "params"
  /\ UNCHANGED <<msg, rc, url_base, url_body, content_length, epnt,
                 url_params_ordered, url_params_values, call>>

\* "?" alone is no parameter and no error.
Query ==
  /\ pc = "query"
  /\ msg.params # <<>>
  /\ Len(UrlParams(msg)) - 1 =< MAX_HEADER_URL_PARAMETERS
  /\ url_params_tokens' = Len(UrlParams(msg))
  /\ i' = 1
  /\ pc' = "params"
  /\ UNCHANGED <<msg, rc, url_base, url_body, content_length, epnt,
                 url_params_ordered, url_params_values, call>>

\* One round of the loop over the parameters.
AtParam(p) == pc = "params" /\ i =< url_params_tokens /\ p = UrlParams(msg)[i]

FailParam ==
  /\ \/ AtParam(BadParam)
     \/ AtParam(Blank)
  /\ Return(-116)
  /\ UNCHANGED <<msg, i, hh, call>>

\* ht_create((url_params_tokens - 1) * 2) for a single parameter has no entries.
NoEntries == url_params_tokens = 1

StoreParam(p) ==
  /\ AtParam(p)
  /\ ~NoEntries
  /\ url_params_ordered' = Append(url_params_ordered, p.tag)
  /\ \E value \in {p.value} \union (IF p.value \in Unended THEN {Garbled} ELSE {}) :
        url_params_values' = [url_params_values EXCEPT ![p.tag] = value]
  /\ i' = i + 1
  /\ UNCHANGED <<msg, pc, rc, url_base, url_body, content_length, epnt,
                 url_params_tokens, call>>

\* ht_set stores to entries[hash], anywhere in memory.
SingleParam(p) ==
  /\ AtParam(p)
  /\ NoEntries
  /\ pc' = "crashed"
  /\ UNCHANGED <<msg, i, rc, hh, call>>

EndParams ==
  /\ pc = "params"
  /\ i > url_params_tokens
  /\ Return(0)
  /\ UNCHANGED <<msg, i, hh, call>>

-----------------------------------------------------------------------------

\* Faulty variant of HasSignature: tags the loop did not come to are passed over.
HasSignatureSoFar ==
  /\ url_base
  /\ msg.base \notin {"empty", "long"}
  /\ \A k \in DOMAIN url_params_ordered :
        /\ url_params_ordered[k] # NoTag
        /\ url_params_values[url_params_ordered[k]] # NoValue

\* get_lua_file_signature finds a base and a value for each tag.  Tags that the loop
\* did not come to are uninitialised: reading them crashes or finds no value.
HasSignature ==
  /\ url_base
  /\ msg.base \notin {"empty", "long"}
  /\ Len(url_params_ordered) = url_params_tokens
  /\ \A k \in DOMAIN url_params_ordered :
        /\ url_params_ordered[k] # NoTag
        /\ url_params_values[url_params_ordered[k]] # NoValue

\* The signature is NULL, which capilua does not expect.
NoSignature ==
  /\ pc = "signature"
  /\ ~HasSignature
  /\ pc' = "crashed"
  /\ UNCHANGED <<msg, i, rc, hh, call>>

\* Faulty variant of Call: the body is passed even if no length was given.
CallWithBody ==
  /\ pc = "signature"
  /\ HasSignature
  /\ LET tags == {url_params_ordered[k] : k \in DOMAIN url_params_ordered}
     IN call' = [script |-> epnt,
                 params |-> {<<t, url_params_values[t]>> : t \in tags},
                 body   |-> url_body,
                 nargs  |-> url_params_tokens + (IF url_body THEN 1 ELSE 0)]
  /\ pc' = "called"
  /\ UNCHANGED <<msg, i, rc, hh>>

\* Faulty variant of Call: the body is pushed and not counted.
CallBodyUncounted ==
  /\ pc = "signature"
  /\ HasSignature
  /\ LET bodyExists == url_body /\ content_length # -1
         tags == {url_params_ordered[k] : k \in DOMAIN url_params_ordered}
     IN call' = [script |-> epnt,
                 params |-> {<<t, url_params_values[t]>> : t \in tags},
                 body   |-> bodyExists,
                 nargs  |-> url_params_tokens]
  /\ pc' = "called"
  /\ UNCHANGED <<msg, i, rc, hh>>

\* The body is pushed if the verb has one and its length is not -1, then what is in
\* the table of parameters, in the table's order.
Call ==
  /\ pc = "signature"
  /\ HasSignature
  /\ LET bodyExists == url_body /\ content_length # -1
         tags == {url_params_ordered[k] : k \in DOMAIN url_params_ordered}
     IN call' = [script |-> epnt,
                 params |-> {<<t, url_params_values[t]>> : t \in tags},
                 body   |-> bodyExists,
                 nargs  |-> url_params_tokens + (IF bodyExists THEN 1 ELSE 0)]
  /\ pc' = "called"
  /\ UNCHANGED <<msg, i, rc, hh>>

-----------------------------------------------------------------------------

InitHeader ==
  \/ FailStart \/ PassStart \/ RootBase \/ DeepBase \/ PathBase
  \/ BadHeader \/ ContentLength \/ OtherHeader \/ EndHeaders
  \/ \E e \in Endpoints : Endpoint(e)
  \/ NoQuery \/ TooManyParams \/ Query \/ FailParam \/ EndParams
  \/ \E p \in Param : StoreParam(p) \/ SingleParam(p)

Next == Receive \/ InitHeader \/ NoSignature \/ Call

Spec == Init /\ [][Next]_vars

-----------------------------------------------------------------------------
(***************************************************************************)
(* Properties.                                                             *)
(***************************************************************************)

\* Both cuttings of a message, into lines and into parameters, lose only what they
\* should lose: the branches of tokenizer for the first, the middle and the last piece
\* come to the same as splitting.
TokensRight ==
  /\ SplitsRight(<<FirstLine>> \o msg.headers \o <<Blank>> \o msg.body, TRUE)
  /\ msg.params # <<>> => SplitsRight(msg.params, FALSE)

\* The lines of the body that are ended: tokenizer does not tell them from headers.
BodyLines == {k \in 1..(Len(msg.body) - 1) : msg.body[k] # Blank}

HasLine(line) ==
  \/ \E k \in DOMAIN msg.headers : msg.headers[k] = line
  \/ \E k \in BodyLines : msg.body[k] = line

\* The message has the fault that a code of http_header.h:25-45 names.
Bad(code) ==
  \/ \E n \in DOMAIN StartChecks :
        StartChecks[n][2] = code /\ StartChecks[n][1] \in msg.faults
  \/ code = -102 /\ Len(msg.headers) + Cardinality(BodyLines) > MAX_HEADER_HEADERS
  \/ code = -113 /\ msg.base = "deep"
  \/ code = -117 /\ HasLine("malformed")
  \/ code = -118 /\ HasLine("bad_length")
  \/ code = -119 /\ HasLine("bad_endpoint")
  \/ code = -115 /\ Cardinality(Wanted(msg.params, FALSE)) > MAX_HEADER_URL_PARAMETERS + 1
  \/ code = -116 /\ \E k \in DOMAIN msg.params :
        \/ msg.params[k] = BadParam
        \/ k = 1 /\ msg.params[k] = Blank /\ Len(msg.params) > 1

Codes == {StartChecks[n][2] : n \in DOMAIN StartChecks} \union {-113} \union -119..-115

\* "returns ERROR CODES as defined, HEADER_OK (0) if all good" (http_header.c:41): a
\* code is returned only for a message that has that fault, and 0 only for one that
\* has none, but for "/", which hides what is wrong with the headers.
RightCode ==
  pc \in {"signature", "called"} =>
    /\ rc # 0 => Bad(rc)
    /\ rc = 0 => \A code \in Codes : Bad(code) => code \in -119..-117 /\ msg.base = "root"

\* analyze_method goes on after an error, but never with half of what was asked: a
\* refused request crashes or calls its script without any parameter.
RefusedRunsBare ==
  pc = "called" /\ rc # 0 =>
    call.params = {} /\ call.nargs = (IF call.body THEN 1 ELSE 0)

\* A request with nothing wrong, and with none of what the code does not survive: a
\* single parameter, values and names that fill their memory.
Plain(m) ==
  /\ \A code \in Codes : ~Bad(code)
  /\ m.base = "path"
  /\ \A k \in DOMAIN m.params : m.params[k] # Blank =>
        m.params[k].tag # NoTag /\ m.params[k].value \notin Unended
  /\ Cardinality({k \in DOMAIN m.params : m.params[k] # Blank}) # 1

\* The parameters of a request, the last one of each name.
Asked(m) ==
  {<<m.params[k].tag, m.params[k].value>> :
     k \in {j \in DOMAIN m.params :
            /\ m.params[j] # Blank
            /\ \A l \in DOMAIN m.params :
                 l > j /\ m.params[l] # Blank => m.params[l].tag # m.params[j].tag}}

\* Such a request always reaches its script, with all its parameters and with its body
\* if it has one and says how long that is.
CalledAsAsked ==
  Plain(msg) =>
    /\ pc # "crashed"
    /\ pc = "called" =>
         /\ call.params = Asked(msg)
         /\ call.body = (msg.carries /\ \E k \in DOMAIN HeaderLines(msg) :
                                          HeaderLines(msg)[k] = "length")

\* What is pushed for a script was announced to lua_pcall, whatever was repeated or
\* refused: otherwise the call would take the first argument for the function
\* (run_lua.c:39-58).
AnnouncesEnough ==
  pc = "called" =>
    Cardinality(call.params) + (IF call.body THEN 1 ELSE 0) =< call.nargs

\* "header_lines - whole http header line by line" (http_header.c:274): what is taken
\* from header lines was in the header.
HeaderOnly ==
  epnt # NoEndpoint => \E k \in DOMAIN msg.headers : msg.headers[k] = epnt

=============================================================================
