# TLA+ models of the C API server of EnergyEfficientProgramming

The program is `src/dev-capi`: a socket server in C that parses HTTP requests by
hand, picks a Lua script by verb and header, runs it in an interpreter of its own
for each request, and lets the script query one MySQL table. Clients in Python and
C put load on it while energy is measured. The server carries the sources of what it
builds on: the Lua 5.3 interpreter (`server/lua`) and cJSON (`server/cJSON`), which are
the larger part of its code and are modelled where they are hard to get right.
`src/java-api` is the same table API as a Spring Boot application, for comparison.

Paths below are under `src/dev-capi/server` unless they say otherwise.

## 1. Inventory

### Connection server: `server.c` - modelled (`ConnServer`, `RecvBuffer`)

- State: the listening socket's backlog, the descriptor table of the process, one
  POSIX thread per accepted connection with its argument (`sd`, `ip`, `port`), the
  request in a thread's buffer.
- Operations: the accept loop of `main` (l. 72-102), `thread` (l. 120-139), which
  loops over recv, `analyze_method`, send and close.
- Hard: after `close(sd)` the loop receives again *from the same number*, which the
  accept loop may have given to another client; recv, send and close each resolve
  the number at their own moment; `accept` and `pthread_create` failures are tested
  with `!= 0` and `< 0` and pass; when recv returns 0 nothing closes the
  descriptor; one recv is taken for one request; the buffer is never cleared and
  recv writes no NUL, so a message ends where an earlier one did.
- Correct means: each client gets the replies to its own requests, in order, once;
  no request is lost; a connection is closed only when it is done; no
  descriptor leaks; a client that waits is served; a message is what was sent.

### Hash table: `impl/ht.c`, `headers/ht.h` - modelled (`HashTable`, `Dictionary`)

- State: entries, capacity, length; during an expansion a second array; during an
  iteration its index. Keys are copied, values are not.
- Operations: `ht_create`, `ht_destroy`, `ht_get`, `ht_set` (with `ht_expand` and
  `ht_set_entry`), `ht_length`, `ht_iterator`, `ht_next`.
- Hard: linear probing with wrap around relies on an empty slot being there; growing moves
  entries to other slots; calloc and strdup may fail in the middle; capacity 0.
- Correct means: it is a dictionary, as `ht.h` describes it, whatever fails; every
  probing loop ends.

### Tables of valid verbs and versions: `impl/http_header.c` l. 9-39 - modelled (`ValidMap`)

- State: two global pointers, `valid_verb_map` and `valid_http_version_map`.
- Operations: `init_header_verb_list` / `_version_list` make the table anew for
  *every* request, the check looks the request's word up. No lock.
- Hard: every interleaving of threads at single memory accesses, an expansion that
  frees the array another thread is using included, or two expansions of one table.
- Correct means: valid words are accepted and others refused; no thread loops for
  ever or leaves its array.

### Tokenizer: `impl/str_utils.c` - modelled (`Tokenizer`)

- No state. `tokenizer` cuts a string at a separator with `get_next_token`; it
  keeps an empty first piece, drops later ones, and knows one limit
  (`MAX_HEADER_HEADERS`) for all its callers' arrays. It returns the last index.
- Correct means: the pieces come out in order, none lost, and too many show.

### HTTP header parser: `impl/http_header.c` - partly modelled (`AnalyzeMethod`)

- State: one `http_header`, calloc'ed for each request and never freed inside.
- Operations: `init_header` (20 error codes), `get_lua_file_signature`. The
  accessors (l. 477-509, `get_header` and its like) are not called by the server.
- Hard: what `init_header` returns is ignored, so a script call is made of whatever
  was filled in before the error; the lines of the body are tokenized as header
  lines; one parameter makes a table of capacity 0; parameters after a bad one are
  uninitialised memory; values are stored without a NUL.
- Correct means: the code names a fault the message has; a script never runs
  with half of what was asked; a good request reaches its script complete.

### Lua runner: `impl/run_lua.c` - modelled (`AnalyzeMethod!Call`, `LuaRun`)

- State: a Lua state per request; **one static buffer** in `format_response_C` for all
  threads.
- Operations: `capilua`, `execute_script`, `format_response_C`.
- Hard: two scripts that format at once mix their responses; a parameter given twice
  is pushed once but counted twice, so the call takes what is below the
  arguments for the function; a script that fails replies "FAILED".
- Correct means: the table is changed as asked or not at all; a reply is the request's
  own unless others disturbed it, and then still parts of true ones; nothing but real trouble ends the process.

### MySQL functions: `impl/mysql_utils.c` - modelled (`LuaRun`)

- State: a connection per query, the rows of its result.
- Hard: after a failed connect or query `execute_query` goes on, and what it pushed last is
  what the script sees; `query_select_C` reads from a NULL result.

### Endpoint scripts: `me/you/and/yourself/*.lua` - modelled (`LuaRun`)

`GET_default`, and `GET`, `POST`, `PUT`, `DELETE` `_testforme`; each takes a fixed
number of arguments by position, though the table they come from has no order.

### Select server: `src/dev-capi/examples/ncapi.c` - modelled (`SelectServer`)

- State: a slot for each client (socket, buffers, thread result), **one argument struct**
  for all threads, the descriptor sets of select.
- Operations: the loop of `main` (accept, read, start a thread, write) and `thread`.
- Hard: main overwrites the argument while a thread is still to read it; whether a
  reply is there is asked of the first slot only; the writing loop uses the variable of the
  loop around it; a client without a slot is accepted and forgotten.

### cJSON: `cJSON/cJSON.c`, `cJSON/cJSON_Utils.c` - modelled (`CJsonTree`, `CJsonText`, `CJsonUtils`)

- State: items linked by `next`, `prev` and `child`, where the first item's `prev` is
  the end of the list; their texts; the buffer of a print.
- Operations: build, detach, replace, reference, duplicate, compare; parse, print into three
  kinds of buffer, minify; pointers, patches, merge patches.
- Hard: an allocation that fails half-way; references that share what they show;
  buffers that grow and must hold the NUL; reading up to, and not behind, a text's end;
  sorting while comparing; patches that stop in the middle.

### Lua interpreter: `lua/*.c` - partly modelled (`LuaGC`, `LuaTable`, `LuaCode`, `LuaCalls`, `LuaMatch`, `LuaTableLib`)

- Collector (`lgc.c`): objects of three colours and two whites on several lists, a collector
  that works in small steps, weak tables, finalizers that resurrect, coroutines that
  are never black. Correct means: garbage and only garbage is freed.
- Tables (`ltable.c`): array and hash part, chains through one vector of nodes, dead keys.
- Code generator (`lcode.c`, `lparser.c`, executed by `lvm.c`): jump lists that run through the
  code itself, registers as a stack. Correct means: the code does what the program says.
- Calls (`ldo.c` with `lapi.c`, `lbaselib.c`, `lcorolib.c`): longjmp cuts the C stack while
  each thread keeps its list of calls; continuations, protected calls and coroutines meet.
- Patterns (`lstrlib.c`): a backtracking matcher with shared captures and a depth counter.
- Lists (`ltablib.c`): a quicksort whose order function may lie or throw, overlapping moves.

### Clients: `src/dev-capi/driver`, `src/dev-capi/client` - as the environment of `ConnServer`

`driver/*.py` send one request per connection and read one reply;
`client/C/client.c` sends the next request on the same connection after each reply.

### Java API: `src/java-api` - not modelled

Handlers that each make one repository call; transactions and locking are the framework's.

### How they interact

    client --TCP--> main: accept --pthread_create--> thread
      thread: recv -> analyze_method -> send -> close -> recv ...
        analyze_method: init_header -> get_lua_file_signature -> capilua
          init_header: tokenizer, the tables of valid words, ht_* for parameters
          capilua -> execute_script -> Lua script -> query_*_C, format_response_C
                     (Lua: ldo.c calls, lvm.c runs what lcode.c made, ltable.c, lgc.c)
                     (query_select_C: rows to JSON with cJSON)

Threads share: the descriptor table, the two global tables of valid words, the
static response buffer, the allocator, and the stacks that one thread leaves to the next.

## 2. Modules

| Module | Models | Composes |
|---|---|---|
| `ConnServer` | `server.c`: accept loop, threads, descriptors, clients | - |
| `RecvBuffer` | the array `client_message` of `thread`, over several messages and threads | - |
| `HashTable` | `impl/ht.c` step by step | implements `Dictionary` |
| `Dictionary` | what `headers/ht.h` promises | - |
| `ValidMap` | the global tables of valid words, one memory access per step | the algorithm of `ht.c`, concurrent |
| `Tokenizer` | `impl/str_utils.c` | - |
| `AnalyzeMethod` | `init_header`, `get_lua_file_signature`, argument pushing | `Tokenizer`; takes tables as the dictionaries `HashTable` implements |
| `LuaRun` | `run_lua.c`, the scripts, `mysql_utils.c` | takes calls as `AnalyzeMethod` makes them |
| `SelectServer` | `examples/ncapi.c` | - |
| `CJsonTree` | the trees of `cJSON.c` in memory | - |
| `CJsonText` | its parser, printer and Minify | values are those of `CJsonTree`'s items |
| `CJsonUtils` | `cJSON_Utils.c` on values, with the `prev` of each list's first item | the same values |
| `LuaGC` | `lgc.c`, and what `lstring.c`, `lfunc.c` add | - |
| `LuaTable` | `ltable.c` | - |
| `LuaCode` | `lcode.c`, the rules of `lparser.c`, the instructions of `lvm.c` | - |
| `LuaCalls` | `ldo.c` and its callers | - |
| `LuaMatch` | patterns of `lstrlib.c` | - |
| `LuaTableLib` | `ltablib.c` | - |
| `MCConnServer`, `MCHashTable`, `MCValidMap`, `MCAnalyzeMethod` | instances for TLC | one module each |
| `MCHeader` | the header parser | `MCAnalyzeMethod`, `MCValidMap` side by side |
| `MCThreads` | memory that threads share | `LuaRun`, `RecvBuffer`, `SelectServer` side by side |
| `MCData` | what data is kept in | `MCHashTable`, `CJsonTree`, `CJsonText`, `CJsonUtils` side by side |
| `MCLua` | the interpreter | `LuaTableLib`, `LuaCalls` and the other four modules of Lua side by side |
| `ConnServerProofs`, `HashTableProofs`, `LuaTableLibProofs` | theorems | `ConnServer`, `HashTable`, `LuaTableLib`, one each |
| `HeaderProofs` | theorems | `AnalyzeMethod`, `ValidMap` |
| `ThreadsProofs` | theorems | `LuaRun`, `RecvBuffer`, `SelectServer` |
| `LuaCallsInvariant`, `LuaCallsSteps`, `LuaCallsProofs` | the invariant of the calls; each step of theirs; the theorem | `LuaCalls`; each extends the one before |

"Side by side": the variable `part` says which of the systems a behaviour is of; the others
stay as they are. A property of one part is the property of its module.

`ConnServer` sees `analyze_method` as a step that either survives or takes the
process with it; `AnalyzeMethod` says which messages do which; `ValidMap` says what the
concurrent part of it can answer; `LuaRun` starts from the calls that `AnalyzeMethod` ends in,
and `CalledAsAsked`, `RefusedRunsBare` and `AnnouncesEnough` say what those can be.
Definitions named as faulty variants (`...Forgotten`, `...Early`, `CallWithBody`, ...) are
not part of any specification: each is a plausible bug in the definition after it,
and shows that the properties would notice.

### ConnServer

- `fdt[f]` is the descriptor table; a thread has the number `sd[t]`. `EnterRecv`
  resolves the number and keeps the connection (`at[t]`) until recv returns, as
  the kernel does; `Send` and `Close` resolve it again.
- `Analyze`, `Send`, `Close` are one action each, because another thread may run
  between any two of the calls of the loop. `RecvEof` ends the thread without
  closing, `RecvBadFd` is EBADF.
- `Accept` takes *any* free number: the scripts open files and sockets meanwhile,
  so the lowest free number is not predictable. `AcceptWithoutThread` and
  `AcceptFails` are the two tests that never see an error.
- A client that has closed answers the first `send` with a reset, and the next
  raises SIGPIPE, which ends the process.
- A `Piece` is a segment of a request, and `left` the pieces that are still to come after it.
  `thread` takes each for a request. Whether `analyze_method` survives one (`Survives`) depends on
  its text, and on what earlier messages left in the array behind it: the rest of a request in
  pieces may end the process, or may pass for a request and be answered. Both happen in the
  model, for any piece, wherever `MayGarble`.

### RecvBuffer

- A message is its length; a byte of the array is the number of the message it came from.
  A stack is given to a later thread with what is in it, or the kernel clears it (`Clear`).
- `StrLen` is where the first NUL is, which is what `analyze_method` takes for the end.

### HashTable and Dictionary

- `Set` looks whether the table must grow; `Expand`, one `Move` per slot, and `Publish` are
  `ht_expand`; `Update`, `Insert` are `ht_set_entry`. `ExpandFails` and
  `InsertFails` are calloc, the overflow test, and strdup failing. `IterNext` and `IterEnd` are `ht_next`.
- `HashIndex(k, c)` stands for `hash_key(k) & (c - 1)`, all that the table uses of
  the hash. `MCHashTable` masks with W bits, so capacity 0 gives a mask of ones.
- `copies` counts the strdup'ed keys; `ret` is what the last call returned, which is
  how `Dictionary` sees the table.

### ValidMap

- `valid_verb_map` is `map`, the tables and arrays that were ever made are kept in
  `tables` and `arrays` so that a thread can hold an old one. What is freed, or beyond the
  end of an array, is `Astray`: it is read and written with any outcome (`SetAstray`,
  `LookAstray`, or an abort of the allocator), since this is undefined behaviour.
- The hash slots of the words are those of FNV-1a, as `ht.c` computes it.
- Memory is sequentially consistent in the model: what a weaker order of the stores would
  add is not explored.

### Tokenizer and AnalyzeMethod

- A string is the sequence of its pieces between separators, each possibly empty.
  `Rounds` is the loop of `tokenizer`, a recursive function of the round, and `Tokenize` what it
  returns; `Wanted` and `SplitsRight` say what it should be, without a loop: the n-th token is
  the piece that n - 1 wanted pieces come before.
- A message has a set of faults in its first line, a kind of URL base, the pieces
  of its query, its header lines and the lines of its body. Every check of
  `init_header` is a guard on these, in the order of the code; `Return` is a return.
  Three codes are never returned and have no step: -103, since a message with an empty
  line has a line; -111, since the first line has three words then; and -114, since
  `url_params` is what `strstr` found for "?".
- What calloc gave is part of `Init` (`content_length = 0`, although the comment at
  `headers/http_header.h:93` says -1 when there is none: for the URL `/`, whose
  headers are not read, the body is passed without a length).
- Overruns are nondeterministic: the code goes on, or the process crashes. They are
  too many tokens for `header_fl`, `version_tk` and `url_base_tokens`, a missing
  version, `strlen(s + 1)` at l. 267, values without NUL at l. 463, and the
  table without entries of a single parameter.

### LuaRun

- A call has a script, the kinds of its arguments and the number announced. `Missing` is how
  many more are announced than pushed: then `lua_pcall` takes an argument, or what is below it,
  for the function.
- The response buffer is a row of cells, each with the thread whose text is in it, or with the
  NUL. `sprintf` writes the first cell, status line and headers (`FormatHead`), then the message cell by cell
  (`FormatMessage`), and the NUL last (`FormatEnd`); `lua_pushstring` first looks for a NUL (`Measure`), then copies
  up to the place where it found one (`Push`). Other threads run between any two of these steps, so
  that a reply may be empty, short, or made of several; `alone` says whom nobody disturbed meanwhile.
  How long a text is depends on the answer (`Length`); a text of long rows overruns the buffer.
- The database may refuse a connection or a query, or give more rows than the buffer
  has room for (`long_rows`); json.lua accepts or not.

### SelectServer

- `main` is one action for each step another thread can see: select, accept, read, start a thread,
  test a slot, write it. Threads read their argument field by field and fill their slot so.
- `ReadEof` stores the address of the peer in the variable that `main` accepts addresses in, too.
- `overlap` says that a message was read while a thread was at work, `company` that a client
  was not the only one. Without `overlap` and without clients that leave times are `Calm`.

### Functions: CJsonText, CJsonUtils, LuaCode, LuaMatch

These modules model functions that keep no state between two calls. Their only variable is the
`call` that is made, an action for each function chooses what it is given, and `Returned` is
what the code computes for it. The properties are properties of that step.

### CJsonTree, CJsonText, CJsonUtils

- `CJsonTree`: memory is a record of items and blocks; using what is free sets `fault`.
  `lists` is what the client has put into each container. One action is one call, and any
  allocation in it may fail.
- `CJsonText`: the parser moves an offset through character codes, the printer fills a buffer
  whose `Ensure` is `ensure`. A number is one or two digits.
- `CJsonUtils` works on values and paths. An object has, besides its members, the number of the one
  that the first item's `prev` points to, for that is where `add_item_to_array` appends
  (`AddMember`). Whatever sorts an object sorts it in place: `CompareJson`, `CreatePatches` and
  `GenerateMergePatch` return what becomes of their arguments. The cut of `sort_list`
  (`cJSON_Utils.c:435`) leaves that `prev` NULL (0), at an item that is no longer the last, or,
  once that one is deleted, at freed memory (`Gone`). What is appended then is dropped, cuts the list off behind
  its item, or is a write to freed memory (`Wild`, `cJSON.c:1676`). So patches are applied to a copy, and
  to the value they were made for, and an operation also comes after a test of the whole value.
- Its `decode_pointer_inplace`, `detach_path` and
  `sort_list` are what the code does, not what their names say: `~1` is written to the second
  character whatever its place, members are detached without regard to case, and
  `generate_merge_patch` compares with strcmp what was sorted without case. The
  properties name these conditions; one of them is that the members were in order before (`InOrder`).

### LuaGC

- `g` is the heap: colours, lists, phases. One action is one store, creation or call of
  the program, or one step of the collector (`singlestep`). A table has one entry,
  a coroutine one stack slot, a closure one upvalue.
- `full` and `cycles` tell a full collection from an incremental one; `MaxOps` and
  `MaxCycles` bound the program.

### LuaTable, LuaCode, LuaMatch

- `LuaTable`: nodes are numbered, `next` is an offset as in the code; `store` is what the
  program believes the table to hold, `walk` the traversal under way.
- `LuaCode`: `Compile` is the parser's rules with `lcode.c`'s functions on a record of code,
  jump lists and registers; `Run` is the instructions; `Meaning` is a direct interpreter of
  the same program. `Fuel` bounds the steps of a run.
- `LuaMatch`: `Match` is `match` with its cases; what patterns mean is defined over
  sets of characters, without states or captures to undo.

### LuaCalls

- The C stack is one sequence of C functions for all threads; each thread has its list of
  `CallInfo`s. An error and a yield cut the stack at the `setjmp` they go to; `Unroll`,
  `Recover` and `FinishC` then work on what the list says. `want` is what the program means to run.
- Values are left out: what is called with what is nondeterministic.

### LuaTableLib

- `sort` is one step for each comparison: `Left`, `Right` are the two loops of `partition`,
  `Split` the choice of the smaller side. The order function answers anything, or raises an error.
- `Pivots` are what `choosePivot` may take: the middle, or, for an interval of `RANLIMIT` or more once
  `rnd` is set, anything of the middle half. The code sets its `rnd` for the loop of one `auxsort` and
  the calls from it, of clock and time; here it is set for the rest of the sort, and the random
  number is any, which allows all that the code does and some more.
- `Power2`, the powers of 2, is a recursive function, as the proofs need it.
- The last section holds what `ListsInv`, the inductive invariant, is made of.

## 3. Runs

| Run | Instance | What it shows |
|---|---|---|
| `conn_one` | 2 connections, threads, descriptors; one request each; clients may leave; fairness | replies never cross, are lost, doubled or cut short; only silent leavers leak a descriptor; who asked and stays is served |
| `conn_many` | 3 connections, 2 threads and descriptors; 2 requests each, in one or two pieces, any of which may end the process or be answered | no piece of a request is answered twice, though everything else may go wrong |
| `conn_mixed` | 3 of each, 2 requests per connection | *violated*: a reply goes to another client |
| `conn_leak` | 2 clients, 1 descriptor, fairness of server and clients | *violated*: a client that left silently starves the other |
| `data` | hash tables of capacity 1-4 growing to 8; lists of up to 7 items; texts of 4 tokens; values of up to 4 members | entries reachable, room to stop, dictionary implemented; cJSON's lists whole, memory safe, texts read and written right, pointers and patches reach |
| `table_zero` | capacity 0 | *violated*: index outside the entries |
| `verbs_race` | 2 threads, table of verbs | *violated*: a valid verb is refused |
| `versions_within` | 3 threads, table of versions, three requests for 1.2 that race from the start | *violated*: a thread looks beyond the entries |
| `header` | about 29000 messages, limits of 2; or 2 threads, table of versions, 3 requests, fairness | tokens right, codes right, refused requests run bare, good requests arrive complete, enough arguments announced; alone requests are right even after races, growth only in races, indices within arrays, every check ends |
| `request_body` | the messages of `header` | *violated*: a body line names the script |
| `threads` | 2 requests and ten calls; an array of 3 bytes; 3 clients for 2 slots; fairness of the select server | changes as asked, replies that are one's own or have their parts in place, what ends the process, how far a message reaches, select server in calm times |
| `lua` | see the bounds | the interpreter, part by part |

### What the properties say

A property that is a conjunction of named parts is checked as a whole; its parts are
properties of their own in its module, each with the comment that says what it is about. Every
property has one faulty variant of the code which violates it.

| Property | Parts | What it says |
|---|---|---|
| `ResponseIntegrity`, `RequestInOnePlace`, `ClosedAfterReply` | | hold *only* with one request per connection and unsplit requests; the reason is the inductive invariant below |
| `AnsweredAtMostOnce` | | holds whatever the requests, and counts pieces: what one recv has returned is answered once at most. A request in two pieces *can* get two replies, when its rest passes for a request; that is what the code does with it, not excluded here |
| `OnlyLeaversLeak` | | with the drivers' behaviour every descriptor is closed in the end, but those of clients that left before they asked |
| `ClientServed` | | who asks and stays gets an answer |
| `Reachable`, `RoomToStop` | | what makes linear probing right |
| `CountsAgree` | | length and copied keys agree with the entries |
| `ImplementsDictionary` | | no expansion, failure or wrap around shows in results |
| `SetReturns` | | a call of `ht_set` returns |
| `RightWhenAlone` | | races damage only requests that overlap them |
| `ArraysRight` | `MapTypeOK`, `GrowsOnlyInRaces`, `WithinEntries` | the capacities asked for suffice for the lists, only double counting makes a table grow, and only then can an array be freed under a reader; publishing entries before capacity keeps indices in range, for two threads; for three `WithinEntries` is violated |
| `CheckReturns` | | the check of a word ends |
| `TokensRight` | | the three branches of `tokenizer` amount to splitting |
| `RightCode` | | a code other than 0 names a fault the message has, 0 means it has none (but for the headers of `/`) |
| `RefusedRunsBare` | | after an error the call crashes or runs with no parameters |
| `CalledAsAsked` | | a good request with no parameters, or at least two, reaches its script with the last value of each, and with its body if it says how long that is |
| `AnnouncesEnough` | | never more is pushed than announced |
| `ChangesAsAsked` | | the table changes only by a script that got all it was announced |
| `RepliesRight` | `TypeOK`, `OwnReply`, `PartsInPlace`, `EndsInside` | who is not disturbed between writing and reading the shared buffer gets its own reply, whole; a reply that others disturbed may be torn, but what it has in each place is what some true response of that time, or of an earlier request, had there, and it begins with headers; no search for a NUL goes beyond the buffer unless a response is itself too long |
| `DiesOnlyInTrouble` | | a request ends the process in these ways only: a SELECT or a `mysql_init` that fails, two arguments too few, rows that overrun the buffer |
| `MessageSeen` | `TypeOK`, `SeesLongest` | a message is followed by what the longest before it in the same stack left behind |
| `SlotsRight` | `TypeOK`, `CalmSlots`, `FirstSlotOwn`, `AloneOwn` | what the select server still gets right, and for whom; each condition is one of its faults |
| `CalmServed` | | in calm times every client of the select server is served |
| `TreesWhole` | `ListsAsGiven`, `MemorySafe`, `OnlyReferencesLeak` | whatever allocation fails, lists are what the client made them in both directions, nothing is freed twice or used after, only a reference without a name is lost |
| `TreesMean` | `CompareIsMeaning`, `CopiesAreWhole` | comparing is comparing meanings, in either order; copies share nothing |
| `PrintsRight` | `PrintsInside`, `PrintsParse`, `RoomIsEnough`, `MinifyUnformats` | nothing is written behind the buffer, what is printed is read back the same, the promise of `cJSON.h` about five more bytes holds, Minify gives the unformatted text but for strings that end in a backslash |
| `ParsesRight` | `ParsesGrammar`, `ReadsInside`, `LiteralsDecode` | the parser accepts a grammar's texts, reads nothing behind them, and decodes UTF-16 |
| `UtilsReach` | `PointerFinds`, `SortSorts`, `PatchesReach`, `MergeReaches`, `OperationsRight` | patches that are made and then followed arrive, but for escapes, names that differ in case, and null; a value that was out of order arrives only as a copy: in itself, sorted by then, merging loses members or writes to freed memory, and patches are not claimed to arrive; one operation against RFC 6902, after a test as well where objects are in order |
| `CollectorSafe` | `NothingLost`, `OneList`, `NoBlackToWhite`, `AllWhiteAgain` | nothing that the program reaches is freed, between any two steps of it |
| `CollectsGarbage` | `OnlyGarbage`, `LeavesNoGarbage` | a finalizer is called only for what the program cannot reach; a full collection leaves no garbage |
| `TablesKeep` | `TableKeeps` (`HoldsWhatWasStored`, `GrowsOnce`, `LengthIsBorder`, `WalkMeetsAll`), `WellUsed` | a table holds what was stored, also while it is rehashed or walked; an array part is more than half used |
| `CodeMeansProgram` | `MeansWhatItSays`, `RegistersInFrame`, `JumpsLand` | compiled and executed a program leaves what its meaning leaves |
| `CallsReturn` | `RunsWhatIsMeant`, `StatusRight`, `HandlerRight`, `CStackCounted`, `Continues` | after every mixture of calls, errors, yields and resumes the right function goes on |
| `PatternsMatch` | `FindsWhatIsMeant`, `DepthIsThePatterns`, `WalksMeetAll`, `ReplacesInPlace` | a match is the one the manual says; the depth of `match` is bounded by the pattern |
| `ListsKept` | `SortsByLess`, `KeepsValues`, `EndsSoon`, `CopiesAtOnce` | for every order function, consistent or not |

### Bounds

- `ConnServer`: two connections, threads and descriptors suffice for a number to be reused
  while a thread still has it; `conn_one` stays at two so that liveness can be checked in the
  same state graph, and the theorems say the same of any number. Two requests per connection
  are the smallest case beyond the drivers'; two pieces (`MaxParts`) are the smallest with a rest.
  `CLIENT_SIZE` is 1 or 2 so that the backlog can fill.
- `HashTable`: three keys whose hashes agree in their low two bits, and part in the
  third for one of them, collide in the small arrays, wrap around, and part when
  the array grows. Capacities 1 to 4 include those where half the capacity is 0 or 1;
  growth ends at 8, where `Expand` can only fail.
- `ValidMap`: two threads suffice for the races for the global pointer, a slot and a freed
  array; three requests allow one after a race. `MaxRequests` is the bound. That one thread
  reads what two others have published takes three; `versions_within` lets them make the
  table before any of them goes on (`TogetherSpec`), to find that in time.
- `AnalyzeMethod`: both limits are 2 instead of 32; messages have up to two parts more
  than the limit lets pass. The messages are three families (parameters, lines,
  faults); within a family the parts vary freely, across families they do not meet.
- `LuaRun`: two threads, two rows of which one fits (`MaxRows`, `FitRows`), and a call of
  every script, with all arguments and with some missing. The buffer has four cells (`BufferCells`), texts take two to
  four: one fits with a cell left over, one just fits, one does not.
- `RecvBuffer`: three bytes, four messages, so that a long one is followed by two shorter ones.
- `SelectServer`: three clients for two slots, one of which may leave; descriptors up to 3.
- `CJsonTree`: seven items, six blocks, three calls after a first tree: a list of two, its
  copy and an item to put in, with allocations failing at any point. Nesting limit 3.
- `CJsonText`: every text of up to four of nine tokens and some longer ones; printing with buffers of
  every size up to 30; the first and last codes of each length of UTF-8 and of both surrogates.
- `CJsonUtils`: pairs of values that differ in one place or several, names that differ in case only
  or need escapes; three members in and out of order, so that what is appended can be dropped, cut off what follows, or be
  written to freed memory; indices up to 12, so that they have two digits.
- `LuaGC`: three heaps that differ in kinds (two tables and a userdata; a table, a string and a
  userdata, two cycles; a coroutine and a closure), five or six operations, two objects swept a step.
  `GCSWEEPMAX` is about 85 in the code: as there, a sweep step gets past the finalizable objects;
  with one object a step `AllWhiteAgain` would not hold after a finalizer is set during a sweep.
- `LuaTable`: five keys of three kinds whose main positions collide, `MAX_INT` 3, initial sizes 0 to 3.
- `LuaCode`: about 2000 programs of up to six statements, from six starts; a run takes at most 80 steps.
- `LuaCalls`: one coroutine beside the main thread, four calls a thread (`MaxFrames`), a limit of four C calls
  (`MaxCCalls`) and of five while an error is handled (`ErrCCalls`), in the place of 200 and 225.
- `LuaMatch`: patterns of up to four items, texts of up to seven characters, `MAXCCALLS` 5.
- `LuaTableLib`: lists of up to five values of three kinds, and three of seven, with `RANLIMIT` 4 and a partition called
  imbalanced at 1 (100 and 128 in the code), so that the random pivots are taken; integers up to 3 for `move`.
- Deadlock is not checked where the system may stop: a server without clients,
  requests that are all served, a crashed process, a function that has returned.

### Fairness

`FairSpec` of `ConnServer` assumes that the accept loop and each thread go on when they
can: the scheduler runs POSIX threads, and no step waits for a lock. Clients owe nothing.
`BusySpec` adds that clients send or leave, so that the counterexample of `conn_leak` is
not a client that sits idle. `HashTable` assumes that a call under way goes on, `ValidMap` that
threads are run, `MCThreads` that the loop and the threads of the select server are run.

### Findings

1. A thread can send the reply of one client to another (`conn_mixed`, `server.c:132`).
2. A client that leaves before its request leaks a descriptor, in the end the server
   accepts nobody (`conn_leak`, `server.c:136`).
3. A single URL parameter makes a table of capacity 0 (`table_zero`, `http_header.c:428`);
   in `AnalyzeMethod` this is the crash of `SingleParam`.
4. A valid verb is refused when two requests race (`verbs_race`, `http_header.c:14`).
5. An ended line of the body is a header line (`request_body`, `http_header.c:76`).
6. Of three requests that race for a table one can look beyond its entries (`versions_within`,
   `ht.c:147`). All three find it half full and go on to expand it. One publishes 8 slots;
   another, which reads that capacity, publishes 16; the third, which doubled 4, then stores its
   entries, 8, and has not stored its capacity yet when `ht_get` looks up a word with a
   hash of 8 or more (that of "1.2" ends in 12) behind them. This showed when the proof of
   `WithinEntries` failed for want of a third thread; for two, `ArraysAreRight` proves it.

Other faults show as conditions of properties that hold: `OwnReply` (the shared response
buffer), `AnsweredAtMostOnce` (the rest of a request that is answered, `server.c:130`), `SeesLongest` (the buffer of recv), the calm times of the select server,
`OnlyReferencesLeak` (`cJSON.c:1748`), `MinifyUnformats` (`cJSON.c:2374`), `PatchesReach` and `MergeReaches`
(`cJSON_Utils.c:302`, `387`, `435`, `1161`).

## 4. Proofs

All theorems are for every value of the constants, under the assumptions that the
modules name.

- `ConnServerProofs`: `TypeCorrect` without further assumption. With `OneRequest`
  (one request per connection, in one piece), `OneInvariant` proves the inductive
  invariant `OneInv`, and from it `RepliesReachTheirClient`, `RequestNeverLost` and
  `NoConnectionCutShort`. The safety properties are not inductive: a step of a thread
  whose number has moved on could deliver to the wrong client. `OneInv` adds that a
  thread with a message still has its client's descriptor (`HandlerHolds`), that no two have the same
  client (`OneHandler`), and that a recv on a connection that has lost its number has
  nothing left to read (`ReaderHolds`). `NoSecondAnswer` needs no assumption: `AnswerInv` follows
  each piece of a request through kernel, threads and replies, and says
  that it is in one of them only, once (`OnlySent`, `KernelOrThread`, `KernelOrAnswered`, `ThreadOrAnswered`). `LeaversLeak` needs `OneRequest`, and that
  `AcceptWithoutThread` never happens (`NoThreadFailure`): a connection without a thread is leaked by
  somebody who never left. `LeakInv` adds to `OneInv` that a connection that has been read
  has the thread that read it (`ReaderStays`). `EnoughThreadsLeak` puts `EnoughOfAll` in
  the place of that condition: with as many threads and descriptors as connections, counting shows that
  there is a thread for each (`ThreadPerConn`), as in `conn_one`.
- `HashTableProofs`: with `0 \notin InitCaps`, `TableInvariant` proves `TableInv`; from it
  come `EntriesStayReachable`, `ProbingStops`, `LengthCountsEntries`, `TypeCorrect`.
  `RoomToStop` alone is not inductive: `AtMostHalf` is what `ht_set`'s test maintains,
  and `MovedSoFar` relates the half-filled array to the old one.
  `TableImplementsDictionary` is the refinement, step by step, with `SeenSoFar` for the iterator.
- `HeaderProofs`, of `AnalyzeMethod`: all properties of messages in the run `header`, for every set of messages,
  of any length, and for every limit. `RefusedNeverHalf`: `BareInv` says that as many
  tags are stored as rounds of the loop have ended, so that after a bad parameter one is always
  missing. `TypesHold` and, from it, `EnoughAnnounced`: the names are a set of tags, no larger than
  the tags are many. `MessagesSplit` takes `Tokens`, which `TokenizerSplits` proves of `Tokenizer`, for
  each of the two strings that are cut. `CodesTrue`: `CodeInv` says at each place what has been found to
  be right so far, for a final 0 to mean that nothing is wrong. `CalledRightly`: `PlainInv`
  says of a message without faults that what is stored up to a round is the value of the last
  parameter of its name before it.
  In `TokenizerSplits`, `Rounds` is a recursive function; that it is what its
  equation says, and an invariant of its rounds, are proved from the least round that could
  be wrong (`UpTo`, with `NatLessThanWellFounded` of the library), since the induction theorems that take an
  operator cannot be used. `Further` says that one more wanted piece raises the rank of
  those behind it by one; `TokenizeAll` counts the rounds up to the limit.
- `HeaderProofs`, of `ValidMap`: with `IndexInside` (a masked hash is below the capacity) and `RoomForAll` (the
  capacity that is asked for is at least twice the number of words, as at `http_header.c:14` and `21`), for
  any list and any number of threads, requests and words: `AloneIsRight` and `GrowInRaces`.
  `AloneInv` says of a request that nobody has overlapped *where* it is in filling
  its table: the words before its own are there, with their values, each where a search that
  begins at its hash finds it (`EntriesInOrder`), as many as are counted or more, and its own search has met
  neither an empty slot nor its word (`Searching`). So no earlier race matters: the table
  is a new one. `ArraysAreRight` needs `TwoThreads`. `CountInv` bounds a table's length together with the
  words that threads may still count in it (`Pending`), so that a table that has grown never
  grows again (`FullIsFirst`); from this `PairInv` has that two threads
  that expand one table double the same capacity, and so publish arrays that fit.
- `ThreadsProofs`, of `LuaRun`: `TypeCorrect`; `TableChangesAsAsked`, `RepliesOwnOrInPlace` and `OnlyTroubleKills` for any
  number of threads and any calls. `QueryInv` says what a thread knows at each place: past the call
  of its script it has an accepted call with nothing missing, and past its query its answer says whether it is
  in `changes` or in `refused`. `BufferInv` says of each cell of the shared buffer whose text it can hold: that of a thread
  whose response reaches so far and is true, an earlier request's, or a NUL; and for a thread that is still `alone` its own up to the
  place it has come to. `RepliesRight` alone is not inductive, since it says nothing before the reply.
- `LuaTableLibProofs`: `ListsAreKept`, for lists of any length of any numbers. `ListsInv` says of a sort where the
  intervals still to be sorted lie, whichever pivot `choosePivot` takes of them (`PivotsInside`): apart from each other, with a pivot in its place between any two (`Fit`), and each as long
  as all that are sorted before it span, so that spans double up the stack (`Nested`; hence the bound on its depth).
  Two elements that no interval holds together are in order (`InOrderBut`), and what the answers
  so far say of the interval that is sorted is in `ValuesParted`; both only where the order function is `<`, while
  `PlacesInside` holds whatever it answers. That a sort ends is a bound on its questions: each is paid for by pairs of elements that
  share an interval, and a pivot parts as many pairs from each other (`PivotPairs`) as `Spent` can have grown to. That
  values are kept is a bijection for each swap (`SwapKeeps`). For `insert`, `remove` and `move` the loops are recursive
  functions; `CopyUpIs` and `CopyDownIs` give what they compute in one expression, from a function that satisfies
  their equation and the induction of `UpTo`.
- `ThreadsProofs`, of `RecvBuffer`: `MessageWithRest` for an array of any size. `SeesLongest` speaks of the longest of the
  messages, which the code never computes; `BytesInv` says instead of each byte that it belongs to the last
  message that reached it, and `StrLenFinds` that `strlen` stops where the longest did.
- `ThreadsProofs`, of `SelectServer`: `SlotsAreRight` for any number of clients, threads and slots, as long as there are as
  many descriptors as clients (`EnoughFds`; the model, too, has it that there is always one to be had). That the
  least free descriptor exists is a pigeonhole argument over `ConnectionsOnce`. `CalmInv` is what holds in calm
  times: a slot is marked with its own socket only, and its client will not ask again (`MarkedRight`), so
  nobody reads a second message for a slot that is marked; the one thread that works has
  the arguments it was given, and its slot's client is there until it marks the slot (`ThreadRight`). For the
  first slot alone, `finished_work` then says that the reply is complete; another slot may be flushed, and taken by the
  next client, while its thread still writes.
- `LuaCallsInvariant`, `LuaCallsSteps`, `LuaCallsProofs`: `CallsSafe`, that is `CallsReturn`, for any number of
  coroutines, any number of calls (`MaxFrames` is nowhere used) and any limits under `LuaCallsAssumption`: `MaxCCalls`,
  200 in the code, lets a first call through, and `ErrCCalls`, 225, is no smaller.
  `CallsReturn` alone is far from inductive: it says what should hold when a thread runs, nothing of what a `longjmp`
  or a return will find. Only the C stack knows that, and its frames do not say which of their thread's calls are
  theirs. `Inv` therefore marks each frame (`Mark`): how many calls are below it (`ci`), what `nny` is and where a jump
  goes when control is back in it (`nny`, `jmp`), how many frames up to it count in `nCcalls` (`depth`), to which call
  the innermost `luaD_pcall` goes back (`pcall`), and which of the threads that resume one another it is in (`link`).
  `StackRight` says that the marks are those that the frames give (`MarkOf`), that what each has
  saved is what its mark says (`SavedOver`), that the calls between two frames are of the kind that the lower one runs
  (`Owns`), and that where a yield is allowed every call can go on without its C function (`Below`, `Pending`); `CIsRight` says
  the same of what `lua_pcallk` left in the calls of a thread that has lost its frames.
  Five situations exhaust the rest: a thread is at work (`Active`), a yield is on its way to `lua_resume`
  (`Yielding`), an error is on its way to the frame or the call that catches it (`Unwinding`), the script has ended (`AtHost`),
  or a resume is refused (`Refused`), whose effect on the coroutine is that of no call at all once it has returned.
  A lemma for each small step says what it does to the frames, to the marks and to one thread; one for each action
  (`StepCalls` has them all) that it leads from one situation to another. TLC checked `Inv`, with the marks computed
  from the frames, on every state of the run `lua`'s calls before it was proved.

Only model-checked: liveness (`ClientServed`, `SetReturns`, `CheckReturns`, `CalmServed`), which
is out of the prover's reach; the modules of cJSON, and those of Lua but for `LuaTableLib` and `LuaCalls`.
Most of these compute by recursion over data, by operators whose meaning needs an induction that
the provers cannot be given.

## 5. Plan

Modules are written in the order of how much of the system's behaviour hangs on them.

1. Done: the server (`ConnServer`, `HashTable` with `Dictionary`, `ValidMap`, `Tokenizer`, `AnalyzeMethod`), what its
   threads share (`LuaRun`, `RecvBuffer`), the select server, cJSON, and the parts of Lua that
   scripts rest on.
2. An abstract server (each client: asked, answered) that `ConnServer` with one
   request per connection implements.
3. The accessors of `http_header.c`; more of `lparser.c` (functions, upvalues, goto).

Theorems to come: the refinement of the abstract server; what `NothingLost` of `LuaGC` needs; that the
lists of `CJsonTree` are whole. For three threads, a bound on how often a table can grow.

## 6. Not modelled

- The drivers' load generation and energy measurement, the C client's included.
- Printing, and the contents of replies.
- Memory exhaustion outside `HashTable` and `CJsonTree`, and memory that is never given back.
- The Java API: each handler is one call of the framework, without state of its own.
- The accessors of `http_header.c`: nothing calls them.
- The MySQL client library: what it answers is nondeterministic. Its first initialisation by
  two threads at once is not safe, and not modelled.
- cJSON: raw items, `SetNumberHelper`, arrays made from numbers or texts, `InitHooks`, the digits of numbers.
- Collector: `luaC_fix`, `luaC_freeallobjects`, how many finalizers a step calls, the pace.
- Code generator: functions and upvalues, goto, varargs and multiple results, constant folding,
  metamethods in instructions, limits of registers and constants.
- Calls: hooks, the size of the Lua stack, the protected parser, values.
- Patterns: what else `lstrlib.c` does (format, rep, byte, pack and so on).
- Lists: concat, pack, unpack.
- The rest of Lua (scanner, numbers, files, time, binary chunks, debug library, stand-alone programs),
  json.lua, the tests and unity: little state of their own, or not part of the server.
