# mon_netflow: specifications, model checking and proofs

mon_netflow captures frames from an interface or a pcap file, reads their
headers, decides which application protocol a payload is, hands it to a
dissector library loaded at run time, and logs the dissector's JSON. This
directory holds TLA+ modules translated from its C code, the TLC
configurations that check them, and TLAPS proofs: about the memory pool, on
which every dissector rests, the start of the program and of its engine, the way
of a frame, the log, both dissectors and the scans of HTTP.

## 1. Inventory of the system

The program is sequential: one thread, one frame at a time, driven by
`pcap_loop`. What is hard in it is failure (malloc, dlopen, dlsym, a short
capture, a message that stops halfway), data that outlives the call that made
it, and long sequences of calls on one allocator. Only the log has true
interleavings: an operator changes the files it asks about, and monitors
started in one directory write to one file.

| component | code | state | operations | depends on |
|---|---|---|---|---|
| memory pool | `memory_pool/mem_pool.c` | chain of blocks with `last`/`end`, list of large chunks | create, palloc (small, large), pfree_large, destroy | malloc |
| engine start | `dissect_engine.c` 31-204 | engine pool, `lib_info_map[255]`, each library's `lib_func_flag`, `dlerror` | dissect_engine_init, load_config, read_config, load_lib, get_lib_info_index | pool, cJSON, dlopen |
| frame headers | `dissect_engine.c` 206-279 | a `net_info_t` on the handler's stack | dissect_net_layer234 | |
| identification | `proto_identify/proto_identify.c` | none; writes `net_info->dir` | dissect_proto_identify and its three tests | net_info, first bytes of the payload |
| frame handler, application dissection | `main.c` 52-66, `dissect_engine.c` 282-325 | the frame in hand, `proto_data`, the JSON string | pcap_loop_data_handler, dissect_net_layerapp_frame | registry, libraries through function pointers |
| HTTP dissector | `proto_dissect/http/` | the library's own pool pointer, an `http_data_t` | init, data, s2j, fini; segment_check (exported, not called yet) | pool, cJSON |
| OICQ dissector | `proto_dissect/oicq/` | the library's own pool pointer, an `oicq_data_t` | init, data, s2j, fini | pool, cJSON |
| log | `common/log.h` | level files and a log file | lyf_log | file system |
| program start | `main.c` 69-169 | option flags, capture handle | options, open, filter, loop | libpcap, engine |
| cJSON | `common/json/` | a tree in the heap | parse, print | malloc |

What makes each correct, and what is hard about it:

- *Memory pool.* Objects handed out are aligned, inside their block, and share
  no byte with each other or with the pool's own headers, for every sequence of
  requests; large chunks are neither lost nor freed twice; destroying frees
  everything and reads nothing already freed, although the list of chunks lives
  in the blocks it frees. Errors here appear only after long call sequences.
- *Engine start.* One bad entry of the configuration file must not cost another
  its library. The answer of `dlsym` is asked through `dlerror` only after the
  last of five lookups.
- *Handler.* Whatever fails on the way, `fini` runs exactly when `init` made a
  pool, because both work on a global pointer that survives the frame; the
  results are of this frame and not of the stack's earlier contents.
- *Program start.* Options, captures, engine and filter fail independently, and
  the flags that say which of them were asked for begin with what the stack held.
  What is captured must be what was asked for, and what was opened be closed.
- *Log.* A call asks the file system five questions, one after the other, and acts on
  answers that may be old. Levels, the size limit and the text of other calls
  must survive that.
- *Dissectors.* Lengths and offsets are kept by hand in two counters; a message
  cut anywhere must not be reported in part, and a field that is reported must
  have its text.

Lines that are hard to reach with a test are listed one by one under `hazards`
in `PROJECT.json`, with the properties that would catch them going wrong, or a
note saying why none does.

## 2. Modules

| module | models | composed from |
|---|---|---|
| `PoolContract` | what any pool promises: open, grant separate objects, release, close | |
| `MemPool` | `mem_pool.c` | refines `PoolContract` |
| `Registry` | `dissect_engine_init` and what it calls | |
| `MonStart` | `main`: options, captures, engine, filter, loop | extends `Registry` |
| `NetInfo` | `dissect_net_layer234` and `proto_identify.c`, as operators | |
| `FrameService` | what the monitor promises of its frames | |
| `PacketPath` | `pcap_loop_data_handler`, `dissect_net_layerapp_frame`, the libraries' init and fini | extends `MonStart`, `NetInfo`; refines `FrameService` |
| `HttpDissect` | one `http_dissect_data` and the `http_s2j` after it, over the outcomes of its scans | |
| `HttpScan` | the scans themselves, over bytes: lines, head, `split`, `get_content_length`, `http_segment_check` | |
| `OicqDissect` | one `oicq_dissect_data` and the `oicq_s2j` after it | |
| `LogContract` | what the log file promises its readers | |
| `LyfLog` | `lyf_log` of `common/log.h`, by several monitors | refines `LogContract` |
| `MemPoolProofs`, `RegistryProofs`, `LyfLogProofs`, `OicqProofs` | theorems | extend the module they are named for |
| `HttpProofs`, `ScanProofs` | theorems about `HttpDissect` and `HttpScan` | extend these |
| `StartProofs`, `PathProofs` | theorems about `MonStart` and `PacketPath` | extend these and `RegistryProofs` |
| `MC_*` | constants for TLC | extend the module they are named for |

`PacketPath` is thus the whole program but for what happens inside a dissector
and in the log: `main`'s first option, the engine's start, and every frame until
the capture ends. The dissectors and the pool are modelled each for itself,
as they share nothing while they run but the interfaces named here.

Operators named in comments as *mutants* are wrong versions of the definition
after them. No specification uses them; `PROJECT.json` says which property each
one breaks when it replaces the right one, which shows that the property can fail.

### MemPool

`last[i]` is the `last` pointer of the i-th block as an offset; `end` is
`PoolSize`. The `next` pointers are the sequence order. `large` is the list of
`mem_pool_large_t`, in order of linking, each with the region its header takes
in a block and its chunk, or NULL once freed. `given` is ghost state: what callers hold.
`orphans` is ghost state too: headers carved by `mem_palloc` for a chunk
that malloc then refused, which the code leaves in their block, unlinked.

- `CreatePool` is `mem_create_pool`; `PallocSmall` is `mem_palloc` of a
  size that a block can hold. `Slots(size)` is the walk down the chain with
  its size_t subtraction modulo `Word`. `PallocLarge...` are the three ends of
  `mem_palloc` of a larger size, which calls itself for a list header; a call that returns NULL with nothing changed is a stutter.
- `PfreeLarge` is `mem_pfree_large` of a chunk the caller holds.
- `mem_destroy_pool` is cut where its loops read and free, since what matters in it
  is the order of the two: `DestroyBegin`, `DestroyLarge`, `DestroyTurn`, and for each
  block `DestroyBlock` (the `free(p)`) and `NextBlock` (`p = n, n = n->next`), or
  `DestroyEnd`. `cursor` is `p` and `ahead` is `n`; the `next` of a freed block may
  be anything (`NextOf`).

### Registry

`boot` says where `dissect_engine_init` is. A configuration is a record: whether
the file is there, its `size`, where its first byte 0xFF stands (`mark`, or `size`), where
its JSON array ends (`close`), and the array's `entries`. `read_config` keeps
fgetc's result in a char, so it stops at `mark`; it accepts up to `MaxConfig` bytes,
all of the buffer (`TooLong`). The parser then needs the end of the array before
`mark` (`Closed`), unless the buffer is full and what lies behind it on the stack is
read as text, too (`Unterminated`): then either may happen.

An entry's library is looked up (`OpenLib`), then each name of `func_info_list`
(`LookUp`, one dlsym each), then kept or dropped by `dlerror` (`Register`,
`LoadFails`). `lib_func_flag` is `found`. The C library does not say whether a
dlsym that succeeds clears an earlier error, so `LookUp` allows both. A null pointer that the
code writes through or passes to `strlen` or cJSON ends in `boot = "crashed"`; nothing
follows it. One of these is `cJSON_Parse`'s, of a file without its end or for want of
memory (`ParseFails`). `main` ignores the result, so that `boot = "done"` stands for every
return.

### MonStart

`main` is where `main` stands: at the options, opening the live capture, opening the
file, deciding whether there is a capture, in the engine's start, at the filter, in
the loop, at its end. `argFlag` is `cmd_arg.arg_flag`, which begins as `stack`, what
the stack happened to hold. Each libpcap call succeeds or fails. `opened` holds the
captures opened and not closed, `handle` the one that `pcap_hander` points to: the second
opening overwrites the pointer. While `main = "engine"` the steps are those of
`Registry`; if the process dies there, nothing follows.

### NetInfo and PacketPath

A frame is what the code reads of it (see the head of `NetInfo`). Its fields are
those found at the places the code looks: 20 bytes into the IP header,
whatever the header's own length. The word at the payload's place is one of the
words `identify_http` tests for, or another; when the frame ends before it the
word is what lies there, which the model leaves open. `Stale` is what the
handler's stack may hold in place of the uncleared `net_info`.

The tests of `proto_identify.c` overlap, and `Identify` keeps their order.

`Receive` is the handler, called by a `main` in its loop, up to the call of the engine, and each later action one
call made by `dissect_net_layerapp_frame`: `InitLib`/`InitLibRefused`/`NoInitLib`,
`DissectData`, `S2j`, `LogResult`, `Fini`; `PassOver` is the early returns.
`pool[p]` is what the library's global pool pointer points to. A library is
any set of the five functions; what it does in `dissect_data` is bounded by
`DataReturns`: OICQ accepts by length (which the `oicq` run confirms), HTTP accepts
some payloads that are not empty. `S2j` makes a string, or none, or ends the process
(`stage = "crashed"`), as `http_s2j` and `oicq_s2j` may after a refusal.

### HttpDissect

A message is given by the outcomes of the scans over it: positions of the first
CRLF and of the end of the head, the parts of the first line with their lengths,
and the lines of the head by field name and length. `pc` follows
`http_dissect_data`. Every request to the pool may be refused (`Refused`), and
one whose size wrapped always is. `Grant` keeps track of whether the object
granted last was filled to its end with no room for the terminating zero
(`exact`); the next object may then lie right behind it and overwrite
the zero (`runOn`). `text` is the line each reported text was copied from.

`http_s2j` looks at no result of `cJSON_AddStringToObject`. A refused item is NULL, and
cJSON passes over it: `report`, what the JSON string has, is then any part of the fields whose
flags are set (`S2j`). Without memory for the object or for printing it the result
is -1 (`S2jFails`). A text that is NULL, and a name or text that `cJSON_strdup` had no memory
for, is read through the NULL (`S2jCrashes`). `refusals` counts what the pool and malloc
refused; all refusals within one `http_s2j` are one.

### HttpScan

`data` is a payload that grows chunk by chunk, as segments arrive; a byte is CR, LF,
a zero, or a text, and a text in `Lengths` stands for a whole `Content-length:` with its
number. `SegmentCheck` is what `http_segment_check` returns for it, through
`ContentLength` (`get_content_length` with `split`, whose strtok ends at a zero, knows no
empty lines and keeps `HeadMaxNum` lines). `HeadEnd` and `RespContentLen` are
what `dissect_http_response` finds in the same bytes; the two are compared. `atoi`'s int
is assigned to a `uint32_t` there, so a negative number becomes one in the upper half of
`Word`, the 2^32 of the code; the sum in `http_segment_check` is an int (`AsInt`).

### LyfLog

A call of `lyf_log` is cut where it asks or changes the file system: three
`access` calls (`Access`), the decision (`Decide`), `stat` (`Stat`, which settles the mode),
`fopen` (`Open`, which empties the file for "w" and "w+"; `Return` from "open" is its
failure), the pieces that stdio writes when its buffer is full and at `fclose`
(`Write`), and the return. A stream opened with "a" writes at the end, one opened with
"w" at its own place, over what others wrote or past a hole (`Written`). `Switch` is an
operator who changes level files at any moment; `Kill` is a signal, the only end `main` has
while it captures, at any step; what was not written is lost, and the monitor starts
again. The fields `on` and `off` of a call are history: the level files that existed, and that
were missing, at some time of the call. They are kept up to the decision.
`overlapped` is history, too: it says that a call took its mode while another had the
file in hand.

### OicqDissect

`ReadField` is one round of `check_data_len`, field, `update_offset_len`, with the
code's two counters `offset` and `len`. Payloads are byte sequences. `Present` is what
`oicq_s2j` adds to its object: the fields read, flag and command only when the tables name
them. As in HTTP a refused item is left out (`S2j`), no object or no memory to print it
is -1 (`S2jFails`), and a refused copy of a name or text is read through NULL (`S2jCrashes`);
`refused` is history, and says that malloc refused any of it.

## 3. Runs

| run | module | states | asks |
|---|---|---|---|
| `pool` | `MC_MemPool` | 168,083 | Are objects disjoint, aligned, stable; chunks accounted for; destruction safe, complete, finite; is `PoolContract` kept? |
| `registry` | `MC_Registry` | 33,830 | Does every usable entry reach its slot, whatever fails around it and however long the file is, and what can kill the process here? |
| `start` | `MC_MonStart` | 328,952 | Does `main` capture what was asked for, close what it opened, and get to its loop or its end? |
| `path` | `MC_PacketPath` | 54,247 | Are init and fini paired over frames, is the data this frame's, is `FrameService` kept, is each pool given back? |
| `http` | `MC_HttpDissect` | 39,300 | Is only a complete first line and an ended head accepted, are the fields those of the lines, and what can a report lack? |
| `scan` | `MC_HttpScan` | 1,013,559 | Do segment check and dissection agree on a message's head and length, and does an end once found stay? |
| `oicq` | `MC_OicqDissect` | 159,572 | Do the counters agree, does length alone decide, is the report faithful? |
| `log` | `MC_LyfLog` | 7,777,198 | Are levels honoured and the size bounded whatever comes in between, and what may become of the text? |
| `filter_ignored` | `MC_MonStart` | | violated: see findings |
| `status_string` | `MC_HttpDissect` | | violated: see findings |
| `offset_at_body` | `MC_HttpDissect` | | violated: see findings |
| `methods` | `MC_PacketPath` | | violated: see findings |

Properties worth a word:

- `Disjoint` and `ObjectsStable` (pool): two objects never share a byte, and
  none moves. They need several requests to violate, with a full block behind.
- `KeepsContract` (pool): the pool refines `PoolContract` under the mapping
  `held` = block objects and live chunks. From the entry of `mem_destroy_pool` the
  caller holds nothing, so its loops are stutters.
- `RegisteredSound` (registry): a library is kept exactly on account of `s2j`,
  the last name looked up, being there. The code means *all five* names by
  its test of `dlerror`; whether a failure before the last is remembered is up
  to the C library, and the property says what holds either way.
- `CompleteEntriesRegistered` (registry) is stated for runs without a refusal by
  malloc and files read in full, of just the buffer's length, too;
  `CrashExplained` lists everything that ends the process.
- `CapturesAsAsked` (start) is stated for `stack = {}`. Without that it fails: a flag
  the stack had set opens a capture nobody asked for. `CapturesAccounted` and
  `StartDecides` hold whatever the stack held.
- `LevelsHonoured` (log): the three questions are not one, so a line may be judged by a
  combination of level files that never existed together. What holds: each answer was
  true at some time of the call.
- `SizeBounded` (log): the limit is asked about before the line is written, by each
  monitor for itself; a line of each is the most it is passed by.
- `OrderKept` and `KeepsLog` (log): two monitors may empty the file under each other and
  overwrite each other's text. Even then a monitor's own text stays in order;
  and until two calls overlap, text is only added, or started again past the limit.
- `HeadsAgree` and `LengthsAgree` (scan) name the exceptions: a head without lines,
  a `Content-length` given twice, on the last line kept, or in the first line. Of a
  negative number they say what each side makes: segment check refuses the message, and the
  dissection reports a huge length.
- `NothingHeldBetweenFrames`, `PoolLiveInUse` (path): no leak, no use after
  free, no double free through the pointer a former frame left. `PoolGivenBack` is their
  other half: a pool once made is destroyed in the end, by every way that data, s2j
  and log take to `fini`, unless the process dies on the way.
- `NoReadAfterFree` (pool) covers the moment between the free of a block and the step to the
  next: the code has read `next` before.
- `InfoFresh` (path): frames of UDP or TCP see nothing stale. For other frames this does
  not hold and is not claimed: identification then reads what the stack
  held. `EmptyPayloadUnreported` says that a report never comes of an
  IP frame without a payload all the same.
- `UnendedHeadRejected` (http): the code does not test `find_http_head`'s -1;
  the size it makes of it wraps and the pool refuses. The property records that
  this is what protects the dissector.
- `FlagHasText` (http): a flag without its text takes two lines of one name and
  a refusal at the second; the crash of `http_s2j` it leads to is in the model, and no
  report has such a field.
- `StartLineComplete` (http) and `ReportFaithful` (oicq) hold of what the dissectors accept
  whatever happens; of a report only unless malloc refused something while it was made. It then
  may lack any field, the method or the number too, and is logged like any other.

### Bounds

- `pool`: `PoolSize` 80 with a header of 32 leaves 48 bytes a block, so that a
  size of 12 (unaligned), 0, 48 (a whole block) and 49 (large) cover every branch;
  `MaxBlocks` 3 gives a first, a middle and a last block, `Chunks` 2 lets one
  list entry be reused while another is live. `Word` is 2^16: only its being
  larger than the pool matters.
- `registry`: files of up to three entries of nine kinds cover an entry before
  and one after a failing one; `MaxRefusals` 1 puts one refusal anywhere.
- `registry`, `start`, `path`: `MaxConfig` 10 bytes stands for 10,240; files lie below, at and
  above it, with a mark and an end before, at and behind each other.
- `start`: every command line of up to three options, each with a text that fits or does not,
  so that both captures and the filter can be asked for at once, over all 16 stacks.
- `path`: one command line that reaches the loop with a filter, from a clear stack;
  `MaxFrames` 2: the state that lasts from frame to frame is the pool
  pointers, which the second frame finds as the first left them.
  `MaxRefusals` is 1, shared by start and frames.
- `http`: `HeadMaxNum` 2 with heads of up to three lines puts one line
  beyond the array; one message at a time, as nothing lasts between two.
  `MaxRefusals` 2 permits the refusal of a line and of one before or after it.
- `scan`: every payload of up to seven chunks (bytes, or CRLF as one), which is a
  first line, a line, the blank line and something on each side; `HeadMaxNum` 2.
  `Word` is 256 in place of 2^32, with lengths of 120, whose sum with a position can pass the
  largest int (127), and -1.
- `log`: two monitors, interchangeable (`SYMMETRY`; the specification has no
  fairness and the properties are safety), three lines of up to two pieces, `Limit`
  1 piece so that a file is below, at and past it, one change of the level files
  from any set to any.
- `oicq`: every payload of 0 to 12 bytes over the values 0 and 2, one more than
  the 11 the fields take, with every subset of the fields missing after a refusal.

### Fairness and deadlock

The program is sequential and its loops run on their own: weak fairness is put
on the code's own steps (`DestroyStep` once destroy is called, `RegNext`, `StartUp`,
`Boot`, `Handle`, `Next` of one dissector call). Nothing is fair about the world: frames
need not come (`Arrival` has no fairness), a capture need not end (`LoopEnds`),
callers need not call. `LyfLog` states no fairness: a monitor may be killed
before any step, and no property of the log says that something must happen.
`pool` is checked for deadlock. The other runs say `CHECK_DEADLOCK FALSE`, because
their systems stop: `dissect_engine_init` returns or the process dies, the
capture ends after `MaxFrames` or by itself, a dissector call returns, and the bounded lines
of the log and chunks of the scan are used up.

## 4. Proofs

`MemPoolProofs` proves, for every value of the constants that `PoolAssumption`
admits, any number of blocks and chunks and every set of request sizes:

| theorem | says |
|---|---|
| `PoolInvariant` | `Spec => []IInv` |
| `PoolTypeCorrect` | `Spec => []TypeOK` |
| `PoolInBounds` | objects are aligned and lie between header and end of a block |
| `PoolDisjoint` | no two objects share a byte |
| `PoolChunksAccounted` | the live chunks are those of the list, each once |
| `PoolDestroySafe` | destroy reads nothing freed |
| `PoolLeaksNothing` | destroy leaves nothing behind |
| `PoolObjectsStable` | no object in use moves, shrinks or disappears |
| `PoolKeepsContract` | `MemPool` implements `PoolContract` |
| `PoolDestroyDescends` | each step of destroy brings it nearer to its end |

`OicqProofs` proves, for payloads of any length and bytes and any table of commands:

| theorem | says |
|---|---|
| `OicqInvariant` | `Spec => []IInv` |
| `OicqTypeCorrect` | `Spec => []OicqTypeOK` |
| `OicqCountersAgree` | the counters agree: every read is inside the payload |
| `OicqAcceptedByLength` | eleven bytes are what decides |
| `OicqReportFaithful` | the report has the five values as they lie in the payload, and all of them unless malloc refused |

`HttpProofs` proves, for any messages, heads of any length, any limit on their lines and any
number of refusals by the pool:

| theorem | says |
|---|---|
| `HttpInvariant` | `Spec => []IInv` |
| `HttpTypeCorrect` | `Spec => []HttpTypeOK` |
| `HttpStartLineComplete` | a first line is accepted whole or not at all, and reported whole unless malloc refused |
| `HttpUnendedHeadRejected` | a head without an end is refused, by the size it wraps to |
| `HttpFieldsFromHead` | with a pool that refuses nothing, the fields are those of the last lines of their names |
| `HttpFlagHasText` | a flag is without its text only after a refusal at a second line of one name, and is then not reported |
| `HttpReportSound` | only what has flag and text is reported; a report lacks something, and `http_s2j` crashes, only after a refusal |
| `HttpTextsEnd` | every text but the status string keeps its end |

`ScanProofs` proves, for payloads of any length, any texts and any numbers in them:

| theorem | says |
|---|---|
| `ScanInvariant` | the last answer of segment check is that for the bytes in hand, or its -1 for want of memory |
| `ScanEndStable` | a message's end once found does not move with what comes after it |
| `ScanHeadsAgree` | segment check and dissection find the same end, but for a head without lines |
| `ScanLengthsAgree` | and the same length if it is not negative, but for the exceptions named |

`RegistryProofs`, `StartProofs` and `PathProofs` prove, for any configurations,
libraries, command lines, frames, contents of the stack, and any number of
refusals, options and frames:

| theorem | says |
|---|---|
| `RegistrySound` | a registered library is the one an entry names, with the flags of what it has |
| `RegistryComplete` | each complete library of a readable file is registered, or a later one |
| `RegistryCrashes` | nothing but the listed causes ends the process in the engine's start |
| `StartTypeCorrect` | `StartSpec => []StartTypeOK` |
| `StartCapturesAsAsked` | from a clear stack, captures and filter are those asked for |
| `StartCapturesAccounted` | what is open when `main` gives up or captures |
| `StartDescends` | each step of the start brings `main` nearer to its loop or its end |
| `PathTypeCorrect` | `Spec => []PathTypeOK` |
| `PathHoldsNothing` | nothing is held between two frames |
| `PathPoolLive` | a library's pool is live wherever it is used or destroyed |
| `PathInfoFresh` | nothing the stack held shows for UDP and TCP |
| `PathEmptyUnreported` | no report of a payload that was not captured |
| `PathKeepsService` | `PacketPath` implements `FrameService` |

`LyfLogProofs` proves, for any finite number of monitors, any limit and any numbers of lines,
pieces and changes of the level files:

| theorem | says |
|---|---|
| `LogTypeCorrect` | `Spec => []LogTypeOK` |
| `LogHonoursLevels` | each answer a call acts on was true at some time of the call |
| `LogSizeBounded` | the file is never longer than the limit and a line of each monitor |
| `LogKeepsOrder` | what is left of a monitor's text stands in its order |
| `LogKeepsContract` | `LyfLog` implements `LogContract` |

*Argument for the pool.* None of the stated invariants is inductive alone. `InBounds` and
`Disjoint` need to know that every block is filled to a point between header and
end and that all its objects lie below this point (`ChainSound` and `InBounds`);
`ChunksAccounted` needs the list entries passed by the walk to be empty, and
`NoReadAfterFree` the position of the walk (`WalkSound`). `IInv` is their conjunction.
Lemma `CarveSound` does the arithmetic of `mem_palloc` once (what a carved region is, and that it lies
above all others of its block); each action then has a lemma, and
`NextInv` puts them together.

`PoolObjectsStable` then follows step by step from `IInv` and `CarveSound`. For the
refinement, `CarveApart` says that a carved region is apart from all regions
held, and two live chunks differ because malloc hands out none twice; each action maps to
the step of the contract named in its lemma (`CreateOpens`, `SmallGrants`,
`LargeGrants`, `FreeReleases`), the loops of `mem_destroy_pool` to stutters.

*Argument for OICQ.* `ReadSoFar` strengthens the counters' agreement: `offset` is the place in
the table `Starts` of the field to come, and each field already read holds
the bytes at its place. `OicqAssumption` only says that payloads are sequences of
bytes. `StopInv` says of each way to stop what it shows about the length and about refusals.

*Argument for HTTP.* What `IInv` adds to the properties is, for each place of the call, what has
been read before it. `LineRead`: past the first line its flags are set and its text is there, and
no other flags but those of a head. `HeadRead`: before the head, the offset is just behind the first line, so
that the size asked for a head without end is below zero; `NegativeWraps` shows that such a size lies in the
upper half of `size_t` (`Representable` says that lengths, being ints, lie well below), so the loop begins only
with an end found. `FieldsRead` is the loop's invariant, for each field of the head: a flag has a line
of its name among those seen; a line without its flag was refused; a flag's text is of a line seen, the last
one unless something was refused, and it is missing only after a refusal with two lines seen. `PoolSound`
follows what was granted last: only the status string is ever left without its zero.
`ReportSound` is a second invariant, on top of `IInv`, about `http_s2j` alone.

*Argument for the scans.* The places the code looks for are least elements of sets of
positions, so the first thing needed is that a set of naturals that is not empty has one: from the naturals
being well founded (`LeastProperties`), without induction. Then: bytes that are there stay when a chunk comes
(`BytesStay`), so a head's end found stays the first (`HeadStays`), and so do the lines before it (`LinesStay`).
For the agreement of lengths, segment check counts the first line among its lines and dissection
does not (`LinesOfBoth`), so its limit falls one line earlier: the one line with a number is within
both limits because it is not the last that the dissection looks at (`StillLookedAt`).

*Argument for the start of the engine.* `RegInv` adds two facts to what it is to show.
`LookUpSound`: while a library is looked up, `found` is what the library has
of the names asked for so far, and an error to be reported is of a name it lacks, which is
how the last name's absence is what counts. `Passed`: every complete entry that the
loop has passed has its slot or lost it to a later one; each action that
moves on without registering (`SkipKeeps`) shows that its entry was not complete or that malloc
refused. The assumptions are those of `RegistryAssumption`: NULL is none of the values it
is compared with, a file has its mark within its size, and `entries` is a sequence.

*Argument for main.* `FlagsRead` says that the flags are the stack's and those of the
options read so far; `CaptureOpen` follows handle and open captures through
`main`'s places; `FilterLast` says that a filter is installed last. `Registry`'s invariant is
carried along by `RegInvNext`, as `main` only lets its steps happen.

*Argument for a frame.* `PathInv` says what is so at each stage. `PoolAtWork`: a pool is live
just while a library that makes one is at work, and it is that library's; `Paired`
turns `InitFiniPaired`, by way of `RegisteredSound`, into: the registered flags have init
exactly when they have fini. This is why neither the return without init nor the one after
fini leaves a pool, and why the theorems about frames need the registry's.
`IdentifyDetermined` says that identification goes by ports, transport and word alone. For the
refinement, `ReportsOfSeen` says that the frame in hand has no report before
`LogResult`, and `NumberAdded` that a report is one more number. A frame in hand means that
`main` is in its loop (`FrameInHand`), so that no step of the start can come in between.

*Argument for the log.* `Honest` and `Known` relate the answers of the questions asked so far to
`on` and `off`. The bound on the size counts what is owed: the pieces still to come from calls that write, or are
about to append. Text and owed pieces together never exceed the limit and a line of each monitor
(`SizeInv`): a call takes on its line when the text is not past the limit, or empties the file.
What is owed is a finite set of pieces, counted with `FiniteSetTheorems`. For
the order, `Own` says that a monitor's text in the file is not ahead of what its call has
written, and that none of it lies at or behind the place where a stream opened with "w" writes next.
`ShareInv` says that while calls did not overlap only one of them has the file in hand,
and then nobody else touches the text: its steps are `Grow` and `StartAgain`.

*Liveness.* Fairness promises a step only while one is ENABLED, and ENABLED is out of the provers'
reach, so that no liveness property is proved.

`DestroyReturns` and `StartDecides` go through loops of any length, and a proof would need induction
over a temporal formula. Their safety half is proved, as a number that each step makes smaller:
`WalkLeft` (entries of the list, then two steps for each block) for `PoolDestroyDescends`, and `StartLeft` for `StartDescends`, the options
to come and `main`'s places together with `EngineLeft`, eight for each entry less the symbols looked up. So
neither can go on for ever: no failure sends one back. That they do not stop
before the end is model-checked.

*Model-checked only.* `DestroyReturns`, `StartDecides` and `PoolGivenBack`. All
invariants, action properties and refinements that the runs check have a theorem.

## 5. Findings

1. `http_dissect.c:414`: the status string is requested without the byte for its
   zero that line 418 clears. With a length that is a multiple of eight, as of
   "Accepted", the next object overwrites the zero and the report runs on into
   the head (`status_string`, `StatusStringEnds`).
2. `http_dissect.c:319` and `495`: the offset meant to skip the head adds a position
   to a position (`offset_at_body`, `OffsetAtBody`). Nothing reads it yet.
3. `proto_identify.c:50` and `55`: CONNECT and OPTIONS are never recognised,
   as one byte is compared with two letters (`methods`, `MethodsIdentified`).
4. `main.c:111`: the text of `-f`, which the help (`main.c:45`) calls a filter
   expression, is stored and never used; only `-b` installs a filter
   (`filter_ignored`, `FilterInstalled`).

## 6. Not modelled, and assumptions

- cJSON is a copy of a library; its parse and print are outcomes of actions.
- The demonstration under `test/`, the Makefiles and the copies of headers
  under `release/` have no state.
- Addresses and the ethernet type in `net_info`, and all logged text: only the
  log reads them.
- `InitFiniPaired`: a library that has `dissect_init` has `dissect_fini`, as
  both of the repository do. The engine relies on it without a check.
- The words of the HTTP first line fit the fixed arrays they are copied into, and
  the head ends behind the first line.
- A char is signed, as gcc has it on x86; where it is not,
  `read_config` never meets an end and fails for every file.
- cJSON stops at the end of the array and does not look at what follows.
- stdio writes a line in pieces of its own choice, each of which the file system
  appends or places at once; `access` and `stat` tell the truth of their moment.
- The bytes behind a full configuration buffer, and the flags and `net_info` on the
  stack, are any.
- Lengths of a message, its lines and its texts are ints, well below half of `size_t`.
- `mem_pfree_large` has no caller in the repository. It is modelled for chunks the caller
  holds; given NULL, or a chunk freed before, it would look for that in the list.
- malloc aligns to eight, and refuses sizes in the upper half of size_t.

## 7. Plan

Done: pool, its contract and its proofs; registry with the file's bytes, program start and
frame path, composed, with their proofs and the refinement of `FrameService`; both
dissectors and the scans of HTTP, with their proofs; the log with its contract and proofs.

Next, in this order:

1. `PacketPath` over the dissectors' own modules in place of `DataReturns`.
2. `HttpDissect` over the bytes of `HttpScan`: that the outcomes a message is made of are those of a payload.
