# A verification of ocgeo_fdw in TLA+

`ocgeo_fdw` is a PostgreSQL foreign data wrapper over the OpenCage forward
geocoding API: a `SELECT` from the foreign table with a condition on its column
`q` becomes an HTTP request, and the results of the reply become rows.  This
directory holds TLA+ modules that model the code, TLC configurations that check
them on small instances, and proofs, checked by TLAPS, that hold for every
instance.  Paths such as `src/ocgeo_fdw.c:1565` are those of the repository.

## 1. The system

### Components, their state and their operations

| Component | State | Operations | What makes it correct |
|---|---|---|---|
| Rate limiter and counters (`ocgeoGetCounters`, `submitRequestWithRateLimiter`) | `ocgeo_hash`, one table per backend, keyed by the user of the user mapping: calls, successes, total time, rate information, `ts` and `tokens` of a leaky bucket | find or create the entry; read the clock, sleep until there is a permit, send, update the statistics | a session exceeds its plan by no more than a burst; a request is eventually sent; the statistics add up |
| Foreign scan (the executor callbacks) | `ocgeoForeignScanState`: value for `q`, minimal confidence, the handle `api`, the response and a cursor into it | Begin, Iterate, ReScan, End, Explain | a scan returns every row of the answer to its current question, once, and no row of another question; handles are closed; `EXPLAIN` asks nothing |
| Condition pushdown (`utils.c`) | none | `extractRestrictions` and its helpers | no condition asks the API for more than the query does |
| API client (`ocgeo_api.c`) | the handle; a response (JSON tree, array of results linked into a list) | `ocgeo_forward`, `ocgeo_reverse`, `parse_response_json`, the JSON paths of `get_json_field`, `ocgeo_response_cleanup` | a response is what the document says; what is allocated is released |
| Planner callbacks | none beyond a call | `classifyConditions`, `findPaths`, `ColumnList`, `GetForeignRelSize/Paths/Plan` | the plan asks what the planner counted on; a join on `q` is a nested loop; every condition is checked again; every column that is needed is read |
| Usage statistics (`ocgeo_stats`) | a scan of `ocgeo_hash` kept open between calls | one row per call | shows each entry once, whatever happens between its rows |
| Options | server and mapping options, in the catalogs | the validator; `ocgeoGetOptions` | a request has an address and a key, and the plan that was written |
| `sds.c` | vendored: strings with length, capacity and a header of one of five types | creation, growth, concatenation, formatting, trim, range, split, join | lengths, capacities and memory agree |
| `cJSON.c` | vendored: trees of items on the heap; a buffer when printing | the operations on items; parse, print, delete | the lists are trees; JSON and only JSON is parsed; nothing is lost, or freed twice, when memory fails |
| Module load, SQL objects | the table of callbacks | `_PG_init`, the handler | no behaviour of their own: not modelled |

### How they interact

The planner turns the query's conditions into paths.  The executor calls
*Begin*, which evaluates the conditions (`utils.c`), looks up the options and the
counters, and calls `submitRequestWithRateLimiter`, which sleeps until the
bucket has a permit and calls `ocgeo_forward`; that performs the HTTP request
through libcurl and parses the reply with cJSON.  *Iterate* walks the linked
results.  A nested loop calls *ReScan* for each outer row with new parameters,
which is *End* followed by *Begin*.  `ocgeo_stats()` reads the counters, one
entry to a call, and the query that calls it may send requests meanwhile.  A
backend is single threaded; backends of one server share nothing but the
options in the catalogs and the clock.

### What is hard

* **Time.**  The bucket is computed from `gettimeofday`, which may be set back;
  `TIMEVALDIFF` rounds toward zero term by term; `pg_usleep` may return early;
  option changes and other servers of the same user touch the same bucket.
* **Failure.**  The request may not return (there is no timeout), may return a
  page that is not JSON, JSON without the fields the code asserts, or a status
  that is not a success.  An SQL error skips `EndForeignScan`.  A backend may
  end between any two steps, and its counters with it.
* **Protocol.**  *Begin* runs before a nested loop has set its parameters, and
  again at each rescan; the cursor, the response, the handle and the question
  must belong together throughout.
* **Data.**  A condition may be written either way round, under a cast, with a
  parameter, a constant or an expression; some cannot be pushed down.  What the
  planner takes for remote and what the scan extracts are found by different
  functions, in different files.
* **Memory.**  Five pointers of a list, a length counted before it is written,
  an allocation that fails at any depth of a document.

`PROJECT.json` lists each hazard at its line, with the properties that would
show it going wrong.

## 2. Modules

| Module | Models | State and actions |
|---|---|---|
| `Timeval` | `TIMEVALDIFF`, C division | a `struct timeval` is its number of microseconds; `TvSec`, `TvUsec` recover the fields |
| `LeakyBucket` | the promise: in any stretch of a client's admissions, at most `Burst` plus one per `Period` | the times at which each client was admitted |
| `RateLimiter` | `ocgeo_fdw.c:534-571, 1153-1166, 1545-1615` in several backends | `counters`/`hash` are `ocgeo_hash`, `req` the locals of the request, `pc` the place in the C function.  `BeginRequest`, `ReadClock`, `Sleep`, `Wake`, `Admit`, `Trap`, `Reply` cut the function where time may pass or another process may run; `Pass`, `SetBack`, `AlterMapping`, `Exit` are the environment |
| `RateLimiterProofs` | theorems about `RateLimiter` | |
| `Lists` | what several functions do with lists: choosing from one (`classifyConditions`, `ColumnList`, the server's filter), collecting what each element adds (`ocgeoBeginForeignScan`'s loop over `extractRestrictions`), following pointers (what `cJSON_Delete` comes to) | `KeepOnly`, `Collect`, `Reachable` |
| `ListTheorems` | theorems about folds, recursive functions and lists, for the other proofs | |
| `Pushdown` | `utils.c` | pure operators with the functions' names, on expressions as tagged records |
| `OcgeoApi` | `do_request`, `parse_response_json`, `ocgeo_response_ok` | pure operators: from a reply to a response and what was allocated |
| `ResultStream` | the promise: a question is asked once, and its rows come one at a time, in order | the rows pending and delivered |
| `ForeignScan` | `ocgeo_fdw.c:1053-1172, 1196-1230, 1349-1366` over `Pushdown` and `OcgeoApi` | `scan` is `ocgeoForeignScanState`, `heap` what `malloc` gave out.  *Begin* is two actions, up to the request and from its return (`Respond`), because the request may never return.  `Start`, `Rebound`, `Fetchable`, `Fail`, `Reconnect` are the executor |
| `Sds` | `sds.c` on one string: header types, growth, shrinking, concatenation, formatting, trim, range, split and join | `s` is the header (type, length, bytes allocated) and the memory behind it; one action per function, each an operator with the function's name; `value` is what the string should be |
| `ItemTree` | what cJSON's operations promise: trees of items, with names | the members of each item; one action for the effect of each kind of call |
| `CJsonItems` | `cJSON.c:211-245, 1753-2417`: lookup, add, reference, insert, detach, replace, delete | `heap` holds the items with their pointers, `copies` counts the copies of names; one action per kind of function, in step with the action of `ItemTree` that it promises, whose variables `members` and `name` are history |
| `CJsonHeap` | `GetArrayItem`, `get_object_item`, what `cJSON_Delete` frees | operators on a heap, for the modules about items, documents and paths |
| `CJsonStrings` | `parse_string`, `print_string_ptr`, `parse_hex4`, `utf16_literal_to_utf8` | a string as it is written is a sequence of units (a character, an escape, `\u` with its digits, which may be no digits, or be cut off by the end of the string); as it is stored, of bytes |
| `CJsonParser` | `cJSON_ParseWithOpts` and `parse_value`, `parse_array`, `parse_object` | `stack` is the C stack: one record for each array or object being read; `pc` is the place in the function that runs.  The text is drawn as the parser comes to it (`Supply`), so that every text is read, and none is drawn beyond what is read |
| `CJsonPrinter` | `print_value` and what it calls, `ensure`, `print`, `cJSON_PrintBuffered`, `cJSON_PrintPreallocated` | operators on a buffer of cells, of which one writes, one grows, and each allocation may fail |
| `JsonPath` | `get_json_field`, `str_to_maybe_int`, `ocgeo_response_get_str/int` | operators on the heap of a document |
| `JsonDocument` | parsing, printing, paths and deletion of one document | composes the four modules above; states what JSON is, independently of the parser |
| `Options` | `ocgeo_fdw_validator`, `ocgeoGetOptions` | `server`, `mapping` are the catalogs; one action per command |
| `UsageStats` | `ocgeo_stats`, and the counting of requests | composes `Options` with `ocgeo_hash`; `stats` is the context of the function between its calls: `NextRow`, `ReturnDone`, and `Abandon` when the caller wants no more |
| `Planner` | `ocgeo_fdw.c:601-943, 1389-1542` | one action per callback; `remote_conds`, `local_conds`, `paths`, `plan` are what they leave behind |
| `ForeignScanProofs`, `SdsProofs`, `CJsonItemsProofs`, `UsageStatsProofs`, `PlannerProofs`, `JsonDocumentProofs` | theorems about the module in their name | |
| `MCRateLimiter`, `MCForeignScan`, `MCSds`, `MCCJsonItems`, `MCJsonDocument`, `MCUsageStats`, `MCPlanner` | the instances that TLC checks | |

History variables (`sent`, `base`; `asked`, `rows`, `ended`, `lost`; `value`;
`members`, `name`, and the `lost` of `CJsonItems`; `asked` and `sent` of
`UsageStats`) record what happened for the properties; no guard of the code reads
them.  Three bounds do: `MaxCalls` counts `sent`, `MaxScans` the scans begun,
`Requests` counts `asked`.  In `CJsonItems` the program that calls the library
does too: it cannot pass an item that is `lost`, for it has no pointer to it.

## 3. What the runs check

| Run | Instance | What it shows |
|---|---|---|
| `limiter_bucket` (passes) | one backend, two servers of one user with plans of 1 and 2 requests per second; the backend may end at any point; 4 calls within 1.7 s in steps of 400.6 ms and at each sleeper's deadline | the types; `BucketInv`, the inductive strengthening of the next; `Envelope`: between any two admissions of a session no more than a burst plus one per period; `SleepsOnce`; `ImplementsLeakyBucket`: every step is one of `LeakyBucket` |
| `limiter_live` (passes) | one backend; `max_reqs_sec` alternates between 1, 2 and 2000 (a period of zero); signals; the clock set back by 0.7 s; all kinds of replies; 2 calls | `StatsAccount`: calls, successes and rate information are those of the replies; `NeverStarves`: a throttled request leaves the loop |
| `limiter_plan` (violation) | two sessions of one user | `PlanPerSecond`, the README's claim, fails: each session has its own bucket |
| `limiter_rate_info` (violation) | one session, all replies | `rate_info` is not that of the most recent call |
| `scan_rows` (passes) | ten plans: constants either way round, under casts, NULL, contradictory, with an operator without commutator, with `OR`, parameters of a nested loop and of a prepared statement; the answer, quota exceeded, an error with a result, no answer, not JSON, no status, no results, and a rate, bounds or a geometry that lack a member; `EXPLAIN`; three scans | `NothingMissed`: a finished scan returned every row that satisfies the query's conditions; `AsksWhatIsWritten`: no request is made from a NULL or from the zero Datum of a parameter that is not yet set; `RowsAreOfTheQuestion`; `HandlesOwned`; `ImplementsStream`: the scan implements `ResultStream`; `ExplainIsSilent` |
| `scan_expression` (violation) | joins of `q` and of `confidence` with an expression over `users` | the switch at line 1106 never writes `value`, so the call may not be made, or be made with whatever confidence the Datum holds (`JunkInts`) |
| `sds_strings` (passes) | one string of at most 5 bytes, any sequence of calls; headers for 2, 4, 7, 15 and 31 bytes in place of 31, 255, 65535, ...; preallocation of 4 bytes | `Represents`: the string is what the comments on the functions say; `RoomAsPromised`: the assertions of `sdsIncrLen` hold after `sdsMakeRoomFor`; `SplitJoin`: split and join are inverse, and the array of tokens is never overrun; `TypeOK`: lengths, capacities and memory agree |
| `cjson_items` (passes) | four items, two names that differ by case only, as copies or as constants, one reference, memory that may run out; addresses are interchangeable (symmetry) | `WellLinked`: no dangling pointer, lists read the same both ways; `NamesOwned`: no copy of a name is lost or freed twice, except with a reference whose own name could not be copied, which is `lost`; `Represents`: the lists are the trees of `ItemTree`, so that each call changes what it promises and nothing else |
| `json_document` (passes) | every text of up to seven lexemes, complete or broken off anywhere, nested to one beyond the limit of two; one allocation that fails, anywhere; strings with every escape, surrogates at the ends of their ranges and incomplete ones; printing into buffers that start with four bytes, are given by the caller, just fit or are one byte short | `AcceptsJson`: accepted is JSON within the limit of nesting, and nothing else; `RecursionBounded`: the C stack stays within the limit, after any number of members; `Owned`: after any failure nothing is leaked or shared; `ReadsInside`; `PrintsWhatWasParsed`; `PrintingFits`: no write beyond the buffer; `StringsMeanTheirCharacters`: the bytes are the UTF-8 of what was written, wherever the digits of each `\u` are hexadecimal, they fit what was allocated, and printing writes them so that they are read again, up to the first null character, where it ends; `PathsFindTheirItems` |
| `usage_stats` (passes) | two users and PUBLIC, four commands on server and mappings with every combination of options, three requests | `RequestsComplete`: no request without address and key, though the options are read into memory that is not initialised; `PlansAsWritten`; `OneEntryPerKey`: counters follow the key, however mappings come and go; `ReportsEveryEntry`: with queries between the rows of a report, and reports that are abandoned |
| `planner` (passes) | all queries of up to two conditions out of fifteen (operators, `IN`, `IS NULL`, and these within `AND`, `OR` and `NOT`), eight sets of equivalence classes, inner and outer joins, three sets of columns | `JoinsAreNested`: a table that is joined on `q` is scanned once for each row of the others; `PlannedIsAsked`: what the planner takes for remote, `utils.c` extracts from the plan; `ColumnsAreRead`: every column that the query shows or that a condition mentions, of whatever kind and however deep, is read from a response; `DocumentedQueriesArePlanned` |
| `stats_reset` (violation) | one request | an entry without a reset time ends the backend, where the comment says that NULL is returned |

Each property of a passing run is refuted when a plausible bug is put in the
code that it is about: the mutants, which stand beside the definitions they
replace.

### Bounds, and why they are enough

* `MaxClock`, `LastStart`, `MaxCalls`, `Ticks`: a bucket of rate *r* has all of
  its behaviours within *r* + 2 calls (full, draining, empty, refilled, capped),
  and the instances have rates of 1 and 2.  The tick of 400.6 ms is no divisor
  of the periods and no multiple of a millisecond, so `TIMEVALDIFF` rounds both
  ways and `tv_usec` wraps.  The proofs remove these bounds for the safety
  properties.
* `IntMax` is 100000 in the runs: it exceeds every period that can pass within
  `MaxClock`, like 2^31-1 in the code for the first 24 days.
* `MaxSetBack`: the clock is set back at most once, by more than half a period.
* `MaxScans` = 3: a first scan, a rescan, and one whose predecessor was itself
  a rescan, or a new statement.
* `MaxLen`, `MaxPrealloc`, `StaticBuf` of `Sds`: as small as leaves every
  boundary between two header types, both ways of growing, and the second and
  third size of the buffer of `sdscatvprintf` within strings of 5 bytes; the
  array of tokens, of 5 in the code too, grows at the fifth.
* Four items: a list of three with its parent, so that an item is first, in the
  middle and last; or two levels of members.  One reference at a time
  (`MaxRefs`).
* `MaxArray` = 3: an array that is created in one call has a first, a middle and
  a last item.
* `MaxText` = 7 with `NestingLimit` = 2: an object with a member and a second
  one, an array in an array with something before and behind it, or nesting
  beyond the limit by one.  `FirstLiterals` are the strings that only a text
  that begins with them has: each is parsed and printed once, in all contexts
  there are only three.  `MaxFaults` = 1: a failure ends parsing, and what
  is left is the same whatever fails afterwards.
* `DefaultSize`, `IntMax` (24) of `CJsonPrinter`: small, so that a text of
  seven lexemes makes the buffer grow more than once, and through the branch
  for sizes beyond half of `INT_MAX`.  `Prebuffers` = {0, 5} and `Slack` = {-1, 0}:
  a buffer that must grow at once or later; a given buffer with a byte too few
  for what `ensure` asks, or just enough.
* `IntMax` = 15, `LongMax` = 127: the texts are a negative number, one with a
  leading zero, which the validator reads in base 8 and a query in base 10, and one
  with a character behind it.  `Given`: all names of options but `max_reqs_day`, which is stored
  and never used.
* `Commands` = 4: a server, two mappings and a change to any of them.
  `Requests` = 3: a request before a report, and two between its rows, to an
  old entry and to a new one.
* `Queries`: those with one or two conditions, for each condition is classified
  by itself and a path takes one class or outer join at a time.
* Two questions with three results and one; confidences 1, 5 and 9 against
  conditions 0, 1 and 5; one result with bounds.
* `JunkInts` = {0, 3, 11}: what a Datum that is never written may be as an int.
  No bound at all, one between two confidences, and one above all of them.
* `Planner` has conditions that are nested three deep; `findPaths` and
  `ColumnList` treat all deeper ones alike.

### Fairness

`RateLimiter!Fairness` makes time pass, and a backend inside the loop take its
next step: nothing blocks it, it holds no lock and waits for no other process.
There is none on `Reply`: `ocgeo_api.c` sets no timeout on the request, so
nothing makes an answer arrive.  That is why `NeverStarves` ends where the
request is sent.  The run's `MaxClock` (3 s) is later than any sleep that can
begin: requests start before 0.5 s and the clock loses at most 0.7 s.

## 4. What is proved

For every value of the constants: any number of backends, servers, users,
plans, queries, rows and requests, and all times.

| Theorem | States | Assumes |
|---|---|---|
| `RateLimiterProofs!TypeCorrect` | `[]TypeOK` | `ConstantsOK`, `TopRateOK`: under every fault, clock and option value |
| `RateLimiterProofs!LoopHolds`, `BucketHolds` | `[]LoopInv`, `[]BucketInv` | `Settled` |
| `RateLimiterProofs!EnvelopeHolds` | `[]Envelope` | `Settled` |
| `RateLimiterProofs!LimiterImplementsLeakyBucket` | `ImplementsLeakyBucket` | `Settled` |
| `RateLimiterProofs!OneSleep` | `[]SleepsOnce` | `Settled`, and no signals |
| `RateLimiterProofs!StatisticsAddUp` | `[]StatsAccount` | as `TypeCorrect` |
| `ForeignScanProofs!QualsExtracted` | what `extractRestrictions` returns is the restrictions of the conditions it can translate, each condition's once | nothing |
| `ForeignScanProofs!ScanTyped` | `[]TypeOK` | `ValuesAssumption`, `ServerAssumption`, `CommutatorAssumption` |
| `ForeignScanProofs!NoRowMissed` | `[](Evaluable(plan) => NothingMissed)` | the same |
| `ForeignScanProofs!ScanIsAStream` | `ImplementsStream` | the same |
| `ForeignScanProofs!AsksOnlyWhatIsWritten` | `[]AsksWhatIsWritten` | the same |
| `ForeignScanProofs!NoHandleLost` | `[]HandlesOwned` | nothing |
| `ForeignScanProofs!RowsAnswerTheQuestion` | `[]RowsAreOfTheQuestion` | nothing |
| `ForeignScanProofs!ExplainAsksNothing` | `ExplainIsSilent` | nothing |
| `UsageStatsProofs!TypeCorrect` | `[]TypeOK` | `WidthAssumption`, `TextAssumption` |
| `UsageStatsProofs!RequestsAreComplete` | `[]RequestsComplete` | the same |
| `UsageStatsProofs!PlansAreAsWritten` | `[]PlansAsWritten` | the same |
| `UsageStatsProofs!EntriesCount` | `[]OneEntryPerKey` | the same |
| `UsageStatsProofs!ReportsAreComplete` | `[]ReportsEveryEntry` | the same |
| `PlannerProofs!JoinsNested` | `[]JoinsAreNested` | `QueriesAssumption` |
| `PlannerProofs!WhatIsPlannedIsAsked` | `[]PlannedIsAsked` | `QueriesAssumption`, `ColumnsAssumption`, `CommutatorAssumption` |
| `PlannerProofs!NeededColumnsAreRead` | `[]ColumnsAreRead` | the same |
| `PlannerProofs!DocumentedArePlanned` | `[]DocumentedQueriesArePlanned` | the same |
| `SdsProofs!StringInvariant` | the invariant of section "Strings" | `BytesOK`, `SizesOK` |
| `SdsProofs!StringsStayInMemory` | `[]TypeOK` | the same |
| `SdsProofs!StringsAreWhatIsPromised` | `[]Represents` | the same |
| `SdsProofs!RoomIsMade` | `[]RoomAsPromised` | the same |
| `SdsProofs!SplitAndJoin` | `[]SplitJoin` | the same |
| `CJsonItemsProofs!ItemsAlwaysRight` | the invariant of section "Trees of items" | `NamesOK`, `BoundsOK` |
| `CJsonItemsProofs!TypeCorrect` | `[]TypeOK` | the same |
| `CJsonItemsProofs!AlwaysWellLinked` | `[]WellLinked` | the same |
| `CJsonItemsProofs!NamesAlwaysOwned` | `[]NamesOwned` | the same |
| `CJsonItemsProofs!AlwaysRepresents` | `[]Represents` | the same |
| `JsonDocumentProofs!DepthIsBounded` | `[]RecursionBounded` | `LimitAssumption` |
| `JsonDocumentProofs!TextIsReadInside` | `[]ReadsInside` | `LimitAssumption`, `NullAssumption`, `LiteralAssumption` |
| `JsonDocumentProofs!NothingIsLost` | `[]Owned` | the same |
| `JsonDocumentProofs!DocumentTypes` | `[]TypeOK` | the same |
| `JsonDocumentProofs!PrintingAlwaysFits` | `[]PrintingFits` | the same, with `SizeAssumption`, `TextAssumption`, `BufferAssumption`, `ValueAssumption` |
| `JsonDocumentProofs!PathsAlwaysFind` | `[]PathsFindTheirItems` | `LimitAssumption`, `NullAssumption`, `LiteralAssumption` |

### The limiter

`Settled` says where the bucket works at all: the clock is not set back, option
values are not negative and at most 1000 (beyond, the period is zero), and an
int holds the periods of the longest idle time.

The inductive invariant is `TypeOK /\ offset = 0 /\ LoopInv /\ BucketInv`.
`Envelope` by itself is not inductive, for it says nothing about the tokens.
`BucketInv` adds that for *each* earlier admission *i* of the session, the
requests admitted since, *plus the tokens that remain*, fit the envelope that
starts at *i*: an `Admit` takes one token for the one admission it adds, and
the tokens gained are no more than the periods between the bucket's date and
the new admission.  `TIMEVALDIFF` is not additive, since each interval may gain
a millisecond when `tv_usec` goes down; intervals are therefore compared on
`VirtualMsec`, a clock with one more millisecond per second that bounds
`TIMEVALDIFF` and telescopes.  This is the price of the rounding: a session may
be admitted up to one part in a thousand faster than its plan.  The bucket of a
user is shared by plans of different rates; everything is compared with the
largest (`TopRate`), which bounds each of the others.  `LoopInv` gives that the
bucket is dated no later than the request.

`OneSleep` needs that a sleep of `period - ival` milliseconds is enough whatever
the rounding: after it, at least one period has passed as `TIMEVALDIFF` counts.

Refinement follows from the invariant: `Admit` appends one admission that
conforms, `Exit` empties the clients of one backend, any other step leaves the
mapped variable unchanged.

`StatisticsAddUp` needs no such assumption: its invariant adds to `StatsAccount`
that a user without an entry has sent nothing in this session, and that the
request under way is the last one sent and not yet answered, so that the reply
that comes is counted once, for that request.

### The scan

For the handles and the question, `ScanInv` is `HandlesOwned` and
`RowsAreOfTheQuestion` with two facts they need: without a statement there is no
handle, and while a request is under way it is for a question that has a value,
before the first row and not for `EXPLAIN`.

`NothingMissed` is about an end, when nothing is left of how it came about.  Its
invariant `Keeps` says of every moment of a scan that the question asked covers
what the query wants (`KeepsWanted`: the value for `q` is that of every wanted
row, and the minimal confidence no higher), and that the rows returned are those
of the answer before the cursor (`AnswerRight`: the cells are linked in the order of
the results, the cursor is in the list, or NULL when all were returned).  The
first needs what the executor's loop over the conditions comes to, for a list of
any length (`QualsExtracted`).  `Evaluable` leaves out what `scan_expression` shows: a
value for `q` that is neither a constant nor a parameter.

`AsksOnlyWhatIsWritten` goes back from what the scan asks to the query: the loop
over the conditions keeps that the text and the confidence found so far are the
initial ones or those of a condition passed (`FoundIsWritten`), and what
`extractRestrictions` returns for a query that can be evaluated has a constant or
a parameter on its right.  A rescan changes the parameters and begins the scan
again in one step, so that the two never disagree.

`ScanIsAStream` maps what is not yet returned to the rows pending of `ResultStream`:
an answer makes the whole list pending, a call of *Iterate* takes its first row,
*End* drops the rest, and every other step leaves both as they are.

### Strings

The invariant is that the memory *holds* the value: the length in the header is
that of the value, within what the header's type can say and what is allocated;
the memory begins with the bytes of the value, and a null byte follows.
`sdscatfmt` breaks the last part until its end; in its loop a string is only *open*.
For each function there is a lemma: if the string holds *v* before, it holds the
promised value afterwards.  Growing is the step that needs care: the new header
may be wider, then all bytes move, and may say more than the old one, so that
lengths must be within the new type, not the old.  `SizesOK` says that the widest
header counts up to twice the longest string plus the preallocation and three
bytes, and that arguments are no longer than the longest string; of the other
widths it says only that each is larger than the one before.

For `SplitAndJoin` the invariant of the loop of `sdssplitlen` is the sequence of cuts:
each token lies between a cut and the next separator, no separator begins in
what was passed, and there is room for one more token and for the last.  Joining
puts the pieces back together one by one; the sum of the pieces is a prefix of
the string at every step.

### Trees of items

None of `CJsonItems`' properties is inductive.  `WellLinked` does not say which item
a pointer should lead to, nor that two lists are disjoint, nor that following
pointers ends; `Represents` reads each list up to its end and says nothing of an
item's own links when it is in no list.  The invariant `ItemsRight` says it from the
side of the trees: `members` is a forest, in which an item is in one place of one list
at most and ranks fall from an item to its members, so that none is below itself; and
the heap is *linked* like it: `child` is the first member, `next` and `prev` are the
neighbours in the list, an item in no list has none, and a reference has no members
of its own.  The names are those promised, and `copies` is the number of items that
own theirs.

For each operation there is a lemma: a memory that holds some trees and names holds
those that `ItemTree` promises afterwards.  Joining needs that the item is not above
the one it goes to, and then finds new ranks.  Deleting needs what `cJSON_Delete`
frees: the least set that contains the item and is closed under `child` and `next`
(`Reachable`) is the tree of the item, and leaving it out leaves a forest, linked as
before.  Looking an item up by place or by name, copying a tree, and the arrays that
are made in a loop go by induction over the steps of the loop.  Then there is one step
per call of the program, with the operations that it makes, any of which may run out of
memory.  `NamesOK` says that the null pointer is no item's address, that no name is the mark
for none, and that the lower case of a name is a name; `BoundsOK` that the bounds are
numbers.

### Folds and recursion

The prover has no rule of induction over a data type that can be cited.
`ListTheorems` states induction over numbers as a fact about sets: a set of numbers
that contains 0, and with *n* also *n* + 1, is `Nat` (`Induction`; `Along` for an
interval), which follows from a least element of the complement.  A fold of the
community modules, and a recursive function, is a choice of some function that
satisfies an equation.  `FoldExists` and `StepsExist` build one step by step, so that
the function chosen satisfies the equation as well; from then on a loop is proved
by its invariant, as a set of indices.

### Options and statistics

The invariant is `CatalogsRight /\ CountersRight /\ SentRight /\ StatsRight`.  The
validator is what makes `CatalogsRight` inductive: a mapping that was created or
altered holds an `api_key`, a server a `uri`, and neither holds options of the
other.  `SentRight` is `RequestsComplete` and `PlansAsWritten`: with `CatalogsRight`, the
text that a request finds is one that was given for a mapping, and `Strtol` reads it to
the end in base 10.  The two loops, that of the digits' meaning and that of `strtol`,
which stops counting one beyond `LongMax`, are compared step by step
(`MagnitudeIsDecimal`): each place has the lesser of the meaning and `LongMax + 1`.
`WidthAssumption` says that an int is no wider than a long, `TextAssumption` that a
text is a sequence of bytes, and not the null pointer.  `CountersRight` bounds an entry's failures and makes its calls those that
were asked; counters only grow, so a row already shown stays within the counters
of now (`StatsRight`), whatever is queried before the report goes on.

### The planner

`PlanInv` says what each callback leaves behind: the remote conditions are those of
the query that `IsRemote` chooses, in their order; the paths are those of
`findPaths`, and the plan's conditions those of a path.  From it, `JoinsNested` follows
from what `findPaths` puts into a path.  `WhatIsPlannedIsAsked` compares two functions
that are written in different files and test in a different order: for every
condition, what `IsRemote` accepts has a qual that `utils.c` extracts.
`NeededColumnsAreRead` and `DocumentedArePlanned` are about all queries as well.
`QueriesAssumption` says what PostgreSQL guarantees of its classes, and leaves out
conditions that mention a relation on the inner side of an outer join; it has
conditions nested up to three deep, for the prover cannot follow a recursion over data.
`ColumnsAssumption` leaves out whole-row references (section 5 has both).

### The parser

The theorems hold for texts of any length, whatever is nested in them, wherever
they are wrong or break off, and whichever allocations fail.  The assumptions say
only that a pointer, a name and a value can be told apart, and that a string is made
of bytes, escapes and `\u`.

`DepthIsBounded` needs that between two calls of `parse_value` something is open,
and that the depth is never less than the C stack, also where a failure leaves it
behind.  `TextIsReadInside` needs where the parser stands: never behind the end of
a text that has ended, although it steps back before the first member and forward
again with the next.

`Owned` by itself is far from inductive.  `MemoryRight` says what the heap looks like
while a text is read (`Shape`): a forest, with one tree for the document and one for
the list of each array or object on the C stack.  Each frame's item is the last of
the list before it and has no child yet; the last item of a list has no successor; no
pointer leads out of its tree.  So a new member extends one tree by one item
(`GrowShape`), an array that ends hangs its list under its item and merges two trees
(`CloseShape`), and a failure deletes one whole tree and leaves the others
(`DropShape`).  What `cJSON_Delete` frees is a recursion over the length of the heap;
`FreedIs` shows that it is the least set that contains the item and is closed under
the pointers, and everything else is said with that.  `CopiesRight` counts the
strings by their items, and `CurRight` says that what `parse_value` fills is new, so that
no string is overwritten.

`DocumentTypes` needs in addition that a string's meaning is a sequence of bytes
(`ParseStringIs`, for every literal) and `CountRight`: a lexeme at least was read for
each item, so a document is never larger than its text.

### The printer

`ensure` makes room for what a function is about to write *behind the offset*, but
most functions leave the offset where it is and rely on the caller to look for the
null byte (`update_offset`).  Whether that is safe is a matter of the order in which
five functions call each other, for documents nested to any depth.  `Complete` is the
discipline that the proof finds in it: every write either *closes* (it reserves just
its own bytes, and ends with the first null byte among them) or *moves* the offset behind
what it writes; every update follows a write that closes; and what closes without
moving to its null byte is followed by an update.  `StepsAreValue` shows that the steps
of every printable item, followed by an update, are complete: `ArrayIsValue` and
`ObjectIsValue` put those of the members together, by induction over the rounds of
`Steps`.  That `print_string_ptr` closes needs that the length it counts beforehand is
the length of what it writes (`PrintedLength`), for every string of bytes.

`RunIs` follows the buffer step by step: nothing is written beyond it, the offset is
where the steps alone determine (`Positions`, the same for every buffer), and after a
write that closes, the string ends where it should (`Terminated`).  `RoomIs` then compares
two runs of the same steps: where a buffer that grows was enough, a given one is,
that has *one* byte more than the text and its null byte.  The five that `cJSON.h` asks for
are never needed for what is modelled.

A document must be printable: an item that is called a string has a value.  That
is not so at all times, for a member that has its name is called a string before its
value is read.  `StringsRight` says that such an item is the last of a list that is still
being read, so that there is none in a document that is complete.

`SizeAssumption` says that sizes are numbers, `BufferAssumption` that a buffer's size is not
negative (`cJSON_PrintBuffered` refuses that), `TextAssumption` and `ValueAssumption` that the
words have their texts and that the numbers modelled are printed by their digits.

### Paths

`get_json_field` walks a path with two functions of cJSON, each with a habit that may
lead it astray: the search for a name ends at the first item without one, and the
search for a position does not ask whether it is in an array.  `PathsAlwaysFind` says
what holds all the same: where a path names an item, that item is found, and whatever
is found is at the names and positions of the path.  `MembersRight`, for any text and any
failure: the children of an object have names and those of an array have none, and
lists read backward as they read forward; it holds *while* the text is read, of the
lists of all open arrays and objects, since a member has its name only after it is
linked and before its value is known.  So a name is found wherever it is in an object,
and nowhere else; and no item is twice in a list (`ListOnce`), so that an item has one
position.  `Counts` relates the digits of a segment to the number that `str_to_maybe_int`
makes of them: the right one for positions under ten (section 5).
A member whose name is empty or consists of digits is none that a path can tell:
it is taken for a position, and the statement says so (`Named`).

### Only model-checked

`NeverStarves`: liveness is out of the prover's reach.  Of `JsonDocument` the language
of JSON (`AcceptsJson`), what the printed text is (`PrintsWhatWasParsed`) and strings
(`StringsMeanTheirCharacters`), which compare the code with definitions that are
recursive over the data.

## 5. Where the code departs from what is said of it

`PROJECT.json` quotes the lines of what a run shows: the plan holds within a
session only; `rate_info` is that of the last *successful* call; a join on an
expression reads an uninitialised Datum; an entry without a reset time crashes
`ocgeo_stats`.

There are other ways in which a plan is exceeded, which the envelope admits and
the model includes: a full bucket and the refill of the following second; a new
session after a disconnect; the bucket of one user for several servers; the
millisecond that `TIMEVALDIFF` may gain; a period of `1000 / rate` rounded down;
and requests spaced when admitted, not when they leave.  A `max_reqs_sec` over
1000 makes the period zero, and the division traps.  `max_reqs_day` is read and
never enforced.

`permits` is an int and the periods that have passed are a long (1581).  A plan of
1000 requests per second has periods of a millisecond: a session that sends nothing
for 25 to 50 days finds a negative number of permits.  That is not 0, so the request is
sent, and so are all that follow until the number has grown to 0; a slower plan
comes to it later in proportion.  `IntMax` keeps the runs and `Settled` the
theorems below it.

Found while reading, without a run of their own:

* `ocgeo_fdw.c:1036-1039` says that the scan does not start in *Begin*; line
  1165 sends the request there, also when no row is ever fetched.
* `Assert(ival >= 0)` (1578) does not hold when the clock is set back.
* `ocgeo_api.h:156` offers `ocgeo_response_cleanup`; nothing calls it, and *End*
  (1364) leaves the response allocated.
* `ocgeo_stats` prints `tm_mon`, which counts from 0, as the month (444-449): a
  reset in January is shown in month 00, which is no date, and the others a
  month early.  It reads eight bytes through a pointer to the four of `reset`.
  The SQL declares it `IMMUTABLE`, though its result changes with each query.
  When the caller stops early, the scan of the hash table stays open until the
  transaction ends; PostgreSQL allows a hundred (not modelled).
* The validator's hint says "positive integers"; zero, negative numbers, and
  octal and hexadecimal ones are stored (`numVal < 0` is never true of an unsigned
  number), and `atoi` reads `0x10` as 0 and `010` as 10.  A max_reqs_sec of 0 or
  less becomes 1000 in the limiter (1569): no limit, in effect.
* `ocgeo_fdw.c:733` asks for at least one path.  A query without `q` has none, and
  fails.  That includes `'x' = q` by itself, which `utils.c` would have swapped,
  and `lower(q) = 'x'`, whose first operand is read as the column it is not.  A
  query with `confidence >= n` alone is planned, without a question to ask.
* `parse_response_json` reads the members of a rate, of bounds and of a geometry
  without looking whether they are there (`ocgeo_api.c:121-123, 155-162`): JSON
  without one of them ends the backend, as one without a total does.
* A generic plan of `q = $1` makes `printRestrictInfoList` read a parameter as a
  constant.
* A whole-row reference has attribute number 0, which `ColumnList` skips: all of
  its columns are NULL.
* When the table is on the outer side of an outer join, the condition is added
  to the path without the relation it mentions (`users JOIN api ... LEFT JOIN
  cities ON q = cities.name`); so is a relation that the inner side mentions.
* In a JSON path an index of two digits is read as another (`k += 10 * k`
  multiplies by eleven), and a number is an index of an object as well.
* cJSON accepts control characters that are written into a string as they are,
  which JSON forbids, and a `\u` whose digits are none; `IsString`, the reference
  that `AcceptsJson` compares with, leaves these two rules out.
* cJSON reads `\u` with characters that are no digits as the null character,
  which ends the string; `cJSON_Minify` takes the quote behind an escaped
  backslash for an escaped one; `cJSON_Compare` takes objects with a repeated
  name for unequal to their copies, or equal to objects with fewer members.

## 6. Assumed, and not modelled

PostgreSQL's executor protocol (nested loops set their parameters before each
rescan; no fetch before that), libcurl, the API server and the clock are
modelled from how the code uses them.  `ServerAssumption` assumes that a document has as
many results as its total says: otherwise the array of results is written past
its end, or its cells are read unwritten.  The server applies `min_confidence` as a filter.
The wording of messages, the text of the URL and the conversion of fields to
column types are abstracted.

`Sds` takes one string and arguments that do not alias it: `sdscat(s, s)`, which
reads memory it has freed, is not a legal call.  Memory never runs out (a call
that fails changes nothing and returns NULL, except that `sdscatfmt` then goes
on with NULL).  The digits of `%i` and `%u` are a string like any other.
An argument is no longer than the bound of the strings.

`CJsonItems` takes a program that uses the library as it is meant to be used:
it adds only items that are in no list, never below themselves, detaches a
member from the item it is in, and leaves the members of a reference alone.
An item's own value is left out, and an item that no member is ever added to
stands for any that has one.  The argument of a replacement by name is not the
replacement's own name, which is freed before it is copied.
`cJSON_Duplicate` is modelled for items without references below them.

`JsonDocument` draws a text by lexemes: the bytes of numbers and of white space
are not told apart, numbers are members of a small set, and whether `strtod`
reads what the standard forbids (`01`, `1.`) is not asked.  Not modelled in
`cJSON.c`: comparing, minifying, raw items, fractions, `CreateObjectReference` and
the like, and the hooks.  In `sds.c`: comparison, case mapping, `sdscatrepr`,
`sdssplitargs`, `sdsmapchars`, and the digits of numbers.

`Planner` leaves out costs and estimates, and so which of several paths is taken:
any may be.  A query is what PostgreSQL makes of its text, with equivalence
classes and conditions of outer joins as it hands them to the wrapper.

`ocgeo_reverse` and `ocgeo_response_cleanup` have no caller.  `_PG_init`, the exit
hook, the handler's table and the SQL declarations have no behaviour beyond the
calls that are modelled.

## 7. Plan

Done: `RateLimiter`, `ForeignScan` over `Pushdown` and `OcgeoApi`, `Options` under
`UsageStats`, `Planner`, each with its proofs where the prover reaches; `Sds`,
`CJsonItems`, and `JsonDocument` over the parser, the printer, strings and paths.

Left, in order:

1. Compose `Planner` with `ForeignScan`: the plans of the first as the constants
   of the second.  `PlannedIsAsked` states the interface between them now.
2. `cJSON_Compare` and `cJSON_Minify`; references made by
   `cJSON_CreateObjectReference`.
3. `sdssplitargs` and `sdscatrepr`, each the inverse of the other.
4. `ocgeo_response_cleanup`, once it is called.
