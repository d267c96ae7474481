# Molten in TLA+

Molten is a PHP extension that traces the calls a PHP application makes and
writes them out as zipkin, opentracing or SkyWalking spans. It lives inside every
PHP process, hooks the executor and some library functions, shares counters and
configuration between processes through System V shared memory, and writes spans
and error reports to a log sink.

This directory holds TLA+ modules of the parts of Molten that are hard to test,
configurations that model-check them with TLC, and theorems about them that TLAPS
checks. `PROJECT.json` lists the components, the runs, the code lines behind every
definition, the hazards, and for each property a mutant: a plausible bug of the
code that the run of that property finds.

    tlc -config MCCtrl_shared.cfg MCCtrl     # one run
    tlapm MoltenCtrlProofs.tla               # one proof module

## 1. The system

| component | code | state | operations | in |
|---|---|---|---|---|
| sampling and control | `molten_ctrl.c` | three shared slots: configuration `mcm`, counters `mri`, limiter `msr` | decide on a request, apply a POST, count a request | `MoltenCtrl` |
| status page | `molten_status.c` | none | GET prints the slots, POST updates them | `MoltenCtrl` |
| request life cycle | `molten.c` RINIT, RSHUTDOWN | `in_request`, `is_sampled`, header record | begin, end | `MoltenRequest` |
| executor hook | `molten.c` `mo_execute_core` | `level`, the C stack of calls | call, return, bail out | `MoltenRequest` |
| error callback | `molten.c` `molten_error_cb` | errors of the request | record an error | `MoltenRequest`, `MoltenLog` |
| chain | `molten_chain.c` | trace header keys, the server span | build, destroy | `MoltenRequest` |
| span context stack | `common/molten_stack.c`, `molten_span.c:50-160` | contexts (id, number of children) | push, pop, look | `MoltenRequest` |
| span list | `molten_log.c:229-256` | up to 300 spans | add, flush | `MoltenRequest` |
| curl interception | `molten.c:149-445`, `1213-1279` | headers recorded per handle | setopt, setopt_array, reset, exec | `MoltenCurl`, `MoltenRequest` |
| shared memory and lock | `common/molten_shm.c`, `common/molten_lock.c` | segment, slots, attach count, lock file | attach, create slots, detach | `MoltenShm` |
| file sink | `molten_log.c` | descriptor, inode, day | check the path, open, write | `MoltenLog` |
| report | `molten_report.c` | error list, time of the last report | record, report | `MoltenLog` |
| interceptors | `molten_intercept.c` | a cache for `curl_multi`; two fields of `pct` for the span's layer and component (left out, see 6) | the record functions of 22 kinds of calls, and of `curl_exec` | `MoltenIntercept` |
| span builders | `molten_span.c` | none | start a span, add annotations, in three formats | `MoltenIntercept`; ids in `MoltenRequest` |
| SkyWalking registration | `molten_span.c:865-1054` | application id, instance id, sink address | discover, register, retry | `MoltenRegister` |
| load balance and http | `common/load_balance.c`, `molten_http_util.c` | the current weights | choose a server, GET, POST | `LoadBalance`, `MoltenRegister` |
| utilities | `molten_util.c`, `host_info.c`, `molten_slog.c` | id counter | ids, clocks, ratio, formatting | partly |

### How they interact

* **MINIT** (once per master or CLI process) attaches the segment and creates the
  slots (`mo_shm_ctor`, `mo_ctrl_ctor`), then prepares the log path. A web master
  forks workers afterwards: they share its mapping and its lock descriptor.
* **RINIT** serves the status URI, then decides whether the request is sampled: by
  the caller's header, by rate, or by the shared limiter. A sampled request gets a
  span list, a context stack and header keys.
* **During the request** the executor hook calls the record function of each
  intercepted call after it returns or bails out; `curl_exec` pushes a context of its
  own before the transfer, so that the callee can be told its parent span.
* **RSHUTDOWN** adds the server span, flushes the list to the sink, counts the request
  in the shared slot, and now and then writes the error report through the same sink.
* **An interceptor** writes the span's layer and component into two fields of `pct`
  that all calls share, starts the span, and describes the call by annotations; some
  call PHP methods for that, which may be intercepted themselves.
* **MINIT**, with a SkyWalking format, also blocks until a collector has given the
  process an application id, and mostly an instance id; every segment carries both.
* **MSHUTDOWN** detaches, in the master and in every forked worker.

### What is hard

* The three slots are shared by all workers and have no lock. The limiter compares,
  resets and increments in separate accesses; a POST is a series of stores.
* `exit()` and fatal errors `longjmp` out of any number of calls. The executor hook
  catches and throws again; the `curl_exec` handler does not catch.
* Slots are created without the lock, the lock file is unlinked while others open
  it, the attach count ignores forks, and processes are killed at any step.
* The file of the day is rotated and recreated by others while descriptors to it are
  kept over requests; any system call of the sink may fail.
* Records run while exceptions are pending, inside one another, and again in the next
  request with resource ids that were used before.
* Registration is repeated when an answer is lost, although the collector may have
  acted on the request.
* What is recorded of a curl handle must follow what libcurl holds, which cannot be
  read back.

### What makes each part correct

* sampling: the limit holds per minute; the counters are ordered, and how far the status
  page may be from that; a POST takes effect as a whole;
* request: whatever way calls are left, the level, the stack and the list agree with
  the calls in progress; the spans are the call tree, with different ids;
* curl: the script's headers are kept and each transfer carries the trace of its span;
* shared memory: whoever runs finds its slots; nobody waits for ever;
* interceptors: a span has the times of its own call and says whether it failed; what
  differs between the formats is known;
* registration: what a process sends is credited to it, it is one instance however
  often it had to ask, and the start ends;
* sink and report: a batch goes to the right file; each error is reported once.

## 2. Modules

### MoltenCtrl (and RequestLimiter, MoltenCtrlProofs, MCCtrl)

`Worker` is a set of processes that map the same slots. Every read or write of a slot
field is an action, in the order of the code, but for the two reads of a status page: `BeginRequest` (RINIT,
which goes to the status handler first), `ReadAll`, `ReadCapture` and `WritePage` (a GET: the two counters are arguments
of one call, so C reads them in either order, and nothing locks between them),
`PostEnable`, `PostType`, `PostBranch`, `PostRate`, `PostRequest` (`mo_ctrl_update_sampling`),
`SampleByHeader`, `ChooseSampler`, `HitRatio`, `DivideByZero`, the limiter
`ReadClock`, `CompareMinute`, `IncrementNum` or `ResetNum`, `ResetMin`, then `ReadNum`,
`ReadLimit`, `Decide`; and `RecordAll`, `RecordCapture` at the end. Atomic
adds are one step, everything else is not. `sampling_type` is cut to a byte
as in the code. The ratio sampler draws a random number: any outcome that the
ratio allows. A ratio of 0 kills the process. `Crash` kills a worker anywhere.
A CLI process has private copies: the same module with one worker.
`seen`, `granted`, `epochGranted`, `stale` and `meanwhile` (captures since a page was begun) are
history variables for the properties.

`RequestLimiter` is the abstract specification of the limiter: of the requests decided
in a minute the first `Limit` are sampled. It has the quirk of the code written
down in one place, `Quota`: in the minute of `mo_ctrl_ctor` one request less is sampled,
because that minute was not opened by a request. (README.md:76 says `set to per min request num`
and makes no such exception.)

### MoltenRequest (and MoltenRequestProofs, MoltenSpanProofs, MCRequest)

One process over several requests. `frames` is the C stack of calls: plain ones, ones
whose class or function is intercepted (`hit`) and replaced `curl_exec`s; which is which
is a choice. `bailing` is a `longjmp` on its way: `Unwind` is `mo_execute_core`'s
catch, record, pop and throw again, `UnwindCurl` what happens to a `curl_exec` frame,
nothing. `RecordBails` is a record callback that bails out itself, for
instance at the memory limit. `CurlBegin` and `CurlEnd` surround a transfer whose
callbacks may call anything. `Rshutdown` builds the server span and flushes.
In a build with level ids the context stack owns the very strings that the
trace header keys own (`aliased`), and RSHUTDOWN frees both: `RshutdownDies` is the process
dying of it, `CurlDies` a process that dies from a pop without a matching push.
Ids are sequences of numbers (1.2.1 in the level build), and the constant `LevelId`
selects the build. `MCRequest` has both: its `level_build` is chosen in the initial state
and a step is one of `MoltenRequest` or of an instance of it with the other constants. `truth` is the real call tree, `leaked` and `lost` count what
bailouts left behind.

### MoltenCurl (and MoltenCurlProofs, MCCurl)

One request and its curl handles: `record` is Molten's array of headers per handle,
`option` what libcurl holds. A value of `CURLOPT_HTTPHEADER` is an array, an object, whose
properties ext/curl takes for lines (`Apply`), or a scalar, which it refuses. `curl_setopt` records arrays only,
`setopt_array` whatever it is given, so an object leaves the record behind: `unknown` holds the
handles that the record says nothing true of (objects, copies, `setopt_array`s that fail half way). Resets and
repeated transfers are there. The five `X-W-*` lines of a span are one line, tagged with the span. The module
follows the PHP 7 branch.

### MoltenShm (and MoltenShmProofs, MCShm)

Processes that start, attach, fill slots, run, fork, detach, die. `key` is the
segment that `shmget` finds, `segs` the contents, `path` the inode that the
lock file's name has now, `holder` the owner of the `fcntl` lock on each inode.
`attach_num++` is a load and a store; `TestSlot`, `MarkSlot` and `FillSlot` are the
unlocked `mo_create_slot`; `Leave` is the atomic decrement. `ReleaseTest`, `UnmarkSlot`, `WipeSlot` and `ReleaseHeader`
are the release loop, each test and each store a step, under the file lock, which `mo_create_slot` does not take.
`Unused` keeps the condition of `mo_realse_slot` as it is written, which clears a slot only if it is
*not* initialised. `torn` remembers the slots whose process was killed between setting
`init` and copying the payload: no later process ever fills those. `raced` remembers the slots that were created
while a destructor, which had found them unused, was about to clear them. System calls may fail: `Start` without
a segment (`ftok`, `shmget`), `AttachFails` (`shmat`), `OpenFails` (the lock file); `MaxFaults` bounds failures and
kills together. The kernel's part (a removed segment lives until its last detach,
a dead process holds no lock) is external.

### MoltenLog (and MoltenLogProofs, MCLog)

Workers that end requests with a flush and a report, a clock with days, and a log
rotation that renames or deletes. A file is its inode. `GeneratePath` is
`generate_log_path` in one step, because nothing that happens between its system
calls makes a difference (its comment says why); `Open`, `Stat` and `Write` are steps of
their own. An inode that was deleted and that nobody has open may be used again,
as file systems do. Each call can fail. `since` and `current` remember when the call
of `mo_log_write` began and what the file name has stood for since.
The module is for `sink_type` 1 and `open_report` 1; with other sinks nothing is
kept between two writes.

### MoltenIntercept (and MoltenInterceptProofs, MCIntercept)

The requests of one process that are sampled, and the intercepted calls in them.
`Interceptor` has one row per record function: what it does with too few arguments, and what the
extension itself throws. `Record` is the annotations it makes of an outcome, with the
code's own tests (`IfFalse`, `IfThrown`, `MysqliError`, ...), and `Zipkin`, `Opentracing`
and `Skywalking` are what the builders make of the annotations; `IsError` is the field of that name in a
SkyWalking span, which only `BA_ERROR` sets. An annotation is its key and its `ba_type`; values are left out.

A call is a frame, and PHP code may run in each: the body of a user function, a callback or an error handler
that an internal function runs. So `Call`, `Throw` (of any class in `Thrown`), `Catch` and `Bail` (an exit or a fatal
error) are possible inside every call, and an exception may end any. `RecordInternal` is the return and the record of an
internal function, one step because no PHP code runs in these records; a user function (`guzzle`, `es_request`,
`es_default`) starts its span in `StartRecord`, may run PHP code again for its record, and is done in `EndRecord`.
`Unwind` is what a bailout skips. `CurlMultiAdd` and `CurlMultiRemove` use `span_info_cache`.
`redis_error` is what `getLastError` would answer with: `RedisUnseen` is a call that is not in the list of
`mo_intercept_ctor` and fails, or clears it. `RecordDies` and `CurlDies` are
records that follow a NULL pointer or read a NULL as a string: the process is gone and another goes on. `Tick` sets the clock to any
value, earlier ones too, as `gettimeofday` may; `steady` remembers whether it did. Which names are
intercepted is a table in the code that no property is about, but for the Redis calls that are not;
`curl_exec` is a row because it records like the others. The rows are those of the classes themselves: a PHP class that overrides
`getHost` or `getLastError` in a subclass of Redis runs code in a record, which is left out.

`MCIntercept` keeps each behaviour to one menu of interceptors: each kind alone, `es_request` with `redis`,
the curl functions together, and `curl_multi` alone. `Limits` gives three calls to the curl functions, two requests
to `curl_multi`, a moving clock to those two and to `guzzle`, and two calls of one request to the rest. The theorems have no such limits.

### MoltenRegister and LoadBalance (and MoltenRegisterProofs, MCRegister)

`MINIT` with a SkyWalking format, in several processes, and the collectors they talk to. Each HTTP
call is one step; what differs is whether the collector got the request and what came
back. `ApplicationUnanswered`, `InstanceZero`, `InstanceFails` and `InstanceUnanswered` are the
outcomes between which the code does not always distinguish. `get_instance_id` is the set of what may be
read from the node that is freed just before: the value it had, or, where the allocator overwrites what is
freed (`wiped`), also 0 or any number in `Garbage`, which the code takes for an id. `Send` is a segment on
its way with the ids in it. Collectors are external: they keep what was registered,
know an instance by its uuid, and may answer 0 at first. A random uuid is a number that no other MINIT has.

`LoadBalance` is `load_balance.c` as operators: one call gives an index and the weights it leaves.
`Sums` is what the loop of `getNextServerIndex` has added up server by server, and `Calls` the lists
that one call after the other leaves; both are recursive functions, so that they can be proved about.

## 3. Runs

Counters that only grow are cut by named bounds (`Max...`), so a run stops when they
are used up: that is why every configuration has `CHECK_DEADLOCK FALSE`.

| run | what it checks | bounds, and why they suffice |
|---|---|---|
| `ctrl_shared` | `TypeOK`, `CaptureBehindAll`, `PageAhead`, `EpochLimit`, `SettledConfig` | two workers, three requests, a minute boundary, one kill, five kinds of POST, a page while the other worker records; two workers are all that each race needs, and the theorems are for any number |
| `ctrl_single` | `ImplementsLimiter`: with one worker MoltenCtrl implements `RequestLimiter` | limit 2, three minutes, seven requests: each minute can stay below, reach and pass its quota |
| `ctrl_race` | finds `PerMinuteLimit` violated | two workers, four requests |
| `request_calls` | `TypeOK`, `LevelBalanced`, `StackAccounting`, `LiveContexts`, `UniqueIds`, `CompleteRecord`, `SpanTree` | both builds; two requests of four calls together nested three deep, a caller that sends a span id and a parent id, either alone, or neither (in the build that counts, other numbers), a span list of two so that it overflows; two requests show what one leaves to the next |
| `request_leak` | finds `ServerIsRoot` violated | one request of two calls, with bailouts everywhere, in record callbacks too |
| `curl_headers` | `TypeOK`, `UserHeadersKept`, `OwnTraceLast` | two handles, one a possible copy of the other, seven calls; two arrays, an object and a scalar |
| `curl_dup` | finds `TraceOnce` violated | one handle, five calls |
| `shm_slots` | `TypeOK`, `SlotsReady`, `LockOwned`, `NobodyStuck` | two process ids, three starts or forks, one slot, one kill or failing system call: a master and a worker, or two masters, and a third process after either |
| `shm_lock` | finds `OneFileLock` violated | two processes |
| `intercept` | `TypeOK`, `TimesNest`, `MultiTimes`, `ErrorExplained`, `FailureShown`, `FormatsAgree` | every interceptor by itself in two calls, one inside the other or after it; three calls of the curl functions; two requests of `curl_multi`, whose cache could outlive one; three clock values; one handle, closed or not; an `Exception` and an `Error` thrown by PHP code beside those of the extensions; servers that are known in whole or in part |
| `register` | `TypeOK`, `SegmentsCredited`, `OneInstance`, `SmoothRoundRobin`, `Starts` | two processes, two collectors, two service names, three starts: two at once and one after a kill; one garbage value, which is also an id that may be given; lists of up to four servers with weights 1 to 3 for the round robin |
| `log_sink` | `TypeOK`, `RightFile`, `ErrorsOnce`, `BelowLimit` | two workers, three requests, two errors, two days, one rotation, three inodes so that one is reused |

### What they show

* **The limiter.** Between two resets of its counter it overshoots by at most one
  request per other worker. But two workers may both reset it for the same minute, so the
  limit *per minute*, which README.md:76 and molten_ctrl.h:54 promise, does not hold.
* **Counters and POSTs.** In the slot, captured requests never exceed all requests. On the status page they
  may, because it reads the two at different times, but by no more than were captured meanwhile
  (`PageAhead`). Concurrent POSTs
  settle on a type with its own value, as long as no poster is killed.
* **Requests.** Level, stack and list survive every nesting of bailouts, with two
  exceptions, which the properties name: a record callback that bails out leaves
  the level one too high (`lost`), and it, a bailout in `curl_exec` or a missing argument there leaves
  a context (`leaked`), after which the server span takes the id of the leaked call. The counterexample of
  `request_leak` is the shortest way there: a call, its record callback that bails out (or a `curl_exec` without a
  handle), and RSHUTDOWN.
* **Curl.** The script's headers are kept on handles that the record can know (see below for those it cannot);
  the last trace lines of a transfer are its own, if what is recorded is an array. A handle with recorded headers that is used again sends the old lines too.
* **Shared memory.** The lock excludes nobody but forked copies (those it does: `LockOwned`), and the attach count is
  wrong in both directions. The release loop that this leads to leaves every slot that is in use alone, because its
  condition is the wrong way round. (The mutant that puts it right takes the slots from running workers.) But
  it may clear a slot that is created between its test and its stores (`raced`), and a kill may leave
  one half made (`torn`): those are the only ways to lose a slot.
* **Interceptors.** While the clock does not step back, spans nest as the calls do, and one made by the record of
  a call begins after the end of its parent (`TimesNest`); `curl_multi` times are those of this request's handle. What
  spans say of errors follows the calls with exceptions that the properties name: failures that are not
  shown (`Mute`, `ReadsError`, `Hears`), errors that are shown without one (`ErrorExplained`),
  and where the three formats differ (`FormatsAgree`).
* **Registration.** Ids and segments go to one collector, and repeated registration
  with the same uuid is one instance. Where a freed JSON node keeps its value, the instance id that
  is sent is the process's own, and every start ends; where it is overwritten, the code promises neither.
  `getNextServerIndex` is a smooth weighted round robin over several calls, but MINIT makes one
  call on a new list, so it always takes the first server (`FirstServerChosen`).
* **Sink.** A batch misses the file of the day only if a rotation falls between `open`
  and `lstat`; then the worker keeps the wrong file until midnight or the next
  rotation. The report empties its list whatever fails, so errors are never sent twice,
  and are lost if the write fails.

### Divergences that have no run

They were met while modelling. The modules do as the code does.

* A posted `enable = 0` (README.md:64, 167; molten_ctrl.h:45) is stored and nothing reads it.

* In the minute of `mo_ctrl_ctor` one request less than the limit is sampled (`Quota`).
* `build_span_id_random` is a counter that starts at 0 in each process, so ids of one
  trace may collide between caller and callee; `UniqueIds` is about the ids of one process, and
  excepts by name (`UpstreamApart`) a request whose own id came from such a caller.
* A `curl_exec` after RSHUTDOWN, from a destructor or session handler, works on a freed stack.
* The header record knows nothing of copied handles: a copy's own headers are replaced.
* `zend_llist_count > 0` in `mo_rep_record_data` compares a function with 0, so an
  empty list is written at each interval.
* README.md names sink type 3 for syslog; the code has 8, and 3 writes nothing.
* An object for `CURLOPT_HTTPHEADER` is taken by ext/curl and not recorded by `curl_setopt`, so the next
  `curl_exec` replaces the script's headers by what was recorded before; one that `curl_setopt_array` recorded gets
  no trace lines. (On PHP 5, `curl_setopt_array` also frees the value that it recorded.)
* SkyWalking spans take layer and component from two fields of `pct` that outlive a call: `curl_multi` writes them
  after its span was started, guzzle and Elasticsearch never, so their spans, and the server span, show those of an earlier call.
* The guzzle interceptor shows the URI as `http.method` (tests/molten_014.phpt expects "GET"); called with one argument,
  it reads past its arguments.
* Failures that are not shown: of the procedural `mysqli` functions (tests/bug_connect_error_db.phpt:66-70
  accepts it), of `pdo_statement` when it throws, any exception of a class that the record does not look for (PHP code in a
  callback or an error handler may throw those), and every PHP 7 `Error`.
* Errors that are shown without one: Redis repeats the last error of the object, which may be that of an earlier
  call or of one that is not intercepted (`lPush`, `hSet`, `eval`, ...); Memcached reports a missing key. A FALSE of PDO without a
  message reads a NULL as a string: a crash, or whatever is there.
* An error message of PDO leaves `isError` of the SkyWalking span at 0, and the error that Redis gives is shown by zipkin alone.
* Captured arguments appear in zipkin spans only: the other formats have no tags to add to yet.
* `addServers()` and `mysqli_stmt_execute()` without arguments, and `curl_exec` on a handle that
  one of its callbacks closed or threw from, follow NULL pointers: the process dies.
* When discovery fails or gives an empty list, nothing is registered and the sink stays
  at the discovery address. Answers that are no JSON of the expected form crash MINIT.
  When the first registration of the instance fails, its id stays 0 and nothing asks again.
* `get_instance_id` reads a JSON node after it was freed. Where the allocator overwrites it, 0 keeps MINIT in its
  loop, and any other number is sent as the instance id with every segment.
* A destructor may clear a slot that another process has just created (`raced`): limits and counts are then
  0 until a later process creates it again.
* Nothing ends MINIT's loops when no collector ever answers.
* The list of servers has room for eight; the heartbeat is commented out.

### Fairness

Two modules have a liveness property.

`MoltenShm`: `FairSpec` asks that each process that is inside a constructor or destructor
keeps taking steps (`WF_vars(Progress(p))`): the operating system schedules every
process, and the kernel grants a free `fcntl` lock. Nothing makes a process start, stop,
fork or die.

`MoltenRegister`: `FairSpec` asks that a collector that is asked for ever answers in the end
(`WF_vars(Answers(p))`): every HTTP call of the code has a timeout of 30 s, so the process
comes back to ask, and whether somebody answers is up to the collectors. The zeros, failures and
lost answers need not stop before that. `Starts` says that nothing else keeps a process from its first request.

## 4. Proofs

The theorems hold for every value of the constants under the named assumption of
each module (`CtrlAssumption`, `RequestAssumption`, `CurlAssumption`, `LogAssumption`, `ShmAssumption`,
`InterceptAssumption`, `RegisterAssumption`), which TLC evaluates in every run.
Every invariant of a passing run is stated by a theorem.

* `MoltenCtrlProofs`
  * `TypeCorrect`: `TypeOK` together with `LocalsOK`, which says what a worker's local
    variables hold at each `pc`.
  * `CaptureNeverAhead`: `CaptureBehindAll` is inductive as it counts the workers
    between their two adds; the proof is about the cardinality of that set.
  * `PageInOrder`: `PageInv` compares what a page has read with the slot as it is now: of the counters read so far, the
    captured requests are at most those counted and those captured meanwhile, whichever is read first.
  * `EpochLimited`: `EpochInv` bounds the grants since the last reset in two ways, by
    `request_num` plus the number of workers, and by the limit together with the workers
    that are about to be let through. Each alone is not inductive: a reset loses the
    first, an increment the second.
  * `AlwaysSettled`: `StaleOwed` says that while the active type has a value from before it,
    some worker is still on its way to store one (`Owes`). `SettledConfig` alone speaks of the
    state when all are done and says nothing of how one gets there.
  * `SingleIsLimiter`: with one worker, no POST and nobody killed, `Spec` implements
    `RequestLimiter`. `Alone` ties `request_num` to the abstract `seen`: equal to the requests decided
    in `last_min`, less the one that opened that minute (none did so for the minute of
    `mo_ctrl_ctor`), plus the one about to be decided; later minutes have decided none. `Decide` is then
    the abstract decision and every other action a stutter. The run
    `ctrl_single` checks the same of its three minutes.
* `MoltenRequestProofs`
  * `TypeCorrect`: `TypeOK` and `Modes`, which ties `phase` to the flags and to `frames`.
  * `LevelAlwaysBalanced`, `StackAccounted`: by the number of traced frames; the
    lemmas `TracedAppend` and `TracedButlast` say how a call changes it.
* `MoltenSpanProofs`, on top of these
  * `AlwaysCompleteRecord`: `RecordInv` adds to the property that the error list counts
    the fatal errors until RSHUTDOWN, and that after it no call in progress has a span to record,
    because the list is gone by then.
  * `ContextsStayLive`: `PlacedInv` gives the traced calls places on the stack that
    increase with depth; a pop takes the top, which is at or above the place of the innermost
    call, so no outer call loses its own. Membership alone, as `LiveContexts` states it, is not inductive.
  * `AlwaysSpanTree`: as long as nothing is leaked, `Path` goes from the request's context
    through those of the calls to the top, one step up for each traced call. The top and the
    context under it are then the id and the parent of the call that ends, and
    at RSHUTDOWN those of the request.
  * `AlwaysUniqueIds`: no id that was given (`Given`) is ahead (`Ahead`): with level ids, an id that
    a context on the stack, or a child it has yet to have, may still give; else, a number still to be
    drawn. A push takes its id from those ahead, so it is new. For level ids the argument needs
    that the contexts on the stack have different ids, and compares prefixes (`NoOtherChild`); contexts that are
    leaked are covered, as they only ever lie on the stack.
* `MoltenCurlProofs`
  * `CurlTypes`, `HeadersAlwaysKept`, `AlwaysOwnTraceLast`: `CurlInv` ties, for each open handle that the
    module has lost no track of, both what is recorded and what libcurl holds to what the script asked
    for (`Carries`), and in a request that is not sampled counts the one line a record has. That what
    Molten appends leaves the script's lines as they were is a lemma (`CarriesKept`), for any sequence. `CurlAssumption` says that the arrays that a
    script passes are lines of its own: a script that writes `X-W-*` lines itself is not covered.
* `MoltenShmProofs`
  * `SlotsAlwaysReady`: `SlotsBehind` says what a process has made sure of at each step of its
    constructor, `InitFilled` that an initialised slot is filled, being filled, torn or raced, `ClearingUnused` that
    a slot which a destructor is about to clear is unused, or raced. The property excepts the two ways to lose a slot,
    which the code has; the theorem is that there is no third. Needs that a
    new segment is none that somebody still refers to (`SegmentLeft`, by counting).
  * `ShmTypes`: the one type that is not obvious is the range of `attach_num`, which is
    incremented by a load and a store and decremented by workers that it never counted.
    `Counted` bounds it on both sides, by the processes that have yet to count up or down and
    those there have been, and bounds the value that a process has loaded in the same way.
  * `LockAlwaysOwned`: `LockOwned` is inductive by itself. It is the safety half of `NobodyStuck`: who
    waits, waits for a process that is inside and waits for no lock.
* `MoltenLogProofs`
  * `TypeCorrect`, `ListBelowLimit`, `ErrorsReportedOnce`, `AlwaysRightFile`: per worker, `RightInv` says at each
    step of `mo_log_write` since when which file bore the day's name, `OnceOf` which errors are
    handed over, in hand, and listed.
* `MoltenRegisterProofs`
  * `FirstServerChosen` is about the balancer alone.
  * `EveryWeighting`, and from it `AlwaysSmooth`: the round robin is smooth for any number of servers and
    any weights. `Standing` is the invariant of the calls: the current weight of a server is its weight
    times the calls, less the total times how often it was named, and above the total below 0; the
    current weights add up to 0, and the counts to the number of calls. The bound holds since a server that is named was
    the highest of numbers that add up to the total, so above 0 before the total is taken off. After as many
    calls as the total it makes each count at most the weight, and as both add up to the same, they are
    equal. Sums and calls are recursive functions; induction over them comes from the
    well-foundedness of `<` on the naturals (`Least`, `UpTo`, `Recursion`).
  * `RegisterTypes`, `SegmentsAlwaysCredited`, `AlwaysOneInstance`: `RegInv` says that the starts of
    running processes differ, that what a collector knows of a start was sent by it, and that
    the ids a process has learnt are known to the collector its sink points to; collectors only grow. Of the
    instance id this is said for allocators that leave a freed node as it is (`~wiped`): elsewhere the process sends
    what it read, and only its application id is certain.
* `MoltenInterceptProofs`
  * `InterceptTypes`, `ThreeFormatsAgree`, `EveryFailureShown`:
    `InterceptInv` has three parts: `Pending` (the record of a
    call that threw runs with its exception pending, as the innermost frame), `FrameOK`
    (a started span is that of its call), `SpanOK` (annotations of a span are
    those of its record for an outcome that can be). The properties are about spans alone and say nothing of
    how a half-made one got there. The lemmas `RecordAnnotates`, `RecordCalls`, `RecordShowsFailure` and `RecordExplains`
    go through the record functions.
  * `MultiTimesAlways`: a cached time is the time of the last addition in this request.
  * `EveryErrorExplained`: `ErrorKept` says that the error of an intercepted call which a Redis object remembers is one of a call
    that has its span already. Calls are numbered in the order in which they are made (`Numbered`), so
    that span is of an earlier call.
  * `AlwaysNested`: while the clock does not step back, `Timed` follows each frame: it begins within the frame below, or after the end of that
    one's call when its record makes the call; the spans of what it called lie within it likewise. `Numbered`
    identifies a span's parent among the frames while it is open and among the spans when it is not.

Only model-checked: `NobodyStuck` and `Starts`, because liveness under fairness is out of the
prover's reach, and the four violations. No module declares a RECURSIVE operator; `LoadBalance` recurs in
recursive functions, which `MoltenRegisterProofs` is about.

## 5. Plan

In this order, and why:

1. `MoltenCtrl`, `RequestLimiter`: state shared by all processes. *Done.*
2. `MoltenRequest`: the heart of the tracer. *Done.*
3. `MoltenCurl`, `MoltenShm`, `MoltenLog`. *Done.*
4. `MoltenRegister`, `LoadBalance`. *Done; the heartbeat turned out to be commented out.*
5. `MoltenIntercept`: record functions, cache, times, formats. *Done.*
6. Proofs of `SlotsReady`, `LiveContexts`, `CompleteRecord`, `SpanTree`, and about 4 and 5. *Done.*
7. Composition: a process as `MoltenRequest` with `MoltenCurl` for its headers, so that
   the parent id sent to a callee is the id of the span that is recorded (today `SpanTree` is about
   the ids and `OwnTraceLast` about the lines, apart); `MoltenCtrl` above `MoltenShm`.
8. An abstract tracer (a call tree that is recorded when calls end), which
   `MoltenRequest` implements while nothing is leaked; `SpanTree` is the invariant of that refinement.
9. Proofs of `SingleIsLimiter`, `SettledConfig`, `UniqueIds`, `OwnTraceLast`, `ErrorExplained`, `TimesNest`,
   `SmoothRoundRobin`, and the types of all modules. *Done.*
10. Short writes of the sink, with the content of files.

## 6. Not modelled

* The nesting and names of the fields of a span, the values of annotations (captured arguments among them), the layer
  and component of a span, the text of ids and of headers: layout, or copied from one place to another. Requests that are not sampled record nothing, so `MoltenIntercept`
  leaves them out.
* The buffer that spans are encoded into, and the stdout, syslog and HTTP sinks: a write
  there depends on nothing that an earlier one left.
* Short writes: `flush_log_to_fd` doubles what it has written instead of adding, so the
  tail of a batch may be lost or its head repeated; the content of files is left out.
* The mutex and spin locks of `molten_lock.c`, which are initialised and never taken.
* `php7_wrapper.h`, `molten_cJSON.c`: compatibility macros and a vendored library.
