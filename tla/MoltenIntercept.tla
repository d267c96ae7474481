-------------------------- MODULE MoltenIntercept --------------------------
(***************************************************************************)
(* The interceptors (molten_intercept.c) and the span builders they write  *)
(* through (molten_span.c): what the spans of a sampled request say.       *)
(*                                                                         *)
(* An interceptor records a call after it has ended.  PHP code may run in  *)
(* any call: the body of a user function, the callback or the error handler*)
(* that an internal one runs; and in the methods a record calls.  So calls *)
(* nest, exceptions of any class end them, and exit() unwinds all of it.   *)
(* curl_multi times pass through a cache.                                  *)
(***************************************************************************)
EXTENDS Integers, Sequences, FiniteSets

CONSTANTS
  Kind,         \* the interceptors exercised: rows of Interceptor
  Thrown,       \* what PHP code throws: classes of Throwable
  Known,        \* what servers and data sources tell: subsets of Parts
  Handle,       \* curl handles: resource ids, given out anew in each request
  MaxCalls,     \* bound: intercepted calls of the process
  MaxRequests,  \* bound: requests of the process
  MaxClock,     \* bound: the clock, in milliseconds, stops there
  None          \* no handle, no span yet, no entry in span_info_cache

(* Every Exception is a Throwable of PHP 7, and so is an Error, which the  *)
(* records do not look for.                                                *)
Exception == {"PDOException", "RedisException", "Exception"}
Throwable == Exception \cup {"Error"}

(***************************************************************************)
(* mo_intercept_ctor, one row per record function.  missing: what becomes  *)
(* of a call with too few arguments: "records" all the same, "declines" (no*)
(* span), or "dies" (the record reads through ori_args, which is NULL).    *)
(* throws: what the extension itself throws.  curl_exec is a replaced      *)
(* function and no interceptor, but it records alike.                      *)
(***************************************************************************)
Row(missing, throws) == [missing |-> missing, throws |-> throws]

Interceptor ==
  [pdo_statement      |-> Row("records", {"PDOException"}),
   pdo                |-> Row("records", {"PDOException"}),
   mysqli_connect     |-> Row("declines", {"Exception"}),
   mysqli_real_connect|-> Row("declines", {"Exception"}),
   mysqli_query       |-> Row("declines", {"Exception"}),
   mysqli_oo_query    |-> Row("declines", {"Exception"}),
   mysqli_commit      |-> Row("records", {"Exception"}),
   stmt_prepare       |-> Row("declines", {"Exception"}),
   stmt_execute       |-> Row("dies", {"Exception"}),
   stmt_oo_prepare    |-> Row("declines", {"Exception"}),
   stmt_oo_execute    |-> Row("records", {"Exception"}),
   curl_multi_add     |-> Row("declines", {}),
   curl_multi_remove  |-> Row("declines", {}),
   redis              |-> Row("records", {"RedisException"}),
   memcached          |-> Row("records", {}),
   memcached_server   |-> Row("records", {}),
   memcached_servers  |-> Row("dies", {}),
   mongodb            |-> Row("declines", {"Exception"}),
   mongodb_server     |-> Row("declines", {"Exception"}),
   guzzle             |-> Row("records", {}),
   es_request         |-> Row("records", {}),
   es_default         |-> Row("records", {}),
   curl_exec          |-> Row("declines", {})]

Curl == {"curl_exec", "curl_multi_add", "curl_multi_remove"}
Pdo == {"pdo", "pdo_statement"}
UserFunction == {"guzzle", "es_request", "es_default"}

(* What a server or a data source can tell of itself. *)
Parts == {"dbname", "server"}

ASSUME InterceptAssumption ==
  /\ Kind \subseteq DOMAIN Interceptor /\ Thrown \subseteq Throwable
  /\ Known \subseteq SUBSET Parts
  /\ MaxCalls \in Nat /\ MaxRequests \in Nat /\ MaxClock \in Nat
  /\ None \notin Nat \cup Handle \cup Throwable

VARIABLES
  running,    \* in_request, of a sampled request
  clock,      \* what mo_time_millis reads
  begun,      \* execute_begin_time
  cache,      \* span_info_cache: handle -> time, or None
  closed,     \* handles that curl_close has closed
  redis_error,\* the call whose error getLastError answers with, 0 if it is
              \* one that is not intercepted, or None
  frames,     \* the intercepted calls under way, the innermost last
  exception,  \* EG(exception), or None
  bailing,    \* an exit() or a fatal error is unwinding
  spans,      \* the spans of this request
  calls,      \* intercepted calls so far: each is named by its number
  served,     \* requests so far
  added,      \* history: when each handle was last added in this request
  steady      \* history: the clock has not stepped back in this request

vars == <<running, clock, begun, cache, closed, redis_error, frames, exception,
          bailing, spans, calls, served, added, steady>>

Time == Nat \cup {None}

(***************************************************************************)
(* What a call came to.  ret: "ok"; "miss", nothing to return, but without *)
(* an error of the extension (a key that is not there; FALSE of PDO with no*)
(* message in errorInfo); "failed", the extension has set its error.       *)
(* cut: a bailout left ori_ret NULL.  thrown: the pending exception.       *)
(* found: what the record learns of the other side.  remembered: the error *)
(* that getLastError would give.                                           *)
(***************************************************************************)
Outcome(ret, cut, thrown, found, remembered) ==
  [ret |-> ret, cut |-> cut, thrown |-> thrown, found |-> found,
   remembered |-> remembered]

Fine == Outcome("ok", FALSE, None, Parts, None)

(***************************************************************************)
(* The binary annotations of a record function: key and ba_type.  BA_NORMAL*)
(* is what span_add_ba_ex is mostly given.                                 *)
(***************************************************************************)
BA(key, type) == [key |-> key, type |-> type]
Normal(keys) == {BA(key, "NORMAL") : key \in keys}
SA == BA("sa", "SA")
ERROR == BA("error", "ERROR")
Given(args, annotations) == IF args THEN annotations ELSE {}
IfTrue(condition, annotations) == IF condition THEN annotations ELSE {}

(* Mutant of IfFalse: the return value is not looked at. *)
IfFalseAlways(o, annotation) == IfTrue(o.thrown = None, {annotation})

(* The record looks at the return value and calls the extension for the    *)
(* message; with an exception pending, nothing can be called.              *)
IfFalse(o, annotation) ==
  IfTrue(~o.cut /\ o.ret # "ok" /\ o.thrown = None, {annotation})

(* Mutant of IfThrown: the class itself, and no subclass of it. *)
IfThrownExactly(o, classes) ==
  IfTrue(o.thrown # None /\ classes = {o.thrown}, {ERROR})

(* instanceof_function *)
IfThrown(o, classes) == IfTrue(o.thrown \in classes, {ERROR})

(* Asked of the data source: dbname, and host with port. *)
AnalyzeDataSource(o) ==
  IfTrue("dbname" \in o.found, Normal({"db.instance"}))
    \cup IfTrue("server" \in o.found, {SA})
    \cup IfTrue(o.found # Parts, {BA("php.db.data_source", "SA_DSN")})

PdoRecord(args, o) ==
  Given(args, Normal({"db.statement"})) \cup Normal({"db.type"})
    \cup AnalyzeDataSource(o) \cup IfFalse(o, BA("error", "NORMAL"))
    \cup IfThrown(o, {"PDOException"})

PdoStatementRecord(o) ==
  Normal({"db.statement", "db.type"}) \cup AnalyzeDataSource(o)
    \cup IfFalse(o, ERROR)

(* getLastError answers with the last error, of whichever call. *)
RedisRecord(o) ==
  {SA} \cup Normal({"db.statement", "db.type"})
    \cup IfTrue(o.remembered # None, IfFalse(o, BA("error", "SA")))
    \cup IfThrown(o, {"RedisException"})

MemcachedCommonCall(o) ==
  Normal({"db.statement", "db.type"}) \cup IfFalse(o, ERROR)

(* Hosts that are strings. *)
MemcachedAddServers(o) ==
  IfTrue("server" \in o.found, {SA}) \cup MemcachedCommonCall(o)

MemcachedAddServer(args, o) ==
  IF args THEN MemcachedAddServers(o) ELSE MemcachedCommonCall(o)

(* mysqli_connect_errno is a function; with an exception pending it cannot *)
(* be called.                                                              *)
Connect(o) ==
  IfTrue("server" \in o.found, {SA})
    \cup IfTrue("dbname" \in o.found, Normal({"db.instance"}))
    \cup IfTrue(o.ret = "failed" /\ o.thrown = None, {ERROR})

RealConnect(o) == Connect(o)

(* The link of a procedural call is an object, never IS_RESOURCE; the error*)
(* property of an object can always be read.                               *)
MysqliError(procedural, o) ==
  IfTrue(~procedural /\ o.ret = "failed", {ERROR})

(* The server of a link or of a statement, when mysqlnd knows it. *)
MysqlServer(o) ==
  IfTrue("server" \in o.found, Normal({"db.instance"}) \cup {SA})

DbQuery(procedural, o) ==
  Normal({"db.statement", "db.type"}) \cup MysqlServer(o)
    \cup MysqliError(procedural, o)

StmtPrepare(procedural, o) == DbQuery(procedural, o)

StmtExecute(procedural, o) ==
  Normal({"db.type"}) \cup MysqlServer(o) \cup MysqliError(procedural, o)

MongodbRecord(o) ==
  Normal({"db.statement", "db.type"})
    \cup IfTrue("server" \in o.found, {BA("php.db.source", "SA_DSN")})
    \cup IfThrown(o, Exception)

MongodbServerRecord(o) ==
  Normal({"db.statement", "db.type"}) \cup IfTrue("server" \in o.found, {SA})
    \cup IfThrown(o, Exception)

GuzzleRecord(o) ==
  IfTrue(o.ret = "ok", Normal({"http.status"}))
    \cup Normal({"componet"}) \cup IfThrown(o, Exception)

DefaultEsRecord(o) == Normal({"componet", "db.type"}) \cup IfThrown(o, Exception)

(* The transport names the host unless it cannot be called. *)
EsRecord(o) ==
  DefaultEsRecord(o) \cup IfTrue("server" \in o.found /\ o.thrown = None, {SA})

BuildCurlBannotation(o) ==
  Normal({"http.url"})
    \cup IF o.ret = "failed" THEN {ERROR} ELSE Normal({"http.status"})

Record(kind, args, o) ==
  CASE kind = "pdo" -> PdoRecord(args, o)
    [] kind = "pdo_statement" -> PdoStatementRecord(o)
    [] kind = "redis" -> RedisRecord(o)
    [] kind = "memcached" -> MemcachedCommonCall(o)
    [] kind = "memcached_server" -> MemcachedAddServer(args, o)
    [] kind = "memcached_servers" -> MemcachedAddServers(o)
    [] kind = "mysqli_connect" -> Connect(o)
    [] kind = "mysqli_real_connect" -> RealConnect(o)
    [] kind = "mysqli_query" -> DbQuery(TRUE, o)
    [] kind = "mysqli_oo_query" -> DbQuery(FALSE, o)
    [] kind = "mysqli_commit" -> Normal({"db.type"})
    [] kind = "stmt_prepare" -> StmtPrepare(TRUE, o)
    [] kind = "stmt_execute" -> StmtExecute(TRUE, o)
    [] kind = "stmt_oo_prepare" -> StmtPrepare(FALSE, o)
    [] kind = "stmt_oo_execute" -> StmtExecute(FALSE, o)
    [] kind = "mongodb" -> MongodbRecord(o)
    [] kind = "mongodb_server" -> MongodbServerRecord(o)
    [] kind = "guzzle" -> GuzzleRecord(o)
    [] kind = "es_request" -> EsRecord(o)
    [] kind = "es_default" -> DefaultEsRecord(o)

(***************************************************************************)
(* What the builders make of an annotation.  zipkin keeps a list of keys;  *)
(* the two others add tags by ba_type.                                     *)
(***************************************************************************)
ZnAdd(ba) == {ba.key}

(* Mutant of OtAdd: the case of an error is forgotten. *)
OtAddNoError(ba) ==
  CASE ba.type = "NORMAL" -> {ba.key}
    [] ba.type = "SA"     -> {"peer.ipv4", "peer.port", "peer.service"}
    [] ba.type = "SA_DSN" -> {"peer.address"}
    [] OTHER              -> {}

OtAdd(ba) ==
  CASE ba.type = "NORMAL" -> {ba.key}
    [] ba.type = "SA"     -> {"peer.ipv4", "peer.port", "peer.service"}
    [] ba.type = "SA_DSN" -> {"peer.address"}
    [] ba.type = "ERROR"  -> {"error"}

SkAdd(ba) ==
  CASE ba.key = "http.url" -> {"url", "pn", "on"}
    [] ba.type = "SA"      -> OtAdd(ba) \cup {"pn"}
    [] OTHER               -> OtAdd(ba)

Zipkin(s) == UNION {ZnAdd(ba) : ba \in s.ba}
Opentracing(s) == UNION {OtAdd(ba) : ba \in s.ba}
Skywalking(s) == UNION {SkAdd(ba) : ba \in s.ba}

(* isError: 0 at first, for error_list is there in every sampled request.  *)
IsError(s) == \E ba \in s.ba : ba.type = "ERROR"

(***************************************************************************)
(* A frame of mo_execute_core, or of molten_curl_exec.  Its span is started*)
(* when it begins to record.                                               *)
(***************************************************************************)
Top == frames[Len(frames)]
Below == SubSeq(frames, 1, Len(frames) - 1)

(* Mutant of Parent: a call of the script has no parent. *)
ParentNone == IF frames = <<>> THEN None ELSE Top.n
Parent == IF frames = <<>> THEN 0 ELSE Top.n
RowOf(f) == Interceptor[f.kind]

NewFrame(kind, handle, args) ==
  [n |-> calls + 1, kind |-> kind, handle |-> handle, args |-> args,
   under |-> Parent, entry |-> clock, span |-> None, ret |-> "ok",
   bailed |-> FALSE]

StartSpan(f, start) ==
  [n |-> f.n, kind |-> f.kind, handle |-> f.handle, args |-> f.args,
   under |-> f.under, start |-> start, finish |-> clock, ba |-> {},
   outcome |-> Fine]

(* Mutant of EntryTime: the clock is read when the call is recorded. *)
EntryTimeLate(f) == clock
EntryTime(f) == f.entry

WithBa(s, ba, o) == [s EXCEPT !.ba = ba, !.outcome = o]

(* The records that call PHP methods, and can. *)
RecordRuns(f) ==
  \/ f.kind = "guzzle" /\ f.ret = "ok"
  \/ f.kind = "es_request" /\ (f.ret = "ok" \/ f.bailed)

(* PHP code of the call, or of a method its record calls, is running. *)
RunsCode(f) == f.span = None \/ RecordRuns(f)

CanRun ==
  /\ running /\ ~bailing /\ exception = None
  /\ frames # <<>> => RunsCode(Top)

(***************************************************************************)
(* What a call may come to: an exception of PHP code that ran in it, or a  *)
(* bailout, leaves nothing to return.                                      *)
(***************************************************************************)
Misses == Pdo \cup {"redis", "memcached"}
OnlyThrows == {"mongodb", "mongodb_server"}

(* All but these records describe a server or a data source that they may  *)
(* not know.                                                               *)
Knows == Curl \cup {"redis", "memcached", "mysqli_commit", "guzzle", "es_default"}
Found(kind) == IF kind \in Knows THEN {Parts} ELSE Known

(* ret and thrown *)
Returns(kind) ==
  IF exception # None \/ bailing THEN {"miss", "failed"} \X {exception}
  ELSE {<<"ok", None>>}
         \cup (IF kind \in Misses THEN {<<"miss", None>>} ELSE {})
         \cup (IF kind \in OnlyThrows THEN {} ELSE {<<"failed", None>>})
         \cup ({"miss", "failed"} \X Interceptor[kind].throws)

(* The error of this call, or else the one that was remembered. *)
Remembered(f, ret) ==
  IF f.kind = "redis" /\ ret = "failed" THEN f.n ELSE redis_error

Outcomes(f) ==
  {Outcome(r[1], bailing, r[2], found, Remembered(f, r[1])) :
     r \in Returns(f.kind), found \in Found(f.kind)}

-----------------------------------------------------------------------------

NoTimes == [h \in Handle |-> None]

Init ==
  /\ running = FALSE /\ clock = 0 /\ begun = 0
  /\ cache = NoTimes /\ closed = {} /\ redis_error = None
  /\ frames = <<>> /\ exception = None /\ bailing = FALSE
  /\ spans = {} /\ calls = 0 /\ served = 0
  /\ added = NoTimes /\ steady = TRUE

(* Mutant of FreshCache: the cache is made once for the process. *)
KeptCache == cache

(* What mo_intercept_init makes of the cache. *)
FreshCache == NoTimes

Rinit ==
  /\ ~running /\ served < MaxRequests
  /\ running' = TRUE /\ served' = served + 1
  /\ begun' = clock
  /\ cache' = FreshCache
  /\ closed' = {} /\ redis_error' = None /\ spans' = {}
  /\ added' = NoTimes /\ steady' = TRUE
  /\ UNCHANGED <<clock, frames, exception, bailing, calls>>

(* gettimeofday, which may step back. *)
Tick ==
  /\ \E now \in 0..MaxClock :
       /\ clock' = now
       /\ steady' = (steady /\ clock <= now)
  /\ UNCHANGED <<running, begun, cache, closed, redis_error, frames, exception,
                 bailing, spans, calls, served, added>>

Call(kind, handle, args) ==
  /\ CanRun /\ calls < MaxCalls
  /\ (handle # None) <=> (kind \in Curl /\ args)
  /\ frames' = Append(frames, NewFrame(kind, handle, args))
  /\ calls' = calls + 1
  /\ UNCHANGED <<running, clock, begun, cache, closed, redis_error, exception,
                 bailing, spans, served, added, steady>>

Throw(class) ==
  /\ CanRun
  /\ exception' = class
  /\ UNCHANGED <<running, clock, begun, cache, closed, redis_error, frames,
                 bailing, spans, calls, served, added, steady>>

Catch ==
  /\ running /\ exception # None
  /\ frames # <<>> => RunsCode(Top)
  /\ exception' = None
  /\ UNCHANGED <<running, clock, begun, cache, closed, redis_error, frames,
                 bailing, spans, calls, served, added, steady>>

(* exit(), or a fatal error. *)
Bail ==
  /\ CanRun
  /\ bailing' = TRUE
  /\ UNCHANGED <<running, clock, begun, cache, closed, redis_error, frames,
                 exception, spans, calls, served, added, steady>>

CurlClose(handle) ==
  /\ CanRun /\ handle \notin closed
  /\ closed' = closed \cup {handle}
  /\ UNCHANGED <<running, clock, begun, cache, redis_error, frames, exception,
                 bailing, spans, calls, served, added, steady>>

(* A Redis call that is not in the list of mo_intercept_ctor fails, or is  *)
(* clearLastError.                                                         *)
RedisUnseen ==
  /\ CanRun
  /\ redis_error' \in {0, None}
  /\ UNCHANGED <<running, clock, begun, cache, closed, frames, exception,
                 bailing, spans, calls, served, added, steady>>

(* A record reads through a NULL pointer: the process is gone.  Another one*)
(* serves the requests that are left.                                      *)
Die ==
  /\ running' = FALSE /\ begun' = 0
  /\ cache' = NoTimes /\ closed' = {} /\ redis_error' = None
  /\ frames' = <<>> /\ exception' = None /\ bailing' = FALSE
  /\ spans' = {} /\ added' = NoTimes
  /\ UNCHANGED <<clock, calls, served, steady>>

(* A call ends; a bailout is held back while it is recorded, but not in    *)
(* curl_exec.                                                              *)
Ending(kinds) ==
  /\ frames # <<>> /\ Top.span = None /\ Top.kind \in kinds
  /\ bailing => Top.kind # "curl_exec"

Internal == DOMAIN Interceptor \ (Curl \cup UserFunction)

(* An internal function, whose record runs no PHP code. *)
RecordInternal ==
  /\ Ending(Internal)
  /\ Top.args \/ RowOf(Top).missing = "records"
  /\ \E o \in Outcomes(Top) :
       /\ spans' = spans \cup
            {WithBa(StartSpan(Top, EntryTime(Top)),
                    Record(Top.kind, Top.args, o), o)}
       /\ exception' = o.thrown
       /\ redis_error' = o.remembered
  /\ frames' = Below
  /\ UNCHANGED <<running, clock, begun, cache, closed, bailing, calls, served,
                 added, steady>>

(* Too few arguments. *)
Decline ==
  /\ Ending(DOMAIN Interceptor) /\ ~Top.args /\ RowOf(Top).missing = "declines"
  /\ frames' = Below
  /\ UNCHANGED <<running, clock, begun, cache, closed, redis_error, exception,
                 bailing, spans, calls, served, added, steady>>

(* Too few arguments; or errorInfo holds NULL where the message should be, *)
(* and the string of it is read.  What there is to read may be one.        *)
RecordDies ==
  /\ Ending(Internal)
  /\ \/ ~Top.args /\ RowOf(Top).missing = "dies"
     \/ Top.kind \in Pdo /\ exception = None /\ ~bailing
  /\ Die

CurlMultiAdd ==
  /\ Ending({"curl_multi_add"}) /\ Top.args
  /\ cache' = [cache EXCEPT ![Top.handle] = Top.entry]
  /\ added' = [added EXCEPT ![Top.handle] = Top.entry]
  /\ frames' = Below
  /\ UNCHANGED <<running, clock, begun, closed, redis_error, exception,
                 bailing, spans, calls, served, steady>>

(* curl_getinfo can be asked of the handle. *)
Answers == Top.handle \notin closed /\ exception = None

(* The time stays cached. *)
CurlMultiRemove ==
  /\ Ending({"curl_multi_remove"}) /\ Top.args
  /\ IF cache[Top.handle] = None THEN UNCHANGED spans
     ELSE /\ Answers
          /\ \E o \in Outcomes(Top) :
               spans' = spans \cup
                 {WithBa(StartSpan(Top, cache[Top.handle]),
                         BuildCurlBannotation(o), o)}
  /\ frames' = Below
  /\ UNCHANGED <<running, clock, begun, cache, closed, redis_error, exception,
                 bailing, calls, served, added, steady>>

CurlExec ==
  /\ Ending({"curl_exec"}) /\ Top.args /\ Answers
  /\ \E o \in Outcomes(Top) :
       spans' = spans \cup
         {WithBa(StartSpan(Top, EntryTime(Top)), BuildCurlBannotation(o), o)}
  /\ frames' = Below
  /\ UNCHANGED <<running, clock, begun, cache, closed, redis_error, exception,
                 bailing, calls, served, added, steady>>

(* The url of the handle is NULL, and is converted to a string. *)
CurlDies ==
  /\ Ending({"curl_exec", "curl_multi_remove"}) /\ Top.args /\ ~Answers
  /\ Top.kind = "curl_multi_remove" => cache[Top.handle] # None
  /\ Die

(* A user function returns, throws or is cut short by a bailout, which is  *)
(* held back while its record runs.                                        *)
StartRecord ==
  /\ Ending(UserFunction)
  /\ frames' = [frames EXCEPT ![Len(frames)] =
       [Top EXCEPT
         !.span = StartSpan(Top, EntryTime(Top)),
         !.ret = IF bailing \/ exception # None THEN "failed" ELSE "ok",
         !.bailed = bailing]]
  /\ bailing' = FALSE
  /\ UNCHANGED <<running, clock, begun, cache, closed, redis_error, exception,
                 spans, calls, served, added, steady>>

EndRecord ==
  /\ frames # <<>> /\ ~bailing /\ Top.span # None
  /\ \E found \in Found(Top.kind) :
       LET o == Outcome(Top.ret, Top.bailed, exception, found, redis_error)
       IN  spans' = spans \cup {WithBa(Top.span, Record(Top.kind, Top.args, o), o)}
  /\ frames' = Below
  /\ bailing' = Top.bailed
  /\ UNCHANGED <<running, clock, begun, cache, closed, redis_error, exception,
                 calls, served, added, steady>>

(* A bailout in curl_exec, or in a record, goes past it: no span. *)
Unwind ==
  /\ bailing /\ frames # <<>>
  /\ Top.span # None \/ Top.kind = "curl_exec"
  /\ frames' = Below
  /\ UNCHANGED <<running, clock, begun, cache, closed, redis_error, exception,
                 bailing, spans, calls, served, added, steady>>

Server ==
  [n |-> 0, kind |-> "server", handle |-> None, args |-> TRUE, under |-> 0,
   start |-> begun, finish |-> clock, ba |-> {}, outcome |-> Fine]

Rshutdown ==
  /\ running /\ frames = <<>>
  /\ running' = FALSE
  /\ spans' = spans \cup {Server}
  /\ exception' = None /\ bailing' = FALSE
  /\ UNCHANGED <<clock, begun, cache, closed, redis_error, frames, calls,
                 served, added, steady>>

Next ==
  \/ Rinit \/ Tick \/ Rshutdown
  \/ \E kind \in Kind, handle \in Handle \cup {None}, args \in BOOLEAN :
       Call(kind, handle, args)
  \/ Catch \/ Bail \/ Unwind
  \/ \E class \in Thrown : Throw(class)
  \/ \E handle \in Handle : CurlClose(handle)
  \/ RedisUnseen
  \/ RecordInternal \/ Decline \/ RecordDies
  \/ CurlMultiAdd \/ CurlMultiRemove \/ CurlExec \/ CurlDies
  \/ StartRecord \/ EndRecord

Spec == Init /\ [][Next]_vars

-----------------------------------------------------------------------------
(***************************************************************************)
(* Types.                                                                  *)
(***************************************************************************)
IsSpan(s) ==
  /\ s.n \in Nat /\ s.kind \in DOMAIN Interceptor \cup {"server"}
  /\ s.handle \in Handle \cup {None} /\ s.args \in BOOLEAN
  /\ s.under \in Nat /\ s.start \in Nat /\ s.finish \in Nat

IsFrame(f) ==
  /\ f.n \in Nat \ {0} /\ f.kind \in Kind
  /\ f.handle \in Handle \cup {None} /\ f.args \in BOOLEAN
  /\ f.under \in Nat /\ f.entry \in Nat
  /\ f.span # None => IsSpan(f.span) /\ f.kind \in UserFunction

(* TypeOK: the variables have their types; a call that records, with its   *)
(* span started, is one of a user function.                                *)
TypeOK ==
  /\ running \in BOOLEAN /\ bailing \in BOOLEAN /\ steady \in BOOLEAN
  /\ clock \in Nat /\ begun \in Nat /\ calls \in Nat /\ served \in Nat
  /\ redis_error \in Nat \cup {None}
  /\ cache \in [Handle -> Time] /\ added \in [Handle -> Time]
  /\ closed \subseteq Handle
  /\ exception \in Throwable \cup {None}
  /\ \A i \in 1..Len(frames) : IsFrame(frames[i])
  /\ \A s \in spans : IsSpan(s)

(* TimesNest: while the clock has not stepped back in the request, the span*)
(* of a call made under another one, or under the request, begins no       *)
(* earlier.  It ends no later, or else it was made by the record of that   *)
(* call, after its end: it never straddles the end.  A span of curl_multi  *)
(* begins when the handle was added, which only the request must contain,  *)
(* and which may be after a call that was made while it was removed.       *)
TimesNest ==
  steady =>
    \A s, p \in spans :
      s.under = p.n =>
        /\ s.start <= s.finish
        /\ \/ p.kind = "server"
           \/ "curl_multi_remove" \notin {s.kind, p.kind}
           => p.start <= s.start
        /\ \/ s.finish <= p.finish
           \/ p.kind # "server" /\ s.start >= p.finish
           \/ s.kind = "curl_multi_remove" /\ s.finish >= p.finish

(* MultiTimes: a span of curl_multi is recorded only of a handle that was  *)
(* added in this request, and begins when it was last added: the resource  *)
(* ids are the same in the next request, the times must not be.            *)
MultiTimes ==
  [][\A s \in spans' \ spans :
       s.kind = "curl_multi_remove" => s.start = added[s.handle]]_vars

(* ErrorExplained: a span says "error" only if its call failed, or threw an*)
(* exception that its caller sees.  Three extensions say more than that:   *)
(* Memcached has a message for a key that is not there; PDO, of a FALSE    *)
(* with no message, says what it reads instead; and Redis repeats the last *)
(* error of the request, which is that of an earlier call with a span, or  *)
(* of one that is not intercepted.                                         *)
ErrorExplained ==
  \A s \in spans :
    "error" \in Zipkin(s) =>
      \/ s.outcome.ret = "failed" \/ s.outcome.thrown # None
      \/ s.kind \in Pdo \cup {"memcached"} /\ s.outcome.ret = "miss"
      \/ s.kind = "redis" /\ s.outcome.remembered = 0
      \/ s.kind = "redis" /\ \E t \in spans :
           t.kind = "redis" /\ t.n = s.outcome.remembered /\ t.outcome.ret = "failed"

(* The classes of exceptions that a record looks for. *)
Hears(kind) ==
  CASE kind = "pdo" -> {"PDOException"}
    [] kind = "redis" -> {"RedisException"}
    [] kind \in OnlyThrows \cup UserFunction -> Exception
    [] OTHER -> {}

(* The records that ask an object for IS_RESOURCE, or do not ask at all.   *)
Mute == {"mysqli_query", "stmt_prepare", "stmt_execute", "mysqli_commit"}

(* Those that read the error of the object, come what may.                 *)
ReadsError == {"mysqli_oo_query", "stmt_oo_prepare", "stmt_oo_execute"}

(* FailureShown: the span of a call that failed says "error", after        *)
(* whatever was thrown and caught inside it.  The four of Mute never do.   *)
(* When PHP code that ran in the call, or its extension, has thrown, only  *)
(* the records of ReadsError and those that look for the class do so; when *)
(* it was cut short, only those of ReadsError.                             *)
FailureShown ==
  \A s \in spans :
    \/ s.outcome.thrown \in Hears(s.kind)
    \/ /\ s.outcome.ret = "failed" /\ s.kind \notin Mute
       /\ s.kind \in ReadsError \/ (s.outcome.thrown = None /\ ~s.outcome.cut)
    => "error" \in Zipkin(s)

(* FormatsAgree: the three formats say of the same calls that they failed, *)
(* and of the same calls where they went.  Three things differ, and nothing*)
(* else: the error that getLastError gave is a peer in two formats, and so *)
(* shown by zipkin alone; the message of PDO's errorInfo is an error in    *)
(* each format, but leaves isError of SkyWalking at 0, which an exception  *)
(* of PDO sets; and what zipkin calls sa is a peer in the two others.      *)
FormatsAgree ==
  \A s \in spans :
    LET told == BA("error", "SA") \in s.ba
        message == BA("error", "NORMAL") \in s.ba
    IN  /\ ~told => /\ "error" \in Zipkin(s) <=> "error" \in Opentracing(s)
                    /\ "error" \in Zipkin(s) <=> "error" \in Skywalking(s)
        /\ IsError(s) => "error" \in Zipkin(s)
        /\ "error" \in Zipkin(s) => IsError(s) \/ told \/ message
        /\ told => s.kind = "redis" /\ ~IsError(s)
        /\ message => s.kind = "pdo" /\ ~IsError(s)
        /\ "sa" \in Zipkin(s) => "peer.service" \in Opentracing(s)
        /\ "peer.service" \in Opentracing(s) <=> "peer.service" \in Skywalking(s)

=============================================================================
