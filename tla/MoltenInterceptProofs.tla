------------------------ MODULE MoltenInterceptProofs ------------------------
(***************************************************************************)
(* Proofs about the interceptors: for every choice of them, any number of  *)
(* calls, nested to any depth, of requests and of handles.                 *)
(***************************************************************************)
EXTENDS MoltenIntercept, SequenceTheorems, TLAPS

(* What the rows of mo_intercept_ctor name. *)
LEMMA RowTypes ==
  ASSUME NEW kind \in DOMAIN Interceptor
  PROVE  Interceptor[kind].throws \subseteq Exception
<1>1. /\ {"PDOException"} \subseteq Exception /\ {"Exception"} \subseteq Exception
      /\ {"RedisException"} \subseteq Exception /\ {} \subseteq Exception
  BY DEF Exception
<1> QED
  BY <1>1 DEF Interceptor, Row

(* The annotations that records make; the three that say "error".          *)
Keys == {"db.statement", "db.type", "db.instance", "componet", "http.status",
         "http.url"}
Told == BA("error", "SA")
Message == BA("error", "NORMAL")
Plain ==
  Normal(Keys) \cup {SA, BA("php.db.data_source", "SA_DSN"),
                     BA("php.db.source", "SA_DSN")}
Annotations == Plain \cup {ERROR, Told, Message}

LEMMA PlainSays ==
  ASSUME NEW ba \in Plain
  PROVE  /\ ba.key # "error" /\ ba.type # "ERROR"
         /\ ba # ERROR /\ ba # Told /\ ba # Message
         /\ "error" \notin OtAdd(ba) /\ "error" \notin SkAdd(ba)
         /\ "sa" \in ZnAdd(ba) => "peer.service" \in OtAdd(ba)
         /\ "peer.service" \in OtAdd(ba) <=> "peer.service" \in SkAdd(ba)
<1>1. ba.key # "error" /\ ba.type # "ERROR"
  BY DEF Plain, Normal, Keys, BA, SA
<1>2. ba # ERROR /\ ba # Told /\ ba # Message
  BY <1>1 DEF ERROR, Told, Message, BA
<1>3. CASE ba \in Normal(Keys)
  <2>1. ba.type = "NORMAL" /\ ba.key \in Keys /\ ba.key # "sa" /\ ba.key # "peer.service"
    BY <1>3 DEF Normal, Keys, BA
  <2> QED
    BY <1>1, <1>2, <2>1 DEF ZnAdd, OtAdd, SkAdd
<1>4. CASE ba = SA
  BY <1>1, <1>2, <1>4 DEF SA, BA, ZnAdd, OtAdd, SkAdd
<1>5. CASE ba = BA("php.db.data_source", "SA_DSN") \/ ba = BA("php.db.source", "SA_DSN")
  BY <1>1, <1>2, <1>5 DEF BA, ZnAdd, OtAdd, SkAdd
<1> QED
  BY <1>3, <1>4, <1>5 DEF Plain

LEMMA ErrorSays ==
  /\ ERROR.key = "error" /\ Told.key = "error" /\ Message.key = "error"
  /\ ERROR.type = "ERROR" /\ Told.type = "SA" /\ Message.type = "NORMAL"
  /\ "error" \in OtAdd(ERROR) /\ "error" \in SkAdd(ERROR)
  /\ "error" \in OtAdd(Message) /\ "error" \in SkAdd(Message)
  /\ \A ba \in {ERROR, Told, Message} :
       /\ "sa" \notin ZnAdd(ba)
       /\ "peer.service" \in OtAdd(ba) <=> "peer.service" \in SkAdd(ba)
BY DEF ERROR, Told, Message, BA, ZnAdd, OtAdd, SkAdd

(* What the parts of a record add. *)
LEMMA PartsAnnotate ==
  ASSUME NEW o
  PROVE  /\ \A keys : keys \subseteq Keys => Normal(keys) \subseteq Plain
         /\ \A x, y, c : x \subseteq y => IfTrue(c, x) \subseteq y /\ Given(c, x) \subseteq y
         /\ {SA, BA("php.db.source", "SA_DSN")} \subseteq Plain
         /\ AnalyzeDataSource(o) \subseteq Plain /\ MysqlServer(o) \subseteq Plain
         /\ \A procedural : MysqliError(procedural, o) \subseteq {ERROR}
         /\ \A classes : IfThrown(o, classes) \subseteq {ERROR}
         /\ \A ba : IfFalse(o, ba) \subseteq {ba}
<1>1. \A keys : keys \subseteq Keys => Normal(keys) \subseteq Plain
  BY DEF Plain, Normal
<1>2. \A x, y, c : x \subseteq y => IfTrue(c, x) \subseteq y /\ Given(c, x) \subseteq y
  BY DEF IfTrue, Given
<1>3. {SA, BA("php.db.data_source", "SA_DSN"), BA("php.db.source", "SA_DSN")} \subseteq Plain
  BY DEF Plain
<1>4. AnalyzeDataSource(o) \subseteq Plain /\ MysqlServer(o) \subseteq Plain
  <2>1. /\ Normal({"db.instance"}) \subseteq Plain /\ {SA} \subseteq Plain
        /\ {BA("php.db.data_source", "SA_DSN")} \subseteq Plain
    BY <1>1, <1>3 DEF Keys
  <2>2. Normal({"db.instance"}) \cup {SA} \subseteq Plain
    BY <2>1
  <2>3. \A c : /\ IfTrue(c, Normal({"db.instance"})) \subseteq Plain
               /\ IfTrue(c, {SA}) \subseteq Plain
               /\ IfTrue(c, {BA("php.db.data_source", "SA_DSN")}) \subseteq Plain
               /\ IfTrue(c, Normal({"db.instance"}) \cup {SA}) \subseteq Plain
    BY <2>1, <2>2 DEF IfTrue
  <2> QED
    BY <2>3 DEF AnalyzeDataSource, MysqlServer
<1>5. /\ \A procedural : MysqliError(procedural, o) \subseteq {ERROR}
      /\ \A classes : IfThrown(o, classes) \subseteq {ERROR}
      /\ \A ba : IfFalse(o, ba) \subseteq {ba}
  BY <1>2 DEF MysqliError, IfThrown, IfFalse
<1> QED
  BY <1>1, <1>2, <1>3, <1>4, <1>5

(* A record but PDO's and Redis's says "error" as ERROR only.              *)
LEMMA RecordAnnotates ==
  ASSUME NEW kind \in DOMAIN Interceptor, kind \notin Curl, NEW args, NEW o
  PROVE  Record(kind, args, o) \subseteq
           Plain \cup {ERROR} \cup (IF kind = "pdo" THEN {Message} ELSE {})
             \cup (IF kind = "redis" THEN {Told} ELSE {})
<1> DEFINE E == Plain \cup {ERROR}
<1>1. /\ \A keys : keys \subseteq Keys => Normal(keys) \subseteq E
      /\ {SA} \subseteq E /\ {ERROR} \subseteq E /\ {BA("php.db.source", "SA_DSN")} \subseteq E
      /\ AnalyzeDataSource(o) \subseteq E /\ MysqlServer(o) \subseteq E
      /\ \A procedural : MysqliError(procedural, o) \subseteq E
      /\ \A classes : IfThrown(o, classes) \subseteq E
      /\ IfFalse(o, ERROR) \subseteq E
  BY PartsAnnotate
<1>2. \A x, y, c : x \subseteq y => IfTrue(c, x) \subseteq y /\ Given(c, x) \subseteq y
  BY PartsAnnotate
<1>3. /\ IfFalse(o, Message) \subseteq {Message} /\ IfFalse(o, Told) \subseteq {Told}
  BY PartsAnnotate
<1> HIDE DEF E
<1>4. /\ MemcachedCommonCall(o) \subseteq E /\ Connect(o) \subseteq E
      /\ \A procedural : DbQuery(procedural, o) \subseteq E
      /\ \A procedural : StmtExecute(procedural, o) \subseteq E
  BY <1>1, <1>2 DEF MemcachedCommonCall, Connect, DbQuery, StmtExecute, Keys
<1>5. MemcachedAddServers(o) \subseteq E /\ PdoStatementRecord(o) \subseteq E
  BY <1>1, <1>2, <1>4 DEF MemcachedAddServers, PdoStatementRecord, Keys
<1>6. MemcachedAddServer(args, o) \subseteq E
  BY <1>4, <1>5 DEF MemcachedAddServer
<1>7. PdoRecord(args, o) \subseteq E \cup {Message}
  BY <1>1, <1>2, <1>3 DEF PdoRecord, Keys, Message
<1>8. RedisRecord(o) \subseteq E \cup {Told}
  BY <1>1, <1>2, <1>3 DEF RedisRecord, Keys, Told
<1>9. /\ MongodbRecord(o) \subseteq E /\ MongodbServerRecord(o) \subseteq E
      /\ GuzzleRecord(o) \subseteq E /\ DefaultEsRecord(o) \subseteq E
  BY <1>1, <1>2 DEF MongodbRecord, MongodbServerRecord, GuzzleRecord, DefaultEsRecord,
     Keys
<1>10. EsRecord(o) \subseteq E
  BY <1>1, <1>2, <1>9 DEF EsRecord
<1>11. Normal({"db.type"}) \subseteq E
  BY <1>1 DEF Keys
<1>12. CASE kind = "pdo"
  BY <1>7, <1>12 DEF Record, E
<1>13. CASE kind = "redis"
  BY <1>8, <1>13 DEF Record, E
<1>14. CASE kind \notin {"pdo", "redis"}
  <2>1. Record(kind, args, o) \subseteq E
    BY <1>4, <1>5, <1>6, <1>9, <1>10, <1>11, <1>14
       DEF Record, RealConnect, StmtPrepare, Interceptor, Curl
  <2> QED
    BY <2>1 DEF E
<1> QED
  BY <1>12, <1>13, <1>14

(* A record calls no method for the message with an exception pending.     *)
LEMMA RecordCalls ==
  ASSUME NEW kind \in DOMAIN Interceptor, kind \notin Curl, NEW args, NEW o,
         Told \in Record(kind, args, o) \/ Message \in Record(kind, args, o)
  PROVE  ERROR \notin Record(kind, args, o)
<1>1. /\ Told \notin Plain /\ Message \notin Plain /\ ERROR \notin Plain
      /\ Told # ERROR /\ Message # ERROR /\ Told # Message
  BY PlainSays DEF Told, Message, ERROR, BA
<1>2. kind = "pdo" \/ kind = "redis"
  BY <1>1, RecordAnnotates
<1>3. /\ \A classes : IfThrown(o, classes) \subseteq {ERROR}
      /\ \A ba : IfFalse(o, ba) \subseteq {ba}
      /\ \A ba : IfFalse(o, ba) # {} => o.thrown = None
      /\ \A classes : IfThrown(o, classes) # {} => o.thrown \in classes
      /\ AnalyzeDataSource(o) \subseteq Plain
      /\ \A keys : keys \subseteq Keys => Normal(keys) \subseteq Plain
      /\ {SA} \subseteq Plain
      /\ \A x, y, c : x \subseteq y => IfTrue(c, x) \subseteq y /\ Given(c, x) \subseteq y
  BY PartsAnnotate DEF IfFalse, IfThrown, IfTrue
<1>4. None \notin {"PDOException"} /\ None \notin {"RedisException"}
  BY InterceptAssumption DEF Throwable, Exception
<1>5. CASE kind = "pdo"
  <2>1. PICK S : S \subseteq Plain /\ Record(kind, args, o) =
                   S \cup IfFalse(o, Message) \cup IfThrown(o, {"PDOException"})
    <3>1. Given(args, Normal({"db.statement"})) \cup Normal({"db.type"})
            \cup AnalyzeDataSource(o) \subseteq Plain
      BY <1>3 DEF Keys
    <3> QED
      BY <1>5, <3>1 DEF Record, PdoRecord, Message
  <2> QED
    BY <1>1, <1>3, <1>4, <2>1
<1>6. CASE kind = "redis"
  <2>1. PICK S : S \subseteq Plain /\ Record(kind, args, o) =
                   S \cup IfTrue(o.remembered # None, IfFalse(o, Told))
                     \cup IfThrown(o, {"RedisException"})
    <3>1. {SA} \cup Normal({"db.statement", "db.type"}) \subseteq Plain
      BY <1>3 DEF Keys
    <3> QED
      BY <1>6, <3>1 DEF Record, RedisRecord, Told
  <2>2. IfTrue(o.remembered # None, IfFalse(o, Told)) \subseteq IfFalse(o, Told)
    BY <1>3
  <2> QED
    BY <1>1, <1>3, <1>4, <2>1, <2>2
<1> QED
  BY <1>2, <1>5, <1>6

LEMMA CurlAnnotates ==
  ASSUME NEW o PROVE BuildCurlBannotation(o) \subseteq Plain \cup {ERROR}
<1>1. Normal({"http.url"}) \subseteq Plain /\ Normal({"http.status"}) \subseteq Plain
  BY PartsAnnotate DEF Keys
<1> QED
  BY <1>1 DEF BuildCurlBannotation

(***************************************************************************)
(* What a call can have come to when its span is described.                *)
(***************************************************************************)
OutcomeOf(kind, o) ==
  /\ o.ret \in {"ok", "miss", "failed"} /\ o.cut \in BOOLEAN
  /\ o.thrown \in Throwable \cup {None} /\ o.remembered \in Nat \cup {None}
  /\ o.ret = "miss" /\ o.thrown = None /\ ~o.cut => kind \in Misses
  /\ kind \in UserFunction \cup OnlyThrows =>
       (o.ret = "failed" /\ ~o.cut => o.thrown # None)
  /\ kind = "redis" /\ o.ret = "failed" => o.remembered # None

LEMMA OutcomesAre ==
  ASSUME NEW f, f.kind \in DOMAIN Interceptor, f.kind \notin UserFunction,
         f.n \in Nat, NEW o \in Outcomes(f), bailing \in BOOLEAN,
         redis_error \in Nat \cup {None}, exception \in Throwable \cup {None}
  PROVE  /\ OutcomeOf(f.kind, o)
         /\ o.remembered =
              IF f.kind = "redis" /\ o.ret = "failed" THEN f.n ELSE redis_error
<1>1. PICK r \in Returns(f.kind) :
        /\ o.ret = r[1] /\ o.cut = bailing /\ o.thrown = r[2]
        /\ o.remembered = Remembered(f, r[1])
  BY DEF Outcomes, Outcome
<1>2. /\ r[1] \in {"ok", "miss", "failed"} /\ r[2] \in Throwable \cup {None}
      /\ r[1] = "miss" /\ r[2] = None /\ ~bailing => f.kind \in Misses
      /\ f.kind \in OnlyThrows => (r[1] = "failed" /\ ~bailing => r[2] # None)
  <2>1. CASE exception # None \/ bailing
    <3>1. r \in {"miss", "failed"} \X {exception}
      BY <2>1 DEF Returns
    <3> QED
      BY <2>1, <3>1
  <2>2. CASE ~(exception # None \/ bailing)
    <3>1. /\ Interceptor[f.kind].throws \subseteq Throwable
          /\ None \notin Interceptor[f.kind].throws
      BY RowTypes, InterceptAssumption DEF Throwable
    <3>2. \/ r = <<"ok", None>>
          \/ r = <<"miss", None>> /\ f.kind \in Misses
          \/ r = <<"failed", None>> /\ f.kind \notin OnlyThrows
          \/ r \in {"miss", "failed"} \X Interceptor[f.kind].throws
      BY <2>2 DEF Returns
    <3> QED
      BY <3>1, <3>2
  <2> QED
    BY <2>1, <2>2
<1>3. None \notin Nat
  BY InterceptAssumption
<1> QED
  BY <1>1, <1>2, <1>3 DEF OutcomeOf, Remembered

(* A failure is annotated by the records that look for it.                 *)
LEMMA RecordShowsFailure ==
  ASSUME NEW kind \in DOMAIN Interceptor, kind \notin Curl, NEW args, NEW o,
         OutcomeOf(kind, o),
         \/ o.thrown \in Hears(kind)
         \/ /\ o.ret = "failed" /\ kind \notin Mute
            /\ kind \in ReadsError \/ (o.thrown = None /\ ~o.cut)
  PROVE  \E ba \in Record(kind, args, o) : ba.key = "error"
<1> USE ErrorSays
<1>1. \A ba : ba.key = "error" /\ o.ret = "failed" /\ o.thrown = None /\ ~o.cut
                => \E x \in IfFalse(o, ba) : x.key = "error"
  BY DEF IfFalse, IfTrue
<1>2. \A classes : o.thrown \in classes => \E x \in IfThrown(o, classes) : x.key = "error"
  BY DEF IfThrown, IfTrue
<1>3. CASE kind \in UserFunction \cup OnlyThrows
  <2>1. Hears(kind) = Exception /\ kind \notin ReadsError
    BY <1>3 DEF Hears, UserFunction, OnlyThrows, ReadsError
  <2>2. o.thrown \in Exception
    BY <1>3, <2>1 DEF OutcomeOf
  <2>3. \E x \in IfThrown(o, Exception) : x.key = "error"
    BY <1>2, <2>2
  <2> QED
    BY <1>3, <2>3 DEF UserFunction, OnlyThrows, Record, GuzzleRecord, EsRecord,
       DefaultEsRecord, MongodbRecord, MongodbServerRecord
<1>4. CASE kind \in ReadsError
  <2>1. Hears(kind) = {}
    BY <1>4 DEF Hears, ReadsError, UserFunction, OnlyThrows
  <2>2. \E x \in MysqliError(FALSE, o) : x.key = "error"
    BY <2>1 DEF MysqliError, IfTrue
  <2> QED
    BY <1>4, <2>2 DEF ReadsError, Record, DbQuery, StmtPrepare, StmtExecute
<1>5. CASE kind \in Mute
  BY <1>5 DEF Hears, Mute, UserFunction, OnlyThrows
<1>6. CASE kind = "pdo"
  <2>1. Hears(kind) = {"PDOException"} /\ kind \notin ReadsError
    BY <1>6 DEF Hears, ReadsError, UserFunction, OnlyThrows
  <2>2. \/ \E x \in IfFalse(o, BA("error", "NORMAL")) : x.key = "error"
        \/ \E x \in IfThrown(o, {"PDOException"}) : x.key = "error"
    BY <1>1, <1>2, <2>1 DEF Message
  <2> QED
    BY <1>6, <2>2 DEF Record, PdoRecord
<1>7. CASE kind = "redis"
  <2>1. Hears(kind) = {"RedisException"} /\ kind \notin ReadsError
    BY <1>7 DEF Hears, ReadsError, UserFunction, OnlyThrows
  <2>2. \/ o.remembered # None /\ \E x \in IfFalse(o, BA("error", "SA")) : x.key = "error"
        \/ \E x \in IfThrown(o, {"RedisException"}) : x.key = "error"
    BY <1>1, <1>2, <1>7, <2>1 DEF Told, OutcomeOf
  <2> QED
    BY <1>7, <2>2 DEF Record, RedisRecord, IfTrue
<1>8. CASE kind \in {"pdo_statement", "memcached", "memcached_server",
                     "memcached_servers", "mysqli_connect", "mysqli_real_connect"}
  <2>1. Hears(kind) = {} /\ kind \notin ReadsError
    BY <1>8 DEF Hears, ReadsError, UserFunction, OnlyThrows
  <2>2. \E x \in IfFalse(o, ERROR) : x.key = "error"
    BY <1>1, <2>1
  <2>3. \E x \in IfTrue(o.ret = "failed" /\ o.thrown = None, {ERROR}) : x.key = "error"
    BY <2>1 DEF IfTrue
  <2> QED
    BY <1>8, <2>2, <2>3 DEF Record, PdoStatementRecord, MemcachedCommonCall,
       MemcachedAddServer, MemcachedAddServers, RealConnect, Connect
<1> QED
  BY <1>3, <1>4, <1>5, <1>6, <1>7, <1>8
     DEF Interceptor, Curl, UserFunction, OnlyThrows, ReadsError, Mute

(* An annotation of an error tells of a failure: of this call, or, in the  *)
(* extensions that have a message all the same, of none.                   *)
LEMMA RecordExplains ==
  ASSUME NEW kind \in DOMAIN Interceptor, kind \notin Curl, NEW args, NEW o,
         OutcomeOf(kind, o), NEW ba \in Record(kind, args, o), ba.key = "error"
  PROVE  \/ o.ret = "failed" \/ o.thrown # None
         \/ kind \in Pdo \cup {"memcached"} /\ o.ret = "miss"
         \/ kind = "redis" /\ o.remembered # None
<1> SUFFICES ASSUME o.ret # "failed", o.thrown = None
             PROVE  \/ kind \in Pdo \cup {"memcached"} /\ o.ret = "miss"
                    \/ kind = "redis" /\ o.remembered # None
  OBVIOUS
<1>1. /\ \A classes : None \notin classes => IfThrown(o, classes) = {}
      /\ \A procedural : MysqliError(procedural, o) = {}
      /\ \A c : /\ IfTrue(c /\ o.ret = "failed", {ERROR}) = {}
                /\ IfTrue(o.ret = "failed" /\ c, {ERROR}) = {}
      /\ \A x : o.cut \/ o.ret = "ok" => IfFalse(o, x) = {}
      /\ \A c : IfTrue(c, {}) = {}
  BY DEF IfThrown, MysqliError, IfTrue, IfFalse
<1>2. /\ None \notin Exception /\ None \notin {"PDOException"}
      /\ None \notin {"RedisException"}
  BY InterceptAssumption DEF Throwable, Exception
<1>4. ba \notin Plain
  BY PlainSays
<1>5. /\ \A keys : keys \subseteq Keys => Normal(keys) \subseteq Plain
      /\ {SA} \subseteq Plain /\ {BA("php.db.source", "SA_DSN")} \subseteq Plain
      /\ AnalyzeDataSource(o) \subseteq Plain /\ MysqlServer(o) \subseteq Plain
      /\ \A x, y, c : x \subseteq y => IfTrue(c, x) \subseteq y /\ Given(c, x) \subseteq y
  BY PartsAnnotate
<1>6. CASE (o.cut \/ o.ret = "ok") \/ (kind = "redis" /\ o.remembered = None)
  <2>1. \A x : o.cut \/ o.ret = "ok" => IfFalse(o, x) = {}
    BY <1>1
  <2>2. kind = "redis" => RedisRecord(o) \subseteq Plain
    <3>1. kind = "redis" => IfTrue(o.remembered # None, IfFalse(o, BA("error", "SA"))) = {}
      BY <1>6, <2>1 DEF IfTrue
    <3>2. {SA} \cup Normal({"db.statement", "db.type"}) \subseteq Plain
      BY <1>5 DEF Keys
    <3>3. IfThrown(o, {"RedisException"}) = {}
      BY <1>1, <1>2
    <3> QED
      BY <3>1, <3>2, <3>3 DEF RedisRecord
  <2>3. CASE kind # "redis"
    <3> DEFINE P == Plain
    <3>0. o.cut \/ o.ret = "ok"
      BY <1>6, <2>3
    <3>10. /\ IfFalse(o, ERROR) = {} /\ IfFalse(o, BA("error", "NORMAL")) = {}
           /\ IfThrown(o, Exception) = {} /\ IfThrown(o, {"PDOException"}) = {}
           /\ IfTrue(o.ret = "failed" /\ o.thrown = None, {ERROR}) = {}
      BY <1>1, <1>2, <3>0
    <3>11. /\ Normal({"db.statement", "db.type"}) \subseteq P
           /\ Normal({"db.instance"}) \subseteq P /\ Normal({"db.statement"}) \subseteq P
           /\ Normal({"db.type"}) \subseteq P /\ Normal({"http.status"}) \subseteq P
           /\ Normal({"componet"}) \subseteq P /\ Normal({"componet", "db.type"}) \subseteq P
      BY <1>5 DEF Keys
    <3>12. \A c : /\ IfTrue(c, {SA}) \subseteq P
                  /\ IfTrue(c, {BA("php.db.source", "SA_DSN")}) \subseteq P
                  /\ IfTrue(c, Normal({"db.instance"})) \subseteq P
                  /\ IfTrue(c, Normal({"http.status"})) \subseteq P
                  /\ Given(c, Normal({"db.statement"})) \subseteq P
      BY <1>5, <3>11
    <3>13. AnalyzeDataSource(o) \subseteq P /\ MysqlServer(o) \subseteq P
      BY <1>5
    <3> HIDE DEF P
    <3>1. /\ MemcachedCommonCall(o) \subseteq P /\ Connect(o) \subseteq P
          /\ PdoStatementRecord(o) \subseteq P
      BY <3>10, <3>11, <3>12, <3>13 DEF MemcachedCommonCall, Connect, PdoStatementRecord
    <3>2. /\ \A procedural : DbQuery(procedural, o) \subseteq P
          /\ \A procedural : StmtExecute(procedural, o) \subseteq P
      BY <1>1, <3>11, <3>13 DEF DbQuery, StmtExecute
    <3>3. MemcachedAddServers(o) \subseteq P
      BY <3>1, <3>12 DEF MemcachedAddServers
    <3>4. MemcachedAddServer(args, o) \subseteq P
      BY <3>1, <3>3 DEF MemcachedAddServer
    <3>5. PdoRecord(args, o) \subseteq P
      BY <3>10, <3>11, <3>12, <3>13 DEF PdoRecord
    <3>6. /\ MongodbRecord(o) \subseteq P /\ MongodbServerRecord(o) \subseteq P
          /\ GuzzleRecord(o) \subseteq P /\ DefaultEsRecord(o) \subseteq P
      BY <3>10, <3>11, <3>12
         DEF MongodbRecord, MongodbServerRecord, GuzzleRecord, DefaultEsRecord
    <3>7. EsRecord(o) \subseteq P
      BY <3>6, <3>12 DEF EsRecord
    <3>9. Record(kind, args, o) \subseteq P
      BY <2>3, <3>1, <3>2, <3>3, <3>4, <3>5, <3>6, <3>7, <3>11
         DEF Record, RealConnect, StmtPrepare, Interceptor, Curl
    <3> QED
      BY <1>4, <3>9 DEF P
  <2> QED
    BY <1>4, <2>2, <2>3 DEF Record
<1>7. CASE ~((o.cut \/ o.ret = "ok") \/ (kind = "redis" /\ o.remembered = None))
  <2>1. o.ret = "miss" /\ kind \in Misses
    BY <1>7 DEF OutcomeOf
  <2> QED
    BY <1>7, <2>1 DEF Misses, Pdo
<1> QED
  BY <1>6, <1>7

-----------------------------------------------------------------------------
(***************************************************************************)
(* The inductive invariant.                                                *)
(***************************************************************************)
StartedSpan ==
  [n : Nat, kind : Kind, handle : Handle \cup {None}, args : BOOLEAN, under : Nat,
   start : Nat, finish : Nat, ba : {{}}, outcome : {Fine}]

Frame ==
  [n : Nat \ {0}, kind : Kind, handle : Handle \cup {None}, args : BOOLEAN,
   under : Nat, entry : Nat, span : StartedSpan \cup {None}, ret : {"ok", "failed"},
   bailed : BOOLEAN]

(* The span of a frame is that of its call. *)
FrameOK(f) ==
  /\ f.kind \in Curl /\ f.args => f.handle \in Handle
  /\ f.span # None =>
       f.kind \in UserFunction /\ f.span.kind = f.kind /\ f.span.args = f.args

SpanOK(s) ==
  /\ IsSpan(s)
  /\ s.kind = "server" => s.ba = {} /\ s.outcome = Fine
  /\ s.kind # "server" =>
       /\ OutcomeOf(s.kind, s.outcome)
       /\ s.ba = IF s.kind \in Curl THEN BuildCurlBannotation(s.outcome)
                 ELSE Record(s.kind, s.args, s.outcome)

Shape ==
  /\ running \in BOOLEAN /\ bailing \in BOOLEAN /\ steady \in BOOLEAN
  /\ redis_error \in Nat \cup {None}
  /\ clock \in Nat /\ begun \in Nat /\ calls \in Nat /\ served \in Nat
  /\ cache \in [Handle -> Time] /\ added = cache
  /\ closed \subseteq Handle
  /\ exception \in Throwable \cup {None}
  /\ frames \in Seq(Frame)

(* A record of a call that threw runs with its exception pending, so that  *)
(* nothing is called under it and nothing catches it.                      *)
Threw(f) == f.span # None /\ f.ret = "failed" /\ ~f.bailed

Pending ==
  \A i \in 1 .. Len(frames) :
    Threw(frames[i]) => i = Len(frames) /\ exception # None

InterceptInv ==
  /\ Shape /\ Pending
  /\ \A i \in 1 .. Len(frames) : FrameOK(frames[i])
  /\ \A s \in spans : SpanOK(s)

LEMMA Empty == /\ NoTimes \in [Handle -> Time]
               /\ <<>> \in Seq(Frame) /\ Len(<<>>) = 0
BY DEF NoTimes, Time

LEMMA InvInit == Init => InterceptInv
<1> SUFFICES ASSUME Init PROVE InterceptInv
  OBVIOUS
<1>1. /\ running \in BOOLEAN /\ bailing \in BOOLEAN /\ steady \in BOOLEAN
      /\ redis_error \in Nat \cup {None}
  BY DEF Init
<1>2. clock \in Nat /\ begun \in Nat /\ calls \in Nat /\ served \in Nat
  BY DEF Init
<1>3. cache \in [Handle -> Time] /\ added = cache
  BY Empty DEF Init
<1>4. closed \subseteq Handle /\ exception \in Throwable \cup {None}
  BY DEF Init
<1>5. frames \in Seq(Frame) /\ Len(frames) = 0 /\ spans = {}
  BY Empty DEF Init
<1> QED
  BY <1>1, <1>2, <1>3, <1>4, <1>5 DEF InterceptInv, Shape, Pending

(* Between the calls.                                                      *)
LEMMA RequestStep ==
  ASSUME InterceptInv,
         \/ Rinit \/ Tick \/ Bail \/ Catch \/ RedisUnseen
         \/ \E class \in Thrown : Throw(class)
         \/ \E handle \in Handle : CurlClose(handle)
  PROVE  InterceptInv'
<1>1. Shape /\ Pending
  BY DEF InterceptInv
<1>2. CASE Rinit
  <2>1. /\ running' \in BOOLEAN /\ bailing' \in BOOLEAN /\ steady' \in BOOLEAN
        /\ redis_error' \in Nat \cup {None}
    BY <1>1, <1>2 DEF Rinit, Shape
  <2>2. clock' \in Nat /\ begun' \in Nat /\ calls' \in Nat /\ served' \in Nat
    BY <1>1, <1>2 DEF Rinit, Shape
  <2>3. cache' \in [Handle -> Time] /\ added' = cache'
    BY <1>1, <1>2, Empty DEF Rinit, Shape, FreshCache
  <2>4. closed' \subseteq Handle
    BY <1>2 DEF Rinit
  <2>5. UNCHANGED <<exception, frames>> /\ spans' = {}
    BY <1>2 DEF Rinit
  <2>6. Pending'
    BY <1>1, <2>5 DEF Pending, Threw
  <2> QED
    BY <1>1, <2>1, <2>2, <2>3, <2>4, <2>5, <2>6 DEF InterceptInv, Shape
<1>3. CASE Tick
  <2>1. clock' \in Nat /\ steady' \in BOOLEAN
    BY <1>1, <1>3, InterceptAssumption DEF Tick, Shape
  <2> QED
    BY <1>1, <1>3, <2>1 DEF Tick, InterceptInv, Shape, Pending
<1>4. CASE Bail
  BY <1>1, <1>4 DEF Bail, InterceptInv, Shape, Pending
<1>5. CASE Catch
  <2>1. Pending'
    <3>1. frames = <<>> \/ RunsCode(Top)
      BY <1>5 DEF Catch
    <3>2. RunsCode(Top) => ~Threw(Top)
      BY DEF RunsCode, RecordRuns, Threw
    <3> QED
      BY <1>1, <1>5, <3>1, <3>2, Empty DEF Catch, Pending, Top, Threw
  <2> QED
    BY <1>1, <1>5, <2>1 DEF Catch, InterceptInv, Shape
<1>6. ASSUME NEW class \in Thrown, Throw(class) PROVE InterceptInv'
  <2>1. class \in Throwable /\ class # None
    BY InterceptAssumption
  <2> QED
    BY <1>1, <1>6, <2>1 DEF Throw, InterceptInv, Shape, Pending
<1>7. ASSUME NEW handle \in Handle, CurlClose(handle) PROVE InterceptInv'
  BY <1>1, <1>7 DEF CurlClose, InterceptInv, Shape, Pending
<1>8. CASE RedisUnseen
  BY <1>1, <1>8 DEF RedisUnseen, InterceptInv, Shape, Pending
<1> QED
  BY <1>2, <1>3, <1>4, <1>5, <1>6, <1>7, <1>8

LEMMA DieStep == ASSUME InterceptInv, Die PROVE InterceptInv'
<1>0. Shape
  BY DEF InterceptInv
<1>1. /\ running' \in BOOLEAN /\ bailing' \in BOOLEAN /\ steady' \in BOOLEAN
      /\ redis_error' \in Nat \cup {None}
  BY <1>0 DEF Die, Shape
<1>2. clock' \in Nat /\ begun' \in Nat /\ calls' \in Nat /\ served' \in Nat
  BY <1>0 DEF Die, Shape
<1>3. cache' \in [Handle -> Time] /\ added' = cache'
  BY Empty DEF Die
<1>4. closed' \subseteq Handle /\ exception' \in Throwable \cup {None}
  BY DEF Die
<1>5. frames' \in Seq(Frame) /\ Len(frames') = 0 /\ spans' = {}
  BY Empty DEF Die
<1> QED
  BY <1>1, <1>2, <1>3, <1>4, <1>5 DEF InterceptInv, Shape, Pending

LEMMA RshutdownStep == ASSUME InterceptInv, Rshutdown PROVE InterceptInv'
<1>1. Shape /\ Pending
  BY DEF InterceptInv
<1>2. SpanOK(Server)
  BY <1>1 DEF Shape, SpanOK, IsSpan, Server
<1>3. \A s \in spans : SpanOK(s)
  BY DEF InterceptInv
<1>4. /\ frames = <<>> /\ frames' = frames /\ running' = FALSE /\ bailing' = FALSE
      /\ UNCHANGED <<redis_error, clock, begun, calls, served, cache, added, closed,
                     steady>>
      /\ exception' = None /\ spans' = spans \cup {Server}
  BY DEF Rshutdown
<1>5. Shape'
  BY <1>1, <1>4 DEF Shape
<1>6. Pending' /\ \A i \in 1 .. Len(frames') : FrameOK(frames'[i])
  BY <1>4, Empty DEF Pending
<1> QED
  BY <1>2, <1>3, <1>4, <1>5, <1>6 DEF InterceptInv

-----------------------------------------------------------------------------
LEMMA Butlast ==
  ASSUME NEW S, NEW s \in Seq(S), s # <<>>
  PROVE  LET b == SubSeq(s, 1, Len(s) - 1) IN
           b \in Seq(S) /\ Len(b) = Len(s) - 1 /\ \A i \in 1 .. Len(s) - 1 : b[i] = s[i]
<1>1. Len(s) \in Nat \ {0} /\ \A i \in 1 .. Len(s) : s[i] \in S
  BY EmptySeq, LenProperties, ElementOfSeq
<1> DEFINE n == Len(s) - 1
           b == SubSeq(s, 1, n)
<1>2. n \in Nat /\ \A i \in 1 .. n : s[i] \in S
  BY <1>1
<1> HIDE DEF n
<1>3. /\ b \in Seq(S)
      /\ Len(b) = IF 1 <= n THEN n - 1 + 1 ELSE 0
      /\ \A i \in 1 .. n - 1 + 1 : b[i] = s[1 + i - 1]
  BY <1>2, SubSeqProperties
<1>4. Len(b) = n /\ \A i \in 1 .. n : b[i] = s[i]
  BY <1>2, <1>3
<1> QED
  BY <1>3, <1>4 DEF n

(* The call under way, and those it interrupts.                            *)
LEMMA TopBelow ==
  ASSUME InterceptInv, frames # <<>>
  PROVE  /\ Top \in Frame /\ FrameOK(Top) /\ Below \in Seq(Frame)
         /\ \A i \in 1 .. Len(Below) : FrameOK(Below[i]) /\ ~Threw(Below[i])
         /\ Threw(Top) => exception # None
         /\ \A i \in 1 .. Len(frames) - 1 : ~Threw(frames[i])
<1>1. frames \in Seq(Frame) /\ Pending
  BY DEF InterceptInv, Shape
<1>2. Len(frames) \in 1 .. Len(frames) /\ Len(frames) \in Nat
  BY <1>1
<1>3. /\ Below \in Seq(Frame) /\ Len(Below) = Len(frames) - 1
      /\ \A i \in 1 .. Len(Below) : Below[i] = frames[i]
  BY <1>1, Butlast DEF Below
<1> QED
  BY <1>1, <1>2, <1>3 DEF InterceptInv, Pending, Top

(* The call under way ends, with a span or without.                        *)
LEMMA PopStep ==
  ASSUME InterceptInv, frames # <<>>, frames' = Below,
         UNCHANGED <<running, clock, begun, closed, calls, served, steady>>,
         cache' \in [Handle -> Time], added' = cache',
         redis_error' \in Nat \cup {None}, bailing' \in BOOLEAN,
         exception' \in Throwable \cup {None},
         \A s \in spans' \ spans : SpanOK(s)
  PROVE  InterceptInv'
<1>1. Shape'
  BY TopBelow DEF InterceptInv, Shape
<1>2. Pending'
  BY TopBelow DEF Pending
<1>3. \A i \in 1 .. Len(frames') : FrameOK(frames'[i])
  BY TopBelow
<1> QED
  BY <1>1, <1>2, <1>3 DEF InterceptInv

LEMMA StartedTypes ==
  ASSUME InterceptInv, NEW f \in Frame, NEW start \in Nat
  PROVE  StartSpan(f, start) \in StartedSpan
BY DEF StartSpan, StartedSpan, Frame, InterceptInv, Shape

(* What a started span is when it has been described.                      *)
LEMMA DescribedSpan ==
  ASSUME NEW s \in StartedSpan, NEW ba, NEW o
  PROVE  LET t == WithBa(s, ba, o) IN
           /\ IsSpan(t) /\ t.kind = s.kind /\ t.args = s.args
           /\ t.ba = ba /\ t.outcome = o
           /\ t.kind \in Kind /\ t.start = s.start /\ t.handle = s.handle
           /\ t.kind # "server"
<1>1. Kind \subseteq DOMAIN Interceptor
  BY InterceptAssumption
<1>2. "server" \notin DOMAIN Interceptor
  BY DEF Interceptor
<1> QED
  BY <1>1, <1>2 DEF WithBa, StartedSpan, IsSpan

-----------------------------------------------------------------------------
LEMMA CallStep ==
  ASSUME InterceptInv, NEW kind \in Kind, NEW handle \in Handle \cup {None},
         NEW args \in BOOLEAN, Call(kind, handle, args)
  PROVE  InterceptInv'
<1> DEFINE f == NewFrame(kind, handle, args)
<1>1. Shape /\ Pending
  BY DEF InterceptInv
<1>2. /\ frames' = Append(frames, f) /\ calls' = calls + 1
      /\ exception = None /\ (kind \in Curl /\ args => handle \in Handle)
      /\ UNCHANGED <<running, clock, begun, cache, closed, redis_error,
                     exception, bailing, spans, served, added, steady>>
  BY DEF Call, CanRun
<1>3. Parent \in Nat
  BY <1>1, TopBelow DEF Parent, Frame
<1>4. f \in Frame /\ FrameOK(f) /\ f.span = None
  <2>1. calls + 1 \in Nat \ {0} /\ clock \in Nat
    BY <1>1 DEF Shape
  <2>2. f \in Frame
    BY <1>3, <2>1 DEF NewFrame, Frame
  <2> QED
    BY <1>2, <2>2 DEF NewFrame, FrameOK
<1> HIDE DEF f
<1>5. /\ frames' \in Seq(Frame) /\ Len(frames') = Len(frames) + 1 /\ Len(frames) \in Nat
      /\ frames'[Len(frames) + 1] = f
      /\ \A i \in 1 .. Len(frames) : frames'[i] = frames[i]
  BY <1>1, <1>2, <1>4 DEF Shape
<1>6. Shape'
  BY <1>1, <1>2, <1>5 DEF Shape
<1>7. Pending'
  BY <1>1, <1>2, <1>4, <1>5 DEF Pending, Threw
<1>8. \A i \in 1 .. Len(frames') : FrameOK(frames'[i])
  BY <1>4, <1>5 DEF InterceptInv
<1> QED
  BY <1>2, <1>6, <1>7, <1>8 DEF InterceptInv

LEMMA StartRecordStep == ASSUME InterceptInv, StartRecord PROVE InterceptInv'
<1> DEFINE sp == StartSpan(Top, EntryTime(Top))
           ret == IF bailing \/ exception # None THEN "failed" ELSE "ok"
           f == [Top EXCEPT !.span = sp, !.ret = ret, !.bailed = bailing]
<1>1. /\ frames # <<>> /\ Top \in Frame /\ FrameOK(Top) /\ Top.kind \in UserFunction
      /\ Shape /\ Top.entry \in Nat
  BY TopBelow DEF StartRecord, Ending, InterceptInv, Frame
<1>2. sp \in StartedSpan /\ sp.kind = Top.kind /\ sp.args = Top.args
  BY <1>1, StartedTypes DEF EntryTime, StartSpan
<1>3. bailing \in BOOLEAN /\ ret \in {"ok", "failed"}
      /\ (ret = "failed" /\ ~bailing => exception # None)
  BY <1>1 DEF Shape
<1>4. /\ frames' = [frames EXCEPT ![Len(frames)] = f]
      /\ bailing' = FALSE
      /\ UNCHANGED <<running, clock, begun, cache, closed, redis_error, exception,
                     spans, calls, served, added, steady>>
  BY DEF StartRecord
<1> HIDE DEF sp, ret
<1>5. f \in Frame /\ f.ret = ret /\ f.bailed = bailing /\ f.span = sp
      /\ f.kind = Top.kind /\ f.args = Top.args /\ f.handle = Top.handle
  BY <1>1, <1>2, <1>3 DEF Frame
<1>6. FrameOK(f) /\ (Threw(f) => exception # None)
  BY <1>1, <1>2, <1>3, <1>5 DEF FrameOK, Threw
<1> HIDE DEF f
<1>7. Len(frames) \in 1 .. Len(frames) /\ Len(frames) \in Nat
  BY <1>1 DEF Shape
<1>8. /\ frames' \in Seq(Frame) /\ Len(frames') = Len(frames)
      /\ \A i \in 1 .. Len(frames) :
           frames'[i] = IF i = Len(frames) THEN f ELSE frames[i]
  BY <1>1, <1>4, <1>5, <1>7 DEF Shape
<1>9. Shape'
  BY <1>1, <1>4, <1>8 DEF Shape
<1>10. Pending'
  <2> SUFFICES ASSUME NEW i \in 1 .. Len(frames), Threw(frames'[i])
               PROVE  i = Len(frames) /\ exception # None
    BY <1>4, <1>8 DEF Pending
  <2> QED
    BY <1>6, <1>7, <1>8 DEF InterceptInv, Pending
<1>11. \A i \in 1 .. Len(frames') : FrameOK(frames'[i])
  BY <1>6, <1>8 DEF InterceptInv
<1> QED
  BY <1>4, <1>9, <1>10, <1>11 DEF InterceptInv

LEMMA SkippedStep ==
  ASSUME InterceptInv, Decline \/ RecordDies \/ CurlDies \/ Unwind
  PROVE  InterceptInv'
<1>1. Shape
  BY DEF InterceptInv
<1>2. CASE Decline \/ Unwind
  <2>1. /\ frames # <<>> /\ frames' = Below
        /\ UNCHANGED <<running, clock, begun, cache, closed, redis_error, exception,
                       bailing, spans, calls, served, added, steady>>
    BY <1>2 DEF Decline, Ending, Unwind
  <2> QED
    BY <1>1, <2>1, PopStep DEF Shape
<1>3. CASE RecordDies \/ CurlDies
  BY <1>3, DieStep DEF RecordDies, CurlDies
<1> QED
  BY <1>2, <1>3

(* What RecordInternal, CurlMultiRemove and CurlExec add to the spans.      *)
LEMMA RecordedSpan ==
  ASSUME InterceptInv, frames # <<>>, Top.kind \notin UserFunction,
         NEW start \in Nat, NEW o \in Outcomes(Top), NEW ba,
         ba = IF Top.kind \in Curl THEN BuildCurlBannotation(o)
              ELSE Record(Top.kind, Top.args, o)
  PROVE  LET t == WithBa(StartSpan(Top, start), ba, o) IN
           SpanOK(t) /\ t.kind = Top.kind /\ t.start = start /\ t.handle = Top.handle
<1>1. Top \in Frame /\ Shape
  BY TopBelow DEF InterceptInv
<1>2. Top.kind \in Kind /\ Top.kind \in DOMAIN Interceptor /\ Top.n \in Nat
  BY <1>1, InterceptAssumption DEF Frame
<1>3. OutcomeOf(Top.kind, o)
  BY <1>1, <1>2, OutcomesAre DEF Shape
<1> DEFINE s == StartSpan(Top, start)
<1>4. s \in StartedSpan
  BY <1>1, StartedTypes
<1>5. /\ s.kind = Top.kind /\ s.args = Top.args
      /\ s.start = start /\ s.handle = Top.handle
  BY DEF StartSpan
<1> HIDE DEF s
<1>6. PICK t : t = WithBa(s, ba, o)
  OBVIOUS
<1>7. /\ IsSpan(t) /\ t.kind = Top.kind /\ t.args = Top.args
      /\ t.ba = ba /\ t.outcome = o /\ t.start = start
      /\ t.handle = Top.handle /\ t.kind # "server"
  BY <1>4, <1>5, <1>6, DescribedSpan
<1>8. SpanOK(t)
  BY <1>3, <1>7 DEF SpanOK
<1> QED
  BY <1>6, <1>7, <1>8 DEF s

LEMMA RecordInternalStep ==
  ASSUME InterceptInv, RecordInternal
  PROVE  InterceptInv' /\ \A s \in spans' \ spans : s.kind # "curl_multi_remove"
<1>1. frames # <<>> /\ Shape /\ Top \in Frame /\ Top.kind \in Internal
  BY TopBelow DEF RecordInternal, Ending, InterceptInv
<1>2. Top.kind \notin Curl \cup UserFunction
  BY <1>1 DEF Internal
<1>3. PICK o \in Outcomes(Top) :
        /\ spans' = spans \cup
             {WithBa(StartSpan(Top, EntryTime(Top)), Record(Top.kind, Top.args, o), o)}
        /\ exception' = o.thrown
        /\ redis_error' = o.remembered
  BY DEF RecordInternal
<1>4. Top.kind \in DOMAIN Interceptor /\ Top.entry \in Nat /\ Top.n \in Nat
  BY <1>1, InterceptAssumption DEF Frame
<1> DEFINE t == WithBa(StartSpan(Top, EntryTime(Top)), Record(Top.kind, Top.args, o), o)
<1>5. SpanOK(t) /\ t.kind # "curl_multi_remove"
  BY <1>1, <1>2, <1>4, RecordedSpan DEF EntryTime, Curl
<1>6. OutcomeOf(Top.kind, o)
  BY <1>1, <1>2, <1>4, OutcomesAre DEF Shape
<1>7. exception' \in Throwable \cup {None} /\ redis_error' \in Nat \cup {None}
  BY <1>3, <1>6 DEF OutcomeOf
<1>8. /\ frames' = Below
      /\ UNCHANGED <<running, clock, begun, cache, closed, bailing, calls, served,
                     added, steady>>
  BY DEF RecordInternal
<1>9. spans' = spans \cup {t}
  BY <1>3
<1> HIDE DEF t
<1> QED
  BY <1>1, <1>5, <1>7, <1>8, <1>9, PopStep DEF Shape

LEMMA CurlMultiAddStep == ASSUME InterceptInv, CurlMultiAdd PROVE InterceptInv'
<1>1. frames # <<>> /\ Shape /\ Top \in Frame
  BY TopBelow DEF CurlMultiAdd, Ending, InterceptInv
<1>2. /\ cache' = [cache EXCEPT ![Top.handle] = Top.entry]
      /\ added' = [added EXCEPT ![Top.handle] = Top.entry]
      /\ frames' = Below
      /\ UNCHANGED <<running, clock, begun, closed, redis_error, exception,
                     bailing, spans, calls, served, steady>>
  BY DEF CurlMultiAdd
<1>3. cache' \in [Handle -> Time] /\ added' = cache'
  BY <1>1, <1>2 DEF Shape, Frame, Time
<1> QED
  BY <1>1, <1>2, <1>3, PopStep DEF Shape

LEMMA CurlExecStep ==
  ASSUME InterceptInv, CurlExec
  PROVE  InterceptInv' /\ \A s \in spans' \ spans : s.kind # "curl_multi_remove"
<1>1. /\ frames # <<>> /\ Shape /\ Top \in Frame
      /\ Top.kind = "curl_exec" /\ Top.kind \in Curl /\ Top.kind \notin UserFunction
  BY TopBelow DEF CurlExec, Ending, InterceptInv, Curl, UserFunction
<1>2. PICK o \in Outcomes(Top) :
        spans' = spans \cup
          {WithBa(StartSpan(Top, EntryTime(Top)), BuildCurlBannotation(o), o)}
  BY DEF CurlExec
<1>3. Top.entry \in Nat
  BY <1>1 DEF Frame
<1> DEFINE t == WithBa(StartSpan(Top, EntryTime(Top)), BuildCurlBannotation(o), o)
<1>4. SpanOK(t) /\ t.kind # "curl_multi_remove"
  BY <1>1, <1>3, RecordedSpan DEF EntryTime
<1>5. /\ frames' = Below
      /\ UNCHANGED <<running, clock, begun, cache, closed, redis_error, exception,
                     bailing, calls, served, added, steady>>
  BY DEF CurlExec
<1>6. spans' = spans \cup {t}
  BY <1>2
<1> HIDE DEF t
<1> QED
  BY <1>1, <1>4, <1>5, <1>6, PopStep DEF Shape

(* The span of a removed handle starts when the handle was added.          *)
LEMMA CurlMultiRemoveStep ==
  ASSUME InterceptInv, CurlMultiRemove
  PROVE  InterceptInv' /\ \A s \in spans' \ spans : s.start = added[s.handle]
<1>1. /\ frames # <<>> /\ Shape /\ Top \in Frame
      /\ Top.kind = "curl_multi_remove" /\ Top.kind \in Curl
      /\ Top.kind \notin UserFunction
  BY TopBelow DEF CurlMultiRemove, Ending, InterceptInv, Curl, UserFunction
<1>2. /\ frames' = Below
      /\ UNCHANGED <<running, clock, begun, cache, closed, redis_error, exception,
                     bailing, calls, served, added, steady>>
  BY DEF CurlMultiRemove
<1>3. CASE UNCHANGED spans
  BY <1>1, <1>2, <1>3, PopStep DEF Shape
<1>4. CASE ~UNCHANGED spans
  <2>1. cache[Top.handle] # None
    BY <1>4 DEF CurlMultiRemove
  <2>2. PICK o \in Outcomes(Top) :
          spans' = spans \cup
            {WithBa(StartSpan(Top, cache[Top.handle]), BuildCurlBannotation(o), o)}
    BY <1>4 DEF CurlMultiRemove
  <2>3. Top.handle \in Handle
    BY <1>1, TopBelow DEF FrameOK, CurlMultiRemove
  <2>4. cache[Top.handle] \in Nat /\ cache[Top.handle] = added[Top.handle]
    BY <1>1, <2>1, <2>3 DEF Shape, Time
  <2>5. PICK t : t = WithBa(StartSpan(Top, cache[Top.handle]), BuildCurlBannotation(o), o)
    OBVIOUS
  <2>6. SpanOK(t) /\ t.start = cache[Top.handle] /\ t.handle = Top.handle
    BY <1>1, <2>4, <2>5, RecordedSpan
  <2>7. spans' = spans \cup {t}
    BY <2>2, <2>5
  <2>8. InterceptInv'
    BY <1>1, <1>2, <2>6, <2>7, PopStep DEF Shape
  <2> QED
    BY <2>4, <2>6, <2>7, <2>8
<1> QED
  BY <1>3, <1>4

LEMMA EndRecordStep ==
  ASSUME InterceptInv, EndRecord
  PROVE  InterceptInv' /\ \A s \in spans' \ spans : s.kind # "curl_multi_remove"
<1>1. PICK found :
        spans' = spans \cup
          {WithBa(Top.span,
                  Record(Top.kind, Top.args,
                         Outcome(Top.ret, Top.bailed, exception, found, redis_error)),
                  Outcome(Top.ret, Top.bailed, exception, found, redis_error))}
  BY DEF EndRecord
<1>2. PICK o : o = Outcome(Top.ret, Top.bailed, exception, found, redis_error)
  OBVIOUS
<1>3. /\ frames # <<>> /\ Shape /\ Top \in Frame /\ FrameOK(Top) /\ Top.span # None
      /\ (Threw(Top) => exception # None)
  BY TopBelow DEF EndRecord, InterceptInv
<1>4. PICK t : t = WithBa(Top.span, Record(Top.kind, Top.args, o), o)
  OBVIOUS
<1>5. spans' = spans \cup {t}
  BY <1>1, <1>2, <1>4
<1>6. /\ Top.span \in StartedSpan /\ Top.kind \in UserFunction
      /\ Top.span.kind = Top.kind /\ Top.span.args = Top.args
      /\ Top.bailed \in BOOLEAN /\ Top.ret \in {"ok", "failed"}
  BY <1>3 DEF Frame, FrameOK
<1>7. Top.kind \notin Curl /\ Top.kind # "curl_multi_remove" /\ Top.kind # "redis"
  BY <1>6 DEF UserFunction, Curl
<1>8. /\ o.ret = Top.ret /\ o.cut = Top.bailed /\ o.thrown = exception
      /\ o.remembered = redis_error
  BY <1>2 DEF Outcome
<1>9. OutcomeOf(Top.kind, o)
  BY <1>3, <1>6, <1>7, <1>8 DEF OutcomeOf, Shape, Threw
<1>10. /\ IsSpan(t) /\ t.kind = Top.kind /\ t.args = Top.args
       /\ t.ba = Record(Top.kind, Top.args, o) /\ t.outcome = o /\ t.kind # "server"
  <2>1. PICK ba : ba = Record(Top.kind, Top.args, o)
    OBVIOUS
  <2>2. PICK sp \in StartedSpan : sp = Top.span
    BY <1>6
  <2>3. t = WithBa(sp, ba, o)
    BY <1>4, <2>1, <2>2
  <2>4. /\ IsSpan(t) /\ t.kind = sp.kind /\ t.args = sp.args
        /\ t.ba = ba /\ t.outcome = o /\ t.kind # "server"
    BY <2>3, DescribedSpan
  <2> QED
    BY <1>6, <2>1, <2>2, <2>4
<1>11. SpanOK(t)
  BY <1>7, <1>9, <1>10 DEF SpanOK
<1>12. /\ frames' = Below /\ bailing' = Top.bailed
       /\ UNCHANGED <<running, clock, begun, cache, closed, redis_error,
                      exception, calls, served, added, steady>>
  BY DEF EndRecord
<1> QED
  BY <1>3, <1>5, <1>6, <1>7, <1>10, <1>11, <1>12, PopStep DEF Shape

-----------------------------------------------------------------------------
LEMMA InvNext == InterceptInv /\ [Next]_vars => InterceptInv'
<1> SUFFICES ASSUME InterceptInv, [Next]_vars PROVE InterceptInv'
  OBVIOUS
<1>1. CASE UNCHANGED vars
  BY <1>1 DEF vars, InterceptInv, Shape, Pending
<1>2. ASSUME NEW kind \in Kind, NEW handle \in Handle \cup {None},
             NEW args \in BOOLEAN, Call(kind, handle, args)
      PROVE  InterceptInv'
  BY <1>2, CallStep
<1> QED
  BY <1>1, <1>2, RequestStep, RshutdownStep, SkippedStep,
     RecordInternalStep, CurlMultiAddStep, CurlMultiRemoveStep, CurlExecStep,
     StartRecordStep, EndRecordStep DEF Next

(* The strengthening holds of every behaviour.                             *)
THEOREM InterceptInvAlways == Spec => []InterceptInv
BY InvInit, InvNext, PTL DEF Spec

-----------------------------------------------------------------------------
(* TypeOK: every variable keeps its type, and a frame that records with its*)
(* span started is one of a user function (mo_execute_core).               *)
THEOREM InterceptTypes == Spec => []TypeOK
<1>1. InterceptInv => TypeOK
  <2> SUFFICES ASSUME InterceptInv PROVE TypeOK
    OBVIOUS
  <2>1. ASSUME NEW i \in 1 .. Len(frames) PROVE IsFrame(frames[i])
    <3>1. PICK f \in Frame : f = frames[i] /\ FrameOK(f)
      BY ElementOfSeq DEF InterceptInv, Shape
    <3>2. \A s \in StartedSpan : IsSpan(s)
      BY InterceptAssumption DEF StartedSpan, IsSpan
    <3>3. f.span # None => f.span \in StartedSpan /\ f.kind \in UserFunction
      BY <3>1 DEF Frame, FrameOK
    <3>4. f.n \in Nat \ {0} /\ f.kind \in Kind /\ f.args \in BOOLEAN
          /\ f.handle \in Handle \cup {None} /\ f.under \in Nat /\ f.entry \in Nat
      BY DEF Frame
    <3> QED
      BY <3>1, <3>2, <3>3, <3>4 DEF IsFrame
  <2>2. \A s \in spans : IsSpan(s)
    BY DEF InterceptInv, SpanOK
  <2> QED
    BY <2>1, <2>2 DEF TypeOK, InterceptInv, Shape
<1> QED
  BY <1>1, InterceptInvAlways, PTL

(* What the annotations of a span can be. *)
LEMMA SpanAnnotated ==
  ASSUME InterceptInv, NEW s \in spans
  PROVE  /\ s.ba \subseteq Annotations
         /\ Told \in s.ba => s.kind = "redis" /\ ERROR \notin s.ba
         /\ Message \in s.ba => s.kind = "pdo" /\ ERROR \notin s.ba
<1>1. SpanOK(s) /\ s.kind \in DOMAIN Interceptor \cup {"server"}
  BY DEF InterceptInv, SpanOK, IsSpan
<1>2. CASE s.kind = "server"
  BY <1>1, <1>2 DEF SpanOK
<1>3. CASE s.kind # "server"
  <2>1. PICK o : o = s.outcome
    OBVIOUS
  <2>2. /\ Told \notin Plain /\ Message \notin Plain
        /\ Told # ERROR /\ Message # ERROR /\ Told # Message
    BY PlainSays DEF Told, Message, ERROR, BA
  <2>3. CASE s.kind \in Curl
    <3>1. s.ba \subseteq Plain \cup {ERROR}
      BY <1>1, <1>3, <2>3, CurlAnnotates DEF SpanOK
    <3> QED
      BY <2>2, <3>1 DEF Annotations
  <2>4. CASE s.kind \notin Curl
    <3>1. s.ba = Record(s.kind, s.args, o) /\ s.kind \in DOMAIN Interceptor
      BY <1>1, <1>3, <2>1, <2>4 DEF SpanOK
    <3>2. s.ba \subseteq
            Plain \cup {ERROR} \cup (IF s.kind = "pdo" THEN {Message} ELSE {})
              \cup (IF s.kind = "redis" THEN {Told} ELSE {})
      BY <2>4, <3>1, RecordAnnotates
    <3>3. Told \in s.ba \/ Message \in s.ba => ERROR \notin s.ba
      BY <2>4, <3>1, RecordCalls
    <3> QED
      BY <2>2, <3>2, <3>3 DEF Annotations
  <2> QED
    BY <2>3, <2>4
<1> QED
  BY <1>2, <1>3

(* FormatsAgree: an annotation is an error, or a peer, in the three formats*)
(* alike (zn_, ot_ and sk_span_add_ba), but for the error that Redis       *)
(* remembers and for isError of a message of PDO.                          *)
THEOREM ThreeFormatsAgree == Spec => []FormatsAgree
<1>1. InterceptInv => FormatsAgree
  <2> SUFFICES ASSUME InterceptInv, NEW s \in spans
               PROVE  /\ Told \notin s.ba =>
                           /\ "error" \in Zipkin(s) <=> "error" \in Opentracing(s)
                           /\ "error" \in Zipkin(s) <=> "error" \in Skywalking(s)
                      /\ IsError(s) => "error" \in Zipkin(s)
                      /\ "error" \in Zipkin(s) =>
                           IsError(s) \/ Told \in s.ba \/ Message \in s.ba
                      /\ Told \in s.ba => s.kind = "redis" /\ ~IsError(s)
                      /\ Message \in s.ba => s.kind = "pdo" /\ ~IsError(s)
                      /\ "sa" \in Zipkin(s) => "peer.service" \in Opentracing(s)
                      /\ "peer.service" \in Opentracing(s)
                           <=> "peer.service" \in Skywalking(s)
    BY DEF FormatsAgree, Told, Message
  <2>1. /\ s.ba \subseteq Plain \cup {ERROR, Told, Message}
        /\ Told \in s.ba => s.kind = "redis" /\ ERROR \notin s.ba
        /\ Message \in s.ba => s.kind = "pdo" /\ ERROR \notin s.ba
    BY SpanAnnotated DEF Annotations
  <2>2. \A key : /\ key \in Zipkin(s) <=> \E ba \in s.ba : key \in ZnAdd(ba)
                 /\ key \in Opentracing(s) <=> \E ba \in s.ba : key \in OtAdd(ba)
                 /\ key \in Skywalking(s) <=> \E ba \in s.ba : key \in SkAdd(ba)
    BY DEF Zipkin, Opentracing, Skywalking
  <2>3. \A ba \in Plain \cup {ERROR, Told, Message} :
          /\ "error" \in ZnAdd(ba) <=> ba \in {ERROR, Told, Message}
          /\ ba.type = "ERROR" <=> ba = ERROR
          /\ ba # Told => /\ "error" \in OtAdd(ba) <=> ba \in {ERROR, Message}
                          /\ "error" \in SkAdd(ba) <=> ba \in {ERROR, Message}
          /\ "sa" \in ZnAdd(ba) => "peer.service" \in OtAdd(ba)
          /\ "peer.service" \in OtAdd(ba) <=> "peer.service" \in SkAdd(ba)
    <3>1. ASSUME NEW ba \in Plain
          PROVE  /\ ba \notin {ERROR, Told, Message} /\ "error" \notin ZnAdd(ba)
                 /\ ba.type # "ERROR"
                 /\ "error" \notin OtAdd(ba) /\ "error" \notin SkAdd(ba)
                 /\ "sa" \in ZnAdd(ba) => "peer.service" \in OtAdd(ba)
                 /\ "peer.service" \in OtAdd(ba) <=> "peer.service" \in SkAdd(ba)
      BY <3>1, PlainSays DEF ZnAdd
    <3>2. /\ \A ba \in {ERROR, Told, Message} : "error" \in ZnAdd(ba)
          /\ ERROR.type = "ERROR" /\ Told.type # "ERROR" /\ Message.type # "ERROR"
          /\ Told # ERROR /\ Message # ERROR
      BY ErrorSays DEF ZnAdd, Told, Message, ERROR, BA
    <3> QED
      BY <3>1, <3>2, ErrorSays
  <2>4. IsError(s) <=> ERROR \in s.ba
    BY <2>1, <2>3, ErrorSays DEF IsError
  <2>5. /\ Told \notin s.ba =>
             /\ "error" \in Zipkin(s) <=> ERROR \in s.ba \/ Message \in s.ba
             /\ "error" \in Opentracing(s) <=> ERROR \in s.ba \/ Message \in s.ba
             /\ "error" \in Skywalking(s) <=> ERROR \in s.ba \/ Message \in s.ba
    BY <2>1, <2>2, <2>3, ErrorSays
  <2>6. "error" \in Zipkin(s) <=> ERROR \in s.ba \/ Told \in s.ba \/ Message \in s.ba
    BY <2>1, <2>2, <2>3, ErrorSays
  <2>7. /\ "sa" \in Zipkin(s) => "peer.service" \in Opentracing(s)
        /\ "peer.service" \in Opentracing(s) <=> "peer.service" \in Skywalking(s)
    BY <2>1, <2>2, <2>3
  <2> QED
    BY <2>1, <2>4, <2>5, <2>6, <2>7
<1> QED
  BY <1>1, InterceptInvAlways, PTL

(* FailureShown: the span of a call that failed says "error", unless its   *)
(* record never looks (Mute), or cannot, for an exception that it does not *)
(* look for, or a bailout (Hears, ReadsError).                             *)
THEOREM EveryFailureShown == Spec => []FailureShown
<1>1. InterceptInv => FailureShown
  <2> SUFFICES ASSUME InterceptInv, NEW s \in spans,
                      \/ s.outcome.thrown \in Hears(s.kind)
                      \/ /\ s.outcome.ret = "failed" /\ s.kind \notin Mute
                         /\ \/ s.kind \in ReadsError
                            \/ s.outcome.thrown = None /\ ~s.outcome.cut
               PROVE  "error" \in Zipkin(s)
    BY DEF FailureShown
  <2>1. SpanOK(s) /\ s.kind \in DOMAIN Interceptor \cup {"server"}
    BY DEF InterceptInv, SpanOK, IsSpan
  <2>2. s.kind # "server"
    <3>1. Hears("server") = {} /\ Fine.ret # "failed"
      BY DEF Hears, UserFunction, OnlyThrows, Fine, Outcome
    <3> QED
      BY <2>1, <3>1 DEF SpanOK
  <2>3. \E ba \in s.ba : ba.key = "error"
    <3>1. OutcomeOf(s.kind, s.outcome)
      BY <2>1, <2>2 DEF SpanOK
    <3>2. CASE s.kind \in Curl
      <4>1. Hears(s.kind) = {}
        BY <3>2 DEF Curl, Hears, UserFunction, OnlyThrows
      <4>2. ERROR \in s.ba
        BY <2>1, <2>2, <3>2, <4>1 DEF SpanOK, BuildCurlBannotation
      <4> QED
        BY <4>2, ErrorSays
    <3>3. CASE s.kind \notin Curl
      <4>1. s.ba = Record(s.kind, s.args, s.outcome)
        BY <2>1, <2>2, <3>3 DEF SpanOK
      <4> QED
        BY <2>1, <2>2, <3>1, <3>3, <4>1, RecordShowsFailure
    <3> QED
      BY <3>2, <3>3
  <2> QED
    BY <2>3 DEF Zipkin, ZnAdd
<1> QED
  BY <1>1, InterceptInvAlways, PTL

(* MultiTimes: a span of curl_multi starts when its handle was last added  *)
(* in this request (span_info_cache is made anew by mo_intercept_init).    *)
THEOREM MultiTimesAlways == Spec => MultiTimes
<1>1. InterceptInv /\ [Next]_vars =>
        [\A s \in spans' \ spans :
           s.kind = "curl_multi_remove" => s.start = added[s.handle]]_vars
  <2> SUFFICES ASSUME InterceptInv, Next
               PROVE  \A s \in spans' \ spans :
                        s.kind = "curl_multi_remove" => s.start = added[s.handle]
    OBVIOUS
  <2>1. CASE Rinit \/ Tick \/ RedisUnseen \/ Catch \/ Bail \/ Unwind
    BY <2>1 DEF Rinit, Tick, RedisUnseen, Catch, Bail, Unwind
  <2>2. CASE \/ \E kind \in Kind, handle \in Handle \cup {None}, args \in BOOLEAN :
                  Call(kind, handle, args)
             \/ \E class \in Thrown : Throw(class)
             \/ \E handle \in Handle : CurlClose(handle)
    BY <2>2 DEF Call, Throw, CurlClose
  <2>3. CASE Decline \/ RecordDies \/ CurlMultiAdd \/ CurlDies \/ StartRecord
    BY <2>3 DEF Decline, RecordDies, CurlMultiAdd, CurlDies, StartRecord, Die
  <2>4. CASE Rshutdown
    BY <2>4 DEF Rshutdown, Server
  <2>5. CASE RecordInternal \/ CurlExec \/ EndRecord
    BY <2>5, RecordInternalStep, CurlExecStep, EndRecordStep
  <2>6. CASE CurlMultiRemove
    BY <2>6, CurlMultiRemoveStep
  <2> QED
    BY <2>1, <2>2, <2>3, <2>4, <2>5, <2>6 DEF Next
<1> QED
  BY <1>1, InterceptInvAlways, PTL DEF Spec, MultiTimes

-----------------------------------------------------------------------------
(***************************************************************************)
(* The numbers of the calls.  A frame was called by the one below it, and  *)
(* has no span yet.                                                        *)
(***************************************************************************)
FrameNumbered(i) ==
  /\ frames[i].n <= calls
  /\ frames[i].under = IF i = 1 THEN 0 ELSE frames[i - 1].n
  /\ frames[i].span # None =>
       frames[i].span.n = frames[i].n /\ frames[i].span.under = frames[i].under
  /\ \A j \in 1 .. i - 1 : frames[j].n < frames[i].n
  /\ \A s \in spans : s.n # frames[i].n

SpanNumbered(s) ==
  /\ s.n <= calls
  /\ IF s.kind = "server" THEN s.n = 0 /\ ~running ELSE s.under < s.n

Numbered ==
  /\ running \/ frames = <<>>
  /\ \A i \in 1 .. Len(frames) : FrameNumbered(i)
  /\ \A s \in spans : SpanNumbered(s)

(***************************************************************************)
(* The Redis object remembers the error of a call only with its span.      *)
(***************************************************************************)
FailedWith(n) ==
  \E t \in spans : t.kind = "redis" /\ t.n = n /\ t.outcome.ret = "failed"

ErrorKept ==
  /\ redis_error \in Nat \ {0} => FailedWith(redis_error)
  /\ \A s \in spans :
       s.kind = "redis" /\ s.outcome.remembered \in Nat \ {0}
         => FailedWith(s.outcome.remembered)

(***************************************************************************)
(* The times.  A frame begins within the one below it, or after the end of *)
(* it when that one is recording; and so does every span under it.         *)
(***************************************************************************)
FrameTimed(i) ==
  /\ begun <= frames[i].entry /\ frames[i].entry <= clock
  /\ frames[i].span # None =>
       /\ frames[i].span.start = frames[i].entry
       /\ frames[i].entry <= frames[i].span.finish /\ frames[i].span.finish <= clock
  /\ \A j \in 1 .. i - 1 :
       /\ frames[j].entry <= frames[i].entry
       /\ frames[j].span # None => frames[j].span.finish <= frames[i].entry

(* s, made under a frame that is still there, does not straddle its end.   *)
Inside(s, f) ==
  /\ s.kind # "curl_multi_remove" => f.entry <= s.start
  /\ f.span # None =>
       \/ s.finish <= f.span.finish
       \/ s.start >= f.span.finish
       \/ s.kind = "curl_multi_remove" /\ s.finish >= f.span.finish

SpanTimed(s) ==
  /\ begun <= s.start /\ s.start <= s.finish /\ s.finish <= clock
  /\ \A i \in 1 .. Len(frames) : s.under = frames[i].n => Inside(s, frames[i])

Timed ==
  /\ begun <= clock
  /\ \A h \in Handle : cache[h] # None => begun <= cache[h] /\ cache[h] <= clock
  /\ \A i \in 1 .. Len(frames) : FrameTimed(i)
  /\ \A s \in spans : SpanTimed(s)

(***************************************************************************)
(* What the span of the innermost call has of it, however it is recorded.  *)
(***************************************************************************)
SpanOfTop(t) ==
  /\ t.n = Top.n /\ t.under = Top.under /\ t.kind = Top.kind
  /\ IF Top.span # None THEN t.start = Top.span.start /\ t.finish = Top.span.finish
     ELSE /\ t.finish = clock
          /\ IF Top.kind = "curl_multi_remove"
             THEN /\ Top.handle \in Handle /\ cache[Top.handle] # None
                  /\ t.start = cache[Top.handle]
             ELSE t.start = Top.entry
  /\ t.kind = "redis" =>
       \/ t.outcome.remembered = redis_error
       \/ t.outcome.remembered = t.n /\ t.outcome.ret = "failed"

(* The innermost call ends.                                                *)
Ends ==
  /\ frames # <<>> /\ frames' = Below
  /\ UNCHANGED <<running, clock, begun, calls, steady>>
  /\ spans \subseteq spans' /\ \A t \in spans' \ spans : SpanOfTop(t)
  /\ redis_error' = redis_error \/ FailedWith(redis_error)'
  /\ \/ cache' = cache
     \/ Top.handle \in Handle /\ cache' = [cache EXCEPT ![Top.handle] = Top.entry]

LEMMA WithBaIs ==
  ASSUME NEW f, NEW start, NEW ba, NEW o
  PROVE  LET t == WithBa(StartSpan(f, start), ba, o) IN
           /\ t.n = f.n /\ t.under = f.under /\ t.kind = f.kind
           /\ t.start = start /\ t.finish = clock /\ t.outcome = o
BY DEF WithBa, StartSpan

LEMMA EndsPlainly ==
  ASSUME InterceptInv, Decline \/ CurlMultiAdd \/ Unwind
  PROVE  Ends
<1>1. CASE Decline
  BY <1>1 DEF Decline, Ending, Ends
<1>2. CASE Unwind
  BY <1>2 DEF Unwind, Ends
<1>3. CASE CurlMultiAdd
  <2>1. frames # <<>> /\ Top.handle \in Handle
    BY <1>3, TopBelow DEF CurlMultiAdd, Ending, FrameOK, Curl
  <2> QED
    BY <1>3, <2>1 DEF CurlMultiAdd, Ends
<1> QED
  BY <1>1, <1>2, <1>3

(* What a call of the innermost frame remembers.                           *)
LEMMA TopRemembers ==
  ASSUME InterceptInv, frames # <<>>, Top.kind \notin UserFunction,
         NEW o \in Outcomes(Top)
  PROVE  o.remembered =
           IF Top.kind = "redis" /\ o.ret = "failed" THEN Top.n ELSE redis_error
<1>1. Top.kind \in DOMAIN Interceptor /\ Top.n \in Nat /\ Shape
  BY TopBelow, InterceptAssumption DEF Frame, InterceptInv
<1> QED
  BY <1>1, OutcomesAre DEF Shape

LEMMA EndsRecorded ==
  ASSUME InterceptInv, RecordInternal \/ CurlExec
  PROVE  Ends
<1>1. /\ frames # <<>> /\ Top.span = None
      /\ Top.kind \notin UserFunction /\ Top.kind # "curl_multi_remove"
      /\ frames' = Below /\ UNCHANGED <<running, clock, begun, calls, cache, steady>>
  BY DEF RecordInternal, CurlExec, Ending, Internal, Curl, UserFunction
<1>2. PICK o \in Outcomes(Top) : \E ba :
        /\ spans' = spans \cup {WithBa(StartSpan(Top, EntryTime(Top)), ba, o)}
        /\ redis_error' \in {redis_error, o.remembered}
        /\ redis_error' # redis_error => Top.kind # "curl_exec"
  BY DEF RecordInternal, CurlExec, Ending, Internal, Curl
<1>3. PICK ba :
        spans' = spans \cup {WithBa(StartSpan(Top, EntryTime(Top)), ba, o)}
  BY <1>2
<1>4. PICK t : t = WithBa(StartSpan(Top, EntryTime(Top)), ba, o)
  OBVIOUS
<1>5. /\ t.n = Top.n /\ t.under = Top.under /\ t.kind = Top.kind
      /\ t.start = Top.entry /\ t.finish = clock /\ t.outcome = o
  BY <1>4, WithBaIs DEF EntryTime
<1>6. o.remembered =
        IF Top.kind = "redis" /\ o.ret = "failed" THEN Top.n ELSE redis_error
  BY <1>1, TopRemembers
<1>7. spans' = spans \cup {t} /\ SpanOfTop(t)
  BY <1>1, <1>3, <1>4, <1>5, <1>6 DEF SpanOfTop
<1>8. redis_error' = redis_error \/ FailedWith(redis_error)'
  BY <1>2, <1>5, <1>6, <1>7 DEF FailedWith
<1> QED
  BY <1>1, <1>7, <1>8 DEF Ends

LEMMA EndsMultiRemove ==
  ASSUME InterceptInv, CurlMultiRemove
  PROVE  Ends
<1>1. /\ frames # <<>> /\ Top.span = None
      /\ Top.kind = "curl_multi_remove" /\ Top.kind \notin UserFunction
      /\ frames' = Below
      /\ UNCHANGED <<running, clock, begun, calls, cache, redis_error, steady>>
  BY DEF CurlMultiRemove, Ending, UserFunction
<1>2. CASE spans' = spans
  BY <1>1, <1>2 DEF Ends
<1>3. CASE spans' # spans
  <2>1. cache[Top.handle] # None /\ Top.handle \in Handle
    BY <1>1, <1>3, TopBelow DEF CurlMultiRemove, FrameOK, Curl
  <2>2. PICK o \in Outcomes(Top) : \E ba :
          spans' = spans \cup {WithBa(StartSpan(Top, cache[Top.handle]), ba, o)}
    BY <1>3 DEF CurlMultiRemove
  <2>3. PICK ba : spans' = spans \cup {WithBa(StartSpan(Top, cache[Top.handle]), ba, o)}
    BY <2>2
  <2>4. PICK t : t = WithBa(StartSpan(Top, cache[Top.handle]), ba, o)
    OBVIOUS
  <2>5. /\ t.n = Top.n /\ t.under = Top.under /\ t.kind = Top.kind
        /\ t.start = cache[Top.handle] /\ t.finish = clock
    BY <2>4, WithBaIs
  <2>6. spans' = spans \cup {t} /\ SpanOfTop(t)
    BY <1>1, <2>1, <2>3, <2>4, <2>5 DEF SpanOfTop
  <2> QED
    BY <1>1, <2>6 DEF Ends
<1> QED
  BY <1>2, <1>3

LEMMA EndsDescribed ==
  ASSUME InterceptInv, Numbered, EndRecord
  PROVE  Ends
<1>1. /\ frames # <<>> /\ frames \in Seq(Frame) /\ FrameOK(Top) /\ Top.span # None
      /\ frames' = Below
      /\ UNCHANGED <<running, clock, begun, calls, cache, redis_error, steady>>
  BY TopBelow DEF EndRecord, InterceptInv, Shape
<1>2. /\ Top.span.kind = Top.kind /\ Top.span.n = Top.n /\ Top.span.under = Top.under
      /\ Top.kind # "redis"
  <2>1. Len(frames) \in 1 .. Len(frames)
    BY <1>1
  <2>2. FrameNumbered(Len(frames))
    BY <2>1 DEF Numbered
  <2> QED
    BY <1>1, <2>2 DEF FrameOK, FrameNumbered, Top, UserFunction
<1>3. PICK o, ba, s, t :
        /\ s = Top.span /\ s \in StartedSpan
        /\ t = WithBa(s, ba, o) /\ spans' = spans \cup {t}
  <2>1. Top.span \in StartedSpan
    BY <1>1, TopBelow DEF Frame
  <2> QED
    BY <2>1 DEF EndRecord
<1>4. /\ t.n = s.n /\ t.under = s.under /\ t.kind = s.kind /\ t.start = s.start
      /\ t.finish = s.finish
  BY <1>3 DEF WithBa, StartedSpan
<1>5. SpanOfTop(t)
  BY <1>1, <1>2, <1>3, <1>4 DEF SpanOfTop
<1> QED
  BY <1>1, <1>3, <1>5 DEF Ends

LEMMA CallEnds ==
  ASSUME InterceptInv, Numbered,
         \/ RecordInternal \/ CurlExec \/ CurlMultiRemove \/ EndRecord
         \/ Decline \/ CurlMultiAdd \/ Unwind
  PROVE  Ends
BY EndsPlainly, EndsRecorded, EndsMultiRemove, EndsDescribed

LEMMA Popped ==
  ASSUME InterceptInv, Ends
  PROVE  /\ frames \in Seq(Frame) /\ Len(frames) \in Nat \ {0}
         /\ Top = frames[Len(frames)] /\ Top \in Frame
         /\ Len(frames') = Len(frames) - 1
         /\ \A i \in 1 .. Len(frames') :
              frames'[i] = frames[i] /\ i \in 1 .. Len(frames) /\ i # Len(frames)
<1>1. frames \in Seq(Frame) /\ frames # <<>> /\ Top \in Frame /\ frames' = Below
  BY TopBelow DEF Ends, InterceptInv, Shape
<1>2. Len(frames) \in Nat \ {0}
  BY <1>1
<1> QED
  BY <1>1, <1>2, Butlast DEF Below, Top

LEMMA FrameFields ==
  ASSUME NEW f \in Frame
  PROVE  /\ f.n \in Nat \ {0} /\ f.under \in Nat /\ f.entry \in Nat
         /\ f.kind \in Kind /\ f.kind \in DOMAIN Interceptor /\ f.kind # "server"
         /\ f.span # None =>
              /\ f.span.n \in Nat /\ f.span.under \in Nat
              /\ f.span.start \in Nat /\ f.span.finish \in Nat
<1>1. f.kind \in Kind /\ Kind \subseteq DOMAIN Interceptor
  BY InterceptAssumption DEF Frame
<1>2. "server" \notin DOMAIN Interceptor
  BY DEF Interceptor
<1>3. f.n \in Nat \ {0} /\ f.under \in Nat /\ f.entry \in Nat
  BY DEF Frame
<1>4. f.span # None => f.span \in StartedSpan
  BY DEF Frame
<1>5. \A s \in StartedSpan :
        s.n \in Nat /\ s.under \in Nat /\ s.start \in Nat /\ s.finish \in Nat
  BY DEF StartedSpan
<1> QED
  BY <1>1, <1>2, <1>3, <1>4, <1>5

LEMMA FramesAre ==
  ASSUME InterceptInv
  PROVE  \A i \in 1 .. Len(frames) : frames[i] \in Frame /\ frames[i].n \in Nat \ {0}
<1>1. \A i \in 1 .. Len(frames) : frames[i] \in Frame
  BY ElementOfSeq DEF InterceptInv, Shape
<1> QED
  BY <1>1, FrameFields

(* A call was made after the ones that are under way.                      *)
LEMMA UnderBelow ==
  ASSUME InterceptInv, Numbered, NEW i \in 1 .. Len(frames)
  PROVE  /\ frames[i] \in Frame /\ FrameNumbered(i)
         /\ frames[i].under < frames[i].n /\ frames[i].n <= calls
<1>1. frames \in Seq(Frame) /\ FrameNumbered(i)
  BY DEF InterceptInv, Shape, Numbered
<1>2. \A j \in 1 .. Len(frames) : frames[j] \in Frame /\ frames[j].n \in Nat \ {0}
  BY FramesAre
<1>3. i # 1 => i - 1 \in 1 .. i - 1 /\ i - 1 \in 1 .. Len(frames)
  BY <1>1
<1> QED
  BY <1>1, <1>2, <1>3 DEF FrameNumbered

LEMMA NumberedEnds == ASSUME InterceptInv, Numbered, Ends PROVE Numbered'
<1>1. /\ frames \in Seq(Frame) /\ Len(frames) \in Nat \ {0} /\ calls \in Nat
      /\ Top = frames[Len(frames)] /\ Top \in Frame
      /\ Len(frames') = Len(frames) - 1
      /\ \A i \in 1 .. Len(frames') :
           frames'[i] = frames[i] /\ i \in 1 .. Len(frames) /\ i # Len(frames)
  BY Popped DEF InterceptInv, Shape
<1>2. /\ UNCHANGED <<running, calls>>
      /\ \A s \in spans' : s \in spans \/ SpanOfTop(s)
  BY DEF Ends
<1>3. \A i \in 1 .. Len(frames) : frames[i] \in Frame /\ frames[i].n \in Nat \ {0}
  BY FramesAre
<1>4. Len(frames) \in 1 .. Len(frames)
  BY <1>1
<1>5. FrameNumbered(Len(frames)) /\ Top.under < Top.n /\ Top.n <= calls
  BY <1>1, <1>4, UnderBelow
<1>6. ASSUME NEW i \in 1 .. Len(frames') PROVE FrameNumbered(i)'
  <2>1. /\ FrameNumbered(i) /\ frames'[i] = frames[i] /\ i # Len(frames)
        /\ i \in 1 .. Len(frames)
    BY <1>1 DEF Numbered
  <2>2. i # 1 => i - 1 \in 1 .. Len(frames')
    BY <1>1
  <2>3. \A j \in 1 .. i - 1 : frames'[j] = frames[j]
    <3>1. \A j \in 1 .. i - 1 : j \in 1 .. Len(frames')
      BY <1>1
    <3> QED
      BY <1>1, <3>1
  <2>4. i \in 1 .. Len(frames) - 1 /\ frames[i].n < Top.n
    <3>1. i \in 1 .. Len(frames) - 1
      BY <1>1
    <3> QED
      BY <1>1, <1>5, <3>1 DEF FrameNumbered
  <2>5. \A s \in spans' : s.n # frames[i].n
    <3>1. \A s \in spans : s.n # frames[i].n
      BY <2>1 DEF FrameNumbered
    <3>2. \A s : SpanOfTop(s) => s.n # frames[i].n
      BY <1>1, <1>3, <2>1, <2>4 DEF SpanOfTop
    <3> QED
      BY <1>2, <3>1, <3>2
  <2>7. /\ frames[i].n <= calls
        /\ frames[i].under = IF i = 1 THEN 0 ELSE frames[i - 1].n
        /\ frames[i].span # None =>
             frames[i].span.n = frames[i].n /\ frames[i].span.under = frames[i].under
        /\ \A j \in 1 .. i - 1 : frames[j].n < frames[i].n
    BY <2>1 DEF FrameNumbered
  <2>8. i # 1 => frames'[i - 1] = frames[i - 1]
    BY <1>1, <2>2
  <2> QED
    BY <1>2, <2>1, <2>3, <2>5, <2>7, <2>8 DEF FrameNumbered
<1>7. ASSUME NEW s \in spans' PROVE SpanNumbered(s)'
  <2>1. CASE s \in spans
    BY <1>2, <2>1 DEF Numbered, SpanNumbered
  <2>2. CASE SpanOfTop(s)
    <3>1. s.kind # "server"
      BY <1>1, <2>2, FrameFields DEF SpanOfTop
    <3>2. s.under < s.n /\ s.n <= calls
      BY <1>5, <2>2 DEF SpanOfTop
    <3> QED
      BY <1>2, <3>1, <3>2 DEF SpanNumbered
  <2> QED
    BY <1>2, <2>1, <2>2
<1>8. running' \/ frames' = <<>>
  BY <1>1, <1>2 DEF Numbered
<1> QED
  BY <1>6, <1>7, <1>8 DEF Numbered

(***************************************************************************)
(* The other steps: nothing of a call changes; the process is gone; the    *)
(* innermost call starts its span.                                         *)
(***************************************************************************)
Quiet ==
  /\ UNCHANGED <<running, begun, cache, frames, spans, calls>>
  /\ clock' \in Nat /\ (steady' => steady /\ clock <= clock')
  /\ redis_error' \in {redis_error, 0, None}

LEMMA Quietly ==
  ASSUME InterceptInv,
         \/ UNCHANGED vars \/ Tick \/ Catch \/ Bail \/ RedisUnseen
         \/ \E class \in Thrown : Throw(class)
         \/ \E handle \in Handle : CurlClose(handle)
  PROVE  Quiet
<1>1. clock \in Nat /\ clock <= clock
  BY DEF InterceptInv, Shape
<1>2. CASE Tick
  <2>1. PICK now \in 0 .. MaxClock : clock' = now /\ steady' = (steady /\ clock <= now)
    BY <1>2 DEF Tick
  <2>2. now \in Nat
    BY InterceptAssumption
  <2>3. steady' => steady /\ clock <= now
    BY <2>1, Zenon
  <2> QED
    BY <1>2, <2>1, <2>2, <2>3 DEF Tick, Quiet
<1>3. CASE UNCHANGED vars \/ Catch \/ Bail \/ RedisUnseen
  BY <1>1, <1>3 DEF vars, Catch, Bail, RedisUnseen, Quiet
<1>4. CASE \/ \E class \in Thrown : Throw(class)
           \/ \E handle \in Handle : CurlClose(handle)
  BY <1>1, <1>4 DEF Throw, CurlClose, Quiet
<1> QED
  BY <1>2, <1>3, <1>4

Touches(f) ==
  /\ frames # <<>> /\ frames' = [frames EXCEPT ![Len(frames)] = f]
  /\ f.n = Top.n /\ f.under = Top.under /\ f.kind = Top.kind /\ f.entry = Top.entry
  /\ Top.span = None
  /\ f.span # None =>
       /\ f.span.n = Top.n /\ f.span.under = Top.under
       /\ f.span.start = Top.entry /\ f.span.finish = clock
  /\ UNCHANGED <<running, clock, begun, cache, redis_error, spans, calls, steady>>

LEMMA Touching ==
  ASSUME InterceptInv, StartRecord
  PROVE  \E f : Touches(f)
<1>1. frames # <<>> /\ Top \in Frame /\ Top.span = None
  BY TopBelow DEF StartRecord, Ending
<1>2. PICK sp : sp = StartSpan(Top, EntryTime(Top))
  OBVIOUS
<1>3. PICK ret : ret = IF bailing \/ exception # None THEN "failed" ELSE "ok"
  OBVIOUS
<1>4. PICK f : f = [Top EXCEPT !.span = sp, !.ret = ret, !.bailed = bailing]
  OBVIOUS
<1>5. /\ f.n = Top.n /\ f.under = Top.under /\ f.kind = Top.kind
      /\ f.entry = Top.entry /\ f.span = sp
  BY <1>1, <1>4 DEF Frame
<1>6. /\ sp.n = Top.n /\ sp.under = Top.under /\ sp.start = Top.entry
      /\ sp.finish = clock
  BY <1>2 DEF StartSpan, EntryTime
<1>7. frames' = [frames EXCEPT ![Len(frames)] = f]
  BY <1>2, <1>3, <1>4 DEF StartRecord
<1> QED
  BY <1>1, <1>5, <1>6, <1>7 DEF StartRecord, Touches

LEMMA TouchedFrames ==
  ASSUME InterceptInv, NEW f, Touches(f)
  PROVE  /\ Len(frames) \in Nat \ {0} /\ Len(frames) \in 1 .. Len(frames)
         /\ Top = frames[Len(frames)] /\ Top \in Frame
         /\ Len(frames') = Len(frames)
         /\ \A i \in 1 .. Len(frames) :
              frames'[i] = IF i = Len(frames) THEN f ELSE frames[i]
<1>1. frames \in Seq(Frame) /\ frames # <<>> /\ Top \in Frame
  BY TopBelow DEF Touches, InterceptInv, Shape
<1>2. Len(frames) \in Nat \ {0}
  BY <1>1
<1> QED
  BY <1>1, <1>2 DEF Top, Touches

LEMMA NumberedTouches ==
  ASSUME InterceptInv, Numbered, NEW f, Touches(f)
  PROVE  Numbered'
<1>1. /\ Len(frames) \in Nat \ {0} /\ Len(frames) \in 1 .. Len(frames)
      /\ Top = frames[Len(frames)]
      /\ Len(frames') = Len(frames)
      /\ \A i \in 1 .. Len(frames) :
           frames'[i] = IF i = Len(frames) THEN f ELSE frames[i]
  BY TouchedFrames
<1>2. /\ f.n = Top.n /\ f.under = Top.under /\ f.kind = Top.kind
      /\ f.span # None => f.span.n = Top.n /\ f.span.under = Top.under
      /\ UNCHANGED <<running, spans, calls>>
  BY DEF Touches
<1>3. \A i \in 1 .. Len(frames) :
        /\ frames'[i].n = frames[i].n /\ frames'[i].under = frames[i].under
        /\ frames'[i].kind = frames[i].kind
        /\ frames'[i].span # None /\ frames'[i].span # frames[i].span =>
             frames'[i].span.n = frames[i].n /\ frames'[i].span.under = frames[i].under
  BY <1>1, <1>2
<1>4. ASSUME NEW i \in 1 .. Len(frames) PROVE FrameNumbered(i)'
  <2>1. FrameNumbered(i)
    BY DEF Numbered
  <2>2. /\ i # 1 => i - 1 \in 1 .. Len(frames)
        /\ \A j \in 1 .. i - 1 : j \in 1 .. Len(frames)
    BY <1>1
  <2>4. \A j \in 1 .. i - 1 : frames'[j].n = frames[j].n
    BY <1>3, <2>2
  <2>5. i # 1 => frames'[i - 1].n = frames[i - 1].n
    BY <1>3, <2>2
  <2>6. frames'[i].span # None =>
          frames'[i].span.n = frames[i].n /\ frames'[i].span.under = frames[i].under
    BY <1>3, <2>1 DEF FrameNumbered
  <2> QED
    BY <1>1, <1>2, <1>3, <2>1, <2>4, <2>5, <2>6 DEF FrameNumbered
<1>5. \A s \in spans' : SpanNumbered(s)'
  BY <1>2 DEF Numbered, SpanNumbered
<1>6. running' \/ frames' = <<>>
  BY <1>2 DEF Numbered, Touches
<1> QED
  BY <1>1, <1>4, <1>5, <1>6 DEF Numbered

(* A call is made.                                                         *)
Calls(f) ==
  /\ running /\ calls' = calls + 1 /\ frames' = Append(frames, f)
  /\ f.n = calls + 1 /\ f.under = Parent /\ f.entry = clock /\ f.span = None
  /\ UNCHANGED <<running, clock, begun, cache, redis_error, spans, steady>>

LEMMA Calling ==
  ASSUME NEW kind, NEW handle, NEW args, Call(kind, handle, args)
  PROVE  Calls(NewFrame(kind, handle, args))
BY DEF Call, CanRun, NewFrame, Calls

LEMMA CalledFrames ==
  ASSUME InterceptInv, NEW f, Calls(f)
  PROVE  /\ Len(frames) \in Nat /\ Len(frames') = Len(frames) + 1
         /\ frames'[Len(frames) + 1] = f
         /\ \A i \in 1 .. Len(frames) : frames'[i] = frames[i]
         /\ f.under = IF Len(frames) = 0 THEN 0 ELSE frames[Len(frames)].n
<1>1. frames \in Seq(Frame) /\ frames' = Append(frames, f)
  BY DEF InterceptInv, Shape, Calls
<1>2. Len(frames) \in Nat /\ (frames = <<>> <=> Len(frames) = 0)
  BY <1>1
<1>3. /\ Len(frames') = Len(frames) + 1
      /\ \A i \in 1 .. Len(frames) : frames'[i] = frames[i]
      /\ frames'[Len(frames) + 1] = f
  BY <1>1, AppendProperties
<1> QED
  BY <1>2, <1>3 DEF Calls, Parent, Top

LEMMA NumberedCalls ==
  ASSUME InterceptInv, Numbered, NEW f, Calls(f)
  PROVE  Numbered'
<1>1. /\ Len(frames) \in Nat /\ Len(frames') = Len(frames) + 1
      /\ frames'[Len(frames) + 1] = f
      /\ \A i \in 1 .. Len(frames) : frames'[i] = frames[i]
      /\ f.under = IF Len(frames) = 0 THEN 0 ELSE frames[Len(frames)].n
  BY CalledFrames
<1>2. /\ calls \in Nat /\ calls' = calls + 1 /\ f.n = calls + 1 /\ f.span = None
      /\ UNCHANGED <<running, spans>> /\ running
  BY DEF Calls, InterceptInv, Shape
<1>3. \A i \in 1 .. Len(frames) :
        FrameNumbered(i) /\ frames[i].n \in Nat \ {0} /\ frames[i].n <= calls
  BY FramesAre DEF Numbered, FrameNumbered
<1>4. \A s \in spans : s.n \in Nat /\ s.n <= calls
  BY DEF InterceptInv, SpanOK, IsSpan, Numbered, SpanNumbered
<1>5. ASSUME NEW i \in 1 .. Len(frames) PROVE FrameNumbered(i)'
  <2>1. /\ i # 1 => frames'[i - 1] = frames[i - 1]
        /\ \A j \in 1 .. i - 1 : frames'[j] = frames[j]
    <3>1. /\ i # 1 => i - 1 \in 1 .. Len(frames)
          /\ \A j \in 1 .. i - 1 : j \in 1 .. Len(frames)
      BY <1>1
    <3> QED
      BY <1>1, <3>1
  <2>2. FrameNumbered(i) /\ frames'[i] = frames[i]
    BY <1>1, <1>3
  <2>3. frames[i].n <= calls'
    BY <1>2, <1>3
  <2> QED
    BY <1>2, <2>1, <2>2, <2>3 DEF FrameNumbered
<1>6. PICK n \in Nat : n = Len(frames) + 1
  BY <1>1
<1>10. FrameNumbered(n)'
  <2>1. \A j \in 1 .. n - 1 : frames'[j].n < f.n
    <3>1. ASSUME NEW j \in 1 .. n - 1 PROVE frames'[j].n < f.n
      <4>1. j \in 1 .. Len(frames)
        BY <1>1, <1>6
      <4>2. frames'[j] = frames[j]
        BY <1>1, <4>1
      <4> QED
        BY <1>2, <1>3, <4>1, <4>2
    <3> QED
      BY <3>1
  <2>2. \A s \in spans : s.n < f.n /\ s.n # f.n
    BY <1>2, <1>4
  <2>3. f.under = IF n = 1 THEN 0 ELSE frames'[n - 1].n
    <3>1. CASE Len(frames) = 0
      BY <1>1, <1>6, <3>1
    <3>2. CASE Len(frames) # 0
      <4>1. Len(frames) \in 1 .. Len(frames) /\ n - 1 = Len(frames) /\ n # 1
        BY <1>1, <1>6, <3>2
      <4> QED
        BY <1>1, <3>2, <4>1
    <3> QED
      BY <3>1, <3>2
  <2>4. f.n <= calls'
    BY <1>2
  <2>5. frames'[n] = f /\ n = Len(frames')
    BY <1>1, <1>6
  <2> QED
    BY <1>2, <2>1, <2>2, <2>3, <2>4, <2>5 DEF FrameNumbered
<1>7. \A s \in spans' : SpanNumbered(s)'
  BY <1>2, <1>4 DEF Numbered, SpanNumbered
<1>8. \A i \in 1 .. Len(frames') : i \in 1 .. Len(frames) \/ i = n
  BY <1>1, <1>6
<1>9. \A i \in 1 .. Len(frames') : FrameNumbered(i)'
  BY <1>5, <1>8, <1>10
<1> QED
  BY <1>2, <1>7, <1>9 DEF Numbered

LEMMA NumberedNext == InterceptInv /\ Numbered /\ [Next]_vars => Numbered'
<1> SUFFICES ASSUME InterceptInv, Numbered, [Next]_vars PROVE Numbered'
  OBVIOUS
<1>1. CASE Quiet
  BY <1>1 DEF Quiet, Numbered, FrameNumbered, SpanNumbered
<1>2. CASE Rinit
  <2>1. frames' = <<>> /\ spans' = {} /\ running'
    BY <1>2 DEF Rinit, Numbered
  <2> QED
    BY <2>1, Empty DEF Numbered
<1>3. CASE Die
  BY <1>3, Empty DEF Die, Numbered
<1>4. CASE Rshutdown
  <2>0. PICK t : t = Server
    OBVIOUS
  <2>1. /\ frames' = <<>> /\ ~running' /\ spans' = spans \cup {t} /\ calls' = calls
        /\ calls \in Nat
    BY <1>4, <2>0 DEF Rshutdown, InterceptInv, Shape
  <2>2. SpanNumbered(t)'
    BY <2>0, <2>1 DEF SpanNumbered, Server
  <2>3. \A s \in spans : SpanNumbered(s)'
    BY <2>1 DEF Numbered, SpanNumbered
  <2> QED
    BY <2>1, <2>2, <2>3, Empty DEF Numbered
<1>5. ASSUME NEW kind \in Kind, NEW handle \in Handle \cup {None},
             NEW args \in BOOLEAN, Call(kind, handle, args)
      PROVE  Numbered'
  BY <1>5, Calling, NumberedCalls
<1>6. CASE StartRecord
  BY <1>6, Touching, NumberedTouches
<1>7. CASE Ends
  BY <1>7, NumberedEnds
<1> QED
  BY <1>1, <1>2, <1>3, <1>4, <1>5, <1>6, <1>7, Quietly, CallEnds
     DEF Next, RecordDies, CurlDies

-----------------------------------------------------------------------------
LEMMA ErrorKeptEnds ==
  ASSUME InterceptInv, ErrorKept, Ends
  PROVE  ErrorKept'
<1>1. /\ spans \subseteq spans' /\ \A t \in spans' \ spans : SpanOfTop(t)
      /\ redis_error' = redis_error \/ FailedWith(redis_error)'
  BY DEF Ends
<1>2. \A n : FailedWith(n) => FailedWith(n)'
  BY <1>1 DEF FailedWith
<1>3. ASSUME NEW s \in spans', s.kind = "redis", s.outcome.remembered \in Nat \ {0}
      PROVE  \E t \in spans' :
               /\ t.kind = "redis" /\ t.n = s.outcome.remembered
               /\ t.outcome.ret = "failed"
  <2>1. CASE s \in spans
    BY <1>1, <1>3, <2>1 DEF ErrorKept, FailedWith
  <2>2. CASE SpanOfTop(s)
    <3>1. CASE s.outcome.remembered = redis_error
      BY <1>1, <1>3, <3>1 DEF ErrorKept, FailedWith
    <3>2. CASE s.outcome.remembered = s.n /\ s.outcome.ret = "failed"
      BY <1>3, <3>2
    <3> QED
      BY <1>3, <2>2, <3>1, <3>2 DEF SpanOfTop
  <2> QED
    BY <1>1, <2>1, <2>2
<1>4. redis_error' \in Nat \ {0} => FailedWith(redis_error)'
  <2>1. CASE redis_error' = redis_error
    BY <1>1, <2>1 DEF ErrorKept, FailedWith
  <2>2. CASE FailedWith(redis_error)'
    BY <2>2
  <2> QED
    BY <1>1, <2>1, <2>2
<1> QED
  BY <1>3, <1>4 DEF ErrorKept, FailedWith

LEMMA ErrorKeptNext ==
  InterceptInv /\ Numbered /\ ErrorKept /\ [Next]_vars => ErrorKept'
<1> SUFFICES ASSUME InterceptInv, Numbered, ErrorKept, [Next]_vars
             PROVE  ErrorKept'
  OBVIOUS
<1>1. CASE spans' = spans /\ redis_error' \in {redis_error, 0, None}
  BY <1>1, InterceptAssumption DEF ErrorKept, FailedWith
<1>2. CASE Rinit \/ Die
  BY <1>2, InterceptAssumption DEF Rinit, Die, ErrorKept
<1>3. CASE Rshutdown
  <2>1. PICK t : t = Server /\ spans' = spans \cup {t}
    BY <1>3 DEF Rshutdown
  <2>2. t.kind # "redis" /\ redis_error' = redis_error
    BY <1>3, <2>1 DEF Rshutdown, Server
  <2> QED
    BY <2>1, <2>2 DEF ErrorKept, FailedWith
<1>4. CASE Ends
  BY <1>4, ErrorKeptEnds
<1>5. ASSUME NEW kind \in Kind, NEW handle \in Handle \cup {None},
             NEW args \in BOOLEAN, Call(kind, handle, args)
      PROVE  ErrorKept'
  BY <1>1, <1>5 DEF Call
<1>6. CASE StartRecord
  BY <1>1, <1>6 DEF StartRecord
<1> QED
  BY <1>1, <1>2, <1>3, <1>4, <1>5, <1>6, Quietly, CallEnds
     DEF Next, RecordDies, CurlDies, Quiet

(* ErrorExplained: no span says "error" of a call that did not fail, but   *)
(* for a message that Memcached or PDO has all the same, and for the error *)
(* that a Redis object remembers: that is of a call of the same request    *)
(* which has its span, or of one that is not intercepted (redis_record,    *)
(* memcached_common_call, pdo_record).                                     *)
THEOREM EveryErrorExplained == Spec => []ErrorExplained
<1>1. InterceptInv /\ ErrorKept => ErrorExplained
  <2> SUFFICES ASSUME InterceptInv, ErrorKept, NEW s \in spans, "error" \in Zipkin(s)
               PROVE  \/ s.outcome.ret = "failed" \/ s.outcome.thrown # None
                      \/ s.kind \in Pdo \cup {"memcached"} /\ s.outcome.ret = "miss"
                      \/ s.kind = "redis" /\ s.outcome.remembered = 0
                      \/ s.kind = "redis" /\ FailedWith(s.outcome.remembered)
    BY DEF ErrorExplained, FailedWith
  <2>1. PICK ba \in s.ba : ba.key = "error"
    BY DEF Zipkin, ZnAdd
  <2>2. SpanOK(s) /\ s.kind \in DOMAIN Interceptor \cup {"server"}
    BY DEF InterceptInv, SpanOK, IsSpan
  <2>3. s.kind # "server" /\ s.kind \in DOMAIN Interceptor /\ OutcomeOf(s.kind, s.outcome)
    BY <2>1, <2>2 DEF SpanOK
  <2>4. CASE s.kind \in Curl
    <3>1. ba \in BuildCurlBannotation(s.outcome)
      BY <2>1, <2>2, <2>3, <2>4 DEF SpanOK
    <3> QED
      BY <2>1, <3>1 DEF BuildCurlBannotation, Normal, BA
  <2>5. CASE s.kind \notin Curl
    <3>1. ba \in Record(s.kind, s.args, s.outcome)
      BY <2>1, <2>2, <2>3, <2>5 DEF SpanOK
    <3>2. \/ s.outcome.ret = "failed" \/ s.outcome.thrown # None
          \/ s.kind \in Pdo \cup {"memcached"} /\ s.outcome.ret = "miss"
          \/ s.kind = "redis" /\ s.outcome.remembered # None
      BY <2>1, <2>3, <2>5, <3>1, RecordExplains
    <3> QED
      BY <2>3, <3>2 DEF ErrorKept, OutcomeOf
  <2> QED
    BY <2>4, <2>5
<1>2. Init => Numbered /\ ErrorKept
  BY Empty, InterceptAssumption DEF Init, Numbered, ErrorKept
<1> QED
  BY <1>1, <1>2, InterceptInvAlways, NumberedNext, ErrorKeptNext, PTL DEF Spec

-----------------------------------------------------------------------------
(* The times of the frames and of the spans are numbers; while a request   *)
(* runs, every span was made under a call that was made before.            *)
LEMMA TimesAre ==
  ASSUME InterceptInv, Numbered
  PROVE  /\ clock \in Nat /\ begun \in Nat /\ calls \in Nat
         /\ \A i \in 1 .. Len(frames) :
              /\ frames[i].n \in Nat \ {0} /\ frames[i].entry \in Nat
              /\ frames[i].span # None =>
                   frames[i].span.start \in Nat /\ frames[i].span.finish \in Nat
         /\ \A s \in spans :
              /\ s.n \in Nat /\ s.under \in Nat /\ s.start \in Nat /\ s.finish \in Nat
              /\ running => s.kind # "server" /\ s.under < s.n /\ s.n <= calls
<1>1. clock \in Nat /\ begun \in Nat /\ calls \in Nat
  BY DEF InterceptInv, Shape
<1>2. \A i \in 1 .. Len(frames) :
        /\ frames[i].n \in Nat \ {0} /\ frames[i].entry \in Nat
        /\ frames[i].span # None =>
             frames[i].span.start \in Nat /\ frames[i].span.finish \in Nat
  BY FramesAre, FrameFields
<1>3. \A s \in spans :
        /\ s.n \in Nat /\ s.under \in Nat /\ s.start \in Nat /\ s.finish \in Nat
        /\ running => s.kind # "server" /\ s.under < s.n /\ s.n <= calls
  BY DEF InterceptInv, SpanOK, IsSpan, Numbered, SpanNumbered
<1> QED
  BY <1>1, <1>2, <1>3

LEMMA TimedQuiet ==
  ASSUME InterceptInv, Numbered, Timed, Quiet, clock <= clock'
  PROVE  Timed'
<1>1. /\ UNCHANGED <<begun, cache, frames, spans>>
      /\ clock \in Nat /\ clock' \in Nat /\ clock <= clock' /\ begun \in Nat
  BY TimesAre DEF Quiet
<1>2. ASSUME NEW i \in 1 .. Len(frames) PROVE FrameTimed(i)'
  <2>1. FrameTimed(i)
    BY DEF Timed
  <2>2. /\ frames[i].entry \in Nat
        /\ frames[i].span # None => frames[i].span.finish \in Nat
    BY TimesAre
  <2>3. \A x \in Nat : x <= clock => x <= clock'
    BY <1>1
  <2>4. /\ frames[i].entry <= clock'
        /\ frames[i].span # None => frames[i].span.finish <= clock'
    BY <2>1, <2>2, <2>3 DEF FrameTimed
  <2> QED
    BY <1>1, <2>1, <2>4 DEF FrameTimed
<1>3. ASSUME NEW s \in spans PROVE SpanTimed(s)'
  <2>1. SpanTimed(s) /\ s.finish \in Nat
    BY TimesAre DEF Timed
  <2> QED
    BY <1>1, <2>1 DEF SpanTimed, Inside
<1>4. ASSUME NEW h \in Handle, cache[h] # None
      PROVE  begun <= cache[h] /\ cache[h] <= clock'
  <2>1. cache[h] \in Nat
    BY <1>4 DEF InterceptInv, Shape, Time
  <2> QED
    BY <1>1, <1>4, <2>1 DEF Timed
<1>5. begun <= clock'
  BY <1>1 DEF Timed
<1> QED
  BY <1>1, <1>2, <1>3, <1>4, <1>5 DEF Timed

LEMMA TimedCalls ==
  ASSUME InterceptInv, Numbered, Timed, NEW f, Calls(f)
  PROVE  Timed'
<1>1. /\ Len(frames) \in Nat /\ Len(frames') = Len(frames) + 1
      /\ \A i \in 1 .. Len(frames) : frames'[i] = frames[i]
  BY CalledFrames
<1>2. PICK n \in Nat : n = Len(frames) + 1 /\ frames'[n] = f
  BY <1>1, CalledFrames
<1>3. /\ f.entry = clock /\ f.span = None /\ f.n = calls + 1 /\ running
      /\ UNCHANGED <<clock, begun, cache, spans>>
      /\ clock \in Nat /\ begun \in Nat /\ calls \in Nat
  BY TimesAre DEF Calls
<1>4. \A i \in 1 .. Len(frames) : FrameTimed(i)
  BY DEF Timed
<1>5. ASSUME NEW i \in 1 .. Len(frames) PROVE FrameTimed(i)'
  <2>1. \A j \in 1 .. i - 1 : j \in 1 .. Len(frames)
    BY <1>1
  <2>2. \A j \in 1 .. i - 1 : frames'[j] = frames[j]
    BY <1>1, <2>1
  <2> QED
    BY <1>1, <1>3, <1>4, <2>2 DEF FrameTimed
<1>6. FrameTimed(n)'
  <2>1. ASSUME NEW j \in 1 .. n - 1
        PROVE  /\ frames'[j].entry <= clock
               /\ frames'[j].span # None => frames'[j].span.finish <= clock
    <3>1. j \in 1 .. Len(frames)
      BY <1>1, <1>2
    <3>2. frames'[j] = frames[j] /\ FrameTimed(j)
      BY <1>1, <1>4, <3>1
    <3> QED
      BY <3>2 DEF FrameTimed
  <2>2. begun <= clock /\ clock <= clock
    BY <1>3 DEF Timed
  <2> QED
    BY <1>2, <1>3, <2>1, <2>2 DEF FrameTimed
<1>7. ASSUME NEW s \in spans PROVE SpanTimed(s)'
  <2>1. SpanTimed(s) /\ s.under # f.n
    <3>1. s.under \in Nat /\ s.n \in Nat /\ s.under < s.n /\ s.n <= calls
      BY <1>3, TimesAre
    <3> QED
      BY <1>3, <3>1 DEF Timed
  <2>2. \A i \in 1 .. Len(frames') : i \in 1 .. Len(frames) \/ i = n
    BY <1>1, <1>2
  <2>3. ASSUME NEW i \in 1 .. Len(frames'), s.under = frames'[i].n
        PROVE  Inside(s, frames'[i])
    BY <1>1, <1>2, <2>1, <2>2, <2>3 DEF SpanTimed
  <2> QED
    BY <1>3, <2>1, <2>3 DEF SpanTimed, Inside
<1>8. \A i \in 1 .. Len(frames') : FrameTimed(i)'
  <2>1. \A i \in 1 .. Len(frames') : i \in 1 .. Len(frames) \/ i = n
    BY <1>1, <1>2
  <2> QED
    BY <1>5, <1>6, <2>1
<1> QED
  BY <1>3, <1>7, <1>8 DEF Timed

LEMMA TimedTouches ==
  ASSUME InterceptInv, Numbered, Timed, NEW f, Touches(f)
  PROVE  Timed'
<1>1. /\ Len(frames) \in Nat \ {0} /\ Len(frames) \in 1 .. Len(frames)
      /\ Top = frames[Len(frames)]
      /\ Len(frames') = Len(frames)
      /\ \A i \in 1 .. Len(frames) :
           frames'[i] = IF i = Len(frames) THEN f ELSE frames[i]
  BY TouchedFrames
<1>2. /\ f.n = Top.n /\ f.entry = Top.entry /\ Top.span = None
      /\ f.span # None => f.span.start = f.entry /\ f.span.finish = clock
      /\ UNCHANGED <<clock, begun, cache, spans>>
      /\ clock \in Nat /\ begun \in Nat
  BY TimesAre DEF Touches
<1>3. \A i \in 1 .. Len(frames) :
        /\ FrameTimed(i)
        /\ frames'[i].n = frames[i].n /\ frames'[i].entry = frames[i].entry
        /\ i # Len(frames) => frames'[i] = frames[i]
  BY <1>1, <1>2 DEF Timed
<1>4. ASSUME NEW i \in 1 .. Len(frames) PROVE FrameTimed(i)'
  <2>1. \A j \in 1 .. i - 1 : j \in 1 .. Len(frames) /\ j # Len(frames)
    BY <1>1
  <2>2. \A j \in 1 .. i - 1 : frames'[j] = frames[j]
    BY <1>3, <2>1
  <2>3. FrameTimed(i) /\ frames'[i].entry = frames[i].entry
    BY <1>3
  <2>4. frames'[i].span # None =>
          /\ frames'[i].span.start = frames'[i].entry
          /\ frames'[i].entry <= frames'[i].span.finish /\ frames'[i].span.finish <= clock
    <3>1. CASE i = Len(frames)
      <4>1. frames'[i] = f /\ f.entry <= clock
        BY <1>1, <1>2, <2>3, <3>1 DEF FrameTimed
      <4> QED
        BY <1>2, <4>1
    <3>2. CASE i # Len(frames)
      BY <1>3, <2>3, <3>2 DEF FrameTimed
    <3> QED
      BY <3>1, <3>2
  <2> QED
    BY <1>2, <2>2, <2>3, <2>4 DEF FrameTimed
<1>5. ASSUME NEW s \in spans PROVE SpanTimed(s)'
  <2>1. SpanTimed(s)
    BY DEF Timed
  <2>2. ASSUME NEW i \in 1 .. Len(frames), s.under = frames'[i].n
        PROVE  Inside(s, frames'[i])
    <3>1. Inside(s, frames[i])
      BY <1>3, <2>1, <2>2 DEF SpanTimed
    <3>2. CASE i = Len(frames)
      BY <1>1, <1>2, <2>1, <3>1, <3>2 DEF Inside, SpanTimed
    <3>3. CASE i # Len(frames)
      BY <1>3, <3>1, <3>3
    <3> QED
      BY <3>2, <3>3
  <2> QED
    BY <1>1, <1>2, <2>1, <2>2 DEF SpanTimed, Inside
<1> QED
  BY <1>1, <1>2, <1>4, <1>5 DEF Timed

LEMMA TimedEnds ==
  ASSUME InterceptInv, Numbered, Timed, Ends
  PROVE  Timed'
<1>1. /\ Len(frames) \in Nat \ {0} /\ Top = frames[Len(frames)]
      /\ Len(frames') = Len(frames) - 1
      /\ \A i \in 1 .. Len(frames') :
           frames'[i] = frames[i] /\ i \in 1 .. Len(frames) /\ i # Len(frames)
  BY Popped
<1>2. /\ UNCHANGED <<clock, begun>> /\ clock \in Nat /\ begun \in Nat
      /\ \A s \in spans' : s \in spans \/ SpanOfTop(s)
      /\ \/ cache' = cache
         \/ Top.handle \in Handle /\ cache' = [cache EXCEPT ![Top.handle] = Top.entry]
  BY TimesAre DEF Ends
<1>3. Len(frames) \in 1 .. Len(frames)
  BY <1>1
<1>4. /\ FrameTimed(Len(frames)) /\ begun <= Top.entry /\ Top.entry <= clock
      /\ Top.entry \in Nat
      /\ Top.span # None =>
           /\ Top.span.start = Top.entry /\ Top.span.finish \in Nat
           /\ Top.entry <= Top.span.finish /\ Top.span.finish <= clock
  BY <1>1, <1>3, TimesAre DEF Timed, FrameTimed
<1>5. ASSUME NEW i \in 1 .. Len(frames') PROVE FrameTimed(i)'
  <2>1. \A j \in 1 .. i - 1 : j \in 1 .. Len(frames')
    BY <1>1
  <2>2. FrameTimed(i) /\ frames'[i] = frames[i] /\ \A j \in 1 .. i - 1 : frames'[j] = frames[j]
    BY <1>1, <2>1 DEF Timed
  <2> QED
    BY <1>2, <2>2 DEF FrameTimed
<1>6. ASSUME NEW h \in Handle, cache'[h] # None
      PROVE  begun <= cache'[h] /\ cache'[h] <= clock
  <2>1. cache \in [Handle -> Time]
    BY DEF InterceptInv, Shape
  <2>2. cache'[h] = cache[h] \/ cache'[h] = Top.entry
    BY <1>2, <2>1
  <2> QED
    BY <1>4, <1>6, <2>2 DEF Timed
<1>7. ASSUME NEW s \in spans', SpanOfTop(s) PROVE SpanTimed(s)'
  <2>1. /\ s.under = Top.under /\ s.kind = Top.kind
        /\ \/ s.start = Top.entry /\ Top.span # None /\ s.finish = Top.span.finish
           \/ s.start = Top.entry /\ s.finish = clock
           \/ /\ s.kind = "curl_multi_remove" /\ s.finish = clock
              /\ begun <= s.start /\ s.start <= clock
    <3>1. Top.handle \in Handle /\ cache[Top.handle] # None =>
            begun <= cache[Top.handle] /\ cache[Top.handle] <= clock
      BY DEF Timed
    <3> QED
      BY <1>4, <1>7, <3>1 DEF SpanOfTop
  <2>2. begun <= s.start /\ s.start <= s.finish /\ s.finish <= clock
    BY <1>2, <1>4, <2>1
  <2>3. ASSUME NEW i \in 1 .. Len(frames') PROVE Inside(s, frames'[i])
    <3>1. /\ frames'[i] = frames[i] /\ i \in 1 .. Len(frames) - 1
          /\ i \in 1 .. Len(frames)
      BY <1>1
    <3>2. /\ frames[i].entry <= Top.entry
          /\ frames[i].span # None =>
               frames[i].span.finish <= Top.entry /\ frames[i].span.finish <= clock
      <4>1. FrameTimed(i)
        BY <3>1 DEF Timed
      <4> QED
        BY <1>1, <1>4, <3>1, <4>1 DEF FrameTimed
    <3> QED
      BY <2>1, <3>1, <3>2 DEF Inside
  <2> QED
    BY <1>2, <2>2, <2>3 DEF SpanTimed, Inside
<1>8. ASSUME NEW s \in spans PROVE SpanTimed(s)'
  <2>1. SpanTimed(s)
    BY DEF Timed
  <2>2. \A i \in 1 .. Len(frames') : s.under = frames'[i].n => Inside(s, frames'[i])
    BY <1>1, <2>1 DEF SpanTimed
  <2> QED
    BY <1>2, <2>1, <2>2 DEF SpanTimed, Inside
<1>9. begun <= clock
  BY DEF Timed
<1> QED
  BY <1>2, <1>5, <1>6, <1>7, <1>8, <1>9 DEF Timed

LEMMA TimedRshutdown == ASSUME InterceptInv, Numbered, Timed, Rshutdown PROVE Timed'
<1>1. PICK t : t = Server
  OBVIOUS
<1>2. /\ frames = <<>> /\ frames' = frames /\ spans' = spans \cup {t}
      /\ UNCHANGED <<clock, begun, cache>>
  BY <1>1 DEF Rshutdown
<1>3. /\ t.start = begun /\ t.finish = clock /\ clock \in Nat /\ begun <= clock
  BY <1>1, TimesAre DEF Server, Timed
<1>4. SpanTimed(t)'
  BY <1>2, <1>3, TimesAre, Empty DEF SpanTimed
<1>5. \A s \in spans : SpanTimed(s)'
  BY <1>2, Empty DEF Timed, SpanTimed
<1> QED
  BY <1>2, <1>3, <1>4, <1>5, Empty DEF Timed

LEMMA TimedNext ==
  InterceptInv /\ Numbered /\ (steady => Timed) /\ [Next]_vars => (steady' => Timed')
<1> SUFFICES ASSUME InterceptInv, Numbered, steady => Timed, [Next]_vars, steady'
             PROVE  Timed'
  OBVIOUS
<1>1. CASE Quiet
  BY <1>1, TimedQuiet DEF Quiet
<1>2. CASE Rinit
  <2>1. /\ frames' = <<>> /\ spans' = {} /\ begun' = clock' /\ clock' \in Nat
        /\ cache' = NoTimes
    BY <1>2, TimesAre DEF Rinit, Numbered, FreshCache
  <2> QED
    BY <2>1, Empty DEF Timed, NoTimes
<1>3. CASE Die
  <2>1. /\ frames' = <<>> /\ spans' = {} /\ begun' = 0 /\ clock' \in Nat
        /\ cache' = NoTimes
    BY <1>3, TimesAre DEF Die
  <2> QED
    BY <2>1, Empty DEF Timed, NoTimes
<1>4. CASE Rshutdown
  BY <1>4, TimedRshutdown DEF Rshutdown
<1>5. ASSUME NEW kind \in Kind, NEW handle \in Handle \cup {None},
             NEW args \in BOOLEAN, Call(kind, handle, args)
      PROVE  Timed'
  <2>1. PICK f : Calls(f)
    BY <1>5, Calling
  <2> QED
    BY <2>1, TimedCalls DEF Calls
<1>6. CASE StartRecord
  <2>1. PICK f : Touches(f)
    BY <1>6, Touching
  <2> QED
    BY <2>1, TimedTouches DEF Touches
<1>7. CASE Ends
  BY <1>7, TimedEnds DEF Ends
<1> QED
  BY <1>1, <1>2, <1>3, <1>4, <1>5, <1>6, <1>7, Quietly, CallEnds
     DEF Next, RecordDies, CurlDies

(* A call ends: its span, and those made under it, which are all recorded. *)
LEMMA NestEnds ==
  ASSUME InterceptInv, Numbered, Timed, steady, TimesNest, Ends
  PROVE  TimesNest'
<1>1. /\ Len(frames) \in Nat \ {0} /\ Top = frames[Len(frames)] /\ Top \in Frame
      /\ Len(frames) \in 1 .. Len(frames)
  BY Popped
<1>2. /\ clock \in Nat /\ Timed' /\ UNCHANGED <<clock, begun>> /\ running
      /\ \A s \in spans' : s \in spans \/ SpanOfTop(s)
  BY TimedEnds, TimesAre DEF Ends, Numbered
<1>3. /\ FrameNumbered(Len(frames)) /\ Top.under < Top.n
      /\ Top.n \in Nat \ {0} /\ Top.under \in Nat
      /\ Top.kind # "server" /\ Top.kind \in DOMAIN Interceptor
  BY <1>1, UnderBelow, FrameFields
<1>4. \A s \in spans :
        /\ s.n \in Nat /\ s.under \in Nat /\ s.under < s.n /\ s.kind # "server"
        /\ s.start \in Nat /\ s.finish \in Nat
  BY <1>2, TimesAre
<1>5. \A p \in spans : p.n # Top.under
  <2>1. CASE Len(frames) = 1
    BY <1>1, <1>3, <1>4, <2>1 DEF FrameNumbered
  <2>2. CASE Len(frames) # 1
    <3>0. \A n \in Nat \ {0} : n # 1 => n - 1 \in 1 .. n
      OBVIOUS
    <3>1. Len(frames) - 1 \in 1 .. Len(frames)
      BY <1>1, <2>2, <3>0
    <3>2. FrameNumbered(Len(frames) - 1)
      BY <3>1 DEF Numbered
    <3>3. Top.under = frames[Len(frames) - 1].n
      BY <1>1, <1>3, <2>2 DEF FrameNumbered
    <3> QED
      BY <3>2, <3>3 DEF FrameNumbered
  <2> QED
    BY <2>1, <2>2
<1>7. SUFFICES ASSUME NEW s \in spans', NEW p \in spans', s.under = p.n
               PROVE  /\ s.start <= s.finish
                      /\ \/ p.kind = "server"
                         \/ "curl_multi_remove" \notin {s.kind, p.kind}
                         => p.start <= s.start
                      /\ \/ s.finish <= p.finish
                         \/ p.kind # "server" /\ s.start >= p.finish
                         \/ s.kind = "curl_multi_remove" /\ s.finish >= p.finish
  BY DEF TimesNest
<1>8. CASE s \in spans /\ p \in spans
  BY <1>7, <1>8 DEF TimesNest
<1>9. CASE SpanOfTop(s)
  <2>1. s.under = Top.under
    BY <1>9 DEF SpanOfTop
  <2>2. p \in spans \/ p.n = Top.n
    BY <1>2 DEF SpanOfTop
  <2>3. Top.under # Top.n
    BY <1>3
  <2>4. p.n # Top.under
    BY <1>5, <2>2, <2>3
  <2> QED
    BY <1>7, <2>1, <2>4
<1>10. CASE s \in spans /\ SpanOfTop(p)
  <2>1. p.n = Top.n /\ p.kind = Top.kind
    BY <1>10 DEF SpanOfTop
  <2>2. SpanTimed(s) /\ Inside(s, Top)
    BY <1>1, <1>7, <1>10, <2>1 DEF Timed, SpanTimed
  <2>4. FrameTimed(Len(frames))
    BY <1>1 DEF Timed
  <2>5. /\ p.kind # "curl_multi_remove" => p.start = Top.entry
        /\ \/ Top.span # None /\ p.finish = Top.span.finish
           \/ p.finish = clock
    BY <1>1, <1>10, <2>1, <2>4 DEF SpanOfTop, FrameTimed
  <2> QED
    BY <1>3, <2>1, <2>2, <2>5 DEF SpanTimed, Inside
<1> QED
  BY <1>2, <1>8, <1>9, <1>10

LEMMA NestRshutdown ==
  ASSUME InterceptInv, Numbered, Timed, steady, TimesNest, Rshutdown
  PROVE  TimesNest'
<1>1. PICK t : t = Server
  OBVIOUS
<1>2. /\ spans' = spans \cup {t} /\ running
      /\ t.n = 0 /\ t.under = 0 /\ t.kind = "server" /\ t.start = begun /\ t.finish = clock
  BY <1>1 DEF Rshutdown, Server
<1>3. begun <= clock
  BY DEF Timed
<1>4. \A s \in spans :
        s.n \in Nat /\ s.under \in Nat /\ s.under < s.n /\ SpanTimed(s)
  BY <1>2, TimesAre DEF Timed
<1>5. \A s \in spans : s.n # 0
  BY <1>4
<1>6. \A s \in spans' : begun <= s.start /\ s.start <= s.finish /\ s.finish <= clock
  BY <1>2, <1>3, <1>4, TimesAre DEF SpanTimed
<1> QED
  BY <1>2, <1>5, <1>6 DEF TimesNest

LEMMA NestNext ==
  InterceptInv /\ Numbered /\ (steady => Timed) /\ TimesNest /\ [Next]_vars
    => TimesNest'
<1> SUFFICES ASSUME InterceptInv, Numbered, steady => Timed, TimesNest, [Next]_vars,
                    steady'
             PROVE  TimesNest'
  BY DEF TimesNest
<1>1. CASE spans' = spans /\ steady
  BY <1>1 DEF TimesNest
<1>2. CASE Rinit \/ Die
  BY <1>2 DEF Rinit, Die, TimesNest
<1>3. CASE Rshutdown
  BY <1>3, NestRshutdown DEF Rshutdown
<1>4. CASE Ends
  BY <1>4, NestEnds DEF Ends
<1>5. ASSUME NEW kind \in Kind, NEW handle \in Handle \cup {None},
             NEW args \in BOOLEAN, Call(kind, handle, args)
      PROVE  TimesNest'
  BY <1>1, <1>5 DEF Call
<1>6. CASE StartRecord
  BY <1>1, <1>6 DEF StartRecord
<1> QED
  BY <1>1, <1>2, <1>3, <1>4, <1>5, <1>6, Quietly, CallEnds
     DEF Next, RecordDies, CurlDies, Quiet

(* TimesNest: in a request in which gettimeofday does not step back, and   *)
(* however calls nest in bodies and in records, the spans nest in time as  *)
(* the calls do, or follow the end of the call whose record made them      *)
(* (mo_execute_core reads entry_time before the call, and exit_time before *)
(* the record function runs).                                              *)
THEOREM AlwaysNested == Spec => []TimesNest
<1>1. Init => Numbered /\ Timed /\ TimesNest
  BY Empty DEF Init, Numbered, Timed, TimesNest, NoTimes
<1> QED
  BY <1>1, InterceptInvAlways, NumberedNext, TimedNext, NestNext, PTL DEF Spec
=============================================================================
