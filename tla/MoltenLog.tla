------------------------------ MODULE MoltenLog ------------------------------
(***************************************************************************)
(* The file sink (molten_log.c) and the error report that shares it        *)
(* (molten_report.c), for the workers of one server.  At the end of a      *)
(* request a worker writes its spans, and now and then its error list, to  *)
(* the file of the day; each call of mo_log_write first checks that the    *)
(* descriptor it kept still belongs to that file.  Meanwhile midnight      *)
(* passes and a log rotation takes files away, and every system call of    *)
(* the sink is a step of its own.                                          *)
(*                                                                         *)
(* A file is its inode, and its content is left out; an inode that was     *)
(* deleted and that nobody has open may be used again by the file system.  *)
(***************************************************************************)
EXTENDS Integers, Sequences

CONSTANTS
  Worker,
  Inode,
  NoFile,        \* no inode: fd = -1, ino = 0, a name that does not exist
  DayLength,     \* units of time in a day
  MaxTime,       \* bound: the clock
  Interval,      \* molten.report_interval
  Limit,         \* molten.report_limit
  MaxRequests,   \* bound: requests of all workers
  MaxErrors,     \* bound: errors of all workers
  MaxRotations   \* bound: files taken away

ASSUME LogAssumption ==
  /\ NoFile \notin Inode
  /\ DayLength \in Nat \ {0} /\ MaxTime \in Nat
  /\ Interval \in Nat /\ Limit \in Nat \ {0}
  /\ MaxRequests \in Nat /\ MaxErrors \in Nat /\ MaxRotations \in Nat

VARIABLES
  now,        \* the clock
  file,       \* the inode behind the log's name of each day
  deleted,    \* inodes that lost their last name
  pc,         \* where a worker is
  batch,      \* what mo_log_write was called for
  yday,       \* log->tm_yday, and with it log->real_path
  fd, ino,    \* the inode behind log->fd; log->ino
  begin,      \* execute_begin_time
  last_rep_time, error_list,
  requests, recorded, rotations,   \* the bounded counters
  reported,   \* errors handed to mo_log_write, per worker (history)
  since,      \* the day the call of mo_log_write began (history)
  current     \* inodes the worker's name stood for since then (history)

disk == <<file, deleted>>
log == <<yday, fd, ino>>
report == <<begin, last_rep_time, error_list>>
bounds == <<requests, recorded, rotations>>
history == <<reported, since, current>>
vars == <<now, disk, pc, batch, log, report, bounds, history>>

(* Mutant of Yday: counted from one. *)
YdayFromOne(t) == t \div DayLength + 1
Yday(t) == t \div DayLength

Days == 0 .. MaxTime \div DayLength
InCall == {"path", "open", "stat", "write"}
PC == {"idle", "running", "report"} \cup InCall

(* mo_chain_log_ctor sets the path of the day, mo_rep_ctor the time. *)
Init ==
  /\ now = 0
  /\ file = [d \in Days |-> NoFile] /\ deleted = {}
  /\ pc = [w \in Worker |-> "idle"]
  /\ batch = [w \in Worker |-> "spans"]
  /\ yday = [w \in Worker |-> 0]
  /\ fd = [w \in Worker |-> NoFile] /\ ino = [w \in Worker |-> NoFile]
  /\ begin = [w \in Worker |-> 0]
  /\ last_rep_time = [w \in Worker |-> 0]
  /\ error_list = [w \in Worker |-> <<>>]
  /\ requests = 0 /\ recorded = [w \in Worker |-> 0] /\ rotations = 0
  /\ reported = [w \in Worker |-> <<>>]
  /\ since = [w \in Worker |-> 0]
  /\ current = [w \in Worker |-> {}]

Goto(w, from, to) ==
  /\ pc[w] = from
  /\ pc' = [pc EXCEPT ![w] = to]

Named(i) == \E d \in Days : file[d] = i
Opened(i) == \E w \in Worker : fd[w] = i
Unused == {i \in Inode : /\ ~Named(i) /\ ~Opened(i)
                         /\ i \in deleted \/ \A w \in Worker : ino[w] # i}

(* The names have changed: remember what the workers' names stand for. *)
Remember ==
  current' = [w \in Worker |->
                IF pc[w] \in InCall THEN current[w] \cup {file'[yday[w]]}
                                    ELSE current[w]]
-----------------------------------------------------------------------------
(***************************************************************************)
(* A request, as far as the sink sees it.                                  *)
(***************************************************************************)
Begin(w) ==
  /\ Goto(w, "idle", "running")
  /\ requests < MaxRequests /\ requests' = requests + 1
  /\ begin' = [begin EXCEPT ![w] = now]
  /\ UNCHANGED <<now, disk, batch, log, last_rep_time, error_list,
                 recorded, rotations, history>>

(* molten_error_cb: mo_rep_record_error *)
RecordError(w) ==
  /\ pc[w] = "running"
  /\ \A v \in Worker : recorded[v] < MaxErrors
  /\ recorded' = [recorded EXCEPT ![w] = @ + 1]
  /\ error_list' = [error_list EXCEPT ![w] = Append(@, recorded'[w])]
  /\ UNCHANGED <<now, disk, pc, batch, log, begin, last_rep_time,
                 requests, rotations, history>>

(* The call of mo_log_write; its mo_mkdir_recursive succeeds. *)
CallWrite(w) ==
  /\ since' = [since EXCEPT ![w] = Yday(now)]
  /\ current' = [current EXCEPT ![w] = {file[yday[w]]}]

(* mo_chain_log_flush of a sampled request whose spans could be encoded *)
Flush(w) ==
  /\ Goto(w, "running", "path")
  /\ batch' = [batch EXCEPT ![w] = "spans"]
  /\ CallWrite(w)
  /\ UNCHANGED <<now, disk, log, report, bounds, reported>>

(* The request is not sampled, json_encode fails, or the directory cannot  *)
(* be made: nothing is written.                                            *)
FlushNothing(w) ==
  /\ Goto(w, "running", "report")
  /\ UNCHANGED <<now, disk, batch, log, report, bounds, history>>

(* Mutant of LimitReached: the list may be full. *)
LimitPassed(es) == Len(es) > Limit
LimitReached(es) == Len(es) >= Limit

(* check_interval *)
Due(w) == \/ begin[w] - last_rep_time[w] > Interval
          \/ LimitReached(error_list[w])

EndRequest(w) ==
  /\ pc' = [pc EXCEPT ![w] = "idle"]
  /\ begin' = [begin EXCEPT ![w] = 0]

NoReport(w) ==
  /\ pc[w] = "report" /\ ~Due(w)
  /\ EndRequest(w)
  /\ UNCHANGED <<now, disk, batch, log, last_rep_time, error_list, bounds,
                 history>>

(* mo_rep_record_data; the list is written even when it is empty, because  *)
(* the test compares the function zend_llist_count, not what it returns.   *)
Report(w) ==
  /\ Goto(w, "report", "path")
  /\ Due(w)
  /\ batch' = [batch EXCEPT ![w] = "report"]
  /\ last_rep_time' = [last_rep_time EXCEPT ![w] = begin[w]]
  /\ reported' = [reported EXCEPT ![w] = @ \o error_list[w]]
  /\ CallWrite(w)
  /\ UNCHANGED <<now, disk, log, begin, error_list, bounds>>

(* Mutant of Cleared: the list is kept. *)
ClearedNot(es) == es
Cleared(es) == <<>>

(* The return from mo_log_write, whatever came of it. *)
Return(w) ==
  /\ batch' = [batch EXCEPT ![w] = "spans"]
  /\ since' = [since EXCEPT ![w] = 0]
  /\ current' = [current EXCEPT ![w] = {}]
  /\ IF batch[w] = "spans"
       THEN Goto(w, pc[w], "report") /\ UNCHANGED <<begin, error_list>>
       ELSE /\ EndRequest(w)
            /\ error_list' = [error_list EXCEPT ![w] = Cleared(@)]

(* The directory cannot be made: the list is dropped all the same. *)
ReportNothing(w) ==
  /\ pc[w] = "report" /\ Due(w)
  /\ EndRequest(w)
  /\ last_rep_time' = [last_rep_time EXCEPT ![w] = begin[w]]
  /\ reported' = [reported EXCEPT ![w] = @ \o error_list[w]]
  /\ error_list' = [error_list EXCEPT ![w] = Cleared(@)]
  /\ UNCHANGED <<now, disk, batch, log, bounds, since, current>>
-----------------------------------------------------------------------------
(* Mutant of Foreign: any file that exists will do. *)
ForeignNever(i, stored) == i = NoFile
Foreign(i, stored) == i = NoFile \/ i # stored

(***************************************************************************)
(* generate_log_path: access, lstat and the date.  They are one step: with *)
(* a rotation or midnight between two of them the outcome is the one of all*)
(* three before it or all three after it.                                  *)
(***************************************************************************)
GeneratePath(w) ==
  LET today == Yday(now)
      kept == IF Foreign(file[yday[w]], ino[w]) THEN NoFile ELSE fd[w]
  IN  /\ pc[w] = "path"
      /\ IF today # yday[w]
           THEN /\ yday' = [yday EXCEPT ![w] = today]
                /\ fd' = [fd EXCEPT ![w] = NoFile]
                /\ current' = [current EXCEPT ![w] = {file[today]}]
           ELSE /\ fd' = [fd EXCEPT ![w] = kept]
                /\ UNCHANGED <<yday, current>>
      /\ pc' = [pc EXCEPT ![w] = IF fd'[w] = NoFile THEN "open" ELSE "write"]
      /\ UNCHANGED <<now, disk, batch, ino, report, bounds, reported, since>>

(* open with O_CREAT | O_APPEND *)
Open(w) ==
  /\ Goto(w, "open", "stat")
  /\ \/ /\ file[yday[w]] # NoFile
        /\ fd' = [fd EXCEPT ![w] = file[yday[w]]]
        /\ UNCHANGED <<disk, current>>
     \/ /\ file[yday[w]] = NoFile
        /\ \E i \in Unused :
             /\ file' = [file EXCEPT ![yday[w]] = i]
             /\ deleted' = deleted \ {i}
             /\ fd' = [fd EXCEPT ![w] = i]
        /\ Remember
  /\ UNCHANGED <<now, batch, yday, ino, report, bounds, reported, since>>

OpenFails(w) ==
  /\ pc[w] = "open"
  /\ Return(w)
  /\ UNCHANGED <<now, disk, log, last_rep_time, bounds, reported>>

(* The second lstat, by name: not what was opened if a rotation intervened. *)
Stat(w) ==
  /\ Goto(w, "stat", "write")
  /\ ino' = [ino EXCEPT ![w] = IF file[yday[w]] = NoFile THEN @
                                                         ELSE file[yday[w]]]
  /\ UNCHANGED <<now, disk, batch, yday, fd, report, bounds, history>>

(* flush_log_to_fd: whatever is written, the loop ends. *)
Write(w) ==
  /\ pc[w] = "write"
  /\ Return(w)
  /\ UNCHANGED <<now, disk, log, last_rep_time, bounds, reported>>
-----------------------------------------------------------------------------
(* Log rotation: a file is renamed or deleted. *)
Rotate(d) ==
  /\ file[d] # NoFile
  /\ rotations < MaxRotations /\ rotations' = rotations + 1
  /\ file' = [file EXCEPT ![d] = NoFile]
  /\ deleted' \in {deleted, deleted \cup {file[d]}}
  /\ Remember
  /\ UNCHANGED <<now, pc, batch, log, report, requests, recorded, reported,
                 since>>

Tick ==
  /\ now < MaxTime /\ now' = now + 1
  /\ UNCHANGED <<disk, pc, batch, log, report, bounds, history>>

Next ==
  \/ \E w \in Worker :
       \/ Begin(w) \/ RecordError(w) \/ Flush(w) \/ FlushNothing(w)
       \/ NoReport(w) \/ Report(w) \/ ReportNothing(w)
       \/ GeneratePath(w)
       \/ Open(w) \/ OpenFails(w) \/ Stat(w) \/ Write(w)
  \/ \E d \in Days : Rotate(d)
  \/ Tick

Spec == Init /\ [][Next]_vars
-----------------------------------------------------------------------------
TypeOK ==
  /\ now \in 0 .. MaxTime
  /\ file \in [Days -> Inode \cup {NoFile}] /\ deleted \subseteq Inode
  /\ pc \in [Worker -> PC] /\ batch \in [Worker -> {"spans", "report"}]
  /\ yday \in [Worker -> Days]
  /\ fd \in [Worker -> Inode \cup {NoFile}]
  /\ ino \in [Worker -> Inode \cup {NoFile}]
  /\ begin \in [Worker -> 0 .. MaxTime]
  /\ last_rep_time \in [Worker -> 0 .. MaxTime]
  /\ error_list \in [Worker -> Seq(1 .. MaxErrors)]
  /\ requests \in 0 .. MaxRequests
  /\ recorded \in [Worker -> 0 .. MaxErrors]
  /\ rotations \in 0 .. MaxRotations
  /\ reported \in [Worker -> Seq(1 .. MaxErrors)]
  /\ since \in [Worker -> Days]
  /\ current \in [Worker -> SUBSET (Inode \cup {NoFile})]

(***************************************************************************)
(* The checks of generate_log_path work: what a worker writes goes to a    *)
(* file that bore the name of the day at some time during the call, in     *)
(* spite of rotations, midnight, reused inodes and what other workers      *)
(* create.  The one way to miss is a rotation between open and lstat, which*)
(* leaves a descriptor beside the inode of another file.                   *)
(***************************************************************************)
RightFile ==
  \A w \in Worker :
    pc[w] = "write" =>
      /\ yday[w] \in since[w] .. Yday(now)
      /\ fd[w] \in current[w] \/ fd[w] # ino[w]

(***************************************************************************)
(* Every recorded error is handed to the sink once and in order, over any  *)
(* number of requests, whatever fails.                                     *)
(***************************************************************************)
Pending(w) == IF pc[w] \in InCall /\ batch[w] = "report" THEN <<>>
                                                         ELSE error_list[w]
ErrorsOnce ==
  \A w \in Worker :
    reported[w] \o Pending(w) = [i \in 1 .. recorded[w] |-> i]

(***************************************************************************)
(* README.md:90: molten.report_limit bounds the list: no request starts    *)
(* with a list that has reached it.                                        *)
(***************************************************************************)
BelowLimit == \A w \in Worker : pc[w] = "idle" => Len(error_list[w]) < Limit
=============================================================================
