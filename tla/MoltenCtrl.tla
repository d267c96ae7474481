----------------------------- MODULE MoltenCtrl -----------------------------
(***************************************************************************)
(* The sampling and control core of Molten (molten_ctrl.c, molten_status.c *)
(* and their calls from RINIT and RSHUTDOWN in molten.c).                  *)
(*                                                                         *)
(* Under a web SAPI every worker process maps the same three slots:        *)
(*   mcm  the sampling configuration, rewritten by a POST to the status URI*)
(*   mri  the request counters, bumped by atomic adds at RSHUTDOWN         *)
(*   msr  the per-minute limiter, read and written without a lock          *)
(* so every access to a slot is a step of its own here.  A CLI process     *)
(* mallocs private copies: it is this module with a single Worker.         *)
(***************************************************************************)
EXTENDS Integers, FiniteSets

CONSTANTS
  Worker,       \* the processes that share the slots
  IsCli,        \* pct->is_cli: the upstream sampling header is not looked at
  IniType,      \* molten.sampling_type
  IniRate,      \* molten.sampling_rate
  IniRequest,   \* molten.sampling_request
  PostBody,     \* JSON objects posted to the status URI: a function from the
                \* fields present to their long values
  StartMinute,  \* mo_time_m() when mo_ctrl_ctor ran
  LimitBound,   \* no configured sampling_request is above it
  MaxMinute,    \* bound: the clock stops there
  MaxRequests,  \* bound: requests served in all
  MaxCrashes,   \* bound: workers killed in mid-request
  NoBody,       \* the request is not a POST of a JSON object to the status URI
  Unread        \* a shared field that this request has not read yet

Fields == {"enable", "samplingType", "samplingRate", "samplingRequest"}

SAMPLING_RATE == 1
SAMPLING_REQ == 2

ASSUME CtrlAssumption ==
  /\ IsFiniteSet(Worker) /\ Worker # {}
  /\ IsCli \in BOOLEAN
  /\ IniType \in Int /\ IniRate \in Int /\ IniRequest \in Int
  /\ \A b \in PostBody : /\ DOMAIN b \subseteq Fields
                         /\ \A f \in DOMAIN b : b[f] \in Int
  /\ NoBody \notin PostBody
  /\ Unread \notin Int
  /\ LimitBound \in Nat \ {0}
  /\ IniRequest <= LimitBound
  /\ \A b \in PostBody :
       "samplingRequest" \in DOMAIN b => b["samplingRequest"] <= LimitBound
  /\ StartMinute \in Nat /\ MaxMinute \in Nat
  /\ MaxRequests \in Nat /\ MaxCrashes \in Nat

VARIABLES
  mcm,          \* [enable, sampling_type, sampling_rate, sampling_request]
  mri,          \* [request_all, request_capture]
  msr,          \* [last_min, request_num]
  clock,        \* the wall clock in minutes
  pc,           \* where each worker is in its request
  post,         \* the body being applied
  min,          \* the local `min' of mo_ctrl_sampling
  num,          \* request_num as read for the threshold test
  limit,        \* sampling_request as read for the threshold test
  is_sampled,   \* pct->pch.is_sampled
  page,         \* the two counters as read for the status page
  served,       \* requests begun so far
  crashes       \* workers killed so far

slots == <<mcm, mri, msr>>
locals == <<post, min, num, limit, is_sampled, page>>

(***************************************************************************)
(* History variables: what the limiter decided, for the properties only.   *)
(***************************************************************************)
VARIABLES
  seen,         \* per minute: requests that went through the limiter
  granted,      \* per minute: those it let through
  epochGranted, \* grants since request_num was last reset
  stale,        \* values whose type was posted and which are not stored yet
  meanwhile     \* captures recorded since the worker began its status page

history == <<seen, granted, epochGranted, stale, meanwhile>>
vars == <<slots, clock, pc, locals, served, crashes, history>>

Minutes == StartMinute .. MaxMinute

(* In RINIT of a POST, in the limiter, in the threshold test. *)
PostPC == {"post_enable", "post_type", "post_branch", "post_rate",
           "post_request"}
LimiterPC == {"clock", "compare", "increment", "reset_num", "reset_min",
              "threshold"}
PC == PostPC \cup LimiterPC
        \cup {"idle", "page", "sampling", "rate", "running", "record_capture"}

BlankPage == [request_all |-> Unread, request_capture |-> Unread]

(* Mutant of Byte: the long is stored as it came. *)
ByteUncut(v) == v

(* A stored sampling_type is a uint8_t. *)
Byte(v) == v % 256

(* mo_ctrl_ctor *)
Init ==
  /\ mcm = [enable |-> 1, sampling_type |-> Byte(IniType),
            sampling_rate |-> IniRate, sampling_request |-> IniRequest]
  /\ mri = [request_all |-> 0, request_capture |-> 0]
  /\ msr = [last_min |-> StartMinute, request_num |-> 0]
  /\ clock = StartMinute
  /\ pc = [w \in Worker |-> "idle"]
  /\ post = [w \in Worker |-> NoBody]
  /\ min = [w \in Worker |-> Unread]
  /\ num = [w \in Worker |-> Unread]
  /\ limit = [w \in Worker |-> Unread]
  /\ is_sampled = [w \in Worker |-> FALSE]
  /\ page = [w \in Worker |-> BlankPage]
  /\ served = 0
  /\ crashes = 0
  /\ seen = [m \in Minutes |-> 0]
  /\ granted = [m \in Minutes |-> 0]
  /\ epochGranted = 0
  /\ stale = {}
  /\ meanwhile = [w \in Worker |-> 0]

Goto(w, from, to) ==
  /\ pc[w] = from
  /\ pc' = [pc EXCEPT ![w] = to]

-----------------------------------------------------------------------------
(***************************************************************************)
(* RINIT: mo_request_handle.  A POST of a JSON object goes through         *)
(* mo_ctrl_update_sampling field by field; any other body returns -1 and   *)
(* changes nothing.  A GET of the status URI formats the page.             *)
(***************************************************************************)
BeginRequest(w) ==
  /\ pc[w] = "idle"
  /\ served < MaxRequests
  /\ served' = served + 1
  /\ \/ \E b \in PostBody : /\ post' = [post EXCEPT ![w] = b]
                           /\ pc' = [pc EXCEPT ![w] = "post_enable"]
     \/ \E next \in {"page", "sampling"} : /\ pc' = [pc EXCEPT ![w] = next]
                                           /\ UNCHANGED post
  /\ UNCHANGED <<slots, clock, min, num, limit, is_sampled, page, crashes,
                 history>>

(***************************************************************************)
(* mo_ctrl_serialize_msg passes both counters to one call of spprintf; C   *)
(* leaves the order in which they are read open, and other workers record  *)
(* their requests in between.                                              *)
(***************************************************************************)
ReadCounter(w, counter) ==
  /\ pc[w] = "page" /\ page[w][counter] = Unread
  /\ page' = [page EXCEPT ![w][counter] = mri[counter]]
  /\ UNCHANGED <<slots, clock, pc, post, min, num, limit, is_sampled, served,
                 crashes, history>>

ReadAll(w) == ReadCounter(w, "request_all")
ReadCapture(w) == ReadCounter(w, "request_capture")

Formatted(w) ==
  pc[w] = "page" /\ page[w].request_all # Unread /\ page[w].request_capture # Unread

WritePage(w) ==
  /\ Formatted(w)
  /\ Goto(w, "page", "sampling")
  /\ page' = [page EXCEPT ![w] = BlankPage]
  /\ meanwhile' = [meanwhile EXCEPT ![w] = 0]
  /\ UNCHANGED <<slots, clock, post, min, num, limit, is_sampled, served,
                 crashes, seen, granted, epochGranted, stale>>

(* enable == 0 is stored and ends the update; any other value stores 1. *)
PostEnable(w) ==
  /\ pc[w] = "post_enable"
  /\ IF "enable" \notin DOMAIN post[w]
       THEN /\ pc' = [pc EXCEPT ![w] = "post_type"]
            /\ UNCHANGED mcm
       ELSE LET on == post[w]["enable"] # 0
            IN  /\ mcm' = [mcm EXCEPT !.enable = IF on THEN 1 ELSE 0]
                /\ pc' = [pc EXCEPT ![w] = IF on THEN "post_type"
                                                 ELSE "sampling"]
  /\ UNCHANGED <<mri, msr, clock, locals, served, crashes, history>>

(* The value that a type selects, and the one a body of that type carries. *)
ValueOf(type) == IF type = SAMPLING_RATE THEN "samplingRate"
                                         ELSE "samplingRequest"

PostType(w) ==
  /\ Goto(w, "post_type", "post_branch")
  /\ IF "samplingType" \notin DOMAIN post[w]
       THEN UNCHANGED <<mcm, stale>>
       ELSE LET type == Byte(post[w]["samplingType"])
            IN  /\ mcm' = [mcm EXCEPT !.sampling_type = type]
                /\ stale' = {ValueOf(type)} \cap DOMAIN post[w]
  /\ UNCHANGED <<mri, msr, clock, locals, served, crashes,
                 seen, granted, epochGranted, meanwhile>>

(* Mutant of PostBranch: the two branches are swapped. *)
PostBranchSwapped(w) ==
  /\ Goto(w, "post_branch", IF mcm.sampling_type = SAMPLING_RATE
                              THEN "post_request" ELSE "post_rate")
  /\ UNCHANGED <<slots, clock, locals, served, crashes, history>>

(* The branch is taken on the shared sampling_type, not on the body's. *)
PostBranch(w) ==
  /\ Goto(w, "post_branch", IF mcm.sampling_type = SAMPLING_RATE
                              THEN "post_rate" ELSE "post_request")
  /\ UNCHANGED <<slots, clock, locals, served, crashes, history>>

PostRate(w) ==
  /\ Goto(w, "post_rate", "sampling")
  /\ IF "samplingRate" \notin DOMAIN post[w]
       THEN UNCHANGED <<mcm, stale>>
       ELSE /\ mcm' = [mcm EXCEPT !.sampling_rate = post[w]["samplingRate"]]
            /\ stale' = stale \ {"samplingRate"}
  /\ UNCHANGED <<mri, msr, clock, locals, served, crashes,
                 seen, granted, epochGranted, meanwhile>>

PostRequest(w) ==
  /\ Goto(w, "post_request", "sampling")
  /\ IF "samplingRequest" \notin DOMAIN post[w]
       THEN UNCHANGED <<mcm, stale>>
       ELSE /\ mcm' = [mcm EXCEPT
                         !.sampling_request = post[w]["samplingRequest"]]
            /\ stale' = stale \ {"samplingRequest"}
  /\ UNCHANGED <<mri, msr, clock, locals, served, crashes,
                 seen, granted, epochGranted, meanwhile>>
-----------------------------------------------------------------------------
(***************************************************************************)
(* RINIT: mo_ctrl_sampling.                                                *)
(***************************************************************************)

(* An upstream header decides alone; a CLI process never looks for one. *)
SampleByHeader(w) ==
  /\ ~IsCli
  /\ Goto(w, "sampling", "running")
  /\ \E hit \in BOOLEAN : is_sampled' = [is_sampled EXCEPT ![w] = hit]
  /\ UNCHANGED <<slots, clock, post, min, num, limit, page, served, crashes,
                 history>>

ChooseSampler(w) ==
  /\ Goto(w, "sampling", IF mcm.sampling_type = SAMPLING_RATE
                           THEN "rate" ELSE "clock")
  /\ UNCHANGED <<slots, clock, locals, served, crashes, history>>

(***************************************************************************)
(* check_hit_ratio: random() % rate == 0.  A rate of 1 or -1 always hits;  *)
(* a rate of 0 is undefined: the build either traps, which kills the       *)
(* worker, or yields any result.                                           *)
(***************************************************************************)
RatioOutcomes(rate) == IF rate \in {1, -1} THEN {TRUE} ELSE BOOLEAN

HitRatio(w) ==
  /\ Goto(w, "rate", "running")
  /\ \E hit \in RatioOutcomes(mcm.sampling_rate) :
       is_sampled' = [is_sampled EXCEPT ![w] = hit]
  /\ UNCHANGED <<slots, clock, post, min, num, limit, page, served, crashes,
                 history>>

(* A killed worker is replaced by a fresh fork; its request is lost. *)
Die(w) ==
  /\ pc' = [pc EXCEPT ![w] = "idle"]
  /\ post' = [post EXCEPT ![w] = NoBody]
  /\ min' = [min EXCEPT ![w] = Unread]
  /\ num' = [num EXCEPT ![w] = Unread]
  /\ limit' = [limit EXCEPT ![w] = Unread]
  /\ is_sampled' = [is_sampled EXCEPT ![w] = FALSE]
  /\ page' = [page EXCEPT ![w] = BlankPage]
  /\ meanwhile' = [meanwhile EXCEPT ![w] = 0]
  /\ UNCHANGED <<slots, clock, served, seen, granted, epochGranted, stale>>

DivideByZero(w) ==
  /\ pc[w] = "rate"
  /\ mcm.sampling_rate = 0
  /\ Die(w)
  /\ UNCHANGED crashes

ReadClock(w) ==
  /\ Goto(w, "clock", "compare")
  /\ min' = [min EXCEPT ![w] = clock]
  /\ UNCHANGED <<slots, clock, post, num, limit, is_sampled, page, served,
                 crashes, history>>

CompareMinute(w) ==
  /\ Goto(w, "compare", IF min[w] = msr.last_min
                          THEN "increment" ELSE "reset_num")
  /\ UNCHANGED <<slots, clock, locals, served, crashes, history>>

(* __sync_add_and_fetch(&msr->request_num, 1) *)
IncrementNum(w) ==
  /\ Goto(w, "increment", "threshold")
  /\ msr' = [msr EXCEPT !.request_num = @ + 1]
  /\ UNCHANGED <<mcm, mri, clock, locals, served, crashes, history>>

(* The reset is two plain stores. *)
ResetNum(w) ==
  /\ Goto(w, "reset_num", "reset_min")
  /\ msr' = [msr EXCEPT !.request_num = 0]
  /\ epochGranted' = 0
  /\ UNCHANGED <<mcm, mri, clock, locals, served, crashes,
                 seen, granted, stale, meanwhile>>

ResetMin(w) ==
  /\ Goto(w, "reset_min", "threshold")
  /\ msr' = [msr EXCEPT !.last_min = min[w]]
  /\ UNCHANGED <<mcm, mri, clock, locals, served, crashes, history>>

(* C leaves the order in which the operands of `<' are read open. *)
ReadNum(w) ==
  /\ pc[w] = "threshold" /\ num[w] = Unread
  /\ num' = [num EXCEPT ![w] = msr.request_num]
  /\ UNCHANGED <<slots, clock, pc, post, min, limit, is_sampled, page, served,
                 crashes, history>>

ReadLimit(w) ==
  /\ pc[w] = "threshold" /\ limit[w] = Unread
  /\ limit' = [limit EXCEPT ![w] = mcm.sampling_request]
  /\ UNCHANGED <<slots, clock, pc, post, min, num, is_sampled, page, served,
                 crashes, history>>

(* Mutant of UnderLimit: the limit itself is still under the limit. *)
UpToLimit(n, l) == n <= l

(* The threshold test of mo_ctrl_sampling. *)
UnderLimit(n, l) == n < l

Decide(w) ==
  /\ num[w] # Unread /\ limit[w] # Unread
  /\ Goto(w, "threshold", "running")
  /\ \/ /\ UnderLimit(num[w], limit[w])
        /\ is_sampled' = [is_sampled EXCEPT ![w] = TRUE]
        /\ granted' = [granted EXCEPT ![min[w]] = @ + 1]
        /\ epochGranted' = epochGranted + 1
     \/ /\ ~UnderLimit(num[w], limit[w])
        /\ is_sampled' = [is_sampled EXCEPT ![w] = FALSE]
        /\ UNCHANGED <<granted, epochGranted>>
  /\ seen' = [seen EXCEPT ![min[w]] = @ + 1]
  /\ min' = [min EXCEPT ![w] = Unread]
  /\ num' = [num EXCEPT ![w] = Unread]
  /\ limit' = [limit EXCEPT ![w] = Unread]
  /\ UNCHANGED <<slots, clock, post, page, served, crashes, stale, meanwhile>>
-----------------------------------------------------------------------------
(***************************************************************************)
(* RSHUTDOWN: mo_ctrl_record, two atomic adds.                             *)
(***************************************************************************)
EndRequest(w) ==
  /\ is_sampled' = [is_sampled EXCEPT ![w] = FALSE]
  /\ post' = [post EXCEPT ![w] = NoBody]

(* Mutant of RecordAll: a sampled request is only counted as captured. *)
RecordAllElse(w) ==
  /\ pc[w] = "running"
  /\ \/ /\ is_sampled[w]
        /\ pc' = [pc EXCEPT ![w] = "record_capture"]
        /\ UNCHANGED <<mri, is_sampled, post>>
     \/ /\ ~is_sampled[w]
        /\ mri' = [mri EXCEPT !.request_all = @ + 1]
        /\ pc' = [pc EXCEPT ![w] = "idle"]
        /\ EndRequest(w)
  /\ UNCHANGED <<mcm, msr, clock, min, num, limit, page, served, crashes,
                 history>>

RecordAll(w) ==
  /\ pc[w] = "running"
  /\ mri' = [mri EXCEPT !.request_all = @ + 1]
  /\ \/ /\ is_sampled[w]
        /\ pc' = [pc EXCEPT ![w] = "record_capture"]
        /\ UNCHANGED <<is_sampled, post>>
     \/ /\ ~is_sampled[w]
        /\ pc' = [pc EXCEPT ![w] = "idle"]
        /\ EndRequest(w)
  /\ UNCHANGED <<mcm, msr, clock, min, num, limit, page, served, crashes,
                 history>>

RecordCapture(w) ==
  /\ Goto(w, "record_capture", "idle")
  /\ mri' = [mri EXCEPT !.request_capture = @ + 1]
  /\ EndRequest(w)
  /\ meanwhile' = [v \in Worker |-> IF pc[v] = "page" THEN meanwhile[v] + 1
                                                     ELSE meanwhile[v]]
  /\ UNCHANGED <<mcm, msr, clock, min, num, limit, page, served, crashes,
                 seen, granted, epochGranted, stale>>

(* The process manager may kill a worker at any point of its request. *)
Crash(w) ==
  /\ pc[w] # "idle"
  /\ crashes < MaxCrashes
  /\ crashes' = crashes + 1
  /\ Die(w)

Tick ==
  /\ clock < MaxMinute
  /\ clock' = clock + 1
  /\ UNCHANGED <<slots, pc, locals, served, crashes, history>>

Page(w) == ReadAll(w) \/ ReadCapture(w) \/ WritePage(w)
Post(w) == PostEnable(w) \/ PostType(w) \/ PostBranch(w) \/ PostRate(w)
             \/ PostRequest(w)
Limiter(w) == ReadClock(w) \/ CompareMinute(w) \/ IncrementNum(w)
                \/ ResetNum(w) \/ ResetMin(w) \/ ReadNum(w) \/ ReadLimit(w)
                \/ Decide(w)
Step(w) == \/ BeginRequest(w) \/ Page(w) \/ Post(w)
           \/ SampleByHeader(w) \/ ChooseSampler(w)
           \/ HitRatio(w) \/ DivideByZero(w)
           \/ Limiter(w)
           \/ RecordAll(w) \/ RecordCapture(w)
           \/ Crash(w)

Next == Tick \/ \E w \in Worker : Step(w)

Spec == Init /\ [][Next]_vars
-----------------------------------------------------------------------------
TypeOK ==
  /\ mcm \in [enable : {0, 1}, sampling_type : 0 .. 255,
              sampling_rate : Int, sampling_request : Int]
  /\ mri \in [request_all : Nat, request_capture : Nat]
  /\ msr \in [last_min : Nat, request_num : Nat]
  /\ clock \in Nat
  /\ pc \in [Worker -> PC]
  /\ post \in [Worker -> PostBody \cup {NoBody}]
  /\ min \in [Worker -> Nat \cup {Unread}]
  /\ num \in [Worker -> Nat \cup {Unread}]
  /\ limit \in [Worker -> Int \cup {Unread}]
  /\ is_sampled \in [Worker -> BOOLEAN]
  /\ page \in [Worker -> [request_all : Nat \cup {Unread},
                         request_capture : Nat \cup {Unread}]]
  /\ served \in 0 .. MaxRequests
  /\ crashes \in 0 .. MaxCrashes
  /\ seen \in [Minutes -> Nat]
  /\ granted \in [Minutes -> Nat]
  /\ epochGranted \in Nat
  /\ stale \subseteq Fields
  /\ meanwhile \in [Worker -> Nat]

(* Workers between the two adds of mo_ctrl_record. *)
Recording == {w \in Worker : pc[w] = "record_capture"}

(***************************************************************************)
(* The shared counters: never more captured requests than requests, even   *)
(* with every worker between its two adds and some of them killed there:   *)
(* whoever still owes a capture has already counted its request.           *)
(***************************************************************************)
CaptureBehindAll ==
  mri.request_capture + Cardinality(Recording) <= mri.request_all

(***************************************************************************)
(* The status page may show more captured requests than requests, for it   *)
(* reads the two at different times; but by no more than were captured     *)
(* since it was begun, so a page nobody recorded during is in order.       *)
(***************************************************************************)
PageAhead ==
  \A w \in Worker : Formatted(w) =>
    page[w].request_capture <= page[w].request_all + meanwhile[w]

(***************************************************************************)
(* The limiter has no lock, but its increment is atomic and is read back:  *)
(* between two resets of request_num it lets at most the limit through,    *)
(* plus one request per other worker that was already past its own update. *)
(***************************************************************************)
EpochLimit == epochGranted <= LimitBound + Cardinality(Worker) - 1

(***************************************************************************)
(* Concurrent POSTs: once no update is in progress, the value that the     *)
(* active sampling_type uses has been stored after that type was posted, so*)
(* no interleaving leaves a new type beside an old value.                  *)
(***************************************************************************)
Settled == crashes = 0 /\ \A w \in Worker : pc[w] \notin PostPC
SettledConfig == Settled => ValueOf(mcm.sampling_type) \notin stale

(***************************************************************************)
(* README.md:76, molten_ctrl.h:54: sampling_request is the number of       *)
(* requests sampled per minute for every server.                           *)
(***************************************************************************)
PerMinuteLimit == \A m \in Minutes : granted[m] <= LimitBound

(***************************************************************************)
(* A single process (CLI, or one worker) is an exact limiter: the abstract *)
(* one of RequestLimiter, decision for decision.                           *)
(***************************************************************************)
Abstract == INSTANCE RequestLimiter WITH Limit <- IniRequest
ImplementsLimiter == Abstract!Spec
=============================================================================
