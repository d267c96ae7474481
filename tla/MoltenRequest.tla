--------------------------- MODULE MoltenRequest ---------------------------
(***************************************************************************)
(* One PHP process tracing its requests: RINIT and RSHUTDOWN, the executor *)
(* hook mo_execute_core, the replaced curl_exec, the stack of span contexts*)
(* and the list of spans (molten.c, molten_chain.c, molten_span.c,         *)
(* molten_log.c, common/molten_stack.c), with open_report = 1.             *)
(*                                                                         *)
(* The hard part is control flow: exit() and fatal errors longjmp out of   *)
(* any call.  mo_execute_core catches, records, pops and throws again; the *)
(* curl_exec handler does not catch, so its context stays on the stack.    *)
(***************************************************************************)
EXTENDS Integers, Sequences, FiniteSets

CONSTANTS
  LevelId,      \* built with --enable-level-id
  Upstream,     \* the [span, parent] ids an upstream caller may send
  SpanCap,      \* mo_chain_add_span keeps that many spans (300)
  MaxDepth,     \* bound: nesting of calls
  MaxCalls,     \* bound: calls in a request
  MaxRequests,  \* bound: requests served by the process
  MaxStep,      \* no random id is above it
  NoLog         \* pcl->spans is NULL

(***************************************************************************)
(* A span id is a sequence of numbers: 1.2.1 under --enable-level-id, one  *)
(* number otherwise.  The empty sequence stands for NULL.                  *)
(***************************************************************************)
NoId == <<>>

Id == Seq(Nat)
Context == [id : Id, count : Nat]
Frame == [kind : {"plain", "hit", "curl"}, id : Id, parent : Id,
          parsed : BOOLEAN]
Span == [kind : {"client", "php_curl", "server"}, id : Id, parent : Id,
         errors : Nat]

ASSUME RequestAssumption ==
  /\ LevelId \in BOOLEAN
  /\ Upstream \subseteq [span : Id, parent : Id]
  /\ SpanCap \in Nat /\ MaxDepth \in Nat /\ MaxCalls \in Nat
  /\ MaxRequests \in Nat /\ MaxStep \in Nat
  /\ NoLog \notin Seq(Span)

VARIABLES
  phase,        \* "idle" between requests, "run", "late" after RSHUTDOWN
  in_request,
  is_sampled,
  aliased,      \* the header keys and the stack own the same id strings
  level,
  step,         \* the counter behind build_span_id_random
  stack,        \* span_stack: contexts [id, count]
  frames,       \* calls in progress, the innermost last
  bailing,      \* zend_bailout is unwinding the frames
  spans,        \* pcl->spans
  errors,       \* length of pct->error_list
  calls,        \* calls made in this request
  served        \* requests begun

(***************************************************************************)
(* History: what the call tree really is, for the properties only.         *)
(***************************************************************************)
VARIABLES
  root,         \* [id, parent] that RINIT gave to the request
  truth,        \* the spans recorded, with their ids in the real call tree
  batch,        \* what the last RSHUTDOWN flushed
  raised,       \* fatal errors raised in this request
  leaked,       \* contexts whose call is over, still on the stack
  lost          \* calls left without level--

globals == <<in_request, is_sampled, aliased>>
bounds == <<calls, served>>
history == <<root, truth, batch, raised, leaked, lost>>
vars == <<phase, globals, level, step, stack, frames, bailing, spans, errors,
          bounds, history>>

Init ==
  /\ phase = "idle"
  /\ in_request = FALSE /\ is_sampled = FALSE /\ aliased = FALSE
  /\ level = 0 /\ step = 0
  /\ stack = <<>> /\ frames = <<>> /\ bailing = FALSE
  /\ spans = NoLog /\ errors = 0
  /\ calls = 0 /\ served = 0
  /\ root = [id |-> NoId, parent |-> NoId]
  /\ truth = <<>> /\ batch = <<>>
  /\ raised = 0 /\ leaked = 0 /\ lost = 0
-----------------------------------------------------------------------------
(***************************************************************************)
(* The stack of span contexts.                                             *)
(***************************************************************************)
Top(s) == s[Len(s)]
Butlast(s) == SubSeq(s, 1, Len(s) - 1)

(* mo_stack_pop does nothing on an empty stack. *)
Pop(s) == IF s = <<>> THEN s ELSE Butlast(s)

(* Mutants of BumpTop: the count of children goes down, or stands still. *)
BumpTopDown(s) == IF LevelId /\ s # <<>>
                    THEN [s EXCEPT ![Len(s)].count = @ - 1] ELSE s
BumpTopNot(s) == s

BumpTop(s) == IF LevelId /\ s # <<>>
                THEN [s EXCEPT ![Len(s)].count = @ + 1] ELSE s

(* build_span_id_level under LevelId, build_span_id_random otherwise. *)
FreshId(s) == IF ~LevelId THEN <<step>>
              ELSE IF s = <<>> THEN <<1>>
              ELSE Append(Top(s).id, Top(s).count)

PushId(s, id) == Append(BumpTop(s), [id |-> id, count |-> 1])
PushContext(s) == PushId(s, FreshId(s))
StepAfterPush == IF LevelId THEN step ELSE step + 1

RetrieveId(s) == IF s = <<>> THEN NoId ELSE Top(s).id

(* Mutant of RetrieveParent: the offset from the top is one short. *)
RetrieveParentShort(s) == IF Len(s) > 1 THEN s[Len(s)].id ELSE NoId
RetrieveParent(s) == IF Len(s) > 1 THEN s[Len(s) - 1].id ELSE NoId

(* Mutant of AddSpan: the cap is off by one. *)
AddSpanPastCap(list, span) ==
  IF list # NoLog /\ Len(list) <= SpanCap THEN Append(list, span) ELSE list

(* mo_chain_add_span: nothing without a list, nothing once it is full. *)
AddSpan(list, span) ==
  IF list # NoLog /\ Len(list) < SpanCap THEN Append(list, span) ELSE list
-----------------------------------------------------------------------------
(***************************************************************************)
(* RINIT: mo_ctrl_sampling decides (any outcome here), then, if sampled,   *)
(* mo_chain_log_init, init_span_context and mo_chain_ctor.  The contexts of*)
(* the headers go first: the parent's, then the request's own.  The level  *)
(* build pushes the very strings of the header keys, the other one copies. *)
(***************************************************************************)
(* Mutant of HeaderStack: init_span_context is left out. *)
HeaderStackReused(h) == IF h.parent = NoId THEN stack
                                           ELSE PushId(stack, h.parent)

HeaderStack(h) == IF h.parent = NoId THEN <<>> ELSE PushId(<<>>, h.parent)

Rinit ==
  /\ phase = "idle" /\ served < MaxRequests
  /\ phase' = "run" /\ served' = served + 1
  /\ in_request' = TRUE
  /\ calls' = 0
  /\ truth' = <<>> /\ batch' = <<>> /\ raised' = 0 /\ leaked' = 0
  /\ \/ /\ is_sampled' = FALSE
        /\ UNCHANGED <<aliased, stack, step, spans, errors, root>>
     \/ \E h \in Upstream :
          /\ is_sampled' = TRUE
          /\ aliased' = (LevelId /\ (h.span # NoId \/ h.parent # NoId))
          /\ spans' = <<>> /\ errors' = 0
          /\ \/ /\ h.span # NoId
                /\ stack' = PushId(HeaderStack(h), h.span)
                /\ UNCHANGED step
             \/ /\ h.span = NoId
                /\ LevelId \/ step < MaxStep
                /\ stack' = PushContext(HeaderStack(h))
                /\ step' = StepAfterPush
          /\ root' = [id |-> RetrieveId(stack'), parent |-> h.parent]
  /\ UNCHANGED <<level, frames, bailing, lost>>

(***************************************************************************)
(* The id of the span a new call runs under, in the real call tree.  A     *)
(* plain frame has no span of its own and passes on the one it runs under. *)
(***************************************************************************)
Enclosing == IF frames = <<>> THEN root.id ELSE Top(frames).id

CanCall ==
  /\ phase \in {"run", "late"} /\ ~bailing
  /\ Len(frames) < MaxDepth /\ calls < MaxCalls
  /\ calls' = calls + 1

(* Entering mo_execute_core: unmatched, or outside a sampled request. *)
CallPlain ==
  /\ CanCall
  /\ level' = level + 1
  /\ frames' = Append(frames, [kind |-> "plain", id |-> Enclosing,
                               parent |-> NoId, parsed |-> TRUE])
  /\ UNCHANGED <<phase, globals, step, stack, bailing, spans, errors, served,
                 history>>

(* The process is killed, and replaced by one that has served nothing yet. *)
Die ==
  /\ phase' = "idle"
  /\ in_request' = FALSE /\ is_sampled' = FALSE /\ aliased' = FALSE
  /\ level' = 0 /\ step' = 0
  /\ stack' = <<>> /\ frames' = <<>> /\ spans' = NoLog /\ errors' = 0
  /\ truth' = <<>> /\ batch' = <<>> /\ leaked' = 0 /\ lost' = 0
  /\ UNCHANGED <<bailing, served, root, raised>>

(* mo_intercept_hit found the function; frame_build pushes its context. *)
CallHit ==
  /\ CanCall
  /\ is_sampled /\ in_request
  /\ LevelId \/ step < MaxStep
  /\ level' = level + 1
  /\ stack' = PushContext(stack) /\ step' = StepAfterPush
  /\ frames' = Append(frames, [kind |-> "hit", id |-> RetrieveId(stack'),
                               parent |-> Enclosing, parsed |-> TRUE])
  /\ UNCHANGED <<phase, globals, bailing, spans, errors, served, history>>

(***************************************************************************)
(* curl_exec goes through mo_execute_core as an unmatched internal call;   *)
(* its handler, molten_curl_exec, then pushes a context before it parses   *)
(* its argument.  It looks at is_sampled only, so it pushes after RSHUTDOWN*)
(* too.  There the header keys and curl_header_record are freed, and       *)
(* mo_stack_destroy has cleared stack->dtor: a call that parses is         *)
(* undefined, and cannot come back if sampled.  Unsampled, it may also pass*)
(* for a plain call.                                                       *)
(***************************************************************************)
CurlBegin ==
  /\ CanCall
  /\ is_sampled
  /\ LevelId \/ step < MaxStep
  /\ stack' = PushContext(stack) /\ step' = StepAfterPush
  /\ \E parsed \in BOOLEAN :
       /\ in_request \/ ~parsed
       /\ frames' = Append(frames, [kind |-> "curl", id |-> RetrieveId(stack'),
                                    parent |-> Enclosing, parsed |-> parsed])
  /\ level' = level + 1
  /\ UNCHANGED <<phase, globals, bailing, spans, errors, served, history>>

CurlDies ==
  /\ CanCall
  /\ ~in_request
  /\ Die

Client(kind, id, parent) ==
  [kind |-> kind, id |-> id, parent |-> parent, errors |-> 0]

Leave(f) == frames' = Butlast(frames) /\ f = Top(frames)

(***************************************************************************)
(* The tail of molten_curl_exec.  span_id was read before the transfer and *)
(* the parent id is read after it.  When the argument did not parse there  *)
(* is no span and no pop.                                                  *)
(***************************************************************************)
CurlEnd ==
  /\ frames # <<>> /\ ~bailing
  /\ \E f \in {Top(frames)} :
       /\ f.kind = "curl"
       /\ Leave(f)
       /\ \/ /\ f.parsed
             /\ spans' = AddSpan(spans, Client("php_curl", f.id,
                                               RetrieveParent(stack)))
             /\ truth' = Append(truth, Client("php_curl", f.id, f.parent))
             /\ stack' = Pop(stack)
             /\ UNCHANGED leaked
          \/ /\ ~f.parsed
             /\ leaked' = leaked + 1
             /\ UNCHANGED <<spans, truth, stack>>
  /\ level' = level - 1
  /\ UNCHANGED <<phase, globals, step, bailing, errors, bounds,
                 root, batch, raised, lost>>

(***************************************************************************)
(* The tail of mo_execute_core, on a return and on a bailout alike: record *)
(* (an interceptor may decline to build a span), frame_destroy, level--.   *)
(* The outermost zend_bailout is caught by PHP itself.                     *)
(***************************************************************************)
RecordSpan(f) ==
  \/ /\ spans' = AddSpan(spans, Client("client", RetrieveId(stack),
                                       RetrieveParent(stack)))
     /\ truth' = Append(truth, Client("client", f.id, f.parent))
  \/ UNCHANGED <<spans, truth>>

(* Mutant of LeaveCore: frame_destroy runs for every call. *)
LeaveCorePopsAll(f) ==
  /\ Leave(f)
  /\ \/ f.kind = "hit" /\ RecordSpan(f)
     \/ f.kind = "plain" /\ UNCHANGED <<spans, truth>>
  /\ stack' = Pop(stack)
  /\ level' = level - 1
  /\ UNCHANGED <<phase, globals, step, errors, bounds,
                 root, batch, raised, leaked, lost>>

LeaveCore(f) ==
  /\ Leave(f)
  /\ \/ /\ f.kind = "hit"
        /\ RecordSpan(f)
        /\ stack' = Pop(stack)
     \/ /\ f.kind = "plain"
        /\ UNCHANGED <<spans, truth, stack>>
  /\ level' = level - 1
  /\ UNCHANGED <<phase, globals, step, errors, bounds,
                 root, batch, raised, leaked, lost>>

Return ==
  /\ frames # <<>> /\ ~bailing
  /\ LeaveCore(Top(frames))
  /\ UNCHANGED bailing

Unwind ==
  /\ bailing
  /\ LeaveCore(Top(frames))
  /\ bailing' = (Len(frames) > 1)

(* Mutant of UnwindCurl: a bailout skips level--. *)
UnwindCurlKeepsLevel ==
  /\ bailing
  /\ Leave(Top(frames)) /\ Top(frames).kind = "curl"
  /\ leaked' = leaked + 1
  /\ bailing' = (Len(frames) > 1)
  /\ UNCHANGED <<phase, globals, level, step, stack, spans, errors, bounds,
                 root, truth, batch, raised, lost>>

(* No zend_try in molten_curl_exec: only the core frame around it unwinds. *)
UnwindCurl ==
  /\ bailing
  /\ Leave(Top(frames)) /\ Top(frames).kind = "curl"
  /\ level' = level - 1
  /\ leaked' = leaked + 1
  /\ bailing' = (Len(frames) > 1)
  /\ UNCHANGED <<phase, globals, step, stack, spans, errors, bounds,
                 root, truth, batch, raised, lost>>

(***************************************************************************)
(* The record callback runs outside the zend_try and may itself bail out   *)
(* (the memory limit): frame_destroy and level-- are then skipped.         *)
(***************************************************************************)
RecordBails ==
  /\ frames # <<>>
  /\ Leave(Top(frames)) /\ Top(frames).kind = "hit"
  /\ bailing' = (Len(frames) > 1)
  /\ leaked' = leaked + 1 /\ lost' = lost + 1
  /\ UNCHANGED <<phase, globals, level, step, stack, spans, errors, bounds,
                 root, truth, batch, raised>>

(* exit(), or the script being aborted. *)
Exit ==
  /\ phase \in {"run", "late"} /\ ~bailing /\ frames # <<>>
  /\ bailing' = TRUE
  /\ UNCHANGED <<phase, globals, level, step, stack, frames, spans, errors,
                 bounds, history>>

(* molten_error_cb on a fatal error, then PHP's own callback bails out. *)
FatalError ==
  /\ phase \in {"run", "late"} /\ ~bailing /\ calls < MaxCalls
  /\ calls' = calls + 1
  /\ errors' = IF is_sampled /\ in_request THEN errors + 1 ELSE errors
  /\ raised' = IF phase = "run" THEN raised + 1 ELSE raised
  /\ bailing' = (frames # <<>>)
  /\ UNCHANGED <<phase, globals, level, step, stack, frames, spans, served,
                 root, truth, batch, leaked, lost>>

(***************************************************************************)
(* RSHUTDOWN: mo_chain_dtor builds the server span from the two contexts on*)
(* top and pops them, mo_chain_log_flush writes the list and drops it,     *)
(* mo_stack_destroy empties what is left of the stack.  mo_chain_dtor has  *)
(* freed the header keys before: an aliased id is freed a second time, and *)
(* the allocator may or may not stand it.                                  *)
(***************************************************************************)
Server(id, parent, n) ==
  [kind |-> "server", id |-> id, parent |-> parent, errors |-> n]

Rshutdown ==
  /\ phase = "run" /\ frames = <<>> /\ ~bailing
  /\ phase' = "late" /\ in_request' = FALSE
  /\ \/ /\ is_sampled
        /\ batch' = AddSpan(spans, Server(RetrieveId(stack),
                                          RetrieveParent(stack), errors))
        /\ truth' = Append(truth, Server(root.id, root.parent, raised))
        /\ spans' = NoLog /\ stack' = <<>>
        /\ errors' = 0 /\ aliased' = FALSE
     \/ /\ ~is_sampled
        /\ UNCHANGED <<batch, truth, spans, stack, errors, aliased>>
  /\ UNCHANGED <<is_sampled, level, step, frames, bailing, bounds,
                 root, raised, leaked, lost>>

RshutdownDies ==
  /\ phase = "run" /\ frames = <<>> /\ ~bailing
  /\ is_sampled /\ aliased
  /\ Die
  /\ UNCHANGED calls

(* The other extensions have shut the request down. *)
RequestEnds ==
  /\ phase = "late" /\ frames = <<>> /\ ~bailing
  /\ phase' = "idle"
  /\ UNCHANGED <<globals, level, step, stack, frames, bailing, spans, errors,
                 bounds, history>>

Call == CallPlain \/ CallHit \/ CurlBegin \/ CurlDies
Leaving == Return \/ CurlEnd \/ Unwind \/ UnwindCurl \/ RecordBails

Next == \/ Rinit \/ Call \/ Leaving \/ Exit \/ FatalError
        \/ Rshutdown \/ RshutdownDies \/ RequestEnds

Spec == Init /\ [][Next]_vars
-----------------------------------------------------------------------------
TypeOK ==
  /\ phase \in {"idle", "run", "late"}
  /\ in_request \in BOOLEAN /\ is_sampled \in BOOLEAN /\ aliased \in BOOLEAN
  /\ level \in Int /\ step \in Nat
  /\ stack \in Seq(Context)
  /\ frames \in Seq(Frame)
  /\ bailing \in BOOLEAN
  /\ spans \in Seq(Span) \cup {NoLog}
  /\ errors \in Nat
  /\ calls \in Nat /\ served \in Nat
  /\ root \in [id : Id, parent : Id]
  /\ truth \in Seq(Span) /\ batch \in Seq(Span)
  /\ raised \in Nat /\ leaked \in Nat /\ lost \in Nat

Tracing == is_sampled /\ in_request
TracedIn(fs) == {i \in DOMAIN fs : fs[i].kind # "plain"}
Traced == TracedIn(frames)
Base == IF root.parent = NoId THEN 1 ELSE 2

(***************************************************************************)
(* level counts the calls in progress, however many of them an exit() or a *)
(* fatal error unwound before, in this request or in an earlier one; only a*)
(* record callback that bails out itself leaves a call counted.            *)
(***************************************************************************)
LevelBalanced == level = Len(frames) + lost

(***************************************************************************)
(* The context stack holds the request's own contexts, one per traced call *)
(* in progress, and what was leaked: a request starts clean whatever the   *)
(* one before left, and a pop never takes a context twice.                 *)
(***************************************************************************)
StackAccounting ==
  Tracing => Len(stack) = Base + Cardinality(Traced) + leaked

(***************************************************************************)
(* A traced call in progress still has its context on the stack, above the *)
(* request's own, even when calls inside it leaked theirs: the id that     *)
(* molten_curl_exec read before the transfer is not freed under it.        *)
(***************************************************************************)
LiveContexts ==
  Tracing =>
    /\ Len(stack) >= Base /\ stack[Base].id = root.id
    /\ \A i \in Traced :
         \E j \in Base + 1 .. Len(stack) : stack[j].id = frames[i].id

(* The spans of the request: being collected, then what was flushed. *)
Collected == IF spans = NoLog THEN batch ELSE spans

(***************************************************************************)
(* Every recorded call is collected once, in the order the calls ended and *)
(* through every bailout, until the list is full; and the server span has  *)
(* every fatal error of the request.                                       *)
(***************************************************************************)
CompleteRecord ==
  is_sampled =>
    /\ Len(Collected) = IF Len(truth) < SpanCap THEN Len(truth) ELSE SpanCap
    /\ \A i \in DOMAIN Collected :
         /\ Collected[i].kind = truth[i].kind
         /\ Collected[i].errors = truth[i].errors

(***************************************************************************)
(* As long as no context was leaked, the ids and parent ids of the spans   *)
(* are those of the call tree, whatever was unwound by a bailout.          *)
(***************************************************************************)
SpanTree ==
  is_sampled /\ leaked = 0 =>
    \A i \in DOMAIN Collected : Collected[i] = truth[i]

(***************************************************************************)
(* No two calls of a request have the same span id, nor the id of the      *)
(* request itself, unless its caller chose that one with a counter like    *)
(* that of build_span_id_random: each process starts it at 0.              *)
(***************************************************************************)
UpstreamApart ==
  LevelId \/ \A h \in Upstream : \A n \in 0 .. MaxStep : h.span # <<n>>

UniqueIds ==
  Tracing =>
    /\ \A i \in Traced : /\ UpstreamApart => frames[i].id # root.id
                         /\ \A j \in Traced \ {i} : frames[i].id # frames[j].id
                         /\ \A j \in DOMAIN truth : frames[i].id # truth[j].id

(***************************************************************************)
(* README.md:117, molten_chain.c:369-373: the server span that ends the    *)
(* list has the request's own id and parent id.                            *)
(***************************************************************************)
ServerIsRoot ==
  \A i \in DOMAIN batch :
    batch[i].kind = "server" => /\ batch[i].id = root.id
                                /\ batch[i].parent = root.parent
=============================================================================
