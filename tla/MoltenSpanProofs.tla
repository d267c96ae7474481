--------------------------- MODULE MoltenSpanProofs ---------------------------
(***************************************************************************)
(* More theorems about MoltenRequest: that the contexts of traced calls    *)
(* stay where the calls look for them, and that the list of spans is a     *)
(* complete record, for any nesting, any number of calls and requests.     *)
(***************************************************************************)
EXTENDS MoltenRequestProofs

-----------------------------------------------------------------------------
(***************************************************************************)
(* The list of spans and what it should hold.                              *)
(***************************************************************************)
Records(list, tr) ==
  /\ Len(list) = IF Len(tr) < SpanCap THEN Len(tr) ELSE SpanCap
  /\ \A i \in 1 .. Len(list) :
       list[i].kind = tr[i].kind /\ list[i].errors = tr[i].errors

(* A span is added to both, or to a full list.                             *)
LEMMA AddRecords ==
  ASSUME NEW list \in Seq(Span), NEW tr \in Seq(Span), Records(list, tr),
         NEW a \in Span, NEW b \in Span, a.kind = b.kind, a.errors = b.errors
  PROVE  AddSpan(list, a) \in Seq(Span) /\ Records(AddSpan(list, a), Append(tr, b))
<1>1. list # NoLog /\ SpanCap \in Nat
  BY RequestAssumption
<1>2. Len(list) \in Nat /\ Len(tr) \in Nat /\ Len(list) <= Len(tr)
  BY <1>1, LenProperties DEF Records
<1>3. /\ Len(Append(tr, b)) = Len(tr) + 1 /\ Append(tr, b)[Len(tr) + 1] = b
      /\ \A i \in 1 .. Len(tr) : Append(tr, b)[i] = tr[i]
  BY AppendProperties
<1>4. CASE Len(list) < SpanCap
  <2>1. AddSpan(list, a) = Append(list, a)
    BY <1>1, <1>4 DEF AddSpan
  <2>2. /\ Append(list, a) \in Seq(Span) /\ Len(Append(list, a)) = Len(list) + 1
        /\ Append(list, a)[Len(list) + 1] = a
        /\ \A i \in 1 .. Len(list) : Append(list, a)[i] = list[i]
    BY AppendProperties
  <2>3. Len(list) = Len(tr)
    BY <1>1, <1>2, <1>4 DEF Records
  <2>4. PICK l \in Seq(Span) : l = Append(list, a)
    BY <2>2
  <2>5. PICK t : t = Append(tr, b)
    OBVIOUS
  <2>6. Len(l) = IF Len(t) < SpanCap THEN Len(t) ELSE SpanCap
    BY <1>1, <1>2, <1>3, <1>4, <2>2, <2>3, <2>4, <2>5
  <2>7. ASSUME NEW i \in 1 .. Len(l)
        PROVE  l[i].kind = t[i].kind /\ l[i].errors = t[i].errors
    <3>1. CASE i = Len(list) + 1
      BY <1>3, <2>2, <2>3, <2>4, <2>5, <3>1
    <3>2. CASE i # Len(list) + 1
      <4>1. i \in 1 .. Len(list)
        BY <1>2, <2>2, <2>4, <3>2
      <4> QED
        BY <1>3, <2>2, <2>3, <2>4, <2>5, <4>1 DEF Records
    <3> QED
      BY <3>1, <3>2
  <2> QED
    BY <2>1, <2>4, <2>5, <2>6, <2>7 DEF Records
<1>5. CASE ~(Len(list) < SpanCap)
  <2>1. AddSpan(list, a) = list
    BY <1>5 DEF AddSpan
  <2>2. Len(list) = SpanCap /\ Len(list) <= Len(tr)
    BY <1>1, <1>2, <1>5 DEF Records
  <2>3. \A i \in 1 .. Len(list) : Append(tr, b)[i] = tr[i]
    BY <1>2, <1>3
  <2>4. PICK t : t = Append(tr, b)
    OBVIOUS
  <2> QED
    BY <1>1, <1>2, <1>3, <2>1, <2>2, <2>3, <2>4 DEF Records
<1> QED
  BY <1>4, <1>5

(* After RSHUTDOWN no call in progress has a span to record.  Until then   *)
(* the error list counts the fatal errors of the request.                  *)
RecordInv ==
  /\ phase = "late" =>
       \A i \in 1 .. Len(frames) :
         frames[i].kind # "hit" /\ (frames[i].kind = "curl" => ~frames[i].parsed)
  /\ phase = "run" /\ is_sampled => errors = raised
  /\ is_sampled => Records(Collected, truth)

(* While the request runs, it is the list; afterwards, what was flushed.   *)
LEMMA RecordMeans == TypeInv => (RecordInv => CompleteRecord)
<1> SUFFICES ASSUME TypeInv, RecordInv PROVE CompleteRecord
  OBVIOUS
<1>1. Collected \in Seq(Span)
  BY DEF Collected, TypeInv, TypeOK
<1>2. DOMAIN Collected = 1 .. Len(Collected)
  BY <1>1, LenProperties
<1> QED
  BY <1>2 DEF RecordInv, Records, CompleteRecord

(* A call is left, and recorded in both or in neither.                     *)
LEMMA RecordLeave ==
  ASSUME TypeInv, RecordInv, frames # <<>>, Leave(Top(frames)),
         UNCHANGED <<phase, is_sampled, errors, batch, raised>>,
         \/ UNCHANGED <<spans, truth>>
         \/ /\ Top(frames).kind = "hit" \/ Top(frames).parsed
            /\ Top(frames).kind # "plain"
            /\ \E a, b \in Span :
                 /\ a.kind = b.kind /\ a.errors = b.errors
                 /\ spans' = AddSpan(spans, a) /\ truth' = Append(truth, b)
  PROVE  RecordInv'
<1>1. /\ frames \in Seq(Frame) /\ Len(frames) \in Nat
      /\ Len(frames') = Len(frames) - 1
      /\ \A i \in 1 .. Len(frames) - 1 : frames'[i] = frames[i]
  BY ButlastFacts, LenProperties DEF Leave, TypeInv, TypeOK
<1>2. phase' = "late" =>
        \A i \in 1 .. Len(frames') :
          frames'[i].kind # "hit" /\ (frames'[i].kind = "curl" => ~frames'[i].parsed)
  BY <1>1 DEF RecordInv
<1>3. ASSUME is_sampled' PROVE Records(Collected', truth')
  <2>1. is_sampled /\ Records(Collected, truth)
    BY <1>3 DEF RecordInv
  <2>2. CASE UNCHANGED <<spans, truth>>
    <3>1. Collected' = Collected
      BY <2>2 DEF Collected
    <3> QED
      BY <2>1, <2>2, <3>1
  <2>3. CASE ~UNCHANGED <<spans, truth>>
    <3>1. PICK a \in Span, b \in Span :
            /\ a.kind = b.kind /\ a.errors = b.errors
            /\ spans' = AddSpan(spans, a) /\ truth' = Append(truth, b)
      BY <2>3
    <3>2. Len(frames) \in 1 .. Len(frames) /\ Top(frames) = frames[Len(frames)]
      BY <1>1, EmptySeq DEF Top
    <3>3. /\ Top(frames).kind = "hit" \/ Top(frames).parsed
          /\ Top(frames).kind # "plain" /\ Top(frames) \in Frame
      BY <2>3, LeaveFacts
    <3>4. Top(frames).kind = "hit" \/ (Top(frames).kind = "curl" /\ Top(frames).parsed)
      BY <3>3 DEF Frame
    <3>5. phase # "late"
      BY <3>2, <3>4 DEF RecordInv
    <3>6. phase = "run"
      BY <3>5, LeaveFacts DEF TypeInv, TypeOK
    <3>7. spans \in Seq(Span) /\ truth \in Seq(Span) /\ spans # NoLog
      BY <2>1, <3>6 DEF TypeInv, TypeOK, Modes
    <3>8. Records(spans, truth)
      BY <2>1, <3>7 DEF Collected
    <3>9. spans' \in Seq(Span) /\ Records(spans', truth')
      BY <3>1, <3>7, <3>8, AddRecords
    <3>10. Collected' = spans'
      BY <3>9, RequestAssumption DEF Collected
    <3> QED
      BY <3>9, <3>10
  <2> QED
    BY <2>2, <2>3
<1> QED
  BY <1>2, <1>3 DEF RecordInv

LEMMA RecordLeaveCore ==
  ASSUME TypeInv, RecordInv, frames # <<>>, LeaveCore(Top(frames)),
         UNCHANGED bailing \/ bailing' = (Len(frames) > 1)
  PROVE  RecordInv'
<1>1. /\ Leave(Top(frames))
      /\ UNCHANGED <<phase, is_sampled, errors, batch, raised>>
  BY DEF LeaveCore, globals
<1>2. \/ UNCHANGED <<spans, truth>>
      \/ /\ Top(frames).kind = "hit"
         /\ spans' = AddSpan(spans, Client("client", RetrieveId(stack),
                                           RetrieveParent(stack)))
         /\ truth' = Append(truth, Client("client", Top(frames).id, Top(frames).parent))
  BY DEF LeaveCore, RecordSpan
<1>3. /\ Client("client", RetrieveId(stack), RetrieveParent(stack)) \in Span
      /\ Client("client", Top(frames).id, Top(frames).parent) \in Span
  BY RetrieveTypes, LeaveFacts DEF Client, Span, Frame, TypeInv, TypeOK
<1>4. \A i, j, k, l : /\ Client("client", i, j).kind = Client("client", k, l).kind
                      /\ Client("client", i, j).errors = Client("client", k, l).errors
  BY DEF Client
<1>5. Top(frames).kind = "hit" => Top(frames).kind # "plain"
  OBVIOUS
<1> QED
  BY <1>1, <1>2, <1>3, <1>4, <1>5, RecordLeave

LEMMA RecordCurlEnd == ASSUME TypeInv, RecordInv, CurlEnd PROVE RecordInv'
<1>1. /\ frames # <<>> /\ Leave(Top(frames)) /\ Top(frames).kind = "curl"
      /\ UNCHANGED <<phase, is_sampled, errors, batch, raised>>
  BY DEF CurlEnd, globals
<1>2. PICK f : f = Top(frames)
  OBVIOUS
<1>3. \/ UNCHANGED <<spans, truth>>
      \/ /\ f.parsed
         /\ spans' = AddSpan(spans, Client("php_curl", f.id, RetrieveParent(stack)))
         /\ truth' = Append(truth, Client("php_curl", f.id, f.parent))
  BY <1>2 DEF CurlEnd
<1>4. /\ Client("php_curl", f.id, RetrieveParent(stack)) \in Span
      /\ Client("php_curl", f.id, f.parent) \in Span
  BY <1>1, <1>2, RetrieveTypes, LeaveFacts DEF Client, Span, Frame, TypeInv, TypeOK
<1>5. \A i, j, k : /\ Client("php_curl", i, j).kind = Client("php_curl", i, k).kind
                   /\ Client("php_curl", i, j).errors = Client("php_curl", i, k).errors
  BY DEF Client
<1>6. Top(frames).kind # "plain"
  BY <1>1
<1> QED
  BY <1>1, <1>2, <1>3, <1>4, <1>5, <1>6, RecordLeave

(* A call is entered: after RSHUTDOWN, none that will be recorded.         *)
LEMMA RecordEnter ==
  ASSUME TypeInv, RecordInv, NEW f \in Frame, frames' = Append(frames, f),
         phase = "late" => f.kind # "hit" /\ (f.kind = "curl" => ~f.parsed),
         UNCHANGED <<phase, is_sampled, errors, batch, raised, spans, truth>>
  PROVE  RecordInv'
<1>1. /\ Len(frames) \in Nat /\ Len(frames') = Len(frames) + 1
      /\ frames'[Len(frames) + 1] = f
      /\ \A i \in 1 .. Len(frames) : frames'[i] = frames[i]
  BY AppendProperties, LenProperties DEF TypeInv, TypeOK
<1>2. \A i \in 1 .. Len(frames') : i = Len(frames) + 1 \/ i \in 1 .. Len(frames)
  BY <1>1
<1>3. phase' = "late" =>
        \A i \in 1 .. Len(frames') :
          frames'[i].kind # "hit" /\ (frames'[i].kind = "curl" => ~frames'[i].parsed)
  BY <1>1, <1>2 DEF RecordInv
<1>4. Collected' = Collected
  BY DEF Collected
<1> QED
  BY <1>3, <1>4 DEF RecordInv

LEMMA RecordCall == ASSUME TypeInv, RecordInv, Call PROVE RecordInv'
<1>1. CASE CallPlain
  <2>1. PICK f \in Frame : f.kind = "plain" /\ frames' = Append(frames, f)
    <3>1. [kind |-> "plain", id |-> Enclosing, parent |-> NoId, parsed |-> TRUE]
            \in Frame
      BY EnclosingType DEF Frame, Id, NoId
    <3> QED
      BY <1>1, <3>1 DEF CallPlain
  <2>2. UNCHANGED <<phase, is_sampled, errors, batch, raised, spans, truth>>
    BY <1>1 DEF CallPlain, globals, history
  <2> QED
    BY <2>1, <2>2, RecordEnter
<1>2. CASE CallHit
  <2>1. PICK f \in Frame : frames' = Append(frames, f)
    BY <1>2, TracedFrame DEF CallHit
  <2>2. /\ phase # "late"
        /\ UNCHANGED <<phase, is_sampled, errors, batch, raised, spans, truth>>
    BY <1>2 DEF CallHit, globals, history, TypeInv, Modes
  <2> QED
    BY <2>1, <2>2, RecordEnter
<1>3. CASE CurlBegin
  <2>1. PICK parsed \in BOOLEAN :
          /\ in_request \/ ~parsed
          /\ frames' = Append(frames, [kind |-> "curl", id |-> RetrieveId(stack'),
                                       parent |-> Enclosing, parsed |-> parsed])
    BY <1>3 DEF CurlBegin
  <2>2. PICK f \in Frame :
          f.kind = "curl" /\ f.parsed = parsed /\ frames' = Append(frames, f)
    BY <1>3, <2>1, TracedFrame DEF CurlBegin
  <2>3. UNCHANGED <<phase, is_sampled, errors, batch, raised, spans, truth>>
    BY <1>3 DEF CurlBegin, globals, history
  <2>4. phase = "late" => ~in_request
    BY DEF TypeInv, Modes
  <2> QED
    BY <2>1, <2>2, <2>3, <2>4, RecordEnter
<1>4. CASE CurlDies
  BY <1>4 DEF CurlDies, Die, RecordInv
<1> QED
  BY <1>1, <1>2, <1>3, <1>4 DEF Call

(* The ends of a request, and what leaves the frames alone.                *)
LEMMA RecordOther ==
  ASSUME TypeInv, RecordInv,
         \/ Rinit \/ Exit \/ FatalError \/ Rshutdown \/ RshutdownDies \/ RequestEnds
         \/ UNCHANGED vars
  PROVE  RecordInv'
<1>1. CASE Rinit
  <2>1. phase' = "run" /\ truth' = <<>> /\ raised' = 0
    BY <1>1 DEF Rinit
  <2>2. CASE is_sampled'
    <3>1. spans' = <<>> /\ errors' = 0
      BY <1>1, <2>2, RinitStack
    <3>2. spans' # NoLog
      <4>1. <<>> \in Seq(Span)
        OBVIOUS
      <4> QED
        BY <3>1, <4>1, RequestAssumption
    <3>3. Collected' = <<>>
      BY <3>1, <3>2 DEF Collected
    <3>4. Records(<<>>, <<>>)
      <4>1. Len(<<>>) = 0
        OBVIOUS
      <4> QED
        BY <4>1, RequestAssumption DEF Records
    <3> QED
      BY <2>1, <3>1, <3>3, <3>4 DEF RecordInv
  <2>3. CASE ~is_sampled'
    BY <2>1, <2>3 DEF RecordInv
  <2> QED
    BY <2>2, <2>3
<1>2. CASE Exit \/ RequestEnds \/ UNCHANGED vars
  <2>1. /\ UNCHANGED <<is_sampled, errors, batch, raised, spans, truth, frames>>
        /\ phase' = phase \/ phase' = "idle"
    BY <1>2 DEF Exit, RequestEnds, vars, globals, history
  <2>2. Collected' = Collected
    BY <2>1 DEF Collected
  <2> QED
    BY <2>1, <2>2 DEF RecordInv
<1>3. CASE FatalError
  <2>1. UNCHANGED <<is_sampled, batch, spans, truth, frames, phase, in_request>>
    BY <1>3 DEF FatalError, globals
  <2>2. Collected' = Collected
    BY <2>1 DEF Collected
  <2>3. phase' = "run" /\ is_sampled' => errors' = raised'
    BY <1>3, <2>1 DEF FatalError, RecordInv, TypeInv, Modes
  <2> QED
    BY <2>1, <2>2, <2>3 DEF RecordInv
<1>4. CASE Rshutdown
  <2>1. phase = "run" /\ phase' = "late" /\ frames' = <<>> /\ is_sampled' = is_sampled
    BY <1>4 DEF Rshutdown
  <2>2. Len(frames') = 0
    BY <2>1
  <2>3. CASE is_sampled
    <3>1. PICK a, b : /\ a = Server(RetrieveId(stack), RetrieveParent(stack), errors)
                      /\ b = Server(root.id, root.parent, raised)
      OBVIOUS
    <3>2. a \in Span /\ b \in Span
      BY <3>1, RetrieveTypes DEF Server, Span, TypeInv, TypeOK
    <3>3. a.kind = b.kind /\ a.errors = b.errors /\ a.kind # "php_curl"
      BY <2>1, <2>3, <3>1 DEF Server, RecordInv
    <3>4. batch' = AddSpan(spans, a) /\ truth' = Append(truth, b) /\ spans' = NoLog
      BY <1>4, <2>3, <3>1 DEF Rshutdown
    <3>5. spans \in Seq(Span) /\ truth \in Seq(Span) /\ spans # NoLog
      BY <2>1, <2>3 DEF TypeInv, TypeOK, Modes
    <3>6. Records(spans, truth)
      BY <2>3, <3>5 DEF RecordInv, Collected
    <3>7. Records(batch', truth')
      BY <3>2, <3>3, <3>4, <3>5, <3>6, AddRecords
    <3>8. Collected' = batch'
      BY <3>4 DEF Collected
    <3> QED
      BY <2>1, <2>2, <3>7, <3>8 DEF RecordInv
  <2>4. CASE ~is_sampled
    BY <2>1, <2>2, <2>4 DEF RecordInv
  <2> QED
    BY <2>3, <2>4
<1>5. CASE RshutdownDies
  BY <1>5 DEF RshutdownDies, Die, RecordInv
<1> QED
  BY <1>1, <1>2, <1>3, <1>4, <1>5

LEMMA RecordNext == TypeInv /\ RecordInv /\ [Next]_vars => RecordInv'
<1> SUFFICES ASSUME TypeInv, RecordInv, [Next]_vars PROVE RecordInv'
  OBVIOUS
<1>1. CASE Return
  BY <1>1, RecordLeaveCore DEF Return
<1>2. CASE Unwind
  BY <1>2, RecordLeaveCore DEF Unwind, TypeInv, Modes
<1>3. CASE UnwindCurl \/ RecordBails
  <2>1. /\ frames # <<>> /\ Leave(Top(frames))
        /\ UNCHANGED <<phase, is_sampled, errors, batch, raised, spans, truth>>
    BY <1>3 DEF UnwindCurl, RecordBails, TypeInv, Modes, globals
  <2> QED
    BY <2>1, RecordLeave
<1> QED
  BY <1>1, <1>2, <1>3, RecordCurlEnd, RecordCall, RecordOther DEF Next, Leaving

(***************************************************************************)
(* CompleteRecord: every recorded call is in the list once, in the order   *)
(* the calls ended, and the server span has every fatal error, for any cap *)
(* of mo_chain_add_span and however the calls are left.                    *)
(***************************************************************************)
THEOREM AlwaysCompleteRecord == Spec => []CompleteRecord
<1>1. Init => RecordInv
  BY DEF Init, RecordInv
<1>2. Spec => []RecordInv
  BY <1>1, RecordNext, TypeInvariant, PTL DEF Spec
<1> QED
  BY <1>2, RecordMeans, TypeInvariant, PTL

-----------------------------------------------------------------------------
(***************************************************************************)
(* The contexts of the calls in progress.  A push leaves the ids below it  *)
(* alone: it counts a child of the top, and puts the new context above.    *)
(***************************************************************************)
LEMMA PushKeepsIds ==
  ASSUME NEW s \in Seq(Context), NEW id \in Id
  PROVE  /\ \A i \in 1 .. Len(s) : PushId(s, id)[i].id = s[i].id
         /\ PushId(s, id)[Len(s) + 1].id = id
         /\ RetrieveId(PushId(s, id)) = id
<1>1. BumpTop(s) \in Seq(Context) /\ Len(BumpTop(s)) = Len(s)
  BY BumpFacts
<1>2. ASSUME NEW i \in 1 .. Len(s) PROVE BumpTop(s)[i].id = s[i].id
  <2>1. CASE LevelId /\ s # <<>>
    <3>1. Len(s) \in 1 .. Len(s)
      BY <2>1, EmptySeq, LenProperties
    <3>2. s[i] \in Context
      BY ElementOfSeq
    <3>3. BumpTop(s) = [s EXCEPT ![Len(s)].count = @ + 1]
      BY <2>1 DEF BumpTop
    <3>4. CASE i = Len(s)
      BY <3>1, <3>2, <3>3, <3>4 DEF Context
    <3>5. CASE i # Len(s)
      BY <3>1, <3>3, <3>5
    <3> QED
      BY <3>4, <3>5
  <2>2. CASE ~(LevelId /\ s # <<>>)
    BY <2>2 DEF BumpTop
  <2> QED
    BY <2>1, <2>2
<1>3. PICK b \in Seq(Context) : b = BumpTop(s)
  BY <1>1
<1>4. PICK c \in Context : c = [id |-> id, count |-> 1] /\ c.id = id
  <2>1. [id |-> id, count |-> 1] \in Context
    BY DEF Context
  <2> QED
    BY <2>1
<1>5. /\ PushId(s, id) = Append(b, c) /\ Len(b) = Len(s) /\ Len(s) \in Nat
      /\ Append(b, c) \in Seq(Context) /\ Len(Append(b, c)) = Len(b) + 1
      /\ Append(b, c)[Len(b) + 1] = c
      /\ \A i \in 1 .. Len(b) : Append(b, c)[i] = b[i]
  BY <1>1, <1>3, <1>4, AppendProperties, LenProperties DEF PushId
<1>6. PushId(s, id) # <<>>
  BY <1>5, EmptySeq
<1> QED
  BY <1>2, <1>3, <1>4, <1>5, <1>6 DEF RetrieveId, Top

(* Every traced call has a place on the stack, above the request's own     *)
(* contexts, and the calls inside it have theirs above.                    *)
Places ==
  {f \in [Traced -> Base + 1 .. Len(stack)] :
     /\ \A i \in Traced : stack[f[i]].id = frames[i].id
     /\ \A i, j \in Traced : i < j => f[i] < f[j]}

Placed ==
  /\ Len(stack) >= Base /\ stack[Base].id = root.id
  /\ \E f : f \in Places

PlacedInv == Tracing => Placed

LEMMA PlacedLive == PlacedInv => LiveContexts
<1> SUFFICES ASSUME PlacedInv, Tracing
             PROVE  /\ Len(stack) >= Base /\ stack[Base].id = root.id
                    /\ \A i \in Traced :
                         \E j \in Base + 1 .. Len(stack) : stack[j].id = frames[i].id
  BY DEF LiveContexts
<1>1. Placed
  BY DEF PlacedInv
<1>2. PICK f \in Places : TRUE
  BY <1>1 DEF Placed
<1>3. f \in [Traced -> Base + 1 .. Len(stack)]
      /\ \A i \in Traced : stack[f[i]].id = frames[i].id
  BY DEF Places
<1> QED
  BY <1>1, <1>3 DEF Placed

LEMMA TracedWhere ==
  TypeInv => /\ Len(frames) \in Nat /\ Len(stack) \in Nat /\ Base \in 1 .. 2
             /\ Traced = {i \in 1 .. Len(frames) : frames[i].kind # "plain"}
BY LenProperties DEF TypeInv, TypeOK, Traced, TracedIn, Base

(* A traced call enters: its context is the new top.                       *)
LEMMA PlacedEnter ==
  ASSUME TypeInv, Placed, NEW f \in Frame, frames' = Append(frames, f),
         f.kind # "plain", stack' = PushContext(stack), f.id = RetrieveId(stack'),
         UNCHANGED root
  PROVE  Placed'
<1>1. /\ Len(frames) \in Nat /\ Len(stack) \in Nat /\ Base \in 1 .. 2
      /\ Traced = {i \in 1 .. Len(frames) : frames[i].kind # "plain"} /\ Base' = Base
  BY TracedWhere DEF Base
<1>2. stack \in Seq(Context) /\ FreshId(stack) \in Id
  BY FreshIdType DEF TypeInv, TypeOK
<1>3. /\ Len(stack') = Len(stack) + 1 /\ stack'[Len(stack) + 1].id = f.id
      /\ \A i \in 1 .. Len(stack) : stack'[i].id = stack[i].id
  BY <1>2, PushIdFacts, PushKeepsIds DEF PushContext
<1>4. /\ frames' \in Seq(Frame) /\ Len(frames') = Len(frames) + 1
      /\ frames'[Len(frames) + 1] = f
      /\ \A i \in 1 .. Len(frames) : frames'[i] = frames[i]
  BY AppendProperties DEF TypeInv, TypeOK
<1>5. DOMAIN frames' = 1 .. Len(frames) + 1
  BY <1>1, <1>4, LenProperties
<1>6. Traced' = Traced \cup {Len(frames) + 1}
  BY <1>1, <1>4, <1>5 DEF Traced, TracedIn
<1>7. PICK p : p \in Places
  BY DEF Placed
<1>8. /\ \A i \in Traced : p[i] \in Base + 1 .. Len(stack) /\ stack[p[i]].id = frames[i].id
      /\ \A i, j \in Traced : i < j => p[i] < p[j]
  BY <1>7 DEF Places
<1>9. PICK q : q = [i \in Traced' |-> IF i = Len(frames) + 1 THEN Len(stack) + 1 ELSE p[i]]
  OBVIOUS
<1>10. q[Len(frames) + 1] = Len(stack) + 1 /\ \A i \in Traced : q[i] = p[i]
  BY <1>1, <1>6, <1>9
<1>11. Base + 1 .. Len(stack) \subseteq 1 .. Len(stack)
  BY <1>1
<1>12. Base \in 1 .. Len(stack) /\ stack[Base].id = root.id /\ Len(stack) >= Base
  BY <1>1 DEF Placed
<1>13. q \in [Traced' -> Base + 1 .. Len(stack) + 1]
  <2>1. ASSUME NEW i \in Traced' PROVE q[i] \in Base + 1 .. Len(stack) + 1
    BY <1>1, <1>6, <1>8, <1>10, <1>12
  <2> QED
    BY <1>9, <2>1
<1>14. \A i \in Traced' : stack'[q[i]].id = frames'[i].id
  BY <1>1, <1>3, <1>4, <1>6, <1>8, <1>10, <1>11
<1>15. \A i, j \in Traced' : i < j => q[i] < q[j]
  BY <1>1, <1>6, <1>8, <1>10
<1>16. q \in Places'
  BY <1>1, <1>3, <1>13, <1>14, <1>15 DEF Places
<1> QED
  BY <1>1, <1>3, <1>12, <1>16 DEF Placed

(* A call leaves; if a context is popped, it is not below that call's own. *)
LEMMA PlacedLeave ==
  ASSUME TypeInv, Placed, frames # <<>>, Leave(Top(frames)), UNCHANGED root,
         \/ UNCHANGED stack
         \/ Top(frames).kind # "plain" /\ stack' = Pop(stack)
  PROVE  Placed'
<1>1. /\ Len(frames) \in Nat /\ Len(stack) \in Nat /\ Base \in 1 .. 2
      /\ Traced = {i \in 1 .. Len(frames) : frames[i].kind # "plain"} /\ Base' = Base
  BY TracedWhere DEF Base
<1>2. /\ frames' \in Seq(Frame) /\ Len(frames') = Len(frames) - 1 /\ Len(frames) > 0
      /\ \A i \in 1 .. Len(frames) - 1 : frames'[i] = frames[i]
  <2>1. /\ frames' \in Seq(Frame) /\ Len(frames') = Len(frames) - 1
        /\ \A i \in 1 .. Len(frames) - 1 : frames'[i] = frames[i]
    BY ButlastFacts DEF TypeInv, TypeOK, Leave
  <2>2. Len(frames') \in Nat
    BY <2>1, LenProperties
  <2> QED
    BY <1>1, <2>1, <2>2
<1>3. DOMAIN frames' = 1 .. Len(frames) - 1
  BY <1>1, <1>2, LenProperties
<1>4. Traced' = Traced \ {Len(frames)}
  BY <1>1, <1>2, <1>3 DEF Traced, TracedIn
<1>5. PICK p : p \in Places
  BY DEF Placed
<1>6. /\ \A i \in Traced : p[i] \in Base + 1 .. Len(stack) /\ stack[p[i]].id = frames[i].id
      /\ \A i, j \in Traced : i < j => p[i] < p[j]
  BY <1>5 DEF Places
<1>7. Len(stack) >= Base /\ stack[Base].id = root.id
  BY DEF Placed
<1>8. /\ Len(stack') \in Nat /\ Len(stack') >= Base
      /\ \A i \in 1 .. Len(stack') : stack'[i] = stack[i]
      /\ \A i \in Traced' : p[i] <= Len(stack')
  <2>1. CASE UNCHANGED stack
    BY <1>1, <1>4, <1>6, <1>7, <2>1
  <2>2. CASE Top(frames).kind # "plain" /\ stack' = Pop(stack)
    <3>1. Len(frames) \in Traced
      BY <1>1, <1>2, <2>2 DEF Top
    <3>2. Len(stack) >= Base + 1 /\ stack # <<>>
      BY <1>1, <1>6, <3>1, EmptySeq
    <3>3. Len(stack') = Len(stack) - 1
          /\ \A i \in 1 .. Len(stack) - 1 : stack'[i] = stack[i]
      BY <2>2, <3>2, ButlastFacts DEF Pop, TypeInv, TypeOK
    <3>4. \A i \in Traced' : i < Len(frames) /\ i \in Traced
      BY <1>1, <1>4
    <3>5. \A i \in Traced' : p[i] < p[Len(frames)] /\ p[i] \in Nat
      BY <1>1, <1>6, <3>1, <3>4
    <3>6. p[Len(frames)] <= Len(stack) /\ p[Len(frames)] \in Nat
      BY <1>1, <1>6, <3>1
    <3> QED
      BY <1>1, <3>2, <3>3, <3>5, <3>6
  <2> QED
    BY <2>1, <2>2
<1>9. PICK q : q = [i \in Traced' |-> p[i]]
  OBVIOUS
<1>10. \A i \in Traced' : /\ i \in Traced /\ q[i] = p[i] /\ frames'[i] = frames[i]
                          /\ p[i] \in Base + 1 .. Len(stack') /\ i \in Nat
  BY <1>1, <1>2, <1>4, <1>6, <1>8, <1>9
<1>11. Base + 1 .. Len(stack') \subseteq 1 .. Len(stack') /\ Base \in 1 .. Len(stack')
  BY <1>1, <1>8
<1>12. q \in [Traced' -> Base + 1 .. Len(stack')]
  BY <1>9, <1>10
<1>13. \A i \in Traced' : stack'[q[i]].id = frames'[i].id
  BY <1>6, <1>8, <1>10, <1>11
<1>14. \A i, j \in Traced' : i < j => q[i] < q[j]
  BY <1>6, <1>10
<1>15. q \in Places'
  BY <1>1, <1>12, <1>13, <1>14 DEF Places
<1> QED
  BY <1>1, <1>7, <1>8, <1>11, <1>15 DEF Placed

LEMMA PlacedLeaveCore ==
  ASSUME TypeInv, Placed, frames # <<>>, LeaveCore(Top(frames))
  PROVE  Placed'
<1>1. Leave(Top(frames)) /\ UNCHANGED root
  BY DEF LeaveCore
<1>2. CASE Top(frames).kind = "hit"
  <2>1. stack' = Pop(stack)
    BY <1>2 DEF LeaveCore
  <2> QED
    BY <1>1, <1>2, <2>1, PlacedLeave
<1>3. CASE Top(frames).kind # "hit"
  <2>1. UNCHANGED stack
    BY <1>3 DEF LeaveCore
  <2> QED
    BY <1>1, <2>1, PlacedLeave
<1> QED
  BY <1>2, <1>3

(* RINIT: no call is in progress, and the top is the request's own.        *)
LEMMA PlacedRinit == ASSUME TypeInv, Rinit, is_sampled' PROVE Placed'
<1>1. /\ stack' \in Seq(Context) /\ Len(stack') = Base' /\ Base' \in 1 .. 2
  BY RinitStack DEF Base
<1>2. root'.id = RetrieveId(stack')
  BY DEF Rinit
<1>3. stack' # <<>>
  BY <1>1, EmptySeq
<1>4. stack'[Base'].id = root'.id
  BY <1>1, <1>2, <1>3 DEF RetrieveId, Top
<1>5. Traced' = {}
  <2>1. frames' = <<>>
    BY DEF Rinit, TypeInv, Modes
  <2>2. DOMAIN frames' = {}
    BY <2>1
  <2> QED
    BY <2>2 DEF Traced, TracedIn
<1>6. PICK p : p = [i \in {} |-> 0]
  OBVIOUS
<1>7. p \in Places'
  BY <1>5, <1>6 DEF Places
<1> QED
  BY <1>1, <1>4, <1>7 DEF Placed

LEMMA PlacedNext == TypeInv /\ PlacedInv /\ [Next]_vars => PlacedInv'
<1> SUFFICES ASSUME TypeInv, PlacedInv, [Next]_vars, Tracing' PROVE Placed'
  BY DEF PlacedInv
<1>1. CASE Rinit
  BY <1>1, PlacedRinit DEF Tracing
<1>2. CASE ~Rinit
  <2>1. Tracing
    BY <1>2 DEF Next, Call, Leaving, CallPlain, CallHit, CurlBegin, CurlDies,
         CurlEnd, Return, Unwind, UnwindCurl, RecordBails, LeaveCore, Exit,
         FatalError, Rshutdown, RshutdownDies, Die, RequestEnds, vars, globals,
         Tracing
  <2>2. Placed
    BY <2>1 DEF PlacedInv
  <2>3. CASE CallPlain
    <3>1. UNCHANGED <<stack, root>>
      BY <2>3 DEF CallPlain, history
    <3>2. PICK f \in Frame : f.kind = "plain" /\ frames' = Append(frames, f)
      <4>1. [kind |-> "plain", id |-> Enclosing, parent |-> NoId, parsed |-> TRUE]
              \in Frame
        BY EnclosingType DEF Frame, Id, NoId
      <4> QED
        BY <2>3, <4>1 DEF CallPlain
    <3>3. /\ Len(frames') = Len(frames) + 1 /\ frames'[Len(frames) + 1] = f
          /\ frames' \in Seq(Frame)
          /\ \A i \in 1 .. Len(frames) : frames'[i] = frames[i]
      BY <3>2, AppendProperties DEF TypeInv, TypeOK
    <3>4. DOMAIN frames' = 1 .. Len(frames) + 1
      BY <3>3, LenProperties
    <3>5. Traced' = Traced
      BY <3>2, <3>3, <3>4, TracedWhere DEF Traced, TracedIn
    <3>6. \A i \in Traced : frames'[i] = frames[i]
      BY <3>3, TracedWhere
    <3>7. PICK p : p \in Places
      BY <2>2 DEF Placed
    <3>8. Base' = Base
      BY <3>1 DEF Base
    <3>9. p \in Places'
      BY <3>1, <3>5, <3>6, <3>7, <3>8 DEF Places
    <3> QED
      BY <2>2, <3>1, <3>8, <3>9 DEF Placed
  <2>4. CASE CallHit
    <3>1. PICK f \in Frame : /\ f.kind = "hit" /\ f.id = RetrieveId(stack')
                             /\ frames' = Append(frames, f)
      BY <2>4, TracedFrame DEF CallHit
    <3> QED
      BY <2>2, <2>4, <3>1, PlacedEnter DEF CallHit, history
  <2>5. CASE CurlBegin
    <3>1. PICK f \in Frame : /\ f.kind = "curl" /\ f.id = RetrieveId(stack')
                             /\ frames' = Append(frames, f)
      BY <2>5, TracedFrame DEF CurlBegin
    <3> QED
      BY <2>2, <2>5, <3>1, PlacedEnter DEF CurlBegin, history
  <2>6. CASE CurlEnd
    <3>1. /\ frames # <<>> /\ Leave(Top(frames)) /\ Top(frames).kind = "curl"
          /\ UNCHANGED root /\ (stack' = Pop(stack) \/ UNCHANGED stack)
      BY <2>6 DEF CurlEnd
    <3> QED
      BY <2>2, <3>1, PlacedLeave
  <2>7. CASE Return
    BY <2>2, <2>7, PlacedLeaveCore DEF Return
  <2>8. CASE Unwind
    BY <2>2, <2>8, PlacedLeaveCore DEF Unwind, TypeInv, Modes
  <2>9. CASE UnwindCurl
    BY <2>2, <2>9, PlacedLeave DEF UnwindCurl, TypeInv, Modes
  <2>10. CASE RecordBails
    BY <2>2, <2>10, PlacedLeave DEF RecordBails
  <2>11. CASE CurlDies \/ Rshutdown \/ RshutdownDies
    BY <2>11 DEF CurlDies, Rshutdown, RshutdownDies, Die, Tracing
  <2>12. CASE Exit \/ FatalError \/ RequestEnds \/ UNCHANGED vars
    <3>1. UNCHANGED <<stack, frames, root>>
      BY <2>12 DEF Exit, FatalError, RequestEnds, vars, history
    <3> QED
      BY <2>2, <3>1 DEF Placed, Places, Base, Traced
  <2> QED
    BY <1>2, <2>3, <2>4, <2>5, <2>6, <2>7, <2>8, <2>9, <2>10, <2>11, <2>12
       DEF Next, Call, Leaving
<1> QED
  BY <1>1, <1>2

(***************************************************************************)
(* LiveContexts: the context of a call in progress is on the stack until   *)
(* the call ends, whatever the calls inside it push, pop or leak: the id   *)
(* that molten_curl_exec holds over the transfer is not freed under it.    *)
(***************************************************************************)
THEOREM ContextsStayLive == Spec => []LiveContexts
<1>1. Init => PlacedInv
  BY DEF Init, PlacedInv, Tracing
<1>2. Spec => []PlacedInv
  BY <1>1, PlacedNext, TypeInvariant, PTL DEF Spec
<1> QED
  BY <1>2, PlacedLive, PTL

-----------------------------------------------------------------------------
(***************************************************************************)
(* The call tree, while nothing is leaked.  The path leads from the        *)
(* request's own context through those of the calls in progress to the top *)
(* of the stack; a plain call stays where its caller is.                   *)
(***************************************************************************)
Path ==
  {q \in [0 .. Len(frames) -> Base .. Len(stack)] :
     /\ q[0] = Base /\ q[Len(frames)] = Len(stack)
     /\ \A i, j \in 0 .. Len(frames) : i <= j => q[i] <= q[j]
     /\ \A i \in 1 .. Len(frames) :
          /\ frames[i].id = stack[q[i]].id
          /\ frames[i].kind = "plain" => q[i] = q[i - 1]
          /\ frames[i].kind # "plain" => /\ q[i] = q[i - 1] + 1
                                        /\ frames[i].parent = stack[q[i - 1]].id}

Nested ==
  /\ Len(stack) >= Base /\ stack[Base].id = root.id
  /\ Base = 2 => stack[1].id = root.parent
  /\ \E q : q \in Path

NestedInv == Tracing /\ leaked = 0 => Nested

(* The span a new call runs under has its context on top.                  *)
LEMMA EnclosingOnTop ==
  ASSUME TypeInv, Nested
  PROVE  /\ Len(stack) \in Nat /\ Len(stack) >= Base
         /\ Enclosing = stack[Len(stack)].id
<1>1. /\ Len(frames) \in Nat /\ Len(stack) \in Nat
  BY TracedWhere
<1>2. PICK q : q \in Path
  BY DEF Nested
<1>3. CASE frames = <<>>
  <2>1. Len(frames) = 0
    BY <1>3
  <2> QED
    BY <1>1, <1>2, <1>3, <2>1 DEF Path, Nested, Enclosing
<1>4. CASE frames # <<>>
  <2>1. Len(frames) \in 1 .. Len(frames)
    BY <1>1, <1>4, EmptySeq DEF TypeInv, TypeOK
  <2> QED
    BY <1>1, <1>2, <1>4, <2>1 DEF Path, Nested, Enclosing, Top
<1> QED
  BY <1>3, <1>4

LEMMA NestedEnter ==
  ASSUME TypeInv, Nested, NEW f \in Frame, frames' = Append(frames, f), UNCHANGED root,
         \/ f.kind = "plain" /\ f.id = Enclosing /\ UNCHANGED stack
         \/ /\ f.kind # "plain" /\ f.parent = Enclosing
            /\ stack' = PushContext(stack) /\ f.id = RetrieveId(stack')
  PROVE  Nested'
<1>1. /\ Len(frames) \in Nat /\ Len(stack) \in Nat /\ Base \in 1 .. 2 /\ Base' = Base
      /\ Len(stack) >= Base /\ Enclosing = stack[Len(stack)].id
  BY TracedWhere, EnclosingOnTop DEF Base
<1>2. /\ Len(frames') = Len(frames) + 1 /\ frames'[Len(frames) + 1] = f
      /\ \A i \in 1 .. Len(frames) : frames'[i] = frames[i]
  BY AppendProperties DEF TypeInv, TypeOK
<1>3. PICK m \in Nat : /\ m = IF f.kind = "plain" THEN Len(stack) ELSE Len(stack) + 1
                       /\ Len(stack') = m /\ f.id = stack'[m].id
                       /\ \A i \in 1 .. Len(stack) : stack'[i].id = stack[i].id
  <2>1. stack \in Seq(Context) /\ FreshId(stack) \in Id
    BY FreshIdType DEF TypeInv, TypeOK
  <2>2. CASE f.kind = "plain"
    BY <1>1, <2>2
  <2>3. CASE f.kind # "plain"
    <3>1. stack' = PushId(stack, FreshId(stack)) /\ f.id = RetrieveId(stack')
      BY <2>3 DEF PushContext
    <3>2. /\ Len(stack') = Len(stack) + 1 /\ f.id = FreshId(stack)
          /\ stack'[Len(stack) + 1].id = FreshId(stack)
          /\ \A i \in 1 .. Len(stack) : stack'[i].id = stack[i].id
      BY <2>1, <3>1, PushIdFacts, PushKeepsIds
    <3>3. PICK m \in Nat : m = Len(stack) + 1
      BY <1>1
    <3> QED
      BY <2>3, <3>2, <3>3
  <2> QED
    BY <2>2, <2>3
<1>4. PICK q : q \in Path
  BY DEF Nested
<1>5. /\ \A i \in 0 .. Len(frames) : q[i] \in Base .. Len(stack)
      /\ q[0] = Base /\ q[Len(frames)] = Len(stack)
      /\ \A i, j \in 0 .. Len(frames) : i <= j => q[i] <= q[j]
      /\ \A i \in 1 .. Len(frames) :
           /\ frames[i].id = stack[q[i]].id
           /\ frames[i].kind = "plain" => q[i] = q[i - 1]
           /\ frames[i].kind # "plain" => /\ q[i] = q[i - 1] + 1
                                         /\ frames[i].parent = stack[q[i - 1]].id
  BY <1>4 DEF Path
<1>6. PICK r : r = [i \in 0 .. Len(frames) + 1 |-> IF i = Len(frames) + 1 THEN m ELSE q[i]]
  OBVIOUS
<1>7. r[Len(frames) + 1] = m /\ \A i \in 0 .. Len(frames) : r[i] = q[i]
  BY <1>1, <1>6
<1>8. m >= Len(stack) /\ Base .. Len(stack) \subseteq 1 .. Len(stack)
  BY <1>1, <1>3
<1>9. r \in [0 .. Len(frames') -> Base .. Len(stack')]
  <2>1. ASSUME NEW i \in 0 .. Len(frames) + 1 PROVE r[i] \in Base .. m
    BY <1>1, <1>3, <1>5, <1>7, <1>8
  <2> QED
    BY <1>2, <1>3, <1>6, <2>1
<1>10. r[0] = Base /\ r[Len(frames')] = Len(stack')
  BY <1>1, <1>2, <1>3, <1>5, <1>7
<1>11. ASSUME NEW i \in 1 .. Len(frames)
       PROVE  /\ frames'[i].id = stack'[r[i]].id
              /\ frames'[i].kind = "plain" => r[i] = r[i - 1]
              /\ frames'[i].kind # "plain" => /\ r[i] = r[i - 1] + 1
                                             /\ frames'[i].parent = stack'[r[i - 1]].id
  <2>1. i \in 0 .. Len(frames) /\ i - 1 \in 0 .. Len(frames)
    BY <1>1
  <2>2. /\ r[i] = q[i] /\ r[i - 1] = q[i - 1] /\ frames'[i] = frames[i]
        /\ q[i] \in 1 .. Len(stack) /\ q[i - 1] \in 1 .. Len(stack)
    BY <1>2, <1>5, <1>7, <1>8, <2>1
  <2>3. stack'[q[i]].id = stack[q[i]].id /\ stack'[q[i - 1]].id = stack[q[i - 1]].id
    BY <1>3, <2>2
  <2> QED
    BY <1>5, <2>2, <2>3, Zenon
<1>12. /\ f.id = stack'[r[Len(frames) + 1]].id
       /\ f.kind = "plain" => r[Len(frames) + 1] = r[Len(frames)]
       /\ f.kind # "plain" => /\ r[Len(frames) + 1] = r[Len(frames)] + 1
                             /\ f.parent = stack'[r[Len(frames)]].id
  <2>1. r[Len(frames)] = Len(stack) /\ Len(stack) \in 1 .. Len(stack)
    BY <1>1, <1>5, <1>7
  <2> QED
    BY <1>1, <1>3, <1>7, <2>1
<1>13. \A i \in 1 .. Len(frames') : i \in 1 .. Len(frames) \/ i = Len(frames) + 1
  BY <1>1, <1>2
<1>14. \A i \in 1 .. Len(frames') :
         /\ frames'[i].id = stack'[r[i]].id
         /\ frames'[i].kind = "plain" => r[i] = r[i - 1]
         /\ frames'[i].kind # "plain" => /\ r[i] = r[i - 1] + 1
                                        /\ frames'[i].parent = stack'[r[i - 1]].id
  <2>1. Len(frames) + 1 - 1 = Len(frames)
    BY <1>1
  <2> QED
    BY <1>2, <1>11, <1>12, <1>13, <2>1
<1>15. \A i, j \in 0 .. Len(frames') : i <= j => r[i] <= r[j]
  <2>1. \A i \in 0 .. Len(frames') : i \in 0 .. Len(frames) \/ i = Len(frames) + 1
    BY <1>1, <1>2
  <2>2. \A i \in 0 .. Len(frames) : q[i] <= m /\ q[i] \in Nat
    BY <1>1, <1>5, <1>8, <1>3
  <2> QED
    BY <1>1, <1>3, <1>5, <1>7, <2>1, <2>2
<1>16. r \in Path'
  BY <1>1, <1>9, <1>10, <1>14, <1>15 DEF Path
<1>17. /\ Len(stack') >= Base' /\ stack'[Base'].id = root'.id
       /\ Base' = 2 => stack'[1].id = root'.parent
  BY <1>1, <1>3 DEF Nested
<1> QED
  BY <1>16, <1>17 DEF Nested

(* A call leaves, and if it is traced its context goes; that context is    *)
(* the top, and below it is the one of the span it ran under.              *)
LEMMA NestedLeave ==
  ASSUME TypeInv, Nested, frames # <<>>, Leave(Top(frames)), UNCHANGED root,
         \/ Top(frames).kind = "plain" /\ UNCHANGED stack
         \/ Top(frames).kind # "plain" /\ stack' = Pop(stack)
  PROVE  /\ Nested'
         /\ Top(frames).kind # "plain" => /\ RetrieveId(stack) = Top(frames).id
                                          /\ RetrieveParent(stack) = Top(frames).parent
<1>1. /\ Len(frames) \in Nat /\ Len(stack) \in Nat /\ Base \in 1 .. 2 /\ Base' = Base
  BY TracedWhere DEF Base
<1>2. /\ Len(frames) > 0 /\ Len(frames') = Len(frames) - 1
      /\ \A i \in 1 .. Len(frames) - 1 : frames'[i] = frames[i]
  <2>1. /\ frames' \in Seq(Frame) /\ Len(frames') = Len(frames) - 1
        /\ \A i \in 1 .. Len(frames) - 1 : frames'[i] = frames[i]
    BY ButlastFacts DEF TypeInv, TypeOK, Leave
  <2>2. Len(frames') \in Nat
    BY <2>1, LenProperties
  <2> QED
    BY <1>1, <2>1, <2>2
<1>3. PICK q : q \in Path
  BY DEF Nested
<1>4. /\ \A i \in 0 .. Len(frames) : q[i] \in Base .. Len(stack)
      /\ q[0] = Base /\ q[Len(frames)] = Len(stack)
      /\ \A i, j \in 0 .. Len(frames) : i <= j => q[i] <= q[j]
      /\ \A i \in 1 .. Len(frames) :
           /\ frames[i].id = stack[q[i]].id
           /\ frames[i].kind = "plain" => q[i] = q[i - 1]
           /\ frames[i].kind # "plain" => /\ q[i] = q[i - 1] + 1
                                         /\ frames[i].parent = stack[q[i - 1]].id
  BY <1>3 DEF Path
<1>5. PICK n \in Nat : n = Len(frames) - 1 /\ n + 1 = Len(frames)
  BY <1>1, <1>2
<1>6. /\ Top(frames) = frames[n + 1] /\ n + 1 - 1 = n
      /\ n \in 0 .. Len(frames) /\ n + 1 \in 1 .. Len(frames)
  BY <1>1, <1>5 DEF Top
<1>7. q[n] \in Base .. Len(stack) /\ q[n] \in Nat
  BY <1>1, <1>4, <1>6
<1>8. /\ Len(stack') = q[n]
      /\ \A i \in 1 .. Len(stack') : stack'[i] = stack[i]
      /\ Top(frames).kind # "plain" => /\ RetrieveId(stack) = Top(frames).id
                                       /\ RetrieveParent(stack) = Top(frames).parent
  <2>1. CASE Top(frames).kind = "plain"
    <3>1. UNCHANGED stack /\ q[n] = q[n + 1]
      BY <1>4, <1>6, <2>1
    <3> QED
      BY <1>4, <1>5, <2>1, <3>1
  <2>2. CASE Top(frames).kind # "plain"
    <3>1. /\ stack' = Pop(stack) /\ q[n + 1] = q[n] + 1
          /\ Top(frames).parent = stack[q[n]].id
          /\ Top(frames).id = stack[q[n + 1]].id
      BY <1>4, <1>6, <2>2
    <3>2. /\ q[n] = Len(stack) - 1 /\ Len(stack) > 1
      BY <1>1, <1>4, <1>5, <1>7, <3>1
    <3>3. stack # <<>>
      BY <3>2, EmptySeq DEF TypeInv, TypeOK
    <3>4. /\ Len(stack') = Len(stack) - 1
          /\ \A i \in 1 .. Len(stack) - 1 : stack'[i] = stack[i]
      BY <3>1, <3>3, ButlastFacts DEF Pop, TypeInv, TypeOK
    <3>5. RetrieveId(stack) = stack[Len(stack)].id
      BY <3>3 DEF RetrieveId, Top
    <3>6. RetrieveParent(stack) = stack[Len(stack) - 1].id
      BY <3>2 DEF RetrieveParent
    <3> QED
      BY <1>4, <1>5, <3>1, <3>2, <3>4, <3>5, <3>6
  <2> QED
    BY <2>1, <2>2
<1>9. \A i \in 0 .. n : i \in 0 .. Len(frames) /\ q[i] \in Base .. q[n]
  BY <1>1, <1>4, <1>5, <1>6, <1>7
<1>10. PICK r : r = [i \in 0 .. n |-> q[i]]
  OBVIOUS
<1>11. /\ r \in [0 .. n -> Base .. q[n]] /\ \A i \in 0 .. n : r[i] = q[i]
  <2>1. \A i \in 0 .. n : r[i] = q[i]
    BY <1>10
  <2> QED
    BY <1>9, <1>10, <2>1
<1>12. ASSUME NEW i \in 1 .. n
       PROVE  /\ frames'[i].id = stack'[r[i]].id
              /\ frames'[i].kind = "plain" => r[i] = r[i - 1]
              /\ frames'[i].kind # "plain" => /\ r[i] = r[i - 1] + 1
                                             /\ frames'[i].parent = stack'[r[i - 1]].id
  <2>1. i \in 0 .. n /\ i - 1 \in 0 .. n /\ i \in 1 .. Len(frames)
    BY <1>5
  <2>2. /\ r[i] = q[i] /\ r[i - 1] = q[i - 1] /\ frames'[i] = frames[i]
        /\ q[i] \in 1 .. Len(stack') /\ q[i - 1] \in 1 .. Len(stack')
    BY <1>1, <1>2, <1>5, <1>7, <1>8, <1>9, <1>11, <2>1
  <2>3. stack'[q[i]] = stack[q[i]] /\ stack'[q[i - 1]] = stack[q[i - 1]]
    BY <1>8, <2>2
  <2> QED
    BY <1>4, <2>1, <2>2, <2>3, Zenon
<1>13. \A i, j \in 0 .. n : i <= j => r[i] <= r[j]
  BY <1>4, <1>9, <1>11
<1>14. r[0] = Base /\ r[n] = q[n] /\ Len(frames') = n
  BY <1>2, <1>4, <1>5, <1>11
<1>15. r \in Path'
  BY <1>1, <1>8, <1>11, <1>12, <1>13, <1>14 DEF Path
<1>16. /\ Len(stack') >= Base' /\ stack'[Base'].id = root'.id
       /\ Base' = 2 => stack'[1].id = root'.parent
  BY <1>1, <1>7, <1>8 DEF Nested
<1> QED
  BY <1>8, <1>15, <1>16 DEF Nested

(* RINIT: no call is in progress; the parent's context is below its own.   *)
LEMMA NestedRinit == ASSUME TypeInv, Rinit, is_sampled' PROVE Nested'
<1>1. /\ stack' \in Seq(Context) /\ Len(stack') = Base' /\ Base' \in 1 .. 2
  BY RinitStack DEF Base
<1>2. PICK h \in Upstream :
        /\ \/ h.span # NoId /\ stack' = PushId(HeaderStack(h), h.span)
           \/ h.span = NoId /\ stack' = PushContext(HeaderStack(h))
        /\ root' = [id |-> RetrieveId(stack'), parent |-> h.parent]
  BY DEF Rinit
<1>3. root'.id = RetrieveId(stack') /\ root'.parent = h.parent
  BY <1>2
<1>4. stack'[Base'].id = root'.id
  <2>1. stack' # <<>>
    BY <1>1, EmptySeq
  <2> QED
    BY <1>1, <1>3, <2>1 DEF RetrieveId, Top
<1>5. ASSUME Base' = 2 PROVE stack'[1].id = root'.parent
  <2>1. h.parent # NoId /\ h.parent \in Id /\ h.span \in Id
    BY <1>3, <1>5, RequestAssumption DEF Base
  <2>2. PICK e \in Seq(Context) : e = <<>> /\ Len(e) = 0
    <3>1. <<>> \in Seq(Context) /\ Len(<<>>) = 0
      OBVIOUS
    <3> QED
      BY <3>1
  <2>3. PICK s : s = PushId(e, h.parent)
    OBVIOUS
  <2>4. /\ s = HeaderStack(h) /\ s \in Seq(Context) /\ Len(s) = 1
        /\ s[1].id = h.parent
    <3>1. s = HeaderStack(h)
      BY <2>1, <2>2, <2>3 DEF HeaderStack
    <3>2. s \in Seq(Context) /\ Len(s) = Len(e) + 1
      BY <2>1, <2>2, <2>3, PushIdFacts
    <3>3. s[Len(e) + 1].id = h.parent
      BY <2>1, <2>2, <2>3, PushKeepsIds
    <3> QED
      BY <2>2, <3>1, <3>2, <3>3
  <2>5. FreshId(s) \in Id
    BY <2>4, FreshIdType DEF TypeInv, TypeOK
  <2>6. \A id \in Id : PushId(s, id)[1].id = s[1].id
    <3>1. 1 \in 1 .. Len(s)
      BY <2>4
    <3>2. ASSUME NEW id \in Id PROVE \A i \in 1 .. Len(s) : PushId(s, id)[i].id = s[i].id
      BY <2>4, PushKeepsIds
    <3> QED
      BY <3>1, <3>2
  <2>7. stack' = PushId(s, h.span) \/ stack' = PushId(s, FreshId(s))
    BY <1>2, <2>4 DEF PushContext
  <2> QED
    BY <1>3, <2>1, <2>4, <2>5, <2>6, <2>7
<1>6. Len(frames') = 0
  BY DEF Rinit, TypeInv, Modes
<1>7. PICK q : q = [i \in 0 .. 0 |-> Base']
  OBVIOUS
<1>8. q \in [0 .. 0 -> Base' .. Len(stack')] /\ \A i \in 0 .. 0 : q[i] = Base'
  BY <1>1, <1>7
<1>9. q \in Path'
  BY <1>1, <1>6, <1>8 DEF Path
<1> QED
  BY <1>1, <1>4, <1>5, <1>9 DEF Nested

(* The server span takes its ids from the two contexts on top.             *)
LEMMA NestedServer ==
  ASSUME TypeInv, Nested, frames = <<>>
  PROVE  RetrieveId(stack) = root.id /\ RetrieveParent(stack) = root.parent
<1>1. Len(frames) = 0 /\ Len(stack) \in Nat /\ Base \in 1 .. 2
  BY TracedWhere
<1>2. PICK q : q \in Path
  BY DEF Nested
<1>3. Len(stack) = Base
  BY <1>1, <1>2 DEF Path
<1>4. stack # <<>>
  BY <1>1, <1>3, EmptySeq DEF TypeInv, TypeOK
<1>5. RetrieveId(stack) = root.id
  BY <1>3, <1>4 DEF RetrieveId, Top, Nested
<1>6. CASE Base = 1
  BY <1>3, <1>5, <1>6 DEF RetrieveParent, Base
<1>7. CASE Base = 2
  BY <1>3, <1>5, <1>7 DEF RetrieveParent, Nested
<1> QED
  BY <1>1, <1>5, <1>6, <1>7

(* The spans collected are those of the call tree.                         *)
Same(list, tr) == \A i \in 1 .. Len(list) : list[i] = tr[i]

TreeInv ==
  /\ NestedInv
  /\ is_sampled /\ leaked = 0 => Same(Collected, truth)

LEMMA TreeMeans == TypeInv => (TreeInv => SpanTree)
<1> SUFFICES ASSUME TypeInv, TreeInv PROVE SpanTree
  OBVIOUS
<1>1. Collected \in Seq(Span)
  BY DEF Collected, TypeInv, TypeOK
<1>2. DOMAIN Collected = 1 .. Len(Collected)
  BY <1>1, LenProperties
<1> QED
  BY <1>2 DEF TreeInv, Same, SpanTree

LEMMA AddSame ==
  ASSUME NEW list \in Seq(Span), NEW tr \in Seq(Span), Records(list, tr),
         Same(list, tr), NEW a \in Span
  PROVE  Same(AddSpan(list, a), Append(tr, a))
<1>1. list # NoLog /\ SpanCap \in Nat /\ Len(list) \in Nat /\ Len(tr) \in Nat
  BY RequestAssumption, LenProperties
<1>2. Len(list) <= Len(tr) /\ (Len(list) < SpanCap => Len(list) = Len(tr))
  BY <1>1 DEF Records
<1>3. PICK t : t = Append(tr, a)
  OBVIOUS
<1>4. t[Len(tr) + 1] = a /\ \A i \in 1 .. Len(tr) : t[i] = tr[i]
  BY <1>3, AppendProperties
<1>5. CASE Len(list) < SpanCap
  <2>1. PICK l : l = Append(list, a)
    OBVIOUS
  <2>2. /\ Len(l) = Len(list) + 1 /\ l[Len(list) + 1] = a
        /\ \A i \in 1 .. Len(list) : l[i] = list[i]
    BY <2>1, AppendProperties
  <2>3. \A i \in 1 .. Len(l) : i = Len(list) + 1 \/ i \in 1 .. Len(list)
    BY <1>1, <2>2
  <2>4. AddSpan(list, a) = l
    BY <1>1, <1>5, <2>1 DEF AddSpan
  <2>5. \A i \in 1 .. Len(l) : l[i] = t[i]
    BY <1>1, <1>2, <1>4, <1>5, <2>2, <2>3 DEF Same
  <2> QED
    BY <1>3, <2>4, <2>5 DEF Same
<1>6. CASE ~(Len(list) < SpanCap)
  <2>1. AddSpan(list, a) = list
    BY <1>6 DEF AddSpan
  <2>2. \A i \in 1 .. Len(list) : list[i] = t[i]
    BY <1>1, <1>2, <1>4 DEF Same
  <2> QED
    BY <1>3, <2>1, <2>2 DEF Same
<1> QED
  BY <1>5, <1>6

(* A call is left with its context popped, and perhaps recorded.           *)
LEMMA TreeLeave ==
  ASSUME TypeInv, RecordInv, TreeInv, frames # <<>>, Leave(Top(frames)),
         UNCHANGED <<phase, globals, batch, root, leaked>>,
         \/ Top(frames).kind = "plain" /\ UNCHANGED stack
         \/ Top(frames).kind # "plain" /\ stack' = Pop(stack),
         \/ UNCHANGED <<spans, truth>>
         \/ /\ Top(frames).kind = "hit"
            /\ spans' = AddSpan(spans, Client("client", RetrieveId(stack),
                                              RetrieveParent(stack)))
            /\ truth' = Append(truth, Client("client", Top(frames).id,
                                             Top(frames).parent))
         \/ /\ Top(frames).kind = "curl" /\ Top(frames).parsed
            /\ spans' = AddSpan(spans, Client("php_curl", Top(frames).id,
                                              RetrieveParent(stack)))
            /\ truth' = Append(truth, Client("php_curl", Top(frames).id,
                                             Top(frames).parent))
  PROVE  TreeInv'
<1>1. UNCHANGED <<in_request, is_sampled>>
  BY DEF globals
<1>2. NestedInv'
  <2> SUFFICES ASSUME Tracing', leaked' = 0 PROVE Nested'
    BY DEF NestedInv
  <2>1. Nested
    BY <1>1 DEF TreeInv, NestedInv, Tracing
  <2> QED
    BY <2>1, NestedLeave
<1>3. ASSUME is_sampled', leaked' = 0 PROVE Same(Collected', truth')
  <2>1. is_sampled /\ leaked = 0 /\ Same(Collected, truth)
    BY <1>1, <1>3 DEF TreeInv
  <2>2. CASE UNCHANGED <<spans, truth>>
    BY <2>1, <2>2 DEF Collected
  <2>3. CASE ~UNCHANGED <<spans, truth>>
    <3>1. /\ Top(frames).kind = "hit" \/ (Top(frames).kind = "curl" /\ Top(frames).parsed)
          /\ Top(frames).kind # "plain"
      BY <2>3
    <3>2. Len(frames) \in 1 .. Len(frames) /\ Top(frames) = frames[Len(frames)]
      BY TracedWhere, EmptySeq DEF Top, TypeInv, TypeOK
    <3>3. phase = "run" /\ in_request
      BY <3>1, <3>2, LeaveFacts DEF RecordInv, TypeInv, TypeOK, Modes
    <3>4. Nested
      BY <2>1, <3>3 DEF TreeInv, NestedInv, Tracing
    <3>5. RetrieveId(stack) = Top(frames).id /\ RetrieveParent(stack) = Top(frames).parent
      BY <3>1, <3>4, NestedLeave
    <3>6. Top(frames).id \in Id /\ Top(frames).parent \in Id
      BY LeaveFacts DEF Frame
    <3>7. PICK a \in Span : spans' = AddSpan(spans, a) /\ truth' = Append(truth, a)
      <4>1. \A k \in {"client", "php_curl"} :
              Client(k, Top(frames).id, Top(frames).parent) \in Span
        BY <3>6 DEF Client, Span
      <4> QED
        BY <2>3, <3>5, <4>1
    <3>8. spans \in Seq(Span) /\ truth \in Seq(Span) /\ spans # NoLog
      BY <2>1, <3>3 DEF TypeInv, TypeOK, Modes
    <3>9. Records(spans, truth) /\ Same(spans, truth)
      BY <2>1, <3>8 DEF Collected, RecordInv
    <3>10. Same(spans', truth')
      BY <3>7, <3>8, <3>9, AddSame
    <3>11. spans' # NoLog
      BY <3>7, <3>8, AddSpanType, RequestAssumption
    <3> QED
      BY <3>10, <3>11 DEF Collected
  <2> QED
    BY <2>2, <2>3
<1> QED
  BY <1>2, <1>3 DEF TreeInv

LEMMA TreeLeaveCore ==
  ASSUME TypeInv, RecordInv, TreeInv, frames # <<>>, LeaveCore(Top(frames))
  PROVE  TreeInv'
<1>1. /\ Leave(Top(frames)) /\ UNCHANGED <<phase, globals, batch, root, leaked>>
  BY DEF LeaveCore
<1>2. CASE Top(frames).kind = "hit"
  <2>1. /\ stack' = Pop(stack) /\ RecordSpan(Top(frames))
    BY <1>2 DEF LeaveCore
  <2> QED
    BY <1>1, <1>2, <2>1, TreeLeave DEF RecordSpan
<1>3. CASE Top(frames).kind # "hit"
  <2>1. Top(frames).kind = "plain" /\ UNCHANGED <<spans, truth, stack>>
    BY <1>3 DEF LeaveCore
  <2> QED
    BY <1>1, <2>1, TreeLeave
<1> QED
  BY <1>2, <1>3

(* A call is entered.                                                      *)
LEMMA TreeEnter ==
  ASSUME TypeInv, TreeInv, NEW f \in Frame, frames' = Append(frames, f),
         UNCHANGED <<globals, spans, truth, batch, root, leaked>>,
         \/ f.kind = "plain" /\ f.id = Enclosing /\ UNCHANGED stack
         \/ /\ f.kind # "plain" /\ f.parent = Enclosing
            /\ stack' = PushContext(stack) /\ f.id = RetrieveId(stack')
  PROVE  TreeInv'
<1>1. UNCHANGED <<in_request, is_sampled>>
  BY DEF globals
<1>2. NestedInv'
  <2> SUFFICES ASSUME Tracing', leaked' = 0 PROVE Nested'
    BY DEF NestedInv
  <2>1. Nested
    BY <1>1 DEF TreeInv, NestedInv, Tracing
  <2> QED
    BY <2>1, NestedEnter
<1>3. Collected' = Collected
  BY DEF Collected
<1> QED
  BY <1>1, <1>2, <1>3 DEF TreeInv

(* The ends of a request.                                                  *)
LEMMA TreeEnds ==
  ASSUME TypeInv, RecordInv, TreeInv, Rinit \/ Rshutdown
  PROVE  TreeInv'
<1>1. CASE Rinit
  <2>1. NestedInv'
    BY <1>1, NestedRinit DEF NestedInv, Tracing
  <2>2. ASSUME is_sampled' PROVE Same(Collected', truth')
    <3>1. spans' = <<>> /\ <<>> \in Seq(Span) /\ Len(<<>>) = 0
      BY <1>1, <2>2, RinitStack
    <3>2. Collected' = <<>>
      BY <3>1, RequestAssumption DEF Collected
    <3> QED
      BY <3>1, <3>2 DEF Same
  <2> QED
    BY <2>1, <2>2 DEF TreeInv
<1>2. CASE Rshutdown
  <2>1. /\ phase = "run" /\ frames = <<>> /\ ~in_request'
        /\ UNCHANGED <<is_sampled, root, leaked>>
    BY <1>2 DEF Rshutdown
  <2>2. NestedInv'
    BY <2>1 DEF NestedInv, Tracing
  <2>3. ASSUME is_sampled', leaked' = 0 PROVE Same(Collected', truth')
    <3>1. is_sampled /\ Nested /\ Same(Collected, truth)
      BY <2>1, <2>3 DEF TreeInv, NestedInv, Tracing, TypeInv, Modes
    <3>2. RetrieveId(stack) = root.id /\ RetrieveParent(stack) = root.parent
      BY <2>1, <3>1, NestedServer
    <3>3. errors = raised
      BY <2>1, <3>1 DEF RecordInv
    <3>4. PICK a : a = Server(root.id, root.parent, raised)
      OBVIOUS
    <3>5. a \in Span
      BY <3>4 DEF Server, Span, TypeInv, TypeOK
    <3>6. batch' = AddSpan(spans, a) /\ truth' = Append(truth, a) /\ spans' = NoLog
      BY <1>2, <3>1, <3>2, <3>3, <3>4 DEF Rshutdown
    <3>7. spans \in Seq(Span) /\ truth \in Seq(Span) /\ spans # NoLog
      BY <2>1, <3>1 DEF TypeInv, TypeOK, Modes
    <3>8. Records(spans, truth) /\ Same(spans, truth)
      BY <3>1, <3>7 DEF Collected, RecordInv
    <3> QED
      BY <3>5, <3>6, <3>7, <3>8, AddSame DEF Collected
  <2> QED
    BY <2>2, <2>3 DEF TreeInv
<1> QED
  BY <1>1, <1>2

LEMMA TreeCalls ==
  ASSUME TypeInv, RecordInv, TreeInv, CallPlain \/ CallHit \/ CurlBegin \/ CurlEnd
  PROVE  TreeInv'
<1>1. CASE CallPlain
  <2>1. PICK f : f = [kind |-> "plain", id |-> Enclosing, parent |-> NoId, parsed |-> TRUE]
    OBVIOUS
  <2>2. f \in Frame /\ f.kind = "plain" /\ f.id = Enclosing
    BY <2>1, EnclosingType DEF Frame, Id, NoId
  <2>3. /\ frames' = Append(frames, f) /\ UNCHANGED stack
        /\ UNCHANGED <<globals, spans, truth, batch, root, leaked>>
    BY <1>1, <2>1 DEF CallPlain, history
  <2> QED
    BY <2>2, <2>3, TreeEnter
<1>2. CASE CallHit
  <2>1. stack' = PushContext(stack)
        /\ UNCHANGED <<globals, spans, truth, batch, root, leaked>>
    BY <1>2 DEF CallHit, history
  <2>2. PICK f \in Frame :
          /\ f.kind = "hit" /\ f.id = RetrieveId(stack') /\ f.parent = Enclosing
          /\ frames' = Append(frames, f)
    BY <1>2, <2>1, TracedFrame DEF CallHit
  <2> QED
    BY <2>1, <2>2, TreeEnter
<1>3. CASE CurlBegin
  <2>1. stack' = PushContext(stack)
        /\ UNCHANGED <<globals, spans, truth, batch, root, leaked>>
    BY <1>3 DEF CurlBegin, history
  <2>2. PICK f \in Frame :
          /\ f.kind = "curl" /\ f.id = RetrieveId(stack') /\ f.parent = Enclosing
          /\ frames' = Append(frames, f)
    BY <1>3, <2>1, TracedFrame DEF CurlBegin
  <2> QED
    BY <2>1, <2>2, TreeEnter
<1>4. CASE CurlEnd
  <2>1. /\ frames # <<>> /\ Leave(Top(frames)) /\ Top(frames).kind = "curl"
        /\ UNCHANGED <<phase, globals, batch, root>>
    BY <1>4 DEF CurlEnd
  <2>2. CASE Top(frames).parsed
    <3>1. /\ stack' = Pop(stack) /\ UNCHANGED leaked
          /\ spans' = AddSpan(spans, Client("php_curl", Top(frames).id,
                                            RetrieveParent(stack)))
          /\ truth' = Append(truth, Client("php_curl", Top(frames).id,
                                           Top(frames).parent))
      BY <1>4, <2>2 DEF CurlEnd
    <3> QED
      BY <2>1, <2>2, <3>1, TreeLeave
  <2>3. CASE ~Top(frames).parsed
    <3>1. leaked' = leaked + 1 /\ leaked \in Nat
      BY <1>4, <2>3 DEF CurlEnd, TypeInv, TypeOK
    <3> QED
      BY <3>1 DEF TreeInv, NestedInv
  <2> QED
    BY <2>2, <2>3
<1> QED
  BY <1>1, <1>2, <1>3, <1>4

LEMMA TreeNext == TypeInv /\ RecordInv /\ TreeInv /\ [Next]_vars => TreeInv'
<1> SUFFICES ASSUME TypeInv, RecordInv, TreeInv, [Next]_vars PROVE TreeInv'
  OBVIOUS
<1>1. CASE Return
  BY <1>1, TreeLeaveCore DEF Return
<1>2. CASE Unwind
  BY <1>2, TreeLeaveCore DEF Unwind, TypeInv, Modes
<1>3. CASE UnwindCurl \/ RecordBails
  <2>1. leaked' = leaked + 1 /\ leaked \in Nat
    BY <1>3 DEF UnwindCurl, RecordBails, TypeInv, TypeOK
  <2> QED
    BY <2>1 DEF TreeInv, NestedInv
<1>4. CASE CurlDies \/ RshutdownDies
  BY <1>4 DEF CurlDies, RshutdownDies, Die, TreeInv, NestedInv, Tracing
<1>5. CASE Exit \/ FatalError \/ RequestEnds \/ UNCHANGED vars
  <2>1. UNCHANGED <<globals, stack, frames, root, spans, truth, batch, leaked>>
    BY <1>5 DEF Exit, FatalError, RequestEnds, vars, history
  <2>2. UNCHANGED <<is_sampled, in_request>>
    BY <2>1 DEF globals
  <2>3. Collected' = Collected
    BY <2>1 DEF Collected
  <2>4. Nested' = Nested
    BY <2>1 DEF Nested, Path, Base
  <2> QED
    BY <2>1, <2>2, <2>3, <2>4 DEF TreeInv, NestedInv, Tracing
<1> QED
  BY <1>1, <1>2, <1>3, <1>4, <1>5, TreeEnds, TreeCalls DEF Next, Call, Leaving

(***************************************************************************)
(* SpanTree: as long as nothing was leaked, every span in the list has the *)
(* id and the parent of its call in the call tree, for any nesting and     *)
(* however the calls are left, and the server span those of the request.   *)
(***************************************************************************)
THEOREM AlwaysSpanTree == Spec => []SpanTree
<1>1. Init => RecordInv /\ TreeInv
  BY DEF Init, RecordInv, TreeInv, NestedInv, Tracing
<1>2. Spec => []RecordInv
  BY <1>1, RecordNext, TypeInvariant, PTL DEF Spec
<1>3. Spec => []TreeInv
  BY <1>1, <1>2, TreeNext, TypeInvariant, PTL DEF Spec
<1> QED
  BY <1>3, TreeMeans, TypeInvariant, PTL
-----------------------------------------------------------------------------
(***************************************************************************)
(* Ids.  An id is given to a request, to a call or to a context; ahead are *)
(* the ids that contexts on the stack have yet to give to children, and    *)
(* what those may give to theirs, or the numbers still to be drawn.  (What *)
(* a caller drew for the request may be one of these: see UpstreamApart.)  *)
(***************************************************************************)
Beyond(x, c) ==
  /\ Len(x) > Len(c.id) /\ x[Len(c.id) + 1] >= c.count
  /\ \A m \in 1 .. Len(c.id) : x[m] = c.id[m]

Ahead(x) == IF LevelId THEN \E j \in Base .. Len(stack) : Beyond(x, stack[j])
                       ELSE \E n \in step .. MaxStep : x = <<n>>

Given == (IF UpstreamApart THEN {root.id} ELSE {})
           \cup {frames[i].id : i \in Traced} \cup {truth[i].id : i \in DOMAIN truth}
           \cup (IF LevelId THEN {stack[j].id : j \in Base .. Len(stack)} ELSE {})

CallsApart ==
  \A i \in Traced : /\ UpstreamApart => frames[i].id # root.id
                    /\ \A j \in Traced \ {i} : frames[i].id # frames[j].id
                    /\ \A j \in DOMAIN truth : frames[i].id # truth[j].id

ContextsApart ==
  \A i, j \in Base .. Len(stack) : i < j => stack[i].id # stack[j].id

(* No id that was given is ahead, so the next one is new; and, under       *)
(* --enable-level-id, so are those that its children will get.             *)
Unique ==
  /\ \A x \in Given : ~Ahead(x)
  /\ LevelId => ContextsApart
  /\ CallsApart

IdsInv == Tracing => Unique

LEMMA IdsMean == IdsInv => UniqueIds
  BY DEF IdsInv, Unique, CallsApart, UniqueIds

LEMMA GivenIds ==
  ASSUME TypeInv
  PROVE  /\ Given \subseteq Id /\ Base \in 1 .. 2
         /\ stack \in Seq(Context) /\ Len(stack) \in Nat /\ step \in Nat
         /\ \A j \in Base .. Len(stack) : stack[j] \in Context
<1>1. /\ stack \in Seq(Context) /\ frames \in Seq(Frame) /\ truth \in Seq(Span)
      /\ root \in [id : Id, parent : Id] /\ step \in Nat
  BY DEF TypeInv, TypeOK
<1>2. /\ Len(frames) \in Nat /\ Len(stack) \in Nat /\ Base \in 1 .. 2
      /\ Traced = {i \in 1 .. Len(frames) : frames[i].kind # "plain"}
  BY TracedWhere
<1>3. \A j \in Base .. Len(stack) : stack[j] \in Context
  <2> SUFFICES ASSUME NEW j \in Base .. Len(stack) PROVE stack[j] \in Context
    OBVIOUS
  <2>1. j \in 1 .. Len(stack)
    BY <1>2
  <2> QED
    BY <1>1, <2>1, ElementOfSeq
<1>4. \A i \in Traced : frames[i] \in Frame
  BY <1>1, <1>2, ElementOfSeq
<1>5. \A i \in DOMAIN truth : truth[i] \in Span
  BY <1>1, ElementOfSeq, LenProperties
<1> QED
  BY <1>1, <1>2, <1>3, <1>4, <1>5 DEF Given, Context, Frame, Span

(* A push counts a child of the top.                                       *)
LEMMA PushCounts ==
  ASSUME LevelId, NEW s \in Seq(Context), Len(s) > 0, NEW id \in Id
  PROVE  /\ \A i \in 1 .. Len(s) - 1 : PushId(s, id)[i] = s[i]
         /\ PushId(s, id)[Len(s)].id = s[Len(s)].id
         /\ PushId(s, id)[Len(s)].count = s[Len(s)].count + 1
         /\ PushId(s, id)[Len(s) + 1].id = id /\ PushId(s, id)[Len(s) + 1].count = 1
<1>1. Len(s) \in Nat /\ s # <<>> /\ Len(s) \in 1 .. Len(s)
  BY LenProperties, EmptySeq
<1>2. PICK b \in Seq(Context) : b = BumpTop(s) /\ Len(b) = Len(s)
  BY BumpFacts
<1>3. PICK c \in Context : c = [id |-> id, count |-> 1] /\ c.id = id /\ c.count = 1
  <2>1. [id |-> id, count |-> 1] \in Context
    BY DEF Context
  <2> QED
    BY <2>1
<1>4. /\ \A i \in 1 .. Len(s) - 1 : b[i] = s[i]
      /\ b[Len(s)].id = s[Len(s)].id /\ b[Len(s)].count = s[Len(s)].count + 1
  <2>1. b = [s EXCEPT ![Len(s)].count = @ + 1]
    BY <1>1, <1>2 DEF BumpTop
  <2>2. s[Len(s)] \in Context
    BY <1>1, ElementOfSeq
  <2>3. b[Len(s)] = [s[Len(s)] EXCEPT !.count = @ + 1]
    BY <1>1, <2>1
  <2>4. \A i \in 1 .. Len(s) - 1 : b[i] = s[i]
    BY <1>1, <2>1
  <2> QED
    BY <2>2, <2>3, <2>4 DEF Context
<1>5. /\ PushId(s, id) = Append(b, c)
      /\ Append(b, c)[Len(b) + 1] = c
      /\ \A i \in 1 .. Len(b) : Append(b, c)[i] = b[i]
  BY <1>2, <1>3, AppendProperties DEF PushId
<1> QED
  BY <1>1, <1>2, <1>3, <1>4, <1>5

(* build_span_id_level: what a context gives to its next child is ahead,   *)
(* and so is whatever that child will give.                                *)
LEMMA NextChild ==
  ASSUME NEW c \in Context, NEW y, y = Append(c.id, c.count)
  PROVE  /\ y \in Id /\ Len(y) = Len(c.id) + 1 /\ Len(c.id) \in Nat
         /\ y[Len(c.id) + 1] = c.count
         /\ \A m \in 1 .. Len(c.id) : y[m] = c.id[m]
         /\ Beyond(y, c)
         /\ \A x \in Id : /\ Len(x) > Len(y)
                          /\ \A m \in 1 .. Len(y) : x[m] = y[m]
                          => Beyond(x, c)
<1>1. c.id \in Seq(Nat) /\ c.count \in Nat
  BY DEF Context, Id
<1>2. /\ y \in Seq(Nat) /\ Len(y) = Len(c.id) + 1 /\ Len(c.id) \in Nat
      /\ y[Len(c.id) + 1] = c.count
      /\ \A m \in 1 .. Len(c.id) : y[m] = c.id[m]
  BY <1>1, AppendProperties, LenProperties
<1>3. Beyond(y, c)
  BY <1>1, <1>2 DEF Beyond
<1>4. ASSUME NEW x \in Id, Len(x) > Len(y), \A m \in 1 .. Len(y) : x[m] = y[m]
      PROVE  Beyond(x, c)
  <2>1. Len(x) \in Nat
    BY LenProperties DEF Id
  <2>2. Len(c.id) + 1 \in 1 .. Len(y) /\ \A m \in 1 .. Len(c.id) : m \in 1 .. Len(y)
    BY <1>2
  <2>3. x[Len(c.id) + 1] = c.count /\ \A m \in 1 .. Len(c.id) : x[m] = c.id[m]
    BY <1>2, <1>4, <2>2
  <2> QED
    BY <1>1, <1>2, <1>4, <2>1, <2>3 DEF Beyond
<1> QED
  BY <1>2, <1>3, <1>4 DEF Id

(* It is beyond no context but its own, if its own id was not.             *)
LEMMA NoOtherChild ==
  ASSUME NEW c \in Context, NEW d \in Context, NEW y, y = Append(c.id, c.count),
         c.id # d.id, ~Beyond(c.id, d)
  PROVE  ~Beyond(y, d)
<1> SUFFICES ASSUME Beyond(y, d) PROVE FALSE
  OBVIOUS
<1>1. /\ c.id \in Seq(Nat) /\ d.id \in Seq(Nat)
      /\ Len(c.id) \in Nat /\ Len(d.id) \in Nat
  BY LenProperties DEF Context, Id
<1>2. Len(y) = Len(c.id) + 1 /\ \A m \in 1 .. Len(c.id) : y[m] = c.id[m]
  BY NextChild
<1>3. /\ Len(d.id) <= Len(c.id) /\ y[Len(d.id) + 1] >= d.count
      /\ \A m \in 1 .. Len(d.id) : c.id[m] = d.id[m]
  BY <1>1, <1>2 DEF Beyond
<1>4. CASE Len(d.id) = Len(c.id)
  BY <1>1, <1>3, <1>4, SeqEqual
<1>5. CASE Len(d.id) < Len(c.id)
  <2>1. Len(d.id) + 1 \in 1 .. Len(c.id)
    BY <1>1, <1>5
  <2> QED
    BY <1>2, <1>3, <1>5, <2>1 DEF Beyond
<1> QED
  BY <1>1, <1>3, <1>4, <1>5

(* A traced call enters, under an id that was ahead.                       *)
LEMMA IdsEnter ==
  ASSUME TypeInv, Placed, Unique, NEW f \in Frame, f.kind # "plain",
         frames' = Append(frames, f), stack' = PushContext(stack),
         f.id = RetrieveId(stack'), step' = StepAfterPush,
         LevelId \/ step < MaxStep, UNCHANGED <<root, truth>>
  PROVE  Unique'
<1> DEFINE n == Len(stack)
           y == FreshId(stack)
<1>1. /\ Given \subseteq Id /\ Base \in 1 .. 2 /\ stack \in Seq(Context) /\ n \in Nat
      /\ step \in Nat /\ \A j \in Base .. n : stack[j] \in Context
  BY GivenIds
<1>2. /\ Base' = Base /\ n >= Base /\ n \in Base .. n /\ MaxStep \in Nat
  BY <1>1, RequestAssumption DEF Placed, Base
<1>3. y \in Id
  BY <1>1, FreshIdType
<1>4. /\ Len(stack') = n + 1 /\ stack'[n + 1].id = y /\ f.id = y
      /\ \A j \in 1 .. n : stack'[j].id = stack[j].id
  BY <1>1, <1>3, PushIdFacts, PushKeepsIds DEF PushContext
<1>5. /\ Len(frames) \in Nat /\ frames'[Len(frames) + 1] = f
      /\ \A i \in 1 .. Len(frames) : frames'[i] = frames[i]
      /\ Traced = {i \in 1 .. Len(frames) : frames[i].kind # "plain"}
      /\ Traced' = Traced \cup {Len(frames) + 1}
  <2>1. /\ frames' \in Seq(Frame) /\ Len(frames') = Len(frames) + 1
        /\ frames'[Len(frames) + 1] = f
        /\ \A i \in 1 .. Len(frames) : frames'[i] = frames[i]
    BY AppendProperties DEF TypeInv, TypeOK
  <2>2. /\ Len(frames) \in Nat
        /\ Traced = {i \in 1 .. Len(frames) : frames[i].kind # "plain"}
    BY TracedWhere
  <2>3. DOMAIN frames' = 1 .. Len(frames) + 1
    BY <2>1, LenProperties
  <2> QED
    BY <2>1, <2>2, <2>3 DEF Traced, TracedIn
<1>6. LevelId => /\ y = Append(stack[n].id, stack[n].count)
                 /\ \A j \in Base .. n - 1 : stack'[j] = stack[j]
                 /\ stack'[n].id = stack[n].id /\ stack'[n].count = stack[n].count + 1
                 /\ stack'[n + 1].count = 1
  <2> SUFFICES ASSUME LevelId
               PROVE  /\ y = Append(stack[n].id, stack[n].count)
                      /\ \A j \in Base .. n - 1 : stack'[j] = stack[j]
                      /\ stack'[n].id = stack[n].id
                      /\ stack'[n].count = stack[n].count + 1
                      /\ stack'[n + 1].count = 1
    OBVIOUS
  <2>1. stack # <<>> /\ n > 0
    BY <1>1, <1>2, EmptySeq
  <2>2. y = Append(stack[n].id, stack[n].count)
    BY <2>1 DEF FreshId, Top
  <2>3. /\ \A j \in 1 .. n - 1 : stack'[j] = stack[j]
        /\ stack'[n].id = stack[n].id /\ stack'[n].count = stack[n].count + 1
        /\ stack'[n + 1].count = 1
    BY <1>1, <1>3, <2>1, PushCounts DEF PushContext
  <2> QED
    BY <1>1, <2>2, <2>3
<1>7. ~LevelId => y = <<step>> /\ step' = step + 1 /\ step < MaxStep
  BY DEF FreshId, StepAfterPush
<1> HIDE DEF y
<1>8. Given' = Given \cup {y}
  <2>1. {frames'[i].id : i \in Traced'} = {frames[i].id : i \in Traced} \cup {y}
    BY <1>4, <1>5
  <2>2. \A j \in Base .. n + 1 : j \in Base .. n \/ j = n + 1
    BY <1>1, <1>2
  <2>3. \A j \in Base .. n : j \in 1 .. n /\ j \in Base .. n + 1
    BY <1>1, <1>2
  <2>4. {stack'[j].id : j \in Base .. n + 1} = {stack[j].id : j \in Base .. n} \cup {y}
    BY <1>1, <1>2, <1>4, <2>2, <2>3
  <2> QED
    BY <1>2, <1>4, <2>1, <2>4 DEF Given
<1>9. Ahead(y)
  <2>1. CASE LevelId
    <3>1. Beyond(y, stack[n])
      BY <1>1, <1>2, <1>6, <2>1, NextChild
    <3> QED
      BY <1>2, <2>1, <3>1 DEF Ahead
  <2>2. CASE ~LevelId
    BY <1>1, <1>2, <1>7, <2>2 DEF Ahead
  <2> QED
    BY <2>1, <2>2
<1>10. y \notin Given
  BY <1>9 DEF Unique
<1>11. ASSUME NEW x \in Given' PROVE ~Ahead(x)'
  <2>1. CASE ~LevelId
    <3>1. ASSUME NEW k \in step + 1 .. MaxStep PROVE x # <<k>>
      <4>1. CASE x \in Given
        <5>1. k \in step .. MaxStep
          BY <1>1, <1>2
        <5> QED
          BY <2>1, <4>1, <5>1 DEF Unique, Ahead
      <4>2. CASE x = y
        <5>1. <<step>>[1] = step /\ <<k>>[1] = k /\ k # step
          BY <1>1, <1>2
        <5> QED
          BY <1>7, <2>1, <4>2, <5>1
      <4> QED
        BY <1>8, <4>1, <4>2
    <3> QED
      BY <1>7, <2>1, <3>1 DEF Ahead
  <2>2. ASSUME LevelId, NEW j \in Base .. n + 1, Beyond(x, stack'[j]) PROVE FALSE
    <3>0. PICK c \in Context : c = stack[n]
      BY <1>1, <1>2
    <3>1. /\ y = Append(c.id, c.count) /\ x \in Id
          /\ c.id \in Given /\ c.id \in Id /\ c.count \in Nat
      BY <1>1, <1>2, <1>3, <1>6, <1>8, <2>2, <3>0 DEF Given, Context
    <3>2. /\ Len(y) = Len(c.id) + 1 /\ Len(c.id) \in Nat /\ y[Len(c.id) + 1] = c.count
          /\ \A z \in Id : /\ Len(z) > Len(y)
                           /\ \A m \in 1 .. Len(y) : z[m] = y[m]
                           => Beyond(z, c)
      BY <3>1, NextChild
    <3>3. CASE j = n + 1
      <4>1. /\ Len(x) > Len(y) /\ \A m \in 1 .. Len(y) : x[m] = y[m]
        BY <1>4, <2>2, <3>3 DEF Beyond
      <4>2. Beyond(x, c)
        BY <3>1, <3>2, <4>1
      <4>3. x \in Given
        BY <1>8, <3>2, <4>1
      <4> QED
        BY <1>2, <2>2, <3>0, <4>2, <4>3 DEF Unique, Ahead
    <3>4. CASE j = n
      <4>1. /\ Len(x) > Len(c.id) /\ x[Len(c.id) + 1] >= c.count + 1
            /\ \A m \in 1 .. Len(c.id) : x[m] = c.id[m]
        BY <1>6, <2>2, <3>0, <3>4 DEF Beyond
      <4>2. Len(c.id) + 1 \in 1 .. Len(x) /\ Len(x) \in Nat
        BY <3>1, <3>2, <4>1, LenProperties DEF Id
      <4>3. x[Len(c.id) + 1] \in Nat
        BY <3>1, <4>2, ElementOfSeq DEF Id
      <4>4. x[Len(c.id) + 1] >= c.count
        BY <3>1, <4>1, <4>3
      <4>5. Beyond(x, c)
        BY <4>1, <4>4 DEF Beyond
      <4>6. x # y
        BY <3>1, <3>2, <4>1
      <4> QED
        BY <1>2, <1>8, <2>2, <3>0, <4>5, <4>6 DEF Unique, Ahead
    <3>5. CASE j < n
      <4>1. /\ j \in Base .. n - 1 /\ j \in Base .. n /\ stack'[j] = stack[j]
            /\ stack[j] \in Context
        BY <1>1, <1>2, <1>6, <2>2, <3>5
      <4>2. ~Beyond(c.id, stack[j]) /\ c.id # stack[j].id
        BY <1>2, <2>2, <3>0, <3>1, <3>5, <4>1 DEF Unique, Ahead, ContextsApart
      <4>3. ~Beyond(y, stack[j])
        BY <3>1, <4>1, <4>2, NoOtherChild
      <4>4. x \in Given
        BY <1>8, <2>2, <4>1, <4>3
      <4> QED
        BY <2>2, <4>1, <4>4 DEF Unique, Ahead
    <3>6. j = n + 1 \/ j = n \/ j < n
      BY <1>1, <1>2, <2>2
    <3> QED
      BY <3>3, <3>4, <3>5, <3>6
  <2> QED
    BY <1>2, <1>4, <2>1, <2>2 DEF Ahead
<1>12. LevelId => ContextsApart'
  <2> SUFFICES ASSUME LevelId, NEW i \in Base .. n + 1, NEW j \in Base .. n + 1, i < j
               PROVE  stack'[i].id # stack'[j].id
    BY <1>2, <1>4 DEF ContextsApart
  <2>1. i \in Base .. n /\ i \in 1 .. n
    BY <1>1, <1>2
  <2>2. stack'[i].id = stack[i].id /\ stack[i].id \in Given
    BY <1>4, <2>1 DEF Given
  <2>3. CASE j = n + 1
    BY <1>4, <1>10, <2>2, <2>3
  <2>4. CASE j # n + 1
    <3>1. j \in Base .. n /\ j \in 1 .. n
      BY <1>1, <1>2, <2>4
    <3> QED
      BY <1>4, <2>1, <3>1 DEF Unique, ContextsApart
  <2> QED
    BY <2>3, <2>4
<1>13. CallsApart'
  <2>1. ASSUME NEW i \in Traced PROVE frames'[i] = frames[i] /\ frames[i].id # y
    BY <1>5, <1>10 DEF Given
  <2>2. (UpstreamApart => root.id # y) /\ \A j \in DOMAIN truth : truth[j].id # y
    BY <1>10 DEF Given
  <2>3. frames'[Len(frames) + 1].id = y
    BY <1>4, <1>5
  <2> QED
    BY <1>5, <2>1, <2>2, <2>3 DEF CallsApart, Unique
<1> QED
  BY <1>11, <1>12, <1>13 DEF Unique

(* A call leaves: nothing new is given, and nothing more is ahead.         *)
LEMMA IdsLeave ==
  ASSUME TypeInv, Unique, frames # <<>>, Leave(Top(frames)), UNCHANGED <<root, step>>,
         UNCHANGED stack \/ stack' = Pop(stack),
         \/ UNCHANGED truth
         \/ /\ Top(frames).kind # "plain"
            /\ \E b \in Span : b.id = Top(frames).id /\ truth' = Append(truth, b)
  PROVE  Unique'
<1>1. /\ Given \subseteq Id /\ Base \in 1 .. 2 /\ stack \in Seq(Context)
      /\ Len(stack) \in Nat /\ Base' = Base
  BY GivenIds DEF Base
<1>2. /\ Len(stack') \in Nat /\ Len(stack') <= Len(stack)
      /\ \A j \in 1 .. Len(stack') : stack'[j] = stack[j]
  <2>1. CASE stack' = stack
    BY <1>1, <2>1
  <2>2. CASE stack' # stack
    <3>1. stack # <<>> /\ stack' = Butlast(stack)
      BY <2>2 DEF Pop
    <3>2. Len(stack) > 0
      BY <1>1, <3>1, EmptySeq
    <3> QED
      BY <1>1, <3>1, <3>2, ButlastFacts
  <2> QED
    BY <2>1, <2>2
<1>3. \A j \in Base .. Len(stack') : j \in Base .. Len(stack) /\ stack'[j] = stack[j]
  BY <1>1, <1>2
<1>4. /\ Len(frames) \in Nat /\ Len(frames) > 0
      /\ Traced = {i \in 1 .. Len(frames) : frames[i].kind # "plain"}
      /\ Traced' = Traced \ {Len(frames)} /\ \A i \in Traced' : frames'[i] = frames[i]
  <2>1. /\ frames' \in Seq(Frame) /\ Len(frames') = Len(frames) - 1
        /\ \A i \in 1 .. Len(frames) - 1 : frames'[i] = frames[i]
    BY ButlastFacts DEF TypeInv, TypeOK, Leave
  <2>2. Len(frames') \in Nat /\ DOMAIN frames' = 1 .. Len(frames')
    BY <2>1, LenProperties
  <2>3. /\ Len(frames) \in Nat /\ Len(frames) > 0
        /\ Traced = {i \in 1 .. Len(frames) : frames[i].kind # "plain"}
    BY <2>1, <2>2, TracedWhere
  <2>4. Traced' = Traced \ {Len(frames)}
    BY <2>1, <2>2, <2>3 DEF Traced, TracedIn
  <2> QED
    BY <2>1, <2>3, <2>4
<1>5. Top(frames).kind # "plain" => Len(frames) \in Traced /\ Top(frames) = frames[Len(frames)]
  BY <1>4 DEF Top
<1>6. \A i \in DOMAIN truth' :
        \/ i \in DOMAIN truth /\ truth'[i] = truth[i]
        \/ /\ Len(frames) \in Traced /\ truth'[i].id = frames[Len(frames)].id
  <2>1. CASE UNCHANGED truth
    BY <2>1
  <2>2. ASSUME Top(frames).kind # "plain",
               NEW b \in Span, b.id = Top(frames).id, truth' = Append(truth, b)
        PROVE  \A i \in DOMAIN truth' :
                 \/ i \in DOMAIN truth /\ truth'[i] = truth[i]
                 \/ /\ Len(frames) \in Traced /\ truth'[i].id = frames[Len(frames)].id
    <3>1. truth \in Seq(Span) /\ Len(truth) \in Nat /\ DOMAIN truth = 1 .. Len(truth)
      BY LenProperties DEF TypeInv, TypeOK
    <3>2. /\ Append(truth, b) \in Seq(Span) /\ Len(Append(truth, b)) = Len(truth) + 1
          /\ Append(truth, b)[Len(truth) + 1] = b
          /\ \A i \in 1 .. Len(truth) : Append(truth, b)[i] = truth[i]
      BY <3>1, AppendProperties
    <3>3. PICK t : t = Append(truth, b)
      OBVIOUS
    <3>4. DOMAIN t = 1 .. Len(truth) + 1 /\ truth' = t
      BY <2>2, <3>2, <3>3, LenProperties
    <3>5. \A i \in DOMAIN t : i \in DOMAIN truth \/ i = Len(truth) + 1
      BY <3>1, <3>4
    <3>6. t[Len(truth) + 1].id = frames[Len(frames)].id /\ Len(frames) \in Traced
      BY <1>5, <2>2, <3>2, <3>3
    <3>7. \A i \in DOMAIN truth : t[i] = truth[i]
      BY <3>1, <3>2, <3>3
    <3> QED
      BY <3>4, <3>5, <3>6, <3>7
  <2> QED
    BY <2>1, <2>2
<1>7. Given' \subseteq Given
  <2>1. /\ Traced' \subseteq Traced
        /\ {frames'[i].id : i \in Traced'} \subseteq {frames[i].id : i \in Traced}
    BY <1>4
  <2>2. \A i \in DOMAIN truth' :
          \/ \E j \in DOMAIN truth : truth'[i].id = truth[j].id
          \/ \E j \in Traced : truth'[i].id = frames[j].id
    BY <1>6
  <2>3. {truth'[i].id : i \in DOMAIN truth'}
          \subseteq {truth[i].id : i \in DOMAIN truth} \cup {frames[i].id : i \in Traced}
    BY <2>2
  <2>4. {stack'[j].id : j \in Base .. Len(stack')}
          \subseteq {stack[j].id : j \in Base .. Len(stack)}
    BY <1>3
  <2>5. root' = root /\ Base' = Base
    BY <1>1 DEF Base
  <2> QED
    BY <2>1, <2>3, <2>4, <2>5 DEF Given
<1>8. \A x : Ahead(x)' => Ahead(x)
  BY <1>1, <1>3 DEF Ahead
<1>9. LevelId => ContextsApart'
  BY <1>1, <1>3 DEF Unique, ContextsApart
<1>10. CallsApart'
  BY <1>4, <1>6 DEF Unique, CallsApart
<1> QED
  BY <1>7, <1>8, <1>9, <1>10 DEF Unique

(* RINIT: the request's own id is given, and nothing below it.             *)
LEMMA IdsRinit ==
  ASSUME TypeInv, Rinit, is_sampled' PROVE Unique'
<1>1. /\ stack' \in Seq(Context) /\ Len(stack') = Base' /\ Base' \in 1 .. 2
      /\ step' \in Nat /\ root' \in [id : Id, parent : Id]
  BY RinitStack DEF Base
<1>2. PICK h \in Upstream :
        /\ \/ /\ h.span # NoId /\ UNCHANGED step
              /\ stack' = PushId(HeaderStack(h), h.span)
           \/ /\ h.span = NoId /\ step' = StepAfterPush
              /\ stack' = PushContext(HeaderStack(h))
        /\ root' = [id |-> RetrieveId(stack'), parent |-> h.parent]
  BY DEF Rinit
<1>3. /\ stack' # <<>> /\ root'.id = stack'[Base'].id /\ Base' \in Base' .. Base'
  <2>1. stack' # <<>>
    BY <1>1, EmptySeq
  <2> QED
    BY <1>1, <1>2, <2>1 DEF RetrieveId, Top
<1>4. Traced' = {} /\ DOMAIN truth' = {}
  BY DEF Rinit, TypeInv, Modes, Traced, TracedIn
<1>5. PICK r \in Id : r = root'.id
  BY <1>1
<1>6. Given' \subseteq {r} /\ (UpstreamApart \/ LevelId \/ Given' = {})
  <2>1. Base' .. Len(stack') = {Base'}
    BY <1>1
  <2> QED
    BY <1>3, <1>4, <1>5, <2>1 DEF Given
<1>7. CASE LevelId
  <2>1. r \in Seq(Nat) /\ Len(r) \in Nat
    BY LenProperties DEF Id
  <2>2. ~Beyond(r, stack'[Base'])
    BY <1>3, <1>5, <2>1 DEF Beyond
  <2>3. ~Ahead(r)'
    BY <1>1, <1>7, <2>2 DEF Ahead
  <2>4. ContextsApart'
    BY <1>1 DEF ContextsApart
  <2>5. CallsApart'
    BY <1>4 DEF CallsApart
  <2> QED
    BY <1>6, <2>3, <2>4, <2>5 DEF Unique
<1>8. CASE ~LevelId
  <2>0. /\ step \in Nat /\ MaxStep \in Nat /\ h.parent \in Id /\ h.span \in Id
    BY RequestAssumption DEF TypeInv, TypeOK
  <2>1. HeaderStack(h) \in Seq(Context)
    <3>1. <<>> \in Seq(Context)
      OBVIOUS
    <3> QED
      BY <2>0, <3>1, PushIdFacts DEF HeaderStack
  <2>2. root'.id = RetrieveId(stack')
    BY <1>2
  <2>3. \A id \in Id : RetrieveId(PushId(HeaderStack(h), id)) = id
    BY <2>1, PushKeepsIds
  <2>4. CASE stack' = PushId(HeaderStack(h), h.span) /\ step' = step
    <3>1. root'.id = h.span
      BY <2>0, <2>2, <2>3, <2>4
    <3>2. \A n \in step .. MaxStep : n \in 0 .. MaxStep
      BY <2>0
    <3> QED
      BY <1>4, <1>5, <1>6, <1>8, <2>4, <3>1, <3>2 DEF Unique, Ahead, UpstreamApart, CallsApart
  <2>5. CASE stack' = PushContext(HeaderStack(h)) /\ step' = step + 1
    <3>1. FreshId(HeaderStack(h)) = <<step>> /\ <<step>> \in Id
      BY <1>8, <2>0 DEF FreshId, Id
    <3>2. root'.id = <<step>>
      BY <2>2, <2>3, <2>5, <3>1 DEF PushContext
    <3>3. \A n \in step + 1 .. MaxStep : n # step
      BY <2>0
    <3>4. \A n \in step + 1 .. MaxStep : <<step>> # <<n>>
      BY <3>3
    <3> QED
      BY <1>4, <1>5, <1>6, <1>8, <2>5, <3>2, <3>4 DEF Unique, Ahead, CallsApart
  <2> QED
    BY <1>2, <1>8, <2>4, <2>5 DEF StepAfterPush
<1> QED
  BY <1>7, <1>8

LEMMA IdsLeaveCore ==
  ASSUME TypeInv, Unique, frames # <<>>, LeaveCore(Top(frames)) PROVE Unique'
<1>1. /\ Leave(Top(frames)) /\ UNCHANGED <<root, step>>
      /\ UNCHANGED stack \/ stack' = Pop(stack)
  BY DEF LeaveCore
<1>2. \/ UNCHANGED truth
      \/ /\ Top(frames).kind # "plain"
         /\ truth' = Append(truth, Client("client", Top(frames).id, Top(frames).parent))
  BY DEF LeaveCore, RecordSpan
<1>3. /\ Client("client", Top(frames).id, Top(frames).parent) \in Span
      /\ Client("client", Top(frames).id, Top(frames).parent).id = Top(frames).id
  BY LeaveFacts DEF Client, Span, Frame
<1> QED
  BY <1>1, <1>2, <1>3, IdsLeave

LEMMA IdsNext ==
  TypeInv /\ PlacedInv /\ IdsInv /\ [Next]_vars => IdsInv'
<1> SUFFICES ASSUME TypeInv, PlacedInv, IdsInv, [Next]_vars, Tracing'
             PROVE  Unique'
  BY DEF IdsInv
<1>1. CASE Rinit
  BY <1>1, IdsRinit DEF Tracing
<1>2. CASE ~Rinit
  <2>1. Tracing
    BY <1>2 DEF Next, Call, Leaving, CallPlain, CallHit, CurlBegin, CurlDies,
         CurlEnd, Return, Unwind, UnwindCurl, RecordBails, LeaveCore, Exit,
         FatalError, Rshutdown, RshutdownDies, Die, RequestEnds, vars, globals,
         Tracing
  <2>2. Placed /\ Unique
    BY <2>1 DEF PlacedInv, IdsInv
  <2>3. CASE CallPlain
    <3>1. UNCHANGED <<stack, root, step, truth>>
      BY <2>3 DEF CallPlain, history
    <3>2. PICK f \in Frame : f.kind = "plain" /\ frames' = Append(frames, f)
      <4>1. [kind |-> "plain", id |-> Enclosing, parent |-> NoId, parsed |-> TRUE]
              \in Frame
        BY EnclosingType DEF Frame, Id, NoId
      <4> QED
        BY <2>3, <4>1 DEF CallPlain
    <3>3. /\ Len(frames') = Len(frames) + 1 /\ frames'[Len(frames) + 1] = f
          /\ frames' \in Seq(Frame)
          /\ \A i \in 1 .. Len(frames) : frames'[i] = frames[i]
      BY <3>2, AppendProperties DEF TypeInv, TypeOK
    <3>4. DOMAIN frames' = 1 .. Len(frames) + 1
      BY <3>3, LenProperties
    <3>5. Traced' = Traced
      BY <3>2, <3>3, <3>4, TracedWhere DEF Traced, TracedIn
    <3>6. \A i \in Traced : frames'[i] = frames[i]
      BY <3>3, TracedWhere
    <3>7. Given' = Given /\ Base' = Base
      BY <3>1, <3>5, <3>6 DEF Given, Base
    <3>8. CallsApart'
      BY <2>2, <3>1, <3>5, <3>6 DEF Unique, CallsApart
    <3> QED
      BY <2>2, <3>1, <3>7, <3>8 DEF Unique, Ahead, ContextsApart
  <2>4. CASE CallHit
    <3>1. PICK f \in Frame : /\ f.kind = "hit" /\ f.id = RetrieveId(stack')
                             /\ frames' = Append(frames, f)
      BY <2>4, TracedFrame DEF CallHit
    <3> QED
      BY <2>2, <2>4, <3>1, IdsEnter DEF CallHit, history
  <2>5. CASE CurlBegin
    <3>1. PICK f \in Frame : /\ f.kind = "curl" /\ f.id = RetrieveId(stack')
                             /\ frames' = Append(frames, f)
      BY <2>5, TracedFrame DEF CurlBegin
    <3> QED
      BY <2>2, <2>5, <3>1, IdsEnter DEF CurlBegin, history
  <2>6. CASE CurlEnd
    <3>1. /\ frames # <<>> /\ Leave(Top(frames)) /\ Top(frames).kind = "curl"
          /\ UNCHANGED <<root, step>> /\ (stack' = Pop(stack) \/ UNCHANGED stack)
          /\ \/ UNCHANGED truth
             \/ truth' = Append(truth, Client("php_curl", Top(frames).id,
                                              Top(frames).parent))
      BY <2>6 DEF CurlEnd
    <3>2. /\ Client("php_curl", Top(frames).id, Top(frames).parent) \in Span
          /\ Client("php_curl", Top(frames).id, Top(frames).parent).id = Top(frames).id
          /\ Top(frames).kind # "plain"
      BY <3>1, LeaveFacts DEF Client, Span, Frame
    <3> QED
      BY <2>2, <3>1, <3>2, IdsLeave
  <2>7. CASE Return
    BY <2>2, <2>7, IdsLeaveCore DEF Return
  <2>8. CASE Unwind
    BY <2>2, <2>8, IdsLeaveCore DEF Unwind, TypeInv, Modes
  <2>9. CASE UnwindCurl
    BY <2>2, <2>9, IdsLeave DEF UnwindCurl, TypeInv, Modes
  <2>10. CASE RecordBails
    BY <2>2, <2>10, IdsLeave DEF RecordBails
  <2>11. CASE CurlDies \/ Rshutdown \/ RshutdownDies
    BY <2>11 DEF CurlDies, Rshutdown, RshutdownDies, Die, Tracing
  <2>12. CASE Exit \/ FatalError \/ RequestEnds \/ UNCHANGED vars
    <3>1. UNCHANGED <<stack, frames, root, step, truth>>
      BY <2>12 DEF Exit, FatalError, RequestEnds, vars, history
    <3> QED
      BY <2>2, <3>1 DEF Unique, Given, Ahead, ContextsApart, CallsApart, Base, Traced
  <2> QED
    BY <1>2, <2>3, <2>4, <2>5, <2>6, <2>7, <2>8, <2>9, <2>10, <2>11, <2>12
       DEF Next, Call, Leaving
<1> QED
  BY <1>1, <1>2

(***************************************************************************)
(* UniqueIds: no two calls of a request have the same span id, nor (but    *)
(* for UpstreamApart) that of the request itself, for any nesting and      *)
(* however many contexts bailouts and unparsed curl calls leave on the     *)
(* stack.                                                                  *)
(***************************************************************************)
THEOREM AlwaysUniqueIds == Spec => []UniqueIds
<1>1. Init => PlacedInv /\ IdsInv
  BY DEF Init, PlacedInv, IdsInv, Tracing
<1>2. Spec => []PlacedInv
  BY <1>1, PlacedNext, TypeInvariant, PTL DEF Spec
<1>3. TypeInv /\ PlacedInv /\ IdsInv /\ [Next]_vars => IdsInv'
  BY IdsNext
<1>4. Spec => []IdsInv
  BY <1>1, <1>2, <1>3, TypeInvariant, PTL DEF Spec
<1> QED
  BY <1>4, IdsMean, PTL

=============================================================================
