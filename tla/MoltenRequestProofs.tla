------------------------ MODULE MoltenRequestProofs ------------------------
(***************************************************************************)
(* Theorems about MoltenRequest: types, the level counter and the context  *)
(* stack, for any nesting, any number of calls and requests.               *)
(***************************************************************************)
EXTENDS MoltenRequest, FiniteSetTheorems, SequenceTheorems, TLAPS

-----------------------------------------------------------------------------
(***************************************************************************)
(* Sequences as stacks.                                                    *)
(***************************************************************************)

(* Butlast drops one element and keeps the others. *)
LEMMA ButlastFacts ==
  ASSUME NEW S, NEW s \in Seq(S), s # <<>>
  PROVE  /\ Butlast(s) \in Seq(S)
         /\ Len(Butlast(s)) = Len(s) - 1
         /\ \A i \in 1 .. Len(s) - 1 : Butlast(s)[i] = s[i]
         /\ Top(s) \in S
<1>1. Len(s) \in Nat /\ Len(s) >= 1
  BY EmptySeq, LenProperties
<1>2. Top(s) \in S
  BY <1>1, ElementOfSeq DEF Top
<1>3. /\ SubSeq(s, 1, Len(s) - 1) \in Seq(S)
      /\ Len(SubSeq(s, 1, Len(s) - 1)) = Len(s) - 1
      /\ \A i \in 1 .. Len(s) - 1 : SubSeq(s, 1, Len(s) - 1)[i] = s[i]
  <2>1. \A i \in 1 .. Len(s) - 1 : s[i] \in S
    BY <1>1, ElementOfSeq
  <2> DEFINE n == Len(s) - 1
             b == SubSeq(s, 1, n)
  <2>2. n \in Nat
    BY <1>1
  <2> HIDE DEF n
  <2>3. /\ b \in Seq(S)
        /\ Len(b) = IF 1 <= n THEN n - 1 + 1 ELSE 0
        /\ \A i \in 1 .. n - 1 + 1 : b[i] = s[1 + i - 1]
    BY <2>1, <2>2, SubSeqProperties DEF n
  <2>4. Len(b) = n /\ \A i \in 1 .. n : b[i] = s[i]
    BY <2>2, <2>3
  <2> QED BY <2>3, <2>4 DEF n
<1> QED BY <1>2, <1>3 DEF Butlast

(* Counting a child of the top context keeps the stack a stack. *)
LEMMA BumpFacts ==
  ASSUME NEW s \in Seq(Context)
  PROVE  BumpTop(s) \in Seq(Context) /\ Len(BumpTop(s)) = Len(s)
<1>1. CASE LevelId /\ s # <<>>
  <2> DEFINE n == Len(s)
             c == [s[n] EXCEPT !.count = @ + 1]
  <2>1. n \in 1 .. Len(s)
    BY <1>1, EmptySeq, LenProperties
  <2>2. s[n] \in Context
    BY <2>1, ElementOfSeq
  <2>3. c \in Context
    BY <2>2 DEF Context
  <2>4. BumpTop(s) = [s EXCEPT ![n] = c]
    BY <1>1 DEF BumpTop
  <2> QED BY <2>1, <2>3, <2>4, ExceptSeq
<1>2. CASE ~(LevelId /\ s # <<>>)
  BY <1>2 DEF BumpTop
<1> QED BY <1>1, <1>2

(* Pushing a context adds one element. *)
LEMMA PushIdFacts ==
  ASSUME NEW s \in Seq(Context), NEW id \in Id
  PROVE  /\ PushId(s, id) \in Seq(Context)
         /\ Len(PushId(s, id)) = Len(s) + 1
<1>1. [id |-> id, count |-> 1] \in Context
  BY DEF Context
<1> QED BY <1>1, BumpFacts, AppendProperties DEF PushId

LEMMA FreshIdType ==
  ASSUME NEW s \in Seq(Context), step \in Nat
  PROVE  FreshId(s) \in Id
<1>1. CASE LevelId /\ s # <<>>
  <2>1. Top(s) \in Context
    BY <1>1, ButlastFacts
  <2> QED BY <1>1, <2>1, AppendProperties DEF FreshId, Context, Id
<1>2. CASE ~(LevelId /\ s # <<>>)
  BY <1>2 DEF FreshId, Id
<1> QED BY <1>1, <1>2

LEMMA PushContextFacts ==
  ASSUME NEW s \in Seq(Context), step \in Nat
  PROVE  /\ PushContext(s) \in Seq(Context)
         /\ Len(PushContext(s)) = Len(s) + 1
BY FreshIdType, PushIdFacts DEF PushContext

(* What is read from the stack is an id, or NULL. *)
LEMMA RetrieveTypes ==
  ASSUME NEW s \in Seq(Context)
  PROVE  RetrieveId(s) \in Id /\ RetrieveParent(s) \in Id
<1>1. RetrieveId(s) \in Id
  <2>1. CASE s = <<>>
    BY <2>1 DEF RetrieveId, Id, NoId
  <2>2. CASE s # <<>>
    <3>1. Top(s) \in Context
      BY <2>2, ButlastFacts
    <3> QED BY <2>2, <3>1 DEF RetrieveId, Context
  <2> QED BY <2>1, <2>2
<1>2. CASE Len(s) > 1
  <2>1. Len(s) - 1 \in 1 .. Len(s)
    BY <1>2, LenProperties
  <2>2. s[Len(s) - 1] \in Context
    BY <2>1, ElementOfSeq
  <2> QED BY <1>1, <1>2, <2>2 DEF RetrieveParent, Context
<1>3. CASE ~(Len(s) > 1)
  BY <1>1, <1>3 DEF RetrieveParent, Id, NoId
<1> QED BY <1>2, <1>3

(* A pop takes one context off a stack that has one. *)
LEMMA PopFacts ==
  ASSUME NEW s \in Seq(Context)
  PROVE  /\ Pop(s) \in Seq(Context)
         /\ Len(s) > 0 => Len(Pop(s)) = Len(s) - 1
<1>1. CASE s = <<>>
  BY <1>1, EmptySeq DEF Pop
<1>2. CASE s # <<>>
  BY <1>2, ButlastFacts DEF Pop
<1> QED BY <1>1, <1>2

LEMMA AddSpanType ==
  ASSUME NEW list \in Seq(Span) \cup {NoLog}, NEW span \in Span
  PROVE  /\ AddSpan(list, span) \in Seq(Span) \cup {NoLog}
         /\ list # NoLog => AddSpan(list, span) \in Seq(Span)
BY AppendProperties DEF AddSpan
-----------------------------------------------------------------------------
(***************************************************************************)
(* Traced calls.                                                           *)
(***************************************************************************)

LEMMA TracedFinite ==
  ASSUME NEW fs \in Seq(Frame)
  PROVE  IsFiniteSet(TracedIn(fs)) /\ Cardinality(TracedIn(fs)) \in Nat
<1>1. IsFiniteSet(1 .. Len(fs))
  BY FS_Interval, LenProperties
<1>2. TracedIn(fs) \subseteq 1 .. Len(fs)
  BY LenProperties DEF TracedIn
<1> QED BY <1>1, <1>2, FS_Subset, FS_CardinalityType

LEMMA TracedNone == Cardinality(TracedIn(<<>>)) = 0
<1>1. TracedIn(<<>>) = {}
  BY EmptySeq DEF TracedIn
<1> QED BY <1>1, FS_EmptySet

(* A new call is counted if it is traced. *)
LEMMA TracedAppend ==
  ASSUME NEW fs \in Seq(Frame), NEW f \in Frame
  PROVE  Cardinality(TracedIn(Append(fs, f)))
           = Cardinality(TracedIn(fs)) + (IF f.kind = "plain" THEN 0 ELSE 1)
<1> DEFINE n == Len(fs) + 1
<1>1. /\ Append(fs, f) \in Seq(Frame) /\ Len(Append(fs, f)) = n
      /\ \A i \in 1 .. Len(fs) : Append(fs, f)[i] = fs[i]
      /\ Append(fs, f)[n] = f
  BY AppendProperties
<1>2. DOMAIN Append(fs, f) = 1 .. n /\ DOMAIN fs = 1 .. Len(fs)
      /\ Len(fs) \in Nat
  BY <1>1, LenProperties
<1>3. n \notin TracedIn(fs)
  BY <1>2 DEF TracedIn
<1>4. CASE f.kind = "plain"
  <2>1. TracedIn(Append(fs, f)) = TracedIn(fs)
    BY <1>1, <1>2, <1>4 DEF TracedIn
  <2> QED BY <1>4, <2>1, TracedFinite
<1>5. CASE f.kind # "plain"
  <2>1. TracedIn(Append(fs, f)) = TracedIn(fs) \cup {n}
    BY <1>1, <1>2, <1>5 DEF TracedIn
  <2> QED BY <1>3, <1>5, <2>1, TracedFinite, FS_AddElement
<1> QED BY <1>4, <1>5

(* A call that is left is no longer counted. *)
LEMMA TracedButlast ==
  ASSUME NEW fs \in Seq(Frame), fs # <<>>
  PROVE  Cardinality(TracedIn(fs))
           = Cardinality(TracedIn(Butlast(fs)))
               + (IF Top(fs).kind = "plain" THEN 0 ELSE 1)
<1> DEFINE n == Len(fs)
           rest == Butlast(fs)
<1>1. /\ rest \in Seq(Frame) /\ Len(rest) = n - 1
      /\ \A i \in 1 .. n - 1 : rest[i] = fs[i]
  BY ButlastFacts
<1>2. DOMAIN rest = 1 .. n - 1 /\ DOMAIN fs = 1 .. n /\ n \in Nat /\ n >= 1
  BY <1>1, LenProperties, EmptySeq
<1>3. n \notin TracedIn(rest)
  BY <1>2 DEF TracedIn
<1>4. CASE Top(fs).kind = "plain"
  <2>1. TracedIn(fs) = TracedIn(rest)
    BY <1>1, <1>2, <1>4 DEF TracedIn, Top
  <2> QED BY <1>1, <1>4, <2>1, TracedFinite
<1>5. CASE Top(fs).kind # "plain"
  <2>1. TracedIn(fs) = TracedIn(rest) \cup {n}
    BY <1>1, <1>2, <1>5 DEF TracedIn, Top
  <2> QED BY <1>1, <1>3, <1>5, <2>1, TracedFinite, FS_AddElement
<1> QED BY <1>4, <1>5
-----------------------------------------------------------------------------
(***************************************************************************)
(* Types.  What the phase says about the calls in progress and the list of *)
(* spans is needed too: a call is only left when there is one, and what    *)
(* RSHUTDOWN flushes is a list.                                            *)
(***************************************************************************)
Modes ==
  /\ phase = "run" <=> in_request
  /\ phase = "idle" => frames = <<>>
  /\ bailing => frames # <<>>
  /\ phase = "run" /\ is_sampled => spans # NoLog

TypeInv == TypeOK /\ Modes

(* The frame of the call that is left. *)
LEMMA LeaveFacts ==
  ASSUME TypeInv, frames # <<>>
  PROVE  /\ Top(frames) \in Frame
         /\ Butlast(frames) \in Seq(Frame)
         /\ Len(Butlast(frames)) = Len(frames) - 1
         /\ Len(frames) \in Nat
         /\ Len(frames) > 1 => Butlast(frames) # <<>>
         /\ phase # "idle"
<1>1. frames \in Seq(Frame)
  BY DEF TypeInv, TypeOK
<1>2. Len(frames) \in Nat
  BY <1>1, LenProperties
<1>3. /\ Top(frames) \in Frame
      /\ Butlast(frames) \in Seq(Frame)
      /\ Len(Butlast(frames)) = Len(frames) - 1
  BY <1>1, ButlastFacts
<1>4. Len(frames) > 1 => Butlast(frames) # <<>>
  BY <1>2, <1>3, EmptySeq
<1> QED BY <1>2, <1>3, <1>4 DEF TypeInv, Modes

(* The span a new call runs under. *)
LEMMA EnclosingType ==
  ASSUME TypeInv
  PROVE  Enclosing \in Id
<1>1. CASE frames = <<>>
  BY <1>1 DEF Enclosing, TypeInv, TypeOK
<1>2. CASE frames # <<>>
  BY <1>2, LeaveFacts DEF Enclosing, Frame
<1> QED BY <1>1, <1>2

(* Entering a call. *)
LEMMA EnterFacts ==
  ASSUME TypeInv, NEW f \in Frame
  PROVE  /\ Append(frames, f) \in Seq(Frame)
         /\ Len(Append(frames, f)) = Len(frames) + 1
         /\ Append(frames, f) # <<>>
<1>1. frames \in Seq(Frame)
  BY DEF TypeInv, TypeOK
<1>2. /\ Append(frames, f) \in Seq(Frame)
      /\ Len(Append(frames, f)) = Len(frames) + 1
      /\ Len(frames) \in Nat
  BY <1>1, AppendProperties, LenProperties
<1> QED BY <1>2, EmptySeq

(* The frame that a traced call pushes, and the context under it. *)
LEMMA TracedFrame ==
  ASSUME TypeInv, stack' = PushContext(stack),
         NEW k \in {"hit", "curl"}, NEW p \in BOOLEAN
  PROVE  /\ [kind |-> k, id |-> RetrieveId(stack'), parent |-> Enclosing,
             parsed |-> p] \in Frame
         /\ stack' \in Seq(Context) /\ Len(stack') = Len(stack) + 1
<1>1. stack \in Seq(Context) /\ step \in Nat
  BY DEF TypeInv, TypeOK
<1>2. stack' \in Seq(Context) /\ Len(stack') = Len(stack) + 1
  BY <1>1, PushContextFacts
<1> QED BY <1>2, RetrieveTypes, EnclosingType DEF Frame

(* Types hold initially. *)
LEMMA TypeInit == Init => TypeInv
<1> SUFFICES ASSUME Init PROVE TypeInv
  OBVIOUS
<1>1. root \in [id : Id, parent : Id]
  BY DEF Init, Id, NoId
<1>2. stack \in Seq(Context) /\ frames \in Seq(Frame)
  BY DEF Init
<1>3. truth \in Seq(Span) /\ batch \in Seq(Span)
  BY DEF Init
<1>4. Modes
  BY DEF Init, Modes
<1>5. /\ in_request \in BOOLEAN /\ is_sampled \in BOOLEAN
      /\ aliased \in BOOLEAN /\ bailing \in BOOLEAN
  BY DEF Init
<1>6. spans \in Seq(Span) \cup {NoLog}
  BY DEF Init
<1>7. /\ phase \in {"idle", "run", "late"}
      /\ level \in Int /\ step \in Nat /\ errors \in Nat
      /\ calls \in Nat /\ served \in Nat
      /\ raised \in Nat /\ leaked \in Nat /\ lost \in Nat
  BY DEF Init
<1> QED BY <1>1, <1>2, <1>3, <1>4, <1>5, <1>6, <1>7 DEF TypeInv, TypeOK

(* RINIT gives the request its one or two contexts. *)
LEMMA RinitStack ==
  ASSUME TypeInv, Rinit, is_sampled'
  PROVE  /\ stack' \in Seq(Context) /\ Len(stack') = Base'
         /\ step' \in Nat
         /\ root' \in [id : Id, parent : Id]
         /\ spans' = <<>> /\ errors' = 0
<1>1. PICK h \in Upstream :
        /\ spans' = <<>> /\ errors' = 0
        /\ \/ /\ h.span # NoId
              /\ stack' = PushId(HeaderStack(h), h.span)
              /\ UNCHANGED step
           \/ /\ h.span = NoId
              /\ LevelId \/ step < MaxStep
              /\ stack' = PushContext(HeaderStack(h))
              /\ step' = StepAfterPush
        /\ root' = [id |-> RetrieveId(stack'), parent |-> h.parent]
  BY DEF Rinit
<1>2. h.span \in Id /\ h.parent \in Id
  BY RequestAssumption
<1>3. step \in Nat /\ StepAfterPush \in Nat
  BY RequestAssumption DEF TypeInv, TypeOK, StepAfterPush
<1>4. /\ HeaderStack(h) \in Seq(Context)
      /\ Len(HeaderStack(h)) = IF h.parent = NoId THEN 0 ELSE 1
  <2>1. <<>> \in Seq(Context) /\ Len(<<>>) = 0
    OBVIOUS
  <2>2. \A s \in Seq(Context) :
          s = <<>> => /\ PushId(s, h.parent) \in Seq(Context)
                      /\ Len(PushId(s, h.parent)) = 1
    <3> SUFFICES ASSUME NEW s \in Seq(Context), s = <<>>
                 PROVE  /\ PushId(s, h.parent) \in Seq(Context)
                        /\ Len(PushId(s, h.parent)) = 1
      OBVIOUS
    <3>1. Len(s) = 0
      OBVIOUS
    <3>2. /\ PushId(s, h.parent) \in Seq(Context)
          /\ Len(PushId(s, h.parent)) = Len(s) + 1
      BY <1>2, PushIdFacts
    <3> QED BY <3>1, <3>2
  <2>3. CASE h.parent = NoId
    BY <2>1, <2>3 DEF HeaderStack
  <2>4. CASE h.parent # NoId
    BY <2>1, <2>2, <2>4 DEF HeaderStack
  <2> QED BY <2>3, <2>4
<1>5. /\ stack' \in Seq(Context) /\ Len(stack') = Len(HeaderStack(h)) + 1
      /\ step' \in Nat
  BY <1>1, <1>2, <1>3, <1>4, PushIdFacts, PushContextFacts
<1>6. root' \in [id : Id, parent : Id]
  BY <1>1, <1>2, <1>5, RetrieveTypes
<1>7. Len(stack') = Base'
  BY <1>1, <1>4, <1>5 DEF Base
<1> QED BY <1>1, <1>5, <1>6, <1>7

LEMMA TypeRinit == TypeInv /\ Rinit => TypeInv'
<1> SUFFICES ASSUME TypeInv, Rinit PROVE TypeInv'
  OBVIOUS
<1>1. CASE is_sampled'
  <2>1. /\ stack' \in Seq(Context) /\ step' \in Nat
        /\ root' \in [id : Id, parent : Id]
        /\ spans' = <<>> /\ errors' = 0
    BY <1>1, RinitStack
  <2>2. spans' \in Seq(Span) /\ spans' # NoLog
    <3>1. spans' \in Seq(Span)
      BY <2>1
    <3> QED BY <3>1, RequestAssumption
  <2>3. truth' \in Seq(Span) /\ batch' \in Seq(Span)
    BY DEF Rinit
  <2>4. in_request' \in BOOLEAN /\ is_sampled' \in BOOLEAN
    BY <1>1 DEF Rinit
  <2>5. Modes'
    BY <2>2 DEF Rinit, TypeInv, Modes
  <2>6. aliased' \in BOOLEAN
    <3>1. \E h \in Upstream :
            aliased' = (LevelId /\ (h.span # NoId \/ h.parent # NoId))
      BY <1>1 DEF Rinit
    <3> QED BY <3>1, Zenon
  <2> QED BY <2>1, <2>2, <2>3, <2>4, <2>5, <2>6 DEF Rinit, TypeInv, TypeOK
<1>2. CASE ~is_sampled'
  <2>1. UNCHANGED <<aliased, stack, step, spans, errors, root>>
    BY <1>2 DEF Rinit
  <2>2. truth' \in Seq(Span) /\ batch' \in Seq(Span)
    BY DEF Rinit
  <2>3. in_request' \in BOOLEAN /\ is_sampled' \in BOOLEAN
    BY DEF Rinit
  <2>4. Modes'
    BY <1>2 DEF Rinit, TypeInv, Modes
  <2> QED BY <2>1, <2>2, <2>3, <2>4 DEF Rinit, TypeInv, TypeOK
<1> QED BY <1>1, <1>2

LEMMA TypeCallPlain == TypeInv /\ CallPlain => TypeInv'
<1> SUFFICES ASSUME TypeInv, CallPlain PROVE TypeInv'
  OBVIOUS
<1>1. [kind |-> "plain", id |-> Enclosing, parent |-> NoId, parsed |-> TRUE]
        \in Frame
  BY EnclosingType DEF Frame, Id, NoId
<1>2. frames' \in Seq(Frame) /\ frames' # <<>>
  BY <1>1, EnterFacts DEF CallPlain
<1>3. Modes'
  BY <1>2 DEF CallPlain, CanCall, TypeInv, Modes, globals
<1> QED BY <1>2, <1>3 DEF CallPlain, CanCall, TypeInv, TypeOK, globals, history

LEMMA TypeCallHit == TypeInv /\ CallHit => TypeInv'
<1> SUFFICES ASSUME TypeInv, CallHit PROVE TypeInv'
  OBVIOUS
<1>1. stack' \in Seq(Context) /\ frames' \in Seq(Frame) /\ frames' # <<>>
  BY TracedFrame, EnterFacts DEF CallHit
<1>2. step' \in Nat
  BY DEF CallHit, StepAfterPush, TypeInv, TypeOK
<1>3. Modes'
  BY <1>1 DEF CallHit, CanCall, TypeInv, Modes, globals
<1> QED BY <1>1, <1>2, <1>3
        DEF CallHit, CanCall, TypeInv, TypeOK, globals, history

LEMMA TypeCurlBegin == TypeInv /\ CurlBegin => TypeInv'
<1> SUFFICES ASSUME TypeInv, CurlBegin PROVE TypeInv'
  OBVIOUS
<1>1. stack' \in Seq(Context) /\ frames' \in Seq(Frame) /\ frames' # <<>>
  BY TracedFrame, EnterFacts DEF CurlBegin
<1>2. step' \in Nat
  BY DEF CurlBegin, StepAfterPush, TypeInv, TypeOK
<1>3. Modes'
  BY <1>1 DEF CurlBegin, CanCall, TypeInv, Modes, globals
<1> QED BY <1>1, <1>2, <1>3
        DEF CurlBegin, CanCall, TypeInv, TypeOK, globals, history

(* A new process, between two requests. *)
LEMMA TypeDie ==
  ASSUME TypeInv, Die, ~bailing, calls' \in Nat
  PROVE  TypeInv'
<1>1. /\ stack' \in Seq(Context) /\ frames' \in Seq(Frame)
      /\ truth' \in Seq(Span) /\ batch' \in Seq(Span)
      /\ spans' \in Seq(Span) \cup {NoLog}
  BY DEF Die
<1>2. in_request' \in BOOLEAN /\ is_sampled' \in BOOLEAN /\ aliased' \in BOOLEAN
  BY DEF Die
<1>3. bailing = FALSE /\ bailing' = FALSE
  BY DEF Die, TypeInv, TypeOK
<1>4. Modes'
  BY <1>3 DEF Die, TypeInv, Modes
<1> QED BY <1>1, <1>2, <1>3, <1>4 DEF Die, TypeInv, TypeOK

LEMMA TypeCurlDies == TypeInv /\ CurlDies => TypeInv'
<1> SUFFICES ASSUME TypeInv, CurlDies PROVE TypeInv'
  OBVIOUS
<1>1. calls' \in Nat
  BY DEF CurlDies, CanCall, TypeInv, TypeOK
<1> QED BY <1>1, TypeDie DEF CurlDies, CanCall

LEMMA TypeRshutdownDies == TypeInv /\ RshutdownDies => TypeInv'
<1> SUFFICES ASSUME TypeInv, RshutdownDies PROVE TypeInv'
  OBVIOUS
<1>1. calls' \in Nat
  BY DEF RshutdownDies, TypeInv, TypeOK
<1> QED BY <1>1, TypeDie DEF RshutdownDies

(* What a recorded call adds to the lists of spans is a span. *)
LEMMA ClientType ==
  ASSUME NEW k \in {"client", "php_curl"}, NEW id \in Id, NEW p \in Id
  PROVE  Client(k, id, p) \in Span
BY DEF Client, Span

LEMMA TypeLists ==
  ASSUME TypeInv, NEW s1 \in Span, NEW s2 \in Span,
         spans' = AddSpan(spans, s1), truth' = Append(truth, s2)
  PROVE  /\ spans' \in Seq(Span) \cup {NoLog}
         /\ truth' \in Seq(Span)
         /\ spans # NoLog => spans' # NoLog
<1>1. spans \in Seq(Span) \cup {NoLog} /\ truth \in Seq(Span)
  BY DEF TypeInv, TypeOK
<1>2. truth' \in Seq(Span)
  BY <1>1, AppendProperties
<1> QED BY <1>1, <1>2, AddSpanType, RequestAssumption

LEMMA TypeCurlEnd == TypeInv /\ CurlEnd => TypeInv'
<1> SUFFICES ASSUME TypeInv, CurlEnd PROVE TypeInv'
  OBVIOUS
<1>1. /\ Top(frames) \in Frame /\ frames' \in Seq(Frame)
      /\ phase # "idle" /\ ~bailing
  BY LeaveFacts DEF CurlEnd, Leave
<1>2. stack \in Seq(Context)
  BY DEF TypeInv, TypeOK
<1>3. /\ spans' \in Seq(Span) \cup {NoLog} /\ truth' \in Seq(Span)
      /\ stack' \in Seq(Context) /\ leaked' \in Nat
      /\ spans # NoLog => spans' # NoLog
  <2> DEFINE f == Top(frames)
  <2>1. CASE f.parsed
    <3>1. /\ spans' = AddSpan(spans, Client("php_curl", f.id,
                                            RetrieveParent(stack)))
          /\ truth' = Append(truth, Client("php_curl", f.id, f.parent))
          /\ stack' = Pop(stack) /\ leaked' = leaked
      BY <2>1 DEF CurlEnd
    <3>2. /\ Client("php_curl", f.id, RetrieveParent(stack)) \in Span
          /\ Client("php_curl", f.id, f.parent) \in Span
      BY <1>1, <1>2, RetrieveTypes, ClientType DEF Frame
    <3> QED BY <1>2, <3>1, <3>2, TypeLists, PopFacts DEF TypeInv, TypeOK
  <2>2. CASE ~f.parsed
    BY <2>2 DEF CurlEnd, TypeInv, TypeOK
  <2> QED BY <2>1, <2>2
<1>4. Modes'
  BY <1>1, <1>3 DEF CurlEnd, TypeInv, Modes, globals
<1> QED BY <1>1, <1>3, <1>4 DEF CurlEnd, TypeInv, TypeOK, globals, bounds

(* The common tail of mo_execute_core. *)
LEMMA TypeLeaveCore ==
  ASSUME TypeInv, frames # <<>>, LeaveCore(Top(frames))
  PROVE  /\ frames' \in Seq(Frame) /\ Len(frames') = Len(frames) - 1
         /\ spans' \in Seq(Span) \cup {NoLog} /\ truth' \in Seq(Span)
         /\ stack' \in Seq(Context)
         /\ spans # NoLog => spans' # NoLog
<1> DEFINE f == Top(frames)
<1>1. /\ f \in Frame /\ frames' \in Seq(Frame)
      /\ Len(frames') = Len(frames) - 1
  BY LeaveFacts DEF LeaveCore, Leave
<1>2. stack \in Seq(Context)
  BY DEF TypeInv, TypeOK
<1>3. CASE f.kind = "hit" /\ RecordSpan(f) /\ stack' = Pop(stack)
  <2>1. stack' \in Seq(Context)
    BY <1>2, <1>3, PopFacts
  <2>2. /\ Client("client", RetrieveId(stack), RetrieveParent(stack)) \in Span
        /\ Client("client", f.id, f.parent) \in Span
    BY <1>1, <1>2, RetrieveTypes, ClientType DEF Frame
  <2>3. CASE UNCHANGED <<spans, truth>>
    BY <1>1, <2>1, <2>3 DEF TypeInv, TypeOK
  <2>4. CASE ~UNCHANGED <<spans, truth>>
    <3>1. /\ spans' = AddSpan(spans, Client("client", RetrieveId(stack),
                                            RetrieveParent(stack)))
          /\ truth' = Append(truth, Client("client", f.id, f.parent))
      BY <1>3, <2>4 DEF RecordSpan
    <3> QED BY <1>1, <2>1, <2>2, <3>1, TypeLists
  <2> QED BY <2>3, <2>4
<1>4. CASE f.kind = "plain" /\ UNCHANGED <<spans, truth, stack>>
  BY <1>1, <1>4 DEF TypeInv, TypeOK
<1> QED BY <1>1, <1>3, <1>4 DEF LeaveCore

LEMMA TypeReturn == TypeInv /\ Return => TypeInv'
<1> SUFFICES ASSUME TypeInv, Return PROVE TypeInv'
  OBVIOUS
<1>1. frames # <<>> /\ LeaveCore(Top(frames)) /\ phase # "idle"
  BY LeaveFacts DEF Return
<1>2. Modes'
  BY <1>1, TypeLeaveCore DEF Return, LeaveCore, TypeInv, Modes, globals
<1> QED BY <1>1, <1>2, TypeLeaveCore
        DEF Return, LeaveCore, TypeInv, TypeOK, globals, bounds

LEMMA TypeUnwind == TypeInv /\ Unwind => TypeInv'
<1> SUFFICES ASSUME TypeInv, Unwind PROVE TypeInv'
  OBVIOUS
<1>1. frames # <<>> /\ LeaveCore(Top(frames)) /\ phase # "idle"
  BY LeaveFacts DEF Unwind, TypeInv, Modes
<1>2. bailing' => frames' # <<>>
  BY <1>1, LeaveFacts DEF Unwind, LeaveCore, Leave
<1>3. bailing' \in BOOLEAN
  BY DEF Unwind
<1>4. Modes'
  BY <1>1, <1>2, TypeLeaveCore DEF LeaveCore, TypeInv, Modes, globals
<1> QED BY <1>1, <1>3, <1>4, TypeLeaveCore
        DEF LeaveCore, TypeInv, TypeOK, globals, bounds

LEMMA TypeUnwindCurl == TypeInv /\ UnwindCurl => TypeInv'
<1> SUFFICES ASSUME TypeInv, UnwindCurl PROVE TypeInv'
  OBVIOUS
<1>1. frames # <<>>
  BY DEF UnwindCurl, TypeInv, Modes
<1>2. /\ frames' \in Seq(Frame) /\ phase # "idle"
      /\ bailing' => frames' # <<>>
  BY <1>1, LeaveFacts DEF UnwindCurl, Leave
<1>3. bailing' \in BOOLEAN
  BY DEF UnwindCurl
<1>4. Modes'
  BY <1>2 DEF UnwindCurl, TypeInv, Modes, globals
<1> QED BY <1>2, <1>3, <1>4 DEF UnwindCurl, TypeInv, TypeOK, globals, bounds

LEMMA TypeRecordBails == TypeInv /\ RecordBails => TypeInv'
<1> SUFFICES ASSUME TypeInv, RecordBails PROVE TypeInv'
  OBVIOUS
<1>1. /\ frames' \in Seq(Frame) /\ phase # "idle"
      /\ bailing' => frames' # <<>>
  BY LeaveFacts DEF RecordBails, Leave
<1>2. bailing' \in BOOLEAN
  BY DEF RecordBails
<1>3. Modes'
  BY <1>1 DEF RecordBails, TypeInv, Modes, globals
<1> QED BY <1>1, <1>2, <1>3 DEF RecordBails, TypeInv, TypeOK, globals, bounds

LEMMA TypeExit == TypeInv /\ Exit => TypeInv'
<1> SUFFICES ASSUME TypeInv, Exit PROVE TypeInv'
  OBVIOUS
<1>1. Modes'
  BY DEF Exit, TypeInv, Modes, globals
<1> QED BY <1>1 DEF Exit, TypeInv, TypeOK, globals, bounds, history

LEMMA TypeFatalError == TypeInv /\ FatalError => TypeInv'
<1> SUFFICES ASSUME TypeInv, FatalError PROVE TypeInv'
  OBVIOUS
<1>1. Modes'
  BY DEF FatalError, TypeInv, Modes, globals
<1>2. bailing' \in BOOLEAN
  BY DEF FatalError
<1>3. errors' \in Nat /\ raised' \in Nat /\ calls' \in Nat
  BY DEF FatalError, TypeInv, TypeOK
<1> QED BY <1>1, <1>2, <1>3 DEF FatalError, TypeInv, TypeOK, globals

LEMMA TypeRshutdown == TypeInv /\ Rshutdown => TypeInv'
<1> SUFFICES ASSUME TypeInv, Rshutdown PROVE TypeInv'
  OBVIOUS
<1>1. CASE is_sampled
  <2> DEFINE s1 == Server(RetrieveId(stack), RetrieveParent(stack), errors)
             s2 == Server(root.id, root.parent, raised)
  <2>1. s1 \in Span /\ s2 \in Span
    BY RetrieveTypes DEF Server, Span, TypeInv, TypeOK
  <2>2. /\ batch' = AddSpan(spans, s1) /\ truth' = Append(truth, s2)
        /\ spans' = NoLog /\ stack' = <<>> /\ errors' = 0
    BY <1>1 DEF Rshutdown
  <2>3. batch' \in Seq(Span)
    BY <1>1, <2>1, <2>2, AddSpanType DEF Rshutdown, TypeInv, TypeOK, Modes
  <2>4. truth' \in Seq(Span)
    BY <2>1, <2>2, AppendProperties DEF TypeInv, TypeOK
  <2>5. stack' \in Seq(Context)
    BY <2>2
  <2>6. in_request' \in BOOLEAN /\ aliased' \in BOOLEAN
    BY <1>1 DEF Rshutdown
  <2>7. Modes'
    BY DEF Rshutdown, TypeInv, Modes
  <2> QED BY <2>2, <2>3, <2>4, <2>5, <2>6, <2>7
          DEF Rshutdown, TypeInv, TypeOK, bounds
<1>2. CASE ~is_sampled
  <2>1. in_request' \in BOOLEAN
    BY DEF Rshutdown
  <2>2. Modes'
    BY DEF Rshutdown, TypeInv, Modes
  <2> QED BY <1>2, <2>1, <2>2 DEF Rshutdown, TypeInv, TypeOK, bounds
<1> QED BY <1>1, <1>2

LEMMA TypeRequestEnds == TypeInv /\ RequestEnds => TypeInv'
<1> SUFFICES ASSUME TypeInv, RequestEnds PROVE TypeInv'
  OBVIOUS
<1>1. Modes'
  BY DEF RequestEnds, TypeInv, Modes, globals
<1> QED BY <1>1 DEF RequestEnds, TypeInv, TypeOK, globals, bounds, history

(* Every step preserves the types. *)
LEMMA TypeNext == TypeInv /\ [Next]_vars => TypeInv'
<1> SUFFICES ASSUME TypeInv, [Next]_vars PROVE TypeInv'
  OBVIOUS
<1>1. CASE Next
  BY <1>1, TypeRinit, TypeCallPlain, TypeCallHit, TypeCurlBegin, TypeCurlDies,
     TypeCurlEnd, TypeReturn, TypeUnwind, TypeUnwindCurl, TypeRecordBails,
     TypeExit, TypeFatalError, TypeRshutdown, TypeRshutdownDies,
     TypeRequestEnds
  DEF Next, Call, Leaving
<1>2. CASE UNCHANGED vars
  <2>1. Modes'
    BY <1>2 DEF TypeInv, Modes, vars, globals
  <2> QED BY <1>2, <2>1
          DEF TypeInv, TypeOK, vars, globals, bounds, history
<1> QED BY <1>1, <1>2

LEMMA TypeInvariant == Spec => []TypeInv
BY TypeInit, TypeNext, PTL DEF Spec

(***************************************************************************)
(* Every state is well typed, for any ids upstream, any cap and any bound  *)
(* on nesting, calls and requests.                                         *)
(***************************************************************************)
THEOREM TypeCorrect == Spec => []TypeOK
<1>1. TypeInv => TypeOK
  BY DEF TypeInv
<1> QED BY <1>1, TypeInvariant, PTL
-----------------------------------------------------------------------------
(***************************************************************************)
(* The level counter.                                                      *)
(***************************************************************************)

(* Leaving a call, however it is left, takes one frame off. *)
LEMMA LevelLeave ==
  ASSUME TypeInv, LevelBalanced, frames # <<>>, Leave(Top(frames)),
         (level' = level - 1 /\ lost' = lost)
           \/ (level' = level /\ lost' = lost + 1)
  PROVE  LevelBalanced'
<1>1. Len(frames') = Len(frames) - 1 /\ Len(frames) \in Nat
  BY LeaveFacts DEF Leave
<1>2. Len(frames') \in Nat
  BY <1>1, LeaveFacts, LenProperties DEF Leave
<1>3. level \in Int /\ lost \in Nat
  BY DEF TypeInv, TypeOK
<1> QED BY <1>1, <1>2, <1>3 DEF LevelBalanced

LEMMA LevelCall ==
  ASSUME TypeInv, LevelBalanced, NEW f \in Frame,
         frames' = Append(frames, f), level' = level + 1, lost' = lost
  PROVE  LevelBalanced'
<1>1. Len(frames') = Len(frames) + 1 /\ Len(frames) \in Nat
  BY EnterFacts, LenProperties DEF TypeInv, TypeOK
<1>2. level \in Int /\ lost \in Nat
  BY DEF TypeInv, TypeOK
<1> QED BY <1>1, <1>2 DEF LevelBalanced

LEMMA LevelNext ==
  TypeInv /\ LevelBalanced /\ [Next]_vars => LevelBalanced'
<1> SUFFICES ASSUME TypeInv, LevelBalanced, [Next]_vars
             PROVE  LevelBalanced'
  OBVIOUS
<1>1. CASE CallPlain
  <2>1. [kind |-> "plain", id |-> Enclosing, parent |-> NoId, parsed |-> TRUE]
          \in Frame
    BY EnclosingType DEF Frame, Id, NoId
  <2> QED BY <1>1, <2>1, LevelCall DEF CallPlain, history
<1>2. CASE CallHit
  BY <1>2, TracedFrame, LevelCall DEF CallHit, history
<1>3. CASE CurlBegin
  BY <1>3, TracedFrame, LevelCall DEF CurlBegin, history
<1>4. CASE CurlDies \/ RshutdownDies
  <2>1. level' = 0 /\ lost' = 0 /\ frames' = <<>>
    BY <1>4 DEF CurlDies, RshutdownDies, Die
  <2>2. Len(frames') = 0
    BY <2>1
  <2> QED BY <2>1, <2>2 DEF LevelBalanced
<1>5. CASE CurlEnd
  BY <1>5, LevelLeave DEF CurlEnd
<1>6. CASE Return
  BY <1>6, LevelLeave DEF Return, LeaveCore
<1>7. CASE Unwind
  BY <1>7, LevelLeave DEF Unwind, LeaveCore, TypeInv, Modes
<1>8. CASE UnwindCurl
  BY <1>8, LevelLeave DEF UnwindCurl, TypeInv, Modes
<1>9. CASE RecordBails
  BY <1>9, LevelLeave DEF RecordBails
<1>10. CASE Rinit \/ Exit \/ FatalError \/ Rshutdown \/ RequestEnds
             \/ UNCHANGED vars
  <2>1. UNCHANGED <<level, frames, lost>>
    BY <1>10
    DEF Rinit, Exit, FatalError, Rshutdown, RequestEnds, vars, history
  <2> QED BY <2>1 DEF LevelBalanced
<1> QED BY <1>1, <1>2, <1>3, <1>4, <1>5, <1>6, <1>7, <1>8, <1>9, <1>10
        DEF Next, Call, Leaving

(***************************************************************************)
(* level is the number of calls in progress, plus the calls whose record   *)
(* callback bailed out: for any nesting of calls, exits and fatal errors.  *)
(***************************************************************************)
THEOREM LevelAlwaysBalanced == Spec => []LevelBalanced
<1>1. Init => LevelBalanced
  <2> SUFFICES ASSUME Init PROVE LevelBalanced
    OBVIOUS
  <2>1. level = 0 /\ lost = 0 /\ Len(frames) = 0
    BY DEF Init
  <2> QED BY <2>1 DEF LevelBalanced
<1> QED BY <1>1, LevelNext, TypeInvariant, PTL DEF Spec
-----------------------------------------------------------------------------
(***************************************************************************)
(* The context stack.                                                      *)
(***************************************************************************)

(* The accounting of a sampled request, and the numbers in it. *)
Accounted == Len(stack) = Base + Cardinality(Traced) + leaked

LEMMA StackNumbers ==
  ASSUME TypeInv
  PROVE  /\ Len(stack) \in Nat /\ leaked \in Nat
         /\ Base \in Nat /\ Base > 0
         /\ Cardinality(Traced) \in Nat
BY LenProperties, TracedFinite DEF TypeInv, TypeOK, Base, Traced

(* A traced call enters with a context of its own. *)
LEMMA StackEnter ==
  ASSUME TypeInv, Accounted, NEW f \in Frame, f.kind # "plain",
         frames' = Append(frames, f), stack' = PushContext(stack),
         UNCHANGED <<root, leaked>>
  PROVE  Accounted'
<1>1. Cardinality(Traced') = Cardinality(Traced) + 1
  BY TracedAppend DEF Traced, TypeInv, TypeOK
<1>2. Len(stack') = Len(stack) + 1
  BY PushContextFacts DEF TypeInv, TypeOK
<1>3. Base' = Base /\ leaked' = leaked
  BY DEF Base
<1>4. Len(stack) = Base + Cardinality(Traced) + leaked
  BY DEF Accounted
<1>5. Len(stack') = Base' + Cardinality(Traced') + leaked'
  BY <1>1, <1>2, <1>3, <1>4, StackNumbers
<1> QED BY <1>5 DEF Accounted

(* It leaves with a pop, or leaks its context. *)
LEMMA StackLeave ==
  ASSUME TypeInv, Accounted, frames # <<>>, Leave(Top(frames)),
         UNCHANGED root,
         \/ /\ Top(frames).kind = "plain" /\ UNCHANGED <<stack, leaked>>
         \/ /\ Top(frames).kind # "plain" /\ UNCHANGED leaked
            /\ stack' = Pop(stack)
         \/ /\ Top(frames).kind # "plain" /\ UNCHANGED stack
            /\ leaked' = leaked + 1
  PROVE  Accounted'
<1>1. Cardinality(Traced) = Cardinality(Traced')
                             + (IF Top(frames).kind = "plain" THEN 0 ELSE 1)
  BY TracedButlast DEF Leave, Traced, TypeInv, TypeOK
<1>2. Cardinality(Traced') \in Nat
  BY LeaveFacts, TracedFinite DEF Leave, Traced
<1>3. Base' = Base
  BY DEF Base
<1>4. Len(stack) > 0 => Len(Pop(stack)) = Len(stack) - 1
  BY PopFacts DEF TypeInv, TypeOK
<1>5. CASE Top(frames).kind = "plain"
  BY <1>1, <1>2, <1>3, <1>5, StackNumbers DEF Accounted
<1>6. CASE Top(frames).kind # "plain"
  BY <1>1, <1>2, <1>3, <1>4, <1>6, StackNumbers DEF Accounted
<1> QED BY <1>5, <1>6

LEMMA StackLeaveCore ==
  ASSUME TypeInv, Accounted, frames # <<>>, LeaveCore(Top(frames))
  PROVE  Accounted'
<1>1. Leave(Top(frames)) /\ UNCHANGED <<root, leaked>>
  BY DEF LeaveCore
<1>2. CASE Top(frames).kind = "hit"
  <2>1. stack' = Pop(stack)
    BY <1>2 DEF LeaveCore
  <2> QED BY <1>1, <1>2, <2>1, StackLeave
<1>3. CASE Top(frames).kind # "hit"
  <2>1. Top(frames).kind = "plain" /\ UNCHANGED stack
    BY <1>3 DEF LeaveCore
  <2> QED BY <1>1, <2>1, StackLeave
<1> QED BY <1>2, <1>3

LEMMA StackNext ==
  TypeInv /\ StackAccounting /\ [Next]_vars => StackAccounting'
<1> SUFFICES ASSUME TypeInv, StackAccounting, [Next]_vars, Tracing'
             PROVE  Accounted'
  BY DEF StackAccounting, Accounted
<1>1. CASE Rinit
  <2>1. Len(stack') = Base'
    BY <1>1, RinitStack DEF Tracing
  <2>2. leaked' = 0
    BY <1>1 DEF Rinit
  <2>3. Cardinality(Traced') = 0
    <3>1. frames' = <<>>
      BY <1>1 DEF Rinit, TypeInv, Modes
    <3> QED BY <3>1, TracedNone DEF Traced
  <2>4. Base' \in Nat
    BY DEF Base
  <2>5. Len(stack') = Base' + Cardinality(Traced') + leaked'
    <3>1. \A b \in Nat : b = b + 0 + 0
      OBVIOUS
    <3>2. Base' = Base' + 0 + 0
      BY <2>4, <3>1
    <3> QED BY <2>1, <2>2, <2>3, <3>2, Zenon
  <2> QED BY <2>5 DEF Accounted
<1>2. CASE ~Rinit
  <2>1. Tracing
    BY <1>2 DEF Next, Call, Leaving, CallPlain, CallHit, CurlBegin, CurlDies,
         CurlEnd, Return, Unwind, UnwindCurl, RecordBails, LeaveCore, Exit,
         FatalError, Rshutdown, RshutdownDies, Die, RequestEnds, vars, globals,
         Tracing
  <2>2. Accounted
    BY <2>1 DEF StackAccounting, Accounted
  <2>3. CASE CallPlain
    <3>1. [kind |-> "plain", id |-> Enclosing, parent |-> NoId,
           parsed |-> TRUE] \in Frame
      BY EnclosingType DEF Frame, Id, NoId
    <3>2. Cardinality(Traced') = Cardinality(Traced)
      BY <2>3, <3>1, TracedAppend, StackNumbers
      DEF CallPlain, Traced, TypeInv, TypeOK
    <3> QED BY <2>2, <2>3, <3>2 DEF CallPlain, Accounted, Base, history
  <2>4. CASE CallHit
    BY <2>2, <2>4, TracedFrame, StackEnter DEF CallHit, history
  <2>5. CASE CurlBegin
    BY <2>2, <2>5, TracedFrame, StackEnter DEF CurlBegin, history
  <2>6. CASE CurlEnd
    BY <2>2, <2>6, StackLeave DEF CurlEnd
  <2>7. CASE Return
    BY <2>2, <2>7, StackLeaveCore DEF Return
  <2>8. CASE Unwind
    BY <2>2, <2>8, StackLeaveCore DEF Unwind, TypeInv, Modes
  <2>9. CASE UnwindCurl
    <3>1. frames # <<>>
      BY <2>9 DEF UnwindCurl, TypeInv, Modes
    <3> QED BY <2>2, <2>9, <3>1, StackLeave DEF UnwindCurl
  <2>10. CASE RecordBails
    BY <2>2, <2>10, StackLeave DEF RecordBails
  <2>11. CASE CurlDies \/ Rshutdown \/ RshutdownDies
    BY <2>11 DEF CurlDies, Rshutdown, RshutdownDies, Die, Tracing
  <2>12. CASE Exit \/ FatalError \/ RequestEnds \/ UNCHANGED vars
    <3>1. UNCHANGED <<stack, frames, root, leaked>>
      BY <2>12 DEF Exit, FatalError, RequestEnds, vars, history
    <3> QED BY <2>2, <3>1 DEF Accounted, Base, Traced
  <2> QED BY <1>2, <2>3, <2>4, <2>5, <2>6, <2>7, <2>8, <2>9, <2>10, <2>11,
          <2>12 DEF Next, Call, Leaving
<1> QED BY <1>1, <1>2

(***************************************************************************)
(* In a sampled request the stack is exactly the request's contexts, those *)
(* of the traced calls in progress and the leaked ones: no call pops the   *)
(* context of another twice, and no request starts on what another left.   *)
(***************************************************************************)
THEOREM StackAccounted == Spec => []StackAccounting
<1>1. Init => StackAccounting
  BY DEF Init, StackAccounting, Tracing
<1> QED BY <1>1, StackNext, TypeInvariant, PTL DEF Spec
=============================================================================
