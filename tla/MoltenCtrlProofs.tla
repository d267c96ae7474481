-------------------------- MODULE MoltenCtrlProofs --------------------------
(* Proofs about MoltenCtrl, for any set of workers and any configuration.  *)
EXTENDS MoltenCtrl, FiniteSetTheorems, TLAPS

-----------------------------------------------------------------------------
(***************************************************************************)
(* Type correctness needs to know what the locals hold at each point of a  *)
(* request: the body while it is applied, the minute while it is compared, *)
(* and that no limit ever read is above the bound.                         *)
(***************************************************************************)
HoldsMinute == {"compare", "increment", "reset_num", "reset_min", "threshold"}

LocalsOK ==
  /\ mcm.sampling_request <= LimitBound
  /\ \A w \in Worker :
       /\ pc[w] \in PostPC => post[w] \in PostBody
       /\ pc[w] \in HoldsMinute => min[w] \in Nat
       /\ pc[w] # "threshold" => num[w] = Unread /\ limit[w] = Unread
       /\ limit[w] \in Int => limit[w] <= LimitBound

TypeInv == TypeOK /\ LocalsOK

LEMMA InitTypeInv == Init => TypeInv
  BY CtrlAssumption
  DEF Init, TypeInv, TypeOK, LocalsOK, PC, PostPC, LimiterPC, HoldsMinute,
      Byte, Minutes, Fields, BlankPage

LEMMA ByteRange ==
  ASSUME NEW v \in Int
  PROVE  Byte(v) \in 0 .. 255
BY DEF Byte

LEMMA BumpType ==
  ASSUME NEW S, NEW f \in [S -> Nat], NEW i
  PROVE  [f EXCEPT ![i] = @ + 1] \in [S -> Nat]
<1>1. CASE i \in S
  BY <1>1
<1>2. CASE i \notin S
  <2>1. [f EXCEPT ![i] = @ + 1] = f
    BY <1>2
  <2> QED
    BY <2>1
<1> QED
  BY <1>1, <1>2

LEMMA RatioOutcomesBoolean ==
  ASSUME NEW rate
  PROVE  RatioOutcomes(rate) \subseteq BOOLEAN
BY DEF RatioOutcomes

(* The steps of a POST keep enable a flag, the type a byte and the request  *)
(* limit within the bound that the posted bodies have.                     *)
LEMMA PostTypeInv ==
  ASSUME TypeInv, NEW w \in Worker, Post(w)
  PROVE  TypeInv'
<1> USE DEF TypeInv, TypeOK, LocalsOK, PC, PostPC, LimiterPC, HoldsMinute,
            slots, locals, history, Goto
<1>0. ASSUME pc[w] \in PostPC
      PROVE  /\ \A f \in DOMAIN post[w] : post[w][f] \in Int
             /\ "samplingRequest" \in DOMAIN post[w]
                  => post[w]["samplingRequest"] <= LimitBound
  BY <1>0, CtrlAssumption
<1>1. CASE PostEnable(w)
  <2>1. /\ mcm' \in [enable : {0, 1}, sampling_type : 0 .. 255,
                    sampling_rate : Int, sampling_request : Int]
        /\ mcm'.sampling_request = mcm.sampling_request
    BY <1>1 DEF PostEnable
  <2>2. /\ \/ pc' = [pc EXCEPT ![w] = "post_type"]
           \/ pc' = [pc EXCEPT ![w] = "sampling"]
        /\ pc[w] = "post_enable"
        /\ UNCHANGED <<mri, msr, clock, locals, served, crashes, history>>
    BY <1>1, Zenon DEF PostEnable
  <2>3. TypeOK'
    BY <2>1, <2>2
  <2>4. LocalsOK'
    BY <2>1, <2>2
  <2> QED
    BY <2>3, <2>4
<1>2. CASE PostType(w)
  <2>1. CASE "samplingType" \notin DOMAIN post[w]
    BY <1>2, <2>1 DEF PostType
  <2>2. CASE "samplingType" \in DOMAIN post[w]
    <3>1. Byte(post[w]["samplingType"]) \in 0 .. 255
      <4>1. post[w]["samplingType"] \in Int
        BY <1>0, <1>2, <2>2 DEF PostType
      <4> QED
        BY <4>1, ByteRange
    <3>2. {ValueOf(Byte(post[w]["samplingType"]))} \subseteq Fields
      BY DEF ValueOf, Fields
    <3> QED
      BY <1>2, <2>2, <3>1, <3>2 DEF PostType
  <2> QED
    BY <2>1, <2>2
<1>3. CASE PostBranch(w)
  BY <1>3 DEF PostBranch
<1>4. CASE PostRate(w)
  <2>1. /\ mcm' \in [enable : {0, 1}, sampling_type : 0 .. 255,
                    sampling_rate : Int, sampling_request : Int]
        /\ mcm'.sampling_request = mcm.sampling_request
        /\ stale' \subseteq stale
    BY <1>0, <1>4 DEF PostRate
  <2>2. /\ pc' = [pc EXCEPT ![w] = "sampling"] /\ pc[w] = "post_rate"
        /\ UNCHANGED <<mri, msr, clock, locals, served, crashes,
                       seen, granted, epochGranted, meanwhile>>
    BY <1>4, Zenon DEF PostRate
  <2>3. TypeOK'
    BY <2>1, <2>2
  <2>4. LocalsOK'
    BY <2>1, <2>2
  <2> QED
    BY <2>3, <2>4
<1>5. CASE PostRequest(w)
  BY <1>0, <1>5 DEF PostRequest
<1> QED
  BY <1>1, <1>2, <1>3, <1>4, <1>5 DEF Post

(* A worker in the limiter reads a minute before it compares or stores it.  *)
LEMMA LimiterTypeInv ==
  ASSUME TypeInv, NEW w \in Worker, Limiter(w)
  PROVE  TypeInv'
<1> USE CtrlAssumption
    DEF TypeInv, TypeOK, LocalsOK, PC, PostPC, LimiterPC, HoldsMinute,
        slots, locals, history, Goto
<1>1. CASE ReadClock(w)
  BY <1>1 DEF ReadClock
<1>2. CASE CompareMinute(w)
  BY <1>2 DEF CompareMinute
<1>3. CASE IncrementNum(w)
  BY <1>3 DEF IncrementNum
<1>4. CASE ResetNum(w)
  BY <1>4 DEF ResetNum
<1>5. CASE ResetMin(w)
  BY <1>5 DEF ResetMin
<1>6. CASE ReadNum(w)
  BY <1>6 DEF ReadNum
<1>7. CASE ReadLimit(w)
  BY <1>7 DEF ReadLimit
<1>8. CASE Decide(w)
  <2>1. is_sampled' \in [Worker -> BOOLEAN]
    BY <1>8 DEF Decide
  <2>2. granted' \in [Minutes -> Nat] /\ epochGranted' \in Nat
    <3>1. CASE UnderLimit(num[w], limit[w])
      <4>1. /\ granted' = [granted EXCEPT ![min[w]] = @ + 1]
            /\ epochGranted' = epochGranted + 1
        BY <1>8, <3>1, Zenon DEF Decide
      <4>2. granted' \in [Minutes -> Nat]
        BY <4>1, BumpType, Zenon
      <4> QED
        BY <4>1, <4>2
    <3>2. CASE ~UnderLimit(num[w], limit[w])
      <4>1. UNCHANGED <<granted, epochGranted>>
        BY <1>8, <3>2, Zenon DEF Decide
      <4> QED
        BY <4>1
    <3> QED
      BY <3>1, <3>2
  <2>3. seen' \in [Minutes -> Nat]
    <3>1. seen' = [seen EXCEPT ![min[w]] = @ + 1]
      BY <1>8 DEF Decide
    <3> QED
      BY <3>1, BumpType
  <2>4. /\ pc' = [pc EXCEPT ![w] = "running"]
        /\ min' = [min EXCEPT ![w] = Unread]
        /\ num' = [num EXCEPT ![w] = Unread]
        /\ limit' = [limit EXCEPT ![w] = Unread]
        /\ UNCHANGED <<slots, clock, post, page, served, crashes, stale,
                       meanwhile>>
    BY <1>8 DEF Decide
  <2> QED
    BY <2>1, <2>2, <2>3, <2>4
<1> QED
  BY <1>1, <1>2, <1>3, <1>4, <1>5, <1>6, <1>7, <1>8 DEF Limiter

LEMMA PageTypeInv ==
  ASSUME TypeInv, NEW w \in Worker, Page(w)
  PROVE  TypeInv'
<1> USE DEF TypeInv, TypeOK, LocalsOK, PC, PostPC, LimiterPC, HoldsMinute,
            slots, locals, history, Goto
<1>1. CASE ReadAll(w) \/ ReadCapture(w)
  <2>1. \E c \in {"request_all", "request_capture"} :
          page' = [page EXCEPT ![w][c] = mri[c]]
    BY <1>1, Zenon DEF ReadAll, ReadCapture, ReadCounter
  <2>2. UNCHANGED <<slots, clock, pc, post, min, num, limit, is_sampled, served,
                    crashes, history>>
    BY <1>1, Zenon DEF ReadAll, ReadCapture, ReadCounter
  <2>3. page' \in [Worker -> [request_all : Nat \cup {Unread},
                             request_capture : Nat \cup {Unread}]]
    BY <2>1
  <2> QED
    BY <2>2, <2>3
<1>2. CASE WritePage(w)
  BY <1>2 DEF WritePage, BlankPage
<1> QED
  BY <1>1, <1>2 DEF Page

LEMMA DieTypeInv ==
  ASSUME TypeInv, NEW w \in Worker, Die(w), crashes' \in 0 .. MaxCrashes
  PROVE  TypeInv'
BY CtrlAssumption
DEF TypeInv, TypeOK, LocalsOK, PC, PostPC, LimiterPC, HoldsMinute,
    slots, history, BlankPage, Die

LEMMA NextTypeInv == TypeInv /\ [Next]_vars => TypeInv'
<1> SUFFICES ASSUME TypeInv, [Next]_vars
             PROVE  TypeInv'
  OBVIOUS
<1> USE CtrlAssumption
<1>1. CASE Tick
  BY <1>1 DEF Tick, TypeInv, TypeOK, LocalsOK, slots, locals, history
<1>2. CASE UNCHANGED vars
  BY <1>2 DEF vars, TypeInv, TypeOK, LocalsOK, slots, locals, history
<1>3. ASSUME NEW w \in Worker, Step(w)
      PROVE  TypeInv'
  <2> USE DEF TypeInv, TypeOK, LocalsOK, PC, PostPC, LimiterPC, HoldsMinute,
              slots, locals, history, Goto
  <2>1. CASE BeginRequest(w)
    <3>1. /\ pc[w] = "idle" /\ served < MaxRequests /\ served' = served + 1
          /\ UNCHANGED <<slots, clock, min, num, limit, is_sampled, page, crashes,
                         history>>
      BY <2>1, Zenon DEF BeginRequest
    <3>2. \/ /\ pc' = [pc EXCEPT ![w] = "post_enable"]
             /\ \E b \in PostBody : post' = [post EXCEPT ![w] = b]
          \/ /\ \E next \in {"page", "sampling"} : pc' = [pc EXCEPT ![w] = next]
             /\ post' = post
      BY <2>1, Zenon DEF BeginRequest
    <3>3. post' \in [Worker -> PostBody \cup {NoBody}]
      BY <3>2
    <3>4. pc' \in [Worker -> PC]
      BY <3>2
    <3>5. TypeOK'
      BY <3>1, <3>3, <3>4
    <3>6. LocalsOK'
      BY <3>1, <3>2
    <3> QED
      BY <3>5, <3>6
  <2>2. CASE SampleByHeader(w)
    BY <2>2 DEF SampleByHeader
  <2>3. CASE ChooseSampler(w)
    BY <2>3 DEF ChooseSampler
  <2>4. CASE HitRatio(w)
    <3>1. PICK hit \in BOOLEAN : is_sampled' = [is_sampled EXCEPT ![w] = hit]
      BY <2>4, RatioOutcomesBoolean DEF HitRatio
    <3> QED
      BY <2>4, <3>1 DEF HitRatio
  <2>5. CASE RecordAll(w)
    <3>1. CASE is_sampled[w]
      <4>1. /\ pc[w] = "running"
            /\ pc' = [pc EXCEPT ![w] = "record_capture"]
            /\ mri' = [mri EXCEPT !.request_all = @ + 1]
            /\ UNCHANGED <<mcm, msr, clock, locals, served, crashes, history>>
        BY <2>5, <3>1, Zenon DEF RecordAll
      <4>2. mri' \in [request_all : Nat, request_capture : Nat]
        BY <4>1
      <4> QED
        BY <4>1, <4>2
    <3>2. CASE ~is_sampled[w]
      <4>1. /\ pc[w] = "running"
            /\ pc' = [pc EXCEPT ![w] = "idle"]
            /\ mri' = [mri EXCEPT !.request_all = @ + 1]
            /\ is_sampled' = [is_sampled EXCEPT ![w] = FALSE]
            /\ post' = [post EXCEPT ![w] = NoBody]
            /\ UNCHANGED <<mcm, msr, clock, min, num, limit, page, served,
                           crashes, history>>
        BY <2>5, <3>2, Zenon DEF RecordAll, EndRequest
      <4>2. mri' \in [request_all : Nat, request_capture : Nat]
        BY <4>1
      <4> QED
        BY <4>1, <4>2
    <3> QED
      BY <3>1, <3>2
  <2>6. CASE RecordCapture(w)
    <3>1. /\ pc[w] = "record_capture" /\ pc' = [pc EXCEPT ![w] = "idle"]
          /\ mri' = [mri EXCEPT !.request_capture = @ + 1]
          /\ is_sampled' = [is_sampled EXCEPT ![w] = FALSE]
          /\ post' = [post EXCEPT ![w] = NoBody]
      BY <2>6, Zenon DEF RecordCapture, EndRequest
    <3>2. meanwhile' \in [Worker -> Nat]
      BY <2>6 DEF RecordCapture
    <3>3. UNCHANGED <<mcm, msr, clock, min, num, limit, page, served, crashes,
                      seen, granted, epochGranted, stale>>
      BY <2>6, Zenon DEF RecordCapture
    <3>4. /\ mri' \in [request_all : Nat, request_capture : Nat]
          /\ is_sampled' \in [Worker -> BOOLEAN]
      BY <3>1
    <3>5. /\ post' \in [Worker -> PostBody \cup {NoBody}]
          /\ pc' \in [Worker -> PC]
      BY <3>1
    <3>6. TypeOK'
      BY <3>2, <3>3, <3>4, <3>5
    <3>7. LocalsOK'
      BY <3>1, <3>3
    <3> QED
      BY <3>6, <3>7
  <2>7. CASE DivideByZero(w)
    BY <2>7, DieTypeInv DEF DivideByZero
  <2>8. CASE Crash(w)
    <3>1. crashes' \in 0 .. MaxCrashes
      BY <2>8 DEF Crash
    <3> QED
      BY <2>8, <3>1, DieTypeInv DEF Crash
  <2> QED
    BY <1>3, <2>1, <2>2, <2>3, <2>4, <2>5, <2>6, <2>7, <2>8,
       PageTypeInv, PostTypeInv, LimiterTypeInv DEF Step
<1> QED
  BY <1>1, <1>2, <1>3 DEF Next

(* Every reachable state is well typed, whatever is posted and crashes.     *)
THEOREM TypeCorrect == Spec => []TypeOK
<1>1. TypeInv => TypeOK
  BY DEF TypeInv
<1> QED
  BY <1>1, InitTypeInv, NextTypeInv, PTL DEF Spec

-----------------------------------------------------------------------------
(***************************************************************************)
(* The counters.  Only mo_ctrl_record and a death change who is recording. *)
(***************************************************************************)
LEMMA RecordingFinite ==
  /\ IsFiniteSet(Recording) /\ Cardinality(Recording) \in Nat
  /\ IsFiniteSet(Recording') /\ Cardinality(Recording') \in Nat
<1>1. Recording \in SUBSET Worker /\ Recording' \in SUBSET Worker
  BY DEF Recording
<1> QED
  BY <1>1, FS_Subset, FS_CardinalityType, CtrlAssumption

LEMMA InitCapture == Init => CaptureBehindAll
<1> SUFFICES ASSUME Init PROVE CaptureBehindAll
  OBVIOUS
<1>1. Recording = {}
  BY DEF Init, Recording
<1> QED
  BY <1>1, FS_EmptySet DEF Init, CaptureBehindAll

LEMMA NextCapture ==
  TypeInv /\ CaptureBehindAll /\ [Next]_vars => CaptureBehindAll'
<1> SUFFICES ASSUME TypeInv, CaptureBehindAll, [Next]_vars
             PROVE  CaptureBehindAll'
  OBVIOUS
<1> USE DEF TypeInv, TypeOK
<1>1. ASSUME NEW w \in Worker, Recording' = Recording \ {w}, UNCHANGED mri
      PROVE  CaptureBehindAll'
  <2>1. Cardinality(Recording') <= Cardinality(Recording)
    <3>1. CASE w \in Recording
      BY ONLY <1>1, <3>1, RecordingFinite, FS_RemoveElement
    <3>2. CASE w \notin Recording
      BY ONLY <1>1, <3>2, RecordingFinite
    <3> QED
      BY <3>1, <3>2
  <2> QED
    BY <1>1, <2>1, RecordingFinite DEF CaptureBehindAll
<1>2. ASSUME Recording' = Recording, UNCHANGED mri
      PROVE  CaptureBehindAll'
  BY <1>2 DEF CaptureBehindAll
<1>3. CASE Tick
  BY <1>2, <1>3 DEF Tick, slots, Recording
<1>4. CASE UNCHANGED vars
  BY <1>2, <1>4 DEF vars, slots, Recording
<1>5. ASSUME NEW w \in Worker, Step(w)
      PROVE  CaptureBehindAll'
  <2>1. CASE RecordAll(w) /\ is_sampled[w]
    <3>1. Recording' = Recording \cup {w} /\ w \notin Recording
      BY <2>1 DEF RecordAll, Recording
    <3>2. Cardinality(Recording') = Cardinality(Recording) + 1
      BY <3>1, RecordingFinite, FS_AddElement
    <3>3. /\ mri'.request_all = mri.request_all + 1
          /\ mri'.request_capture = mri.request_capture
      BY <2>1 DEF RecordAll
    <3> QED
      BY <3>2, <3>3, RecordingFinite DEF CaptureBehindAll
  <2>2. CASE RecordAll(w) /\ ~is_sampled[w]
    <3>1. Recording' = Recording
      BY <2>2 DEF RecordAll, Recording
    <3>2. /\ mri'.request_all = mri.request_all + 1
          /\ mri'.request_capture = mri.request_capture
      BY <2>2 DEF RecordAll
    <3> QED
      BY <3>1, <3>2, RecordingFinite DEF CaptureBehindAll
  <2>3. CASE RecordCapture(w)
    <3>1. Recording' = Recording \ {w} /\ w \in Recording
      BY <2>3 DEF RecordCapture, Goto, Recording
    <3>2. Cardinality(Recording') = Cardinality(Recording) - 1
      BY <3>1, RecordingFinite, FS_RemoveElement
    <3>3. /\ mri'.request_all = mri.request_all
          /\ mri'.request_capture = mri.request_capture + 1
      BY <2>3 DEF RecordCapture
    <3> QED
      BY <3>2, <3>3, RecordingFinite DEF CaptureBehindAll
  <2>4. CASE DivideByZero(w) \/ Crash(w)
    <3>1. Recording' = Recording \ {w} /\ UNCHANGED mri
      BY <2>4 DEF DivideByZero, Crash, Die, Recording, slots
    <3> QED
      BY <1>1, <3>1
  <2>5. CASE BeginRequest(w) \/ SampleByHeader(w) \/ ChooseSampler(w)
                \/ HitRatio(w)
    <3>1. Recording' = Recording /\ UNCHANGED mri
      BY <2>5 DEF BeginRequest, SampleByHeader, ChooseSampler, HitRatio,
                  Goto, Recording, slots
    <3> QED
      BY <1>2, <3>1
  <2>8. CASE Page(w)
    <3>1. Recording' = Recording /\ UNCHANGED mri
      BY <2>8 DEF Page, ReadAll, ReadCapture, ReadCounter, WritePage, Goto,
                  Recording, slots
    <3> QED
      BY <1>2, <3>1
  <2>6. CASE Post(w)
    <3>1. Recording' = Recording /\ UNCHANGED mri
      BY <2>6 DEF Post, PostEnable, PostType, PostBranch, PostRate,
                  PostRequest, Goto, Recording, slots
    <3> QED
      BY <1>2, <3>1
  <2>7. CASE Limiter(w)
    <3>1. Recording' = Recording /\ UNCHANGED mri
      BY <2>7 DEF Limiter, ReadClock, CompareMinute, IncrementNum, ResetNum,
                  ResetMin, ReadNum, ReadLimit, Decide, Goto, Recording, slots
    <3> QED
      BY <1>2, <3>1
  <2> QED
    BY <1>5, <2>1, <2>2, <2>3, <2>4, <2>5, <2>6, <2>7, <2>8 DEF Step
<1> QED
  BY <1>3, <1>4, <1>5 DEF Next

(* However many workers are between the two adds of mo_ctrl_record, and     *)
(* whichever of them die there, the shared counters never hold more captured*)
(* requests than requests.                                                 *)
THEOREM CaptureNeverAhead == Spec => []CaptureBehindAll
<1>1. Spec => []TypeInv
  BY InitTypeInv, NextTypeInv, PTL DEF Spec
<1> QED
  BY <1>1, InitCapture, NextCapture, PTL DEF Spec

-----------------------------------------------------------------------------
(***************************************************************************)
(* The status page.  A count of captures that was read is behind the shared*)
(* one; a count of requests that was read is behind it by no more than was *)
(* captured meanwhile.  PageAhead says nothing of a page half read.        *)
(***************************************************************************)
PageOf(w) ==
  /\ pc[w] # "page" => page[w] = BlankPage
  /\ page[w].request_capture # Unread => page[w].request_capture <= mri.request_capture
  /\ page[w].request_all # Unread =>
       mri.request_capture <= page[w].request_all + meanwhile[w]

PageInv == \A w \in Worker : PageOf(w)

LEMMA InitPage == Init => PageInv
BY DEF Init, PageInv, PageOf, BlankPage

(* Steps that record no capture and do not touch the page of v.            *)
LEMMA PageKept ==
  ASSUME TypeInv, NEW v \in Worker, PageOf(v), pc'[v] # "page" => page[v] = BlankPage,
         page'[v] = page[v], meanwhile'[v] = meanwhile[v],
         UNCHANGED mri.request_capture
  PROVE  PageOf(v)'
BY DEF PageOf, BlankPage

LEMMA NextPage ==
  ASSUME TypeInv, CaptureBehindAll, PageInv, [Next]_vars
  PROVE  PageInv'
<1> USE DEF TypeInv, TypeOK, slots, locals, history, Goto
<1>1. CASE UNCHANGED vars
  BY <1>1, PageKept DEF vars, PageInv, PageOf
<1>2. CASE Tick
  BY <1>2, PageKept DEF Tick, PageInv, PageOf
<1>3. ASSUME NEW w \in Worker, Step(w), NEW v \in Worker
      PROVE  PageOf(v)'
  <2>0. PageOf(v)
    BY DEF PageInv
  <2>1. CASE ReadAll(w)
    <3>1. CASE v = w
      <4>1. /\ page'[w] = [page[w] EXCEPT !.request_all = mri.request_all]
            /\ pc[w] = "page" /\ UNCHANGED <<pc, mri, meanwhile>>
        BY <2>1 DEF ReadAll, ReadCounter
      <4>2. mri.request_capture <= mri.request_all
        BY RecordingFinite DEF CaptureBehindAll
      <4> QED
        BY <2>0, <3>1, <4>1, <4>2 DEF PageOf
    <3>2. CASE v # w
      BY <2>0, <2>1, <3>2, PageKept DEF ReadAll, ReadCounter, PageOf
    <3> QED
      BY <3>1, <3>2
  <2>2. CASE ReadCapture(w)
    <3>1. CASE v = w
      <4>1. /\ page'[w] = [page[w] EXCEPT !.request_capture = mri.request_capture]
            /\ pc[w] = "page" /\ UNCHANGED <<pc, mri, meanwhile>>
        BY <2>2 DEF ReadCapture, ReadCounter
      <4> QED
        BY <2>0, <3>1, <4>1 DEF PageOf
    <3>2. CASE v # w
      BY <2>0, <2>2, <3>2, PageKept DEF ReadCapture, ReadCounter, PageOf
    <3> QED
      BY <3>1, <3>2
  <2>3. CASE WritePage(w)
    <3>1. CASE v = w
      BY <2>3, <3>1 DEF WritePage, PageOf, BlankPage
    <3>2. CASE v # w
      BY <2>0, <2>3, <3>2, PageKept DEF WritePage, PageOf
    <3> QED
      BY <3>1, <3>2
  <2>4. CASE RecordCapture(w)
    <3>1. /\ page' = page /\ mri'.request_capture = mri.request_capture + 1
          /\ pc'[v] = IF v = w THEN "idle" ELSE pc[v]
          /\ meanwhile'[v] = IF pc[v] = "page" THEN meanwhile[v] + 1 ELSE meanwhile[v]
          /\ pc[w] = "record_capture"
      BY <2>4 DEF RecordCapture
    <3>2. CASE pc[v] = "page"
      BY <2>0, <3>1, <3>2 DEF PageOf
    <3>3. CASE pc[v] # "page"
      BY <2>0, <3>1, <3>3 DEF PageOf, BlankPage
    <3> QED
      BY <3>2, <3>3
  <2>5. CASE DivideByZero(w) \/ Crash(w)
    <3>1. CASE v = w
      BY <2>5, <3>1 DEF DivideByZero, Crash, Die, PageOf, BlankPage
    <3>2. CASE v # w
      BY <2>0, <2>5, <3>2, PageKept DEF DivideByZero, Crash, Die, PageOf
    <3> QED
      BY <3>1, <3>2
  <2>6. CASE BeginRequest(w) \/ SampleByHeader(w) \/ ChooseSampler(w)
               \/ HitRatio(w)
    BY <2>0, <2>6, PageKept
    DEF BeginRequest, SampleByHeader, ChooseSampler, HitRatio, PageOf
  <2>7. CASE RecordAll(w)
    <3>1. /\ pc[w] = "running" /\ pc'[w] \in {"record_capture", "idle"}
          /\ \A u \in Worker \ {w} : pc'[u] = pc[u]
          /\ UNCHANGED <<page, meanwhile, mri.request_capture>>
      BY <2>7 DEF RecordAll
    <3> QED
      BY <2>0, <3>1, PageKept DEF PageOf
  <2>8. CASE Post(w)
    <3>1. /\ pc[w] \in PostPC /\ pc'[w] # "page"
          /\ \A u \in Worker \ {w} : pc'[u] = pc[u]
          /\ UNCHANGED <<page, meanwhile, mri>>
      BY <2>8 DEF Post, PostEnable, PostType, PostBranch, PostRate, PostRequest, PostPC
    <3> QED
      BY <2>0, <3>1, PageKept DEF PageOf, PostPC
  <2>9. CASE Limiter(w)
    <3>1. /\ pc[w] \in LimiterPC /\ pc'[w] # "page"
          /\ \A u \in Worker \ {w} : pc'[u] = pc[u]
          /\ UNCHANGED <<page, meanwhile, mri>>
      BY <2>9 DEF Limiter, ReadClock, CompareMinute, IncrementNum, ResetNum,
                  ResetMin, ReadNum, ReadLimit, Decide, LimiterPC
    <3> QED
      BY <2>0, <3>1, PageKept DEF PageOf, LimiterPC
  <2> QED
    BY <1>3, <2>1, <2>2, <2>3, <2>4, <2>5, <2>6, <2>7, <2>8, <2>9 DEF Step, Page
<1> QED
  BY <1>1, <1>2, <1>3 DEF Next, PageInv

(* PageAhead: for any number of workers, the page of any of them shows at  *)
(* most as many captured requests more than requests as were captured by   *)
(* others while it read the two counters, in whichever order it did.       *)
THEOREM PageInOrder == Spec => []PageAhead
<1>1. TypeInv /\ PageInv => PageAhead
  <2> SUFFICES ASSUME TypeInv, PageInv, NEW w \in Worker, Formatted(w)
               PROVE  page[w].request_capture <= page[w].request_all + meanwhile[w]
    BY DEF PageAhead
  <2> QED
    BY DEF TypeInv, TypeOK, PageInv, PageOf, Formatted
<1>2. Spec => []TypeInv
  BY InitTypeInv, NextTypeInv, PTL DEF Spec
<1> QED
  BY <1>1, <1>2, CaptureNeverAhead, InitPage, NextPage, PTL DEF Spec

-----------------------------------------------------------------------------
(***************************************************************************)
(* The limiter.  EpochLimit is not inductive: it needs to count the workers*)
(* that are past their update of request_num and have not decided yet      *)
(* (Pending), of whom those that read a number under the bound (Willing)   *)
(* are the ones that can still be granted.                                 *)
(***************************************************************************)
Pending == {w \in Worker : pc[w] \in {"reset_min", "threshold"}}
Willing == {w \in Worker : pc[w] = "threshold" /\ num[w] \in Int
                             /\ num[w] < LimitBound}

N == Cardinality(Worker)

EpochInv ==
  /\ epochGranted + Cardinality(Pending) <= msr.request_num + N
  /\ epochGranted + Cardinality(Willing) <= LimitBound + N - 1

LEMMA WorkerSets ==
  /\ N \in Nat
  /\ \A S \in SUBSET Worker : /\ IsFiniteSet(S) /\ Cardinality(S) \in Nat
                               /\ Cardinality(S) <= N
  /\ \A S, T \in SUBSET Worker : S \subseteq T
                                   => Cardinality(S) <= Cardinality(T)
  /\ \A S \in SUBSET Worker, w \in Worker :
       /\ w \notin S => Cardinality(S \cup {w}) = Cardinality(S) + 1
       /\ w \in S => Cardinality(S \ {w}) = Cardinality(S) - 1
<1>1. IsFiniteSet(Worker) /\ N \in Nat
  BY FS_CardinalityType, CtrlAssumption DEF N
<1>2. \A S \in SUBSET Worker : IsFiniteSet(S) /\ Cardinality(S) \in Nat
                               /\ Cardinality(S) <= N
  BY <1>1, FS_Subset, FS_CardinalityType DEF N
<1>3. \A S, T \in SUBSET Worker : S \subseteq T
                                   => Cardinality(S) <= Cardinality(T)
  BY <1>2, FS_Subset
<1>4. \A S \in SUBSET Worker, w \in Worker :
        /\ w \notin S => Cardinality(S \cup {w}) = Cardinality(S) + 1
        /\ w \in S => Cardinality(S \ {w}) = Cardinality(S) - 1
  BY <1>2, FS_AddElement, FS_RemoveElement
<1> QED
  BY <1>1, <1>2, <1>3, <1>4

LEMMA SubsetsOfWorker ==
  /\ Pending \in SUBSET Worker /\ Pending' \in SUBSET Worker
  /\ Willing \in SUBSET Worker /\ Willing' \in SUBSET Worker
BY DEF Pending, Willing

LEMMA InitEpoch == Init => EpochInv
<1> SUFFICES ASSUME Init PROVE EpochInv
  OBVIOUS
<1>1. Pending = {} /\ Willing = {}
  BY DEF Init, Pending, Willing
<1>2. epochGranted = 0 /\ msr.request_num = 0
  BY DEF Init
<1> QED
  BY <1>1, <1>2, FS_EmptySet, WorkerSets, CtrlAssumption DEF EpochInv

(* Steps that neither bump nor reset request_num, and after which no more   *)
(* workers are pending or willing than before.                             *)
LEMMA EpochKept ==
  ASSUME TypeInv, EpochInv,
         Pending' \subseteq Pending, Willing' \subseteq Willing,
         UNCHANGED <<msr, epochGranted>>
  PROVE  EpochInv'
<1>1. /\ Cardinality(Pending') <= Cardinality(Pending)
      /\ Cardinality(Willing') <= Cardinality(Willing)
  BY WorkerSets, SubsetsOfWorker
<1>2. /\ Cardinality(Pending) \in Nat /\ Cardinality(Pending') \in Nat
      /\ Cardinality(Willing) \in Nat /\ Cardinality(Willing') \in Nat
      /\ N \in Nat
  BY WorkerSets, SubsetsOfWorker
<1>3. N' = N
  BY DEF N
<1> QED
  BY <1>1, <1>2, <1>3, CtrlAssumption DEF EpochInv, TypeInv, TypeOK

LEMMA LimiterEpoch ==
  ASSUME TypeInv, EpochInv, NEW w \in Worker, Limiter(w)
  PROVE  EpochInv'
<1> USE DEF TypeInv, TypeOK, LocalsOK
<1>0. /\ Cardinality(Pending) \in Nat /\ Cardinality(Pending') \in Nat
      /\ Cardinality(Willing) \in Nat /\ Cardinality(Willing') \in Nat
      /\ N \in Nat /\ N' = N
      /\ LimitBound \in Nat \ {0}
      /\ msr.request_num \in Nat /\ epochGranted \in Nat
  BY WorkerSets, SubsetsOfWorker, CtrlAssumption DEF N
<1>1. CASE ReadClock(w) \/ CompareMinute(w) \/ ReadLimit(w)
  <2>1. /\ Pending' \subseteq Pending /\ Willing' \subseteq Willing
        /\ UNCHANGED <<msr, epochGranted>>
    BY <1>1 DEF ReadClock, CompareMinute, ReadLimit, Goto, Pending, Willing,
                slots, locals, history
  <2> QED
    BY <2>1, EpochKept
<1>2. CASE IncrementNum(w)
  <2>1. /\ Pending' = Pending \cup {w} /\ w \notin Pending
        /\ Willing' = Willing
    BY <1>2, CtrlAssumption
       DEF IncrementNum, Goto, Pending, Willing, locals
  <2>2. Cardinality(Pending') = Cardinality(Pending) + 1
    BY <2>1, WorkerSets, SubsetsOfWorker
  <2>3. /\ msr'.request_num = msr.request_num + 1
        /\ epochGranted' = epochGranted
    BY <1>2 DEF IncrementNum, history
  <2> QED
    BY <1>0, <2>1, <2>2, <2>3 DEF EpochInv
<1>3. CASE ResetNum(w)
  <2>1. /\ msr'.request_num = 0
        /\ epochGranted' = 0
    BY <1>3 DEF ResetNum
  <2>2. Cardinality(Pending') <= N /\ Cardinality(Willing') <= N
    BY WorkerSets, SubsetsOfWorker
  <2> QED
    BY <1>0, <2>1, <2>2 DEF EpochInv
<1>4. CASE ResetMin(w)
  <2>1. Pending' = Pending /\ Willing' = Willing
    BY <1>4, CtrlAssumption DEF ResetMin, Goto, Pending, Willing, locals
  <2>2. /\ msr'.request_num = msr.request_num
        /\ epochGranted' = epochGranted
    BY <1>4 DEF ResetMin, history
  <2> QED
    BY <1>0, <2>1, <2>2 DEF EpochInv
<1>5. CASE ReadNum(w)
  <2>1. Pending' = Pending /\ w \in Pending
    BY <1>5 DEF ReadNum, Pending
  <2>2. msr' = msr /\ epochGranted' = epochGranted
    BY <1>5 DEF ReadNum, slots, history
  <2>3. CASE msr.request_num < LimitBound
    <3>1. Willing' = Willing \cup {w} /\ Willing' \subseteq Pending
      BY <1>5, <2>3, CtrlAssumption DEF ReadNum, Pending, Willing
    <3>2. Cardinality(Willing') <= Cardinality(Pending)
      BY <3>1, WorkerSets, SubsetsOfWorker
    <3> QED
      BY <1>0, <2>1, <2>2, <2>3, <3>2 DEF EpochInv
  <2>4. CASE ~(msr.request_num < LimitBound)
    <3>1. Willing' \subseteq Willing
      BY <1>5, <2>4, CtrlAssumption DEF ReadNum, Willing
    <3> QED
      BY <2>1, <2>2, <3>1, EpochKept
  <2> QED
    BY <2>3, <2>4
<1>6. CASE Decide(w)
  <2>1. /\ Pending' = Pending \ {w} /\ w \in Pending
        /\ Willing' = Willing \ {w}
    BY <1>6, CtrlAssumption DEF Decide, Goto, Pending, Willing
  <2>2. msr' = msr
    BY <1>6 DEF Decide, slots
  <2>3. CASE UnderLimit(num[w], limit[w])
    <3>1. epochGranted' = epochGranted + 1
      BY <1>6, <2>3 DEF Decide
    <3>2. w \in Willing
      BY <1>6, <2>3, CtrlAssumption DEF Decide, UnderLimit, Goto, Willing
    <3>3. /\ Cardinality(Pending') = Cardinality(Pending) - 1
          /\ Cardinality(Willing') = Cardinality(Willing) - 1
      BY <2>1, <3>2, WorkerSets, SubsetsOfWorker
    <3> QED
      BY <1>0, <2>2, <3>1, <3>3 DEF EpochInv
  <2>4. CASE ~UnderLimit(num[w], limit[w])
    <3>1. epochGranted' = epochGranted
      BY <1>6, <2>4 DEF Decide
    <3> QED
      BY <2>1, <2>2, <3>1, EpochKept
  <2> QED
    BY <2>3, <2>4
<1> QED
  BY <1>1, <1>2, <1>3, <1>4, <1>5, <1>6 DEF Limiter

LEMMA NextEpoch == TypeInv /\ EpochInv /\ [Next]_vars => EpochInv'
<1> SUFFICES ASSUME TypeInv, EpochInv, [Next]_vars
             PROVE  EpochInv'
  OBVIOUS
<1> USE DEF TypeInv, TypeOK, LocalsOK, slots, locals, history
<1>1. CASE Tick
  BY <1>1, EpochKept DEF Tick, Pending, Willing
<1>2. CASE UNCHANGED vars
  BY <1>2, EpochKept DEF vars, Pending, Willing
<1>3. ASSUME NEW w \in Worker, Step(w), ~Limiter(w)
      PROVE  EpochInv'
  <2>1. CASE DivideByZero(w) \/ Crash(w)
    <3>1. /\ Pending' \subseteq Pending /\ Willing' \subseteq Willing
          /\ UNCHANGED <<msr, epochGranted>>
      BY <2>1 DEF DivideByZero, Crash, Die, Pending, Willing
    <3> QED
      BY <3>1, EpochKept
  <2>4. CASE Page(w)
    <3>1. /\ Pending' \subseteq Pending /\ Willing' \subseteq Willing
          /\ UNCHANGED <<msr, epochGranted>>
      BY <2>4 DEF Page, ReadAll, ReadCapture, ReadCounter, WritePage, Goto,
                  Pending, Willing
    <3> QED
      BY <3>1, EpochKept
  <2>2. CASE BeginRequest(w) \/ SampleByHeader(w) \/ ChooseSampler(w)
                \/ HitRatio(w) \/ RecordAll(w) \/ RecordCapture(w)
    <3>1. /\ Pending' \subseteq Pending /\ Willing' \subseteq Willing
          /\ UNCHANGED <<msr, epochGranted>>
      BY <2>2 DEF BeginRequest, SampleByHeader, ChooseSampler, HitRatio,
                  RecordAll, RecordCapture, EndRequest, Goto, Pending, Willing
    <3> QED
      BY <3>1, EpochKept
  <2>3. CASE Post(w)
    <3>1. /\ Pending' \subseteq Pending /\ Willing' \subseteq Willing
          /\ UNCHANGED <<msr, epochGranted>>
      BY <2>3 DEF Post, PostEnable, PostType, PostBranch, PostRate,
                  PostRequest, Goto, Pending, Willing
    <3> QED
      BY <3>1, EpochKept
  <2> QED
    BY <1>3, <2>1, <2>2, <2>3, <2>4 DEF Step
<1> QED
  BY <1>1, <1>2, <1>3, LimiterEpoch DEF Next

(* For any number of workers and any interleaving of their reads and        *)
(* stores, the unlocked limiter lets through at most the limit plus one     *)
(* request per other worker before request_num is next reset; with a single *)
(* process that is the limit itself.                                       *)
THEOREM EpochLimited == Spec => []EpochLimit
<1>1. TypeInv /\ EpochInv => EpochLimit
  <2> SUFFICES ASSUME TypeInv, EpochInv PROVE EpochLimit
    OBVIOUS
  <2>1. Cardinality(Willing) \in Nat /\ N \in Nat
    BY WorkerSets, SubsetsOfWorker
  <2> QED
    BY <2>1, CtrlAssumption DEF EpochInv, EpochLimit, TypeInv, TypeOK, N
<1>2. Spec => []TypeInv
  BY InitTypeInv, NextTypeInv, PTL DEF Spec
<1> QED
  BY <1>1, <1>2, InitEpoch, NextEpoch, PTL DEF Spec
-----------------------------------------------------------------------------
(***************************************************************************)
(* A value that is stale while its type is active is owed: some worker has *)
(* it in the body it applies, and has yet to branch on the shared type or  *)
(* has branched to the store of that very value.  SettledConfig alone does *)
(* not say who will make the store.                                        *)
(***************************************************************************)
Owes(w) ==
  /\ ValueOf(mcm.sampling_type) \in DOMAIN post[w]
  /\ \/ pc[w] = "post_branch"
     \/ pc[w] = "post_rate" /\ mcm.sampling_type = SAMPLING_RATE
     \/ pc[w] = "post_request" /\ mcm.sampling_type # SAMPLING_RATE

StaleOwed ==
  crashes = 0 /\ ValueOf(mcm.sampling_type) \in stale => \E w \in Worker : Owes(w)

(* A step that leaves the configuration, the bodies and the workers that   *)
(* still owe a store alone keeps the invariant.                            *)
LEMMA OwedKept ==
  ASSUME StaleOwed, crashes' = 0 => crashes = 0,
         UNCHANGED <<mcm.sampling_type, stale>>,
         \A w \in Worker : Owes(w) => pc'[w] = pc[w] /\ post'[w] = post[w]
  PROVE  StaleOwed'
BY DEF StaleOwed, Owes, ValueOf

(* The branch goes where the active type wants it, so whoever owed the     *)
(* value still does; a store pays what its worker owed, for everybody.     *)
LEMMA PostStaleOwed ==
  ASSUME TypeInv, StaleOwed, NEW w \in Worker, Post(w)
  PROVE  StaleOwed'
<1> USE DEF TypeInv, TypeOK, slots, locals, history, Goto
<1>1. CASE PostEnable(w)
  <2>1. /\ pc[w] = "post_enable" /\ mcm'.sampling_type = mcm.sampling_type
        /\ UNCHANGED <<stale, post, crashes>>
        /\ \A u \in Worker \ {w} : pc'[u] = pc[u]
    BY <1>1 DEF PostEnable
  <2>2. ~Owes(w)
    BY <2>1 DEF Owes
  <2> QED
    BY <2>1, <2>2, OwedKept
<1>2. CASE PostType(w)
  <2>1. /\ pc[w] = "post_type" /\ pc'[w] = "post_branch"
        /\ \A u \in Worker \ {w} : pc'[u] = pc[u]
        /\ UNCHANGED <<post, crashes>>
    BY <1>2 DEF PostType
  <2>2. CASE "samplingType" \notin DOMAIN post[w]
    <3>1. UNCHANGED <<mcm, stale>> /\ ~Owes(w)
      BY <1>2, <2>1, <2>2 DEF PostType, Owes
    <3> QED
      BY <2>1, <3>1, OwedKept
  <2>3. CASE "samplingType" \in DOMAIN post[w]
    <3>1. stale' = {ValueOf(mcm'.sampling_type)} \cap DOMAIN post[w]
      BY <1>2, <2>3 DEF PostType
    <3>2. ValueOf(mcm'.sampling_type) \in stale' => Owes(w)'
      BY <2>1, <3>1 DEF Owes, ValueOf
    <3> QED
      BY <3>2 DEF StaleOwed, ValueOf
  <2> QED
    BY <2>2, <2>3
<1>3. CASE PostBranch(w)
  <2>1. /\ pc[w] = "post_branch" /\ UNCHANGED <<mcm, stale, post, crashes>>
        /\ pc'[w] = IF mcm.sampling_type = SAMPLING_RATE THEN "post_rate"
                                                         ELSE "post_request"
        /\ \A u \in Worker \ {w} : pc'[u] = pc[u]
    BY <1>3 DEF PostBranch
  <2>2. \A u \in Worker : Owes(u) => Owes(u)'
    BY <2>1 DEF Owes, ValueOf
  <2> QED
    BY <2>1, <2>2 DEF StaleOwed, ValueOf
<1>4. CASE PostRate(w)
  <2>1. /\ pc[w] = "post_rate" /\ UNCHANGED <<mcm.sampling_type, post, crashes>>
        /\ \A u \in Worker \ {w} : pc'[u] = pc[u]
        /\ stale' = IF "samplingRate" \in DOMAIN post[w]
                      THEN stale \ {"samplingRate"} ELSE stale
    BY <1>4 DEF PostRate
  <2>2. CASE Owes(w)
    BY <2>1, <2>2 DEF StaleOwed, Owes, ValueOf
  <2>3. CASE ~Owes(w)
    <3>1. \A u \in Worker : Owes(u) => Owes(u)'
      BY <2>1, <2>3 DEF Owes, ValueOf
    <3> QED
      BY <2>1, <3>1 DEF StaleOwed, ValueOf
  <2> QED
    BY <2>2, <2>3
<1>5. CASE PostRequest(w)
  <2>1. /\ pc[w] = "post_request" /\ UNCHANGED <<mcm.sampling_type, post, crashes>>
        /\ \A u \in Worker \ {w} : pc'[u] = pc[u]
        /\ stale' = IF "samplingRequest" \in DOMAIN post[w]
                      THEN stale \ {"samplingRequest"} ELSE stale
    BY <1>5 DEF PostRequest
  <2>2. CASE Owes(w)
    BY <2>1, <2>2 DEF StaleOwed, Owes, ValueOf
  <2>3. CASE ~Owes(w)
    <3>1. \A u \in Worker : Owes(u) => Owes(u)'
      BY <2>1, <2>3 DEF Owes, ValueOf
    <3> QED
      BY <2>1, <3>1 DEF StaleOwed, ValueOf
  <2> QED
    BY <2>2, <2>3
<1> QED
  BY <1>1, <1>2, <1>3, <1>4, <1>5 DEF Post

(* The invariant of SettledConfig is kept by every step: outside a POST no *)
(* worker owes anything, and a worker that is killed leaves crashes > 0.   *)
LEMMA NextStaleOwed ==
  ASSUME TypeInv, StaleOwed, [Next]_vars
  PROVE  StaleOwed'
<1> USE DEF TypeInv, TypeOK, slots, locals, history, Goto
<1>1. CASE UNCHANGED vars
  BY <1>1, OwedKept DEF vars
<1>2. CASE Tick
  BY <1>2, OwedKept DEF Tick
<1>3. ASSUME NEW w \in Worker, Step(w)
      PROVE  StaleOwed'
  <2>1. CASE Post(w)
    BY <2>1, PostStaleOwed
  <2>2. CASE Crash(w)
    BY <2>2 DEF Crash, StaleOwed
  <2>3. CASE ~Post(w) /\ ~Crash(w)
    <3>1. CASE BeginRequest(w)
      BY <3>1, OwedKept DEF BeginRequest, Owes
    <3>2. CASE DivideByZero(w)
      BY <3>2, OwedKept DEF DivideByZero, Die, Owes
    <3>3. CASE Limiter(w)
      BY <3>3, OwedKept
      DEF Limiter, ReadClock, CompareMinute, IncrementNum, ResetNum, ResetMin,
          ReadNum, ReadLimit, Decide, Owes
    <3>4. CASE SampleByHeader(w) \/ ChooseSampler(w) \/ HitRatio(w)
                 \/ RecordAll(w) \/ RecordCapture(w)
      BY <3>4, OwedKept
      DEF SampleByHeader, ChooseSampler, HitRatio, RecordAll, RecordCapture,
          EndRequest, Owes
    <3>5. CASE Page(w)
      BY <3>5, OwedKept DEF Page, ReadAll, ReadCapture, ReadCounter, WritePage, Owes
    <3> QED
      BY <1>3, <2>3, <3>1, <3>2, <3>3, <3>4, <3>5 DEF Step
  <2> QED
    BY <2>1, <2>2, <2>3
<1> QED
  BY <1>1, <1>2, <1>3 DEF Next

(* SettledConfig: however many workers apply their bodies at once, when    *)
(* the last of them is done the active type has a value that was stored    *)
(* after it, for every set of workers and of bodies.                       *)
THEOREM AlwaysSettled == Spec => []SettledConfig
<1>1. Init => StaleOwed
  BY DEF Init, StaleOwed
<1>2. StaleOwed => SettledConfig
  BY DEF StaleOwed, SettledConfig, Settled, Owes, PostPC
<1>3. Spec => []TypeInv
  BY InitTypeInv, NextTypeInv, PTL DEF Spec
<1> QED
  BY <1>1, <1>2, <1>3, NextStaleOwed, PTL DEF Spec
-----------------------------------------------------------------------------
(***************************************************************************)
(* One worker, nothing posted and nobody killed, is a limiter by itself.   *)
(* request_num counts the requests decided in last_min, short of the one   *)
(* that opened it, and ahead by the one that is about to be decided; the   *)
(* minute of mo_ctrl_ctor was opened by none.                              *)
(***************************************************************************)
Opener(m) == IF m = StartMinute THEN 0 ELSE 1

Counted(w) ==
  /\ msr.last_min \in Minutes /\ clock \in Minutes /\ msr.last_min <= clock
  /\ \A k \in Minutes : k > msr.last_min => seen[k] = 0
  /\ pc[w] \notin {"reset_min", "threshold"} =>
       msr.request_num = seen[msr.last_min] - Opener(msr.last_min)
  /\ pc[w] = "reset_min" => msr.request_num = 0
  /\ pc[w] = "threshold" =>
       msr.request_num = seen[msr.last_min] + 1 - Opener(msr.last_min)

ReadAlone(w) ==
  /\ pc[w] \in HoldsMinute =>
       min[w] \in Minutes /\ msr.last_min <= min[w] /\ min[w] <= clock
  /\ pc[w] \in {"increment", "threshold"} => min[w] = msr.last_min
  /\ pc[w] \in {"reset_num", "reset_min"} => min[w] > msr.last_min
  /\ num[w] # Unread => num[w] = msr.request_num
  /\ limit[w] # Unread => limit[w] = IniRequest

Alone(w) ==
  /\ Counted(w) /\ ReadAlone(w)
  /\ pc[w] \notin PostPC /\ mcm.sampling_request = IniRequest

(* Every step of the single process keeps its invariant and is a step of   *)
(* the abstract limiter or a stutter: only Decide takes one.               *)
LEMMA AloneStep ==
  ASSUME NEW w, Worker = {w}, PostBody = {}, MaxCrashes = 0,
         StartMinute <= MaxMinute, TypeInv, Alone(w), [Next]_vars
  PROVE  Alone(w)' /\ [Abstract!Next]_<<seen, granted>>
<1> USE DEF TypeInv, TypeOK, LocalsOK, PostPC, HoldsMinute, slots,
        locals, history, Goto, Alone, Counted, ReadAlone
<1>0. /\ StartMinute \in Nat /\ MaxMinute \in Nat /\ Unread \notin Int /\ w \in Worker
      /\ Minutes = StartMinute .. MaxMinute /\ Minutes \subseteq Nat
  BY CtrlAssumption DEF Minutes
<1>a. \A m : Opener(m) \in 0 .. 1 /\ (Opener(m) = 0 <=> m = StartMinute)
  BY DEF Opener
<1>1. CASE Tick
  <2>1. clock' = clock + 1 /\ clock < MaxMinute /\ clock' \in Minutes
    BY <1>0, <1>1 DEF Tick
  <2>2. UNCHANGED <<mcm, msr, pc, min, num, limit, seen, granted>>
    BY <1>1 DEF Tick
  <2>3. Counted(w)'
    BY <1>0, <2>1, <2>2
  <2>4. ReadAlone(w)'
    BY <1>0, <2>1, <2>2
  <2> QED
    BY <2>2, <2>3, <2>4
<1>2. CASE UNCHANGED vars
  BY <1>0, <1>2 DEF vars
<1>3. CASE BeginRequest(w)
  BY <1>0, <1>3 DEF BeginRequest
<1>4. CASE SampleByHeader(w)
  BY <1>0, <1>4 DEF SampleByHeader
<1>5. CASE ChooseSampler(w)
  BY <1>0, <1>5 DEF ChooseSampler
<1>6. CASE HitRatio(w)
  BY <1>0, <1>6 DEF HitRatio
<1>7. CASE DivideByZero(w)
  BY <1>0, <1>7 DEF DivideByZero, Die
<1>8. CASE ReadClock(w)
  BY <1>0, <1>8 DEF ReadClock
<1>9. CASE CompareMinute(w)
  BY <1>0, <1>9 DEF CompareMinute
<1>10. CASE IncrementNum(w)
  <2>1. /\ pc[w] = "increment" /\ pc'[w] = "threshold"
        /\ msr'.last_min = msr.last_min /\ msr'.request_num = msr.request_num + 1
        /\ UNCHANGED <<mcm, clock, min, num, limit, seen, granted>>
    BY <1>0, <1>10 DEF IncrementNum
  <2>2. seen[msr.last_min] \in Nat /\ msr.request_num \in Nat
    BY <1>0
  <2>3. num[w] = Unread /\ limit[w] = Unread
    BY <1>0, <2>1
  <2>4. msr'.request_num = seen'[msr'.last_min] + 1 - Opener(msr'.last_min)
    <3>1. PICK m, o, n, r : /\ m = msr.last_min /\ o = Opener(m)
                            /\ n = seen[m] /\ r = msr.request_num
      OBVIOUS
    <3>2. r = n - o
      BY <2>1, <3>1
    <3>3. o \in 0 .. 1 /\ n \in Nat /\ r \in Nat
      BY <1>a, <2>2, <3>1
    <3>4. r + 1 = n + 1 - o
      BY <3>2, <3>3
    <3>5. msr'.request_num = r + 1 /\ msr'.last_min = m /\ seen'[m] = n
      BY <2>1, <3>1
    <3> QED
      BY ONLY <3>1, <3>4, <3>5
  <2>5. Counted(w)'
    BY <1>0, <2>1, <2>4
  <2>6. ReadAlone(w)'
    BY <1>0, <2>1, <2>3
  <2> QED
    BY <2>1, <2>5, <2>6
<1>11. CASE ResetNum(w)
  BY <1>0, <1>11 DEF ResetNum
<1>12. CASE ResetMin(w)
  <2>1. /\ pc[w] = "reset_min" /\ pc'[w] = "threshold"
        /\ msr'.last_min = min[w] /\ msr'.request_num = msr.request_num
        /\ UNCHANGED <<mcm, clock, min, num, limit, seen, granted>>
    BY <1>0, <1>12 DEF ResetMin
  <2>2. /\ min[w] \in Minutes /\ min[w] > msr.last_min /\ min[w] <= clock
        /\ msr.request_num = 0 /\ msr.last_min \in Minutes
    BY <2>1
  <2>3. seen[min[w]] = 0 /\ min[w] # StartMinute
    <3>1. \A k \in Minutes : k > msr.last_min => seen[k] = 0
      BY <1>0
    <3>2. StartMinute <= msr.last_min
      BY <1>0, <2>2
    <3> QED
      BY ONLY <2>2, <3>1, <3>2, CtrlAssumption DEF Minutes
  <2>4. num[w] = Unread /\ limit[w] = Unread
    BY <1>0, <2>1
  <2>5. Counted(w)'
    <3>1. Opener(min[w]) = 1
      BY <2>3 DEF Opener
    <3>2. seen'[min[w]] = 0 /\ msr'.request_num = 0 /\ msr'.last_min = min[w]
      BY <2>1, <2>2, <2>3
    <3>3. msr'.request_num = seen'[msr'.last_min] + 1 - Opener(msr'.last_min)
      BY ONLY <3>1, <3>2
    <3>4. \A k \in Minutes : k > msr'.last_min => seen'[k] = 0
      BY <1>0, <2>1, <2>2
    <3> QED
      BY <1>0, <2>1, <2>2, <3>3, <3>4
  <2>6. ReadAlone(w)'
    BY <1>0, <2>1, <2>2, <2>4
  <2> QED
    BY <2>1, <2>5, <2>6
<1>13. CASE ReadNum(w)
  BY <1>0, <1>13 DEF ReadNum
<1>14. CASE ReadLimit(w)
  BY <1>0, <1>14 DEF ReadLimit
<1>15. CASE Decide(w)
  <2>1. PICK m : m = min[w]
    OBVIOUS
  <2>2. /\ pc[w] = "threshold" /\ pc'[w] = "running"
        /\ num[w] = msr.request_num /\ limit[w] = IniRequest
        /\ num'[w] = Unread /\ limit'[w] = Unread
        /\ seen' = [seen EXCEPT ![m] = @ + 1]
        /\ UNCHANGED <<mcm, msr, clock>>
    BY <1>0, <1>15, <2>1 DEF Decide
  <2>3. /\ m \in Minutes /\ m = msr.last_min /\ seen[m] \in Nat
        /\ msr.request_num = seen[m] + 1 - Opener(m)
        /\ \A k \in Minutes : k > m => seen[k] = 0
    BY <1>0, <2>1, <2>2
  <2>4. /\ seen'[m] = seen[m] + 1
        /\ \A k \in Minutes : k # m => seen'[k] = seen[k]
    BY <2>2, <2>3
  <2>5. Counted(w)'
    <3>1. msr'.request_num = seen'[msr'.last_min] - Opener(msr'.last_min)
      <4>1. PICK o, n, r : o = Opener(m) /\ n = seen[m] /\ r = msr.request_num
        OBVIOUS
      <4>2. r = n + 1 - o /\ seen'[m] = n + 1
        BY <2>3, <2>4, <4>1
      <4>3. msr'.request_num = r /\ msr'.last_min = m
        BY <2>2, <2>3, <4>1
      <4>4. o \in 0 .. 1 /\ n \in Nat
        BY <1>a, <2>3, <4>1
      <4>5. r = (n + 1) - o
        BY <4>2, <4>4
      <4> QED
        BY ONLY <4>1, <4>2, <4>3, <4>5
    <3>2. \A k \in Minutes : k > msr'.last_min => seen'[k] = 0
      BY <1>0, <2>2, <2>3, <2>4
    <3> QED
      BY <1>0, <2>2, <3>1, <3>2
  <2>6. ReadAlone(w)'
    BY <2>2
  <2>7. seen[m] < Abstract!Quota(m) <=> UnderLimit(num[w], limit[w])
    <3>1. IniRequest \in Int
      BY CtrlAssumption
    <3>2. Abstract!Quota(m) = IniRequest - 1 + Opener(m)
      BY <3>1 DEF Abstract!Quota, Opener
    <3>3. UnderLimit(num[w], limit[w]) <=> seen[m] + 1 - Opener(m) < IniRequest
      BY <2>2, <2>3 DEF UnderLimit
    <3> QED
      BY <1>a, <2>3, <3>1, <3>2, <3>3
  <2>8. granted' = [granted EXCEPT ![m] = IF seen[m] < Abstract!Quota(m) THEN @ + 1 ELSE @]
    <3>1. granted \in [Minutes -> Nat] /\ granted = [granted EXCEPT ![m] = @]
      OBVIOUS
    <3>2. CASE UnderLimit(num[w], limit[w])
      BY <1>15, <2>1, <2>7, <3>2 DEF Decide
    <3>3. CASE ~UnderLimit(num[w], limit[w])
      BY <1>15, <2>1, <2>7, <3>1, <3>3 DEF Decide
    <3> QED
      BY <3>2, <3>3
  <2>9. Abstract!Decide(m)
    <3>1. Abstract!Minutes = Minutes
      BY DEF Abstract!Minutes, Minutes
    <3> QED
      BY <2>2, <2>3, <2>8, <3>1 DEF Abstract!Decide
  <2>10. Abstract!Next
    BY <2>3, <2>9 DEF Abstract!Next, Abstract!Minutes, Minutes
  <2> QED
    BY <2>2, <2>5, <2>6, <2>10
<1>16. CASE RecordAll(w)
  <2>1. /\ pc[w] = "running" /\ pc'[w] \in {"record_capture", "idle"}
        /\ UNCHANGED <<mcm, msr, clock, min, num, limit, seen, granted>>
    BY <1>0, <1>16 DEF RecordAll, EndRequest
  <2> QED
    BY <1>0, <2>1
<1>17. CASE RecordCapture(w)
  BY <1>0, <1>17 DEF RecordCapture, EndRequest
<1>18. CASE Crash(w)
  BY <1>0, <1>18 DEF Crash
<1>19. CASE Post(w)
  BY <1>0, <1>19 DEF Post, PostEnable, PostType, PostBranch, PostRate, PostRequest
<1>21. CASE Page(w)
  <2>1. /\ pc[w] = "page" /\ pc'[w] \in {"page", "sampling"}
        /\ UNCHANGED <<mcm, msr, clock, min, num, limit, seen, granted>>
    BY <1>0, <1>21 DEF Page, ReadAll, ReadCapture, ReadCounter, WritePage
  <2> QED
    BY <1>0, <2>1
<1>20. Next => Tick \/ Step(w)
  BY DEF Next
<1> QED
  BY <1>1, <1>2, <1>3, <1>4, <1>5, <1>6, <1>7, <1>8, <1>9, <1>10, <1>11, <1>12,
     <1>13, <1>14, <1>15, <1>16, <1>17, <1>18, <1>19, <1>20, <1>21 DEF Step, Limiter

(***************************************************************************)
(* ImplementsLimiter: of the requests that a single process decides in a   *)
(* minute, exactly the first sampling_request are sampled (one less in the *)
(* minute of mo_ctrl_ctor), for any clock and any limit.                   *)
(***************************************************************************)
THEOREM SingleIsLimiter ==
  ASSUME NEW w, Worker = {w}, PostBody = {}, MaxCrashes = 0, StartMinute <= MaxMinute
  PROVE  Spec => ImplementsLimiter
<1>1. Init => Alone(w) /\ Abstract!Init
  <2> SUFFICES ASSUME Init PROVE Alone(w) /\ Abstract!Init
    OBVIOUS
  <2>1. Alone(w)
    BY CtrlAssumption DEF Init, Alone, Counted, ReadAlone, Opener, Minutes,
                          HoldsMinute, PostPC
  <2>2. Abstract!Init
    BY DEF Init, Minutes, Abstract!Init, Abstract!Minutes
  <2> QED
    BY <2>1, <2>2
<1>2. TypeInv /\ Alone(w) /\ [Next]_vars => Alone(w)' /\ [Abstract!Next]_<<seen, granted>>
  BY AloneStep
<1>3. Spec => []TypeInv
  BY InitTypeInv, NextTypeInv, PTL DEF Spec
<1> QED
  BY <1>1, <1>2, <1>3, PTL DEF Spec, ImplementsLimiter, Abstract!Spec
=============================================================================
