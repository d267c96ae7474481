--------------------------- MODULE MoltenLogProofs ---------------------------
(* Proofs about the file sink and the error report. *)
EXTENDS MoltenLog, TLAPS

-----------------------------------------------------------------------------
(***************************************************************************)
(* The day of a time.                                                      *)
(***************************************************************************)
LEMMA YdayFacts ==
  /\ \A t \in Nat : Yday(t) \in Nat
  /\ \A s, t \in Nat : s <= t => Yday(s) <= Yday(t)
<1>1. DayLength \in Nat /\ DayLength > 0
  BY LogAssumption
<1>2. ASSUME NEW t \in Nat
      PROVE  /\ Yday(t) \in Nat
             /\ DayLength * Yday(t) <= t
             /\ t < DayLength * Yday(t) + DayLength
  BY <1>1, <1>2, Z3 DEF Yday
<1>3. ASSUME NEW s \in Nat, NEW t \in Nat, s <= t
      PROVE  Yday(s) <= Yday(t)
  <2> DEFINE a == Yday(s)
             b == Yday(t)
  <2>1. /\ a \in Nat /\ b \in Nat
        /\ DayLength * a <= s
        /\ t < DayLength * b + DayLength
    BY <1>2
  <2>2. DayLength * a < DayLength * b + DayLength
    BY <2>1, <1>1, <1>3
  <2> HIDE DEF a, b
  <2>3. a < b + 1
    BY <2>2, <2>1, <1>1, Z3
  <2> QED
    BY <2>3, <2>1 DEF a, b
<1> QED
  BY <1>2, <1>3

LEMMA YdayInDays == \A t \in 0 .. MaxTime : Yday(t) \in Days
<1> SUFFICES ASSUME NEW t \in 0 .. MaxTime
             PROVE  Yday(t) \in Days
  OBVIOUS
<1>1. t \in Nat /\ MaxTime \in Nat /\ t <= MaxTime
  BY LogAssumption
<1>2. Yday(t) \in Nat /\ Yday(MaxTime) \in Nat /\ Yday(t) <= Yday(MaxTime)
  BY <1>1, YdayFacts
<1> QED
  BY <1>2 DEF Days, Yday

-----------------------------------------------------------------------------
(***************************************************************************)
(* Types.                                                                  *)
(***************************************************************************)
LEMMA DayZero == 0 \in Days /\ 0 \in 0 .. MaxTime
<1>1. Yday(MaxTime) \in Nat /\ MaxTime \in Nat
  BY LogAssumption, YdayFacts
<1> QED
  BY <1>1 DEF Days, Yday

LEMMA TypeInit == Init => TypeOK
  BY DayZero, LogAssumption DEF Init, TypeOK, PC, InCall

LEMMA TypeReturn ==
  ASSUME TypeOK, NEW w \in Worker, Return(w)
  PROVE  /\ pc' \in [Worker -> PC]
         /\ batch' \in [Worker -> {"spans", "report"}]
         /\ begin' \in [Worker -> 0 .. MaxTime]
         /\ error_list' \in [Worker -> Seq(1 .. MaxErrors)]
         /\ since' \in [Worker -> Days]
         /\ current' \in [Worker -> SUBSET (Inode \cup {NoFile})]
<1>1. CASE batch[w] = "spans"
  BY <1>1, DayZero DEF TypeOK, Return, Goto, PC
<1>2. CASE batch[w] # "spans"
  <2>1. <<>> \in Seq(1 .. MaxErrors)
    OBVIOUS
  <2> QED
    BY <1>2, <2>1, DayZero DEF TypeOK, Return, EndRequest, Cleared, PC
<1> QED
  BY <1>1, <1>2

LEMMA TypeCallWrite ==
  ASSUME TypeOK, NEW w \in Worker, CallWrite(w)
  PROVE  /\ since' \in [Worker -> Days]
         /\ current' \in [Worker -> SUBSET (Inode \cup {NoFile})]
<1>1. Yday(now) \in Days
  BY YdayInDays DEF TypeOK
<1> QED
  BY <1>1 DEF TypeOK, CallWrite

LEMMA TypeRemember ==
  ASSUME TypeOK, Remember, file' \in [Days -> Inode \cup {NoFile}]
  PROVE  current' \in [Worker -> SUBSET (Inode \cup {NoFile})]
BY DEF TypeOK, Remember

LEMMA TypeNext == TypeOK /\ [Next]_vars => TypeOK'
<1> SUFFICES ASSUME TypeOK, [Next]_vars
             PROVE  TypeOK'
  OBVIOUS
<1> USE DEF vars, disk, log, report, bounds, history
<1>1. ASSUME NEW w \in Worker, Begin(w)
      PROVE  TypeOK'
  BY <1>1, LogAssumption DEF TypeOK, Begin, Goto, PC
<1>2. ASSUME NEW w \in Worker, RecordError(w)
      PROVE  TypeOK'
  <2>1. recorded[w] + 1 \in 1 .. MaxErrors /\ recorded'[w] = recorded[w] + 1
    BY <1>2, LogAssumption DEF TypeOK, RecordError
  <2>2. Append(error_list[w], recorded'[w]) \in Seq(1 .. MaxErrors)
    BY <2>1 DEF TypeOK
  <2> QED
    BY <1>2, <2>1, <2>2 DEF TypeOK, RecordError
<1>3. ASSUME NEW w \in Worker, Flush(w)
      PROVE  TypeOK'
  BY <1>3, TypeCallWrite DEF TypeOK, Flush, Goto, PC, InCall
<1>4. ASSUME NEW w \in Worker, FlushNothing(w)
      PROVE  TypeOK'
  BY <1>4 DEF TypeOK, FlushNothing, Goto, PC
<1>5. ASSUME NEW w \in Worker, NoReport(w)
      PROVE  TypeOK'
  BY <1>5, LogAssumption DEF TypeOK, NoReport, EndRequest, PC
<1>6. ASSUME NEW w \in Worker
      PROVE  reported[w] \o error_list[w] \in Seq(1 .. MaxErrors)
  BY DEF TypeOK
<1>7. ASSUME NEW w \in Worker, Report(w)
      PROVE  TypeOK'
  BY <1>6, <1>7, TypeCallWrite DEF TypeOK, Report, Goto, PC, InCall
<1>8. ASSUME NEW w \in Worker, ReportNothing(w)
      PROVE  TypeOK'
  BY <1>6, <1>8, LogAssumption
     DEF TypeOK, ReportNothing, EndRequest, Cleared, PC
<1>9. ASSUME NEW w \in Worker, GeneratePath(w)
      PROVE  TypeOK'
  <2>1. Yday(now) \in Days
    BY YdayInDays DEF TypeOK
  <2>2. CASE Yday(now) # yday[w]
    <3>1. /\ yday' = [yday EXCEPT ![w] = Yday(now)]
          /\ fd' = [fd EXCEPT ![w] = NoFile]
          /\ current' = [current EXCEPT ![w] = {file[Yday(now)]}]
      BY <1>9, <2>2 DEF GeneratePath
    <3>2. current' \in [Worker -> SUBSET (Inode \cup {NoFile})]
      BY <2>1, <3>1 DEF TypeOK
    <3>3. pc' \in [Worker -> PC]
      BY <1>9 DEF TypeOK, GeneratePath, PC, InCall
    <3> QED
      BY <1>9, <2>1, <3>1, <3>2, <3>3 DEF TypeOK, GeneratePath
  <2>3. CASE Yday(now) = yday[w]
    <3> DEFINE kept == IF Foreign(file[yday[w]], ino[w]) THEN NoFile ELSE fd[w]
    <3>1. kept \in Inode \cup {NoFile}
      BY DEF TypeOK
    <3> HIDE DEF kept
    <3>2. fd' = [fd EXCEPT ![w] = kept] /\ UNCHANGED <<yday, current>>
      BY <1>9, <2>3 DEF GeneratePath, kept
    <3> QED
      BY <1>9, <3>1, <3>2 DEF TypeOK, GeneratePath, PC, InCall
  <2> QED
    BY <2>2, <2>3
<1>10. ASSUME NEW w \in Worker, Open(w)
       PROVE  TypeOK'
  <2>1. CASE file[yday[w]] # NoFile
    BY <1>10, <2>1 DEF TypeOK, Open, Goto, PC, InCall
  <2>2. CASE file[yday[w]] = NoFile
    <3>1. PICK i \in Unused : /\ file' = [file EXCEPT ![yday[w]] = i]
                              /\ deleted' = deleted \ {i}
                              /\ fd' = [fd EXCEPT ![w] = i]
      BY <1>10, <2>2 DEF Open
    <3>2. i \in Inode
      BY DEF Unused
    <3>3. file' \in [Days -> Inode \cup {NoFile}]
      BY <3>1, <3>2 DEF TypeOK
    <3>4. current' \in [Worker -> SUBSET (Inode \cup {NoFile})]
      BY <1>10, <2>2, <3>3, TypeRemember DEF Open
    <3> QED
      BY <1>10, <3>1, <3>2, <3>3, <3>4 DEF TypeOK, Open, Goto, PC, InCall
  <2> QED
    BY <2>1, <2>2
<1>11. ASSUME NEW w \in Worker, OpenFails(w)
       PROVE  TypeOK'
  BY <1>11, TypeReturn DEF TypeOK, OpenFails
<1>12. ASSUME NEW w \in Worker, Stat(w)
       PROVE  TypeOK'
  BY <1>12 DEF TypeOK, Stat, Goto, PC, InCall
<1>13. ASSUME NEW w \in Worker, Write(w)
       PROVE  TypeOK'
  BY <1>13, TypeReturn DEF TypeOK, Write
<1>14. ASSUME NEW d \in Days, Rotate(d)
       PROVE  TypeOK'
  <2>1. file' \in [Days -> Inode \cup {NoFile}]
    BY <1>14 DEF TypeOK, Rotate
  <2>2. current' \in [Worker -> SUBSET (Inode \cup {NoFile})]
    BY <1>14, <2>1, TypeRemember DEF Rotate
  <2>3. deleted' \subseteq Inode
    BY <1>14 DEF TypeOK, Rotate
  <2>4. rotations' \in 0 .. MaxRotations
    BY <1>14, LogAssumption DEF TypeOK, Rotate
  <2> QED
    BY <1>14, <2>1, <2>2, <2>3, <2>4 DEF TypeOK, Rotate
<1>15. CASE Tick
  BY <1>15, LogAssumption DEF TypeOK, Tick
<1>16. CASE UNCHANGED vars
  BY <1>16 DEF TypeOK
<1> QED
  BY <1>1, <1>2, <1>3, <1>4, <1>5, <1>7, <1>8, <1>9, <1>10, <1>11, <1>12,
     <1>13, <1>14, <1>15, <1>16 DEF Next

(* Every state of any number of workers, files and days is well typed. *)
THEOREM TypeCorrect == Spec => []TypeOK
  BY TypeInit, TypeNext, PTL DEF Spec

(***************************************************************************)
(* A worker's step leaves the others alone.                                *)
(***************************************************************************)
WorkerStep(w) ==
  \/ Begin(w) \/ RecordError(w) \/ Flush(w) \/ FlushNothing(w)
  \/ NoReport(w) \/ Report(w) \/ ReportNothing(w)
  \/ GeneratePath(w)
  \/ Open(w) \/ OpenFails(w) \/ Stat(w) \/ Write(w)

LEMMA OthersReport ==
  ASSUME TypeOK, NEW w \in Worker, WorkerStep(w), NEW v \in Worker, v # w
  PROVE  /\ pc'[v] = pc[v] /\ batch'[v] = batch[v]
         /\ error_list'[v] = error_list[v] /\ reported'[v] = reported[v]
         /\ recorded'[v] = recorded[v]
<1> USE DEF TypeOK, disk, log, report, bounds, history, Goto
<1>1. CASE Begin(w) \/ RecordError(w) \/ Flush(w) \/ FlushNothing(w)
  BY <1>1 DEF Begin, RecordError, Flush, FlushNothing
<1>2. CASE NoReport(w) \/ Report(w) \/ ReportNothing(w)
  BY <1>2 DEF NoReport, Report, ReportNothing, EndRequest
<1>3. CASE GeneratePath(w) \/ Open(w) \/ Stat(w)
  BY <1>3 DEF GeneratePath, Open, Stat
<1>4. CASE OpenFails(w) \/ Write(w)
  BY <1>4 DEF OpenFails, Write, Return, EndRequest
<1> QED
  BY <1>1, <1>2, <1>3, <1>4 DEF WorkerStep

LEMMA OthersLog ==
  ASSUME TypeOK, NEW w \in Worker, WorkerStep(w), NEW v \in Worker, v # w
  PROVE  /\ yday'[v] = yday[v] /\ fd'[v] = fd[v] /\ ino'[v] = ino[v]
         /\ since'[v] = since[v]
         /\ \/ UNCHANGED file /\ current'[v] = current[v]
            \/ Remember
<1> USE DEF TypeOK, disk, log, report, bounds, history, Goto
<1>1. CASE Begin(w) \/ RecordError(w) \/ FlushNothing(w)
  BY <1>1 DEF Begin, RecordError, FlushNothing
<1>2. CASE NoReport(w) \/ Report(w) \/ ReportNothing(w) \/ Flush(w)
  BY <1>2 DEF NoReport, Report, ReportNothing, EndRequest, Flush, CallWrite
<1>3. CASE GeneratePath(w)
  BY <1>3 DEF GeneratePath
<1>4. CASE Open(w) \/ Stat(w)
  BY <1>4 DEF Open, Stat
<1>5. CASE OpenFails(w) \/ Write(w)
  BY <1>5 DEF OpenFails, Write, Return
<1> QED
  BY <1>1, <1>2, <1>3, <1>4, <1>5 DEF WorkerStep

-----------------------------------------------------------------------------
(***************************************************************************)
(* The error list is below its limit between requests.                     *)
(***************************************************************************)
LEMMA BelowNext == TypeOK /\ BelowLimit /\ [Next]_vars => BelowLimit'
<1> SUFFICES ASSUME TypeOK, BelowLimit, [Next]_vars
             PROVE  BelowLimit'
  OBVIOUS
<1> USE DEF vars, disk, log, report, bounds, history
<1>1. ASSUME NEW w \in Worker, WorkerStep(w)
      PROVE  BelowLimit'
  <2>1. ASSUME pc'[w] = "idle"
        PROVE  Len(error_list'[w]) < Limit
    <3>1. CASE NoReport(w)
      BY <3>1, LogAssumption DEF TypeOK, NoReport, Due, LimitReached
    <3>2. CASE ReportNothing(w) \/ OpenFails(w) \/ Write(w)
      <4>1. error_list'[w] = <<>>
        BY <2>1, <3>2
           DEF TypeOK, ReportNothing, OpenFails, Write, Return, Goto, Cleared
      <4> QED
        BY <4>1, LogAssumption
    <3>3. CASE Begin(w) \/ RecordError(w) \/ Flush(w) \/ FlushNothing(w)
      BY <2>1, <3>3
         DEF TypeOK, Begin, RecordError, Flush, FlushNothing, Goto
    <3>4. CASE Report(w) \/ GeneratePath(w) \/ Open(w) \/ Stat(w)
      BY <2>1, <3>4 DEF TypeOK, Report, GeneratePath, Open, Stat, Goto
    <3> QED
      BY <1>1, <3>1, <3>2, <3>3, <3>4 DEF WorkerStep
  <2> QED
    BY <1>1, <2>1, OthersReport DEF BelowLimit
<1>2. ASSUME NEW d \in Days, Rotate(d)
      PROVE  BelowLimit'
  BY <1>2 DEF BelowLimit, Rotate
<1>3. CASE Tick \/ UNCHANGED vars
  BY <1>3 DEF BelowLimit, Tick
<1> QED
  BY <1>1, <1>2, <1>3 DEF Next, WorkerStep

(* However many errors a request raises and whatever fails in the sink, no  *)
(* request starts with an error list that has reached molten.report_limit.  *)
THEOREM ListBelowLimit == Spec => []BelowLimit
<1>1. Init => BelowLimit
  BY LogAssumption DEF Init, BelowLimit
<1> QED
  BY <1>1, TypeInit, TypeNext, BelowNext, PTL DEF Spec

-----------------------------------------------------------------------------
(***************************************************************************)
(* Each error is handed to the sink once and in order.                     *)
(***************************************************************************)
UpTo(n) == [i \in 1 .. n |-> i]

LEMMA UpToNext ==
  ASSUME NEW n \in Nat
  PROVE  UpTo(n) \in Seq(Nat) /\ Append(UpTo(n), n + 1) = UpTo(n + 1)
BY DEF UpTo

LEMMA ConcatAppend ==
  ASSUME NEW S, NEW s \in Seq(S), NEW t \in Seq(S), NEW e \in S
  PROVE  s \o Append(t, e) = Append(s \o t, e)
OBVIOUS

OnceOf(w) == reported[w] \o Pending(w) = UpTo(recorded[w])

LEMMA OnceStep ==
  ASSUME TypeOK, NEW w \in Worker, WorkerStep(w), OnceOf(w)
  PROVE  OnceOf(w)'
<1> USE DEF disk, log, report, bounds, history
<1>1. /\ error_list[w] \in Seq(1 .. MaxErrors)
      /\ reported[w] \in Seq(1 .. MaxErrors)
      /\ recorded[w] \in Nat
  BY DEF TypeOK
<1>2. CASE RecordError(w)
  <2>1. /\ error_list'[w] = Append(error_list[w], recorded[w] + 1)
        /\ recorded'[w] = recorded[w] + 1
        /\ recorded[w] + 1 \in 1 .. MaxErrors
        /\ reported'[w] = reported[w]
        /\ pc[w] = "running" /\ pc'[w] = "running"
    BY <1>2, LogAssumption DEF TypeOK, RecordError
  <2>2. Pending(w) = error_list[w] /\ Pending(w)' = error_list'[w]
    BY <2>1 DEF Pending, InCall
  <2>3. reported[w] \o Append(error_list[w], recorded[w] + 1)
          = Append(UpTo(recorded[w]), recorded[w] + 1)
    <3>1. reported[w] \o Append(error_list[w], recorded[w] + 1)
            = Append(reported[w] \o error_list[w], recorded[w] + 1)
      <4> DEFINE S == 1 .. MaxErrors
                 s == reported[w]
                 t == error_list[w]
                 e == recorded[w] + 1
      <4>1. s \in Seq(S) /\ t \in Seq(S) /\ e \in S
        BY <1>1, <2>1
      <4> HIDE DEF S, s, t, e
      <4>2. s \o Append(t, e) = Append(s \o t, e)
        BY <4>1, ConcatAppend
      <4> QED
        BY <4>2 DEF s, t, e
    <3>2. reported[w] \o error_list[w] = UpTo(recorded[w])
      BY <2>2 DEF OnceOf
    <3> QED
      BY <3>1, <3>2
  <2> QED
    BY <1>1, <2>1, <2>2, <2>3, UpToNext DEF OnceOf
<1>3. CASE Report(w) \/ ReportNothing(w)
  <2>1. /\ reported'[w] = reported[w] \o error_list[w]
        /\ recorded'[w] = recorded[w]
        /\ pc[w] = "report"
    BY <1>3 DEF TypeOK, Report, ReportNothing, Goto
  <2>2. Pending(w) = error_list[w]
    BY <2>1 DEF Pending, InCall
  <2>3. Pending(w)' = <<>>
    BY <1>3 DEF TypeOK, Pending, Report, ReportNothing, EndRequest, Cleared,
                Goto, InCall
  <2>4. reported[w] \o error_list[w] \in Seq(1 .. MaxErrors)
    BY <1>1
  <2>5. (reported[w] \o error_list[w]) \o <<>>
          = reported[w] \o error_list[w]
    BY <2>4
  <2> QED
    BY <2>1, <2>2, <2>3, <2>5 DEF OnceOf
<1>4. CASE OpenFails(w) \/ Write(w)
  <2>1. /\ UNCHANGED <<reported, recorded>>
        /\ pc[w] \in InCall
    BY <1>4 DEF OpenFails, Write, InCall
  <2>2. Pending(w)' = Pending(w)
    <3>1. CASE batch[w] = "spans"
      BY <1>4, <2>1, <3>1
         DEF TypeOK, Pending, OpenFails, Write, Return, Goto, InCall
    <3>2. CASE batch[w] # "spans"
      BY <1>4, <2>1, <3>2
         DEF TypeOK, Pending, OpenFails, Write, Return, EndRequest, Cleared,
             InCall
    <3> QED
      BY <3>1, <3>2
  <2> QED
    BY <2>1, <2>2 DEF OnceOf
<1>5. CASE Begin(w) \/ Flush(w) \/ FlushNothing(w) \/ NoReport(w)
  <2>1. /\ UNCHANGED <<reported, recorded, error_list>>
        /\ Pending(w)' = Pending(w)
    BY <1>5 DEF TypeOK, Pending, Begin, Flush, FlushNothing, NoReport,
                EndRequest, Goto, InCall
  <2> QED
    BY <2>1 DEF OnceOf
<1>6. CASE GeneratePath(w) \/ Open(w) \/ Stat(w)
  <2>1. /\ UNCHANGED <<reported, recorded, error_list, batch>>
        /\ Pending(w)' = Pending(w)
    BY <1>6 DEF TypeOK, Pending, GeneratePath, Open, Stat, Goto, InCall
  <2> QED
    BY <2>1 DEF OnceOf
<1> QED
  BY <1>2, <1>3, <1>4, <1>5, <1>6 DEF WorkerStep

LEMMA OnceNext ==
  TypeOK /\ (\A v \in Worker : OnceOf(v)) /\ [Next]_vars
    => (\A v \in Worker : OnceOf(v))'
<1> SUFFICES ASSUME TypeOK, \A v \in Worker : OnceOf(v), [Next]_vars,
                    NEW v \in Worker
             PROVE  OnceOf(v)'
  OBVIOUS
<1> USE DEF vars, disk, log, report, bounds, history
<1>1. ASSUME NEW w \in Worker, WorkerStep(w)
      PROVE  OnceOf(v)'
  <2>1. CASE v = w
    BY <1>1, <2>1, OnceStep
  <2>2. CASE v # w
    BY <1>1, <2>2, OthersReport DEF OnceOf, Pending
  <2> QED
    BY <2>1, <2>2
<1>2. ASSUME NEW d \in Days, Rotate(d)
      PROVE  OnceOf(v)'
  BY <1>2 DEF OnceOf, Pending, Rotate
<1>3. CASE Tick \/ UNCHANGED vars
  BY <1>3 DEF OnceOf, Pending, Tick
<1> QED
  BY <1>1, <1>2, <1>3 DEF Next, WorkerStep

(* Over any number of requests and failures, the errors handed to the sink  *)
(* and those still listed are all the errors recorded, once and in order.   *)
THEOREM ErrorsReportedOnce == Spec => []ErrorsOnce
<1>1. Init => \A v \in Worker : OnceOf(v)
  BY DEF Init, OnceOf, Pending, UpTo, InCall
<1>2. (\A v \in Worker : OnceOf(v)) => ErrorsOnce
  BY DEF OnceOf, ErrorsOnce, UpTo
<1> QED
  BY <1>1, <1>2, TypeInit, TypeNext, OnceNext, PTL DEF Spec

-----------------------------------------------------------------------------
(***************************************************************************)
(* What is written goes to the right file.  The invariant follows a worker *)
(* through mo_log_write: the name it looks at is today's or the one of a   *)
(* moment ago, and what it has opened bore that name.                      *)
(***************************************************************************)
RightInv(w) ==
  /\ pc[w] \in InCall => since[w] <= Yday(now)
  /\ pc[w] \in InCall => file[yday[w]] \in current[w]
  /\ pc[w] \in {"open", "stat", "write"} =>
       since[w] <= yday[w] /\ yday[w] <= Yday(now)
  /\ pc[w] = "stat" => fd[w] \in current[w]
  /\ pc[w] = "write" => fd[w] \in current[w] \/ fd[w] # ino[w]

LEMMA DayTypes ==
  TypeOK => /\ Yday(now) \in Nat
            /\ \A w \in Worker : since[w] \in Nat /\ yday[w] \in Nat
<1>1. Days \subseteq Nat
  BY DEF Days
<1>2. TypeOK => /\ Yday(now) \in Days
                /\ \A w \in Worker : since[w] \in Days /\ yday[w] \in Days
  BY YdayInDays DEF TypeOK
<1> QED
  BY <1>1, <1>2

LEMMA RightStep ==
  ASSUME TypeOK, NEW w \in Worker, WorkerStep(w), RightInv(w)
  PROVE  RightInv(w)'
<1> USE DEF disk, log, report, bounds, history
<1>1. Yday(now) \in Nat /\ since[w] \in Nat /\ yday[w] \in Nat
  BY DayTypes
<1>2. CASE GeneratePath(w)
  <2>1. CASE Yday(now) # yday[w]
    BY <1>1, <1>2, <2>1 DEF TypeOK, RightInv, GeneratePath, InCall
  <2>2. CASE Yday(now) = yday[w]
    <3>1. pc'[w] = "write" => fd'[w] = fd[w] /\ file[yday[w]] = ino[w]
      BY <1>2, <2>2 DEF TypeOK, GeneratePath, Foreign
    <3> QED
      BY <1>1, <1>2, <2>2, <3>1 DEF TypeOK, RightInv, GeneratePath, InCall
  <2> QED
    BY <2>1, <2>2
<1>3. CASE Open(w)
  <2>1. /\ pc[w] = "open" /\ pc'[w] = "stat"
        /\ UNCHANGED <<now, yday, ino, since>>
    BY <1>3 DEF TypeOK, Open, Goto
  <2>2. file'[yday[w]] \in current'[w] /\ fd'[w] = file'[yday[w]]
    <3>1. CASE file[yday[w]] # NoFile
      BY <1>3, <2>1, <3>1 DEF TypeOK, RightInv, Open, InCall
    <3>2. CASE file[yday[w]] = NoFile
      BY <1>3, <2>1, <3>2 DEF TypeOK, Open, Remember, InCall
    <3> QED
      BY <3>1, <3>2
  <2> QED
    BY <1>1, <2>1, <2>2 DEF RightInv, InCall
<1>4. CASE Stat(w)
  BY <1>1, <1>4 DEF TypeOK, RightInv, Stat, Goto, InCall
<1>5. CASE Flush(w) \/ Report(w)
  BY <1>1, <1>5 DEF TypeOK, RightInv, Flush, Report, CallWrite, Goto, InCall
<1>6. CASE OpenFails(w) \/ Write(w)
  <2>1. pc'[w] \notin InCall
    BY <1>6 DEF TypeOK, OpenFails, Write, Return, EndRequest, Goto, InCall
  <2> QED
    BY <2>1 DEF RightInv, InCall
<1>7. CASE \/ Begin(w) \/ RecordError(w) \/ FlushNothing(w)
           \/ NoReport(w) \/ ReportNothing(w)
  <2>1. pc'[w] \notin InCall
    BY <1>7 DEF TypeOK, Begin, RecordError, FlushNothing, NoReport,
                ReportNothing, EndRequest, Goto, InCall
  <2> QED
    BY <2>1 DEF RightInv, InCall
<1> QED
  BY <1>2, <1>3, <1>4, <1>5, <1>6, <1>7 DEF WorkerStep

LEMMA RightNext ==
  TypeOK /\ (\A v \in Worker : RightInv(v)) /\ [Next]_vars
    => (\A v \in Worker : RightInv(v))'
<1> SUFFICES ASSUME TypeOK, \A v \in Worker : RightInv(v), [Next]_vars,
                    NEW v \in Worker
             PROVE  RightInv(v)'
  OBVIOUS
<1> USE DEF vars, disk, log, report, bounds, history
<1>1. ASSUME NEW w \in Worker, WorkerStep(w)
      PROVE  RightInv(v)'
  <2>1. CASE v = w
    BY <1>1, <2>1, RightStep
  <2>2. CASE v # w
    <3>1. UNCHANGED now
      BY <1>1 DEF WorkerStep, Begin, RecordError, Flush, FlushNothing,
                  NoReport, Report, ReportNothing, GeneratePath, Open,
                  OpenFails, Stat, Write
    <3>2. pc'[v] = pc[v]
      BY <1>1, <2>2, OthersReport
    <3>3. /\ yday'[v] = yday[v] /\ fd'[v] = fd[v] /\ ino'[v] = ino[v]
          /\ since'[v] = since[v]
          /\ \/ UNCHANGED file /\ current'[v] = current[v]
             \/ Remember
      BY <1>1, <2>2, OthersLog
    <3>4. pc[v] \in InCall => /\ current[v] \subseteq current'[v]
                             /\ file'[yday[v]] \in current'[v]
      BY <3>3 DEF TypeOK, RightInv, Remember
    <3> QED
      BY <3>1, <3>2, <3>3, <3>4 DEF RightInv, InCall, Yday
  <2> QED
    BY <2>1, <2>2
<1>2. ASSUME NEW d \in Days, Rotate(d)
      PROVE  RightInv(v)'
  <2>1. UNCHANGED <<now, pc, yday, fd, ino, since>> /\ Remember
    BY <1>2 DEF Rotate
  <2>2. pc[v] \in InCall => /\ current[v] \subseteq current'[v]
                           /\ file'[yday[v]] \in current'[v]
    BY <2>1 DEF TypeOK, Remember
  <2> QED
    BY <2>1, <2>2 DEF RightInv, InCall, Yday
<1>3. CASE Tick
  <2>1. now \in Nat /\ now' = now + 1 /\ now' \in Nat
    BY <1>3, LogAssumption DEF TypeOK, Tick
  <2>2. /\ Yday(now) \in Nat /\ Yday(now') \in Nat
        /\ Yday(now) <= Yday(now')
    BY <2>1, YdayFacts
  <2>3. since[v] \in Nat /\ yday[v] \in Nat
    BY DayTypes
  <2>4. UNCHANGED <<file, pc, yday, fd, ino, since, current>>
    BY <1>3 DEF Tick
  <2>5. Yday(now)' = Yday(now')
    BY DEF Yday
  <2> HIDE DEF disk, log, report, bounds, history
  <2> QED
    BY <2>2, <2>3, <2>4, <2>5 DEF RightInv
<1>4. CASE UNCHANGED vars
  BY <1>4 DEF RightInv, Yday
<1> QED
  BY <1>1, <1>2, <1>3, <1>4 DEF Next, WorkerStep

(* For any number of workers, files and days: what is written goes to a file *)
(* that bore the day's name during the call, unless a rotation fell between  *)
(* the open and the lstat that go with the descriptor.                       *)
THEOREM AlwaysRightFile == Spec => []RightFile
<1>1. Init => \A v \in Worker : RightInv(v)
  BY DEF Init, RightInv, InCall
<1>2. TypeOK /\ (\A v \in Worker : RightInv(v)) => RightFile
  <2> SUFFICES ASSUME TypeOK, \A v \in Worker : RightInv(v),
                      NEW w \in Worker, pc[w] = "write"
               PROVE  /\ yday[w] \in since[w] .. Yday(now)
                      /\ fd[w] \in current[w] \/ fd[w] # ino[w]
    BY DEF RightFile
  <2>1. Yday(now) \in Nat /\ since[w] \in Nat /\ yday[w] \in Nat
    BY DayTypes
  <2> QED
    BY <2>1 DEF RightInv
<1> QED
  BY <1>1, <1>2, TypeInit, TypeNext, RightNext, PTL DEF Spec
=============================================================================
