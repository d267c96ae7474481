-------------------------- MODULE MoltenCurlProofs --------------------------
(***************************************************************************)
(* Proofs about the headers of curl transfers, for any number of handles,  *)
(* any header arrays and any sequence of calls.                            *)
(***************************************************************************)
EXTENDS MoltenCurl, TLAPS

-----------------------------------------------------------------------------
(***************************************************************************)
(* What add_http_trace_header makes of an array.                           *)
(***************************************************************************)
LEMMA TraceLines ==
  ASSUME NEW span \in Nat
  PROVE  /\ Trace(span) \in HeaderLine /\ IsSampledLine(Trace(span))
         /\ Unsampled \in HeaderLine /\ IsSampledLine(Unsampled)
BY DEF Trace, Unsampled, Line, HeaderLine, IsSampledLine

LEMMA UserLines ==
  ASSUME NEW lines \in Lines
  PROVE  /\ lines \in Seq(HeaderLine)
         /\ \A k \in DOMAIN lines : ~IsSampledLine(lines[k])
         /\ lines # Closed
<1>1. lines \in Seq(UserLine)
  <2>1. CASE lines = <<>>
    BY <2>1
  <2>2. CASE lines \in HeaderArray \cup HeaderObject
    BY <2>2, CurlAssumption
  <2> QED
    BY <2>1, <2>2 DEF Lines
<1>2. UserLine \subseteq HeaderLine /\ \A l \in UserLine : ~IsSampledLine(l)
  BY DEF UserLine, HeaderLine, IsSampledLine
<1>3. lines \in Seq(HeaderLine)
  BY <1>1, <1>2
<1>4. \A k \in DOMAIN lines : lines[k] \in UserLine
  BY <1>1
<1>5. \A k \in DOMAIN lines : ~IsSampledLine(lines[k])
  BY <1>2, <1>4
<1> QED
  BY <1>3, <1>5, CurlAssumption

(* What a script sets, and what of it is recorded. *)
LEMMA Values ==
  ASSUME NEW v \in Value
  PROVE  /\ v.type \in {"array", "object", "scalar"}
         /\ v.lines \in Lines /\ v \in Recorded
         /\ v.type = "scalar" => v = Scalar
<1>1. CASE v \in {Zval("array", a) : a \in HeaderArray}
  <2>1. PICK a \in HeaderArray : v = Zval("array", a)
    BY <1>1
  <2>2. a \in Lines /\ a \in Seq(HeaderLine)
    BY UserLines DEF Lines
  <2> QED
    BY <2>1, <2>2 DEF Zval, Recorded
<1>2. CASE v \in {Zval("object", o) : o \in HeaderObject}
  <2>1. PICK o \in HeaderObject : v = Zval("object", o)
    BY <1>2
  <2> QED
    BY <2>1 DEF Zval, Recorded, Lines
<1>3. CASE v = Scalar
  BY <1>3 DEF Scalar, Zval, Recorded, Lines
<1> QED
  BY <1>1, <1>2, <1>3 DEF Value

(* It appends one line of Molten's, or nothing. *)
LEMMA AddsAtMostOne ==
  ASSUME NEW headers \in Seq(HeaderLine), NEW span \in Nat
  PROVE  /\ AddLine(headers, span) \in Seq(HeaderLine)
         /\ \/ AddLine(headers, span) = headers
            \/ \E l \in HeaderLine : /\ IsSampledLine(l)
                                     /\ AddLine(headers, span) = Append(headers, l)
BY TraceLines DEF AddLine

LEMMA CarriesKept ==
  ASSUME NEW headers \in Seq(HeaderLine), NEW lines \in Seq(HeaderLine),
         NEW span \in Nat, Carries(headers, lines)
  PROVE  Carries(AddLine(headers, span), lines)
<1>1. CASE AddLine(headers, span) = headers
  BY <1>1
<1>2. ASSUME NEW l \in HeaderLine, IsSampledLine(l),
             AddLine(headers, span) = Append(headers, l)
      PROVE  Carries(AddLine(headers, span), lines)
  BY <1>2 DEF Carries
<1> QED
  BY <1>1, <1>2, AddsAtMostOne

(* In an unsampled request an array never has two lines of Molten's. *)
OneUnsampled(headers) ==
  \A k \in DOMAIN headers : IsSampledLine(headers[k]) =>
    headers[k] = Unsampled /\ OnlySampledLine(headers, k)

LEMMA UnsampledOnce ==
  ASSUME NEW headers \in Seq(HeaderLine), NEW span \in Nat, ~is_sampled,
         OneUnsampled(headers)
  PROVE  LET new == AddLine(headers, span)
         IN  /\ OneUnsampled(new)
             /\ \E k \in DOMAIN new : new[k] = Unsampled /\ OnlySampledLine(new, k)
<1>2. CASE \E k \in DOMAIN headers : IsSampledLine(headers[k])
  <2>1. AddLine(headers, span) = headers
    BY <1>2 DEF AddLine
  <2> QED
    BY <1>2, <2>1 DEF OneUnsampled
<1>3. CASE ~\E k \in DOMAIN headers : IsSampledLine(headers[k])
  <2> DEFINE new == Append(headers, Unsampled)
  <2>1. AddLine(headers, span) = new
    BY <1>3 DEF AddLine
  <2>2. /\ DOMAIN new = 1 .. Len(headers) + 1
        /\ new[Len(headers) + 1] = Unsampled
        /\ \A k \in DOMAIN headers : new[k] = headers[k]
    BY TraceLines
  <2>3. \A k \in DOMAIN new : IsSampledLine(new[k]) <=> k = Len(headers) + 1
    BY <1>3, <2>2, TraceLines
  <2> QED
    BY <2>1, <2>2, <2>3 DEF OneUnsampled, OnlySampledLine
<1> QED
  BY <1>2, <1>3

LEMMA SampledLast ==
  ASSUME NEW headers \in Seq(HeaderLine), NEW span \in Nat, is_sampled
  PROVE  LET new == AddLine(headers, span)
         IN  new # <<>> /\ Last(new) = Trace(span)
<1>1. AddLine(headers, span) = Append(headers, Trace(span))
  BY DEF AddLine
<1>2. Trace(span) \in HeaderLine
  BY TraceLines
<1> QED
  BY <1>1, <1>2 DEF Last
-----------------------------------------------------------------------------
(***************************************************************************)
(* The properties speak of the last transfer only.  They hold because at   *)
(* any time the record of a handle, and what libcurl holds for it, carry   *)
(* the lines of the script: a missing record stands for no lines, and a    *)
(* scalar leaves the option alone.                                         *)
(***************************************************************************)
HandleOK(h) ==
  /\ option[h] = Closed => /\ record[h] = NoRecord /\ wanted[h] = <<>>
                           /\ h \notin unknown
  /\ option[h] # Closed /\ h \notin unknown =>
       /\ Carries(option[h], wanted[h])
       /\ record[h].type # "object"
       /\ record[h].type = "none" => wanted[h] = <<>>
       /\ record[h].type = "array" => Carries(record[h].lines, wanted[h])
  /\ ~is_sampled /\ record[h].type = "array" => OneUnsampled(record[h].lines)

CurlInv ==
  /\ TypeOK
  /\ \A h \in Handle : HandleOK(h)
  /\ UserHeadersKept
  /\ OwnTraceLast

LEMMA Types ==
  /\ NoRecord \in Recorded /\ NoRecord.type = "none" /\ NoRecord.lines = <<>>
  /\ Scalar \in Recorded /\ Scalar.type = "scalar"
  /\ \A v \in Recorded :
       /\ v.type \in {"array", "object", "scalar", "none"}
       /\ v.type = "none" <=> v = NoRecord
       /\ v.type = "scalar" <=> v = Scalar
       /\ v.type \in {"array", "object"} => v.lines \in Seq(HeaderLine)
       /\ v.type = "array" => \A l \in Seq(HeaderLine) : [v EXCEPT !.lines = l] \in Recorded
<1>1. \A l \in HeaderObject : l \in Seq(HeaderLine)
  BY UserLines DEF Lines
<1> QED
  BY <1>1 DEF Recorded, Scalar, NoRecord, Zval

LEMMA InitCurl == Init => CurlInv
<1> SUFFICES ASSUME Init PROVE CurlInv
  OBVIOUS
<1>1. TypeOK
  BY CurlAssumption, Types DEF Init, TypeOK, Lines
<1>2. \A h \in Handle : HandleOK(h)
  BY Types DEF Init, HandleOK
<1> QED
  BY <1>1, <1>2 DEF Init, CurlInv, UserHeadersKept, OwnTraceLast

(* A step that makes no transfer has only the handles to account for. *)
LEMMA NoTransfer ==
  ASSUME CurlInv, UNCHANGED <<is_sampled, sent>>, TypeOK',
         \A h \in Handle : HandleOK(h)'
  PROVE  CurlInv'
BY DEF CurlInv, UserHeadersKept, OwnTraceLast

(* The calls of the script that are not transfers. *)
LEMMA ScriptCalls ==
  ASSUME CurlInv, NEW h \in Handle,
         \/ CurlInit(h) \/ CurlReset(h)
         \/ \E c \in Handle : CurlCopy(h, c)
         \/ \E v \in Value : CurlSetopt(h, v)
         \/ \E v \in Value, reached \in BOOLEAN : CurlSetoptArray(h, v, reached)
  PROVE  CurlInv'
<1> USE DEF CurlCall, Open, history
<1>0. /\ TypeOK /\ \A g \in Handle : HandleOK(g)
      /\ <<>> \in Seq(HeaderLine) /\ OneUnsampled(<<>>) /\ Carries(<<>>, <<>>)
      /\ <<>> \in Lines /\ MaxOps \in Nat /\ Closed \notin Seq(HeaderLine)
  BY CurlAssumption DEF CurlInv, OneUnsampled, Carries, Lines
<1>a. \A lines \in Lines : /\ lines \in Seq(HeaderLine) /\ OneUnsampled(lines)
                           /\ Carries(lines, lines)
  BY UserLines DEF OneUnsampled, Carries
<1>1. CASE CurlInit(h)
  <2>1. TypeOK'
    BY <1>0, <1>1 DEF CurlInit, TypeOK
  <2>2. ASSUME NEW g \in Handle PROVE HandleOK(g)'
    BY <1>0, <1>1, Types DEF CurlInit, TypeOK, HandleOK, OneUnsampled, OnlySampledLine
  <2> QED
    BY <1>1, <2>1, <2>2, NoTransfer DEF CurlInit
<1>2. CASE CurlReset(h)
  <2>1. TypeOK'
    BY <1>0, <1>2, Types DEF CurlReset, TypeOK
  <2>2. ASSUME NEW g \in Handle PROVE HandleOK(g)'
    BY <1>0, <1>2, Types DEF CurlReset, TypeOK, HandleOK, OneUnsampled, OnlySampledLine
  <2> QED
    BY <1>2, <2>1, <2>2, NoTransfer DEF CurlReset
<1>3. ASSUME NEW c \in Handle, CurlCopy(h, c)
      PROVE  CurlInv'
  <2>1. TypeOK'
    BY <1>0, <1>3 DEF CurlCopy, TypeOK
  <2>2. ASSUME NEW g \in Handle PROVE HandleOK(g)'
    BY <1>0, <1>3 DEF CurlCopy, TypeOK, HandleOK, OneUnsampled, OnlySampledLine
  <2> QED
    BY <1>3, <2>1, <2>2, NoTransfer DEF CurlCopy
<1>b. ASSUME NEW v \in Value, Set(h, v), h \in Open
      PROVE  /\ option' \in [Handle -> Seq(HeaderLine) \cup {Closed}]
             /\ wanted' \in [Handle -> Lines]
             /\ option'[h] # Closed
             /\ \A g \in Handle \ {h} : option'[g] = option[g] /\ wanted'[g] = wanted[g]
             /\ v.type = "scalar" => UNCHANGED <<option, wanted>>
             /\ v.type # "scalar" => option'[h] = v.lines /\ wanted'[h] = v.lines
  <2>1. v.lines \in Lines /\ v.lines \in Seq(HeaderLine)
    BY <1>a, Values
  <2> QED
    BY <1>0, <1>b, <2>1 DEF Set, Apply, TypeOK
<1>4. ASSUME NEW v \in Value, CurlSetopt(h, v)
      PROVE  CurlInv'
  <2>0. /\ v.type \in {"array", "object", "scalar"} /\ v \in Recorded
        /\ v.lines \in Lines /\ OneUnsampled(v.lines) /\ Carries(v.lines, v.lines)
    BY <1>a, Values
  <2>1. /\ Set(h, v) /\ h \in Open /\ UNCHANGED <<is_sampled, sent>>
        /\ ops' \in 0 .. MaxOps
    BY <1>0, <1>4 DEF CurlSetopt, TypeOK
  <2>2. /\ record' \in [Handle -> Recorded] /\ unknown' \subseteq Handle
        /\ \A g \in Handle \ {h} : record'[g] = record[g]
                                     /\ (g \in unknown' <=> g \in unknown)
        /\ record'[h] = IF v.type = "array" THEN v ELSE record[h]
        /\ h \in unknown' <=> \/ v.type = "object"
                              \/ v.type = "scalar" /\ h \in unknown
    BY <1>0, <1>4, <2>0 DEF CurlSetopt, TypeOK
  <2>3. TypeOK'
    BY <1>0, <1>b, <2>1, <2>2 DEF TypeOK
  <2>4. ASSUME NEW g \in Handle PROVE HandleOK(g)'
    <3>1. CASE g = h
      BY <1>0, <1>b, <2>0, <2>1, <2>2, <3>1
      DEF HandleOK, OneUnsampled, OnlySampledLine
    <3>2. CASE g # h
      BY <1>0, <1>b, <2>1, <2>2, <3>2 DEF HandleOK, OneUnsampled, OnlySampledLine
    <3> QED
      BY <3>1, <3>2
  <2> QED
    BY <2>1, <2>3, <2>4, NoTransfer
<1>5. ASSUME NEW v \in Value, NEW reached \in BOOLEAN,
             CurlSetoptArray(h, v, reached)
      PROVE  CurlInv'
  <2>0. /\ v.type \in {"array", "object", "scalar"} /\ v \in Recorded
        /\ v.lines \in Lines /\ OneUnsampled(v.lines) /\ Carries(v.lines, v.lines)
    BY <1>a, Values
  <2>1. /\ IF reached THEN Set(h, v) ELSE UNCHANGED <<option, wanted>>
        /\ h \in Open /\ UNCHANGED <<is_sampled, sent>> /\ ops' \in 0 .. MaxOps
    BY <1>0, <1>5 DEF CurlSetoptArray, TypeOK
  <2>2. /\ record' \in [Handle -> Recorded] /\ unknown' \subseteq Handle
        /\ \A g \in Handle \ {h} : record'[g] = record[g]
                                     /\ (g \in unknown' <=> g \in unknown)
        /\ record'[h] = v
        /\ h \in unknown' <=> \/ v.type = "object"
                              \/ v.type = "array" /\ ~reached
                              \/ v.type = "scalar" /\ h \in unknown
    BY <1>0, <1>5, <2>0 DEF CurlSetoptArray, TypeOK
  <2>a. /\ option' \in [Handle -> Seq(HeaderLine) \cup {Closed}]
        /\ wanted' \in [Handle -> Lines]
        /\ option'[h] # Closed
        /\ \A g \in Handle \ {h} : option'[g] = option[g] /\ wanted'[g] = wanted[g]
        /\ v.type = "scalar" => UNCHANGED <<option, wanted>>
        /\ v.type # "scalar" /\ reached => option'[h] = v.lines /\ wanted'[h] = v.lines
    <3>1. CASE reached
      BY <1>b, <2>1, <3>1
    <3>2. CASE ~reached
      BY <1>0, <2>1, <3>2 DEF TypeOK
    <3> QED
      BY <3>1, <3>2
  <2>3. TypeOK'
    BY <1>0, <2>a, <2>1, <2>2 DEF TypeOK
  <2>4. ASSUME NEW g \in Handle PROVE HandleOK(g)'
    <3>1. CASE g = h
      BY <1>0, <2>0, <2>a, <2>1, <2>2, <3>1
      DEF HandleOK, OneUnsampled, OnlySampledLine
    <3>2. CASE g # h
      BY <1>0, <2>a, <2>1, <2>2, <3>2 DEF HandleOK, OneUnsampled, OnlySampledLine
    <3> QED
      BY <3>1, <3>2
  <2> QED
    BY <2>1, <2>3, <2>4, NoTransfer
<1> QED
  BY <1>1, <1>2, <1>3, <1>4, <1>5

(* A transfer sets the option to what it sends, from the record if there is *)
(* one, and writes the same back into the record.                          *)
LEMMA TransferCall ==
  ASSUME CurlInv, NEW h \in Handle, CurlExec(h)
  PROVE  CurlInv'
<1> DEFINE recorded == record[h] # NoRecord
           base == IF recorded THEN record[h] ELSE Zval("array", <<>>)
           value == WithTrace(base, ops')
           headers == Apply(h, value)
<1>0. /\ TypeOK /\ HandleOK(h) /\ h \in Open /\ option[h] \in Seq(HeaderLine)
      /\ option[h] # Closed
      /\ <<>> \in Seq(HeaderLine) /\ OneUnsampled(<<>>) /\ Carries(<<>>, <<>>)
      /\ Closed \notin Seq(HeaderLine) /\ record[h] \in Recorded
  BY CurlAssumption DEF CurlInv, TypeOK, CurlExec, Open, OneUnsampled, Carries
<1>1. ops' \in 1 .. MaxOps /\ ops' \in Nat
  BY <1>0, CurlAssumption DEF TypeOK, CurlExec, CurlCall
<1>2. /\ record' = IF recorded THEN [record EXCEPT ![h] = value] ELSE record
      /\ option' = [option EXCEPT ![h] = headers]
      /\ UNCHANGED <<is_sampled, wanted, unknown>>
      /\ option'[h] = headers
      /\ sent' = <<Transfer(h, option'[h], ops')>>
  BY <1>0 DEF CurlExec, TypeOK
<1>3. /\ base \in Recorded /\ base.type \in {"array", "object", "scalar"}
      /\ recorded => base = record[h]
      /\ ~recorded => base.type = "array" /\ base.lines = <<>> /\ record[h].type = "none"
  <2>1. Zval("array", <<>>) \in Recorded
    BY <1>0 DEF Zval, Recorded
  <2>2. Zval("array", <<>>).type = "array" /\ Zval("array", <<>>).lines = <<>>
    BY DEF Zval
  <2> QED
    BY <1>0, <2>1, <2>2, Types
<1>4. Transfer(h, headers, ops') \in
        [headers : {headers}, span : 1 .. MaxOps,
         wanted : Lines, record : Recorded, known : BOOLEAN]
  BY <1>0, <1>1 DEF Transfer, TypeOK
<1>5. CASE base.type # "array"
  <2>1. value = base /\ record[h] = base /\ recorded
    BY <1>3, <1>5 DEF WithTrace
  <2>2. record' = record
    BY <1>0, <1>2, <2>1 DEF TypeOK
  <2>3. headers \in Seq(HeaderLine) /\ (base.type = "scalar" => headers = option[h])
    BY <1>0, <1>3, <1>5, <2>1, Types DEF Apply
  <2>4. TypeOK'
    BY <1>0, <1>1, <1>2, <1>4, <2>2, <2>3 DEF TypeOK, CurlExec, CurlCall
  <2>5. h \notin unknown => base.type = "scalar" /\ Carries(headers, wanted[h])
    BY <1>0, <1>3, <1>5, <2>1, <2>3 DEF HandleOK
  <2>6. ASSUME NEW g \in Handle PROVE HandleOK(g)'
    <3>1. CASE g = h
      <4>1. option'[h] = headers /\ headers # Closed
        BY <1>0, <1>2, <2>3
      <4> HIDE DEF value, headers, base, recorded
      <4> QED
        BY <1>0, <1>2, <1>5, <2>1, <2>2, <2>5, <3>1, <4>1 DEF HandleOK
    <3>2. CASE g # h
      <4>1. option'[g] = option[g]
        BY <1>0, <1>2, <3>2 DEF TypeOK
      <4> QED
        BY <1>2, <2>2, <4>1 DEF CurlInv, HandleOK, OneUnsampled, OnlySampledLine
    <3> QED
      BY <3>1, <3>2
  <2>7. /\ DOMAIN sent' = {1} /\ sent'[1].headers = headers
        /\ sent'[1].wanted = wanted[h] /\ sent'[1].record = base
        /\ sent'[1].known = (h \notin unknown)
    BY <1>2, <2>1 DEF Transfer
  <2> HIDE DEF value, headers, base, recorded
  <2>8. UserHeadersKept' /\ OwnTraceLast'
    BY <1>3, <1>5, <2>5, <2>7 DEF UserHeadersKept, OwnTraceLast
  <2> QED
    BY <2>4, <2>6, <2>8 DEF CurlInv
<1>6. CASE base.type = "array"
  <2> DEFINE new == AddLine(base.lines, ops')
  <2>0. base.lines \in Seq(HeaderLine)
    BY <1>3, <1>6, Types
  <2>1. /\ value = [base EXCEPT !.lines = new] /\ new \in Seq(HeaderLine)
        /\ value \in Recorded /\ value.type = "array" /\ value.lines = new
    <3>1. new \in Seq(HeaderLine)
      BY <1>1, <2>0, AddsAtMostOne
    <3>2. value = [base EXCEPT !.lines = new]
      BY <1>6 DEF WithTrace
    <3>3. base \in [type : {"array"}, lines : Seq(HeaderLine)]
      BY <1>3, <1>6 DEF Recorded, Scalar, NoRecord, Zval
    <3> HIDE DEF new, base, value
    <3> QED
      BY <3>1, <3>2, <3>3 DEF Recorded
  <2>a. headers = new
    BY <2>1 DEF Apply
  <2>2. record'[h] \in {value, NoRecord} /\ record' \in [Handle -> Recorded]
    BY <1>0, <1>2, <2>1 DEF TypeOK
  <2>3. \A g \in Handle \ {h} : record'[g] = record[g] /\ option'[g] = option[g]
    BY <1>0, <1>2 DEF TypeOK
  <2>4. h \notin unknown => Carries(new, wanted[h])
    <3> SUFFICES ASSUME h \notin unknown PROVE Carries(new, wanted[h])
      OBVIOUS
    <3>1. Carries(base.lines, wanted[h])
      BY <1>0, <1>3, <1>6 DEF HandleOK
    <3>2. wanted[h] \in Seq(HeaderLine)
      BY <1>0, UserLines DEF TypeOK
    <3> QED
      BY <1>1, <2>0, <3>1, <3>2, CarriesKept
  <2>5. ~is_sampled => /\ OneUnsampled(new)
                       /\ \E k \in DOMAIN new : new[k] = Unsampled
                                                /\ OnlySampledLine(new, k)
    <3>1. ~is_sampled => OneUnsampled(base.lines)
      BY <1>0, <1>3, <1>6 DEF HandleOK
    <3> QED
      BY <1>1, <2>0, <3>1, UnsampledOnce
  <2>6. is_sampled => new # <<>> /\ Last(new) = Trace(ops')
    BY <1>1, <2>0, SampledLast
  <2>7. TypeOK'
    BY <1>0, <1>1, <1>2, <1>4, <2>1, <2>a, <2>2 DEF TypeOK, CurlExec, CurlCall
  <2>8. ASSUME NEW g \in Handle PROVE HandleOK(g)'
    <3>1. CASE g = h
      <4>1. option'[h] = new /\ option[h] # Closed /\ UNCHANGED <<wanted, unknown, is_sampled>>
        BY <1>0, <1>2, <2>a
      <4>2. record'[h].type = "none" => wanted[h] = <<>> \/ h \in unknown
        BY <1>0, <1>2, <1>3, <2>1, <2>2, Types DEF HandleOK, TypeOK
      <4>3. record'[h].type \in {"array", "none"}
        BY <2>1, <2>2, Types
      <4>4. new # Closed
        BY <1>0, <2>1
      <4>5. record'[h].type = "array" => record'[h].lines = new
        BY <2>1, <2>2, Types
      <4> HIDE DEF value, headers, base, recorded, new
      <4> QED
        BY <2>4, <2>5, <3>1, <4>1, <4>2, <4>3, <4>4, <4>5
        DEF HandleOK, OneUnsampled, OnlySampledLine
    <3>2. CASE g # h
      BY <1>2, <2>3, <3>2 DEF CurlInv, HandleOK, OneUnsampled, OnlySampledLine
    <3> QED
      BY <3>1, <3>2
  <2>9. sent' = <<[headers |-> new, span |-> ops', wanted |-> wanted[h],
                   record |-> record[h], known |-> h \notin unknown]>>
    BY <1>2, <2>a DEF Transfer
  <2> HIDE DEF value, headers, base, recorded, new
  <2>10. UserHeadersKept'
    <3>1. /\ DOMAIN sent' = {1} /\ sent'[1].headers = new
          /\ sent'[1].wanted = wanted[h] /\ sent'[1].known = (h \notin unknown)
      BY <2>9
    <3> QED
      BY <2>4, <3>1 DEF UserHeadersKept
  <2>11. OwnTraceLast'
    <3>1. /\ DOMAIN sent' = {1} /\ sent'[1].headers = new
          /\ sent'[1].span = ops' /\ is_sampled' = is_sampled
      BY <1>2, <2>9
    <3>2. CASE is_sampled
      BY <2>6, <3>1, <3>2 DEF OwnTraceLast
    <3>3. CASE ~is_sampled
      <4>1. PICK k \in DOMAIN new : new[k] = Unsampled /\ OnlySampledLine(new, k)
        BY <2>5, <3>3
      <4> QED
        BY <3>1, <3>3, <4>1 DEF OwnTraceLast, OnlySampledLine
    <3> QED
      BY <3>2, <3>3
  <2> QED
    BY <2>7, <2>8, <2>10, <2>11 DEF CurlInv
<1> QED
  BY <1>5, <1>6

LEMMA NextCurl == CurlInv /\ [Next]_vars => CurlInv'
<1>1. ASSUME CurlInv, UNCHANGED vars
      PROVE  CurlInv'
  BY <1>1 DEF CurlInv, vars, history, TypeOK, HandleOK, OneUnsampled,
              OnlySampledLine, UserHeadersKept, OwnTraceLast
<1>2. ASSUME CurlInv, Next
      PROVE  CurlInv'
  BY <1>2, ScriptCalls, TransferCall DEF Next
<1> QED
  BY <1>1, <1>2

LEMMA CurlAlways == Spec => []CurlInv
  BY InitCurl, NextCurl, PTL DEF Spec

(* The records, the options and the transfers are sequences of header      *)
(* lines, whatever is set and in whatever order.                           *)
THEOREM CurlTypes == Spec => []TypeOK
<1>1. CurlInv => TypeOK
  BY DEF CurlInv
<1> QED
  BY <1>1, CurlAlways, PTL

(* UserHeadersKept: the record of a handle that is not a copy, was given no*)
(* object and whose curl_setopt_array did not stop early never drifts from *)
(* what the script set, for any calls on any number of handles, so         *)
(* molten_curl_exec neither drops nor revives a line of the script.        *)
THEOREM HeadersAlwaysKept == Spec => []UserHeadersKept
<1>1. CurlInv => UserHeadersKept
  BY DEF CurlInv
<1> QED
  BY <1>1, CurlAlways, PTL

(* OwnTraceLast: a callee that reads the last line of each name finds the  *)
(* span of this very transfer, however often the recorded array was sent   *)
(* and extended before; add_http_trace_header marks an unsampled request   *)
(* exactly once.                                                           *)
THEOREM AlwaysOwnTraceLast == Spec => []OwnTraceLast
<1>1. CurlInv => OwnTraceLast
  BY DEF CurlInv
<1> QED
  BY <1>1, CurlAlways, PTL
=============================================================================
