----------------------------- MODULE MoltenCurl -----------------------------
(***************************************************************************)
(* How trace headers reach an outgoing request (molten.c: the replaced     *)
(* curl_setopt, curl_setopt_array, curl_reset and curl_exec, and           *)
(* add_http_trace_header).                                                 *)
(*                                                                         *)
(* libcurl cannot be asked which headers a handle has, so Molten records   *)
(* every CURLOPT_HTTPHEADER the script sets, and at curl_exec sets the     *)
(* option again to the recorded headers followed by its own.  The module   *)
(* follows one request: the record is created by RINIT.                    *)
(***************************************************************************)
EXTENDS Integers, Sequences, SequencesExt

CONSTANTS
  Handle,       \* curl resources; the number of one is never used again
  HeaderArray,  \* header arrays a script sets: lines of its own, no X-W-* ones
  HeaderObject, \* the properties of objects it sets instead: lines as well
  Closed,       \* the handle does not exist yet
  MaxOps        \* bound: curl calls in the request

(***************************************************************************)
(* A header line is a line of the script's, the five X-W-* lines that a    *)
(* sampled request adds for a span (one line here), or X-W-Sampled: 0.     *)
(***************************************************************************)
HeaderLine == [kind : {"user", "trace", "unsampled"}, arg : Nat]
UserLine == [kind : {"user"}, arg : Nat]

ASSUME CurlAssumption ==
  /\ HeaderArray \subseteq Seq(UserLine) /\ HeaderObject \subseteq Seq(UserLine)
  /\ Closed \notin Seq(HeaderLine)
  /\ MaxOps \in Nat

(* A value of CURLOPT_HTTPHEADER; a scalar has no lines.                    *)
Zval(type, lines) == [type |-> type, lines |-> lines]
Scalar == Zval("scalar", <<>>)

(* curl_header_record has no entry for the handle. *)
NoRecord == Zval("none", <<>>)

VARIABLES
  is_sampled,
  record,       \* pit->curl_header_record
  option,       \* the CURLOPT_HTTPHEADER that libcurl holds for each handle
  ops           \* curl calls so far; the one of an exec names its span

(* History, for the properties only. *)
VARIABLES
  wanted,       \* the headers the script has set on each handle
  unknown,      \* handles whose headers the record cannot know
  sent          \* the last transfer

history == <<wanted, unknown, sent>>
vars == <<is_sampled, record, option, ops, history>>

Line(kind, arg) == [kind |-> kind, arg |-> arg]
Trace(span) == Line("trace", span)
Unsampled == Line("unsampled", 0)

(* A transfer: what it sent, the span it belongs to, and what the script and *)
(* the record had for the handle when it began.                              *)
Transfer(h, headers, span) ==
  [headers |-> headers, span |-> span, wanted |-> wanted[h],
   record |-> record[h], known |-> h \notin unknown]

Init ==
  /\ is_sampled \in BOOLEAN
  /\ record = [h \in Handle |-> NoRecord]
  /\ option = [h \in Handle |-> Closed]
  /\ ops = 0
  /\ wanted = [h \in Handle |-> <<>>]
  /\ unknown = {}
  /\ sent = <<>>

Open == {h \in Handle : option[h] # Closed}

CurlCall == ops < MaxOps /\ ops' = ops + 1

(* External: a new handle sends no header of the script's. *)
CurlInit(h) ==
  /\ CurlCall
  /\ h \notin Open
  /\ option' = [option EXCEPT ![h] = <<>>]
  /\ UNCHANGED <<is_sampled, record, history>>

(* External: the copy has the options of the original; no record is made. *)
CurlCopy(h, c) ==
  /\ CurlCall
  /\ h \in Open /\ c \notin Open
  /\ option' = [option EXCEPT ![c] = option[h]]
  /\ wanted' = [wanted EXCEPT ![c] = wanted[h]]
  /\ unknown' = unknown \cup {c}
  /\ UNCHANGED <<is_sampled, record, sent>>

(* ext/curl takes an array, or the properties of an object, and refuses    *)
(* anything else.                                                           *)
Apply(h, value) == IF value.type = "scalar" THEN option[h] ELSE value.lines

Set(h, value) ==
  /\ option' = [option EXCEPT ![h] = Apply(h, value)]
  /\ wanted' = [wanted EXCEPT ![h] = IF value.type = "scalar" THEN @ ELSE value.lines]

(***************************************************************************)
(* curl_setopt of CURLOPT_HTTPHEADER by the script: an array is copied into*)
(* the record, and nothing else is, so an object that ext/curl takes leaves*)
(* the record behind.  (The internal call of curl_exec is marked and is not*)
(* recorded; it is part of CurlExec.)                                      *)
(***************************************************************************)
CurlSetopt(h, value) ==
  /\ CurlCall
  /\ h \in Open
  /\ Set(h, value)
  /\ \/ /\ value.type = "array"
        /\ record' = [record EXCEPT ![h] = value]
        /\ unknown' = unknown \ {h}
     \/ /\ value.type # "array"
        /\ unknown' = IF value.type = "object" THEN unknown \cup {h} ELSE unknown
        /\ UNCHANGED record
  /\ UNCHANGED <<is_sampled, sent>>

(***************************************************************************)
(* curl_setopt_array records the value whatever its type, and before PHP   *)
(* applies the options; PHP stops at the first one that fails, which may   *)
(* come before the headers.  An object is recorded itself, not its lines,  *)
(* which the script may change before curl_exec.                           *)
(***************************************************************************)
CurlSetoptArray(h, value, reached) ==
  /\ CurlCall
  /\ h \in Open
  /\ record' = [record EXCEPT ![h] = value]
  /\ IF reached THEN Set(h, value) ELSE UNCHANGED <<option, wanted>>
  /\ unknown' = IF value.type = "scalar" THEN unknown
                ELSE IF value.type = "array" /\ reached THEN unknown \ {h}
                ELSE unknown \cup {h}
  /\ UNCHANGED <<is_sampled, sent>>

(* Mutant of CurlReset: the record outlives the options. *)
CurlResetKeeps(h) ==
  /\ CurlCall
  /\ h \in Open
  /\ option' = [option EXCEPT ![h] = <<>>]
  /\ wanted' = [wanted EXCEPT ![h] = <<>>]
  /\ unknown' = unknown \ {h}
  /\ UNCHANGED <<is_sampled, record, sent>>

CurlReset(h) ==
  /\ CurlCall
  /\ h \in Open
  /\ record' = [record EXCEPT ![h] = NoRecord]
  /\ option' = [option EXCEPT ![h] = <<>>]
  /\ wanted' = [wanted EXCEPT ![h] = <<>>]
  /\ unknown' = unknown \ {h}
  /\ UNCHANGED <<is_sampled, sent>>

IsSampledLine(line) == line.kind \in {"trace", "unsampled"}

(* The lines of an array once Molten has added its own. *)
AddLine(lines, span) ==
  IF is_sampled THEN Append(lines, Trace(span))
  ELSE IF \E i \in DOMAIN lines : IsSampledLine(lines[i]) THEN lines
  ELSE Append(lines, Unsampled)

(* Mutant of WithTrace: trace lines are only added once per array. *)
WithTraceOnce(value, span) ==
  IF value.type # "array" \/ \E i \in DOMAIN value.lines : IsSampledLine(value.lines[i])
    THEN value
    ELSE [value EXCEPT !.lines = AddLine(@, span)]

(* Mutant of WithTrace: the type of the value is not looked at. *)
WithTraceAny(value, span) == [value EXCEPT !.lines = AddLine(@, span)]

(* add_http_trace_header *)
WithTrace(value, span) ==
  IF value.type = "array" THEN [value EXCEPT !.lines = AddLine(@, span)] ELSE value

(***************************************************************************)
(* molten_curl_exec: the headers are added to the recorded array itself, or*)
(* to a new one that is freed; the internal curl_setopt sets the option and*)
(* clears the mark; then libcurl sends what the option holds.              *)
(***************************************************************************)
CurlExec(h) ==
  /\ CurlCall
  /\ h \in Open
  /\ LET recorded == record[h] # NoRecord
         value == WithTrace(IF recorded THEN record[h] ELSE Zval("array", <<>>), ops')
     IN  /\ record' = IF recorded THEN [record EXCEPT ![h] = value] ELSE record
         /\ option' = [option EXCEPT ![h] = Apply(h, value)]
         /\ sent' = <<Transfer(h, option'[h], ops')>>
  /\ UNCHANGED <<is_sampled, wanted, unknown>>

Value == {Zval("array", a) : a \in HeaderArray}
           \cup {Zval("object", o) : o \in HeaderObject} \cup {Scalar}

Next == \E h \in Handle :
          \/ CurlInit(h) \/ CurlReset(h) \/ CurlExec(h)
          \/ \E c \in Handle : CurlCopy(h, c)
          \/ \E v \in Value : CurlSetopt(h, v)
          \/ \E v \in Value, reached \in BOOLEAN :
               CurlSetoptArray(h, v, reached)

Spec == Init /\ [][Next]_vars
-----------------------------------------------------------------------------
Lines == HeaderArray \cup HeaderObject \cup {<<>>}

Recorded ==
  [type : {"array"}, lines : Seq(HeaderLine)]
    \cup [type : {"object"}, lines : HeaderObject] \cup {Scalar, NoRecord}

TypeOK ==
  /\ is_sampled \in BOOLEAN
  /\ record \in [Handle -> Recorded]
  /\ option \in [Handle -> Seq(HeaderLine) \cup {Closed}]
  /\ ops \in 0 .. MaxOps
  /\ wanted \in [Handle -> Lines]
  /\ unknown \subseteq Handle
  /\ Len(sent) <= 1
  /\ sent \in Seq([headers : Seq(HeaderLine), span : 1 .. MaxOps,
                   wanted : Lines, record : Recorded, known : BOOLEAN])

(* These lines, and then only lines of Molten's. *)
Carries(headers, lines) ==
  /\ Len(lines) <= Len(headers)
  /\ \A k \in 1 .. Len(lines) : headers[k] = lines[k]
  /\ \A k \in Len(lines) + 1 .. Len(headers) : IsSampledLine(headers[k])

(***************************************************************************)
(* The record stands for the headers of the script: through any sequence   *)
(* of curl_setopt, curl_setopt_array, curl_reset and curl_exec on any      *)
(* handles, a transfer sends the lines last set on its handle, in order,   *)
(* and no others.  It excepts what the record cannot know: copies, handles *)
(* that were given an object, and those whose curl_setopt_array failed     *)
(* before the headers.                                                     *)
(***************************************************************************)
UserHeadersKept ==
  \A i \in DOMAIN sent :
    sent[i].known => Carries(sent[i].headers, sent[i].wanted)

(***************************************************************************)
(* In a sampled request the last trace lines of a transfer are those of its*)
(* own span, however often the handle was used before; in an unsampled one *)
(* there is exactly one X-W-Sampled line (tests/bug_dup_sampled.phpt).  A  *)
(* recorded value that is no array gets no line of Molten's at all.        *)
(***************************************************************************)
OnlySampledLine(headers, k) ==
  \A j \in DOMAIN headers : IsSampledLine(headers[j]) => j = k

OwnTraceLast ==
  \A i \in DOMAIN sent :
    sent[i].record.type \in {"array", "none"} =>
      LET headers == sent[i].headers
      IN  IF is_sampled
            THEN headers # <<>> /\ Last(headers) = Trace(sent[i].span)
            ELSE \E k \in DOMAIN headers :
                   headers[k] = Unsampled /\ OnlySampledLine(headers, k)

(***************************************************************************)
(* tests/bug_dup_header.phpt: a transfer carries each trace header once,   *)
(* when its handle was used before.                                        *)
(***************************************************************************)
TraceOnce ==
  \A i \in DOMAIN sent :
    \A j, k \in DOMAIN sent[i].headers :
      IsSampledLine(sent[i].headers[j]) /\ IsSampledLine(sent[i].headers[k])
        => j = k
=============================================================================
