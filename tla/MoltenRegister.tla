---------------------------- MODULE MoltenRegister ----------------------------
(***************************************************************************)
(* The registration of a process with the SkyWalking collectors, which     *)
(* MINIT runs before the first request when molten.span_format asks for    *)
(* SkyWalking (mo_span_pre_init_ctor in molten_span.c, over the HTTP calls *)
(* of common/molten_http_util.c): it asks the discovery address in         *)
(* molten.sink_http_uri for the collectors, takes one, registers the       *)
(* application there until it is given an id, then registers itself as an  *)
(* instance, and from then on labels every segment it sends with the two   *)
(* ids.  A process of the model is one MINIT: an FPM master with the       *)
(* workers that inherit its ids, or one CLI script.                        *)
(*                                                                         *)
(* A call is one step: it is synchronous, and what can differ is whether   *)
(* the request reached the collector and what was read back.  A request    *)
(* that never arrived changes nothing while a loop asks again: it is a     *)
(* stuttering step.  The collectors are the code's environment: they keep  *)
(* what was registered, know a name or a uuid by the id they first gave it,*)
(* and may answer 0 before they answer with the id.                        *)
(***************************************************************************)
EXTENDS LoadBalance, FiniteSets, SequencesExt

CONSTANTS
  Process,      \* the processes that run MINIT
  Server,       \* the collectors
  Name,         \* values of molten.service_name
  Discovery,    \* the address molten.sink_http_uri is configured with
  Garbage,      \* what an allocator may leave in a freed node, besides 0
  MaxStarts     \* bound: MINITs in all

(* sk_get_server has room for the names of eight servers. *)
ASSUME RegisterAssumption ==
  /\ IsFiniteSet(Server) /\ Cardinality(Server) \in 1 .. 8
  /\ Discovery \notin Server
  /\ Name # {}
  /\ Garbage \subseteq Nat
  /\ MaxStarts \in Nat

VARIABLES
  proc,         \* each process: where it is in MINIT, and what it has learnt
  apps,         \* each collector's applications: the id of a name is its index
  insts,        \* each collector's instances: the id of one is its index
  segments,     \* what each collector was sent
  starts,       \* MINITs so far; also the source of fresh random numbers
  wiped         \* the allocator of this build may overwrite what is freed

collectors == <<apps, insts, segments>>
vars == <<proc, collectors, starts, wiped>>

PC == {"off", "discover", "application", "instance", "again", "up"}

(* start: which MINIT this is; uuid: agentUUId; ai, ii: pct->application_id *)
(* and pct->instance_id; sink: where sink_http_uri points.                  *)
Agent == [pc : PC, start : 0 .. MaxStarts, name : Name, uuid : Nat,
          ai : Nat, ii : Nat, sink : Server \cup {Discovery}]

(* The globals as MINIT finds them. *)
Fresh(pc, start, name) ==
  [pc |-> pc, start |-> start, name |-> name, uuid |-> 0,
   ai |-> 0, ii |-> 0, sink |-> Discovery]

Off == Fresh("off", 0, CHOOSE n \in Name : TRUE)

Init ==
  /\ proc = [p \in Process |-> Off]
  /\ apps = [s \in Server |-> <<>>]
  /\ insts = [s \in Server |-> <<>>]
  /\ segments = [s \in Server |-> {}]
  /\ starts = 0
  /\ wiped \in BOOLEAN
-----------------------------------------------------------------------------
At(p, pc) == proc[p].pc = pc

(* REGISTER_INI_ENTRIES and the constructors before the registration. *)
Start(p) ==
  /\ At(p, "off") /\ starts < MaxStarts
  /\ starts' = starts + 1
  /\ \E n \in Name :
       proc' = [proc EXCEPT ![p] = Fresh("discover", starts + 1, n)]
  /\ UNCHANGED <<collectors, wiped>>

(* Killed, or ended; or it died of an answer that is no JSON of the expected *)
(* form: a missing field is a NULL pointer that the code follows.            *)
Stop(p) ==
  /\ ~At(p, "off")
  /\ proc' = [proc EXCEPT ![p] = Off]
  /\ UNCHANGED <<collectors, starts, wiped>>

(* sk_get_server: the list is fresh on every call. *)
Chosen(servers) == servers[getNextServerIndex(initDefaultServers(servers))]

Lists == {s \in SeqOf(Server, Cardinality(Server)) : Len(s) > 0 /\ IsInjective(s)}

Discover(p) ==
  /\ At(p, "discover")
  /\ \E servers \in Lists :
       proc' = [proc EXCEPT ![p].sink = Chosen(servers), ![p].pc = "application"]
  /\ UNCHANGED <<collectors, starts, wiped>>

(* No answer, or an empty list: MINIT goes on with no registration at all. *)
DiscoverFails(p) ==
  /\ At(p, "discover")
  /\ proc' = [proc EXCEPT ![p].pc = "up"]
  /\ UNCHANGED <<collectors, starts, wiped>>
-----------------------------------------------------------------------------
IdOf(known, x) == CHOOSE i \in DOMAIN known : known[i] = x

WithName(known, n) == IF n \in Range(known) THEN known ELSE Append(known, n)

(* url stays the one that sk_get_server chose. *)
UrlRotated(p, step) ==
  IF step = "application" THEN proc[p].sink
  ELSE CHOOSE s \in Server : Cardinality(Server) > 1 => s # proc[p].sink

Url(p, step) == proc[p].sink

(* sk_register_application, the request having arrived. *)
ApplicationArrives(p) ==
  apps' = [apps EXCEPT ![Url(p, "application")] = WithName(@, proc[p].name)]

(* The answer is 0, or is lost: sleep(1), and ask again. *)
ApplicationUnanswered(p) ==
  /\ At(p, "application")
  /\ ApplicationArrives(p)
  /\ UNCHANGED <<proc, insts, segments, starts, wiped>>

ApplicationAnswered(p) ==
  /\ At(p, "application")
  /\ ApplicationArrives(p)
  /\ proc' = [proc EXCEPT
       ![p].ai = IdOf(apps'[Url(p, "application")], proc[p].name),
       ![p].pc = "instance"]
  /\ UNCHANGED <<insts, segments, starts, wiped>>
-----------------------------------------------------------------------------
(* rand64hex(agentUUId), once in sk_register_instance: res_data is built    *)
(* before the loop and sent again as it is.                                 *)
UuidPerTry(p) ==
  IF At(p, "instance") THEN proc[p].start ELSE proc[p].start + MaxStarts

Uuid(p) == IF At(p, "instance") THEN proc[p].start ELSE proc[p].uuid

(* sk_register_service_builder: "ai" and "au".  (start is no part of the     *)
(* message: it tells the properties who the uuid belongs to.)               *)
Instance(p) == [ai |-> proc[p].ai, au |-> Uuid(p), start |-> proc[p].start]

WithInstance(known, x) ==
  IF \E i \in DOMAIN known : known[i].au = x.au THEN known ELSE Append(known, x)

InstanceId(known, x) == CHOOSE i \in DOMAIN known : known[i].au = x.au

InstanceArrives(p) ==
  insts' = [insts EXCEPT ![Url(p, "instance")] = WithInstance(@, Instance(p))]

(* get_instance_id reads the node after cJSON_Delete freed it: what it may   *)
(* return for the answer ii.                                                *)
get_instance_id(ii) == IF wiped THEN {ii, 0} \cup Garbage ELSE {ii}

(* What instance_id becomes after an answer: 0 starts, or goes on with, the *)
(* loop; anything else is taken for the id.                                 *)
LearnedLost(p, ii) ==
  \E read \in get_instance_id(ii) :
    proc' = [proc EXCEPT ![p].pc = IF At(p, "instance") /\ read # 0
                                   THEN "up" ELSE "again",
                         ![p].ii = read, ![p].uuid = Uuid(p)]

Learned(p, ii) ==
  \E read \in get_instance_id(ii) :
    proc' = [proc EXCEPT ![p].pc = IF read = 0 THEN "again" ELSE "up",
                         ![p].ii = read, ![p].uuid = Uuid(p)]

Registering(p) == At(p, "instance") \/ At(p, "again")

InstanceAnswered(p) ==
  /\ Registering(p)
  /\ InstanceArrives(p)
  /\ Learned(p, InstanceId(insts'[Url(p, "instance")], Instance(p)))
  /\ UNCHANGED <<apps, segments, starts, wiped>>

InstanceZero(p) ==
  /\ Registering(p)
  /\ InstanceArrives(p)
  /\ Learned(p, 0)
  /\ UNCHANGED <<apps, segments, starts, wiped>>

(* The first POST returns an error, whether or not the collector had the    *)
(* request: sk_register_instance returns 0 and is not called again.         *)
InstanceFails(p) ==
  /\ At(p, "instance")
  /\ InstanceArrives(p) \/ UNCHANGED insts
  /\ proc' = [proc EXCEPT ![p].pc = "up", ![p].uuid = Uuid(p)]
  /\ UNCHANGED <<apps, segments, starts, wiped>>

(* A later one does: nobody looks, and the answer read before, which was 0, *)
(* is parsed again.  (Where the node was overwritten the answer may have     *)
(* been the id; reading that now is InstanceAnswered's step.)               *)
InstanceUnanswered(p) ==
  /\ At(p, "again")
  /\ InstanceArrives(p) \/ UNCHANGED insts
  /\ Learned(p, 0)
  /\ UNCHANGED <<apps, segments, starts, wiped>>
-----------------------------------------------------------------------------
(* sk_add_segments_builder writes the ids into every segment, and the sink   *)
(* posts it to sink_http_uri.  What goes to the discovery address reaches no *)
(* collector.                                                                *)
SegmentBare(p) == [name |-> proc[p].name, start |-> proc[p].start]

Segment(p) == [ai |-> proc[p].ai, ii |-> proc[p].ii,
               name |-> proc[p].name, start |-> proc[p].start]

Send(p) ==
  /\ At(p, "up") /\ proc[p].sink \in Server
  /\ segments' = [segments EXCEPT ![proc[p].sink] = @ \cup {Segment(p)}]
  /\ UNCHANGED <<proc, apps, insts, starts, wiped>>

Registers(p) ==
  \/ Discover(p) \/ DiscoverFails(p)
  \/ ApplicationUnanswered(p) \/ ApplicationAnswered(p)
  \/ InstanceAnswered(p) \/ InstanceZero(p) \/ InstanceFails(p) \/ InstanceUnanswered(p)

Next == \E p \in Process : Start(p) \/ Stop(p) \/ Registers(p) \/ Send(p)

Spec == Init /\ [][Next]_vars

(* A process keeps running, and a collector that is asked again and again    *)
(* answers in the end: every call has a timeout of 30 s, and the loops stop  *)
(* for nothing else.                                                         *)
Answers(p) ==
  Discover(p) \/ DiscoverFails(p) \/ ApplicationAnswered(p) \/ InstanceAnswered(p)

FairSpec == Spec /\ \A p \in Process : WF_vars(Answers(p))
-----------------------------------------------------------------------------
TypeOK ==
  /\ proc \in [Process -> Agent]
  /\ \A s \in Server :
       /\ apps[s] \in Seq(Name)
       /\ insts[s] \in Seq([ai : Nat, au : Nat, start : 1 .. MaxStarts])
       /\ segments[s] \subseteq [ai : Nat, ii : Nat, name : Name, start : 1 .. MaxStarts]
  /\ starts \in 0 .. MaxStarts
  /\ wiped \in BOOLEAN

(* A collector credits a segment to whoever its ids stand for there: that is *)
(* the process that sent it, under its own service name, or, when its        *)
(* instance was never answered for, nobody.  The code asks one collector for *)
(* the ids and sends everything to that one, and two processes never look    *)
(* like one to it, whatever answers were lost on the way.  Where a freed     *)
(* node is overwritten the instance id is whatever get_instance_id read, and *)
(* only the application is certain.                                          *)
SegmentsCredited ==
  \A s \in Server : \A g \in segments[s] :
    /\ g.ai \in DOMAIN apps[s] /\ apps[s][g.ai] = g.name
    /\ g.ii # 0 /\ ~wiped => /\ g.ii \in DOMAIN insts[s]
                             /\ insts[s][g.ii].start = g.start
                             /\ insts[s][g.ii].ai = g.ai

(* However often an answer is lost and the registration repeated, a MINIT is *)
(* one instance to the collectors: sk_register_instance repeats the message, *)
(* uuid included, and does not build a new one.                              *)
OneInstance ==
  \A s, t \in Server : \A i \in DOMAIN insts[s], j \in DOMAIN insts[t] :
    insts[s][i].start = insts[t][j].start => s = t /\ i = j

(* MINIT ends where every collector answers in the end: no order of lost     *)
(* answers, zeros and errors leaves a retry loop without an exit.  (A        *)
(* collector that never answers keeps MINIT in its loop for ever, and so may *)
(* an overwritten node that reads as 0.)                                     *)
Starts == \A p \in Process :
  At(p, "discover") /\ ~wiped ~> At(p, "up") \/ At(p, "off")

(* Weights to check the load balancer with. *)
Weightings == UNION {[1 .. n -> 1 .. 3] : n \in 1 .. 4}

(* Over as many calls as the weights add up to, getNextServerIndex names     *)
(* every server as often as its weight says, and leaves the servers as fresh *)
(* as it found them; in between, the current weights always add up to 0.     *)
Smooth(w) ==
  LET total == Total(initServers(w))
      ss == Calls(w, total)
  IN  /\ ss[total] = initServers(w)
      /\ \A k \in 0 .. total : AddedUp(CurWeights(ss[k])) = 0
      /\ \A i \in DOMAIN w :
           Cardinality({k \in 0 .. total - 1 : getNextServerIndex(ss[k]) = i}) = w[i]

(* SmoothRoundRobin: the round robin is smooth for all these weights. (It is *)
(* about the operators alone: the initial states are enough.)                *)
SmoothRoundRobin == starts = 0 => \A w \in Weightings : Smooth(w)
=============================================================================
