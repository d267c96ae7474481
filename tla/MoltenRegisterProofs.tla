------------------------- MODULE MoltenRegisterProofs -------------------------
(***************************************************************************)
(* Proofs about the registration, for any number of processes, collectors, *)
(* names and starts.                                                       *)
(***************************************************************************)
EXTENDS MoltenRegister, FiniteSetTheorems, WellFoundedInduction, TLAPS

(***************************************************************************)
(* The servers of a fresh list have the same weight, so the first is taken:*)
(* mo_span_pre_init_ctor asks a new list for one server and drops it.      *)
(***************************************************************************)
THEOREM FirstServerChosen ==
  ASSUME NEW servers \in Seq(Server), Len(servers) > 0
  PROVE  Chosen(servers) = servers[1]
<1> DEFINE ss == initDefaultServers(servers)
<1>1. /\ DOMAIN Raised(ss) = 1 .. Len(servers) /\ DOMAIN ss = 1 .. Len(servers)
      /\ \A i \in 1 .. Len(servers) : Raised(ss)[i].cur_weight = 50
  BY DEF Raised, initDefaultServers, initServers, DEFAULT_WEIGHT
<1>2. 1 \in DOMAIN ss /\ \A j \in DOMAIN ss : j >= 1
  BY <1>1
<1> HIDE DEF ss
<1>3. getNextServerIndex(ss) = 1
  <2> DEFINE First(i) == \A j \in DOMAIN ss : LET r == Raised(ss) IN
                           /\ r[j].cur_weight <= r[i].cur_weight
                           /\ j < i => r[j].cur_weight < r[i].cur_weight
  <2>1. First(1)
    BY <1>1
  <2>2. ASSUME NEW i \in DOMAIN ss, First(i) PROVE i = 1
    BY <1>1, <1>2, <2>2
  <2> QED
    BY <1>2, <2>1, <2>2 DEF getNextServerIndex
<1> QED
  BY <1>3 DEF Chosen, ss

-----------------------------------------------------------------------------
InstanceSet == [ai : Nat, au : Nat, start : 1 .. MaxStarts]
SegmentSet == [ai : Nat, ii : Nat, name : Name, start : 1 .. MaxStarts]

Shape ==
  /\ proc \in [Process -> Agent]
  /\ apps \in [Server -> Seq(Name)]
  /\ insts \in [Server -> Seq(InstanceSet)]
  /\ segments \in [Server -> SUBSET SegmentSet]
  /\ starts \in 0 .. MaxStarts
  /\ wiped \in BOOLEAN

(***************************************************************************)
(* No two processes are the same MINIT, and a message sent again is the    *)
(* one that was sent first.                                                *)
(***************************************************************************)
Distinct ==
  /\ \A p \in Process : ~At(p, "off") => proc[p].start \in 1 .. starts
  /\ \A p, q \in Process :
       ~At(p, "off") /\ ~At(q, "off") /\ proc[p].start = proc[q].start => p = q
  /\ \A p \in Process : At(p, "again") => proc[p].uuid = proc[p].start

Known(p) == At(p, "instance") \/ At(p, "again") \/ At(p, "up")

(***************************************************************************)
(* What a process has learnt is what its collector knows, except for an    *)
(* instance id read from an overwritten node.                              *)
(***************************************************************************)
Learnt(p) ==
  /\ At(p, "discover") => proc[p].sink = Discovery
  /\ At(p, "application") \/ At(p, "instance") \/ At(p, "again")
       => proc[p].sink \in Server
  /\ Known(p) /\ proc[p].sink \in Server =>
       /\ proc[p].ai \in DOMAIN apps[proc[p].sink]
       /\ apps[proc[p].sink][proc[p].ai] = proc[p].name
  /\ proc[p].ii # 0 =>
       /\ At(p, "up") /\ proc[p].sink \in Server
       /\ ~wiped => /\ proc[p].ii \in DOMAIN insts[proc[p].sink]
                    /\ insts[proc[p].sink][proc[p].ii].start = proc[p].start
                    /\ insts[proc[p].sink][proc[p].ii].ai = proc[p].ai

(***************************************************************************)
(* An entry of a collector is that of one MINIT, and while this runs, it   *)
(* is at its own collector, with its own application.                      *)
(***************************************************************************)
Entries ==
  \A s \in Server : \A i \in DOMAIN insts[s] :
    /\ insts[s][i].au = insts[s][i].start
    /\ insts[s][i].start \in 1 .. starts
    /\ \A p \in Process :
         ~At(p, "off") /\ proc[p].start = insts[s][i].start =>
           Known(p) /\ proc[p].sink = s /\ proc[p].ai = insts[s][i].ai

Credited(s, g) ==
  /\ g.ai \in DOMAIN apps[s] /\ apps[s][g.ai] = g.name
  /\ g.ii # 0 /\ ~wiped => /\ g.ii \in DOMAIN insts[s]
                           /\ insts[s][g.ii].start = g.start
                           /\ insts[s][g.ii].ai = g.ai

RegInv ==
  /\ Shape /\ Distinct /\ Entries /\ OneInstance
  /\ \A p \in Process : Learnt(p)
  /\ \A s \in Server : \A g \in segments[s] : Credited(s, g)

(* A collector forgets nothing, and the allocator is the one it was. *)
Kept ==
  /\ wiped' = wiped
  /\ \A s \in Server :
       /\ \A i \in DOMAIN apps[s] : i \in DOMAIN apps'[s] /\ apps'[s][i] = apps[s][i]
       /\ \A i \in DOMAIN insts[s] : i \in DOMAIN insts'[s] /\ insts'[s][i] = insts[s][i]

LEMMA CreditedKept ==
  ASSUME RegInv, Kept, NEW s \in Server, NEW g \in segments[s]
  PROVE  Credited(s, g)'
BY DEF RegInv, Kept, Credited

LEMMA LearntKept ==
  ASSUME RegInv, Kept, NEW p \in Process, proc'[p] = proc[p]
  PROVE  Learnt(p)'
BY DEF RegInv, Kept, Learnt, Known, At

LEMMA InitRegInv == Init => RegInv
<1> SUFFICES ASSUME Init PROVE RegInv
  OBVIOUS
<1>1. /\ MaxStarts \in Nat /\ Off \in Agent /\ Off.pc = "off" /\ Off.ii = 0
  <2>1. MaxStarts \in Nat
    BY RegisterAssumption
  <2>2. (CHOOSE n \in Name : TRUE) \in Name
    BY RegisterAssumption
  <2> QED
    BY <2>1, <2>2 DEF Off, Fresh, Agent, PC
<1> QED
  BY <1>1 DEF Init, RegInv, Shape, Distinct, Entries, OneInstance, Learnt, Known,
              At, Credited

-----------------------------------------------------------------------------
(* MINIT begins, and a process ends.                                       *)
LEMMA StartStep == ASSUME RegInv, NEW p \in Process, Start(p) PROVE RegInv'
<1>1. PICK n \in Name : proc' = [proc EXCEPT ![p] = Fresh("discover", starts + 1, n)]
  BY DEF Start
<1>2. /\ At(p, "off") /\ starts' = starts + 1 /\ starts \in Nat /\ starts + 1 \in 1 .. MaxStarts
      /\ UNCHANGED <<apps, insts, segments, wiped>>
  BY RegisterAssumption DEF Start, collectors, RegInv, Shape
<1>3. Fresh("discover", starts + 1, n) \in Agent
  BY <1>2 DEF Fresh, Agent, PC
<1>4. /\ proc'[p].pc = "discover" /\ proc'[p].start = starts + 1 /\ proc'[p].ii = 0
      /\ proc'[p].sink = Discovery
      /\ \A q \in Process \ {p} : proc'[q] = proc[q]
  BY <1>1 DEF RegInv, Shape, Fresh
<1>5. Shape' /\ Kept
  BY <1>1, <1>2, <1>3 DEF RegInv, Shape, Kept
<1>6. Distinct'
  BY <1>2, <1>4 DEF RegInv, Distinct, At
<1>7. Entries' /\ OneInstance'
  BY <1>2, <1>4 DEF RegInv, Entries, OneInstance, Known, At
<1>8. \A q \in Process : Learnt(q)'
  <2>1. Learnt(p)'
    BY <1>4 DEF Learnt, Known, At
  <2> QED
    BY <1>4, <1>5, <2>1, LearntKept
<1> QED
  BY <1>2, <1>5, <1>6, <1>7, <1>8, CreditedKept DEF RegInv

LEMMA StopStep == ASSUME RegInv, NEW p \in Process, Stop(p) PROVE RegInv'
<1>1. /\ proc' = [proc EXCEPT ![p] = Off]
      /\ UNCHANGED <<apps, insts, segments, wiped, starts>>
  BY DEF Stop, collectors
<1>2. Off \in Agent /\ Off.pc = "off" /\ Off.ii = 0
  <2>1. (CHOOSE n \in Name : TRUE) \in Name /\ MaxStarts \in Nat
    BY RegisterAssumption
  <2> QED
    BY <2>1 DEF Off, Fresh, Agent, PC
<1>4. /\ proc'[p].pc = "off" /\ proc'[p].ii = 0
      /\ \A q \in Process \ {p} : proc'[q] = proc[q]
  BY <1>1, <1>2 DEF RegInv, Shape
<1>5. Shape' /\ Kept
  BY <1>1, <1>2 DEF RegInv, Shape, Kept
<1>6. Distinct'
  BY <1>1, <1>4 DEF RegInv, Distinct, At
<1>7. Entries' /\ OneInstance'
  BY <1>1, <1>4 DEF RegInv, Entries, OneInstance, Known, At
<1>8. \A q \in Process : Learnt(q)'
  <2>1. Learnt(p)'
    BY <1>4 DEF Learnt, Known, At
  <2> QED
    BY <1>4, <1>5, <2>1, LearntKept
<1> QED
  BY <1>1, <1>5, <1>6, <1>7, <1>8, CreditedKept DEF RegInv

(***************************************************************************)
(* A step before the first instance message: no entry is this MINIT's yet. *)
(***************************************************************************)
Before(p) == At(p, "discover") \/ At(p, "application")

LEMMA BeforeStep ==
  ASSUME RegInv, NEW p \in Process, Before(p), Shape', Kept, Learnt(p)',
         UNCHANGED <<insts, segments, starts>>,
         \A q \in Process \ {p} : proc'[q] = proc[q],
         proc'[p].start = proc[p].start, proc'[p].pc \notin {"off", "again"}
  PROVE  RegInv'
<1>1. Distinct'
  BY DEF RegInv, Distinct, Before, At
<1>2. Entries' /\ OneInstance'
  <2>1. \A s \in Server : \A i \in DOMAIN insts[s] : insts[s][i].start # proc[p].start
    BY DEF RegInv, Entries, Before, Known, At
  <2> QED
    BY <2>1 DEF RegInv, Entries, OneInstance, Known, At
<1>3. \A q \in Process : Learnt(q)'
  BY LearntKept
<1> QED
  BY <1>1, <1>2, <1>3, CreditedKept DEF RegInv

LEMMA DiscoverStep ==
  ASSUME RegInv, NEW p \in Process, Discover(p) \/ DiscoverFails(p) PROVE RegInv'
<1>1. /\ At(p, "discover") /\ UNCHANGED <<apps, insts, segments, starts, wiped>>
      /\ proc[p].ii = 0 /\ Kept /\ proc[p] \in Agent
  BY DEF Discover, DiscoverFails, collectors, RegInv, Shape, Learnt, At, Kept
<1>2. CASE Discover(p)
  <2>1. PICK servers \in Lists :
          proc' = [proc EXCEPT ![p].sink = Chosen(servers), ![p].pc = "application"]
    BY <1>2 DEF Discover
  <2>2. servers \in Seq(Server) /\ Len(servers) > 0
    BY DEF Lists, SeqOf
  <2>3. Chosen(servers) \in Server
    BY <2>2, FirstServerChosen
  <2>4. Shape'
    BY <1>1, <2>1, <2>3 DEF RegInv, Shape, Agent, PC
  <2>5. Learnt(p)'
    BY <1>1, <2>1, <2>3 DEF RegInv, Shape, Agent, Learnt, Known, At
  <2>6. /\ proc'[p].start = proc[p].start /\ proc'[p].pc = "application"
        /\ \A q \in Process \ {p} : proc'[q] = proc[q]
    BY <2>1 DEF RegInv, Shape, Agent
  <2> QED
    BY <1>1, <2>4, <2>5, <2>6, BeforeStep DEF Before
<1>3. CASE DiscoverFails(p)
  <2>1. proc' = [proc EXCEPT ![p].pc = "up"]
    BY <1>3 DEF DiscoverFails
  <2>2. proc[p].sink \notin Server
    BY <1>1, RegisterAssumption DEF RegInv, Learnt
  <2>4. Shape'
    BY <1>1, <2>1 DEF RegInv, Shape, Agent, PC
  <2>5. Learnt(p)'
    BY <1>1, <2>1, <2>2 DEF RegInv, Shape, Agent, Learnt, Known, At
  <2>6. /\ proc'[p].start = proc[p].start /\ proc'[p].pc = "up"
        /\ \A q \in Process \ {p} : proc'[q] = proc[q]
    BY <2>1 DEF RegInv, Shape, Agent
  <2> QED
    BY <1>1, <2>4, <2>5, <2>6, BeforeStep DEF Before
<1> QED
  BY <1>2, <1>3

LEMMA WithNameKeeps ==
  ASSUME NEW known \in Seq(Name), NEW n \in Name
  PROVE  /\ WithName(known, n) \in Seq(Name)
         /\ \A i \in DOMAIN known :
              i \in DOMAIN WithName(known, n) /\ WithName(known, n)[i] = known[i]
         /\ IdOf(WithName(known, n), n) \in DOMAIN WithName(known, n)
         /\ WithName(known, n)[IdOf(WithName(known, n), n)] = n
<1>1. \E i \in DOMAIN WithName(known, n) : WithName(known, n)[i] = n
  <2>1. CASE n \in Range(known)
    BY <2>1 DEF WithName, Range
  <2>2. CASE n \notin Range(known)
    <3>1. Len(known) + 1 \in DOMAIN Append(known, n)
          /\ Append(known, n)[Len(known) + 1] = n
      OBVIOUS
    <3> QED
      BY <2>2, <3>1 DEF WithName
  <2> QED
    BY <2>1, <2>2
<1> QED
  BY <1>1 DEF IdOf, WithName

LEMMA ApplicationStep ==
  ASSUME RegInv, NEW p \in Process, ApplicationUnanswered(p) \/ ApplicationAnswered(p)
  PROVE  RegInv'
<1> DEFINE s == proc[p].sink
           n == proc[p].name
<1>1. /\ At(p, "application") /\ UNCHANGED <<insts, segments, starts, wiped>>
      /\ apps' = [apps EXCEPT ![s] = WithName(apps[s], n)]
  BY DEF ApplicationUnanswered, ApplicationAnswered, ApplicationArrives, Url
<1>2. /\ s \in Server /\ n \in Name /\ proc[p] \in Agent /\ apps[s] \in Seq(Name)
      /\ proc[p].ii = 0
  BY <1>1 DEF RegInv, Learnt, Shape, Agent, At
<1>7. PICK known \in Seq(Name), id \in Nat :
        /\ known = WithName(apps[s], n) /\ id = IdOf(known, n)
        /\ \A i \in DOMAIN apps[s] : i \in DOMAIN known /\ known[i] = apps[s][i]
        /\ id \in DOMAIN known /\ known[id] = n
  <2>1. PICK known : known = WithName(apps[s], n)
    OBVIOUS
  <2>2. known \in Seq(Name)
    BY <1>2, <2>1, WithNameKeeps
  <2>3. \A i \in DOMAIN apps[s] : i \in DOMAIN known /\ known[i] = apps[s][i]
    BY <1>2, <2>1, WithNameKeeps
  <2>4. PICK id : id = IdOf(known, n)
    OBVIOUS
  <2>5. id \in DOMAIN known /\ known[id] = n
    BY <1>2, <2>1, <2>4, WithNameKeeps
  <2>6. id \in Nat
    BY <2>2, <2>5
  <2> QED
    BY <2>1, <2>2, <2>3, <2>4, <2>5, <2>6
<1>3. /\ apps' \in [Server -> Seq(Name)] /\ apps'[s] = known
      /\ \A t \in Server \ {s} : apps'[t] = apps[t]
  BY <1>1, <1>2, <1>7 DEF RegInv, Shape
<1>4. Kept
  <2> SUFFICES ASSUME NEW t \in Server, NEW i \in DOMAIN apps[t]
               PROVE  i \in DOMAIN apps'[t] /\ apps'[t][i] = apps[t][i]
    BY <1>1 DEF Kept
  <2>1. CASE t = s
    BY <1>7, <1>3, <2>1
  <2>2. CASE t # s
    BY <1>3, <2>2
  <2> QED
    BY <2>1, <2>2
<1>5. CASE ApplicationUnanswered(p)
  <2>1. proc' = proc
    BY <1>5 DEF ApplicationUnanswered
  <2>2. Shape'
    BY <1>1, <1>3, <2>1 DEF RegInv, Shape
  <2>3. Learnt(p)'
    BY <1>4, <2>1, LearntKept
  <2> QED
    BY <1>1, <1>4, <2>1, <2>2, <2>3, BeforeStep DEF Before, At
<1>6. CASE ApplicationAnswered(p)
  <2>1. proc' = [proc EXCEPT ![p].ai = id, ![p].pc = "instance"]
    <3>1. proc' = [proc EXCEPT ![p].ai = IdOf(apps'[s], n), ![p].pc = "instance"]
      BY <1>6 DEF ApplicationAnswered, Url
    <3> QED
      BY <1>3, <1>7, <3>1
  <2>2. id \in DOMAIN apps'[s] /\ apps'[s][id] = n
    BY <1>3, <1>7
  <2>3. Shape'
    <3>1. [proc[p] EXCEPT !.ai = id, !.pc = "instance"] \in Agent
      BY <1>2, <2>2 DEF Agent, PC
    <3>2. proc' \in [Process -> Agent]
      BY <2>1, <3>1 DEF RegInv, Shape
    <3> QED
      BY <1>1, <1>3, <3>2 DEF RegInv, Shape
  <2>4. Learnt(p)'
    BY <1>1, <1>2, <2>1, <2>2 DEF RegInv, Shape, Agent, Learnt, Known, At
  <2>6. /\ proc'[p].start = proc[p].start /\ proc'[p].pc = "instance"
        /\ \A q \in Process \ {p} : proc'[q] = proc[q]
    BY <2>1 DEF RegInv, Shape, Agent
  <2> QED
    BY <1>1, <1>4, <2>3, <2>4, <2>6, BeforeStep DEF Before
<1> QED
  BY <1>5, <1>6
-----------------------------------------------------------------------------
(***************************************************************************)
(* An instance message reaches its collector, perhaps once more: the entry *)
(* of this MINIT is there afterwards, and there is one.                    *)
(***************************************************************************)
LEMMA InstanceArrivesStep ==
  ASSUME RegInv, NEW p \in Process, Registering(p), InstanceArrives(p),
         UNCHANGED <<apps, segments, starts, wiped>>,
         proc' \in [Process -> Agent],
         \A q \in Process \ {p} : proc'[q] = proc[q],
         proc'[p].start = proc[p].start, proc'[p].name = proc[p].name,
         proc'[p].ai = proc[p].ai, proc'[p].sink = proc[p].sink,
         proc'[p].uuid = proc[p].start, proc'[p].pc \in {"again", "up"},
         proc'[p].ii # 0 => proc'[p].pc = "up",
         \/ proc'[p].ii = 0 \/ wiped
         \/ proc'[p].ii = InstanceId(insts'[proc[p].sink], Instance(p))
  PROVE  RegInv'
<1> DEFINE s == proc[p].sink
           x == Instance(p)
<1>1. /\ Learnt(p) /\ s \in Server /\ proc[p] \in Agent
      /\ ~At(p, "off") /\ proc[p].start \in 1 .. starts /\ starts \in Nat
      /\ starts <= MaxStarts /\ MaxStarts \in Nat
  BY RegisterAssumption DEF RegInv, Shape, Distinct, Learnt, Registering, At
<1>2. /\ x.ai = proc[p].ai /\ x.au = proc[p].start /\ x.start = proc[p].start
      /\ x \in InstanceSet
  BY <1>1 DEF Instance, Uuid, Registering, RegInv, Distinct, InstanceSet, Agent, At
<1>3. insts' = [insts EXCEPT ![s] = WithInstance(insts[s], x)]
  BY DEF InstanceArrives, Url
<1> HIDE DEF x
<1>4. /\ insts[s] \in Seq(InstanceSet) /\ insts'[s] = WithInstance(insts[s], x)
      /\ \A t \in Server \ {s} : insts'[t] = insts[t]
  BY <1>1, <1>3 DEF RegInv, Shape
<1>5. CASE \E i \in DOMAIN insts[s] : insts[s][i].au = x.au
  <2>1. insts' = insts
    BY <1>1, <1>3, <1>5 DEF WithInstance, RegInv, Shape
  <2>2. Shape' /\ Kept
    BY <2>1 DEF RegInv, Shape, Kept
  <2>3. Distinct'
    BY DEF RegInv, Distinct, Registering, At
  <2>4. Entries' /\ OneInstance'
    BY <2>1 DEF RegInv, Entries, OneInstance, Known, Registering, At
  <2>5. Learnt(p)'
    <3>1. ASSUME proc'[p].ii # 0, ~wiped
          PROVE  /\ proc'[p].ii \in DOMAIN insts'[s]
                 /\ insts'[s][proc'[p].ii].start = proc[p].start
                 /\ insts'[s][proc'[p].ii].ai = proc[p].ai
      <4>1. proc'[p].ii \in DOMAIN insts'[s] /\ insts'[s][proc'[p].ii].au = proc[p].start
        BY <1>2, <1>5, <2>1, <3>1 DEF InstanceId, x
      <4> QED
        BY <1>1, <2>1, <4>1 DEF RegInv, Entries
    <3> QED
      BY <1>1, <3>1 DEF Learnt, Known, Registering, At
  <2>6. \A q \in Process : Learnt(q)'
    BY <2>2, <2>5, LearntKept
  <2> QED
    BY <2>2, <2>3, <2>4, <2>6, CreditedKept DEF RegInv
<1>6. CASE ~ \E i \in DOMAIN insts[s] : insts[s][i].au = x.au
  <2> DEFINE k == Len(insts[s]) + 1
  <2>1. /\ insts'[s] = Append(insts[s], x) /\ insts'[s] \in Seq(InstanceSet)
        /\ DOMAIN insts'[s] = DOMAIN insts[s] \cup {k} /\ k \notin DOMAIN insts[s]
        /\ insts'[s][k] = x /\ k \in Nat
        /\ \A i \in DOMAIN insts[s] : insts'[s][i] = insts[s][i]
    <3>1. insts'[s] = Append(insts[s], x)
      BY <1>4, <1>6 DEF WithInstance
    <3>2. /\ DOMAIN insts[s] = 1 .. Len(insts[s]) /\ Len(insts[s]) \in Nat
          /\ DOMAIN Append(insts[s], x) = 1 .. Len(insts[s]) + 1
      BY <1>2, <1>4
    <3> QED
      BY <1>2, <1>4, <3>1, <3>2
  <2> HIDE DEF k
  <2>2. Shape' /\ Kept
    BY <1>1, <1>3, <1>4, <2>1 DEF RegInv, Shape, Kept
  <2>3. Distinct'
    BY DEF RegInv, Distinct, Registering, At
  <2>4. \A t \in Server : \A i \in DOMAIN insts[t] : insts[t][i].start # proc[p].start
    BY <1>1, <1>2, <1>6 DEF RegInv, Entries
  <2>5. Entries'
    <3> SUFFICES ASSUME NEW t \in Server, NEW i \in DOMAIN insts'[t]
                 PROVE  /\ insts'[t][i].au = insts'[t][i].start
                        /\ insts'[t][i].start \in 1 .. starts
                        /\ \A q \in Process :
                             proc'[q].pc # "off" /\ proc'[q].start = insts'[t][i].start =>
                               /\ proc'[q].pc \in {"instance", "again", "up"}
                               /\ proc'[q].sink = t /\ proc'[q].ai = insts'[t][i].ai
      BY DEF Entries, Known, At
    <3>1. CASE t = s /\ i = k
      BY <1>1, <1>2, <2>1, <3>1 DEF RegInv, Distinct, At
    <3>2. CASE ~(t = s /\ i = k)
      <4>1. i \in DOMAIN insts[t] /\ insts'[t][i] = insts[t][i]
        BY <1>4, <2>1, <3>2
      <4> QED
        BY <2>4, <4>1 DEF RegInv, Entries, Known, At
    <3> QED
      BY <3>1, <3>2
  <2>6. OneInstance'
    <3> SUFFICES ASSUME NEW t \in Server, NEW u \in Server,
                        NEW i \in DOMAIN insts'[t], NEW j \in DOMAIN insts'[u],
                        insts'[t][i].start = insts'[u][j].start
                 PROVE  t = u /\ i = j
      BY DEF OneInstance
    <3>1. \A v \in Server : \A h \in DOMAIN insts'[v] :
            (v = s /\ h = k) \/ (h \in DOMAIN insts[v] /\ insts'[v][h] = insts[v][h])
      <4> SUFFICES ASSUME NEW v \in Server, NEW h \in DOMAIN insts'[v]
                   PROVE  \/ v = s /\ h = k
                          \/ h \in DOMAIN insts[v] /\ insts'[v][h] = insts[v][h]
        OBVIOUS
      <4>1. CASE v = s
        BY <2>1, <4>1
      <4>2. CASE v # s
        BY <1>4, <4>2
      <4> QED
        BY <4>1, <4>2
    <3>2. insts'[s][k].start = proc[p].start
      BY <1>2, <2>1
    <3>3. CASE t = s /\ i = k
      BY <2>4, <3>1, <3>2, <3>3
    <3>4. CASE u = s /\ j = k
      BY <2>4, <3>1, <3>2, <3>4
    <3>5. CASE ~(t = s /\ i = k) /\ ~(u = s /\ j = k)
      <4>1. /\ i \in DOMAIN insts[t] /\ insts'[t][i] = insts[t][i]
            /\ j \in DOMAIN insts[u] /\ insts'[u][j] = insts[u][j]
        BY <3>1, <3>5
      <4> QED
        BY <4>1 DEF RegInv, OneInstance
    <3> QED
      BY <3>3, <3>4, <3>5
  <2>7. Learnt(p)'
    <3>1. ASSUME proc'[p].ii # 0, ~wiped
          PROVE  /\ proc'[p].ii \in DOMAIN insts'[s]
                 /\ insts'[s][proc'[p].ii].start = proc[p].start
                 /\ insts'[s][proc'[p].ii].ai = proc[p].ai
      <4>1. \A i \in DOMAIN insts'[s] : insts'[s][i].au = x.au <=> i = k
        BY <1>6, <2>1
      <4>2. proc'[p].ii = k
        BY <2>1, <3>1, <4>1 DEF InstanceId, x
      <4> QED
        BY <1>2, <2>1, <4>2
    <3> QED
      BY <1>1, <3>1 DEF Learnt, Known, Registering, At
  <2>8. \A q \in Process : Learnt(q)'
    BY <2>2, <2>7, LearntKept
  <2> QED
    BY <2>2, <2>3, <2>5, <2>6, <2>8, CreditedKept DEF RegInv
<1> QED
  BY <1>5, <1>6

LEMMA InstanceStep ==
  ASSUME RegInv, NEW p \in Process,
         \/ InstanceAnswered(p) \/ InstanceZero(p)
         \/ InstanceFails(p) \/ InstanceUnanswered(p)
  PROVE  RegInv'
<1>1. /\ Registering(p) /\ UNCHANGED <<apps, segments, starts, wiped>>
      /\ Uuid(p) = proc[p].start /\ proc[p].start \in Nat /\ proc[p] \in Agent
      /\ proc[p].ii = 0
  <2>1. Registering(p)
    BY DEF InstanceAnswered, InstanceZero, InstanceFails, InstanceUnanswered, Registering
  <2> QED
    BY <2>1 DEF InstanceAnswered, InstanceZero, InstanceFails, InstanceUnanswered,
         Registering, At, Uuid, RegInv, Distinct, Shape, Agent, Learnt
<1>2. ASSUME NEW pc \in {"again", "up"}, NEW ii \in Nat, InstanceArrives(p),
             proc' = [proc EXCEPT ![p].pc = pc, ![p].ii = ii, ![p].uuid = Uuid(p)],
             ii # 0 => pc = "up",
             ii = 0 \/ wiped \/ ii = InstanceId(insts'[proc[p].sink], Instance(p))
      PROVE  RegInv'
  <2>1. [proc[p] EXCEPT !.pc = pc, !.ii = ii, !.uuid = Uuid(p)] \in Agent
    BY <1>1 DEF Agent, PC
  <2>2. proc' \in [Process -> Agent]
    BY <1>2, <2>1 DEF RegInv, Shape
  <2>3. /\ proc'[p].start = proc[p].start /\ proc'[p].name = proc[p].name
        /\ proc'[p].ai = proc[p].ai /\ proc'[p].sink = proc[p].sink
        /\ proc'[p].uuid = proc[p].start /\ proc'[p].pc = pc /\ proc'[p].ii = ii
        /\ \A q \in Process \ {p} : proc'[q] = proc[q]
    BY <1>1, <1>2 DEF RegInv, Shape, Agent
  <2> QED
    BY <1>1, <1>2, <2>2, <2>3, InstanceArrivesStep
<1>3. CASE InstanceAnswered(p)
  <2> DEFINE id == InstanceId(insts'[Url(p, "instance")], Instance(p))
  <2>1. id \in Nat
    <3>1. /\ proc[p].sink \in Server /\ insts[proc[p].sink] \in Seq(InstanceSet)
          /\ Instance(p) \in InstanceSet
      <4>1. Learnt(p) /\ proc[p].start \in 1 .. starts /\ starts \in 0 .. MaxStarts
            /\ insts \in [Server -> Seq(InstanceSet)]
        BY <1>1 DEF RegInv, Shape, Distinct, Registering, At
      <4>2. proc[p].start \in 1 .. MaxStarts
        BY <4>1, RegisterAssumption
      <4>3. Instance(p) \in InstanceSet
        BY <1>1, <4>2 DEF Instance, InstanceSet, Agent
      <4>4. proc[p].sink \in Server
        BY <1>1, <4>1 DEF Learnt, Registering
      <4> QED
        BY <4>1, <4>3, <4>4
    <3> DEFINE known == WithInstance(insts[proc[p].sink], Instance(p))
    <3>2. insts'[proc[p].sink] = known
      BY <1>3, <3>1 DEF InstanceAnswered, InstanceArrives, Url, RegInv, Shape
    <3>3. \E i \in DOMAIN known : known[i].au = Instance(p).au
      <4> DEFINE s == insts[proc[p].sink]
                 x == Instance(p)
      <4> HIDE DEF s, x
      <4>1. CASE \E i \in DOMAIN s : s[i].au = x.au
        BY <4>1 DEF WithInstance, s, x
      <4>2. CASE ~ \E i \in DOMAIN s : s[i].au = x.au
        <5>1. /\ Len(s) + 1 \in DOMAIN Append(s, x)
              /\ Append(s, x)[Len(s) + 1] = x
          BY <3>1 DEF s, x
        <5> QED
          BY <4>2, <5>1 DEF WithInstance, s, x
      <4> QED
        BY <4>1, <4>2
    <3>4. DOMAIN known \subseteq Nat
      BY <3>1 DEF WithInstance
    <3> QED
      BY <3>2, <3>3, <3>4 DEF InstanceId, Url
  <2>2. PICK ii \in get_instance_id(id) :
          proc' = [proc EXCEPT ![p].pc = IF ii = 0 THEN "again" ELSE "up",
                               ![p].ii = ii, ![p].uuid = Uuid(p)]
    BY <1>3 DEF InstanceAnswered, Learned, id
  <2> HIDE DEF id
  <2>3. InstanceArrives(p)
    BY <1>3 DEF InstanceAnswered
  <2>4. /\ ii \in Nat
        /\ wiped \/ ii = InstanceId(insts'[proc[p].sink], Instance(p))
    BY <2>1, <2>2, RegisterAssumption DEF id, Url, get_instance_id
  <2> QED
    BY <1>2, <2>2, <2>3, <2>4
<1>7. ASSUME Learned(p, 0)
      PROVE  \E pc \in {"again", "up"}, ii \in Nat :
               /\ proc' = [proc EXCEPT ![p].pc = pc, ![p].ii = ii, ![p].uuid = Uuid(p)]
               /\ (ii # 0 => pc = "up") /\ (ii = 0 \/ wiped)
  <2>1. PICK ii \in get_instance_id(0) :
          proc' = [proc EXCEPT ![p].pc = IF ii = 0 THEN "again" ELSE "up",
                               ![p].ii = ii, ![p].uuid = Uuid(p)]
    BY <1>7 DEF Learned
  <2>2. ii \in Nat /\ (ii = 0 \/ wiped)
    BY RegisterAssumption DEF get_instance_id
  <2> QED
    BY <2>1, <2>2
<1>4. CASE InstanceZero(p)
  <2>1. InstanceArrives(p) /\ Learned(p, 0)
    BY <1>4 DEF InstanceZero
  <2> QED
    BY <1>2, <1>7, <2>1
<1>8. ASSUME insts' = insts, NEW pc \in {"again", "up"}, NEW ii \in Nat,
             proc' = [proc EXCEPT ![p].pc = pc, ![p].ii = ii, ![p].uuid = Uuid(p)],
             ii # 0 => pc = "up", ii = 0 \/ wiped
      PROVE  RegInv'
  <2>1. [proc[p] EXCEPT !.pc = pc, !.ii = ii, !.uuid = Uuid(p)] \in Agent
    BY <1>1 DEF Agent, PC
  <2>2. /\ proc' \in [Process -> Agent]
        /\ proc'[p].start = proc[p].start /\ proc'[p].name = proc[p].name
        /\ proc'[p].ai = proc[p].ai /\ proc'[p].sink = proc[p].sink
        /\ proc'[p].uuid = proc[p].start /\ proc'[p].pc = pc /\ proc'[p].ii = ii
        /\ \A q \in Process \ {p} : proc'[q] = proc[q]
    BY <1>1, <1>8, <2>1 DEF RegInv, Shape, Agent
  <2>3. Shape' /\ Kept
    BY <1>1, <1>8, <2>2 DEF RegInv, Shape, Kept
  <2>4. Distinct' /\ Entries' /\ OneInstance'
    BY <1>1, <1>8, <2>2 DEF RegInv, Distinct, Entries, OneInstance, Known, Registering, At
  <2>5. Learnt(p)'
    BY <1>1, <1>8, <2>2 DEF RegInv, Learnt, Known, Registering, At
  <2>6. \A q \in Process : Learnt(q)'
    BY <2>2, <2>3, <2>5, LearntKept
  <2> QED
    BY <1>1, <2>3, <2>4, <2>6, CreditedKept DEF RegInv
<1>5. CASE InstanceFails(p)
  <2>1. proc' = [proc EXCEPT ![p].pc = "up", ![p].uuid = Uuid(p)]
    BY <1>5 DEF InstanceFails
  <2>2. proc' = [proc EXCEPT ![p].pc = "up", ![p].ii = 0, ![p].uuid = Uuid(p)]
    BY <1>1, <2>1 DEF RegInv, Shape, Agent
  <2>3. CASE InstanceArrives(p)
    BY <1>2, <2>2, <2>3
  <2>4. CASE insts' = insts
    BY <1>8, <2>2, <2>4
  <2> QED
    BY <1>5, <2>3, <2>4 DEF InstanceFails
<1>6. CASE InstanceUnanswered(p)
  <2>1. Learned(p, 0) /\ (InstanceArrives(p) \/ insts' = insts)
    BY <1>6 DEF InstanceUnanswered
  <2> QED
    BY <1>2, <1>7, <1>8, <2>1
<1> QED
  BY <1>3, <1>4, <1>5, <1>6
-----------------------------------------------------------------------------
LEMMA SendStep == ASSUME RegInv, NEW p \in Process, Send(p) PROVE RegInv'
<1> DEFINE s == proc[p].sink
           g == Segment(p)
<1>1. /\ At(p, "up") /\ s \in Server /\ UNCHANGED <<proc, apps, insts, starts, wiped>>
      /\ segments' = [segments EXCEPT ![s] = @ \cup {g}]
  BY DEF Send
<1>2. Learnt(p) /\ proc[p] \in Agent /\ proc[p].start \in 1 .. MaxStarts
  BY <1>1, RegisterAssumption DEF RegInv, Shape, Distinct, At, Agent
<1>3. g \in SegmentSet /\ Credited(s, g)
  BY <1>1, <1>2 DEF Segment, SegmentSet, Agent, Learnt, Known, Credited
<1> HIDE DEF g
<1>4. Shape'
  BY <1>1, <1>3 DEF RegInv, Shape
<1>5. Distinct' /\ Entries' /\ OneInstance' /\ (\A q \in Process : Learnt(q)')
  BY <1>1 DEF RegInv, Distinct, Entries, OneInstance, Learnt, Known, At
<1>6. \A t \in Server : \A h \in segments'[t] : Credited(t, h)'
  BY <1>1, <1>3 DEF RegInv, Shape, Credited
<1> QED
  BY <1>4, <1>5, <1>6 DEF RegInv

LEMMA NextRegInv == RegInv /\ [Next]_vars => RegInv'
<1> SUFFICES ASSUME RegInv, [Next]_vars PROVE RegInv'
  OBVIOUS
<1>1. CASE UNCHANGED vars
  BY <1>1 DEF vars, collectors, RegInv, Shape, Distinct, Entries, OneInstance,
              Learnt, Known, At, Credited
<1>2. ASSUME NEW p \in Process, Start(p) \/ Stop(p) \/ Registers(p) \/ Send(p)
      PROVE  RegInv'
  BY <1>2, StartStep, StopStep, DiscoverStep, ApplicationStep, InstanceStep, SendStep
     DEF Registers
<1> QED
  BY <1>1, <1>2 DEF Next

(* The strengthening holds of every behaviour of mo_span_pre_init_ctor. *)
THEOREM RegInvAlways == Spec => []RegInv
  BY InitRegInv, NextRegInv, PTL DEF Spec

(* The variables of the registration have their types.                     *)
THEOREM RegisterTypes == Spec => []TypeOK
<1>1. RegInv => TypeOK
  BY DEF RegInv, Shape, TypeOK, InstanceSet, SegmentSet
<1> QED
  BY <1>1, RegInvAlways, PTL

(***************************************************************************)
(* A collector credits every segment to the process that sent it, however  *)
(* many answers were lost: ids are asked and segments sent at one address. *)
(* (The instance id only where a freed node keeps its value.)              *)
(***************************************************************************)
THEOREM SegmentsAlwaysCredited == Spec => []SegmentsCredited
<1>1. RegInv => SegmentsCredited
  BY DEF RegInv, SegmentsCredited, Credited
<1> QED
  BY <1>1, RegInvAlways, PTL

(***************************************************************************)
(* A MINIT is one instance to all collectors, however often it asks.       *)
(***************************************************************************)
THEOREM AlwaysOneInstance == Spec => []OneInstance
<1>1. RegInv => OneInstance
  BY DEF RegInv
<1> QED
  BY <1>1, RegInvAlways, PTL
-----------------------------------------------------------------------------
(***************************************************************************)
(* The round robin is smooth for all weights.  What a recursion on the     *)
(* numbers computes needs induction: it comes from the well-foundedness of *)
(* < on the naturals, as a least number that is not in a set.              *)
(***************************************************************************)

(* Every set of numbers that has one has a least one.                      *)
LEMMA Least ==
  ASSUME NEW T, T \subseteq Nat, T # {}
  PROVE  \E x \in T : \A y \in T : x <= y
<1>1. PICK R : IsWellFoundedOn(R, Nat) /\ \A x, y \in Nat : <<y, x>> \in R <=> y < x
  <2>1. IsWellFoundedOn(OpToRel(<, Nat), Nat)
    BY NatLessThanWellFounded
  <2>2. \A x, y \in Nat : <<y, x>> \in OpToRel(<, Nat) <=> y < x
    BY DEF OpToRel
  <2> QED
    BY <2>1, <2>2
<1>2. \E x \in T : \A y \in T : ~(<<y, x>> \in R)
  BY <1>1, WFMin
<1>3. PICK x \in T : \A y \in T : ~(<<y, x>> \in R)
  BY <1>2
<1>4. ASSUME NEW y \in T PROVE x <= y
  <2>1. x \in Nat /\ y \in Nat
    OBVIOUS
  <2>2. ~(<<y, x>> \in R)
    BY <1>3
  <2>3. ~(y < x)
    BY <1>1, <2>1, <2>2
  <2> QED
    BY <2>1, <2>3
<1> QED
  BY <1>4

(* Induction up to a bound, for a set of numbers. *)
LEMMA UpTo ==
  ASSUME NEW N \in Nat, NEW G, 0 \in G,
         \A k \in 0 .. N : k # 0 /\ k - 1 \in G => k \in G
  PROVE  \A k \in 0 .. N : k \in G
<1>0. PICK B : B = {k \in 0 .. N : k \notin G}
  OBVIOUS
<1> SUFFICES ASSUME B # {} PROVE FALSE
  BY <1>0
<1>1. B \subseteq Nat
  BY <1>0
<1>2. PICK k \in B : \A m \in B : k <= m
  BY <1>1, Least
<1>3. k \in 0 .. N /\ k \notin G /\ k # 0
  BY <1>0
<1>4. k - 1 \in 0 .. N /\ k - 1 \notin B
  BY <1>2, <1>3
<1> QED
  BY <1>0, <1>3, <1>4

(***************************************************************************)
(* What recursion on the numbers up to N defines is there.                 *)
(***************************************************************************)
Steps(A) == [Nat -> [A -> A]]
Follows(g, N, A, a, F) ==
  g \in [0 .. N -> A] /\ g[0] = a /\ \A k \in 1 .. N : g[k] = F[k][g[k - 1]]

(* Each step may depend on the number and on the value before.             *)
LEMMA Recursion ==
  ASSUME NEW N \in Nat, NEW A, NEW a \in A, NEW F \in Steps(A)
  PROVE  \E g : Follows(g, N, A, a, F)
<1> DEFINE Is(g, m) == g[0] = a /\ \A k \in 1 .. m : g[k] = F[k][g[k - 1]]
           G == {m \in 0 .. N : \E g \in [0 .. m -> A] : Is(g, m)}
<1>1. 0 \in G
  <2>1. PICK g : g = [k \in 0 .. 0 |-> a]
    OBVIOUS
  <2>2. g \in [0 .. 0 -> A] /\ Is(g, 0)
    BY <2>1
  <2> QED
    BY <2>2
<1>2. ASSUME NEW m \in 0 .. N, m # 0, m - 1 \in G PROVE m \in G
  <2>1. PICK g \in [0 .. m - 1 -> A] : Is(g, m - 1)
    BY <1>2
  <2>2. PICK h : h = [k \in 0 .. m |-> IF k < m THEN g[k] ELSE F[m][g[m - 1]]]
    OBVIOUS
  <2>3. m \in Nat \ {0} /\ m - 1 \in 0 .. m - 1
    BY <1>2
  <2>4. F[m][g[m - 1]] \in A
    BY <2>1, <2>3 DEF Steps
  <2>5. h \in [0 .. m -> A] /\ h[0] = a
    BY <2>1, <2>2, <2>3, <2>4
  <2>6. ASSUME NEW k \in 1 .. m PROVE h[k] = F[k][h[k - 1]]
    <3>0. k - 1 \in 0 .. m - 1 /\ k \in 0 .. m /\ h[k - 1] = g[k - 1]
      BY <2>2, <2>3
    <3>1. CASE k # m
      <4>1. k \in 1 .. m - 1 /\ h[k] = g[k]
        BY <2>2, <2>3, <3>1
      <4>2. g[k] = F[k][g[k - 1]]
        BY <2>1, <4>1
      <4> QED
        BY <3>0, <4>1, <4>2
    <3>2. CASE k = m
      BY <2>2, <2>3, <3>0, <3>2
    <3> QED
      BY <3>1, <3>2
  <2>7. Is(h, m)
    BY <2>5, <2>6
  <2> QED
    BY <2>5, <2>7
<1> HIDE DEF G
<1>3. \A m \in 0 .. N : m \in G
  BY <1>1, <1>2, UpTo
<1>4. N \in G
  BY <1>3
<1> QED
  BY <1>4 DEF G, Follows

(* The sums the loop of getNextServerIndex goes through are integers, each *)
(* the one before and one more number.                                     *)
LEMMA SumsAre ==
  ASSUME NEW f \in Seq(Int)
  PROVE  /\ Sums(f) \in [0 .. Len(f) -> Int]
         /\ Sums(f)[0] = 0
         /\ \A n \in 1 .. Len(f) : Sums(f)[n] = Sums(f)[n - 1] + f[n]
<1>0. Len(f) \in Nat /\ 0 \in Int /\ \A n \in 1 .. Len(f) : f[n] \in Int
  OBVIOUS
<1>1. PICK F : F = [k \in Nat |-> [x \in Int |-> IF k \in 1 .. Len(f) THEN x + f[k] ELSE 0]]
  OBVIOUS
<1>2. F \in [Nat -> [Int -> Int]]
  BY <1>0, <1>1
<1>3. PICK g \in [0 .. Len(f) -> Int] :
        g[0] = 0 /\ \A k \in 1 .. Len(f) : g[k] = F[k][g[k - 1]]
  <2>1. F \in Steps(Int)
    BY <1>2, Zenon DEF Steps
  <2>2. PICK g : Follows(g, Len(f), Int, 0, F)
    BY <1>0, <2>1, Recursion
  <2> QED
    BY <2>2 DEF Follows
<1>4. ASSUME NEW k \in 1 .. Len(f) PROVE g[k] = g[k - 1] + f[k]
  <2>0. k \in Nat /\ k - 1 \in 0 .. Len(f)
    BY <1>0
  <2>1. g[k - 1] \in Int
    BY <1>3, <2>0
  <2> QED
    BY <1>1, <1>3, <2>0, <2>1
<1>5. g = [k \in 0 .. Len(f) |-> IF k = 0 THEN 0 ELSE g[k - 1] + f[k]]
  BY <1>0, <1>3, <1>4
<1>6. PICK s : s = Sums(f)
  OBVIOUS
<1>7. s = [k \in 0 .. Len(f) |-> IF k = 0 THEN 0 ELSE s[k - 1] + f[k]]
  BY <1>5, <1>6 DEF Sums
<1>8. \A k \in 0 .. Len(f) : s[k] = g[k]
  <2> DEFINE G == {k \in 0 .. Len(f) : s[k] = g[k]}
  <2>1. 0 \in G
    BY <1>0, <1>5, <1>7
  <2>2. \A k \in 0 .. Len(f) : k # 0 /\ k - 1 \in G => k \in G
    BY <1>5, <1>7
  <2> HIDE DEF G
  <2>3. \A k \in 0 .. Len(f) : k \in G
    BY <1>0, <2>1, <2>2, UpTo
  <2> QED
    BY <2>3 DEF G
<1>9. s = g
  BY <1>3, <1>7, <1>8
<1> QED
  BY <1>3, <1>4, <1>6, <1>9

(* The same, as one step.                                                  *)
LEMMA SumStep ==
  ASSUME NEW f \in Seq(Int), NEW k \in 0 .. Len(f), k # 0
  PROVE  /\ k \in 1 .. Len(f) /\ k - 1 \in 0 .. Len(f) /\ f[k] \in Int
         /\ Sums(f)[k - 1] \in Int /\ Sums(f)[k] = Sums(f)[k - 1] + f[k]
<1>1. Len(f) \in Nat
  OBVIOUS
<1>2. k \in 1 .. Len(f) /\ k - 1 \in 0 .. Len(f)
  BY <1>1
<1>3. f[k] \in Int
  BY <1>2
<1>4. Sums(f)[k - 1] \in Int
  BY <1>2, SumsAre
<1>5. Sums(f)[k] = Sums(f)[k - 1] + f[k]
  BY <1>2, SumsAre
<1> QED
  BY <1>2, <1>3, <1>4, <1>5

(* Arithmetic, stated where no list is in sight. *)
LEMMA Regroup ==
  ASSUME NEW a \in Int, NEW b \in Int, NEW x \in Int, NEW y \in Int
  PROVE  (a + b) + (x + y) = (a + x) + (b + y)
  OBVIOUS

LEMMA LessIsPlus ==
  ASSUME NEW x \in Int, NEW t \in Int PROVE x - t = x + (0 - t)
  OBVIOUS

(* The sum of two lists, number by number. *)
LEMMA SumAdd ==
  ASSUME NEW f \in Seq(Int), NEW g \in Seq(Int), NEW h \in Seq(Int),
         Len(g) = Len(f), Len(h) = Len(f), \A n \in 1 .. Len(f) : h[n] = f[n] + g[n]
  PROVE  AddedUp(h) = AddedUp(f) + AddedUp(g)
<1>1. PICK G : G = {n \in 0 .. Len(f) : Sums(h)[n] = Sums(f)[n] + Sums(g)[n]}
  OBVIOUS
<1>2. Len(f) \in Nat
  OBVIOUS
<1>3. 0 \in G
  BY <1>1, <1>2, SumsAre
<1>4. ASSUME NEW k \in 0 .. Len(f), k # 0, k - 1 \in G PROVE k \in G
  <2>1. Sums(h)[k - 1] = Sums(f)[k - 1] + Sums(g)[k - 1]
    BY <1>1, <1>4
  <2>2. /\ Sums(f)[k - 1] \in Int /\ Sums(f)[k] = Sums(f)[k - 1] + f[k]
        /\ f[k] \in Int /\ k \in 1 .. Len(f)
    BY <1>4, SumStep
  <2>3. /\ Sums(g)[k - 1] \in Int /\ Sums(g)[k] = Sums(g)[k - 1] + g[k]
        /\ g[k] \in Int
    BY <1>4, SumStep
  <2>4. Sums(h)[k] = Sums(h)[k - 1] + h[k]
    BY <1>4, SumStep
  <2>5. h[k] = f[k] + g[k]
    BY <2>2, Zenon
  <2>6. Sums(h)[k] = (Sums(f)[k - 1] + Sums(g)[k - 1]) + (f[k] + g[k])
    BY <2>1, <2>4, <2>5, Zenon
  <2>7. (Sums(f)[k - 1] + Sums(g)[k - 1]) + (f[k] + g[k])
          = (Sums(f)[k - 1] + f[k]) + (Sums(g)[k - 1] + g[k])
    <3>1. /\ Sums(f)[k - 1] \in Int /\ Sums(g)[k - 1] \in Int
          /\ f[k] \in Int /\ g[k] \in Int
      BY <2>2, <2>3
    <3> QED
      BY <3>1, Regroup, SMTT(30)
  <2>8. Sums(h)[k] = Sums(f)[k] + Sums(g)[k]
    BY <2>2, <2>3, <2>6, <2>7, Zenon
  <2> QED
    BY <1>1, <1>4, <2>8
<1>5. \A k \in 0 .. Len(f) : k \in G
  BY <1>2, <1>3, <1>4, UpTo
<1>6. Len(f) \in G
  BY <1>2, <1>5
<1> QED
  BY <1>1, <1>6 DEF AddedUp

(* A list that is nowhere higher adds up to no more, and to as much only if *)
(* it is the same list.                                                     *)
LEMMA SumBelow ==
  ASSUME NEW f \in Seq(Int), NEW g \in Seq(Int), Len(g) = Len(f),
         \A n \in 1 .. Len(f) : f[n] <= g[n]
  PROVE  /\ AddedUp(f) <= AddedUp(g)
         /\ AddedUp(f) = AddedUp(g) => \A n \in 1 .. Len(f) : f[n] = g[n]
<1>1. PICK G : G = {n \in 0 .. Len(f) :
                     /\ Sums(f)[n] <= Sums(g)[n]
                     /\ Sums(f)[n] = Sums(g)[n] => \A j \in 1 .. n : f[j] = g[j]}
  OBVIOUS
<1>2. Len(f) \in Nat
  OBVIOUS
<1>3. 0 \in G
  BY <1>1, <1>2, SumsAre
<1>4. ASSUME NEW k \in 0 .. Len(f), k # 0, k - 1 \in G PROVE k \in G
  <2>1. /\ Sums(f)[k - 1] <= Sums(g)[k - 1]
        /\ Sums(f)[k - 1] = Sums(g)[k - 1] => \A j \in 1 .. k - 1 : f[j] = g[j]
    BY <1>1, <1>4
  <2>2. /\ f[k] \in Int /\ g[k] \in Int /\ f[k] <= g[k]
        /\ Sums(f)[k - 1] \in Int /\ Sums(g)[k - 1] \in Int
        /\ Sums(f)[k] = Sums(f)[k - 1] + f[k] /\ Sums(g)[k] = Sums(g)[k - 1] + g[k]
    BY <1>4, SumStep
  <2>3. Sums(f)[k] <= Sums(g)[k]
    BY <2>1, <2>2
  <2>4. Sums(f)[k] = Sums(g)[k] =>
          f[k] = g[k] /\ Sums(f)[k - 1] = Sums(g)[k - 1]
    BY <2>1, <2>2
  <2>5. \A j \in 1 .. k : j \in 1 .. k - 1 \/ j = k
    BY <1>2
  <2> QED
    BY <1>1, <2>1, <2>3, <2>4, <2>5
<1>5. \A k \in 0 .. Len(f) : k \in G
  BY <1>2, <1>3, <1>4, UpTo
<1>6. Len(f) \in G
  BY <1>2, <1>5
<1> QED
  BY <1>1, <1>6 DEF AddedUp

(* A list with one number that is not 0. *)
LEMMA SumOne ==
  ASSUME NEW f \in Seq(Int), NEW i \in 1 .. Len(f),
         \A n \in 1 .. Len(f) : n # i => f[n] = 0
  PROVE  AddedUp(f) = f[i]
<1>1. PICK G : G = {n \in 0 .. Len(f) : Sums(f)[n] = IF i <= n THEN f[i] ELSE 0}
  OBVIOUS
<1>2. Len(f) \in Nat /\ i \in Nat /\ i <= Len(f) /\ i > 0 /\ f[i] \in Int
  OBVIOUS
<1>3. 0 \in G
  BY <1>1, <1>2, SumsAre
<1>4. ASSUME NEW k \in 0 .. Len(f), k # 0, k - 1 \in G PROVE k \in G
  <2>1. /\ Sums(f)[k - 1] = (IF i <= k - 1 THEN f[i] ELSE 0)
        /\ k \in 1 .. Len(f) /\ Sums(f)[k] = Sums(f)[k - 1] + f[k]
    BY <1>1, <1>4, SumStep
  <2>2. CASE k = i
    BY <1>1, <1>2, <2>1, <2>2
  <2>3. CASE k # i
    BY <1>1, <1>2, <2>1, <2>3
  <2> QED
    BY <2>2, <2>3
<1>5. \A k \in 0 .. Len(f) : k \in G
  BY <1>2, <1>3, <1>4, UpTo
<1>6. Len(f) \in G
  BY <1>2, <1>5
<1> QED
  BY <1>1, <1>2, <1>6 DEF AddedUp

(* A list of nothing but 0.                                                *)
LEMMA SumZero ==
  ASSUME NEW f \in Seq(Int), \A n \in 1 .. Len(f) : f[n] = 0
  PROVE  AddedUp(f) = 0
<1>1. AddedUp(f) \in Int
  BY SumsAre DEF AddedUp
<1>2. AddedUp(f) = AddedUp(f) + AddedUp(f)
  BY SumAdd
<1> QED
  BY <1>1, <1>2

(* One number of a list changes. *)
LEMMA SumChange ==
  ASSUME NEW f \in Seq(Int), NEW h \in Seq(Int), Len(h) = Len(f),
         NEW i \in 1 .. Len(f), NEW x \in Int,
         \A n \in 1 .. Len(f) : h[n] = IF n = i THEN f[n] + x ELSE f[n]
  PROVE  AddedUp(h) = AddedUp(f) + x
<1>1. PICK g : g = [n \in 1 .. Len(f) |-> IF n = i THEN x ELSE 0]
  OBVIOUS
<1>2. /\ g \in Seq(Int) /\ Len(g) = Len(f) /\ g[i] = x
      /\ \A n \in 1 .. Len(f) : n # i => g[n] = 0
  BY <1>1
<1>3. AddedUp(g) = x
  BY <1>2, SumOne
<1>4. \A n \in 1 .. Len(f) : h[n] = f[n] + g[n]
  BY <1>1
<1>5. AddedUp(h) = AddedUp(f) + AddedUp(g)
  BY <1>2, <1>4, SumAdd
<1> QED
  BY <1>3, <1>5

-----------------------------------------------------------------------------
(***************************************************************************)
(* A list of servers of these weights.                                     *)
(***************************************************************************)
Slot == [weight : Nat, cur_weight : Int]

ServerLists(w) ==
  {ss \in Seq(Slot) : Len(ss) = Len(w) /\ \A i \in 1 .. Len(w) : ss[i].weight = w[i]}

Weighting == {w \in Seq(Nat) : Len(w) > 0}

(* What is in such a list.                                                 *)
LEMMA ListsAre ==
  ASSUME NEW w \in Weighting, NEW ss \in ServerLists(w)
  PROVE  /\ ss \in Seq(Slot) /\ Len(ss) = Len(w) /\ Len(w) \in Nat \ {0}
         /\ DOMAIN ss = 1 .. Len(w) /\ w \in Seq(Nat) /\ w \in Seq(Int)
         /\ \A i \in 1 .. Len(w) :
              /\ ss[i] = [weight |-> w[i], cur_weight |-> ss[i].cur_weight]
              /\ ss[i].cur_weight \in Int /\ ss[i].weight = w[i] /\ w[i] \in Nat
<1>1. /\ ss \in Seq(Slot) /\ Len(ss) = Len(w)
      /\ \A i \in 1 .. Len(w) : ss[i].weight = w[i]
  BY DEF ServerLists
<1>2. w \in Seq(Nat) /\ Len(w) \in Nat \ {0}
  BY DEF Weighting
<1>3. \A i \in 1 .. Len(w) : ss[i] \in Slot /\ w[i] \in Nat
  BY <1>1, <1>2
<1>4. \A x \in Slot : x.cur_weight \in Int /\ x = [weight |-> x.weight, cur_weight |-> x.cur_weight]
  BY DEF Slot
<1>5. w \in Seq(Int)
  BY <1>2
<1>6. DOMAIN ss = 1 .. Len(w)
  BY <1>1
<1> QED
  BY <1>1, <1>2, <1>3, <1>4, <1>5, <1>6

(* Two lists of the same current weights are the same.                     *)
LEMMA SameList ==
  ASSUME NEW w \in Weighting, NEW ss \in ServerLists(w), NEW tt \in ServerLists(w),
         \A i \in 1 .. Len(w) : ss[i].cur_weight = tt[i].cur_weight
  PROVE  ss = tt
<1>1. ASSUME NEW i \in 1 .. Len(w) PROVE ss[i] = tt[i]
  <2>1. /\ ss[i] = [weight |-> w[i], cur_weight |-> ss[i].cur_weight]
        /\ tt[i] = [weight |-> w[i], cur_weight |-> tt[i].cur_weight]
    BY ListsAre
  <2>2. ss[i].cur_weight = tt[i].cur_weight
    OBVIOUS
  <2>3. PICK c : c = ss[i].cur_weight /\ c = tt[i].cur_weight
    BY <2>2
  <2> QED
    BY <2>1, <2>3
<1>2. /\ DOMAIN ss = 1 .. Len(w) /\ ss = [i \in DOMAIN ss |-> ss[i]]
      /\ DOMAIN tt = 1 .. Len(w) /\ tt = [i \in DOMAIN tt |-> tt[i]]
  <2>1. ss \in Seq(Slot) /\ tt \in Seq(Slot)
    BY ListsAre
  <2>2. DOMAIN ss = 1 .. Len(w) /\ DOMAIN tt = 1 .. Len(w)
    BY ListsAre
  <2> QED
    BY <2>1, <2>2
<1> QED
  BY <1>1, <1>2

(* initServers makes one, with all current weights 0.                      *)
LEMMA FreshList ==
  ASSUME NEW w \in Weighting
  PROVE  /\ initServers(w) \in ServerLists(w)
         /\ \A i \in 1 .. Len(w) : initServers(w)[i].cur_weight = 0
<1>1. w \in Seq(Nat) /\ Len(w) \in Nat /\ DOMAIN w = 1 .. Len(w)
  BY DEF Weighting
<1>2. PICK ss : ss = [i \in 1 .. Len(w) |-> [weight |-> w[i], cur_weight |-> 0]]
  OBVIOUS
<1>3. ss = initServers(w)
  BY <1>1, <1>2 DEF initServers
<1>4. \A i \in 1 .. Len(w) :
        ss[i] \in Slot /\ ss[i].weight = w[i] /\ ss[i].cur_weight = 0
  BY <1>1, <1>2 DEF Slot
<1>5. ss \in Seq(Slot) /\ Len(ss) = Len(w)
  BY <1>1, <1>2, <1>4
<1> QED
  BY <1>3, <1>4, <1>5 DEF ServerLists

(* Its weights and current weights, as lists of numbers.                   *)
LEMMA WeightsAre ==
  ASSUME NEW w \in Weighting, NEW ss \in ServerLists(w)
  PROVE  /\ Weights(ss) = w /\ Total(ss) = AddedUp(w) /\ AddedUp(w) \in Nat
         /\ CurWeights(ss) \in Seq(Int) /\ Len(CurWeights(ss)) = Len(w)
         /\ \A i \in 1 .. Len(w) : CurWeights(ss)[i] = ss[i].cur_weight
<1>1. /\ DOMAIN ss = 1 .. Len(w) /\ w \in Seq(Int) /\ Len(w) \in Nat \ {0}
      /\ \A i \in 1 .. Len(w) :
           ss[i].cur_weight \in Int /\ ss[i].weight = w[i] /\ w[i] \in Nat
  BY ListsAre
<1>2. Weights(ss) = w
  BY <1>1 DEF Weights
<1>3. PICK z : z = [i \in 1 .. Len(w) |-> 0]
  OBVIOUS
<1>4. z \in Seq(Int) /\ Len(z) = Len(w) /\ \A i \in 1 .. Len(w) : z[i] = 0
  BY <1>1, <1>3
<1>5. AddedUp(z) = 0 /\ AddedUp(z) <= AddedUp(w)
  <2>1. \A i \in 1 .. Len(w) : z[i] <= w[i]
    BY <1>1, <1>4
  <2>2. AddedUp(z) = 0
    BY <1>4, SumZero, Zenon
  <2>3. AddedUp(z) <= AddedUp(w)
    BY <1>1, <1>4, <2>1, SumBelow, Zenon
  <2> QED
    BY <2>2, <2>3
<1>6. AddedUp(w) \in Int
  BY <1>1, SumsAre DEF AddedUp
<1>7. PICK c : c = [i \in 1 .. Len(w) |-> ss[i].cur_weight]
  OBVIOUS
<1>8. c = CurWeights(ss) /\ c \in Seq(Int) /\ Len(c) = Len(w)
      /\ \A i \in 1 .. Len(w) : c[i] = ss[i].cur_weight
  BY <1>1, <1>7 DEF CurWeights
<1>9. AddedUp(w) \in Nat
  BY <1>5, <1>6
<1> QED
  BY <1>2, <1>8, <1>9 DEF Total

(* The loop raises each current weight by the weight.                      *)
LEMMA RaisedList ==
  ASSUME NEW w \in Weighting, NEW ss \in ServerLists(w)
  PROVE  /\ Raised(ss) \in ServerLists(w)
         /\ \A i \in 1 .. Len(w) :
              Raised(ss)[i].cur_weight = ss[i].cur_weight + w[i]
<1>1. /\ DOMAIN ss = 1 .. Len(w) /\ Len(w) \in Nat
      /\ \A i \in 1 .. Len(w) :
           /\ ss[i] = [weight |-> w[i], cur_weight |-> ss[i].cur_weight]
           /\ ss[i].cur_weight \in Int /\ w[i] \in Nat /\ ss[i].weight = w[i]
  BY ListsAre
<1>2. PICK r : r = Raised(ss)
  OBVIOUS
<1>3. /\ DOMAIN r = 1 .. Len(w)
      /\ \A i \in 1 .. Len(w) :
           r[i] = [weight |-> w[i], cur_weight |-> ss[i].cur_weight + w[i]]
  <2>1. r = [i \in 1 .. Len(w) |-> [ss[i] EXCEPT !.cur_weight = @ + ss[i].weight]]
    BY <1>1, <1>2 DEF Raised
  <2>2. ASSUME NEW i \in 1 .. Len(w)
        PROVE  r[i] = [weight |-> w[i], cur_weight |-> ss[i].cur_weight + w[i]]
    <3>1. r[i] = [ss[i] EXCEPT !.cur_weight = @ + ss[i].weight]
      BY <2>1
    <3>2. PICK c, x : c = ss[i].cur_weight /\ x = w[i] /\ ss[i] = [weight |-> x, cur_weight |-> c]
      BY <1>1
    <3> QED
      BY <3>1, <3>2
  <2> QED
    BY <2>1, <2>2
<1>4. \A i \in 1 .. Len(w) :
        /\ r[i] \in Slot /\ r[i].weight = w[i]
        /\ r[i].cur_weight = ss[i].cur_weight + w[i]
  BY <1>1, <1>3 DEF Slot
<1>5. r = [i \in 1 .. Len(w) |-> r[i]]
  BY <1>2, <1>3 DEF Raised
<1>6. r \in Seq(Slot) /\ Len(r) = Len(w)
  BY <1>1, <1>4, <1>5
<1> QED
  BY <1>2, <1>4, <1>6 DEF ServerLists

(* There is a first of the highest.                                        *)
LEMMA FirstOfHighest ==
  ASSUME NEW N \in Nat \ {0}, NEW h \in [1 .. N -> Int]
  PROVE  \E i \in 1 .. N : \A j \in 1 .. N : h[j] <= h[i] /\ (j < i => h[j] < h[i])
<1> DEFINE Best(i, n) == \A j \in 1 .. n : h[j] <= h[i] /\ (j < i => h[j] < h[i])
           G == {n \in 0 .. N - 1 : \E i \in 1 .. n + 1 : Best(i, n + 1)}
<1>1. 0 \in G
  <2>1. Best(1, 0 + 1)
    OBVIOUS
  <2>2. 0 \in 0 .. N - 1 /\ 1 \in 1 .. 0 + 1
    OBVIOUS
  <2> QED
    BY <2>1, <2>2
<1>2. ASSUME NEW k \in 0 .. N - 1, k # 0, k - 1 \in G PROVE k \in G
  <2>1. k \in Nat \ {0} /\ k - 1 + 1 = k /\ k + 1 \in 1 .. N
    BY <1>2
  <2>2. PICK i \in 1 .. k : Best(i, k)
    BY <1>2, <2>1
  <2>3. i \in Nat /\ h[i] \in Int /\ h[k + 1] \in Int /\ \A j \in 1 .. k : h[j] \in Int
    BY <2>1
  <2>4. \A j \in 1 .. k + 1 : j \in 1 .. k \/ j = k + 1
    BY <2>1
  <2>5. CASE h[i] < h[k + 1]
    <3>1. \A j \in 1 .. k : h[j] < h[k + 1]
      BY <2>2, <2>3, <2>5
    <3>2. Best(k + 1, k + 1)
      BY <2>3, <2>4, <3>1
    <3>3. k + 1 \in 1 .. k + 1
      BY <2>1
    <3> QED
      BY <3>2, <3>3
  <2>6. CASE ~(h[i] < h[k + 1])
    <3>1. h[k + 1] <= h[i] /\ ~(k + 1 < i)
      BY <2>1, <2>3, <2>6
    <3>2. i \in 1 .. k + 1
      BY <2>1
    <3>3. Best(i, k + 1)
      BY <2>2, <2>4, <3>1
    <3> QED
      BY <3>2, <3>3
  <2> QED
    BY <2>5, <2>6
<1> HIDE DEF G
<1>3. \A k \in 0 .. N - 1 : k \in G
  <2>1. N - 1 \in Nat
    OBVIOUS
  <2> QED
    BY <1>1, <1>2, <2>1, UpTo
<1>4. N - 1 \in 0 .. N - 1 /\ N - 1 + 1 = N
  OBVIOUS
<1>5. \E i \in 1 .. N : Best(i, N)
  BY <1>3, <1>4 DEF G
<1> QED
  BY <1>5

(***************************************************************************)
(* One call names one of the highest after they are raised.                *)
(***************************************************************************)
LEMMA NextIndex ==
  ASSUME NEW w \in Weighting, NEW ss \in ServerLists(w)
  PROVE  /\ getNextServerIndex(ss) \in 1 .. Len(w)
         /\ \A j \in 1 .. Len(w) :
              Raised(ss)[j].cur_weight <= Raised(ss)[getNextServerIndex(ss)].cur_weight
<1> DEFINE First(i) == \A j \in DOMAIN ss : LET r == Raised(ss) IN
                         /\ r[j].cur_weight <= r[i].cur_weight
                         /\ j < i => r[j].cur_weight < r[i].cur_weight
<1>1. /\ DOMAIN ss = 1 .. Len(w) /\ Len(w) \in Nat \ {0}
      /\ \A i \in 1 .. Len(w) : Raised(ss)[i].cur_weight \in Int
  BY RaisedList, ListsAre
<1>2. PICK h \in [1 .. Len(w) -> Int] :
        \A i \in 1 .. Len(w) : h[i] = Raised(ss)[i].cur_weight
  <2>1. [i \in 1 .. Len(w) |-> Raised(ss)[i].cur_weight] \in [1 .. Len(w) -> Int]
    BY <1>1
  <2> QED
    BY <2>1
<1>3. \E i \in DOMAIN ss : First(i)
  <2>1. PICK i \in 1 .. Len(w) :
          \A j \in 1 .. Len(w) : h[j] <= h[i] /\ (j < i => h[j] < h[i])
    BY <1>1, <1>2, FirstOfHighest
  <2> QED
    BY <1>1, <1>2, <2>1
<1>4. getNextServerIndex(ss) = CHOOSE i \in DOMAIN ss : First(i)
  BY DEF getNextServerIndex
<1>5. getNextServerIndex(ss) \in DOMAIN ss /\ First(getNextServerIndex(ss))
  <2> HIDE DEF First
  <2> QED
    BY <1>3, <1>4
<1> QED
  BY <1>1, <1>5

(* What a call leaves behind. *)
LEMMA AfterList ==
  ASSUME NEW w \in Weighting, NEW ss \in ServerLists(w)
  PROVE  /\ AfterNext(ss) \in ServerLists(w)
         /\ \A i \in 1 .. Len(w) :
              AfterNext(ss)[i].cur_weight =
                IF i = getNextServerIndex(ss)
                THEN ss[i].cur_weight + w[i] - AddedUp(w)
                ELSE ss[i].cur_weight + w[i]
<1>1. PICK r \in ServerLists(w) :
        r = Raised(ss) /\ \A i \in 1 .. Len(w) : r[i].cur_weight = ss[i].cur_weight + w[i]
  BY RaisedList
<1>2. PICK n \in 1 .. Len(w) : n = getNextServerIndex(ss)
  BY NextIndex
<1>3. PICK t \in Nat : t = Total(ss) /\ t = AddedUp(w)
  BY WeightsAre
<1>4. /\ DOMAIN r = 1 .. Len(w) /\ Len(w) \in Nat \ {0} /\ r \in Seq(Slot) /\ Len(r) = Len(w)
      /\ \A i \in 1 .. Len(w) :
           /\ r[i] = [weight |-> w[i], cur_weight |-> r[i].cur_weight]
           /\ r[i].cur_weight \in Int /\ r[i].weight = w[i] /\ w[i] \in Nat
  BY ListsAre
<1>5. PICK after : after = AfterNext(ss)
  OBVIOUS
<1>6. after = [r EXCEPT ![n] = [r[n] EXCEPT !.cur_weight = r[n].cur_weight - t]]
  BY <1>1, <1>2, <1>3, <1>5 DEF AfterNext
<1>7. PICK one : one = [r[n] EXCEPT !.cur_weight = r[n].cur_weight - t]
  OBVIOUS
<1>8. one = [weight |-> w[n], cur_weight |-> r[n].cur_weight - t]
  <2>1. PICK c, x : c = r[n].cur_weight /\ x = w[n] /\ r[n] = [weight |-> x, cur_weight |-> c]
    BY <1>4
  <2> QED
    BY <1>7, <2>1
<1>9. one \in Slot
  BY <1>3, <1>4, <1>8 DEF Slot
<1>10. after \in Seq(Slot) /\ Len(after) = Len(w)
  BY <1>4, <1>6, <1>7, <1>9
<1>11. \A i \in 1 .. Len(w) : after[i] = IF i = n THEN one ELSE r[i]
  BY <1>4, <1>6, <1>7
<1>12. \A i \in 1 .. Len(w) :
         /\ after[i].weight = w[i]
         /\ after[i].cur_weight = IF i = n THEN r[i].cur_weight - t ELSE r[i].cur_weight
  BY <1>4, <1>8, <1>11
<1>13. after \in ServerLists(w)
  BY <1>10, <1>12 DEF ServerLists
<1>14. ASSUME NEW i \in 1 .. Len(w)
       PROVE  after[i].cur_weight = IF i = n THEN ss[i].cur_weight + w[i] - t
                                    ELSE ss[i].cur_weight + w[i]
  <2>1. r[i].cur_weight = ss[i].cur_weight + w[i]
    BY <1>1
  <2>2. after[i].cur_weight = IF i = n THEN r[i].cur_weight - t ELSE r[i].cur_weight
    BY <1>12
  <2>3. CASE i = n
    <3>1. after[i].cur_weight = r[i].cur_weight - t
      BY <2>2, <2>3
    <3>2. PICK x \in Int, y \in Int : x = ss[i].cur_weight /\ y = w[i]
      <4>1. \A j \in 1 .. Len(w) : ss[j].cur_weight \in Int /\ w[j] \in Nat
        BY ListsAre
      <4> QED
        BY <4>1
    <3>3. after[i].cur_weight = x + y - t
      <4>1. r[i].cur_weight = x + y
        BY <2>1, <3>2
      <4> QED
        BY <3>1, <4>1
    <3> QED
      BY <2>3, <3>2, <3>3
  <2>4. CASE i # n
    BY <2>1, <2>2, <2>4
  <2> QED
    BY <2>3, <2>4
<1> QED
  BY <1>2, <1>3, <1>5, <1>13, <1>14

(***************************************************************************)
(* The lists after 0, 1, 2... calls.                                       *)
(***************************************************************************)
LEMMA CallsAre ==
  ASSUME NEW w \in Weighting, NEW N \in Nat
  PROVE  /\ \A k \in 0 .. N : Calls(w, N)[k] \in ServerLists(w)
         /\ Calls(w, N)[0] = initServers(w)
         /\ \A k \in 1 .. N : Calls(w, N)[k] = AfterNext(Calls(w, N)[k - 1])
<1>1. PICK F : F = [k \in Nat |-> [ss \in ServerLists(w) |-> AfterNext(ss)]]
  OBVIOUS
<1>2. F \in Steps(ServerLists(w))
  <2>1. [ss \in ServerLists(w) |-> AfterNext(ss)] \in [ServerLists(w) -> ServerLists(w)]
    BY AfterList
  <2>2. F \in [Nat -> [ServerLists(w) -> ServerLists(w)]]
    BY <1>1, <2>1, Zenon
  <2> QED
    BY <2>2, Zenon DEF Steps
<1>3. initServers(w) \in ServerLists(w)
  BY FreshList
<1>4. PICK g \in [0 .. N -> ServerLists(w)] :
        g[0] = initServers(w) /\ \A k \in 1 .. N : g[k] = F[k][g[k - 1]]
  <2>1. PICK g : Follows(g, N, ServerLists(w), initServers(w), F)
    BY <1>2, <1>3, Recursion
  <2> QED
    BY <2>1 DEF Follows
<1>5. ASSUME NEW k \in 1 .. N PROVE g[k] = AfterNext(g[k - 1])
  <2>1. k \in Nat /\ k - 1 \in 0 .. N
    OBVIOUS
  <2>2. g[k - 1] \in ServerLists(w)
    BY <1>4, <2>1
  <2> QED
    BY <1>1, <1>4, <2>1, <2>2
<1>6. g = [k \in 0 .. N |-> IF k = 0 THEN initServers(w) ELSE AfterNext(g[k - 1])]
  BY <1>4, <1>5
<1>7. PICK s : s = Calls(w, N)
  OBVIOUS
<1>8. s = [k \in 0 .. N |-> IF k = 0 THEN initServers(w) ELSE AfterNext(s[k - 1])]
  BY <1>6, <1>7 DEF Calls
<1>9. \A k \in 0 .. N : s[k] = g[k]
  <2> DEFINE G == {k \in 0 .. N : s[k] = g[k]}
  <2>1. 0 \in G
    BY <1>4, <1>8
  <2>2. \A k \in 0 .. N : k # 0 /\ k - 1 \in G => k \in G
    BY <1>6, <1>8
  <2> HIDE DEF G
  <2>3. \A k \in 0 .. N : k \in G
    BY <2>1, <2>2, UpTo
  <2> QED
    BY <2>3 DEF G
<1>10. \A k \in 0 .. N : k \in 1 .. N => k - 1 \in 0 .. N
  OBVIOUS
<1> QED
  BY <1>4, <1>5, <1>7, <1>9, <1>10

(***************************************************************************)
(* A call leaves the current weights adding up to 0 when they did before,  *)
(* and the server it names was raised above 0.                             *)
(***************************************************************************)
LEMMA OneCall ==
  ASSUME NEW w \in Weighting, NEW ss \in ServerLists(w), AddedUp(CurWeights(ss)) = 0
  PROVE  /\ AddedUp(CurWeights(AfterNext(ss))) = 0
         /\ AddedUp(w) > 0 =>
              LET i == getNextServerIndex(ss) IN ss[i].cur_weight + w[i] > 0
<1>1. PICK c \in Seq(Int) :
        /\ c = CurWeights(ss) /\ Len(c) = Len(w)
        /\ \A i \in 1 .. Len(w) : c[i] = ss[i].cur_weight
  BY WeightsAre
<1>2. PICK r \in Seq(Int) :
        /\ r = CurWeights(Raised(ss)) /\ Len(r) = Len(w)
        /\ \A i \in 1 .. Len(w) : r[i] = Raised(ss)[i].cur_weight
  BY RaisedList, WeightsAre
<1>3. PICK a \in Seq(Int) :
        /\ a = CurWeights(AfterNext(ss)) /\ Len(a) = Len(w)
        /\ \A i \in 1 .. Len(w) : a[i] = AfterNext(ss)[i].cur_weight
  BY AfterList, WeightsAre
<1>4. PICK n \in 1 .. Len(w) : n = getNextServerIndex(ss)
  BY NextIndex
<1>5. PICK t \in Nat : t = AddedUp(w)
  BY WeightsAre
<1>6. w \in Seq(Int) /\ Len(w) \in Nat \ {0} /\ \A i \in 1 .. Len(w) : w[i] \in Nat
  BY ListsAre
<1>7. ASSUME NEW i \in 1 .. Len(w) PROVE r[i] = c[i] + w[i]
  <2>1. Raised(ss)[i].cur_weight = ss[i].cur_weight + w[i]
    BY RaisedList
  <2>2. r[i] = Raised(ss)[i].cur_weight /\ c[i] = ss[i].cur_weight
    BY <1>1, <1>2
  <2> QED
    BY <2>1, <2>2, Zenon
<1>8. AddedUp(r) = t
  <2>1. Len(w) = Len(c) /\ Len(r) = Len(c) /\ \A i \in 1 .. Len(c) : r[i] = c[i] + w[i]
    BY <1>1, <1>2, <1>7, Zenon
  <2>2. AddedUp(r) = AddedUp(c) + AddedUp(w)
    BY <1>6, <2>1, SumAdd
  <2> QED
    BY <1>1, <1>5, <2>2
<1>9. \A i \in 1 .. Len(w) : c[i] \in Int /\ r[i] \in Int
  BY <1>1, <1>2
<1>10. ASSUME NEW i \in 1 .. Len(w) PROVE a[i] = IF i = n THEN r[i] + (0 - t) ELSE r[i]
  <2>1. AfterNext(ss)[i].cur_weight =
          IF i = getNextServerIndex(ss)
          THEN ss[i].cur_weight + w[i] - AddedUp(w) ELSE ss[i].cur_weight + w[i]
    BY AfterList
  <2>2. a[i] = AfterNext(ss)[i].cur_weight /\ c[i] = ss[i].cur_weight
    BY <1>1, <1>3
  <2>3. a[i] = IF i = n THEN c[i] + w[i] - t ELSE c[i] + w[i]
    BY <1>4, <1>5, <2>1, <2>2, Zenon
  <2>4. c[i] + w[i] = r[i] /\ r[i] \in Int /\ c[i] \in Int /\ w[i] \in Int
    BY <1>6, <1>7, <1>9
  <2>5. CASE i = n
    <3>1. a[i] = c[i] + w[i] - t /\ t \in Int
      BY <1>5, <2>3, <2>5
    <3>2. a[i] = r[i] - t
      BY <2>4, <3>1, SMTT(30)
    <3>3. r[i] - t = r[i] + (0 - t)
      BY <2>4, <3>1, LessIsPlus, Zenon
    <3> QED
      BY <2>5, <3>2, <3>3, Zenon
  <2>6. CASE i # n
    BY <2>3, <2>4, <2>6
  <2> QED
    BY <2>5, <2>6
<1>11. AddedUp(a) = 0
  <2>1. /\ 0 - t \in Int /\ Len(a) = Len(r) /\ n \in 1 .. Len(r)
        /\ \A i \in 1 .. Len(r) : a[i] = IF i = n THEN r[i] + (0 - t) ELSE r[i]
    BY <1>2, <1>3, <1>10
  <2>2. AddedUp(a) = AddedUp(r) + (0 - t)
    BY <2>1, SumChange
  <2> QED
    BY <1>5, <1>8, <2>2
<1>12. t > 0 => r[n] > 0
  <2> SUFFICES ASSUME t > 0, ~(r[n] > 0) PROVE FALSE
    OBVIOUS
  <2>1. \A i \in 1 .. Len(w) : r[i] <= r[n]
    BY <1>2, <1>4, NextIndex
  <2>2. PICK z : z = [i \in 1 .. Len(w) |-> 0]
    OBVIOUS
  <2>3. /\ z \in Seq(Int) /\ Len(z) = Len(w) /\ Len(r) = Len(w)
        /\ \A i \in 1 .. Len(z) : z[i] = 0
    BY <1>2, <1>6, <2>2
  <2>4. ASSUME NEW i \in 1 .. Len(r) PROVE r[i] <= z[i]
    <3>1. i \in 1 .. Len(w) /\ z[i] = 0
      BY <2>3
    <3>2. r[i] \in Int /\ r[n] \in Int /\ r[i] <= r[n]
      BY <1>4, <1>9, <2>1, <3>1
    <3> QED
      BY <3>1, <3>2
  <2>5. AddedUp(r) <= AddedUp(z) /\ AddedUp(z) = 0
    BY <1>2, <2>3, <2>4, SumZero, SumBelow
  <2> QED
    BY <1>5, <1>8, <2>5
<1> QED
  BY <1>1, <1>3, <1>4, <1>5, <1>7, <1>11, <1>12

(***************************************************************************)
(* How often number i is among the first k of the choices c.               *)
(***************************************************************************)
Picked(c, i, k) == Cardinality({j \in 0 .. k - 1 : c[j] = i})

(* Nothing is picked before the first call...                              *)
LEMMA PickedNone ==
  ASSUME NEW c, NEW i
  PROVE  Picked(c, i, 0) = 0
<1>1. {j \in 0 .. 0 - 1 : c[j] = i} = {}
  OBVIOUS
<1> QED
  BY <1>1, FS_EmptySet DEF Picked

(* ... and each call counts for the one it picked.                         *)
LEMMA PickedStep ==
  ASSUME NEW c, NEW i, NEW k \in Nat \ {0}
  PROVE  /\ Picked(c, i, k - 1) \in Nat /\ Picked(c, i, k) \in Nat
         /\ Picked(c, i, k) = IF c[k - 1] = i THEN Picked(c, i, k - 1) + 1
                              ELSE Picked(c, i, k - 1)
<1>1. PICK A : A = {j \in 0 .. k - 1 - 1 : c[j] = i}
  OBVIOUS
<1>2. IsFiniteSet(A)
  <2>1. IsFiniteSet(0 .. k - 1 - 1)
    BY FS_Interval
  <2>2. A \subseteq 0 .. k - 1 - 1
    BY <1>1
  <2> QED
    BY <2>1, <2>2, FS_Subset
<1>3. Cardinality(A) \in Nat
  BY <1>2, FS_CardinalityType
<1>4. k - 1 \notin A
  BY <1>1
<1>5. {j \in 0 .. k - 1 : c[j] = i} = IF c[k - 1] = i THEN A \cup {k - 1} ELSE A
  BY <1>1
<1>6. Cardinality(A \cup {k - 1}) = Cardinality(A) + 1
  BY <1>2, <1>4, FS_AddElement
<1>7. Picked(c, i, k - 1) = Cardinality(A)
  BY <1>1 DEF Picked
<1>8. Picked(c, i, k) = Cardinality(IF c[k - 1] = i THEN A \cup {k - 1} ELSE A)
  BY <1>5, Zenon DEF Picked
<1>9. CASE c[k - 1] = i
  BY <1>3, <1>6, <1>7, <1>8, <1>9
<1>10. CASE c[k - 1] # i
  BY <1>3, <1>7, <1>8, <1>10
<1> QED
  BY <1>9, <1>10

(***************************************************************************)
(* Where the calls stand after k of them: each current weight is what the  *)
(* server has been raised by less what it has been lowered by, a server is *)
(* never as low as the total below 0, and every call has picked a server.  *)
(***************************************************************************)
Standing(w, ss, c, k) ==
  /\ AddedUp(CurWeights(ss[k])) = 0
  /\ AddedUp([i \in 1 .. Len(w) |-> Picked(c, i, k)]) = k
  /\ \A i \in 1 .. Len(w) :
       /\ ss[k][i].cur_weight = k * w[i] - AddedUp(w) * Picked(c, i, k)
       /\ AddedUp(w) > 0 => ss[k][i].cur_weight > 0 - AddedUp(w)
       /\ Picked(c, i, k) \in Nat

(* It stands so before the first call...                                   *)
LEMMA StandingFirst ==
  ASSUME NEW w \in Weighting, NEW ss, NEW c, ss[0] = initServers(w)
  PROVE  Standing(w, ss, c, 0)
<1>1. PICK s \in ServerLists(w) : s = ss[0] /\ \A i \in 1 .. Len(w) : s[i].cur_weight = 0
  BY FreshList
<1>2. /\ Len(w) \in Nat \ {0} /\ AddedUp(w) \in Nat
      /\ \A i \in 1 .. Len(w) : w[i] \in Nat
  BY <1>1, ListsAre, WeightsAre
<1>3. AddedUp(CurWeights(s)) = 0
  <2>1. PICK u \in Seq(Int) :
          /\ u = CurWeights(s) /\ Len(u) = Len(w)
          /\ \A i \in 1 .. Len(w) : u[i] = s[i].cur_weight
    BY WeightsAre
  <2>2. \A i \in 1 .. Len(u) : u[i] = 0
    BY <1>1, <2>1
  <2> QED
    BY <2>1, <2>2, SumZero
<1>4. \A i \in 1 .. Len(w) : Picked(c, i, 0) = 0
  BY PickedNone
<1>5. AddedUp([i \in 1 .. Len(w) |-> Picked(c, i, 0)]) = 0
  <2>1. PICK p : p = [i \in 1 .. Len(w) |-> Picked(c, i, 0)]
    OBVIOUS
  <2>2. p \in Seq(Int) /\ Len(p) = Len(w) /\ \A i \in 1 .. Len(p) : p[i] = 0
    BY <1>2, <1>4, <2>1
  <2> QED
    BY <2>1, <2>2, SumZero
<1>6. ASSUME NEW i \in 1 .. Len(w)
      PROVE  /\ s[i].cur_weight = 0 * w[i] - AddedUp(w) * Picked(c, i, 0)
             /\ AddedUp(w) > 0 => s[i].cur_weight > 0 - AddedUp(w)
             /\ Picked(c, i, 0) \in Nat
  <2>1. PICK x \in Nat, t \in Nat : x = w[i] /\ t = AddedUp(w)
    BY <1>2
  <2>2. 0 * x - t * 0 = 0
    BY <2>1
  <2>3. s[i].cur_weight = 0 /\ Picked(c, i, 0) = 0
    BY <1>1, <1>4
  <2> QED
    BY <2>1, <2>2, <2>3
<1> QED
  BY <1>1, <1>3, <1>5, <1>6 DEF Standing

(* (A product and one more.)                                               *)
LEMMA OneMore ==
  ASSUME NEW a \in Int, NEW b \in Int
  PROVE  a * b = (a - 1) * b + b /\ a * (b + 1) = a * b + a
<1>1. a * b = (a - 1) * b + b
  OBVIOUS
<1>2. a * (b + 1) = a * b + a
  OBVIOUS
<1> QED
  BY <1>1, <1>2

(* ... and one call keeps it: what it names was above 0 when the total is  *)
(* taken off, so it stays above the total below 0.                         *)
LEMMA StandingNext ==
  ASSUME NEW w \in Weighting, NEW ss, NEW c, NEW k \in Nat \ {0},
         ss[k - 1] \in ServerLists(w), ss[k] = AfterNext(ss[k - 1]),
         c[k - 1] = getNextServerIndex(ss[k - 1]), Standing(w, ss, c, k - 1)
  PROVE  Standing(w, ss, c, k)
<1>1. PICK s \in ServerLists(w) : s = ss[k - 1]
  OBVIOUS
<1>2. PICK t \in Nat : t = AddedUp(w)
  BY WeightsAre
<1>3. PICK n \in 1 .. Len(w) : n = getNextServerIndex(s)
  BY NextIndex
<1>4. /\ Len(w) \in Nat \ {0}
      /\ \A i \in 1 .. Len(w) : s[i].cur_weight \in Int /\ w[i] \in Nat
  BY ListsAre
<1>5. /\ AddedUp(CurWeights(s)) = 0
      /\ AddedUp([i \in 1 .. Len(w) |-> Picked(c, i, k - 1)]) = k - 1
      /\ \A i \in 1 .. Len(w) :
           /\ s[i].cur_weight = (k - 1) * w[i] - t * Picked(c, i, k - 1)
           /\ t > 0 => s[i].cur_weight > 0 - t
           /\ Picked(c, i, k - 1) \in Nat
  BY <1>1, <1>2 DEF Standing
<1>6. \A i \in 1 .. Len(w) :
        /\ Picked(c, i, k - 1) \in Nat /\ Picked(c, i, k) \in Nat
        /\ Picked(c, i, k) = IF i = n THEN Picked(c, i, k - 1) + 1 ELSE Picked(c, i, k - 1)
  BY <1>1, <1>3, PickedStep
<1>7. \A i \in 1 .. Len(w) :
        ss[k][i].cur_weight = IF i = n THEN s[i].cur_weight + w[i] - t
                              ELSE s[i].cur_weight + w[i]
  BY <1>1, <1>2, <1>3, AfterList
<1>8. AddedUp(CurWeights(ss[k])) = 0 /\ (t > 0 => s[n].cur_weight + w[n] > 0)
  BY <1>1, <1>2, <1>3, <1>5, OneCall
<1>9. AddedUp([i \in 1 .. Len(w) |-> Picked(c, i, k)]) = k
  <2>1. PICK p, q : /\ p = [i \in 1 .. Len(w) |-> Picked(c, i, k - 1)]
                    /\ q = [i \in 1 .. Len(w) |-> Picked(c, i, k)]
    OBVIOUS
  <2>2. p \in Seq(Int) /\ q \in Seq(Int) /\ Len(p) = Len(w) /\ Len(q) = Len(w)
    BY <1>4, <1>6, <2>1
  <2>3. \A i \in 1 .. Len(p) : q[i] = IF i = n THEN p[i] + 1 ELSE p[i]
    BY <1>6, <2>1, <2>2
  <2>4. n \in 1 .. Len(p) /\ Len(q) = Len(p)
    BY <2>2
  <2>5. AddedUp(q) = AddedUp(p) + 1
    BY <2>2, <2>3, <2>4, SumChange
  <2> QED
    BY <1>5, <2>1, <2>5
<1>10. ASSUME NEW i \in 1 .. Len(w)
       PROVE  /\ ss[k][i].cur_weight = k * w[i] - t * Picked(c, i, k)
              /\ t > 0 => ss[k][i].cur_weight > 0 - t
              /\ Picked(c, i, k) \in Nat
  <2>1. PICK x \in Int, y \in Int, p \in Int :
          x = s[i].cur_weight /\ y = w[i] /\ p = Picked(c, i, k - 1) /\ y >= 0
    <3>1. s[i].cur_weight \in Int /\ w[i] \in Nat /\ Picked(c, i, k - 1) \in Nat
      BY <1>4, <1>6
    <3> QED
      BY <3>1
  <2>2. /\ x = (k - 1) * y - t * p /\ (t > 0 => x > 0 - t)
        /\ Picked(c, i, k) = IF i = n THEN p + 1 ELSE p
        /\ Picked(c, i, k) \in Nat
        /\ ss[k][i].cur_weight = IF i = n THEN x + y - t ELSE x + y
    BY <1>5, <1>6, <1>7, <2>1
  <2>3. PICK a \in Int, b \in Int : a = (k - 1) * y /\ b = t * p
    <3>1. (k - 1) * y \in Int /\ t * p \in Int
      OBVIOUS
    <3> QED
      BY <3>1
  <2>4. k * y = a + y /\ t * (p + 1) = b + t
    BY <2>3, OneMore
  <2>5. CASE i = n
    <3>1. t > 0 => x + y > 0
      BY <1>8, <2>1, <2>5
    <3>2. ss[k][i].cur_weight = x + y - t /\ Picked(c, i, k) = p + 1
      BY <2>2, <2>5
    <3>3. x + y - t = k * y - t * (p + 1)
      <4>1. x = a - b
        BY <2>2, <2>3
      <4>2. x + y - t = (a + y) - (b + t)
        BY <4>1
      <4> QED
        BY <2>4, <4>2
    <3>4. t > 0 => x + y - t > 0 - t
      BY <2>1, <3>1
    <3>5. ss[k][i].cur_weight = k * y - t * Picked(c, i, k)
      BY <3>2, <3>3, Zenon
    <3>6. t > 0 => ss[k][i].cur_weight > 0 - t
      BY <3>2, <3>4, Zenon
    <3> QED
      BY <2>1, <2>2, <3>5, <3>6, Zenon
  <2>6. CASE i # n
    <3>1. ss[k][i].cur_weight = x + y /\ Picked(c, i, k) = p
      BY <2>2, <2>6
    <3>2. x + y = k * y - t * p
      <4>1. x = a - b
        BY <2>2, <2>3
      <4>2. x + y = (a + y) - b
        BY <4>1
      <4> QED
        BY <2>3, <2>4, <4>2
    <3>3. t > 0 => x + y > 0 - t
      <4>1. (t > 0 => x > 0 - t) /\ y >= 0
        BY <2>1, <2>2, Zenon
      <4> QED
        BY <4>1
    <3>4. ss[k][i].cur_weight = k * y - t * Picked(c, i, k)
      BY <3>1, <3>2, Zenon
    <3>5. t > 0 => ss[k][i].cur_weight > 0 - t
      BY <3>1, <3>3, Zenon
    <3> QED
      BY <2>1, <2>2, <3>4, <3>5, Zenon
  <2> QED
    BY <2>5, <2>6
<1> QED
  BY <1>2, <1>8, <1>9, <1>10 DEF Standing

(* After as many calls as the total, every server has had its weight. *)
LEMMA StandingLast ==
  ASSUME NEW w \in Weighting, NEW ss, NEW c, Standing(w, ss, c, AddedUp(w))
  PROVE  \A i \in 1 .. Len(w) :
           Picked(c, i, AddedUp(w)) = w[i] /\ ss[AddedUp(w)][i].cur_weight = 0
<1>1. PICK t \in Nat : t = AddedUp(w)
  BY FreshList, WeightsAre
<1>2. w \in Seq(Int) /\ Len(w) \in Nat \ {0} /\ \A i \in 1 .. Len(w) : w[i] \in Nat
  BY FreshList, ListsAre
<1>3. PICK p : p = [i \in 1 .. Len(w) |-> Picked(c, i, t)]
  OBVIOUS
<1>4. /\ AddedUp(p) = t
      /\ \A i \in 1 .. Len(w) :
           /\ p[i] \in Nat /\ p[i] = Picked(c, i, t)
           /\ ss[t][i].cur_weight = t * w[i] - t * p[i]
           /\ t > 0 => ss[t][i].cur_weight > 0 - t
  BY <1>1, <1>3 DEF Standing
<1>5. p \in Seq(Int) /\ Len(p) = Len(w)
  BY <1>2, <1>3, <1>4
<1>6. \A i \in 1 .. Len(w) : p[i] = w[i]
  <2>1. CASE t > 0
    <3>1. ASSUME NEW i \in 1 .. Len(p) PROVE p[i] <= w[i]
      <4>1. PICK x \in Nat, y \in Nat : x = p[i] /\ y = w[i]
        BY <1>2, <1>4, <1>5
      <4>2. t * y - t * x > 0 - t
        <5>1. /\ ss[t][i].cur_weight = t * w[i] - t * p[i]
              /\ ss[t][i].cur_weight > 0 - t
          BY <1>4, <1>5, <2>1
        <5> QED
          BY <4>1, <5>1
      <4>3. x <= y
        <5> SUFFICES ASSUME ~(x <= y) PROVE FALSE
          OBVIOUS
        <5>1. PICK d \in Nat : x = y + 1 + d
          <6>1. x - y - 1 \in Nat /\ x = y + 1 + (x - y - 1)
            OBVIOUS
          <6> QED
            BY <6>1
        <5>2. t * x = t * y + t + t * d /\ t * d >= 0 /\ t * d \in Int /\ t * y \in Int
          BY <5>1
        <5> QED
          BY <4>2, <5>2
      <4> QED
        BY <4>1, <4>3
    <3>2. AddedUp(p) = AddedUp(w) /\ Len(w) = Len(p)
      BY <1>1, <1>4, <1>5
    <3> QED
      BY <1>2, <1>5, <3>1, <3>2, SumBelow
  <2>2. CASE t = 0
    <3>1. PICK z : z = [i \in 1 .. Len(w) |-> 0]
      OBVIOUS
    <3>2. z \in Seq(Int) /\ Len(z) = Len(w) /\ \A i \in 1 .. Len(z) : z[i] = 0
      BY <1>2, <3>1
    <3>3. AddedUp(z) = 0
      BY <3>2, SumZero
    <3>4. \A i \in 1 .. Len(z) : z[i] <= w[i] /\ z[i] <= p[i]
      BY <1>2, <1>4, <3>2
    <3>5. \A i \in 1 .. Len(z) : z[i] = w[i]
      <4>1. Len(w) = Len(z) /\ AddedUp(z) = AddedUp(w)
        BY <1>1, <2>2, <3>2, <3>3
      <4> QED
        BY <1>2, <3>2, <3>4, <4>1, SumBelow
    <3>6. \A i \in 1 .. Len(z) : z[i] = p[i]
      <4>1. Len(p) = Len(z) /\ AddedUp(z) = AddedUp(p)
        BY <1>4, <1>5, <2>2, <3>2, <3>3
      <4> QED
        BY <1>5, <3>2, <3>4, <4>1, SumBelow
    <3> QED
      BY <3>2, <3>5, <3>6
  <2> QED
    BY <2>1, <2>2
<1>7. ASSUME NEW i \in 1 .. Len(w) PROVE ss[t][i].cur_weight = 0
  <2>1. PICK x \in Nat : x = w[i] /\ x = p[i]
    BY <1>2, <1>6
  <2>2. ss[t][i].cur_weight = t * w[i] - t * p[i]
    BY <1>4
  <2>3. t * x - t * x = 0
    OBVIOUS
  <2> QED
    BY <2>1, <2>2, <2>3
<1> QED
  BY <1>1, <1>4, <1>6, <1>7

(***************************************************************************)
(* The smooth weighted round robin, for every list of weights: after as    *)
(* many calls of getNextServerIndex as the weights add up to, the current  *)
(* weights are back where they started and every server was named as often *)
(* as its weight; and they add up to 0 after each of the calls.            *)
(***************************************************************************)
THEOREM EveryWeighting ==
  ASSUME NEW w \in Weighting
  PROVE  Smooth(w)
<1>1. /\ initServers(w) \in ServerLists(w) /\ Total(initServers(w)) = AddedUp(w)
      /\ AddedUp(w) \in Nat /\ DOMAIN w = 1 .. Len(w)
      /\ \A i \in 1 .. Len(w) : initServers(w)[i].cur_weight = 0
  <2>1. w \in Seq(Nat)
    BY DEF Weighting
  <2> QED
    BY <2>1, FreshList, WeightsAre
<1>2. PICK t \in Nat : t = AddedUp(w)
  BY <1>1
<1>3. PICK ss : ss = Calls(w, t)
  OBVIOUS
<1>4. /\ \A k \in 0 .. t : ss[k] \in ServerLists(w)
      /\ ss[0] = initServers(w)
      /\ \A k \in 1 .. t : ss[k] = AfterNext(ss[k - 1])
  BY <1>3, CallsAre
<1>5. PICK c : c = [k \in 0 .. t |-> getNextServerIndex(ss[k])]
  OBVIOUS
<1>6. \A k \in 0 .. t : Standing(w, ss, c, k)
  <2>1. PICK G : G = {k \in 0 .. t : Standing(w, ss, c, k)}
    OBVIOUS
  <2>2. 0 \in G
    BY <1>4, <2>1, StandingFirst
  <2>3. ASSUME NEW k \in 0 .. t, k # 0, k - 1 \in G PROVE k \in G
    <3>1. k \in Nat \ {0} /\ k \in 1 .. t /\ k - 1 \in 0 .. t
      BY <2>3
    <3>2. c[k - 1] = getNextServerIndex(ss[k - 1])
      BY <1>5, <3>1
    <3>3. ss[k - 1] \in ServerLists(w) /\ ss[k] = AfterNext(ss[k - 1])
      BY <1>4, <3>1
    <3>4. Standing(w, ss, c, k - 1)
      BY <2>1, <2>3
    <3> QED
      BY <2>1, <3>1, <3>2, <3>3, <3>4, StandingNext
  <2>4. \A k \in 0 .. t : k \in G
    BY <2>2, <2>3, UpTo
  <2> QED
    BY <2>1, <2>4
<1>7. \A i \in 1 .. Len(w) : Picked(c, i, t) = w[i] /\ ss[t][i].cur_weight = 0
  <2>1. Standing(w, ss, c, t)
    BY <1>6
  <2> QED
    BY <1>2, <2>1, StandingLast
<1>8. ss[t] = initServers(w)
  <2>1. ss[t] \in ServerLists(w)
    BY <1>4
  <2>2. \A i \in 1 .. Len(w) : ss[t][i].cur_weight = initServers(w)[i].cur_weight
    BY <1>1, <1>7
  <2> QED
    BY <1>1, <2>1, <2>2, SameList
<1>9. \A k \in 0 .. t : AddedUp(CurWeights(ss[k])) = 0
  BY <1>6 DEF Standing
<1>10. ASSUME NEW i \in DOMAIN w
       PROVE  Cardinality({k \in 0 .. t - 1 : getNextServerIndex(ss[k]) = i}) = w[i]
  <2>1. {k \in 0 .. t - 1 : getNextServerIndex(ss[k]) = i} = {k \in 0 .. t - 1 : c[k] = i}
    BY <1>5
  <2>2. Picked(c, i, t) = w[i]
    BY <1>1, <1>7
  <2> QED
    BY <2>1, <2>2 DEF Picked
<1> QED
  BY <1>1, <1>2, <1>3, <1>8, <1>9, <1>10 DEF Smooth

(* SmoothRoundRobin holds in every state: the weightings it lists for the  *)
(* run (up to four servers) are some of those of EveryWeighting.           *)
THEOREM AlwaysSmooth == Spec => []SmoothRoundRobin
<1>1. ASSUME NEW w \in Weightings PROVE Smooth(w)
  <2>1. PICK n \in 1 .. 4 : w \in [1 .. n -> 1 .. 3]
    BY DEF Weightings
  <2>2. w \in Seq(Nat) /\ Len(w) = n
    BY <2>1
  <2>3. w \in Weighting
    BY <2>2 DEF Weighting
  <2> QED
    BY <2>3, EveryWeighting
<1>2. SmoothRoundRobin
  BY <1>1 DEF SmoothRoundRobin
<1>3. SmoothRoundRobin'
  BY <1>1 DEF SmoothRoundRobin
<1> QED
  BY <1>2, <1>3, PTL DEF Spec
=============================================================================
