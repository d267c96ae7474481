---------------------------- MODULE MoltenShmProofs ----------------------------
(***************************************************************************)
(* Proofs that a process that runs loses no slot but in the two ways that  *)
(* SlotsReady names, that the types hold and that the lock is owned by who *)
(* is inside, for any number of processes, slots, starts and faults.       *)
(***************************************************************************)
EXTENDS MoltenShm, FiniteSetTheorems, TLAPS

(* Where a CLI process may be that attached nothing. *)
Unmapped == {"running", "lock_again", "leave"}

(* What the proof needs of the types: attach_num may be any integer.       *)
Shape ==
  /\ key \in Seg \cup {None}
  /\ segs \in [Seg -> [ready : BOOLEAN, attach_num : Int, slots : [Slots -> Slot]]]
  /\ cli \subseteq Proc /\ pc \in [Proc -> PC]
  /\ shm_id \in [Proc -> Seg \cup {None}]
  /\ mapped \in [Proc -> BOOLEAN]
  /\ \A p \in Proc :
       /\ pc[p] = "none" => shm_id[p] = None
       /\ mapped[p] => shm_id[p] # None
       /\ shm_id[p] = None => \/ pc[p] \in {"none", "attach"}
                              \/ p \in cli /\ pc[p] \in Unmapped
  /\ num \in [Proc -> Int]
  /\ slot \in [Proc -> 0 .. NumSlots]

(* An initialised slot is filled, or somebody fills it, or was killed then, *)
(* or it was created while a destructor was clearing it.                    *)
InitFilled ==
  \A s \in Seg, i \in Slots : segs[s].slots[i].init =>
    \/ segs[s].slots[i].filled \/ Filling(s, i)
    \/ <<s, i>> \in torn \cup raced

(* A slot that a destructor clears was created since, or it is unused.      *)
ClearingUnused ==
  \A s \in Seg, i \in Slots :
    Clearing(s, i) /\ segs[s].slots[i].init => <<s, i>> \in raced

Ready(s, i) == segs[s].slots[i].init \/ <<s, i>> \in raced

(* The part of mo_shm_ctor before the first slot. *)
BeforeSlots == {"none", "attach", "open", "unlink", "lock", "header", "read",
                "write", "unlock"}
InSlots == {"test", "mark", "fill", "running"}
AtSlot == {"mark", "fill", "unmark", "wipe"}

(* The slots below slot[p] are ready in the segment of process p. *)
SlotsBehind(p) ==
  /\ pc[p] \in BeforeSlots => slot[p] = 0
  /\ pc[p] \in AtSlot => slot[p] < NumSlots
  /\ pc[p] = "fill" => Ready(shm_id[p], slot[p])
  /\ p \notin cli =>
       /\ pc[p] = "running" => slot[p] = NumSlots
       /\ pc[p] \in InSlots =>
            \A i \in Slots : i < slot[p] => Ready(shm_id[p], i)

SlotsInv ==
  Shape /\ InitFilled /\ ClearingUnused /\ \A p \in Proc : SlotsBehind(p)

-----------------------------------------------------------------------------
(* There is always a segment that no process refers to. *)
LEMMA SegmentLeft ==
  ASSUME Shape, key = None
  PROVE  /\ (CHOOSE s \in Seg : Reusable(s)) \in Seg
         /\ Reusable(CHOOSE s \in Seg : Reusable(s))
<1> DEFINE used == {shm_id[p] : p \in Proc}
           ids == [p \in Proc |-> shm_id[p]]
<1>1. IsFiniteSet(Proc) /\ IsFiniteSet(Seg) /\ Cardinality(Seg) > Cardinality(Proc)
  BY ShmAssumption
<1>2. ids \in Surjection(Proc, used)
  BY DEF Surjection
<1>3. IsFiniteSet(used) /\ Cardinality(used) <= Cardinality(Proc)
  BY <1>1, <1>2, FS_Surjection
<1>4. \E s \in Seg : s \notin used
  <2> SUFFICES ASSUME Seg \subseteq used PROVE FALSE
    OBVIOUS
  <2>1. Cardinality(Seg) <= Cardinality(used)
    BY <1>3, FS_Subset
  <2> QED
    BY <1>1, <1>3, <2>1, FS_CardinalityType
<1>5. None \notin Seg
  BY ShmAssumption
<1>6. \E s \in Seg : Reusable(s)
  BY <1>4, <1>5 DEF Reusable, Freed, Attached
<1> QED
  BY <1>6

-----------------------------------------------------------------------------
LEMMA InvInit == Init => SlotsInv
<1> SUFFICES ASSUME Init PROVE SlotsInv
  OBVIOUS
<1>1. NumSlots \in Nat /\ None \notin Seg
  BY ShmAssumption
<1>2. NewSegment \in [ready : BOOLEAN, attach_num : Int, slots : [Slots -> Slot]]
  BY DEF NewSegment, Slot, EmptySlot
<1>3. Shape
  BY <1>1, <1>2 DEF Init, Shape, PC
<1>4. InitFilled /\ ClearingUnused
  BY DEF Init, InitFilled, ClearingUnused, NewSegment, EmptySlot
<1>5. ASSUME NEW p \in Proc PROVE SlotsBehind(p)
  BY <1>1 DEF SlotsBehind, Init, InSlots, AtSlot
<1> QED
  BY <1>3, <1>4, <1>5 DEF SlotsInv

(***************************************************************************)
(* A step of process p leaves the others where they are, and takes away no *)
(* slot of a segment that a process refers to.                             *)
(***************************************************************************)
OnlyMoves(p) ==
  \A q \in Proc \ {p} :
    /\ pc'[q] = pc[q] /\ slot'[q] = slot[q] /\ shm_id'[q] = shm_id[q]
    /\ q \in cli' <=> q \in cli

ReadyKept ==
  \A s \in Seg, i \in Slots :
    (\E q \in Proc : shm_id[q] = s) /\ Ready(s, i) => Ready(s, i)'

LEMMA OthersBehind ==
  ASSUME SlotsInv, NEW p \in Proc, OnlyMoves(p), ReadyKept
  PROVE  \A q \in Proc \ {p} : SlotsBehind(q)'
<1> SUFFICES ASSUME NEW q \in Proc \ {p} PROVE SlotsBehind(q)'
  OBVIOUS
<1>1. SlotsBehind(q) /\ Shape /\ NumSlots \in Nat
  BY ShmAssumption DEF SlotsInv
<1>2. /\ pc'[q] = pc[q] /\ slot'[q] = slot[q] /\ shm_id'[q] = shm_id[q]
      /\ q \in cli' <=> q \in cli
  BY DEF OnlyMoves
<1>3. ASSUME pc[q] \in InSlots, q \notin cli \/ pc[q] = "fill" PROVE shm_id[q] \in Seg
  BY <1>1, <1>3, ShmAssumption DEF Shape, InSlots, Unmapped
<1>4. pc[q] = "fill" => slot[q] \in Slots
  BY <1>1 DEF Shape, Slots, SlotsBehind, AtSlot
<1>5. ASSUME NEW s \in Seg, shm_id[q] = s, NEW i \in Slots, Ready(s, i)
      PROVE  Ready(s, i)'
  BY <1>5 DEF ReadyKept
<1>6. pc[q] = "fill" => Ready(shm_id[q], slot[q])'
  <2> SUFFICES ASSUME pc[q] = "fill" PROVE Ready(shm_id[q], slot[q])'
    OBVIOUS
  <2>1. Ready(shm_id[q], slot[q]) /\ shm_id[q] \in Seg /\ slot[q] \in Slots
    BY <1>1, <1>3, <1>4 DEF SlotsBehind, InSlots
  <2>2. \A t \in Seg, j \in Slots : t = shm_id[q] /\ j = slot[q] => Ready(t, j)'
    BY <1>5, <2>1
  <2> QED
    BY <1>2, <2>1, <2>2 DEF Ready
<1>7. ASSUME q \notin cli, pc[q] \in InSlots, NEW i \in Slots, i < slot[q]
      PROVE  Ready(shm_id[q], i)'
  <2>1. Ready(shm_id[q], i) /\ shm_id[q] \in Seg
    BY <1>1, <1>3, <1>7 DEF SlotsBehind
  <2>2. \A t \in Seg : t = shm_id[q] => Ready(t, i)'
    BY <1>5, <2>1
  <2> QED
    BY <1>2, <2>1, <2>2 DEF Ready
<1> QED
  BY <1>1, <1>2, <1>6, <1>7 DEF SlotsBehind

(***************************************************************************)
(* Most steps move one process and touch no slot.                          *)
(***************************************************************************)
SlotsSame ==
  /\ \A s \in Seg : segs'[s].slots = segs[s].slots
  /\ UNCHANGED <<shm_id, cli, torn, raced>>

(* What a step that leaves the slots has to show of the process it moves.  *)
LEMMA MoveStep ==
  ASSUME SlotsInv, NEW p \in Proc, NEW b, pc' = [pc EXCEPT ![p] = b],
         NEW n \in 0 .. NumSlots, slot' = [slot EXCEPT ![p] = n],
         SlotsSame, Shape', SlotsBehind(p)',
         pc[p] # "fill",
         b \in {"unmark", "wipe"} => ~segs[shm_id[p]].slots[n].init
  PROVE  SlotsInv'
<1>0. Shape /\ InitFilled /\ ClearingUnused /\ NumSlots \in Nat
  BY ShmAssumption DEF SlotsInv
<1>1. OnlyMoves(p) /\ ReadyKept
  BY <1>0 DEF OnlyMoves, ReadyKept, Ready, SlotsSame, Shape
<1>2. \A q \in Proc \ {p} : SlotsBehind(q)'
  BY <1>1, OthersBehind
<1>3. InitFilled'
  <2>1. ASSUME NEW s, NEW i, Filling(s, i) PROVE Filling(s, i)'
    BY <1>0, <2>1 DEF Filling, SlotsSame, Shape
  <2> QED
    BY <1>0, <2>1 DEF InitFilled, SlotsSame
<1>4. ClearingUnused'
  <2> SUFFICES ASSUME NEW s \in Seg, NEW i \in Slots, Clearing(s, i)',
                      segs[s].slots[i].init
               PROVE  <<s, i>> \in raced
    BY DEF ClearingUnused, SlotsSame
  <2>1. PICK q \in Proc : pc'[q] \in {"unmark", "wipe"} /\ shm_id[q] = s /\ slot'[q] = i
    BY DEF Clearing, SlotsSame
  <2>2. q # p
    BY <1>0, <2>1 DEF Shape
  <2>3. Clearing(s, i)
    BY <1>0, <2>1, <2>2 DEF Clearing, Shape
  <2> QED
    BY <1>0, <2>3 DEF ClearingUnused
<1> QED
  BY <1>2, <1>3, <1>4 DEF SlotsInv

LEMMA PlainStep ==
  ASSUME SlotsInv, NEW p \in Proc, NEW b, pc' = [pc EXCEPT ![p] = b], SlotsSame, Shape',
         UNCHANGED slot, pc[p] # "fill",
         b \in BeforeSlots => pc[p] \in BeforeSlots,
         b # "fill", b \in AtSlot => slot[p] < NumSlots,
         b = "running" /\ p \notin cli => slot[p] = NumSlots,
         b \in InSlots => pc[p] \in InSlots \cup BeforeSlots,
         b \in {"unmark", "wipe"} => ~segs[shm_id[p]].slots[slot[p]].init
  PROVE  SlotsInv'
<1>0. Shape /\ SlotsBehind(p) /\ NumSlots \in Nat
  BY ShmAssumption DEF SlotsInv
<1>1. SlotsBehind(p)'
  <2>1. pc'[p] = b
    BY <1>0 DEF Shape
  <2>2. ASSUME p \notin cli, b \in InSlots, NEW i \in Slots, i < slot[p]
        PROVE  Ready(shm_id[p], i)'
    <3>1. pc[p] \in InSlots
      BY <1>0, <2>2 DEF SlotsBehind, Slots
    <3>2. shm_id[p] \in Seg
      BY <1>0, <2>2, <3>1 DEF Shape, InSlots, Unmapped
    <3> QED
      BY <1>0, <2>2, <3>1, <3>2 DEF SlotsBehind, SlotsSame, Ready
  <2> QED
    BY <1>0, <2>1, <2>2 DEF SlotsBehind, SlotsSame
<1>2. slot' = [slot EXCEPT ![p] = slot[p]] /\ slot[p] \in 0 .. NumSlots
  BY <1>0 DEF Shape
<1> QED
  BY <1>1, <1>2, MoveStep

Settles(p) ==
  \/ Attach(p) \/ OpenLock(p) \/ OpenFails(p) \/ UnlinkLock(p) \/ Lock(p)
  \/ ReadNum(p) \/ Unlock(p) \/ Stop(p) \/ LockAgain(p)
  \/ Detach(p) \/ Stat(p) \/ Remove(p)

LEMMA SettlesStep == ASSUME SlotsInv, NEW p \in Proc, Settles(p) PROVE SlotsInv'
<1>0. Shape /\ InitFilled /\ SlotsBehind(p) /\ NumSlots \in Nat
  BY ShmAssumption DEF SlotsInv
<1>1. SlotsSame /\ segs' = segs /\ slot' = slot
  BY DEF Settles, SlotsSame, Attach, OpenLock, OpenFails, UnlinkLock, Lock,
         ReadNum, Unlock, Stop, LockAgain, Detach, Stat, Remove, locals, history
<1>2. key' \in {key, None} /\ num' \in [Proc -> Int]
  <2>1. CASE ReadNum(p)
    <3>1. shm_id[p] \in Seg
      BY <1>0, <2>1, ShmAssumption DEF ReadNum, Goto, Shape, Unmapped
    <3> QED
      BY <1>0, <2>1, <3>1 DEF ReadNum, Shape
  <2>2. CASE Remove(p)
    BY <1>0, <2>2 DEF Remove, Shape, locals
  <2>3. CASE key' = key /\ num' = num
    BY <1>0, <2>3 DEF Shape
  <2> QED
    BY <2>1, <2>2, <2>3 DEF Settles, Attach, OpenLock, OpenFails, UnlinkLock, Lock,
       Unlock, Stop, LockAgain, Detach, Stat, locals
<1>3. \E b \in PC \ {"none"} :
        /\ pc' = [pc EXCEPT ![p] = b] /\ pc[p] \notin {"none", "fill"}
        /\ b \in BeforeSlots => pc[p] \in BeforeSlots
        /\ b \notin AtSlot
        /\ b = "running" => p \in cli
        /\ shm_id[p] = None => p \in cli /\ b \in Unmapped
        /\ b \in InSlots => pc[p] \in InSlots \cup BeforeSlots
  BY <1>0 DEF Settles, Goto, Attach, OpenLock, OpenFails, UnlinkLock, Lock,
     ReadNum, Unlock, Stop, LockAgain, Detach, Stat, Remove, Shape, Unmapped,
     AfterHeader, BeforeSlots, InSlots, AtSlot, PC, Ctor, Dtor
<1>4. PICK b \in PC \ {"none"} :
        /\ pc' = [pc EXCEPT ![p] = b] /\ pc[p] \notin {"none", "fill"}
        /\ b \in BeforeSlots => pc[p] \in BeforeSlots
        /\ b \notin AtSlot
        /\ b = "running" => p \in cli
        /\ shm_id[p] = None => p \in cli /\ b \in Unmapped
        /\ b \in InSlots => pc[p] \in InSlots \cup BeforeSlots
  BY <1>3
<1>5. mapped' \in [Proc -> BOOLEAN] /\ \A q \in Proc : mapped'[q] => shm_id[q] # None
  <2>1. CASE Attach(p)
    BY <1>0, <2>1 DEF Attach, Shape
  <2>2. CASE Detach(p)
    BY <1>0, <2>2 DEF Detach, Shape
  <2>3. CASE mapped' = mapped
    BY <1>0, <2>3 DEF Shape
  <2> QED
    BY <2>1, <2>2, <2>3 DEF Settles, OpenLock, OpenFails, UnlinkLock, Lock, ReadNum,
       Unlock, Stop, LockAgain, Stat, Remove, locals
<1>6. Shape'
  <2>1. \A q \in Proc : pc'[q] = IF q = p THEN b ELSE pc[q]
    BY <1>0, <1>4 DEF Shape
  <2> QED
    BY <1>0, <1>1, <1>2, <1>4, <1>5, <2>1 DEF Shape, SlotsSame
<1> QED
  BY <1>1, <1>4, <1>6, PlainStep DEF AtSlot

(* The steps that change the header of the segment, and it alone.          *)
LEMMA HeaderStep ==
  ASSUME SlotsInv, NEW p \in Proc, InitHeader(p) \/ WriteNum(p) \/ Leave(p) \/ ReleaseHeader(p)
  PROVE  SlotsInv'
<1>0. Shape /\ SlotsBehind(p) /\ None \notin Seg /\ NumSlots \in Nat
  BY ShmAssumption DEF SlotsInv
<1>1. /\ pc[p] \in {"header", "write", "leave", "release"} /\ shm_id[p] # None
      /\ \E b \in {"read", "unlock", "release", "detach"} : pc' = [pc EXCEPT ![p] = b]
  BY <1>0 DEF InitHeader, WriteNum, Leave, ReleaseHeader, Goto, Shape, Unmapped
<1>2. PICK b \in {"read", "unlock", "release", "detach"} : pc' = [pc EXCEPT ![p] = b]
  BY <1>1
<1>3. shm_id[p] \in Seg
  BY <1>0, <1>1 DEF Shape
<1>4. /\ segs' \in [Seg -> [ready : BOOLEAN, attach_num : Int, slots : [Slots -> Slot]]]
      /\ \A s \in Seg : segs'[s].slots = segs[s].slots
  <2>1. ASSUME NEW r \in BOOLEAN, segs' = [segs EXCEPT ![shm_id[p]].ready = r]
        PROVE  /\ segs' \in [Seg -> [ready : BOOLEAN, attach_num : Int,
                                      slots : [Slots -> Slot]]]
               /\ \A s \in Seg : segs'[s].slots = segs[s].slots
    BY <1>0, <1>3, <2>1 DEF Shape
  <2>2. ASSUME NEW n \in Int, segs' = [segs EXCEPT ![shm_id[p]].attach_num = n]
        PROVE  /\ segs' \in [Seg -> [ready : BOOLEAN, attach_num : Int,
                                      slots : [Slots -> Slot]]]
               /\ \A s \in Seg : segs'[s].slots = segs[s].slots
    BY <1>0, <1>3, <2>2 DEF Shape
  <2>3. segs[shm_id[p]].attach_num \in Int /\ num[p] \in Int
    BY <1>0, <1>3 DEF Shape
  <2>4. CASE InitHeader(p) \/ ReleaseHeader(p)
    BY <2>1, <2>4 DEF InitHeader, ReleaseHeader
  <2>5. CASE WriteNum(p)
    <3>1. num[p] + 1 \in Int
      BY <2>3
    <3>2. segs' = [segs EXCEPT ![shm_id[p]].attach_num = num[p] + 1]
      BY <2>5 DEF WriteNum
    <3> QED
      BY <2>2, <3>1, <3>2
  <2>6. CASE Leave(p)
    <3>1. segs[shm_id[p]].attach_num - 1 \in Int
      BY <2>3
    <3>2. segs' = [segs EXCEPT ![shm_id[p]].attach_num = segs[shm_id[p]].attach_num - 1]
      BY <2>6 DEF Leave, Left
    <3> QED
      BY <2>2, <3>1, <3>2
  <2> QED
    BY <2>4, <2>5, <2>6
<1>5. SlotsSame /\ key' = key /\ mapped' = mapped /\ num' \in [Proc -> Int]
  <2>1. UNCHANGED <<key, shm_id, cli, mapped, torn, raced>>
    BY DEF InitHeader, WriteNum, Leave, ReleaseHeader, locals, history
  <2>2. num' \in [Proc -> Int]
    BY <1>0 DEF InitHeader, WriteNum, Leave, ReleaseHeader, locals, Shape
  <2> QED
    BY <1>0, <1>3, <1>4, <2>1, <2>2 DEF SlotsSame, Shape
<1>6. slot' = [slot EXCEPT ![p] = 0] /\ 0 \in 0 .. NumSlots
  BY <1>0 DEF InitHeader, WriteNum, Leave, ReleaseHeader, Goto, locals, SlotsBehind,
     BeforeSlots, Shape
<1>7. Shape'
  BY <1>0, <1>1, <1>2, <1>4, <1>5, <1>6 DEF Shape, SlotsSame, PC, Ctor, Dtor
<1>8. SlotsBehind(p)'
  BY <1>0, <1>2, <1>6 DEF SlotsBehind, Shape, InSlots, AtSlot
<1> QED
  BY <1>1, <1>2, <1>5, <1>6, <1>7, <1>8, MoveStep

(* A process finds a slot initialised and goes on to the next.             *)
LEMMA TestSlotStep == ASSUME SlotsInv, NEW p \in Proc, TestSlot(p) PROVE SlotsInv'
<1>0. Shape /\ SlotsBehind(p) /\ NumSlots \in Nat /\ None \notin Seg
  BY ShmAssumption DEF SlotsInv
<1>1. /\ pc[p] = "test" /\ UNCHANGED <<key, segs, cli, shm_id, mapped, num, torn, raced>>
      /\ shm_id[p] \in Seg
  BY <1>0 DEF TestSlot, Shape, Unmapped, history
<1>2. CASE slot[p] < NumSlots /\ segs[shm_id[p]].slots[slot[p]].init /\ slot' # slot
  <2>1. pc' = pc /\ slot' = [slot EXCEPT ![p] = slot[p] + 1] /\ slot[p] \in Nat
    BY <1>0, <1>2 DEF TestSlot, Shape
  <2>2. Shape' /\ SlotsSame
    BY <1>0, <1>1, <1>2, <2>1 DEF Shape, SlotsSame
  <2>3. SlotsBehind(p)'
    <3>1. slot'[p] = slot[p] + 1
      BY <1>0, <2>1 DEF Shape
    <3>2. ASSUME NEW i \in Slots, i < slot'[p], p \notin cli
          PROVE  Ready(shm_id[p], i)
      BY <1>0, <1>1, <1>2, <2>1, <3>1, <3>2 DEF SlotsBehind, Slots, InSlots, Ready
    <3> QED
      BY <1>1, <2>1, <3>1, <3>2 DEF SlotsBehind, BeforeSlots, AtSlot, Ready
  <2>4. pc' = [pc EXCEPT ![p] = "test"] /\ slot[p] + 1 \in 0 .. NumSlots
    BY <1>0, <1>1, <1>2, <2>1 DEF Shape
  <2> QED
    BY <1>1, <2>1, <2>2, <2>3, <2>4, MoveStep
<1>3. CASE slot' = slot
  <2>1. \E b \in {"test", "running", "mark"} :
          /\ pc' = [pc EXCEPT ![p] = b]
          /\ b = "running" => slot[p] = NumSlots
          /\ b = "mark" => slot[p] < NumSlots
    BY <1>0, <1>1, <1>3 DEF TestSlot, Shape
  <2>2. PICK b \in {"test", "running", "mark"} :
          /\ pc' = [pc EXCEPT ![p] = b]
          /\ b = "running" => slot[p] = NumSlots
          /\ b = "mark" => slot[p] < NumSlots
    BY <2>1
  <2>3. Shape' /\ SlotsSame
    BY <1>0, <1>1, <1>3, <2>2 DEF Shape, SlotsSame, PC, Ctor
  <2> QED
    BY <1>1, <1>3, <2>2, <2>3, PlainStep DEF BeforeSlots, InSlots, AtSlot
<1> QED
  BY <1>2, <1>3 DEF TestSlot

(* A destructor finds a slot unused, or goes on to the next.               *)
LEMMA ReleaseTestStep == ASSUME SlotsInv, NEW p \in Proc, ReleaseTest(p) PROVE SlotsInv'
<1>0. Shape /\ SlotsBehind(p) /\ NumSlots \in Nat /\ None \notin Seg
  BY ShmAssumption DEF SlotsInv
<1>1. /\ pc[p] = "release" /\ slot[p] < NumSlots /\ slot[p] \in Nat
      /\ UNCHANGED <<key, segs, cli, shm_id, mapped, num, torn, raced>>
      /\ shm_id[p] # None
  BY <1>0 DEF ReleaseTest, MoreToRelease, Shape, Unmapped, history
<1>2. CASE /\ ~segs[shm_id[p]].slots[slot[p]].init
           /\ pc' = [pc EXCEPT ![p] = "unmark"] /\ slot' = slot
  <2>1. Shape' /\ SlotsSame
    BY <1>0, <1>1, <1>2 DEF Shape, SlotsSame, PC, Dtor
  <2> QED
    BY <1>1, <1>2, <2>1, PlainStep DEF BeforeSlots, InSlots
<1>3. CASE slot' = [slot EXCEPT ![p] = slot[p] + 1] /\ pc' = pc
  <2>1. Shape' /\ SlotsSame
    BY <1>0, <1>1, <1>3 DEF Shape, SlotsSame
  <2>2. pc' = [pc EXCEPT ![p] = "release"] /\ slot[p] + 1 \in 0 .. NumSlots
    BY <1>0, <1>1, <1>3 DEF Shape
  <2>3. SlotsBehind(p)'
    BY <1>1, <1>3 DEF SlotsBehind, BeforeSlots, InSlots, AtSlot
  <2> QED
    BY <1>1, <1>3, <2>1, <2>2, <2>3, MoveStep
<1> QED
  BY <1>2, <1>3 DEF ReleaseTest, Unused

(***************************************************************************)
(* The steps that write one slot.                                          *)
(***************************************************************************)
LEMMA SlotAt ==
  ASSUME Shape, NEW p \in Proc, SlotsBehind(p), pc[p] \in AtSlot
  PROVE  shm_id[p] \in Seg /\ slot[p] \in Slots /\ slot[p] \in Nat /\ slot[p] < NumSlots
<1>1. shm_id[p] # None
  BY DEF Shape, AtSlot, Unmapped
<1>2. slot[p] \in 0 .. NumSlots /\ slot[p] < NumSlots /\ NumSlots \in Nat
  BY ShmAssumption DEF Shape, SlotsBehind
<1> QED
  BY <1>1, <1>2 DEF Shape, Slots

(* A process sets init: from now on it fills that slot.                    *)
LEMMA MarkSlotStep == ASSUME SlotsInv, NEW p \in Proc, MarkSlot(p) PROVE SlotsInv'
<1>0. /\ Shape /\ InitFilled /\ ClearingUnused /\ SlotsBehind(p)
      /\ NumSlots \in Nat /\ None \notin Seg
  BY ShmAssumption DEF SlotsInv
<1> DEFINE s == shm_id[p]
           k == slot[p]
           full == [init |-> TRUE, filled |-> FALSE]
<1>1. /\ pc[p] = "mark" /\ pc' = [pc EXCEPT ![p] = "fill"]
      /\ segs' = [segs EXCEPT ![s].slots[k] = full]
      /\ UNCHANGED <<key, cli, shm_id, mapped, num, slot, torn>>
      /\ raced' = IF Clearing(s, k) THEN raced \cup {<<s, k>>} ELSE raced \ {<<s, k>>}
  BY DEF MarkSlot, Goto, locals
<1>2. s \in Seg /\ k \in Slots /\ full \in Slot
  BY <1>0, <1>1, SlotAt DEF AtSlot, Slot
<1>3. /\ segs' \in [Seg -> [ready : BOOLEAN, attach_num : Int, slots : [Slots -> Slot]]]
      /\ \A t \in Seg, i \in Slots :
           segs'[t].slots[i] = IF t = s /\ i = k THEN full ELSE segs[t].slots[i]
  <2>1. segs[s] \in [ready : BOOLEAN, attach_num : Int, slots : [Slots -> Slot]]
    BY <1>0, <1>2 DEF Shape
  <2> HIDE DEF full
  <2> QED
    BY <1>0, <1>1, <1>2, <2>1 DEF Shape
<1>4. \A t, i : t # s \/ i # k => (<<t, i>> \in raced' <=> <<t, i>> \in raced)
  BY <1>1
<1>5. Shape'
  BY <1>0, <1>1, <1>2, <1>3 DEF Shape, PC, Ctor
<1>6. OnlyMoves(p) /\ ReadyKept
  <2>1. ReadyKept
    BY <1>3, <1>4 DEF ReadyKept, Ready
  <2> QED
    BY <1>0, <1>1, <2>1 DEF OnlyMoves, Shape
<1>7. SlotsBehind(p)'
  <2>1. pc'[p] = "fill" /\ k < NumSlots
    BY <1>0, <1>1 DEF Shape, SlotsBehind, AtSlot
  <2>2. Ready(s, k)'
    BY <1>1, <1>2, <1>3 DEF Ready
  <2>3. ASSUME p \notin cli, NEW i \in Slots, i < k PROVE Ready(s, i)'
    <3>1. Ready(s, i)
      BY <1>0, <1>1, <2>3 DEF SlotsBehind, InSlots
    <3> QED
      BY <1>1, <1>2, <1>6, <3>1 DEF ReadyKept, Ready
  <2> QED
    BY <1>1, <2>1, <2>2, <2>3 DEF SlotsBehind, BeforeSlots, Ready
<1>8. InitFilled'
  <2>1. ASSUME NEW t, NEW i, Filling(t, i) PROVE Filling(t, i)'
    BY <1>0, <1>1, <2>1 DEF Filling, Shape
  <2>2. Filling(s, k)'
    BY <1>0, <1>1 DEF Filling, Shape
  <2> QED
    BY <1>0, <1>1, <1>3, <1>4, <2>1, <2>2 DEF InitFilled
<1>9. ClearingUnused'
  <2> SUFFICES ASSUME NEW t \in Seg, NEW i \in Slots, Clearing(t, i)', segs'[t].slots[i].init
               PROVE  <<t, i>> \in raced'
    BY DEF ClearingUnused
  <2>1. Clearing(t, i)
    BY <1>0, <1>1 DEF Clearing, Shape
  <2>2. CASE t = s /\ i = k
    BY <1>1, <2>1, <2>2
  <2>3. CASE ~(t = s /\ i = k)
    BY <1>0, <1>3, <1>4, <2>1, <2>3 DEF ClearingUnused
  <2> QED
    BY <2>2, <2>3
<1> QED
  BY <1>5, <1>6, <1>7, <1>8, <1>9, OthersBehind DEF SlotsInv

(* A process copies the payload and goes on to the next slot.              *)
LEMMA FillSlotStep == ASSUME SlotsInv, NEW p \in Proc, FillSlot(p) PROVE SlotsInv'
<1>0. /\ Shape /\ InitFilled /\ ClearingUnused /\ SlotsBehind(p)
      /\ NumSlots \in Nat /\ None \notin Seg
  BY ShmAssumption DEF SlotsInv
<1> DEFINE s == shm_id[p]
           k == slot[p]
           full == [segs[s].slots[k] EXCEPT !.filled = TRUE]
<1>1. /\ pc[p] = "fill" /\ pc' = [pc EXCEPT ![p] = "test"]
      /\ slot' = [slot EXCEPT ![p] = k + 1]
      /\ segs' = [segs EXCEPT ![s].slots[k] = full]
      /\ UNCHANGED <<key, cli, shm_id, mapped, num, torn, raced>>
  BY DEF FillSlot, Goto, history
<1>2. s \in Seg /\ k \in Slots
  BY <1>0, <1>1, SlotAt DEF AtSlot
<1>3. full \in Slot /\ full.filled = TRUE /\ full.init = segs[s].slots[k].init
  <2>1. segs[s].slots[k] \in Slot
    BY <1>0, <1>2 DEF Shape
  <2> QED
    BY <2>1 DEF Slot
<1>4. /\ segs' \in [Seg -> [ready : BOOLEAN, attach_num : Int, slots : [Slots -> Slot]]]
      /\ \A t \in Seg, i \in Slots :
           segs'[t].slots[i] = IF t = s /\ i = k THEN full ELSE segs[t].slots[i]
  <2>1. segs[s] \in [ready : BOOLEAN, attach_num : Int, slots : [Slots -> Slot]]
    BY <1>0, <1>2 DEF Shape
  <2> HIDE DEF full
  <2> QED
    BY <1>0, <1>1, <1>2, <1>3, <2>1 DEF Shape
<1>5. \A t \in Seg, i \in Slots :
        /\ segs'[t].slots[i].init <=> segs[t].slots[i].init
        /\ segs'[t].slots[i].filled <=> (t = s /\ i = k) \/ segs[t].slots[i].filled
  <2> HIDE DEF full
  <2> QED
    BY <1>3, <1>4
<1> HIDE DEF full
<1>6. Shape'
  <2>1. k + 1 \in 0 .. NumSlots
    BY <1>0, <1>2 DEF Slots
  <2>2. slot' \in [Proc -> 0 .. NumSlots]
    BY <1>0, <1>1, <2>1 DEF Shape
  <2>3. \A q \in Proc : pc'[q] = IF q = p THEN "test" ELSE pc[q]
    BY <1>0, <1>1 DEF Shape
  <2>4. pc' \in [Proc -> PC] /\ s # None
    BY <1>0, <1>1, <1>2 DEF Shape, PC, Ctor
  <2> QED
    BY <1>0, <1>1, <1>4, <2>2, <2>3, <2>4 DEF Shape
<1>7. OnlyMoves(p) /\ ReadyKept
  BY <1>0, <1>1, <1>5 DEF OnlyMoves, ReadyKept, Ready, Shape
<1>8. SlotsBehind(p)'
  <2>1. pc'[p] = "test" /\ slot'[p] = k + 1 /\ Ready(s, k)
    BY <1>0, <1>1 DEF Shape, SlotsBehind
  <2>2. ASSUME p \notin cli, NEW i \in Slots, i < k + 1 PROVE Ready(s, i)'
    <3>1. Ready(s, i)
      BY <1>0, <1>1, <1>2, <2>1, <2>2 DEF SlotsBehind, InSlots, Slots
    <3> QED
      BY <1>1, <1>2, <1>7, <3>1 DEF ReadyKept, Ready
  <2> QED
    BY <1>1, <2>1, <2>2 DEF SlotsBehind, BeforeSlots, AtSlot, Ready
<1>9. InitFilled'
  <2>1. ASSUME NEW t, NEW i, Filling(t, i), t # s \/ i # k PROVE Filling(t, i)'
    BY <1>0, <1>1, <2>1 DEF Filling, Shape
  <2> QED
    BY <1>0, <1>1, <1>5, <2>1 DEF InitFilled
<1>10. ClearingUnused'
  <2>1. ASSUME NEW t, NEW i, Clearing(t, i)' PROVE Clearing(t, i)
    BY <1>0, <1>1, <2>1 DEF Clearing, Shape
  <2> QED
    BY <1>0, <1>1, <1>5, <2>1 DEF ClearingUnused
<1> QED
  BY <1>6, <1>7, <1>8, <1>9, <1>10, OthersBehind DEF SlotsInv

(* A destructor clears a slot, which it found unused.                      *)
LEMMA ClearSlotStep ==
  ASSUME SlotsInv, NEW p \in Proc, UnmarkSlot(p) \/ WipeSlot(p) PROVE SlotsInv'
<1>0. /\ Shape /\ InitFilled /\ ClearingUnused /\ SlotsBehind(p)
      /\ NumSlots \in Nat /\ None \notin Seg
  BY ShmAssumption DEF SlotsInv
<1> DEFINE s == shm_id[p]
           k == slot[p]
<1>1. /\ pc[p] \in {"unmark", "wipe"}
      /\ \E b \in {"wipe", "release"}, n \in {k, k + 1} :
           /\ pc' = [pc EXCEPT ![p] = b] /\ slot' = [slot EXCEPT ![p] = n]
           /\ b = "wipe" => n = k
      /\ \/ segs' = [segs EXCEPT ![s].slots[k].init = FALSE]
         \/ segs' = [segs EXCEPT ![s].slots[k].filled = FALSE]
      /\ UNCHANGED <<key, cli, shm_id, mapped, num, torn, raced>>
  BY <1>0 DEF UnmarkSlot, WipeSlot, Goto, locals, history, Shape
<1>2. s \in Seg /\ k \in Slots /\ Clearing(s, k)
  BY <1>0, <1>1, SlotAt DEF AtSlot, Clearing
<1>3. \E new \in Slot :
        /\ segs' = [segs EXCEPT ![s].slots[k] = new]
        /\ new.init => segs[s].slots[k].init
  <2> DEFINE old == segs[s].slots[k]
  <2>1. old \in Slot
    BY <1>0, <1>2 DEF Shape
  <2>2. CASE segs' = [segs EXCEPT ![s].slots[k].init = FALSE]
    <3>1. segs' = [segs EXCEPT ![s].slots[k] = [old EXCEPT !.init = FALSE]]
      BY <2>2
    <3>2. [old EXCEPT !.init = FALSE] \in Slot /\ ~[old EXCEPT !.init = FALSE].init
      BY <2>1 DEF Slot
    <3> QED
      BY <3>1, <3>2
  <2>3. CASE segs' = [segs EXCEPT ![s].slots[k].filled = FALSE]
    <3>1. segs' = [segs EXCEPT ![s].slots[k] = [old EXCEPT !.filled = FALSE]]
      BY <2>3
    <3>2. /\ [old EXCEPT !.filled = FALSE] \in Slot
          /\ [old EXCEPT !.filled = FALSE].init = old.init
      BY <2>1 DEF Slot
    <3> QED
      BY <3>1, <3>2
  <2> QED
    BY <1>1, <2>2, <2>3
<1>4. PICK new \in Slot :
        /\ segs' = [segs EXCEPT ![s].slots[k] = new]
        /\ new.init => segs[s].slots[k].init
  BY <1>3
<1>5. /\ segs' \in [Seg -> [ready : BOOLEAN, attach_num : Int, slots : [Slots -> Slot]]]
      /\ \A t \in Seg, i \in Slots :
           segs'[t].slots[i] = IF t = s /\ i = k THEN new ELSE segs[t].slots[i]
  <2>1. segs[s] \in [ready : BOOLEAN, attach_num : Int, slots : [Slots -> Slot]]
    BY <1>0, <1>2 DEF Shape
  <2> QED
    BY <1>0, <1>2, <1>4, <2>1 DEF Shape
<1>6. segs[s].slots[k].init => <<s, k>> \in raced
  BY <1>0, <1>2 DEF ClearingUnused
<1>7. Shape'
  <2>1. slot' \in [Proc -> 0 .. NumSlots]
    BY <1>0, <1>1, <1>2 DEF Shape, Slots
  <2>2. pc' \in [Proc -> PC] /\ pc'[p] # "none" /\ \A q \in Proc \ {p} : pc'[q] = pc[q]
    BY <1>0, <1>1 DEF Shape, PC, Dtor
  <2>3. s # None
    BY <1>0, <1>2
  <2> QED
    BY <1>0, <1>1, <1>5, <2>1, <2>2, <2>3 DEF Shape
<1>8. OnlyMoves(p) /\ ReadyKept
  <2>1. ReadyKept
    <3> SUFFICES ASSUME NEW t \in Seg, NEW i \in Slots, Ready(t, i)
                 PROVE  segs'[t].slots[i].init \/ <<t, i>> \in raced
      BY <1>1 DEF ReadyKept, Ready
    <3>1. CASE t = s /\ i = k
      BY <1>6, <3>1 DEF Ready
    <3>2. CASE ~(t = s /\ i = k)
      BY <1>5, <3>2 DEF Ready
    <3> QED
      BY <3>1, <3>2
  <2> QED
    BY <1>0, <1>1, <2>1 DEF OnlyMoves, Shape
<1>9. SlotsBehind(p)'
  BY <1>0, <1>1, <1>2 DEF SlotsBehind, Shape, BeforeSlots, InSlots, AtSlot, Slots
<1>10. InitFilled'
  <2>1. ASSUME NEW t, NEW i, Filling(t, i) PROVE Filling(t, i)'
    BY <1>0, <1>1, <2>1 DEF Filling, Shape
  <2> SUFFICES ASSUME NEW t \in Seg, NEW i \in Slots, segs'[t].slots[i].init
               PROVE  segs'[t].slots[i].filled \/ Filling(t, i)' \/ <<t, i>> \in torn \cup raced
    BY <1>1 DEF InitFilled
  <2>2. CASE t = s /\ i = k
    BY <1>4, <1>5, <1>6, <2>2
  <2>3. CASE ~(t = s /\ i = k)
    BY <1>0, <1>5, <2>1, <2>3 DEF InitFilled
  <2> QED
    BY <2>2, <2>3
<1>11. ClearingUnused'
  <2>1. ASSUME NEW t, NEW i, Clearing(t, i)' PROVE Clearing(t, i)
    <3>1. PICK q \in Proc : pc'[q] \in {"unmark", "wipe"} /\ shm_id[q] = t /\ slot'[q] = i
      BY <1>1, <2>1 DEF Clearing
    <3>2. CASE q = p
      BY <1>0, <1>1, <1>2, <3>1, <3>2 DEF Shape, Slots
    <3>3. CASE q # p
      BY <1>0, <1>1, <3>1, <3>3 DEF Clearing, Shape
    <3> QED
      BY <3>2, <3>3
  <2> SUFFICES ASSUME NEW t \in Seg, NEW i \in Slots, Clearing(t, i)', segs'[t].slots[i].init
               PROVE  <<t, i>> \in raced
    BY <1>1 DEF ClearingUnused
  <2>2. CASE t = s /\ i = k
    BY <1>4, <1>5, <1>6, <2>2
  <2>3. CASE ~(t = s /\ i = k)
    BY <1>0, <1>5, <2>1, <2>3 DEF ClearingUnused
  <2> QED
    BY <2>2, <2>3
<1> QED
  BY <1>7, <1>8, <1>9, <1>10, <1>11, OthersBehind DEF SlotsInv

(* A process ends.  What it was filling, if it was killed, is torn.        *)
LEMMA VanishStep ==
  ASSUME SlotsInv, NEW p \in Proc, Vanish(p), UNCHANGED <<key, segs, raced>>,
         \/ torn' = torn /\ pc[p] # "fill"
         \/ torn' = torn \cup (IF pc[p] = "fill" THEN {<<shm_id[p], slot[p]>>} ELSE {})
  PROVE  SlotsInv'
<1>0. Shape /\ InitFilled /\ ClearingUnused /\ NumSlots \in Nat /\ None \notin Seg
  BY ShmAssumption DEF SlotsInv
<1>1. /\ pc' = [pc EXCEPT ![p] = "none"] /\ cli' = cli \ {p}
      /\ shm_id' = [shm_id EXCEPT ![p] = None]
      /\ mapped' = [mapped EXCEPT ![p] = FALSE]
      /\ num' = [num EXCEPT ![p] = 0] /\ slot' = [slot EXCEPT ![p] = 0]
  BY DEF Vanish
<1>2. Shape'
  BY <1>0, <1>1 DEF Shape, PC
<1>3. OnlyMoves(p) /\ ReadyKept
  BY <1>0, <1>1 DEF OnlyMoves, ReadyKept, Ready, Shape
<1>4. SlotsBehind(p)'
  BY <1>0, <1>1 DEF SlotsBehind, Shape, BeforeSlots, InSlots, AtSlot
<1>5. InitFilled'
  <2> SUFFICES ASSUME NEW s \in Seg, NEW i \in Slots, segs[s].slots[i].init
               PROVE  segs[s].slots[i].filled \/ Filling(s, i)' \/ <<s, i>> \in torn' \cup raced
    BY DEF InitFilled
  <2>1. segs[s].slots[i].filled \/ Filling(s, i) \/ <<s, i>> \in torn \cup raced
    BY <1>0 DEF InitFilled
  <2>2. ASSUME Filling(s, i) PROVE Filling(s, i)' \/ <<s, i>> \in torn'
    <3>1. PICK q \in Proc : pc[q] = "fill" /\ shm_id[q] = s /\ slot[q] = i
      BY <2>2 DEF Filling
    <3>2. CASE q = p
      BY <3>1, <3>2
    <3>3. CASE q # p
      BY <1>0, <1>1, <3>1, <3>3 DEF Filling, Shape
    <3> QED
      BY <3>2, <3>3
  <2> QED
    BY <2>1, <2>2
<1>6. ClearingUnused'
  <2>1. ASSUME NEW s, NEW i, Clearing(s, i)' PROVE Clearing(s, i)
    BY <1>0, <1>1, <2>1 DEF Clearing, Shape
  <2> QED
    BY <1>0, <2>1 DEF ClearingUnused
<1> QED
  BY <1>2, <1>3, <1>4, <1>5, <1>6, OthersBehind DEF SlotsInv

LEMMA EndStep ==
  ASSUME SlotsInv, NEW p \in Proc,
         AttachFails(p) \/ LeaveFails(p) \/ Close(p) \/ Crash(p)
  PROVE  SlotsInv'
<1>1. CASE AttachFails(p) /\ p \in cli
  <2>1. /\ pc[p] = "attach" /\ pc' = [pc EXCEPT ![p] = "running"]
        /\ UNCHANGED <<key, segs, cli, shm_id, mapped, num, slot, torn, raced>>
    BY <1>1 DEF AttachFails, Goto, locals
  <2>2. Shape' /\ SlotsSame
    BY <1>1, <2>1 DEF SlotsInv, Shape, SlotsSame, PC, Unmapped
  <2> QED
    BY <1>1, <2>1, <2>2, PlainStep DEF BeforeSlots, InSlots, AtSlot
<1>2. CASE AttachFails(p) /\ p \notin cli
  BY <1>2, VanishStep DEF AttachFails
<1>3. CASE LeaveFails(p)
  BY <1>3, VanishStep DEF LeaveFails, history
<1>4. CASE Close(p)
  BY <1>4, VanishStep DEF Close, history
<1>5. CASE Crash(p)
  BY <1>5, VanishStep DEF Crash
<1> QED
  BY <1>1, <1>2, <1>3, <1>4, <1>5

(* A new process finds the segment, or a new one that nobody refers to.    *)
LEMMA StartStep == ASSUME SlotsInv, NEW p \in Proc, Start(p) PROVE SlotsInv'
<1>0. /\ Shape /\ InitFilled /\ ClearingUnused /\ SlotsBehind(p)
      /\ NumSlots \in Nat /\ None \notin Seg
  BY ShmAssumption DEF SlotsInv
<1>1. /\ pc[p] = "none" /\ pc' = [pc EXCEPT ![p] = "attach"]
      /\ cli' \in {cli, cli \cup {p}} /\ slot[p] = 0
      /\ UNCHANGED <<mapped, num, slot>>
  BY <1>0 DEF Start, Goto, SlotsBehind, BeforeSlots
<1>2. ASSUME NEW s, NEW i, Filling(s, i), slot' = slot, pc' = [pc EXCEPT ![p] = "attach"],
             \A q \in Proc \ {p} : shm_id'[q] = shm_id[q]
      PROVE  Filling(s, i)'
  BY <1>0, <1>1, <1>2 DEF Filling, Shape
<1>6. ASSUME NEW s, NEW i, Clearing(s, i)', \A q \in Proc \ {p} : shm_id'[q] = shm_id[q]
      PROVE  Clearing(s, i)
  BY <1>0, <1>1, <1>6 DEF Clearing, Shape
<1>3. CASE /\ \/ key # None /\ shm_id' = [shm_id EXCEPT ![p] = key]
              \/ shm_id' = shm_id
           /\ UNCHANGED <<key, segs, torn, raced>>
  <2>1. Shape'
    BY <1>0, <1>1, <1>3 DEF Shape, PC, Ctor
  <2>2. OnlyMoves(p) /\ ReadyKept
    BY <1>0, <1>1, <1>3 DEF OnlyMoves, ReadyKept, Ready, Shape
  <2>3. \A q \in Proc \ {p} : shm_id'[q] = shm_id[q]
    BY <2>2 DEF OnlyMoves
  <2>4. InitFilled' /\ ClearingUnused'
    BY <1>0, <1>1, <1>2, <1>3, <1>6, <2>3 DEF InitFilled, ClearingUnused
  <2>5. SlotsBehind(p)'
    BY <1>0, <1>1 DEF SlotsBehind, Shape, InSlots, AtSlot
  <2> QED
    BY <2>1, <2>2, <2>4, <2>5, OthersBehind DEF SlotsInv
<1>4. ASSUME key = None,
             NEW s, s = (CHOOSE t \in Seg : Reusable(t)),
             key' = s, segs' = [segs EXCEPT ![s] = NewSegment],
             torn' = {x \in torn : x[1] # s},
             raced' = {x \in raced : x[1] # s},
             shm_id' = [shm_id EXCEPT ![p] = s]
      PROVE  SlotsInv'
  <2>1. s \in Seg /\ \A q \in Proc : shm_id[q] # s
    BY <1>0, <1>4, SegmentLeft DEF Reusable
  <2>2. NewSegment \in [ready : BOOLEAN, attach_num : Int, slots : [Slots -> Slot]]
    BY DEF NewSegment, Slot, EmptySlot
  <2>3. Shape'
    BY <1>0, <1>1, <1>4, <2>1, <2>2 DEF Shape, PC, Ctor
  <2>4. OnlyMoves(p) /\ ReadyKept
    <3>1. OnlyMoves(p)
      BY <1>0, <1>1, <1>4 DEF OnlyMoves, Shape
    <3>2. ReadyKept
      BY <1>0, <1>4, <2>1 DEF ReadyKept, Ready, Shape
    <3> QED
      BY <3>1, <3>2
  <2>5. InitFilled' /\ ClearingUnused'
    <3>1. \A i \in Slots : ~segs'[s].slots[i].init
      BY <1>0, <1>4, <2>1 DEF Shape, NewSegment, EmptySlot
    <3>2. \A t \in Seg \ {s} : segs'[t] = segs[t]
      BY <1>0, <1>4, <2>1 DEF Shape
    <3>3. \A t \in Seg \ {s}, i \in Slots :
            /\ <<t, i>> \in torn => <<t, i>> \in torn'
            /\ <<t, i>> \in raced => <<t, i>> \in raced'
      BY <1>4
    <3>4. \A q \in Proc \ {p} : shm_id'[q] = shm_id[q]
      BY <1>0, <1>4 DEF Shape
    <3>5. InitFilled'
      BY <1>0, <1>1, <1>2, <3>1, <3>2, <3>3, <3>4 DEF InitFilled
    <3>6. ClearingUnused'
      BY <1>0, <1>6, <3>1, <3>2, <3>3, <3>4 DEF ClearingUnused
    <3> QED
      BY <3>5, <3>6
  <2>6. SlotsBehind(p)'
    BY <1>0, <1>1 DEF SlotsBehind, Shape, InSlots, AtSlot
  <2> QED
    BY <2>3, <2>4, <2>5, <2>6, OthersBehind DEF SlotsInv
<1>5. \/ /\ \/ key # None /\ shm_id' = [shm_id EXCEPT ![p] = key]
            \/ shm_id' = shm_id
         /\ UNCHANGED <<key, segs, torn, raced>>
      \/ /\ key = None
         /\ \E s : /\ s = (CHOOSE t \in Seg : Reusable(t))
                  /\ key' = s /\ segs' = [segs EXCEPT ![s] = NewSegment]
                  /\ torn' = {x \in torn : x[1] # s}
                  /\ raced' = {x \in raced : x[1] # s}
                  /\ shm_id' = [shm_id EXCEPT ![p] = s]
  BY DEF Start
<1> QED
  BY <1>3, <1>4, <1>5

(* A worker finds the slots its master found.                              *)
LEMMA ForkStep ==
  ASSUME SlotsInv, NEW p \in Proc, NEW c \in Proc, Fork(p, c) PROVE SlotsInv'
<1>0. /\ Shape /\ InitFilled /\ ClearingUnused /\ SlotsBehind(p)
      /\ NumSlots \in Nat /\ None \notin Seg
  BY ShmAssumption DEF SlotsInv
<1>1. /\ pc[p] = "running" /\ p \notin cli /\ p # c
      /\ pc[c] = "none" /\ pc' = [pc EXCEPT ![c] = "running"]
      /\ shm_id' = [shm_id EXCEPT ![c] = shm_id[p]]
      /\ slot' = [slot EXCEPT ![c] = slot[p]]
      /\ mapped' = [mapped EXCEPT ![c] = TRUE]
      /\ UNCHANGED <<key, segs, cli, num, torn, raced>>
  BY DEF Fork, Goto
<1>2. Shape'
  BY <1>0, <1>1 DEF Shape, PC, Unmapped
<1>3. OnlyMoves(c) /\ ReadyKept
  BY <1>0, <1>1 DEF OnlyMoves, ReadyKept, Ready, Shape
<1>4. SlotsBehind(c)'
  BY <1>0, <1>1 DEF SlotsBehind, Shape, BeforeSlots, InSlots, AtSlot, Ready
<1>5. InitFilled'
  <2>1. ASSUME NEW s, NEW i, Filling(s, i) PROVE Filling(s, i)'
    BY <1>0, <1>1, <2>1 DEF Filling, Shape
  <2> QED
    BY <1>0, <1>1, <2>1 DEF InitFilled
<1>6. ClearingUnused'
  <2>1. ASSUME NEW s, NEW i, Clearing(s, i)' PROVE Clearing(s, i)
    BY <1>0, <1>1, <2>1 DEF Clearing, Shape
  <2> QED
    BY <1>0, <1>1, <2>1 DEF ClearingUnused
<1> QED
  BY <1>2, <1>3, <1>4, <1>5, <1>6, OthersBehind DEF SlotsInv
-----------------------------------------------------------------------------
LEMMA InvNext == SlotsInv /\ [Next]_vars => SlotsInv'
<1> SUFFICES ASSUME SlotsInv, [Next]_vars PROVE SlotsInv'
  OBVIOUS
<1>1. CASE UNCHANGED vars
  BY <1>1 DEF vars, locals, history, SlotsInv, Shape, InitFilled, ClearingUnused,
     SlotsBehind, Ready, Filling, Clearing
<1>2. ASSUME NEW p \in Proc, Start(p) PROVE SlotsInv'
  BY <1>2, StartStep
<1>3. ASSUME NEW p \in Proc, Progress(p) \/ Stop(p) \/ Crash(p) PROVE SlotsInv'
  BY <1>3, SettlesStep, HeaderStep, TestSlotStep, MarkSlotStep, FillSlotStep,
     ReleaseTestStep, ClearSlotStep, EndStep DEF Progress, Settles
<1>4. ASSUME NEW p \in Proc, NEW c \in Proc, Fork(p, c) PROVE SlotsInv'
  BY <1>4, ForkStep
<1> QED
  BY <1>1, <1>2, <1>3, <1>4 DEF Next

(* The strengthening that makes SlotsReady inductive (mo_create_slot). *)
THEOREM SlotsInvAlways == Spec => []SlotsInv
  BY InvInit, InvNext, PTL DEF Spec

(***************************************************************************)
(* A web process that runs finds every slot ready, whoever comes, goes or  *)
(* is killed, unless its creator was killed while it copied or a destructor*)
(* was clearing the slot when it was created (mo_realse_slot).             *)
(***************************************************************************)
THEOREM SlotsAlwaysReady == Spec => []SlotsReady
<1>1. SlotsInv => SlotsReady
  <2> SUFFICES ASSUME SlotsInv, NEW p \in Proc \ cli, pc[p] = "running",
                      NEW i \in Slots, <<shm_id[p], i>> \notin raced
               PROVE  /\ segs[shm_id[p]].slots[i].init
                      /\ \/ segs[shm_id[p]].slots[i].filled
                         \/ Filling(shm_id[p], i)
                         \/ <<shm_id[p], i>> \in torn
    BY DEF SlotsReady
  <2>1. Shape /\ InitFilled /\ SlotsBehind(p) /\ None \notin Seg /\ NumSlots \in Nat
    BY ShmAssumption DEF SlotsInv
  <2>2. shm_id[p] \in Seg /\ i < slot[p]
    <3>1. shm_id[p] # None
      BY <2>1 DEF Shape
    <3>2. slot[p] = NumSlots /\ i < NumSlots
      BY <2>1 DEF SlotsBehind, Slots
    <3> QED
      BY <2>1, <3>1, <3>2 DEF Shape
  <2>3. segs[shm_id[p]].slots[i].init
    BY <2>1, <2>2 DEF SlotsBehind, InSlots, Ready
  <2> QED
    BY <2>1, <2>2, <2>3 DEF InitFilled
<1> QED
  BY <1>1, SlotsInvAlways, PTL
-----------------------------------------------------------------------------
(***************************************************************************)
(* attach_num is neither atomic nor exact: two loads of it may be followed *)
(* by two stores of the same number, and forked workers count down what    *)
(* only their master counted up.  But whatever is lost, what one process   *)
(* adds or takes away is at most one: with n the counter of any segment, or*)
(* what any process has loaded from it,                                    *)
(*   - n and the processes that have yet to count up are no more than the  *)
(*     processes so far, and                                               *)
(*   - the processes that have yet to count down are no more than n and the*)
(*     processes so far.                                                   *)
(***************************************************************************)
ToCount == {"attach", "open", "unlink", "lock", "header", "read", "write"}
ToLeave == Ctor \cup {"running", "lock_again", "leave"}
At(points) == {p \in Proc : pc[p] \in points}

Within(n) ==
  /\ n + Cardinality(At(ToCount)) <= starts
  /\ Cardinality(At(ToLeave)) <= n + starts

Counted ==
  /\ Within(0)
  /\ \A s \in Seg : Within(segs[s].attach_num)
  /\ \A p \in Proc : Within(num[p])

(* The rest of the types. *)
Fields ==
  /\ path \in Inode \cup {None}
  /\ holder \in [Inode -> Proc \cup {None}]
  /\ fd \in [Proc -> Inode \cup {None}]
  /\ starts \in 0 .. MaxStarts /\ faults \in 0 .. MaxFaults
  /\ torn \subseteq Seg \X Slots /\ raced \subseteq Seg \X Slots

TypeInv == SlotsInv /\ Fields /\ Counted

(* There is always an inode that no process has open. *)
LEMMA InodeLeft ==
  ASSUME path = None
  PROVE  (CHOOSE i \in Inode : Unlinked(i)) \in Inode
<1> DEFINE used == {fd[p] : p \in Proc}
           files_of == [p \in Proc |-> fd[p]]
<1>1. /\ IsFiniteSet(Proc) /\ IsFiniteSet(Inode)
      /\ Cardinality(Inode) > Cardinality(Proc)
  BY ShmAssumption
<1>2. files_of \in Surjection(Proc, used)
  BY DEF Surjection
<1>3. IsFiniteSet(used) /\ Cardinality(used) <= Cardinality(Proc)
  BY <1>1, <1>2, FS_Surjection
<1>4. \E i \in Inode : i \notin used
  <2> SUFFICES ASSUME Inode \subseteq used PROVE FALSE
    OBVIOUS
  <2>1. Cardinality(Inode) <= Cardinality(used)
    BY <1>3, FS_Subset
  <2> QED
    BY <1>1, <1>3, <2>1, FS_CardinalityType
<1>5. None \notin Inode
  BY ShmAssumption
<1>6. \E i \in Inode : Unlinked(i)
  BY <1>4, <1>5 DEF Unlinked
<1> QED
  BY <1>6

LEMMA FieldsNext ==
  ASSUME SlotsInv, Fields, [Next]_vars PROVE Fields'
<1>0. /\ Shape /\ \A p \in Proc : SlotsBehind(p)
      /\ NumSlots \in Nat /\ MaxStarts \in Nat /\ MaxFaults \in Nat
      /\ None \notin Proc \cup Seg \cup Inode
  BY ShmAssumption DEF SlotsInv
<1>f. faults \in 0 .. MaxFaults /\ (Fault => faults' \in 0 .. MaxFaults)
  BY <1>0 DEF Fields, Fault
<1> DEFINE Same == UNCHANGED <<path, holder, fd, starts, faults, torn, raced>>
<1>1. CASE Same
  BY <1>1 DEF Fields
<1>2. ASSUME NEW p \in Proc, Start(p) PROVE Fields'
  <2>1. /\ starts' = starts + 1 /\ starts < MaxStarts
        /\ UNCHANGED <<path, holder, fd>>
        /\ torn' \subseteq torn /\ raced' \subseteq raced
        /\ Fault \/ UNCHANGED faults
    BY <1>2 DEF Start, files
  <2> QED
    BY <1>0, <1>f, <2>1 DEF Fields
<1>4. ASSUME NEW p \in Proc, OpenLock(p) PROVE Fields'
  <2>1. path' \in Inode
    BY <1>0, <1>4, InodeLeft DEF OpenLock, Fields
  <2> QED
    BY <1>4, <2>1 DEF Fields, OpenLock, history
<1>5. ASSUME NEW p \in Proc, UnlinkLock(p) \/ OpenFails(p) PROVE Fields'
  BY <1>5, <1>f DEF Fields, UnlinkLock, OpenFails, files, locals, history
<1>6. ASSUME NEW p \in Proc, Lock(p) \/ LockAgain(p) \/ Unlock(p) PROVE Fields'
  BY <1>6 DEF Fields, Lock, LockAgain, Unlock, Acquire, Release, locals, history
<1>7. ASSUME NEW p \in Proc, Vanish(p), UNCHANGED <<path, starts, raced>>,
             faults' \in 0 .. MaxFaults,
             torn' \subseteq torn \cup (IF pc[p] = "fill" THEN {<<shm_id[p], slot[p]>>}
                                                         ELSE {})
      PROVE  Fields'
  <2>1. pc[p] = "fill" => shm_id[p] \in Seg /\ slot[p] \in Slots
    BY <1>0, SlotAt DEF AtSlot
  <2> QED
    BY <1>7, <2>1 DEF Fields, Vanish
<1>8. ASSUME NEW p \in Proc, Crash(p) PROVE Fields'
  BY <1>7, <1>8, <1>f DEF Crash
<1>9. ASSUME NEW p \in Proc, AttachFails(p) \/ LeaveFails(p) \/ Close(p) PROVE Fields'
  <2>1. /\ UNCHANGED <<path, starts, torn, raced>>
        /\ Fault \/ UNCHANGED faults
        /\ Vanish(p) \/ UNCHANGED <<fd, holder>>
    BY <1>9 DEF AttachFails, LeaveFails, Close, locals, history
  <2>4. faults' \in 0 .. MaxFaults /\ torn' \subseteq torn
    BY <1>f, <2>1
  <2>2. CASE Vanish(p)
    BY <1>7, <2>1, <2>2, <2>4
  <2>3. CASE UNCHANGED <<fd, holder>>
    BY <2>1, <2>3, <2>4 DEF Fields
  <2> QED
    BY <2>1, <2>2, <2>3
<1>10. ASSUME NEW p \in Proc, NEW c \in Proc, Fork(p, c) PROVE Fields'
  BY <1>0, <1>10 DEF Fields, Fork, files
<1>11. ASSUME NEW p \in Proc,
              \/ Attach(p) \/ InitHeader(p) \/ ReadNum(p) \/ WriteNum(p)
              \/ TestSlot(p) \/ FillSlot(p) \/ Leave(p)
              \/ ReleaseTest(p) \/ UnmarkSlot(p) \/ WipeSlot(p) \/ ReleaseHeader(p)
              \/ Detach(p) \/ Stat(p) \/ Remove(p) \/ Stop(p)
       PROVE  Same
  BY <1>11 DEF Attach, InitHeader, ReadNum, WriteNum, TestSlot, FillSlot, Leave,
     ReleaseTest, UnmarkSlot, WipeSlot, ReleaseHeader, Detach, Stat, Remove, Stop,
     files, locals, history
<1>12. CASE UNCHANGED vars
  BY <1>1, <1>12 DEF vars, files, locals, history
<1>13. ASSUME NEW p \in Proc, MarkSlot(p) PROVE Fields'
  <2>1. shm_id[p] \in Seg /\ slot[p] \in Slots
    BY <1>0, <1>13, SlotAt DEF MarkSlot, Goto, AtSlot
  <2>2. /\ UNCHANGED <<path, holder, fd, starts, faults, torn>>
        /\ raced' \subseteq raced \cup {<<shm_id[p], slot[p]>>}
    BY <1>13 DEF MarkSlot, files, locals
  <2> QED
    BY <2>1, <2>2 DEF Fields
<1> QED
  BY <1>1, <1>2, <1>4, <1>5, <1>6, <1>8, <1>9, <1>10, <1>11, <1>12, <1>13
     DEF Next, Progress

-----------------------------------------------------------------------------
LEMMA AtFinite ==
  ASSUME NEW points
  PROVE  IsFiniteSet(At(points)) /\ Cardinality(At(points)) \in Nat
  BY ShmAssumption, FS_Subset, FS_CardinalityType DEF At

(* No more processes have a count before them than there were.             *)
LEMMA WithinKept ==
  ASSUME starts \in Nat, starts' = starts, NEW n \in Int, Within(n),
         At(ToCount)' \subseteq At(ToCount), At(ToLeave)' \subseteq At(ToLeave)
  PROVE  Within(n)'
<1> DEFINE u == At(ToCount)
           d == At(ToLeave)
<1>1. IsFiniteSet(u) /\ Cardinality(u) \in Nat /\ IsFiniteSet(d) /\ Cardinality(d) \in Nat
  BY AtFinite
<1>2. u' \subseteq u /\ d' \subseteq d
  OBVIOUS
<1>3. n + Cardinality(u) <= starts /\ Cardinality(d) <= n + starts
  BY DEF Within
<1> HIDE DEF u, d
<1>4. /\ Cardinality(u') <= Cardinality(u) /\ Cardinality(u') \in Nat
      /\ Cardinality(d') <= Cardinality(d) /\ Cardinality(d') \in Nat
  BY <1>1, <1>2, FS_Subset, FS_CardinalityType
<1>5. n + Cardinality(u') <= starts' /\ Cardinality(d') <= n + starts'
  BY <1>1, <1>3, <1>4
<1> QED
  BY <1>5 DEF Within, u, d

(* A step of the others: no process comes, no counter changes.             *)
LEMMA CountedKept ==
  ASSUME SlotsInv, Counted, starts \in Nat, starts' = starts,
         At(ToCount)' \subseteq At(ToCount), At(ToLeave)' \subseteq At(ToLeave),
         \A s \in Seg : segs'[s].attach_num \in {0, segs[s].attach_num},
         \A p \in Proc : num'[p] \in {0, num[p]} \cup {segs[s].attach_num : s \in Seg}
  PROVE  Counted'
<1>1. /\ \A s \in Seg : segs[s].attach_num \in Int
      /\ \A p \in Proc : num[p] \in Int
  BY DEF SlotsInv, Shape
<1>2. /\ Within(0)' /\ \A s \in Seg : Within(segs[s].attach_num)
      /\ \A p \in Proc : Within(num[p])
  BY WithinKept DEF Counted
<1>3. ASSUME NEW n \in Int, Within(n)
      PROVE  n + Cardinality(At(ToCount)') <= starts' /\ Cardinality(At(ToLeave)') <= n + starts'
  BY <1>3, WithinKept DEF Within
<1> QED
  BY <1>1, <1>2, <1>3 DEF Counted, Within

(* A new process, which has yet to leave, and perhaps to count. *)
LEMMA WithinJoined ==
  ASSUME Shape, starts \in Nat, starts' = starts + 1, NEW n \in Int, Within(n),
         NEW p \in Proc, pc[p] = "none", NEW b \in ToLeave, pc' = [pc EXCEPT ![p] = b]
  PROVE  Within(n)'
<1> DEFINE u == At(ToCount)
           d == At(ToLeave)
<1>1. IsFiniteSet(u) /\ Cardinality(u) \in Nat /\ IsFiniteSet(d) /\ Cardinality(d) \in Nat
  BY AtFinite
<1>2. u' \subseteq u \cup {p} /\ d' \subseteq d \cup {p}
  BY DEF At, Shape
<1>3. n + Cardinality(u) <= starts /\ Cardinality(d) <= n + starts
  BY DEF Within
<1> HIDE DEF u, d
<1>4. /\ IsFiniteSet(u \cup {p}) /\ IsFiniteSet(d \cup {p})
      /\ Cardinality(u \cup {p}) \in {Cardinality(u), Cardinality(u) + 1}
      /\ Cardinality(d \cup {p}) \in {Cardinality(d), Cardinality(d) + 1}
  <2>1. \A S : IsFiniteSet(S) => /\ IsFiniteSet(S \cup {p})
                                 /\ Cardinality(S \cup {p}) \in {Cardinality(S), Cardinality(S) + 1}
    <3> SUFFICES ASSUME NEW S, IsFiniteSet(S)
                 PROVE  /\ IsFiniteSet(S \cup {p})
                        /\ Cardinality(S \cup {p}) \in {Cardinality(S), Cardinality(S) + 1}
      OBVIOUS
    <3> QED
      BY FS_AddElement
  <2> QED
    BY <1>1, <2>1
<1>5. /\ Cardinality(u') <= Cardinality(u \cup {p}) /\ Cardinality(u') \in Nat
      /\ Cardinality(d') <= Cardinality(d \cup {p}) /\ Cardinality(d') \in Nat
      /\ Cardinality(u \cup {p}) \in Nat /\ Cardinality(d \cup {p}) \in Nat
  BY <1>2, <1>4, FS_Subset, FS_CardinalityType
<1>6. n + Cardinality(u') <= starts' /\ Cardinality(d') <= n + starts'
  BY <1>1, <1>3, <1>4, <1>5
<1> QED
  BY <1>6 DEF Within, u, d

LEMMA StartCounted ==
  ASSUME TypeInv, NEW p \in Proc, Start(p) PROVE Counted'
<1>1. /\ pc[p] = "none" /\ pc' = [pc EXCEPT ![p] = "attach"]
      /\ starts' = starts + 1 /\ num' = num /\ Shape /\ Counted /\ starts \in Nat
  BY ShmAssumption DEF Start, Goto, TypeInv, Fields, SlotsInv
<1>2. \A s \in Seg : segs'[s].attach_num \in {0, segs[s].attach_num}
  <2>1. segs' = segs \/ \E t : segs' = [segs EXCEPT ![t] = NewSegment]
    BY DEF Start
  <2>2. NewSegment.attach_num = 0
    BY DEF NewSegment
  <2> QED
    BY <1>1, <2>1, <2>2 DEF Shape
<1>3. "attach" \in ToLeave
  BY DEF ToLeave, Ctor
<1>4. ASSUME NEW n \in Int, Within(n)
      PROVE  n + Cardinality(At(ToCount)') <= starts' /\ Cardinality(At(ToLeave)') <= n + starts'
  BY <1>1, <1>3, <1>4, WithinJoined DEF Within
<1>5. /\ Within(0) /\ \A s \in Seg : segs[s].attach_num \in Int /\ Within(segs[s].attach_num)
      /\ \A q \in Proc : num[q] \in Int /\ Within(num[q])
  BY <1>1 DEF Counted, Shape
<1> QED
  BY <1>1, <1>2, <1>4, <1>5 DEF Counted, Within

LEMMA ForkCounted ==
  ASSUME TypeInv, NEW p \in Proc, NEW c \in Proc, Fork(p, c) PROVE Counted'
<1>1. /\ pc[c] = "none" /\ pc' = [pc EXCEPT ![c] = "running"]
      /\ starts' = starts + 1 /\ num' = num /\ segs' = segs
      /\ Shape /\ Counted /\ starts \in Nat
  BY ShmAssumption DEF Fork, Goto, TypeInv, Fields, SlotsInv
<1>2. "running" \in ToLeave
  BY DEF ToLeave
<1>3. ASSUME NEW n \in Int, Within(n)
      PROVE  n + Cardinality(At(ToCount)') <= starts' /\ Cardinality(At(ToLeave)') <= n + starts'
  BY <1>1, <1>2, <1>3, WithinJoined DEF Within
<1>4. /\ Within(0) /\ \A s \in Seg : segs[s].attach_num \in Int /\ Within(segs[s].attach_num)
      /\ \A q \in Proc : num[q] \in Int /\ Within(num[q])
  BY <1>1 DEF Counted, Shape
<1> QED
  BY <1>1, <1>3, <1>4 DEF Counted, Within

(* The store of attach_num++: one process fewer has yet to count. *)
LEMMA WriteCounted ==
  ASSUME TypeInv, NEW p \in Proc, WriteNum(p) PROVE Counted'
<1> DEFINE u == At(ToCount)
           d == At(ToLeave)
<1>1. /\ pc[p] = "write" /\ pc' = [pc EXCEPT ![p] = "unlock"] /\ starts' = starts
      /\ num' = [num EXCEPT ![p] = 0]
      /\ segs' = [segs EXCEPT ![shm_id[p]].attach_num = num[p] + 1]
      /\ Shape /\ Counted /\ starts \in Nat
  BY ShmAssumption DEF WriteNum, Goto, TypeInv, Fields, SlotsInv, history
<1>2. num[p] \in Int /\ Within(num[p])
  BY <1>1 DEF Shape, Counted
<1>3. p \in u /\ u' = u \ {p} /\ d' \subseteq d
  BY <1>1 DEF At, Shape, ToCount, ToLeave, Ctor
<1>4. IsFiniteSet(u) /\ Cardinality(u) \in Nat /\ IsFiniteSet(d) /\ Cardinality(d) \in Nat
  BY AtFinite
<1>5. \A n \in Int : Within(n) => /\ n + Cardinality(u') <= starts'
                                  /\ Cardinality(d') <= n + starts'
  BY <1>1, <1>3, WithinKept DEF Within
<1>6. /\ num[p] + 1 + Cardinality(u') <= starts'
      /\ Cardinality(d') <= num[p] + 1 + starts'
  <2>1. num[p] + Cardinality(u) <= starts
    BY <1>2 DEF Within
  <2>2. Cardinality(d') <= num[p] + starts'
    BY <1>2, <1>5
  <2> HIDE DEF u, d
  <2>3. Cardinality(u') = Cardinality(u) - 1
    BY <1>3, <1>4, FS_RemoveElement
  <2>4. IsFiniteSet(d') /\ Cardinality(d') \in Nat
    BY <1>3, <1>4, FS_Subset, FS_CardinalityType
  <2> QED
    BY <1>1, <1>2, <1>4, <2>1, <2>2, <2>3, <2>4
<1>7. ASSUME NEW s \in Seg
      PROVE segs'[s].attach_num \in {segs[s].attach_num, num[p] + 1}
  BY <1>1 DEF Shape
<1>8. ASSUME NEW q \in Proc PROVE num'[q] \in {0, num[q]}
  BY <1>1 DEF Shape
<1> QED
  BY <1>1, <1>5, <1>6, <1>7, <1>8 DEF Counted, Within, Shape

(* __sync_sub_and_fetch: one process fewer has yet to leave. *)
LEMMA LeaveCounted ==
  ASSUME TypeInv, NEW p \in Proc, Leave(p) PROVE Counted'
<1> DEFINE u == At(ToCount)
           d == At(ToLeave)
           a == segs[shm_id[p]].attach_num
<1>1. /\ pc[p] = "leave" /\ starts' = starts /\ num' = num
      /\ \E b \in {"release", "detach"} : pc' = [pc EXCEPT ![p] = b]
      /\ segs' = [segs EXCEPT ![shm_id[p]].attach_num = a - 1]
      /\ Shape /\ Counted /\ starts \in Nat
  <2>1. Shape /\ Counted /\ starts \in Nat
    BY ShmAssumption DEF TypeInv, Fields, SlotsInv
  <2>2. segs' = [segs EXCEPT ![shm_id[p]].attach_num = a - 1]
    BY DEF Leave, Left
  <2>3. /\ pc[p] = "leave" /\ starts' = starts /\ num' = num
        /\ \E b \in {"release", "detach"} : pc' = [pc EXCEPT ![p] = b]
    BY DEF Leave, Goto, locals, history
  <2> QED
    BY <2>1, <2>2, <2>3
<1>2. a \in Int /\ Within(a)
  <2>1. shm_id[p] \in Seg
    BY <1>1 DEF Shape, Leave
  <2> QED
    BY <1>1, <2>1 DEF Shape, Counted
<1>3. p \in d /\ d' = d \ {p} /\ u' \subseteq u
  BY <1>1 DEF At, Shape, ToCount, ToLeave, Ctor
<1>4. IsFiniteSet(u) /\ Cardinality(u) \in Nat /\ IsFiniteSet(d) /\ Cardinality(d) \in Nat
  BY AtFinite
<1>5. \A n \in Int : Within(n) => /\ n + Cardinality(u') <= starts'
                                  /\ Cardinality(d') <= n + starts'
  BY <1>1, <1>3, WithinKept DEF Within
<1>6. /\ a - 1 + Cardinality(u') <= starts'
      /\ Cardinality(d') <= a - 1 + starts'
  <2>1. Cardinality(d) <= a + starts
    BY <1>2 DEF Within
  <2>2. a + Cardinality(u') <= starts'
    BY <1>2, <1>5
  <2> HIDE DEF u, d, a
  <2>3. Cardinality(d') = Cardinality(d) - 1
    BY <1>3, <1>4, FS_RemoveElement
  <2>4. IsFiniteSet(u') /\ Cardinality(u') \in Nat
    BY <1>3, <1>4, FS_Subset, FS_CardinalityType
  <2> QED
    BY <1>1, <1>2, <1>4, <2>1, <2>2, <2>3, <2>4
<1>7. ASSUME NEW s \in Seg
      PROVE segs'[s].attach_num \in {segs[s].attach_num, a - 1}
  BY <1>1 DEF Shape
<1> QED
  BY <1>1, <1>5, <1>6, <1>7 DEF Counted, Within, Shape

LEMMA CountedNext ==
  ASSUME TypeInv, [Next]_vars PROVE Counted'
<1>0. /\ SlotsInv /\ Counted /\ Shape /\ starts \in Nat /\ None \notin Seg
      /\ MaxStarts \in Nat
  BY ShmAssumption DEF TypeInv, Fields, SlotsInv
<1> DEFINE Down == /\ At(ToCount)' \subseteq At(ToCount)
                   /\ At(ToLeave)' \subseteq At(ToLeave)
           Numbers == \A s \in Seg : segs'[s].attach_num = segs[s].attach_num
<1>1. ASSUME NEW p \in Proc, Progress(p) \/ Stop(p) \/ Crash(p), ~WriteNum(p), ~Leave(p)
      PROVE  Counted'
  <2>1. \E b \in PC : /\ pc' = [pc EXCEPT ![p] = b]
                      /\ b \in ToCount => pc[p] \in ToCount
                      /\ b \in ToLeave => pc[p] \in ToLeave
    <3>1. CASE AttachFails(p) \/ LeaveFails(p) \/ Close(p) \/ Crash(p)
      BY <3>1 DEF AttachFails, LeaveFails, Close, Crash, Vanish, Goto, PC, ToCount,
         ToLeave, Ctor
    <3>2. CASE Attach(p) \/ OpenLock(p) \/ OpenFails(p) \/ UnlinkLock(p) \/ Lock(p)
               \/ InitHeader(p) \/ ReadNum(p) \/ Unlock(p) \/ Stop(p)
      BY <3>2 DEF Attach, OpenLock, OpenFails, UnlinkLock, Lock, InitHeader, ReadNum,
         Unlock, Stop, AfterHeader, Goto, PC, ToCount, ToLeave, Ctor, Dtor
    <3>3. CASE TestSlot(p) \/ ReleaseTest(p)
      <4>1. CASE pc' = pc
        BY <1>0, <3>3, <4>1 DEF Shape
      <4> QED
        BY <3>3, <4>1 DEF TestSlot, ReleaseTest, PC, ToCount, ToLeave, Ctor, Dtor
    <3>4. CASE MarkSlot(p) \/ FillSlot(p) \/ LockAgain(p) \/ UnmarkSlot(p)
               \/ WipeSlot(p) \/ ReleaseHeader(p) \/ Detach(p) \/ Stat(p) \/ Remove(p)
      BY <3>4 DEF MarkSlot, FillSlot, LockAgain, UnmarkSlot, WipeSlot, ReleaseHeader,
         Detach, Stat, Remove, Goto, PC, ToCount, ToLeave, Ctor, Dtor
    <3> QED
      BY <1>1, <3>1, <3>2, <3>3, <3>4 DEF Progress
  <2>2. Down
    BY <1>0, <2>1 DEF At, Shape
  <2>3. Numbers
    <3>1. CASE InitHeader(p) \/ MarkSlot(p) \/ FillSlot(p) \/ UnmarkSlot(p)
               \/ WipeSlot(p) \/ ReleaseHeader(p)
      BY <1>0, <3>1 DEF InitHeader, MarkSlot, FillSlot, UnmarkSlot, WipeSlot,
         ReleaseHeader, Shape
    <3>2. CASE segs' = segs
      BY <3>2
    <3> QED
      BY <1>1, <3>1, <3>2 DEF Progress, Attach, AttachFails, OpenLock, OpenFails,
         UnlinkLock, Lock, ReadNum, Unlock, TestSlot, LockAgain, LeaveFails,
         ReleaseTest, Detach, Stat, Remove, Close, Stop, Crash
  <2>4. starts' = starts
    BY <1>1 DEF Progress, Attach, AttachFails, OpenLock, OpenFails, UnlinkLock, Lock,
       InitHeader, ReadNum, Unlock, TestSlot, MarkSlot, FillSlot, LockAgain, LeaveFails,
       ReleaseTest, UnmarkSlot, WipeSlot, ReleaseHeader, Detach, Stat, Remove, Close,
       Stop, Crash, history
  <2>5. \A q \in Proc : num'[q] \in {0, num[q]} \cup {segs[s].attach_num : s \in Seg}
    <3>1. CASE ReadNum(p)
      <4>1. shm_id[p] \in Seg
        BY <1>0, <3>1 DEF ReadNum, Goto, Shape, Unmapped
      <4> QED
        BY <1>0, <3>1, <4>1 DEF ReadNum, Shape
    <3>2. CASE num' = [num EXCEPT ![p] = 0]
      BY <1>0, <3>2 DEF Shape
    <3>3. CASE num' = num
      BY <3>3
    <3>4. CASE AttachFails(p) \/ LeaveFails(p) \/ Close(p) \/ Crash(p)
      BY <3>2, <3>3, <3>4 DEF AttachFails, LeaveFails, Close, Crash, Vanish, locals
    <3>5. ASSUME \/ Attach(p) \/ OpenLock(p) \/ OpenFails(p) \/ UnlinkLock(p) \/ Lock(p)
                 \/ InitHeader(p) \/ Unlock(p) \/ TestSlot(p) \/ MarkSlot(p) \/ FillSlot(p)
                 \/ LockAgain(p) \/ ReleaseTest(p) \/ UnmarkSlot(p) \/ WipeSlot(p)
                 \/ ReleaseHeader(p) \/ Detach(p) \/ Stat(p) \/ Remove(p) \/ Stop(p)
          PROVE  num' = num
      BY <3>5 DEF Attach, OpenLock, OpenFails, UnlinkLock, Lock, InitHeader, Unlock,
         TestSlot, MarkSlot, FillSlot, LockAgain, ReleaseTest, UnmarkSlot, WipeSlot,
         ReleaseHeader, Detach, Stat, Remove, Stop, locals
    <3> QED
      BY <1>1, <3>1, <3>3, <3>4, <3>5 DEF Progress
  <2> QED
    BY <1>0, <2>2, <2>3, <2>4, <2>5, CountedKept
<1>2. CASE UNCHANGED vars
  BY <1>0, <1>2 DEF vars, files, locals, history, Counted, Within, At
<1> QED
  BY <1>1, <1>2, StartCounted, ForkCounted, WriteCounted, LeaveCounted DEF Next, Progress

LEMMA TypeInvInit == Init => TypeInv
<1> SUFFICES ASSUME Init PROVE TypeInv
  OBVIOUS
<1>1. SlotsInv
  BY InvInit
<1>2. Fields
  BY ShmAssumption DEF Init, Fields
<1>3. At(ToCount) = {} /\ At(ToLeave) = {}
  BY DEF Init, At, ToCount, ToLeave, Ctor
<1>4. Within(0)
  BY <1>3, FS_EmptySet DEF Init, Within
<1>5. Counted
  BY <1>4 DEF Init, Counted, NewSegment
<1> QED
  BY <1>1, <1>2, <1>5 DEF TypeInv

(* The strengthening that makes the types of MoltenShm inductive: lost     *)
(* updates of attach_num and forked workers are what it has to bound.      *)
THEOREM TypeInvAlways == Spec => []TypeInv
<1>1. TypeInv /\ [Next]_vars => TypeInv'
  BY InvNext, FieldsNext, CountedNext DEF TypeInv
<1> QED
  BY <1>1, TypeInvInit, PTL DEF Spec

(***************************************************************************)
(* Every state is well typed.  In particular attach_num never differs from *)
(* 0 by more than the number of processes there have been, whatever loads  *)
(* and stores of it overlap (mo_shm_ctor) and however many workers leave   *)
(* that never counted (mo_shm_dtor).                                       *)
(***************************************************************************)
THEOREM ShmTypes == Spec => []TypeOK
<1>1. TypeInv => TypeOK
  <2> SUFFICES ASSUME TypeInv PROVE TypeOK
    OBVIOUS
  <2>1. /\ Shape /\ Fields /\ Counted /\ MaxStarts \in Nat
    BY ShmAssumption DEF TypeInv, SlotsInv
  <2>2. ASSUME NEW s \in Seg PROVE segs[s].attach_num \in -MaxStarts .. MaxStarts
    <3>1. /\ Cardinality(At(ToCount)) \in Nat /\ Cardinality(At(ToLeave)) \in Nat
          /\ segs[s].attach_num \in Int
      BY <2>1, AtFinite DEF Shape
    <3>2. /\ segs[s].attach_num + Cardinality(At(ToCount)) <= starts
          /\ Cardinality(At(ToLeave)) <= segs[s].attach_num + starts
      BY <2>1 DEF Counted, Within
    <3> QED
      BY <2>1, <3>1, <3>2 DEF Fields
  <2>3. segs \in [Seg -> [ready : BOOLEAN, attach_num : -MaxStarts .. MaxStarts,
                          slots : [Slots -> Slot]]]
    <3> SUFFICES ASSUME NEW s \in Seg
                 PROVE  segs[s] \in [ready : BOOLEAN, attach_num : -MaxStarts .. MaxStarts,
                                     slots : [Slots -> Slot]]
      BY <2>1 DEF Shape
    <3>1. segs[s] \in [ready : BOOLEAN, attach_num : Int, slots : [Slots -> Slot]]
      BY <2>1 DEF Shape
    <3> QED
      BY <2>2, <3>1
  <2> QED
    BY <2>1, <2>3 DEF TypeOK, Shape, Fields
<1> QED
  BY <1>1, TypeInvAlways, PTL

-----------------------------------------------------------------------------
(***************************************************************************)
(* The lock file.  Steps that are not about a lock keep who is inside and  *)
(* with which file.                                                        *)
(***************************************************************************)
LEMMA OwnedKept ==
  ASSUME LockOwned, Shape, Fields, NEW p \in Proc, NEW to \in PC,
         pc' = [pc EXCEPT ![p] = to], pc[p] \in Locked <=> to \in Locked,
         UNCHANGED <<fd, holder>>
  PROVE  LockOwned'
<1>1. \A q \in Proc : pc'[q] \in Locked <=> pc[q] \in Locked
  BY DEF Shape
<1>2. \A i \in Inode : holder[i] # None => holder[i] \in Proc
  BY DEF Fields
<1> QED
  BY <1>1, <1>2 DEF LockOwned

(* The process ends, and the kernel releases what it owned.                *)
LEMMA OwnedVanish ==
  ASSUME LockOwned, Shape, Fields, NEW p \in Proc, Vanish(p)
  PROVE  LockOwned'
<1>0. None \notin Proc \cup Inode /\ "none" \notin Locked
  BY ShmAssumption DEF Locked, Dtor
<1>1. /\ \A q \in Proc : q # p => pc'[q] = pc[q] /\ fd'[q] = fd[q]
      /\ pc'[p] = "none" /\ fd'[p] = None
      /\ \A i \in Inode : holder'[i] = IF holder[i] = p THEN None ELSE holder[i]
  BY DEF Vanish, Shape, Fields
<1>2. \A i \in Inode : holder[i] # None => holder[i] \in Proc
  BY DEF Fields
<1>3. \A q \in Proc : fd[q] # None => fd[q] \in Inode
  BY DEF Fields
<1> QED
  BY <1>0, <1>1, <1>2, <1>3 DEF LockOwned

LEMMA OwnedNext ==
  ASSUME TypeInv, LockOwned, [Next]_vars PROVE LockOwned'
<1>0. /\ Shape /\ Fields /\ None \notin Proc \cup Inode
      /\ pc \in [Proc -> PC] /\ fd \in [Proc -> Inode \cup {None}]
      /\ holder \in [Inode -> Proc \cup {None}]
  BY ShmAssumption DEF TypeInv, SlotsInv, Shape, Fields
<1>1. CASE UNCHANGED vars
  BY <1>1 DEF vars, files, locals, LockOwned
(* Steps outside, or inside. *)
<1>2. ASSUME NEW p \in Proc,
             \/ Start(p) \/ Attach(p) \/ OpenFails(p) \/ UnlinkLock(p)
             \/ InitHeader(p) \/ ReadNum(p) \/ WriteNum(p)
             \/ TestSlot(p) \/ MarkSlot(p) \/ FillSlot(p) \/ Stop(p)
             \/ Leave(p) \/ ReleaseTest(p) \/ UnmarkSlot(p) \/ WipeSlot(p)
             \/ ReleaseHeader(p) \/ Detach(p) \/ Stat(p) \/ Remove(p)
      PROVE  LockOwned'
  <2>1. UNCHANGED <<fd, holder>>
    BY <1>2 DEF Start, Attach, OpenFails, UnlinkLock, InitHeader, ReadNum, WriteNum,
         TestSlot, MarkSlot, FillSlot, Stop, Leave, ReleaseTest, UnmarkSlot, WipeSlot,
         ReleaseHeader, Detach, Stat, Remove, files, locals, history
  <2>2. \/ pc' = pc
        \/ \E to \in PC : /\ pc' = [pc EXCEPT ![p] = to]
                          /\ pc[p] \in Locked <=> to \in Locked
    <3>1. CASE Start(p) \/ Attach(p) \/ OpenFails(p) \/ UnlinkLock(p)
      BY <3>1 DEF Start, Attach, OpenFails, UnlinkLock, Goto, AfterHeader, Locked, PC,
         Ctor, Dtor
    <3>2. CASE TestSlot(p) \/ MarkSlot(p) \/ FillSlot(p) \/ Stop(p)
      BY <3>2 DEF TestSlot, MarkSlot, FillSlot, Stop, Goto, Locked, PC, Ctor, Dtor
    <3>3. CASE InitHeader(p) \/ ReadNum(p) \/ WriteNum(p) \/ Leave(p)
      BY <3>3 DEF InitHeader, ReadNum, WriteNum, Leave, Goto, Locked, PC, Ctor, Dtor
    <3>4. CASE UnmarkSlot(p) \/ WipeSlot(p) \/ ReleaseHeader(p)
      BY <3>4 DEF UnmarkSlot, WipeSlot, ReleaseHeader, Goto, Locked, PC, Ctor, Dtor
    <3>6. CASE ReleaseTest(p)
      BY <3>6 DEF ReleaseTest, Locked, PC, Ctor, Dtor
    <3>5. CASE Detach(p) \/ Stat(p) \/ Remove(p)
      BY <3>5 DEF Detach, Stat, Remove, Goto, Locked, PC, Ctor, Dtor
    <3> QED
      BY <1>2, <3>1, <3>2, <3>3, <3>4, <3>5, <3>6
  <2>3. CASE pc' = pc
    BY <2>1, <2>3 DEF LockOwned
  <2> QED
    BY <1>0, <2>1, <2>2, <2>3, OwnedKept
<1>3. ASSUME NEW p \in Proc, OpenLock(p) PROVE LockOwned'
  <2>1. /\ pc[p] = "open" /\ pc' = [pc EXCEPT ![p] = "unlink"]
        /\ fd' = [fd EXCEPT ![p] = path'] /\ UNCHANGED holder
    BY <1>3 DEF OpenLock, Goto
  <2>2. /\ pc'[p] \notin Locked /\ pc[p] \notin Locked
        /\ \A q \in Proc : q # p => pc'[q] = pc[q] /\ fd'[q] = fd[q]
    BY <1>0, <2>1 DEF Locked, Dtor
  <2>3. \A i \in Inode : holder[i] # None => holder[i] \in Proc /\ holder[i] # p
    BY <1>0, <2>2 DEF LockOwned
  <2> QED
    BY <2>1, <2>2, <2>3 DEF LockOwned
(* fcntl grants the lock, or there is no lock file. *)
<1>4. ASSUME NEW p \in Proc, Lock(p) \/ LockAgain(p) PROVE LockOwned'
  <2>1. /\ pc[p] \notin Locked /\ Acquire(p) /\ UNCHANGED fd
        /\ \E to \in Locked : pc' = [pc EXCEPT ![p] = to]
    BY <1>4 DEF Lock, LockAgain, Goto, Locked, Dtor, locals
  <2>2. /\ pc'[p] \in Locked
        /\ \A q \in Proc : q # p => pc'[q] = pc[q]
    BY <1>0, <2>1
  <2>3. \A i \in Inode : holder[i] # None => holder[i] \in Proc /\ holder[i] # p
    BY <1>0, <2>1 DEF LockOwned
  <2>4. CASE fd[p] = None
    <3>1. UNCHANGED holder
      BY <2>1, <2>4 DEF Acquire
    <3> QED
      BY <2>1, <2>2, <2>3, <2>4, <3>1 DEF LockOwned
  <2>5. CASE fd[p] # None
    <3>1. fd[p] \in Inode /\ holder[fd[p]] = None
      BY <1>0, <2>1, <2>3, <2>5 DEF Acquire
    <3>2. /\ holder'[fd[p]] = p
          /\ \A i \in Inode : i # fd[p] => holder'[i] = holder[i]
      BY <1>0, <2>1, <2>5, <3>1 DEF Acquire
    <3>3. \A q \in Proc : pc[q] \in Locked /\ fd[q] # None => fd[q] \in Inode /\ fd[q] # fd[p]
      BY <1>0, <3>1 DEF LockOwned
    <3> QED
      BY <2>1, <2>2, <2>3, <3>1, <3>2, <3>3 DEF LockOwned
  <2> QED
    BY <2>4, <2>5
<1>5. ASSUME NEW p \in Proc, Unlock(p) PROVE LockOwned'
  <2>1. /\ pc[p] = "unlock" /\ Release(p) /\ UNCHANGED fd
        /\ \E to \in {"running", "test"} : pc' = [pc EXCEPT ![p] = to]
    BY <1>5 DEF Unlock, Goto, AfterHeader, locals
  <2>2. /\ pc[p] \in Locked /\ pc'[p] \notin Locked
        /\ \A q \in Proc : q # p => pc'[q] = pc[q]
    BY <1>0, <2>1 DEF Locked, Dtor
  <2>3. CASE fd[p] = None
    <3>1. UNCHANGED holder
      BY <2>1, <2>3 DEF Release
    <3>2. \A i \in Inode : holder[i] # None => holder[i] \in Proc /\ holder[i] # p
      BY <1>0, <2>3 DEF LockOwned
    <3> QED
      BY <2>1, <2>2, <3>1, <3>2 DEF LockOwned
  <2>4. CASE fd[p] # None
    <3>1. fd[p] \in Inode /\ holder[fd[p]] = p
      BY <1>0, <2>2, <2>4 DEF LockOwned
    <3>2. /\ holder'[fd[p]] = None
          /\ \A i \in Inode : i # fd[p] => holder'[i] = holder[i]
      BY <1>0, <2>1, <2>4, <3>1 DEF Release
    <3>3. \A i \in Inode : i # fd[p] /\ holder[i] # None => holder[i] \in Proc /\ holder[i] # p
      BY <1>0 DEF LockOwned
    <3>4. \A q \in Proc : q # p /\ pc[q] \in Locked /\ fd[q] # None
                            => fd[q] \in Inode /\ fd[q] # fd[p]
      BY <1>0, <3>1 DEF LockOwned
    <3> QED
      BY <2>1, <2>2, <3>2, <3>3, <3>4 DEF LockOwned
  <2> QED
    BY <2>3, <2>4
<1>6. ASSUME NEW p \in Proc, AttachFails(p) \/ LeaveFails(p) \/ Close(p) \/ Crash(p)
      PROVE  LockOwned'
  <2>1. \/ Vanish(p)
        \/ /\ pc[p] = "attach" /\ pc' = [pc EXCEPT ![p] = "running"]
           /\ UNCHANGED <<fd, holder>>
    BY <1>6 DEF AttachFails, LeaveFails, Close, Crash, Goto, locals
  <2>2. "attach" \notin Locked /\ "running" \notin Locked /\ "running" \in PC
    BY DEF Locked, Dtor, PC
  <2> QED
    BY <1>0, <2>1, <2>2, OwnedKept, OwnedVanish
(* A forked worker has the file and not the lock. *)
<1>7. ASSUME NEW p \in Proc, NEW c \in Proc, Fork(p, c) PROVE LockOwned'
  <2>1. /\ pc[c] = "none" /\ pc' = [pc EXCEPT ![c] = "running"]
        /\ fd' = [fd EXCEPT ![c] = fd[p]] /\ UNCHANGED holder
    BY <1>7 DEF Fork, Goto, files
  <2>2. /\ pc'[c] \notin Locked /\ pc[c] \notin Locked
        /\ \A q \in Proc : q # c => pc'[q] = pc[q] /\ fd'[q] = fd[q]
    BY <1>0, <2>1 DEF Locked, Dtor
  <2>3. \A i \in Inode : holder[i] # None => holder[i] \in Proc /\ holder[i] # c
    BY <1>0, <2>2 DEF LockOwned
  <2> QED
    BY <2>1, <2>2, <2>3 DEF LockOwned
<1> QED
  BY <1>1, <1>2, <1>3, <1>4, <1>5, <1>6, <1>7 DEF Next, Progress

(***************************************************************************)
(* LockOwned: the lock file keeps processes apart that were forked from    *)
(* one master, wherever others are killed; and no lock outlives its owner  *)
(* or waits for another lock, which is why NobodyStuck holds.              *)
(***************************************************************************)
THEOREM LockAlwaysOwned == Spec => []LockOwned
<1>1. Init => LockOwned
  BY DEF Init, LockOwned, Locked, Dtor
<1>2. TypeInv /\ LockOwned /\ [Next]_vars => LockOwned'
  BY OwnedNext
<1> QED
  BY <1>1, <1>2, TypeInvAlways, PTL DEF Spec

=============================================================================
