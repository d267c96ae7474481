------------------------------ MODULE MoltenShm ------------------------------
(***************************************************************************)
(* The shared memory segment and its file lock (common/molten_shm.c,       *)
(* common/molten_lock.c), over the processes that load the extension: each *)
(* attaches in MINIT (mo_shm_ctor, then mo_create_slot three times from    *)
(* mo_ctrl_ctor), a web master forks workers that inherit its mapping and  *)
(* its lock descriptor, and every one of them runs mo_shm_dtor in          *)
(* MSHUTDOWN, the forked ones too.  A process may be killed at any step.   *)
(*                                                                         *)
(* The kernel's side (shmget, shmat, IPC_RMID, fcntl, open, unlink) is what*)
(* the code relies on: a removed segment lives until its last detach, and  *)
(* a dead process leaves no mapping and no lock behind.                    *)
(***************************************************************************)
EXTENDS Integers, FiniteSets

CONSTANTS
  Proc,         \* process ids
  Seg,          \* ids of segments
  Inode,        \* inodes that /tmp/.molten.dddddd may have
  NumSlots,     \* slots that mo_ctrl_ctor creates, numbered from 0
  MaxStarts,    \* bound: processes started or forked in all
  MaxFaults,    \* bound: processes killed, and system calls that fail
  None

ASSUME ShmAssumption ==
  /\ IsFiniteSet(Proc)
  /\ IsFiniteSet(Seg) /\ Cardinality(Seg) > Cardinality(Proc)
  /\ IsFiniteSet(Inode) /\ Cardinality(Inode) > Cardinality(Proc)
  /\ NumSlots \in Nat /\ MaxStarts \in Nat /\ MaxFaults \in Nat
  /\ None \notin Proc \cup Seg \cup Inode

VARIABLES
  key,          \* the segment behind ftok("/tmp", 7312)
  segs,         \* the content of each segment
  path,         \* the inode behind the name of the lock file
  holder,       \* the process that has each inode locked
  cli,          \* the CLI processes: they use no slots (pct.is_cli)
  pc,           \* where a process is in mo_shm_ctor or mo_shm_dtor
  shm_id,       \* msm->shm_id
  mapped,       \* the segment is in the address space
  fd,           \* the inode behind msm->init_lock.fd
  num,          \* attach_num as read by attach_num++
  slot,         \* the next slot to create, or to release
  starts,       \* processes so far
  faults,       \* kills and failed calls so far
  torn,         \* slots whose process was killed between init and the copy
  raced         \* slots created while a destructor was about to clear them

files == <<path, holder>>
locals == <<cli, shm_id, mapped, fd, num, slot>>
history == <<starts, faults, torn, raced>>
vars == <<key, segs, files, pc, locals, history>>

Slots == 0 .. NumSlots - 1
Slot == [init : BOOLEAN, filled : BOOLEAN]
EmptySlot == [init |-> FALSE, filled |-> FALSE]

(* ready: the magic, init and slot_num of the header, written together under *)
(* the lock with the same values by everyone.                                *)
NewSegment == [ready |-> FALSE, attach_num |-> 0,
               slots |-> [i \in Slots |-> EmptySlot]]

Ctor == {"attach", "open", "unlink", "lock", "header", "read", "write",
         "unlock", "test", "mark", "fill"}
Dtor == {"lock_again", "leave", "release", "unmark", "wipe", "detach", "stat",
         "remove", "close"}
PC == {"none", "running"} \cup Ctor \cup Dtor

Init ==
  /\ key = None
  /\ segs = [s \in Seg |-> NewSegment]
  /\ path = None /\ holder = [i \in Inode |-> None]
  /\ cli = {} /\ pc = [p \in Proc |-> "none"]
  /\ shm_id = [p \in Proc |-> None] /\ mapped = [p \in Proc |-> FALSE]
  /\ fd = [p \in Proc |-> None]
  /\ num = [p \in Proc |-> 0] /\ slot = [p \in Proc |-> 0]
  /\ starts = 0 /\ faults = 0 /\ torn = {} /\ raced = {}

Goto(p, from, to) ==
  /\ pc[p] = from
  /\ pc' = [pc EXCEPT ![p] = to]

Fault == faults < MaxFaults /\ faults' = faults + 1

(* shm_nattch *)
Attached(s) == {p \in Proc : mapped[p] /\ shm_id[p] = s}

(* The kernel has freed a segment that nobody can reach. *)
Freed(s) == key # s /\ Attached(s) = {}
Reusable(s) == Freed(s) /\ \A p \in Proc : shm_id[p] # s
Unlinked(i) == path # i /\ \A p \in Proc : fd[p] # i

(* The end of a process, however it ends. *)
Vanish(p) ==
  /\ pc' = [pc EXCEPT ![p] = "none"]
  /\ cli' = cli \ {p}
  /\ shm_id' = [shm_id EXCEPT ![p] = None]
  /\ mapped' = [mapped EXCEPT ![p] = FALSE]
  /\ fd' = [fd EXCEPT ![p] = None]
  /\ num' = [num EXCEPT ![p] = 0] /\ slot' = [slot EXCEPT ![p] = 0]
  /\ holder' = [i \in Inode |-> IF holder[i] = p THEN None ELSE holder[i]]
-----------------------------------------------------------------------------
(***************************************************************************)
(* MINIT.  shmget finds the segment or creates it, filled with zeros; or   *)
(* ftok or shmget fails, and there is no segment to attach.                *)
(***************************************************************************)
Start(p) ==
  /\ Goto(p, "none", "attach")
  /\ starts < MaxStarts /\ starts' = starts + 1
  /\ cli' \in {cli, cli \cup {p}}
  /\ \/ /\ key # None
        /\ shm_id' = [shm_id EXCEPT ![p] = key]
        /\ UNCHANGED <<key, segs, faults, torn, raced>>
     \/ /\ Fault
        /\ UNCHANGED <<key, segs, shm_id, torn, raced>>
     \/ /\ key = None
        /\ LET s == CHOOSE s \in Seg : Reusable(s)
           IN  /\ key' = s
               /\ segs' = [segs EXCEPT ![s] = NewSegment]
               /\ torn' = {x \in torn : x[1] # s}
               /\ raced' = {x \in raced : x[1] # s}
               /\ shm_id' = [shm_id EXCEPT ![p] = s]
        /\ UNCHANGED faults
  /\ UNCHANGED <<files, mapped, fd, num, slot>>

Attach(p) ==
  /\ Goto(p, "attach", "open")
  /\ shm_id[p] # None /\ ~Freed(shm_id[p])
  /\ mapped' = [mapped EXCEPT ![p] = TRUE]
  /\ UNCHANGED <<key, segs, files, cli, shm_id, fd, num, slot, history>>

(* There is no segment, or it went away since shmget, or shmat fails: then *)
(* mo_shm_ctor returns before the slot pointers are set.  A web process    *)
(* dies when it creates its first slot, a CLI process only when it exits.  *)
AttachFails(p) ==
  /\ pc[p] = "attach"
  /\ IF shm_id[p] = None \/ Freed(shm_id[p]) THEN UNCHANGED faults ELSE Fault
  /\ IF p \in cli
       THEN Goto(p, "attach", "running") /\ UNCHANGED <<locals, holder>>
       ELSE Vanish(p)
  /\ UNCHANGED <<key, segs, path, starts, torn, raced>>

(* mo_fcntl_locK_init: open with O_CREAT, then unlink. *)
OpenLock(p) ==
  /\ Goto(p, "open", "unlink")
  /\ path' = IF path # None THEN path ELSE CHOOSE i \in Inode : Unlinked(i)
  /\ fd' = [fd EXCEPT ![p] = path']
  /\ UNCHANGED <<key, segs, holder, cli, shm_id, mapped, num, slot, history>>

AfterHeader(p) == IF p \in cli THEN "running" ELSE "test"

(* Without a lock file the header is left alone. *)
OpenFails(p) ==
  /\ Goto(p, "open", AfterHeader(p))
  /\ Fault
  /\ UNCHANGED <<key, segs, files, locals, starts, torn, raced>>

UnlinkLock(p) ==
  /\ Goto(p, "unlink", "lock")
  /\ path' = None
  /\ UNCHANGED <<key, segs, holder, locals, history>>

(* Mutant of Acquire: F_SETLK, and nobody looks at what it returns. *)
AcquireTry(p) ==
  IF fd[p] = None \/ holder[fd[p]] \notin {None, p} THEN UNCHANGED holder
  ELSE holder' = [holder EXCEPT ![fd[p]] = p]

(* fcntl F_SETLKW; it fails at once on a descriptor that is not open. *)
Acquire(p) ==
  IF fd[p] = None THEN UNCHANGED holder
  ELSE /\ holder[fd[p]] \in {None, p}
       /\ holder' = [holder EXCEPT ![fd[p]] = p]

(* Mutant of Release: the lock is kept. *)
ReleaseNothing(p) == UNCHANGED holder
Release(p) ==
  IF fd[p] = None THEN UNCHANGED holder
  ELSE holder' = [holder EXCEPT ![fd[p]] = IF @ = p THEN None ELSE @]

Lock(p) ==
  /\ Goto(p, "lock", "header")
  /\ Acquire(p)
  /\ UNCHANGED <<key, segs, path, locals, history>>

InitHeader(p) ==
  /\ Goto(p, "header", "read")
  /\ segs' = [segs EXCEPT ![shm_id[p]].ready = TRUE]
  /\ UNCHANGED <<key, files, locals, history>>

(* attach_num++ is a load and a store. *)
ReadNum(p) ==
  /\ Goto(p, "read", "write")
  /\ num' = [num EXCEPT ![p] = segs[shm_id[p]].attach_num]
  /\ UNCHANGED <<key, segs, files, cli, shm_id, mapped, fd, slot, history>>

WriteNum(p) ==
  /\ Goto(p, "write", "unlock")
  /\ segs' = [segs EXCEPT ![shm_id[p]].attach_num = num[p] + 1]
  /\ num' = [num EXCEPT ![p] = 0]
  /\ UNCHANGED <<key, files, cli, shm_id, mapped, fd, slot, history>>

Unlock(p) ==
  /\ Goto(p, "unlock", AfterHeader(p))
  /\ Release(p)
  /\ UNCHANGED <<key, segs, path, locals, history>>

(***************************************************************************)
(* mo_create_slot, once per slot and without the lock: the flag is tested, *)
(* then set and the payload zeroed, then the payload is copied in.         *)
(***************************************************************************)
TestSlot(p) ==
  /\ pc[p] = "test"
  /\ \/ /\ slot[p] = NumSlots
        /\ pc' = [pc EXCEPT ![p] = "running"]
        /\ UNCHANGED slot
     \/ /\ slot[p] < NumSlots
        /\ segs[shm_id[p]].slots[slot[p]].init
        /\ slot' = [slot EXCEPT ![p] = @ + 1]
        /\ UNCHANGED pc
     \/ /\ slot[p] < NumSlots
        /\ ~segs[shm_id[p]].slots[slot[p]].init
        /\ pc' = [pc EXCEPT ![p] = "mark"]
        /\ UNCHANGED slot
  /\ UNCHANGED <<key, segs, files, cli, shm_id, mapped, fd, num, history>>

(* A destructor has found the slot unused and has yet to clear it. *)
Clearing(s, i) ==
  \E q \in Proc : pc[q] \in {"unmark", "wipe"} /\ shm_id[q] = s /\ slot[q] = i

MarkSlot(p) ==
  /\ Goto(p, "mark", "fill")
  /\ segs' = [segs EXCEPT ![shm_id[p]].slots[slot[p]] =
                [init |-> TRUE, filled |-> FALSE]]
  /\ LET x == <<shm_id[p], slot[p]>>
     IN  raced' = IF Clearing(x[1], x[2]) THEN raced \cup {x} ELSE raced \ {x}
  /\ UNCHANGED <<key, files, locals, starts, faults, torn>>

FillSlot(p) ==
  /\ Goto(p, "fill", "test")
  /\ segs' = [segs EXCEPT ![shm_id[p]].slots[slot[p]].filled = TRUE]
  /\ slot' = [slot EXCEPT ![p] = @ + 1]
  /\ UNCHANGED <<key, files, cli, shm_id, mapped, fd, num, history>>

(* A web master forks a worker, which shares its mapping and its file. *)
Fork(p, c) ==
  /\ pc[p] = "running" /\ p \notin cli
  /\ Goto(c, "none", "running")
  /\ starts < MaxStarts /\ starts' = starts + 1
  /\ shm_id' = [shm_id EXCEPT ![c] = shm_id[p]]
  /\ mapped' = [mapped EXCEPT ![c] = TRUE]
  /\ fd' = [fd EXCEPT ![c] = fd[p]]
  /\ slot' = [slot EXCEPT ![c] = slot[p]]
  /\ UNCHANGED <<key, segs, files, cli, num, faults, torn, raced>>
-----------------------------------------------------------------------------
(***************************************************************************)
(* MSHUTDOWN: mo_shm_dtor.                                                 *)
(***************************************************************************)
Stop(p) ==
  /\ Goto(p, "running", "lock_again")
  /\ UNCHANGED <<key, segs, files, locals, history>>

LockAgain(p) ==
  /\ Goto(p, "lock_again", "leave")
  /\ Acquire(p)
  /\ UNCHANGED <<key, segs, path, locals, history>>

(* Mutant of Left: the destructor counts up. *)
LeftUp(n) == n + 1
Left(n) == n - 1

(* __sync_sub_and_fetch(&attach_num, 1) == 0 *)
Leave(p) ==
  LET n == Left(segs[shm_id[p]].attach_num)
  IN  /\ mapped[p]
      /\ Goto(p, "leave", IF n = 0 THEN "release" ELSE "detach")
      /\ segs' = [segs EXCEPT ![shm_id[p]].attach_num = n]
      /\ slot' = [slot EXCEPT ![p] = 0]
      /\ UNCHANGED <<key, files, cli, shm_id, mapped, fd, num, history>>

(* msm->msh is still null: the process dies, with its lock if it has one. *)
LeaveFails(p) ==
  /\ pc[p] = "leave" /\ ~mapped[p]
  /\ Vanish(p)
  /\ UNCHANGED <<key, segs, path, history>>

(* Mutant of Unused: the test of mo_realse_slot the other way round. *)
UnusedInverted(s) == s.init
Unused(s) == ~s.init

(***************************************************************************)
(* mo_realse_slot, once per slot, clears a slot that is NOT initialised:   *)
(* magic, init and length, then the payload.  It holds the file lock, which*)
(* mo_create_slot does not take, and slot_num, the bound of the loop, is 0 *)
(* in a header that is not ready.                                          *)
(***************************************************************************)
MoreToRelease(p) == slot[p] < NumSlots /\ segs[shm_id[p]].ready

ReleaseTest(p) ==
  /\ pc[p] = "release" /\ MoreToRelease(p)
  /\ \/ /\ Unused(segs[shm_id[p]].slots[slot[p]])
        /\ pc' = [pc EXCEPT ![p] = "unmark"]
        /\ UNCHANGED slot
     \/ /\ ~Unused(segs[shm_id[p]].slots[slot[p]])
        /\ slot' = [slot EXCEPT ![p] = @ + 1]
        /\ UNCHANGED pc
  /\ UNCHANGED <<key, segs, files, cli, shm_id, mapped, fd, num, history>>

UnmarkSlot(p) ==
  /\ Goto(p, "unmark", "wipe")
  /\ segs' = [segs EXCEPT ![shm_id[p]].slots[slot[p]].init = FALSE]
  /\ UNCHANGED <<key, files, locals, history>>

WipeSlot(p) ==
  /\ Goto(p, "wipe", "release")
  /\ segs' = [segs EXCEPT ![shm_id[p]].slots[slot[p]].filled = FALSE]
  /\ slot' = [slot EXCEPT ![p] = @ + 1]
  /\ UNCHANGED <<key, files, cli, shm_id, mapped, fd, num, history>>

ReleaseHeader(p) ==
  /\ Goto(p, "release", "detach")
  /\ ~MoreToRelease(p)
  /\ segs' = [segs EXCEPT ![shm_id[p]].ready = FALSE]
  /\ slot' = [slot EXCEPT ![p] = 0]
  /\ UNCHANGED <<key, files, cli, shm_id, mapped, fd, num, history>>

Detach(p) ==
  /\ Goto(p, "detach", "stat")
  /\ mapped' = [mapped EXCEPT ![p] = FALSE]
  /\ UNCHANGED <<key, segs, files, cli, shm_id, fd, num, slot, history>>

(* shmctl fails on a segment that another process removed. *)
Stat(p) ==
  /\ Goto(p, "stat", IF ~Freed(shm_id[p]) /\ Attached(shm_id[p]) = {}
                       THEN "remove" ELSE "close")
  /\ UNCHANGED <<key, segs, files, locals, history>>

Remove(p) ==
  /\ Goto(p, "remove", "close")
  /\ key' = IF key = shm_id[p] THEN None ELSE key
  /\ UNCHANGED <<segs, files, locals, history>>

(* Unlock, close, exit. *)
Close(p) ==
  /\ pc[p] = "close"
  /\ Vanish(p)
  /\ UNCHANGED <<key, segs, path, history>>

Crash(p) ==
  /\ pc[p] # "none"
  /\ Fault
  /\ torn' = torn \cup (IF pc[p] = "fill" THEN {<<shm_id[p], slot[p]>>} ELSE {})
  /\ Vanish(p)
  /\ UNCHANGED <<key, segs, path, starts, raced>>

(* The steps of a constructor or destructor that has begun. *)
Progress(p) ==
  \/ Attach(p) \/ AttachFails(p) \/ OpenLock(p) \/ OpenFails(p)
  \/ UnlinkLock(p) \/ Lock(p) \/ InitHeader(p) \/ ReadNum(p) \/ WriteNum(p)
  \/ Unlock(p) \/ TestSlot(p) \/ MarkSlot(p) \/ FillSlot(p)
  \/ LockAgain(p) \/ Leave(p) \/ LeaveFails(p)
  \/ ReleaseTest(p) \/ UnmarkSlot(p) \/ WipeSlot(p) \/ ReleaseHeader(p)
  \/ Detach(p) \/ Stat(p) \/ Remove(p) \/ Close(p)

Next == \E p \in Proc : \/ Start(p) \/ Progress(p) \/ Stop(p) \/ Crash(p)
                        \/ \E c \in Proc : Fork(p, c)

Spec == Init /\ [][Next]_vars

(* The kernel schedules every process and grants a lock that is free. *)
FairSpec == Spec /\ \A p \in Proc : WF_vars(Progress(p))
-----------------------------------------------------------------------------
TypeOK ==
  /\ key \in Seg \cup {None}
  /\ segs \in [Seg -> [ready : BOOLEAN, attach_num : -MaxStarts .. MaxStarts,
                       slots : [Slots -> Slot]]]
  /\ path \in Inode \cup {None}
  /\ holder \in [Inode -> Proc \cup {None}]
  /\ cli \subseteq Proc /\ pc \in [Proc -> PC]
  /\ shm_id \in [Proc -> Seg \cup {None}]
  /\ mapped \in [Proc -> BOOLEAN]
  /\ fd \in [Proc -> Inode \cup {None}]
  /\ num \in [Proc -> Int]
  /\ slot \in [Proc -> 0 .. NumSlots]
  /\ starts \in 0 .. MaxStarts /\ faults \in 0 .. MaxFaults
  /\ torn \subseteq Seg \X Slots /\ raced \subseteq Seg \X Slots

(***************************************************************************)
(* A web process that runs finds every slot initialised and filled, or     *)
(* being filled by a process that started at the same time, although       *)
(* attach_num counts masters only and reaches 0, which makes a process     *)
(* release the slots, when the first of several forked workers exits.      *)
(* There are two ways to lose a slot, and no other.  A process that is     *)
(* killed between init and the copy leaves one that nobody fills again; and*)
(* a destructor that found a slot unused clears it although it was created *)
(* since, because mo_create_slot does not take the lock: it stays so until *)
(* a later process creates it again.                                       *)
(***************************************************************************)
Filling(s, i) ==
  \E q \in Proc : pc[q] = "fill" /\ shm_id[q] = s /\ slot[q] = i

SlotsReady ==
  \A p \in Proc \ cli : pc[p] = "running" =>
    \A i \in Slots :
      \/ <<shm_id[p], i>> \in raced
      \/ /\ segs[shm_id[p]].slots[i].init
         /\ \/ segs[shm_id[p]].slots[i].filled
            \/ Filling(shm_id[p], i)
            \/ <<shm_id[p], i>> \in torn

(***************************************************************************)
(* Every process that has begun to attach or to detach gets through, or    *)
(* dies: nobody waits for a lock whose holder is gone.                     *)
(***************************************************************************)
Settled(p) == pc[p] \in {"none", "running"}
NobodyStuck == \A p \in Proc : ~Settled(p) ~> Settled(p)

(***************************************************************************)
(* molten_shm.c:56: `for all process use one file lock': two processes are *)
(* never between lock and unlock at the same time.                         *)
(***************************************************************************)
Locked == {"header", "read", "write", "unlock"} \cup (Dtor \ {"lock_again"})

OneFileLock ==
  \A p, q \in Proc :
    pc[p] \in Locked /\ fd[p] # None /\ pc[q] \in Locked /\ fd[q] # None
      => p = q

(***************************************************************************)
(* Whoever is between lock and unlock with a lock file owns the lock of    *)
(* that file, so processes that share one, a master and the workers it     *)
(* forked, are inside one at a time.  Nobody else owns a lock: who waits   *)
(* for one, waits for a process that waits for none.                       *)
(***************************************************************************)
LockOwned ==
  /\ \A p \in Proc : pc[p] \in Locked /\ fd[p] # None => holder[fd[p]] = p
  /\ \A i \in Inode :
       holder[i] # None => pc[holder[i]] \in Locked /\ fd[holder[i]] = i
=============================================================================
