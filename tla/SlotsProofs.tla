---------------------------- MODULE SlotsProofs ----------------------------
(***************************************************************************)
(* Proofs about module Slots, for every set of processes, slots and queues *)
(* and whatever order the calls are interleaved in: its types, and that    *)
(* two processes share a slot only after one of them was evicted.  With    *)
(* the calls of pickslot() and freeslot() one at a time also: an owner     *)
(* finds its own pid in its slot, enter_sem is given back, and free_slots  *)
(* is never too low.  With overlapping calls none of these three holds.    *)
(***************************************************************************)
EXTENDS Slots, FiniteSetTheorems, TLAPS

(***************************************************************************)
(* The typing invariant, strengthened with what a program counter says     *)
(* about the actor's own variables.                                        *)
(***************************************************************************)

\* A connected process has a queue.
HasQueue == \A p \in Proc : pc[p] \notin {"new", "gone"} => wq[p] \in Queue

\* The loop index is inside Scan where it is used as an index.
CursorOK ==
  \A p \in Proc :
    /\ cur[p] >= 1
    /\ pc[p] = "new" => cur[p] = 1
    /\ pc[p] \in {"lock", "take"} => cur[p] <= Len(Scan[wq[p]])

\* An actor inside freeslot(), and a process that was given a slot, has one;
\* a process that still looks for a slot has none.
SlotOK ==
  /\ \A a \in Actor : pc[a] \in FreePCs => slot[a] \in Slot
  /\ \A p \in Proc : pc[p] \in {"setup", "dec", "dec2", "claim"} \cup MainPCs => slot[p] \in Slot
  /\ \A p \in Proc : pc[p] \in {"new", "wait", "sem", "check", "scan", "lock", "take"} => slot[p] = None

TInv == TypeOK /\ HasQueue /\ CursorOK /\ SlotOK

\* The number of slots of a queue is a number: Scan[q] is finite.
LEMMA MaxSlotsType == \A q \in Queue : MaxSlots(q) \in Nat
<1> SUFFICES ASSUME NEW q \in Queue PROVE MaxSlots(q) \in Nat
  OBVIOUS
<1> DEFINE S == DOMAIN Scan[q]
           T == {Scan[q][k] : k \in S}
<1>1. Scan[q] \in Seq(Slot)
  BY SlotsAssumption
<1>2. S = 1..Len(Scan[q]) /\ Len(Scan[q]) \in Nat
  BY <1>1
<1>3. IsFiniteSet(S)
  BY <1>2, FS_Interval
<1>4. Scan[q] \in Surjection(S, T)
  BY <1>1 DEF Surjection
<1>5. IsFiniteSet(T)
  BY <1>3, <1>4, FS_Surjection
<1> QED
  BY <1>5, FS_CardinalityType DEF MaxSlots

\* What the scan of a queue yields, and what the constants are not.
LEMMA ScanType ==
  \A q \in Queue : /\ Len(Scan[q]) \in Nat
                   /\ \A k \in Nat : k >= 1 /\ k <= Len(Scan[q]) => Scan[q][k] \in Slot
  BY SlotsAssumption

LEMMA Distinct == Daemon \notin Proc /\ None \notin Proc /\ None \notin Slot /\ None # Daemon
  BY SlotsAssumption

LEMMA TInvInit == Init => TInv
  BY SlotsAssumption, MaxSlotsType DEF Init, TInv, TypeOK, HasQueue, CursorOK, SlotOK,
     Actor, PCs, PickPCs, FreePCs, MainPCs

\* What the end of a process does to the types.
LEMMA ExitType ==
  ASSUME TypeOK, NEW p \in Proc, Exit(p)
  PROVE  /\ slot' \in [Actor -> Slot \cup {None}]
         /\ pc' \in [Actor -> PCs]
         /\ term' \in [Proc -> {"none", "pending", "handled"}]
  BY DEF TypeOK, Exit, PCs

LEMMA ExitSlot ==
  ASSUME TInv, NEW p \in Proc, Exit(p)
  PROVE  SlotOK'
<1> USE DEF TInv, TypeOK, SlotOK, Exit, Actor, FreePCs, MainPCs
<1>1. \A a \in Actor : a # p => pc'[a] = pc[a] /\ slot'[a] = slot[a]
  OBVIOUS
<1>2. pc'[p] = "gone"
  OBVIOUS
<1> QED
  BY <1>1, <1>2

\* What the daemon's two helpers do to the types.
LEMMA TerminateType ==
  ASSUME TypeOK, NEW p, Terminate(p)
  PROVE  term' \in [Proc -> {"none", "pending", "handled"}]
  BY DEF TypeOK, Terminate

LEMMA DaemonFreeType ==
  ASSUME TypeOK, NEW s \in Slot, DaemonFree(s)
  PROVE  /\ slot' \in [Actor -> Slot \cup {None}]
         /\ pc' \in [Actor -> PCs]
         /\ busts' \in 0..Busts
<1>1. slot' \in [Actor -> Slot \cup {None}]
  BY DEF TypeOK, DaemonFree
<1>2. pc' \in [Actor -> PCs]
  BY DEF TypeOK, DaemonFree, Goto, PCs, FreePCs
<1>3. busts' \in 0..Busts
  BY SlotsAssumption DEF TypeOK, DaemonFree
<1> QED
  BY <1>1, <1>2, <1>3

LEMMA DaemonFreeSlot ==
  ASSUME TInv, NEW s \in Slot, DaemonFree(s)
  PROVE  SlotOK'
  BY Distinct DEF TInv, TypeOK, SlotOK, DaemonFree, Goto, Actor

\* Every step keeps the typing invariant.
LEMMA TInvNext == TInv /\ [Next]_vars => TInv'
<1> SUFFICES ASSUME TInv, [Next]_vars PROVE TInv'
  OBVIOUS
<1> USE ScanType, Distinct DEF TInv, TypeOK, HasQueue, CursorOK, SlotOK, Actor, PCs, PickPCs, FreePCs, Goto, Exit, shared, MainPCs
<1>1. ASSUME NEW p \in Proc, NEW q \in Queue, Connect(p, q) PROVE TInv'
  BY <1>1 DEF Connect
<1>2. ASSUME NEW p \in Proc, GiveUp(p) PROVE TInv'
  BY <1>2 DEF GiveUp
<1>3. ASSUME NEW p \in Proc, SemLoad(p) PROVE TInv'
  BY <1>3 DEF SemLoad
<1>4. ASSUME NEW p \in Proc, SemStore(p) PROVE TInv'
  <2>1. TypeOK'
    <3>1. sem' \in [Queue -> BOOLEAN]
      BY <1>4, Zenon DEF SemStore
    <3>2. pc' \in [Actor -> PCs]
      BY <1>4 DEF SemStore
    <3> QED
      BY <1>4, <3>1, <3>2 DEF SemStore
  <2>2. HasQueue'
    BY <1>4 DEF SemStore
  <2>3. CursorOK'
    BY <1>4 DEF SemStore
  <2>4. SlotOK'
    BY <1>4 DEF SemStore
  <2> QED
    BY <2>1, <2>2, <2>3, <2>4 DEF TInv
<1>5. ASSUME NEW p \in Proc, CheckFree(p) PROVE TInv'
  BY <1>5 DEF CheckFree
<1>6. ASSUME NEW p \in Proc, ScanSlot(p) PROVE TInv'
  <2>1. TypeOK'
    <3>1. pc' \in [Actor -> PCs]
      BY <1>6 DEF ScanSlot
    <3>2. cur' \in [Proc -> Nat]
      <4>1. cur' = cur \/ cur' = [cur EXCEPT ![p] = @ + 1]
        BY <1>6 DEF ScanSlot, NextSlot
      <4>2. cur[p] + 1 \in Nat
        OBVIOUS
      <4> QED
        BY <4>1, <4>2
    <3>3. \A r \in Proc : wq'[r] # None => cur'[r] <= Len(Scan[wq'[r]]) + 1
      BY <1>6 DEF ScanSlot, NextSlot
    <3> QED
      BY <1>6, <3>1, <3>2, <3>3 DEF ScanSlot
  <2>2. HasQueue'
    BY <1>6 DEF ScanSlot, NextSlot
  <2>3. CursorOK'
    BY <1>6 DEF ScanSlot, NextSlot
  <2>4. SlotOK'
    BY <1>6 DEF ScanSlot, NextSlot
  <2> QED
    BY <2>1, <2>2, <2>3, <2>4 DEF TInv
<1>7. ASSUME NEW p \in Proc, LockSlot(p) PROVE TInv'
  <2>1. TypeOK'
    <3>1. pc' \in [Actor -> PCs]
      BY <1>7 DEF LockSlot
    <3>2. cur[p] \in Nat /\ cur[p] <= Len(Scan[wq[p]]) /\ wq[p] \in Queue
      BY <1>7 DEF LockSlot
    <3>3. UNCHANGED cur \/ cur' = [cur EXCEPT ![p] = cur[p] + 1]
      BY <1>7 DEF LockSlot, NextSlot
    <3>4. cur' \in [Proc -> Nat]
      BY <3>2, <3>3
    <3>5. \A r \in Proc : wq'[r] # None => cur'[r] <= Len(Scan[wq'[r]]) + 1
      <4>1. UNCHANGED wq
        BY <1>7 DEF LockSlot
      <4>2. cur'[p] <= Len(Scan[wq[p]]) + 1
        BY <3>2, <3>3
      <4>3. \A r \in Proc \ {p} : cur'[r] = cur[r]
        BY <3>3
      <4> QED
        BY <4>1, <4>2, <4>3
    <3>6. lock' \in Proc \cup {None}
      BY <1>7 DEF LockSlot
    <3> QED
      BY <1>7, <3>1, <3>4, <3>5, <3>6 DEF LockSlot
  <2>2. HasQueue'
    BY <1>7 DEF LockSlot, NextSlot
  <2>3. CursorOK'
    <3>1. CASE cur' = [cur EXCEPT ![p] = NextSlot(@)] /\ Goto(p, "scan")
      BY <1>7, <3>1 DEF LockSlot, NextSlot
    <3>2. CASE UNCHANGED cur /\ Goto(p, "take")
      BY <1>7, <3>2 DEF LockSlot
    <3> QED
      BY <1>7, <3>1, <3>2 DEF LockSlot
  <2>4. SlotOK'
    BY <1>7 DEF LockSlot, NextSlot
  <2> QED
    BY <2>1, <2>2, <2>3, <2>4 DEF TInv
<1>8. ASSUME NEW p \in Proc, TakeSlot(p) PROVE TInv'
  <2>1. TypeOK'
    <3>1. Scan[wq[p]][cur[p]] \in Slot
      BY <1>8 DEF TakeSlot
    <3>2. slot' \in [Actor -> Slot \cup {None}]
      BY <1>8, <3>1 DEF TakeSlot
    <3>3. pc' \in [Actor -> PCs]
      BY <1>8 DEF TakeSlot
    <3> QED
      BY <1>8, <3>2, <3>3 DEF TakeSlot
  <2>2. HasQueue'
    BY <1>8 DEF TakeSlot
  <2>3. CursorOK'
    BY <1>8 DEF TakeSlot
  <2>4. SlotOK'
    BY <1>8 DEF TakeSlot
  <2> QED
    BY <2>1, <2>2, <2>3, <2>4 DEF TInv
<1>9. ASSUME NEW p \in Proc, SetupSlot(p) PROVE TInv'
  BY <1>9 DEF SetupSlot
<1>10. ASSUME NEW p \in Proc, DecLoad(p) PROVE TInv'
  BY <1>10 DEF DecLoad
<1>11. ASSUME NEW p \in Proc, DecStore(p) PROVE TInv'
  <2>1. TypeOK'
    BY <1>11 DEF DecStore
  <2>2. HasQueue'
    BY <1>11 DEF DecStore
  <2>3. CursorOK'
    BY <1>11 DEF DecStore
  <2>4. SlotOK'
    BY <1>11 DEF DecStore
  <2> QED
    BY <2>1, <2>2, <2>3, <2>4 DEF TInv
<1>12. ASSUME NEW p \in Proc, GiveBack(p) PROVE TInv'
  <2>1. TypeOK'
    <3>1. sem' \in [Queue -> BOOLEAN]
      BY <1>12, Zenon DEF GiveBack
    <3>2. pc' \in [Actor -> PCs]
      BY <1>12 DEF GiveBack
    <3> QED
      BY <1>12, <3>1, <3>2 DEF GiveBack
  <2>2. HasQueue'
    BY <1>12 DEF GiveBack
  <2>3. CursorOK'
    BY <1>12 DEF GiveBack
  <2>4. SlotOK'
    BY <1>12 DEF GiveBack
  <2> QED
    BY <2>1, <2>2, <2>3, <2>4 DEF TInv
<1>13. ASSUME NEW p \in Proc, Claim(p) PROVE TInv'
  BY <1>13 DEF Claim
<1>14. ASSUME NEW p \in Proc, Enter(p) \/ death(p) PROVE TInv'
  <2>1. CASE Enter(p)
    BY <2>1 DEF Enter
  <2>2. CASE death(p)
    BY <2>2 DEF death
  <2> QED
    BY <1>14, <2>1, <2>2
<1>15. ASSUME NEW p \in Proc, ExitGame(p) PROVE TInv'
  <2>1. TypeOK'
    <3>1. CASE Exit(p)
      BY <1>15, <3>1, ExitType DEF ExitGame
    <3>2. CASE Goto(p, "fs")
      BY <1>15, <3>2 DEF ExitGame
    <3> QED
      BY <1>15, <3>1, <3>2 DEF ExitGame
  <2>2. HasQueue'
    BY <1>15 DEF ExitGame
  <2>3. CursorOK'
    BY <1>15 DEF ExitGame
  <2>4. SlotOK'
    <3>1. CASE Exit(p)
      BY <3>1, ExitSlot
    <3>2. CASE Goto(p, "fs") /\ UNCHANGED slot
      BY <1>15, <3>2 DEF ExitGame
    <3> QED
      BY <1>15, <3>1, <3>2 DEF ExitGame
  <2> QED
    BY <2>1, <2>2, <2>3, <2>4 DEF TInv
<1>16. ASSUME NEW p \in Proc, Panic(p) PROVE TInv'
  BY <1>16 DEF Panic
<1>17. ASSUME NEW p \in Proc, ForceShutdown(p) PROVE TInv'
  <2>1. TypeOK'
    <3>1. CASE Exit(p)
      BY <1>17, <3>1, ExitType DEF ForceShutdown
    <3>2. CASE Goto(p, "fs") /\ term' = [term EXCEPT ![p] = "handled"] /\ UNCHANGED slot
      BY <1>17, <3>2 DEF ForceShutdown
    <3> QED
      BY <1>17, <3>1, <3>2 DEF ForceShutdown
  <2>2. HasQueue'
    BY <1>17 DEF ForceShutdown
  <2>3. CursorOK'
    BY <1>17 DEF ForceShutdown
  <2>4. SlotOK'
    <3>1. CASE Exit(p)
      BY <3>1, ExitSlot
    <3>2. CASE Goto(p, "fs") /\ UNCHANGED slot
      BY <1>17, <3>2 DEF ForceShutdown
    <3> QED
      BY <1>17, <3>1, <3>2 DEF ForceShutdown
  <2> QED
    BY <2>1, <2>2, <2>3, <2>4 DEF TInv
<1>18. ASSUME NEW p \in Proc, LoseTerm(p) PROVE TInv'
  BY <1>18 DEF LoseTerm
<1>19. ASSUME NEW p \in Proc, Crash(p) PROVE TInv'
  <2>1. TypeOK'
    BY <1>19 DEF Crash
  <2>2. HasQueue'
    BY <1>19 DEF Crash
  <2>3. CursorOK'
    BY <1>19 DEF Crash
  <2>4. SlotOK'
    BY <1>19 DEF Crash
  <2> QED
    BY <2>1, <2>2, <2>3, <2>4 DEF TInv
<1>20. ASSUME NEW a \in Actor, FreeTest(a) PROVE TInv'
  BY <1>20 DEF FreeTest
<1>21. ASSUME NEW a \in Actor, UndoLoad(a) PROVE TInv'
  BY <1>21 DEF UndoLoad
<1>22. ASSUME NEW a \in Actor, UndoStore(a) PROVE TInv'
  <2>1. TypeOK'
    BY <1>22 DEF UndoStore
  <2>2. HasQueue'
    BY <1>22 DEF UndoStore
  <2>3. CursorOK'
    BY <1>22 DEF UndoStore
  <2>4. SlotOK'
    BY <1>22 DEF UndoStore
  <2> QED
    BY <2>1, <2>2, <2>3, <2>4 DEF TInv
<1>23. ASSUME NEW a \in Actor, ClearStatus(a) PROVE TInv'
  <2>1. TypeOK'
    <3>1. status' \in [Slot -> {"PFREE", "POUTFIT", "PLAY"}]
      BY <1>23 DEF ClearStatus
    <3>2. lost' \subseteq Proc
      BY <1>23 DEF ClearStatus, Owners
    <3> QED
      BY <1>23, <3>1, <3>2 DEF ClearStatus
  <2>2. HasQueue'
    BY <1>23 DEF ClearStatus
  <2>3. CursorOK'
    BY <1>23 DEF ClearStatus
  <2>4. SlotOK'
    BY <1>23 DEF ClearStatus
  <2> QED
    BY <2>1, <2>2, <2>3, <2>4 DEF TInv
<1>24. ASSUME NEW a \in Actor, IncLoad(a) PROVE TInv'
  BY <1>24 DEF IncLoad
<1>25. ASSUME NEW a \in Actor, IncStore(a) PROVE TInv'
  <2>1. TypeOK'
    BY <1>25 DEF IncStore
  <2>2. HasQueue' /\ CursorOK' /\ SlotOK'
    BY <1>25 DEF IncStore
  <2> QED
    BY <2>1, <2>2
<1>26. ASSUME NEW a \in Actor, ClearProcess(a) PROVE TInv'
  <2>1. TypeOK'
    BY <1>26 DEF ClearProcess
  <2>2. HasQueue'
    BY <1>26 DEF ClearProcess
  <2>3. CursorOK'
    BY <1>26 DEF ClearProcess
  <2>4. SlotOK'
    <3>1. CASE a = Daemon
      <4>1. pc'[a] = "idle"
        BY <1>26, <3>1 DEF ClearProcess
      <4>2. \A b \in Actor : b # a => pc'[b] = pc[b] /\ slot'[b] = slot[b]
        BY <1>26, <3>1 DEF ClearProcess
      <4> QED
        BY <3>1, <4>1, <4>2
    <3>2. CASE a # Daemon
      BY <1>26, <3>2, ExitSlot DEF ClearProcess
    <3> QED
      BY <3>1, <3>2
  <2> QED
    BY <2>1, <2>2, <2>3, <2>4 DEF TInv
<1>27. ASSUME NEW s \in Slot, Die(s) PROVE TInv'
  BY <1>27 DEF Die
<1>28. ASSUME NEW s \in Slot, OutfitTimeout(s) PROVE TInv'
  <2>1. TypeOK'
    <3>1. CASE process[s] # None
      BY <1>28, <3>1, TerminateType DEF OutfitTimeout
    <3>2. CASE process[s] = None
      BY <1>28, <3>2, DaemonFreeType DEF OutfitTimeout
    <3> QED
      BY <3>1, <3>2
  <2>2. HasQueue'
    BY <1>28 DEF OutfitTimeout, Terminate, DaemonFree
  <2>3. CursorOK'
    BY <1>28 DEF OutfitTimeout, Terminate, DaemonFree
  <2>4. SlotOK'
    BY <1>28, DaemonFreeSlot DEF OutfitTimeout
  <2> QED
    BY <2>1, <2>2, <2>3, <2>4 DEF TInv
<1>29. ASSUME NEW s \in Slot, PauseKill(s) PROVE TInv'
  <2>1. TypeOK'
    BY <1>29, TerminateType, DaemonFreeType DEF PauseKill
  <2>2. HasQueue' /\ CursorOK'
    BY <1>29 DEF PauseKill, DaemonFree
  <2>3. SlotOK'
    BY <1>29, DaemonFreeSlot DEF PauseKill
  <2> QED
    BY <2>1, <2>2, <2>3
<1>30. ASSUME NEW s \in Slot, Reap(s) PROVE TInv'
  <2>1. TypeOK'
    BY <1>30, DaemonFreeType DEF Reap
  <2>2. HasQueue' /\ CursorOK'
    BY <1>30 DEF Reap, DaemonFree
  <2>3. SlotOK'
    BY <1>30, DaemonFreeSlot DEF Reap
  <2> QED
    BY <2>1, <2>2, <2>3
<1>31. ASSUME NEW q \in Queue, Purge(q) PROVE TInv'
  BY <1>31, MaxSlotsType DEF Purge
<1>32. CASE UNCHANGED vars
  BY <1>32 DEF vars
<1> QED
  BY <1>1, <1>2, <1>3, <1>4, <1>5, <1>6, <1>7, <1>8, <1>9, <1>10, <1>11, <1>12, <1>13, <1>14, <1>15, <1>16, <1>17, <1>18, <1>19, <1>20, <1>21, <1>22, <1>23, <1>24, <1>25, <1>26, <1>27, <1>28, <1>29, <1>30, <1>31, <1>32
  DEF Next, DaemonStep, ProcStep, Pickslot, Freeslot
-----------------------------------------------------------------------------
(***************************************************************************)
(* Why no slot is given away twice.  A process that takes a slot saw it    *)
(* PFREE under LOCK_PICKSLOT, and the slot of an owner that nobody evicted *)
(* is never PFREE; nobody else can be between that look and the store.     *)
(***************************************************************************)

\* LOCK_PICKSLOT is held exactly between the look and the store.
LockOK == \A p \in Proc : pc[p] = "take" <=> lock = p

\* A process past the store of PFREE has freed its own slot, at least.
FreedIsLost == \A p \in Proc : pc[p] \in {"inc", "inc2", "proc"} => p \in lost

\* The slot of an owner is in use.
OwnedIsUsed == \A p \in Proc : Holds(p) /\ p \notin lost => status[slot[p]] # "PFREE"

\* What a process is about to take has no owner, but evicted ones.
TakenIsFree == \A p \in Proc : pc[p] = "take" => Owners(Scan[wq[p]][cur[p]]) \subseteq lost

SInv == TInv /\ LockOK /\ FreedIsLost /\ OwnedIsUsed /\ TakenIsFree /\ SlotExclusive

\* A step that gives nobody a slot and frees none.
Keeps ==
  /\ \A p \in Proc : Holds(p)' => slot'[p] = slot[p] /\ (Holds(p) \/ p \in lost)
  /\ \A p \in Proc : pc'[p] = "take" => pc[p] = "take" /\ wq'[p] = wq[p] /\ cur'[p] = cur[p]
  /\ \A p \in Proc : pc'[p] \in {"inc", "inc2", "proc"} => pc[p] \in {"inc", "inc2", "proc"} \/ p \in lost
  /\ lost \subseteq lost'
  /\ \A s \in Slot : status'[s] = "PFREE" => status[s] = "PFREE"

LEMMA HolderSlot == ASSUME TInv, NEW p \in Proc, Holds(p) PROVE slot[p] \in Slot
  BY DEF TInv, TypeOK, SlotOK, Holds, Actor, FreePCs

LEMMA KeepsInv ==
  ASSUME SInv, TInv', Keeps
  PROVE  FreedIsLost' /\ OwnedIsUsed' /\ TakenIsFree' /\ SlotExclusive'
<1>1. FreedIsLost'
  BY DEF SInv, Keeps, FreedIsLost
<1>2. OwnedIsUsed'
  <2> SUFFICES ASSUME NEW p \in Proc, Holds(p)', p \notin lost' PROVE status'[slot'[p]] # "PFREE"
    BY DEF OwnedIsUsed
  <2>1. p \notin lost /\ Holds(p) /\ slot'[p] = slot[p]
    BY DEF Keeps
  <2>2. slot[p] \in Slot /\ status[slot[p]] # "PFREE"
    BY <2>1, HolderSlot DEF SInv, OwnedIsUsed
  <2> QED
    BY <2>1, <2>2 DEF Keeps
<1>3. TakenIsFree'
  <2> SUFFICES ASSUME NEW p \in Proc, pc'[p] = "take",
                      NEW q \in Owners(Scan[wq[p]][cur[p]])'
               PROVE  q \in lost'
    BY DEF TakenIsFree, Keeps
  <2>1. pc[p] = "take" /\ wq'[p] = wq[p] /\ cur'[p] = cur[p]
    BY DEF Keeps
  <2>2. q \in Proc /\ Holds(q)' /\ slot'[q] = Scan[wq[p]][cur[p]]
    BY <2>1 DEF Owners
  <2>3. q \in lost \/ q \in Owners(Scan[wq[p]][cur[p]])
    BY <2>2 DEF Keeps, Owners
  <2> QED
    BY <2>1, <2>3 DEF SInv, TakenIsFree, Keeps
<1>4. SlotExclusive'
  BY DEF SInv, Keeps, SlotExclusive
<1> QED
  BY <1>1, <1>2, <1>3, <1>4

LEMMA SInvInit == Init => SInv
<1> SUFFICES ASSUME Init PROVE SInv
  OBVIOUS
<1>1. \A p \in Proc : pc[p] = "new" /\ ~Holds(p)
  BY Distinct DEF Init, Actor, Holds, MainPCs
<1>2. LockOK
  BY <1>1, Distinct DEF Init, LockOK
<1> QED
  BY <1>1, <1>2, TInvInit DEF SInv, FreedIsLost, OwnedIsUsed, TakenIsFree, SlotExclusive

\* LockSlot: the slot is PFREE when the lock is taken.
LEMMA LockSlotInv ==
  ASSUME SInv, TInv', NEW p \in Proc, LockSlot(p)
  PROVE  SInv'
<1>1. CASE Goto(p, "scan")
  <2>1. Keeps
    BY <1>1, Distinct DEF LockSlot, Goto, Keeps, Holds, SInv, TInv, TypeOK, Actor, MainPCs
  <2>2. LockOK'
    BY <1>1, Distinct DEF LockSlot, Goto, LockOK, SInv, TInv, TypeOK, Actor
  <2> QED
    BY <2>1, <2>2, KeepsInv DEF SInv
<1>2. CASE Goto(p, "take")
  <2> DEFINE s == Scan[wq[p]][cur[p]]
  <2>1. /\ status[s] = "PFREE"
        /\ lock = None /\ lock' = p
        /\ pc' = [pc EXCEPT ![p] = "take"]
        /\ UNCHANGED <<status, wq, cur, slot, lost>>
        /\ pc[p] = "lock"
    BY <1>2 DEF LockSlot, StillFree, Goto, SInv, TInv, TypeOK, Actor
  <2>2. \A q \in Proc : Holds(q)' <=> Holds(q)
    BY <2>1 DEF Holds, SInv, TInv, TypeOK, Actor, MainPCs
  <2>3. LockOK'
    BY <2>1, Distinct DEF LockOK, SInv, TInv, TypeOK, Actor
  <2>4. FreedIsLost'
    BY <2>1 DEF FreedIsLost, SInv, TInv, TypeOK, Actor
  <2>5. OwnedIsUsed'
    BY <2>1, <2>2 DEF OwnedIsUsed, SInv
  <2>6. TakenIsFree'
    <3>1. \A q \in Proc : pc'[q] = "take" => q = p
      BY <2>3, <2>1 DEF LockOK
    <3>2. Owners(s)' \subseteq lost
      BY <2>1, <2>2 DEF Owners, OwnedIsUsed, SInv
    <3> QED
      BY <2>1, <3>1, <3>2 DEF TakenIsFree
  <2>7. SlotExclusive'
    BY <2>1, <2>2 DEF SlotExclusive, SInv
  <2> QED
    BY <2>3, <2>4, <2>5, <2>6, <2>7 DEF SInv
<1> QED
  BY <1>1, <1>2 DEF LockSlot

\* TakeSlot: the only step that makes an owner.
LEMMA TakeSlotInv ==
  ASSUME SInv, TInv', NEW p \in Proc, TakeSlot(p)
  PROVE  SInv'
<1> DEFINE s == Scan[wq[p]][cur[p]]
<1>1. /\ pc[p] = "take" /\ lock = p /\ lock' = None
      /\ pc' = [pc EXCEPT ![p] = "setup"]
      /\ slot' = [slot EXCEPT ![p] = s]
      /\ status' = [status EXCEPT ![s] = "POUTFIT"]
      /\ UNCHANGED <<wq, cur, lost>>
      /\ s \in Slot
  BY ScanType DEF TakeSlot, Goto, SInv, TInv, HasQueue, CursorOK, TypeOK, LockOK
<1>2. \A q \in Proc \ {p} : (Holds(q)' <=> Holds(q)) /\ slot'[q] = slot[q] /\ pc'[q] = pc[q]
  BY <1>1 DEF Holds, SInv, TInv, TypeOK, Actor
<1>3. slot'[p] = s /\ status'[s] = "POUTFIT" /\ pc'[p] = "setup"
  BY <1>1 DEF SInv, TInv, TypeOK, Actor
<1>4. LockOK'
  BY <1>1, <1>2, <1>3, Distinct DEF LockOK, SInv
<1>5. FreedIsLost'
  BY <1>1, <1>2, <1>3 DEF FreedIsLost, SInv
<1>6. OwnedIsUsed'
  <2>1. \A t \in Slot : status'[t] = status[t] \/ status'[t] = "POUTFIT"
    BY <1>1 DEF SInv, TInv, TypeOK
  <2>2. \A q \in Proc \ {p} : Holds(q) => slot[q] \in Slot
    BY HolderSlot DEF SInv
  <2> QED
    BY <1>1, <1>2, <1>3, <2>1, <2>2 DEF OwnedIsUsed, SInv
<1>7. TakenIsFree'
  BY <1>1, <1>2, <1>3 DEF TakenIsFree, LockOK, SInv
<1>8. SlotExclusive'
  <2>1. \A q \in Proc \ {p} : Holds(q)' /\ slot'[q] = s => q \in lost
    BY <1>1, <1>2 DEF TakenIsFree, Owners, SInv
  <2> QED
    BY <1>1, <1>2, <1>3, <2>1 DEF SlotExclusive, SInv
<1> QED
  BY <1>4, <1>5, <1>6, <1>7, <1>8 DEF SInv

\* ClearStatus: whoever owned the slot has lost it.
LEMMA ClearStatusInv ==
  ASSUME SInv, TInv', NEW a \in Actor, ClearStatus(a)
  PROVE  SInv'
<1>1. /\ pc[a] = "clear" /\ slot[a] \in Slot
      /\ status' = [status EXCEPT ![slot[a]] = "PFREE"]
      /\ lost' = lost \cup Owners(slot[a])
      /\ pc' = [pc EXCEPT ![a] = "inc"]
      /\ UNCHANGED <<lock, wq, cur, slot>>
  BY DEF ClearStatus, Goto, SInv, TInv, SlotOK, FreePCs
<1>2. \A q \in Proc : Holds(q)' => Holds(q)
  BY <1>1 DEF Holds, SInv, TInv, TypeOK, Actor
<1>3. \A q \in Proc : pc'[q] = "take" <=> pc[q] = "take"
  BY <1>1 DEF SInv, TInv, TypeOK, Actor
<1>4. LockOK'
  BY <1>1, <1>3 DEF LockOK, SInv
<1>5. FreedIsLost'
  <2>1. a \in Proc => a \in Owners(slot[a])
    BY <1>1 DEF Owners, Holds
  <2>2. \A q \in Proc : q # a => pc'[q] = pc[q]
    BY <1>1 DEF SInv, TInv, TypeOK, Actor
  <2> QED
    BY <1>1, <2>1, <2>2 DEF FreedIsLost, SInv
<1>6. OwnedIsUsed'
  <2> SUFFICES ASSUME NEW q \in Proc, Holds(q)', q \notin lost' PROVE status'[slot[q]] # "PFREE"
    BY <1>1 DEF OwnedIsUsed
  <2>1. Holds(q) /\ slot[q] # slot[a] /\ q \notin lost
    BY <1>1, <1>2 DEF Owners
  <2> QED
    BY <1>1, <2>1 DEF OwnedIsUsed, SInv, TInv, TypeOK
<1>7. TakenIsFree'
  BY <1>1, <1>2, <1>3 DEF TakenIsFree, Owners, SInv
<1>8. SlotExclusive'
  BY <1>1, <1>2 DEF SlotExclusive, SInv
<1> QED
  BY <1>4, <1>5, <1>6, <1>7, <1>8 DEF SInv

\* Every step keeps the invariant.
LEMMA SInvNext == SInv /\ [Next]_vars => SInv'
<1> SUFFICES ASSUME SInv, [Next]_vars PROVE SInv'
  OBVIOUS
<1>1. TInv'
  BY TInvNext DEF SInv
<1>2. SUFFICES (Keeps /\ LockOK') \/ SInv'
  BY <1>1, KeepsInv DEF SInv
<1> USE Distinct DEF SInv, TInv, TypeOK, HasQueue, SlotOK, LockOK, FreedIsLost, Keeps, Holds, Actor, MainPCs,
      FreePCs, Goto, Exit, shared
<1>3. ASSUME NEW p \in Proc, NEW q \in Queue, Connect(p, q) PROVE Keeps /\ LockOK'
  BY <1>3 DEF Connect
<1>4. ASSUME NEW p \in Proc, GiveUp(p) PROVE Keeps /\ LockOK'
  BY <1>4 DEF GiveUp
<1>5. ASSUME NEW p \in Proc, SemLoad(p) PROVE Keeps /\ LockOK'
  BY <1>5 DEF SemLoad
<1>6. ASSUME NEW p \in Proc, SemStore(p) PROVE Keeps /\ LockOK'
  BY <1>6 DEF SemStore
<1>7. ASSUME NEW p \in Proc, CheckFree(p) PROVE Keeps /\ LockOK'
  BY <1>7 DEF CheckFree
<1>8. ASSUME NEW p \in Proc, ScanSlot(p) PROVE Keeps /\ LockOK'
  BY <1>8 DEF ScanSlot
<1>9. ASSUME NEW p \in Proc, SetupSlot(p) PROVE Keeps /\ LockOK'
  BY <1>9 DEF SetupSlot
<1>10. ASSUME NEW p \in Proc, DecLoad(p) PROVE Keeps /\ LockOK'
  BY <1>10 DEF DecLoad
<1>11. ASSUME NEW p \in Proc, DecStore(p) PROVE Keeps /\ LockOK'
  BY <1>11 DEF DecStore
<1>12. ASSUME NEW p \in Proc, GiveBack(p) PROVE Keeps /\ LockOK'
  BY <1>12 DEF GiveBack
<1>13. ASSUME NEW p \in Proc, Claim(p) PROVE Keeps /\ LockOK'
  BY <1>13 DEF Claim
<1>14. ASSUME NEW p \in Proc, Enter(p) \/ death(p) PROVE Keeps /\ LockOK'
  <2>1. CASE Enter(p)
    BY <2>1 DEF Enter
  <2>2. CASE death(p)
    BY <2>2 DEF death
  <2> QED
    BY <1>14, <2>1, <2>2
<1>15. ASSUME NEW p \in Proc, ExitGame(p) PROVE Keeps /\ LockOK'
  BY <1>15 DEF ExitGame
<1>16. ASSUME NEW p \in Proc, Panic(p) PROVE Keeps /\ LockOK'
  BY <1>16 DEF Panic
<1>17. ASSUME NEW p \in Proc, ForceShutdown(p) PROVE Keeps /\ LockOK'
  BY <1>17 DEF ForceShutdown
<1>18. ASSUME NEW p \in Proc, LoseTerm(p) PROVE Keeps /\ LockOK'
  BY <1>18 DEF LoseTerm
<1>19. ASSUME NEW p \in Proc, Crash(p) PROVE Keeps /\ LockOK'
  BY <1>19 DEF Crash
<1>20. ASSUME NEW a \in Actor, FreeTest(a) PROVE Keeps /\ LockOK'
  BY <1>20 DEF FreeTest
<1>21. ASSUME NEW a \in Actor, UndoLoad(a) PROVE Keeps /\ LockOK'
  BY <1>21 DEF UndoLoad
<1>22. ASSUME NEW a \in Actor, UndoStore(a) PROVE Keeps /\ LockOK'
  BY <1>22 DEF UndoStore
<1>23. ASSUME NEW a \in Actor, IncLoad(a) PROVE Keeps /\ LockOK'
  BY <1>23 DEF IncLoad
<1>24. ASSUME NEW a \in Actor, IncStore(a) PROVE Keeps /\ LockOK'
  BY <1>24 DEF IncStore
<1>25. ASSUME NEW a \in Actor, ClearProcess(a) PROVE Keeps /\ LockOK'
  BY <1>25 DEF ClearProcess
<1>26. ASSUME NEW s \in Slot, Die(s) PROVE Keeps /\ LockOK'
  BY <1>26 DEF Die
<1>27. ASSUME NEW s \in Slot, OutfitTimeout(s) PROVE Keeps /\ LockOK'
  BY <1>27 DEF OutfitTimeout, DaemonFree
<1>28. ASSUME NEW s \in Slot, PauseKill(s) PROVE Keeps /\ LockOK'
  BY <1>28 DEF PauseKill, DaemonFree
<1>29. ASSUME NEW s \in Slot, Reap(s) PROVE Keeps /\ LockOK'
  BY <1>29 DEF Reap, DaemonFree
<1>30. ASSUME NEW q \in Queue, Purge(q) PROVE Keeps /\ LockOK'
  BY <1>30 DEF Purge
<1>31. CASE UNCHANGED vars
  BY <1>31 DEF vars
<1> QED
  BY <1>1, <1>3, <1>4, <1>5, <1>6, <1>7, <1>8, <1>9, <1>10, <1>11, <1>12, <1>13, <1>14, <1>15, <1>16, <1>17, <1>18, <1>19, <1>20, <1>21, <1>22, <1>23, <1>24, <1>25, <1>26, <1>27, <1>28, <1>29, <1>30, <1>31,
     LockSlotInv, TakeSlotInv, ClearStatusInv
  DEF Next, DaemonStep, ProcStep, Pickslot, Freeslot

\* The types of the shared memory and of every actor hold in every reachable
\* state, for any number of processes, slots and queues.
THEOREM TypeCorrect == Spec => []TypeOK
<1>1. TInv => TypeOK
  BY DEF TInv
<1> QED
  BY <1>1, TInvInit, TInvNext, PTL DEF Spec

\* slotmaint.c:70-76: two processes own one slot only after one of them was
\* evicted from it, for any number of processes, slots and queues, with
\* overlapping calls, crashes and evictions.
THEOREM Exclusive == Spec => []SlotExclusive
<1>1. SInv => SlotExclusive
  BY DEF SInv
<1> QED
  BY <1>1, SInvInit, SInvNext, PTL DEF Spec

-----------------------------------------------------------------------------
(***************************************************************************)
(* Calls one at a time.                                                    *)
(***************************************************************************)
Calls == PickPCs \cup FreePCs

OneCall == \A a, b \in Actor : pc[a] \in Calls /\ pc[b] \in Calls => a = b

(***************************************************************************)
(* OwnerKnown.  ClearProcess clears the pid of a slot whose owners are all *)
(* evicted, since nobody can take the slot during freeslot(); SetupSlot    *)
(* clears that of a slot whose only owner, unless evicted, is the caller.  *)
(***************************************************************************)

\* Nobody is evicted before he has his slot.
Fresh == \A p \in Proc : pc[p] \in PickPCs \cup {"new", "wait"} => p \notin lost

\* After the store of PFREE the slot has no owner, but evicted ones.
Freed == \A a \in Actor : pc[a] \in {"inc", "inc2", "proc"} => Owners(slot[a]) \subseteq lost

OInv == SInv /\ OneCall /\ Fresh /\ Freed /\ OwnerKnown

(***************************************************************************)
(* enter_sem: whoever set it to 0 read a 1 and is on the way to GiveBack.  *)
(***************************************************************************)
Inside == {"check", "scan", "lock", "take", "setup", "dec", "dec2", "give"}

SemOne == \A p \in Proc : pc[p] = "sem" => reg[p] = 1

SemHeld == \A q \in Queue : ~sem[q] => \E p \in Proc : wq[p] = q /\ pc[p] \in Inside

(***************************************************************************)
(* free_slots.  Counted(q) is what free_slots of q has been lowered for:   *)
(* the taken slots of q, but for one whose "--" is still to come, and the  *)
(* slot whose "++" is still to come, whatever its status.                  *)
(***************************************************************************)
Early(s) ==
  \/ \E a \in Actor : pc[a] \in {"setup", "dec", "dec2", "undo", "undo2"} /\ slot[a] = s
  \/ \E p \in Proc : pc[p] = "take" /\ Scan[wq[p]][cur[p]] = s

Late(s) == \E a \in Actor : pc[a] \in {"clear", "inc", "inc2"} /\ slot[a] = s

Counted(q) ==
  {s \in Slot : squeue[s] = q /\ (Late(s) \/ (status[s] # "PFREE" /\ ~Early(s)))}

\* A value that is loaded is still there when it is stored.
Loaded ==
  /\ \A p \in Proc : pc[p] = "dec2" => reg[p] = free[wq[p]]
  /\ \A a \in Actor : pc[a] \in {"undo2", "inc2"} => reg[a] = free[squeue[slot[a]]]

\* The slot that pickslot() works on is taken, and soon through its queue.
Chosen ==
  \A p \in Proc :
    /\ pc[p] \in {"setup", "dec", "dec2"} => status[slot[p]] # "PFREE"
    /\ pc[p] \in {"dec", "dec2"} => squeue[slot[p]] = wq[p]

FreeEnough == \A q \in Queue : free[q] >= MaxSlots(q) - Cardinality(Counted(q))

-----------------------------------------------------------------------------
\* A call begins only while no other is under way.
LEMMA OneCallNext ==
  ASSUME ~Overlap, TInv, OneCall, [Next]_vars
  PROVE  OneCall'
<1> USE Distinct DEF TInv, TypeOK, OneCall, Calls, MayCall, Actor, PickPCs, FreePCs, Goto, Exit, shared, MainPCs
<1>1. ASSUME NEW p \in Proc, NEW q \in Queue, Connect(p, q) PROVE OneCall'
  BY <1>1 DEF Connect
<1>2. ASSUME NEW p \in Proc, GiveUp(p) PROVE OneCall'
  BY <1>2 DEF GiveUp
<1>3. ASSUME NEW p \in Proc, SemLoad(p) PROVE OneCall'
  BY <1>3 DEF SemLoad
<1>4. ASSUME NEW p \in Proc, SemStore(p) PROVE OneCall'
  BY <1>4 DEF SemStore
<1>5. ASSUME NEW p \in Proc, CheckFree(p) PROVE OneCall'
  BY <1>5 DEF CheckFree
<1>6. ASSUME NEW p \in Proc, ScanSlot(p) PROVE OneCall'
  BY <1>6 DEF ScanSlot
<1>7. ASSUME NEW p \in Proc, LockSlot(p) PROVE OneCall'
  <2>1. CASE Goto(p, "scan")
    BY <1>7, <2>1 DEF LockSlot
  <2>2. CASE Goto(p, "take")
    BY <1>7, <2>2 DEF LockSlot
  <2> QED
    BY <1>7, <2>1, <2>2 DEF LockSlot
<1>8. ASSUME NEW p \in Proc, TakeSlot(p) PROVE OneCall'
  BY <1>8 DEF TakeSlot
<1>9. ASSUME NEW p \in Proc, SetupSlot(p) PROVE OneCall'
  BY <1>9 DEF SetupSlot
<1>10. ASSUME NEW p \in Proc, DecLoad(p) PROVE OneCall'
  BY <1>10 DEF DecLoad
<1>11. ASSUME NEW p \in Proc, DecStore(p) PROVE OneCall'
  BY <1>11 DEF DecStore
<1>12. ASSUME NEW p \in Proc, GiveBack(p) PROVE OneCall'
  BY <1>12 DEF GiveBack
<1>13. ASSUME NEW p \in Proc, Claim(p) PROVE OneCall'
  BY <1>13 DEF Claim
<1>14. ASSUME NEW p \in Proc, Enter(p) \/ death(p) PROVE OneCall'
  <2>1. CASE Enter(p)
    BY <2>1 DEF Enter
  <2>2. CASE death(p)
    BY <2>2 DEF death
  <2> QED
    BY <1>14, <2>1, <2>2
<1>15. ASSUME NEW p \in Proc, ExitGame(p) PROVE OneCall'
  <2>1. CASE Goto(p, "fs")
    BY <1>15, <2>1 DEF ExitGame
  <2>2. CASE Exit(p)
    BY <1>15, <2>2 DEF ExitGame
  <2> QED
    BY <1>15, <2>1, <2>2 DEF ExitGame
<1>16. ASSUME NEW p \in Proc, Panic(p) PROVE OneCall'
  BY <1>16 DEF Panic
<1>17. ASSUME NEW p \in Proc, ForceShutdown(p) PROVE OneCall'
  <2>1. CASE Goto(p, "fs")
    BY <1>17, <2>1 DEF ForceShutdown
  <2>2. CASE Exit(p)
    BY <1>17, <2>2 DEF ForceShutdown
  <2> QED
    BY <1>17, <2>1, <2>2 DEF ForceShutdown
<1>18. ASSUME NEW p \in Proc, LoseTerm(p) PROVE OneCall'
  BY <1>18 DEF LoseTerm
<1>19. ASSUME NEW p \in Proc, Crash(p) PROVE OneCall'
  BY <1>19 DEF Crash
<1>20. ASSUME NEW a \in Actor, FreeTest(a) PROVE OneCall'
  BY <1>20 DEF FreeTest
<1>21. ASSUME NEW a \in Actor, UndoLoad(a) PROVE OneCall'
  BY <1>21 DEF UndoLoad
<1>22. ASSUME NEW a \in Actor, UndoStore(a) PROVE OneCall'
  BY <1>22 DEF UndoStore
<1>23. ASSUME NEW a \in Actor, ClearStatus(a) PROVE OneCall'
  BY <1>23 DEF ClearStatus
<1>24. ASSUME NEW a \in Actor, IncLoad(a) PROVE OneCall'
  BY <1>24 DEF IncLoad
<1>25. ASSUME NEW a \in Actor, IncStore(a) PROVE OneCall'
  BY <1>25 DEF IncStore
<1>26. ASSUME NEW a \in Actor, ClearProcess(a) PROVE OneCall'
  BY <1>26 DEF ClearProcess
<1>27. ASSUME NEW s \in Slot, Die(s) PROVE OneCall'
  BY <1>27 DEF Die
<1>28. ASSUME NEW s \in Slot, OutfitTimeout(s) PROVE OneCall'
  BY <1>28 DEF OutfitTimeout, DaemonFree
<1>29. ASSUME NEW s \in Slot, PauseKill(s) PROVE OneCall'
  BY <1>29 DEF PauseKill, DaemonFree
<1>30. ASSUME NEW s \in Slot, Reap(s) PROVE OneCall'
  BY <1>30 DEF Reap, DaemonFree
<1>31. ASSUME NEW q \in Queue, Purge(q) PROVE OneCall'
  BY <1>31 DEF Purge
<1>32. CASE UNCHANGED vars
  BY <1>32 DEF vars
<1> QED
  BY <1>1, <1>2, <1>3, <1>4, <1>5, <1>6, <1>7, <1>8, <1>9, <1>10, <1>11, <1>12, <1>13, <1>14, <1>15, <1>16, <1>17, <1>18, <1>19, <1>20, <1>21, <1>22, <1>23, <1>24, <1>25, <1>26, <1>27, <1>28, <1>29, <1>30, <1>31, <1>32
  DEF Next, DaemonStep, ProcStep, Pickslot, Freeslot

\* A step that gives nobody a slot, evicts nobody and stores no pid.
Settled ==
  /\ \A p \in Proc : Holds(p)' => Holds(p) /\ slot'[p] = slot[p]
  /\ \A p \in Proc : pc'[p] \in PickPCs \cup {"new", "wait"} => pc[p] \in PickPCs \cup {"new", "wait"}
  /\ \A p \in Proc : pc'[p] \in MainPCs => pc[p] \in MainPCs
  /\ \A a \in Actor : pc'[a] \in {"inc", "inc2", "proc"} =>
                       pc[a] \in {"inc", "inc2", "proc"} /\ slot'[a] = slot[a]
  /\ UNCHANGED <<process, lost>>

LEMMA SettledInv ==
  ASSUME OInv, Settled
  PROVE  Fresh' /\ Freed' /\ OwnerKnown'
<1>1. Fresh'
  BY DEF OInv, Fresh, Settled
<1>2. Freed'
  BY DEF OInv, Freed, Settled, Owners
<1>3. OwnerKnown'
  BY DEF OInv, OwnerKnown, Settled, Holds
<1> QED
  BY <1>1, <1>2, <1>3

LEMMA SettledNext ==
  ASSUME ~Overlap, TInv, OneCall, [Next]_vars
  PROVE  \/ Settled
         \/ \E p \in Proc : TakeSlot(p) \/ Claim(p) \/ SetupSlot(p)
         \/ \E a \in Actor : ClearStatus(a) \/ ClearProcess(a)
<1> USE Distinct DEF TInv, TypeOK, SlotOK, Settled, Holds, Actor, PickPCs, FreePCs, Goto, Exit, shared, MainPCs
<1>1. ASSUME NEW p \in Proc, NEW q \in Queue, Connect(p, q) PROVE Settled
  BY <1>1 DEF Connect
<1>2. ASSUME NEW p \in Proc, GiveUp(p) PROVE Settled
  BY <1>2 DEF GiveUp
<1>3. ASSUME NEW p \in Proc, SemLoad(p) PROVE Settled
  BY <1>3 DEF SemLoad
<1>4. ASSUME NEW p \in Proc, SemStore(p) PROVE Settled
  BY <1>4 DEF SemStore
<1>5. ASSUME NEW p \in Proc, CheckFree(p) PROVE Settled
  BY <1>5 DEF CheckFree
<1>6. ASSUME NEW p \in Proc, ScanSlot(p) PROVE Settled
  BY <1>6 DEF ScanSlot
<1>7. ASSUME NEW p \in Proc, LockSlot(p) PROVE Settled
  <2>1. CASE Goto(p, "scan")
    BY <1>7, <2>1 DEF LockSlot
  <2>2. CASE Goto(p, "take")
    BY <1>7, <2>2 DEF LockSlot
  <2> QED
    BY <1>7, <2>1, <2>2 DEF LockSlot
<1>8. ASSUME NEW p \in Proc, DecLoad(p) PROVE Settled
  BY <1>8 DEF DecLoad
<1>9. ASSUME NEW p \in Proc, DecStore(p) PROVE Settled
  BY <1>9 DEF DecStore
<1>10. ASSUME NEW p \in Proc, GiveBack(p) PROVE Settled
  BY <1>10 DEF GiveBack
<1>11. ASSUME NEW p \in Proc, Enter(p) \/ death(p) PROVE Settled
  <2>1. CASE Enter(p)
    BY <2>1 DEF Enter
  <2>2. CASE death(p)
    BY <2>2 DEF death
  <2> QED
    BY <1>11, <2>1, <2>2
<1>12. ASSUME NEW p \in Proc, ExitGame(p) PROVE Settled
  <2>1. CASE Goto(p, "fs")
    BY <1>12, <2>1 DEF ExitGame
  <2>2. CASE Exit(p)
    BY <1>12, <2>2 DEF ExitGame
  <2> QED
    BY <1>12, <2>1, <2>2 DEF ExitGame
<1>13. ASSUME NEW p \in Proc, Panic(p) PROVE Settled
  BY <1>13 DEF Panic
<1>14. ASSUME NEW p \in Proc, ForceShutdown(p) PROVE Settled
  <2>1. CASE Goto(p, "fs")
    BY <1>14, <2>1 DEF ForceShutdown
  <2>2. CASE Exit(p)
    BY <1>14, <2>2 DEF ForceShutdown
  <2> QED
    BY <1>14, <2>1, <2>2 DEF ForceShutdown
<1>15. ASSUME NEW p \in Proc, LoseTerm(p) PROVE Settled
  BY <1>15 DEF LoseTerm
<1>16. ASSUME NEW p \in Proc, Crash(p) PROVE Settled
  BY <1>16 DEF Crash
<1>17. ASSUME NEW a \in Actor, FreeTest(a) PROVE Settled
  BY <1>17 DEF FreeTest
<1>18. ASSUME NEW a \in Actor, UndoLoad(a) PROVE Settled
  BY <1>18 DEF UndoLoad
<1>19. ASSUME NEW a \in Actor, UndoStore(a) PROVE Settled
  BY <1>19 DEF UndoStore
<1>20. ASSUME NEW a \in Actor, IncLoad(a) PROVE Settled
  BY <1>20 DEF IncLoad
<1>21. ASSUME NEW a \in Actor, IncStore(a) PROVE Settled
  BY <1>21 DEF IncStore
<1>22. ASSUME NEW s \in Slot, Die(s) PROVE Settled
  BY <1>22 DEF Die
<1>23. ASSUME NEW s \in Slot, OutfitTimeout(s) PROVE Settled
  BY <1>23 DEF OutfitTimeout, DaemonFree
<1>24. ASSUME NEW s \in Slot, PauseKill(s) PROVE Settled
  BY <1>24 DEF PauseKill, DaemonFree
<1>25. ASSUME NEW s \in Slot, Reap(s) PROVE Settled
  BY <1>25 DEF Reap, DaemonFree
<1>26. ASSUME NEW q \in Queue, Purge(q) PROVE Settled
  BY <1>26 DEF Purge
<1>27. CASE UNCHANGED vars
  BY <1>27 DEF vars
<1> QED
  BY <1>1, <1>2, <1>3, <1>4, <1>5, <1>6, <1>7, <1>8, <1>9, <1>10, <1>11, <1>12, <1>13, <1>14, <1>15, <1>16, <1>17, <1>18, <1>19, <1>20, <1>21, <1>22, <1>23, <1>24, <1>25, <1>26, <1>27
  DEF Next, DaemonStep, ProcStep, Pickslot, Freeslot

\* An owner that nobody evicted is alone in his slot.
LEMMA SoleOwner ==
  ASSUME OInv, NEW p \in Proc, NEW q \in Proc, Holds(p), Holds(q), slot[p] = slot[q], p # q, p \notin lost
  PROVE  q \in lost
  BY DEF OInv, SInv, SlotExclusive

LEMMA TakeSlotOwner ==
  ASSUME OInv, TInv', OneCall', NEW p \in Proc, TakeSlot(p)
  PROVE  Fresh' /\ Freed' /\ OwnerKnown'
<1> USE Distinct DEF OInv, SInv, TInv, TypeOK, Actor, Goto, MainPCs
<1>1. Fresh'
  BY DEF TakeSlot, Fresh, PickPCs
<1>2. Freed'
  BY DEF TakeSlot, Freed, OneCall, Calls, PickPCs, FreePCs
<1>3. OwnerKnown'
  BY DEF TakeSlot, OwnerKnown
<1> QED
  BY <1>1, <1>2, <1>3

LEMMA ClearStatusOwner ==
  ASSUME OInv, TInv', OneCall', NEW a \in Actor, ClearStatus(a)
  PROVE  Fresh' /\ Freed' /\ OwnerKnown'
<1> USE Distinct DEF OInv, SInv, TInv, TypeOK, SlotOK, Actor, Goto, MainPCs
<1>1. \A b \in Actor \ {a} : pc'[b] = pc[b] /\ pc[b] \notin Calls
  BY DEF ClearStatus, OneCall, Calls, FreePCs
<1>2. pc'[a] = "inc" /\ pc[a] = "clear" /\ UNCHANGED <<slot, process>> /\ lost' = lost \cup Owners(slot[a])
  BY DEF ClearStatus
<1>3. Fresh'
  <2> SUFFICES ASSUME NEW p \in Proc, pc'[p] \in PickPCs \cup {"new", "wait"} PROVE p \notin lost'
    BY DEF Fresh
  <2>1. p # a /\ pc[p] \in {"new", "wait"}
    BY <1>1, <1>2 DEF Calls, PickPCs
  <2>2. p \notin Owners(slot[a])
    BY <2>1 DEF Owners, Holds
  <2> QED
    BY <1>2, <2>1, <2>2 DEF Fresh
<1>4. Freed'
  <2>1. \A b \in Actor : pc'[b] \in {"inc", "inc2", "proc"} => b = a
    BY <1>1 DEF Calls, FreePCs
  <2>2. Owners(slot[a])' \subseteq Owners(slot[a])
    BY <1>1, <1>2 DEF Owners, Holds
  <2> QED
    BY <1>2, <2>1, <2>2 DEF Freed
<1>5. OwnerKnown'
  BY <1>1, <1>2 DEF OwnerKnown
<1> QED
  BY <1>3, <1>4, <1>5

LEMMA ClaimOwner ==
  ASSUME OInv, TInv', OneCall', NEW p \in Proc, Claim(p)
  PROVE  Fresh' /\ Freed' /\ OwnerKnown'
<1> USE Distinct DEF OInv, SInv, TInv, TypeOK, SlotOK, Actor, Goto, MainPCs
<1>1. /\ pc[p] = "claim" /\ pc'[p] = "in"
      /\ \A b \in Actor \ {p} : pc'[b] = pc[b]
      /\ process' = [process EXCEPT ![slot[p]] = p]
      /\ UNCHANGED <<slot, lost>>
  BY DEF Claim
<1>2. Fresh'
  BY <1>1 DEF Fresh, PickPCs
<1>3. Freed'
  <2>1. \A q \in Proc : Holds(q)' <=> Holds(q)
    BY <1>1 DEF Holds
  <2>2. \A b \in Actor : pc'[b] \in {"inc", "inc2", "proc"} => pc[b] \in {"inc", "inc2", "proc"}
    BY <1>1
  <2> QED
    BY <1>1, <2>1, <2>2 DEF Freed, Owners
<1>4. OwnerKnown'
  <2> SUFFICES ASSUME NEW q \in Proc, pc'[q] \in MainPCs, q \notin lost
               PROVE  process'[slot[q]] \in {q} \cup lost
    BY <1>1 DEF OwnerKnown
  <2>1. CASE q = p
    BY <1>1, <2>1
  <2>2. CASE q # p /\ slot[q] = slot[p]
    <3>1. p \in lost
      BY <1>1, <2>2, SoleOwner DEF Holds
    <3> QED
      BY <1>1, <2>2, <3>1
  <2>3. CASE q # p /\ slot[q] # slot[p]
    BY <1>1, <2>3 DEF OwnerKnown
  <2> QED
    BY <2>1, <2>2, <2>3
<1> QED
  BY <1>2, <1>3, <1>4

LEMMA SetupSlotOwner ==
  ASSUME OInv, TInv', OneCall', NEW p \in Proc, SetupSlot(p)
  PROVE  Fresh' /\ Freed' /\ OwnerKnown'
<1> USE Distinct DEF OInv, SInv, TInv, TypeOK, SlotOK, Actor, Goto, MainPCs
<1>1. /\ pc[p] = "setup" /\ pc'[p] = "dec"
      /\ \A b \in Actor \ {p} : pc'[b] = pc[b]
      /\ process' = [process EXCEPT ![slot[p]] = None]
      /\ UNCHANGED <<slot, lost>>
  BY DEF SetupSlot
<1>2. Fresh'
  BY <1>1 DEF Fresh, PickPCs
<1>3. Freed'
  <2>1. \A q \in Proc : Holds(q)' <=> Holds(q)
    BY <1>1 DEF Holds
  <2>2. \A b \in Actor : pc'[b] \in {"inc", "inc2", "proc"} => pc[b] \in {"inc", "inc2", "proc"}
    BY <1>1
  <2> QED
    BY <1>1, <2>1, <2>2 DEF Freed, Owners
<1>4. OwnerKnown'
  <2> SUFFICES ASSUME NEW q \in Proc, pc'[q] \in MainPCs, q \notin lost
               PROVE  process'[slot[q]] \in {q} \cup lost
    BY <1>1 DEF OwnerKnown
  <2>1. q # p /\ pc[q] \in MainPCs
    BY <1>1
  <2>2. p \notin lost
    BY <1>1 DEF Fresh, PickPCs
  <2>3. slot[q] # slot[p]
    BY <1>1, <2>1, <2>2, SoleOwner DEF Holds
  <2> QED
    BY <1>1, <2>1, <2>3 DEF OwnerKnown
<1> QED
  BY <1>2, <1>3, <1>4

LEMMA ClearProcessOwner ==
  ASSUME OInv, TInv', OneCall', NEW a \in Actor, ClearProcess(a)
  PROVE  Fresh' /\ Freed' /\ OwnerKnown'
<1> USE Distinct DEF OInv, SInv, TInv, TypeOK, SlotOK, FreePCs, Actor, Goto, Exit, MainPCs
<1>1. /\ pc[a] = "proc" /\ pc'[a] \in {"idle", "gone"}
      /\ \A b \in Actor \ {a} : pc'[b] = pc[b] /\ slot'[b] = slot[b]
      /\ process' = [process EXCEPT ![slot[a]] = None]
      /\ UNCHANGED lost
  BY DEF ClearProcess
<1>2. Fresh'
  BY <1>1 DEF Fresh, PickPCs
<1>3. Freed'
  <2>1. \A b \in Actor : pc'[b] \notin {"inc", "inc2", "proc"}
    BY <1>1 DEF OneCall, Calls
  <2> QED
    BY <2>1 DEF Freed
<1>4. OwnerKnown'
  <2> SUFFICES ASSUME NEW q \in Proc, pc'[q] \in MainPCs, q \notin lost
               PROVE  process'[slot'[q]] \in {q} \cup lost
    BY <1>1 DEF OwnerKnown
  <2>1. q # a /\ pc[q] \in MainPCs /\ slot'[q] = slot[q]
    BY <1>1
  <2>2. slot[q] # slot[a]
    BY <1>1, <2>1 DEF Freed, Owners, Holds
  <2> QED
    BY <1>1, <2>1, <2>2 DEF OwnerKnown
<1> QED
  BY <1>2, <1>3, <1>4

LEMMA OInvInit == Init => OInv
<1> SUFFICES ASSUME Init PROVE OInv
  OBVIOUS
<1>1. \A a \in Actor : pc[a] \in {"new", "idle"}
  BY DEF Init
<1>2. OneCall
  BY <1>1 DEF OneCall, Calls, PickPCs, FreePCs
<1>3. Fresh /\ Freed /\ OwnerKnown
  BY <1>1 DEF Init, Fresh, Freed, OwnerKnown, Actor, MainPCs
<1> QED
  BY <1>2, <1>3, SInvInit DEF OInv

LEMMA OInvNext == ~Overlap /\ OInv /\ [Next]_vars => OInv'
<1> SUFFICES ASSUME ~Overlap, OInv, [Next]_vars PROVE OInv'
  OBVIOUS
<1>1. SInv' /\ TInv'
  BY SInvNext DEF OInv, SInv
<1>2. OneCall'
  BY OneCallNext DEF OInv, SInv
<1>3. Fresh' /\ Freed' /\ OwnerKnown'
  BY <1>1, <1>2, SettledNext, SettledInv, TakeSlotOwner, ClearStatusOwner, ClaimOwner, SetupSlotOwner,
     ClearProcessOwner DEF OInv, SInv
<1> QED
  BY <1>1, <1>2, <1>3 DEF OInv

\* main.c:194,500: with calls one at a time an owner that
\* nobody evicted finds its own pid in p_process, whatever dies meanwhile.
THEOREM OwnPid == ASSUME ~Overlap PROVE Spec => []OwnerKnown
<1>1. OInv => OwnerKnown
  BY DEF OInv
<1> QED
  BY <1>1, OInvInit, OInvNext, PTL DEF Spec

-----------------------------------------------------------------------------
\* A step that leaves enter_sem to those who are on their way to GiveBack.
SemKeeps ==
  /\ UNCHANGED sem
  /\ \A p \in Proc : pc[p] \in Inside => pc'[p] \in Inside /\ wq'[p] = wq[p]
  /\ \A p \in Proc : pc'[p] = "sem" => pc[p] = "sem" /\ reg'[p] = reg[p]

LEMMA SemKeepsInv ==
  ASSUME SemOne, SemHeld, SemKeeps
  PROVE  SemOne' /\ SemHeld'
  BY DEF SemOne, SemHeld, SemKeeps

LEMMA SemKeepsNext ==
  ASSUME ~Overlap, ~Crashes, TInv, [Next]_vars
  PROVE  SemKeeps \/ \E p \in Proc : SemLoad(p) \/ SemStore(p) \/ GiveBack(p)
<1> USE Distinct DEF TInv, TypeOK, SemKeeps, Inside, Actor, FreePCs, Goto, Exit, shared, MainPCs
<1>1. ASSUME NEW p \in Proc, NEW q \in Queue, Connect(p, q) PROVE SemKeeps
  BY <1>1 DEF Connect
<1>2. ASSUME NEW p \in Proc, GiveUp(p) PROVE SemKeeps
  BY <1>2 DEF GiveUp
<1>3. ASSUME NEW p \in Proc, CheckFree(p) PROVE SemKeeps
  BY <1>3 DEF CheckFree
<1>4. ASSUME NEW p \in Proc, ScanSlot(p) PROVE SemKeeps
  BY <1>4 DEF ScanSlot
<1>5. ASSUME NEW p \in Proc, LockSlot(p) PROVE SemKeeps
  <2>1. CASE Goto(p, "scan")
    BY <1>5, <2>1 DEF LockSlot
  <2>2. CASE Goto(p, "take")
    BY <1>5, <2>2 DEF LockSlot
  <2> QED
    BY <1>5, <2>1, <2>2 DEF LockSlot
<1>6. ASSUME NEW p \in Proc, TakeSlot(p) PROVE SemKeeps
  BY <1>6 DEF TakeSlot
<1>7. ASSUME NEW p \in Proc, SetupSlot(p) PROVE SemKeeps
  BY <1>7 DEF SetupSlot
<1>8. ASSUME NEW p \in Proc, DecLoad(p) PROVE SemKeeps
  BY <1>8 DEF DecLoad
<1>9. ASSUME NEW p \in Proc, DecStore(p) PROVE SemKeeps
  BY <1>9 DEF DecStore
<1>10. ASSUME NEW p \in Proc, Claim(p) PROVE SemKeeps
  BY <1>10 DEF Claim
<1>11. ASSUME NEW p \in Proc, Enter(p) \/ death(p) PROVE SemKeeps
  <2>1. CASE Enter(p)
    BY <2>1 DEF Enter
  <2>2. CASE death(p)
    BY <2>2 DEF death
  <2> QED
    BY <1>11, <2>1, <2>2
<1>12. ASSUME NEW p \in Proc, ExitGame(p) PROVE SemKeeps
  <2>1. CASE Goto(p, "fs")
    BY <1>12, <2>1 DEF ExitGame
  <2>2. CASE Exit(p)
    BY <1>12, <2>2 DEF ExitGame
  <2> QED
    BY <1>12, <2>1, <2>2 DEF ExitGame
<1>13. ASSUME NEW p \in Proc, Panic(p) PROVE SemKeeps
  BY <1>13 DEF Panic
<1>14. ASSUME NEW p \in Proc, ForceShutdown(p) PROVE SemKeeps
  <2>1. CASE Goto(p, "fs")
    BY <1>14, <2>1 DEF ForceShutdown
  <2>2. CASE Exit(p)
    BY <1>14, <2>2 DEF ForceShutdown
  <2> QED
    BY <1>14, <2>1, <2>2 DEF ForceShutdown
<1>15. ASSUME NEW p \in Proc, LoseTerm(p) PROVE SemKeeps
  BY <1>15 DEF LoseTerm
<1>16. ASSUME NEW a \in Actor, FreeTest(a) PROVE SemKeeps
  BY <1>16 DEF FreeTest
<1>17. ASSUME NEW a \in Actor, UndoLoad(a) PROVE SemKeeps
  BY <1>17 DEF UndoLoad
<1>18. ASSUME NEW a \in Actor, UndoStore(a) PROVE SemKeeps
  BY <1>18 DEF UndoStore
<1>19. ASSUME NEW a \in Actor, ClearStatus(a) PROVE SemKeeps
  BY <1>19 DEF ClearStatus
<1>20. ASSUME NEW a \in Actor, IncLoad(a) PROVE SemKeeps
  BY <1>20 DEF IncLoad
<1>21. ASSUME NEW a \in Actor, IncStore(a) PROVE SemKeeps
  BY <1>21 DEF IncStore
<1>22. ASSUME NEW a \in Actor, ClearProcess(a) PROVE SemKeeps
  BY <1>22 DEF ClearProcess
<1>23. ASSUME NEW s \in Slot, Die(s) PROVE SemKeeps
  BY <1>23 DEF Die
<1>24. ASSUME NEW s \in Slot, OutfitTimeout(s) PROVE SemKeeps
  BY <1>24 DEF OutfitTimeout, DaemonFree
<1>25. ASSUME NEW s \in Slot, PauseKill(s) PROVE SemKeeps
  BY <1>25 DEF PauseKill, DaemonFree
<1>26. ASSUME NEW s \in Slot, Reap(s) PROVE SemKeeps
  BY <1>26 DEF Reap, DaemonFree
<1>27. ASSUME NEW q \in Queue, Purge(q) PROVE SemKeeps
  BY <1>27 DEF Purge
<1>28. CASE UNCHANGED vars
  BY <1>28 DEF vars
<1> QED
  BY <1>1, <1>2, <1>3, <1>4, <1>5, <1>6, <1>7, <1>8, <1>9, <1>10, <1>11, <1>12, <1>13, <1>14, <1>15, <1>16, <1>17, <1>18, <1>19, <1>20, <1>21, <1>22, <1>23, <1>24, <1>25, <1>26, <1>27, <1>28
  DEF Next, DaemonStep, ProcStep, Pickslot, Freeslot, Crash

\* Nobody else is inside when a process is at the store or gives back.
LEMMA SemLoadInv ==
  ASSUME ~Overlap, TInv, SemOne, SemHeld, NEW p \in Proc, SemLoad(p)
  PROVE  SemOne' /\ SemHeld'
<1> USE DEF TInv, TypeOK, Actor
<1>1. /\ pc[p] = "wait" /\ wq[p] \in Queue
      /\ pc' = [pc EXCEPT ![p] = "sem"]
      /\ reg' = [reg EXCEPT ![p] = IF sem[wq[p]] THEN 1 ELSE 0]
      /\ UNCHANGED <<sem, wq>>
  BY DEF SemLoad, Goto, shared, HasQueue
<1>2. \A r \in Proc : pc[r] \notin Inside
  BY <1>1 DEF SemLoad, MayCall, PickPCs, Inside
<1>3. \A q \in Queue : sem[q]
  BY <1>2 DEF SemHeld
<1>4. SemOne'
  BY <1>1, <1>3 DEF SemOne
<1>5. SemHeld'
  BY <1>1, <1>3 DEF SemHeld
<1> QED
  BY <1>4, <1>5

LEMMA SemStoreInv ==
  ASSUME TInv, SemOne, SemHeld, NEW p \in Proc, SemStore(p)
  PROVE  SemOne' /\ SemHeld'
<1> USE DEF TInv, TypeOK, Actor
<1>1. /\ pc[p] = "sem" /\ reg[p] = 1 /\ wq[p] \in Queue
      /\ pc' = [pc EXCEPT ![p] = "check"]
      /\ sem' = [sem EXCEPT ![wq[p]] = FALSE]
      /\ reg' = [reg EXCEPT ![p] = 0]
      /\ UNCHANGED wq
  <2>1. pc[p] = "sem" /\ reg[p] = 1 /\ wq[p] \in Queue
    BY DEF SemStore, SemOne, HasQueue
  <2>2. sem' = [sem EXCEPT ![wq[p]] = FALSE] /\ reg' = [reg EXCEPT ![p] = 0] /\ UNCHANGED wq
    BY Zenon DEF SemStore
  <2>3. pc' = [pc EXCEPT ![p] = "check"]
    BY <2>1 DEF SemStore, Goto
  <2> QED
    BY <2>1, <2>2, <2>3
<1>2. SemOne'
  BY <1>1 DEF SemOne
<1>3. SemHeld'
  <2> SUFFICES ASSUME NEW q \in Queue, ~sem'[q] PROVE \E r \in Proc : wq[r] = q /\ pc'[r] \in Inside
    BY <1>1 DEF SemHeld
  <2>1. CASE q = wq[p]
    BY <1>1, <2>1 DEF Inside
  <2>2. CASE q # wq[p]
    <3>1. ~sem[q]
      BY <1>1, <2>2
    <3>2. PICK r \in Proc : wq[r] = q /\ pc[r] \in Inside
      BY <3>1 DEF SemHeld
    <3> QED
      BY <1>1, <2>2, <3>2
  <2> QED
    BY <2>1, <2>2
<1> QED
  BY <1>2, <1>3

LEMMA GiveBackInv ==
  ASSUME TInv, OneCall, SemOne, SemHeld, NEW p \in Proc, GiveBack(p)
  PROVE  SemOne' /\ SemHeld'
<1> USE DEF TInv, TypeOK, Actor
<1>1. /\ pc[p] = "give" /\ wq[p] \in Queue
      /\ pc' = [pc EXCEPT ![p] = IF slot[p] = None THEN "wait" ELSE "claim"]
      /\ sem' = [sem EXCEPT ![wq[p]] = TRUE]
      /\ UNCHANGED <<wq, reg>>
  BY DEF GiveBack, Goto, HasQueue
<1>2. SemOne'
  BY <1>1 DEF SemOne
<1>3. \A q \in Queue : ~sem[q] => q = wq[p]
  BY <1>1 DEF SemHeld, OneCall, Calls, PickPCs, Inside
<1>4. SemHeld'
  BY <1>1, <1>3 DEF SemHeld
<1> QED
  BY <1>2, <1>4

\* enter_sem, as an invariant of its own.
EInv == TInv /\ OneCall /\ SemOne /\ SemHeld

LEMMA EInvInit == Init => EInv
<1> SUFFICES ASSUME Init PROVE EInv
  OBVIOUS
<1>1. \A a \in Actor : pc[a] \in {"new", "idle"}
  BY DEF Init
<1>2. OneCall /\ SemOne
  BY <1>1 DEF OneCall, Calls, PickPCs, FreePCs, SemOne, Actor
<1>3. SemHeld
  BY DEF Init, SemHeld
<1> QED
  BY <1>2, <1>3, TInvInit DEF EInv

LEMMA EInvNext == ~Overlap /\ ~Crashes /\ EInv /\ [Next]_vars => EInv'
<1> SUFFICES ASSUME ~Overlap, ~Crashes, EInv, [Next]_vars PROVE EInv'
  OBVIOUS
<1>1. TInv' /\ OneCall'
  BY TInvNext, OneCallNext DEF EInv
<1>2. SemOne' /\ SemHeld'
  BY SemKeepsNext, SemKeepsInv, SemLoadInv, SemStoreInv, GiveBackInv DEF EInv
<1> QED
  BY <1>1, <1>2 DEF EInv

\* slotmaint.c:144,149 "give back control": with calls one at a time, and no
\* death inside one, the next process can always enter pickslot().
THEOREM ControlGivenBack == ASSUME ~Overlap, ~Crashes PROVE Spec => []SemGivenBack
<1>1. EInv => SemGivenBack
  BY DEF EInv, SemHeld, SemGivenBack, Quiet, Inside, PickPCs, Actor
<1> QED
  BY <1>1, EInvInit, EInvNext, PTL DEF Spec

-----------------------------------------------------------------------------
\* A finite set has a cardinality, and so has what is counted.
LEMMA CountedFinite == \A q : IsFiniteSet(Counted(q)) /\ Cardinality(Counted(q)) \in Nat
<1> SUFFICES ASSUME NEW q PROVE IsFiniteSet(Counted(q))
  BY FS_CardinalityType
<1> QED
  BY SlotsAssumption, FS_Subset DEF Counted

LEMMA CountedFiniteNext == \A q : IsFiniteSet(Counted(q)') /\ Cardinality(Counted(q)') \in Nat
<1> SUFFICES ASSUME NEW q PROVE IsFiniteSet(Counted(q)')
  BY FS_CardinalityType
<1> QED
  BY SlotsAssumption, FS_Subset DEF Counted

\* The three ways in which a step keeps FreeEnough: it counts no slot less,
\* it counts a slot it pays for, or it is paid for the only slot it drops.
LEMMA CountsMore ==
  ASSUME TypeOK, FreeEnough, NEW q \in Queue, free'[q] = free[q], Counted(q) \subseteq Counted(q)'
  PROVE  free'[q] >= MaxSlots(q) - Cardinality(Counted(q)')
<1>1. Cardinality(Counted(q)) <= Cardinality(Counted(q)')
  BY CountedFinite, CountedFiniteNext, FS_Subset
<1> QED
  BY <1>1, CountedFinite, CountedFiniteNext, MaxSlotsType DEF TypeOK, FreeEnough

LEMMA CountsOneMore ==
  ASSUME TypeOK, FreeEnough, NEW q \in Queue, free'[q] = free[q] - 1,
         NEW s, s \notin Counted(q), Counted(q) \cup {s} \subseteq Counted(q)'
  PROVE  free'[q] >= MaxSlots(q) - Cardinality(Counted(q)')
<1>1. Cardinality(Counted(q) \cup {s}) = Cardinality(Counted(q)) + 1
  BY CountedFinite, FS_AddElement
<1>2. Cardinality(Counted(q) \cup {s}) <= Cardinality(Counted(q)')
  BY CountedFiniteNext, FS_Subset
<1> QED
  BY <1>1, <1>2, CountedFinite, CountedFiniteNext, MaxSlotsType DEF TypeOK, FreeEnough

LEMMA CountsOneLess ==
  ASSUME TypeOK, FreeEnough, NEW q \in Queue, free'[q] = free[q] + 1,
         NEW s, Counted(q) \ {s} \subseteq Counted(q)'
  PROVE  free'[q] >= MaxSlots(q) - Cardinality(Counted(q)')
<1>1. Cardinality(Counted(q) \ {s}) = IF s \in Counted(q) THEN Cardinality(Counted(q)) - 1 ELSE Cardinality(Counted(q))
  BY CountedFinite, FS_RemoveElement
<1>2. Cardinality(Counted(q) \ {s}) <= Cardinality(Counted(q)')
  BY CountedFiniteNext, FS_Subset
<1>3. Cardinality(Counted(q) \ {s}) \in Nat
  BY CountedFinite, FS_Subset, FS_CardinalityType
<1> QED
  BY <1>1, <1>2, <1>3, CountedFinite, CountedFiniteNext, MaxSlotsType DEF TypeOK, FreeEnough

\* What one actor inside a call says about every slot.
SoleActor ==
  \A a \in Actor : OneCall =>
    /\ pc[a] \in {"setup", "dec", "dec2", "undo", "undo2"} =>
         \A s : ~Late(s) /\ (Early(s) <=> s = slot[a])
    /\ a \in Proc /\ pc[a] = "take" => \A s : ~Late(s) /\ (Early(s) <=> s = Scan[wq[a]][cur[a]])
    /\ pc[a] \in {"clear", "inc", "inc2"} => \A s : ~Early(s) /\ (Late(s) <=> s = slot[a])
    /\ pc[a] \in {"lock", "scan", "fs", "give", "proc"} => \A s : ~Early(s) /\ ~Late(s)

LEMMA Sole == SoleActor
<1> SUFFICES ASSUME NEW a \in Actor, OneCall, pc[a] \in Calls
             PROVE  /\ pc[a] \in {"setup", "dec", "dec2", "undo", "undo2"} =>
                         \A s : ~Late(s) /\ (Early(s) <=> s = slot[a])
                    /\ a \in Proc /\ pc[a] = "take" => \A s : ~Late(s) /\ (Early(s) <=> s = Scan[wq[a]][cur[a]])
                    /\ pc[a] \in {"clear", "inc", "inc2"} => \A s : ~Early(s) /\ (Late(s) <=> s = slot[a])
                    /\ pc[a] \in {"lock", "scan", "fs", "give", "proc"} => \A s : ~Early(s) /\ ~Late(s)
  BY DEF SoleActor, Calls, PickPCs, FreePCs
<1>1. \A b \in Actor : b # a => pc[b] \notin Calls
  BY DEF OneCall
<1> QED
  BY <1>1 DEF Late, Early, Calls, PickPCs, FreePCs, Actor

LEMMA SoleNext == SoleActor'
  BY Sole, PTL

\* A step that changes neither counter, nor what is counted.
CountKeeps ==
  /\ UNCHANGED <<squeue, free>>
  /\ \A s \in Slot : status'[s] = "PFREE" => status[s] = "PFREE"
  /\ \A a \in Actor : pc'[a] \in {"setup", "dec", "dec2", "undo", "undo2"} =>
                      pc[a] \in {"setup", "dec", "dec2", "undo", "undo2"} /\ slot'[a] = slot[a]
  /\ \A a \in Actor : pc[a] \in {"clear", "inc", "inc2"} =>
                      pc'[a] \in {"clear", "inc", "inc2"} /\ slot'[a] = slot[a]
  /\ \A p \in Proc : pc'[p] = "take" => pc[p] = "take" /\ wq'[p] = wq[p] /\ cur'[p] = cur[p]
  /\ \A p \in Proc : pc'[p] \in {"setup", "dec", "dec2"} => wq'[p] = wq[p] /\ pc[p] \in {"setup", "dec", "dec2"}
  /\ \A p \in Proc : pc'[p] \in {"dec", "dec2"} => pc[p] \in {"dec", "dec2"}
  /\ Loaded'

LEMMA CountKeepsInv ==
  ASSUME TInv, TInv', Chosen, FreeEnough, CountKeeps
  PROVE  Chosen' /\ FreeEnough'
<1>1. Chosen'
  BY DEF TInv, SlotOK, Chosen, CountKeeps, Actor
<1>2. \A s \in Slot : (Early(s)' => Early(s)) /\ (Late(s) => Late(s)')
  BY DEF CountKeeps, Early, Late
<1>3. \A q \in Queue : Counted(q) \subseteq Counted(q)'
  BY <1>2 DEF Counted, CountKeeps
<1>4. FreeEnough'
  BY <1>3, CountsMore DEF FreeEnough, TInv, CountKeeps
<1> QED
  BY <1>1, <1>4

LEMMA CountKeepsNext ==
  ASSUME ~Overlap, ~Crashes, TInv, OneCall, Loaded, [Next]_vars
  PROVE  \/ CountKeeps
         \/ \E p \in Proc : LockSlot(p) \/ TakeSlot(p) \/ SetupSlot(p) \/ DecStore(p)
         \/ \E a \in Actor : FreeTest(a) \/ UndoStore(a) \/ ClearStatus(a) \/ IncStore(a)
         \/ \E q \in Queue : Purge(q)
<1> USE Distinct DEF TInv, TypeOK, SlotOK, CountKeeps, Loaded, Actor, FreePCs, Goto, Exit, shared, MainPCs
<1>1. ASSUME NEW p \in Proc, NEW q \in Queue, Connect(p, q) PROVE CountKeeps
  BY <1>1 DEF Connect
<1>2. ASSUME NEW p \in Proc, GiveUp(p) PROVE CountKeeps
  BY <1>2 DEF GiveUp
<1>3. ASSUME NEW p \in Proc, SemLoad(p) PROVE CountKeeps
  BY <1>3 DEF SemLoad
<1>4. ASSUME NEW p \in Proc, SemStore(p) PROVE CountKeeps
  BY <1>4 DEF SemStore
<1>5. ASSUME NEW p \in Proc, CheckFree(p) PROVE CountKeeps
  BY <1>5 DEF CheckFree
<1>6. ASSUME NEW p \in Proc, ScanSlot(p) PROVE CountKeeps
  BY <1>6 DEF ScanSlot
<1>7. ASSUME NEW p \in Proc, DecLoad(p) PROVE CountKeeps
  BY <1>7 DEF DecLoad
<1>8. ASSUME NEW p \in Proc, GiveBack(p) PROVE CountKeeps
  BY <1>8 DEF GiveBack
<1>9. ASSUME NEW p \in Proc, Claim(p) PROVE CountKeeps
  BY <1>9 DEF Claim
<1>10. ASSUME NEW p \in Proc, Enter(p) \/ death(p) PROVE CountKeeps
  <2>1. CASE Enter(p)
    BY <2>1 DEF Enter
  <2>2. CASE death(p)
    BY <2>2 DEF death
  <2> QED
    BY <1>10, <2>1, <2>2
<1>11. ASSUME NEW p \in Proc, ExitGame(p) PROVE CountKeeps
  <2>1. CASE Goto(p, "fs")
    BY <1>11, <2>1 DEF ExitGame
  <2>2. CASE Exit(p)
    BY <1>11, <2>2 DEF ExitGame
  <2> QED
    BY <1>11, <2>1, <2>2 DEF ExitGame
<1>12. ASSUME NEW p \in Proc, Panic(p) PROVE CountKeeps
  BY <1>12 DEF Panic
<1>13. ASSUME NEW p \in Proc, ForceShutdown(p) PROVE CountKeeps
  <2>1. CASE Goto(p, "fs")
    BY <1>13, <2>1 DEF ForceShutdown
  <2>2. CASE Exit(p)
    BY <1>13, <2>2 DEF ForceShutdown
  <2> QED
    BY <1>13, <2>1, <2>2 DEF ForceShutdown
<1>14. ASSUME NEW p \in Proc, LoseTerm(p) PROVE CountKeeps
  BY <1>14 DEF LoseTerm
<1>15. ASSUME NEW a \in Actor, UndoLoad(a) PROVE CountKeeps
  BY <1>15 DEF UndoLoad
<1>16. ASSUME NEW a \in Actor, IncLoad(a) PROVE CountKeeps
  BY <1>16 DEF IncLoad
<1>17. ASSUME NEW a \in Actor, ClearProcess(a) PROVE CountKeeps
  <2>1. CASE a = Daemon
    BY <1>17, <2>1 DEF ClearProcess
  <2>2. CASE Exit(a)
    BY <1>17, <2>2 DEF ClearProcess
  <2> QED
    BY <1>17, <2>1, <2>2 DEF ClearProcess
<1>18. ASSUME NEW s \in Slot, Die(s) PROVE CountKeeps
  BY <1>18 DEF Die
<1>19. ASSUME NEW s \in Slot, OutfitTimeout(s) PROVE CountKeeps
  BY <1>19 DEF OutfitTimeout, DaemonFree
<1>20. ASSUME NEW s \in Slot, PauseKill(s) PROVE CountKeeps
  BY <1>20 DEF PauseKill, DaemonFree
<1>21. ASSUME NEW s \in Slot, Reap(s) PROVE CountKeeps
  BY <1>21 DEF Reap, DaemonFree
<1>22. CASE UNCHANGED vars
  BY <1>22 DEF vars
<1> QED
  BY <1>1, <1>2, <1>3, <1>4, <1>5, <1>6, <1>7, <1>8, <1>9, <1>10, <1>11, <1>12, <1>13, <1>14, <1>15, <1>16, <1>17, <1>18, <1>19, <1>20, <1>21, <1>22
  DEF Next, DaemonStep, ProcStep, Pickslot, Freeslot, Crash

-----------------------------------------------------------------------------
(***************************************************************************)
(* The steps that move a counter, or what is counted.  Each is the step of *)
(* the one actor inside a call, so Early and Late speak of his slot alone. *)
(***************************************************************************)
FInv == TInv /\ OneCall /\ Loaded /\ Chosen /\ FreeEnough

\* Where nobody is at a store, and nobody is setting up a slot.
LEMMA NothingLoaded ==
  ASSUME OneCall', NEW a \in Actor, pc'[a] \in Calls \ {"setup", "dec", "dec2", "undo2", "inc2"}
  PROVE  Loaded' /\ Chosen'
  BY DEF OneCall, Loaded, Chosen, Calls, PickPCs, FreePCs, Actor

LEMMA LockSlotCount ==
  ASSUME FInv, TInv', OneCall', NEW p \in Proc, LockSlot(p)
  PROVE  Loaded' /\ Chosen' /\ FreeEnough'
<1> USE DEF FInv, TInv, TypeOK, Actor
<1>1. pc[p] = "lock" /\ pc'[p] \in {"scan", "take"}
  BY DEF LockSlot, Goto
<1>2. UNCHANGED <<status, squeue, free, wq, slot>>
  BY DEF LockSlot
<1>3. pc'[p] = "take" => UNCHANGED cur /\ status[Scan[wq[p]][cur[p]]] = "PFREE"
  BY DEF LockSlot, Goto, StillFree
<1>4. \A s : ~Late(s) /\ ~Early(s)
  BY <1>1, Sole DEF SoleActor
<1>5. \A s : ~Late(s)' /\ (Early(s)' => status[s] = "PFREE")
  BY <1>1, <1>2, <1>3, SoleNext DEF SoleActor
<1>6. \A q \in Queue : Counted(q) \subseteq Counted(q)'
  BY <1>2, <1>4, <1>5 DEF Counted
<1>7. FreeEnough'
  BY <1>2, <1>6, CountsMore DEF FreeEnough
<1> QED
  BY <1>1, <1>7, NothingLoaded DEF Calls, PickPCs

LEMMA TakeSlotCount ==
  ASSUME FInv, TInv', OneCall', NEW p \in Proc, TakeSlot(p)
  PROVE  Loaded' /\ Chosen' /\ FreeEnough'
<1> DEFINE s == Scan[wq[p]][cur[p]]
<1> USE DEF FInv, TInv, TypeOK, Actor
<1>1. /\ pc[p] = "take" /\ pc'[p] = "setup" /\ slot'[p] = s
      /\ s \in Slot
      /\ status' = [status EXCEPT ![s] = "POUTFIT"]
      /\ UNCHANGED <<squeue, free, wq>>
  BY ScanType DEF TakeSlot, Goto, HasQueue, CursorOK
<1>2. \A t : ~Late(t) /\ (Early(t) <=> t = s)
  BY <1>1, Sole DEF SoleActor
<1>3. \A t : ~Late(t)' /\ (Early(t)' <=> t = s)
  BY <1>1, SoleNext DEF SoleActor
<1>4. \A q \in Queue : Counted(q) \subseteq Counted(q)'
  BY <1>1, <1>2, <1>3 DEF Counted
<1>5. FreeEnough'
  BY <1>1, <1>4, CountsMore DEF FreeEnough
<1>6. \A b \in Actor : b # p => pc'[b] \notin Calls
  BY <1>1 DEF OneCall, Calls, PickPCs
<1>7. \A r \in Proc : pc'[r] \in {"setup", "dec", "dec2"} => r = p
  BY <1>6 DEF Calls, PickPCs
<1>8. Chosen'
  BY <1>1, <1>7 DEF Chosen
<1>9. Loaded'
  BY <1>1, <1>6 DEF Loaded, Calls, PickPCs, FreePCs
<1> QED
  BY <1>5, <1>8, <1>9

LEMMA SetupSlotCount ==
  ASSUME FInv, TInv', OneCall', NEW p \in Proc, SetupSlot(p)
  PROVE  Loaded' /\ Chosen' /\ FreeEnough'
<1> USE DEF FInv, TInv, TypeOK, SlotOK, Actor
<1>1. /\ pc[p] = "setup" /\ pc'[p] = "dec" /\ slot[p] \in Slot
      /\ squeue' = [squeue EXCEPT ![slot[p]] = wq[p]]
      /\ UNCHANGED <<status, free, wq, slot>>
  BY DEF SetupSlot, Goto
<1>2. \A t : ~Late(t) /\ (Early(t) <=> t = slot[p])
  BY <1>1, Sole DEF SoleActor
<1>3. \A t : ~Late(t)' /\ (Early(t)' <=> t = slot[p])
  BY <1>1, SoleNext DEF SoleActor
<1>4. \A q \in Queue : Counted(q) \subseteq Counted(q)'
  BY <1>1, <1>2, <1>3 DEF Counted
<1>5. FreeEnough'
  BY <1>1, <1>4, CountsMore DEF FreeEnough
<1>6. \A b \in Actor : b # p => pc'[b] \notin Calls
  BY <1>1 DEF OneCall, Calls, PickPCs
<1>7. Loaded' /\ Chosen'
  BY <1>1, <1>6 DEF Loaded, Chosen, Calls, PickPCs, FreePCs
<1> QED
  BY <1>5, <1>7

\* The "--" pays for the slot that is counted from now on.
LEMMA DecStoreCount ==
  ASSUME FInv, TInv', OneCall', NEW p \in Proc, DecStore(p)
  PROVE  Loaded' /\ Chosen' /\ FreeEnough'
<1> USE DEF FInv, TInv, TypeOK, SlotOK, HasQueue, Actor
<1>1. /\ pc[p] = "dec2" /\ pc'[p] = "give" /\ slot[p] \in Slot /\ wq[p] \in Queue
      /\ free' = [free EXCEPT ![wq[p]] = free[wq[p]] - 1]
      /\ UNCHANGED <<status, squeue, slot, wq>>
  BY DEF DecStore, Goto, Loaded
<1>2. status[slot[p]] # "PFREE" /\ squeue[slot[p]] = wq[p]
  BY <1>1 DEF Chosen
<1>3. \A t : ~Late(t) /\ (Early(t) <=> t = slot[p])
  BY <1>1, Sole DEF SoleActor
<1>4. \A t : ~Late(t)' /\ ~Early(t)'
  BY <1>1, SoleNext DEF SoleActor
<1>5. \A q \in Queue : Counted(q) \subseteq Counted(q)'
  BY <1>1, <1>3, <1>4 DEF Counted
<1>6. \A q \in Queue : q = wq[p] => slot[p] \notin Counted(q) /\ slot[p] \in Counted(q)'
  BY <1>1, <1>2, <1>3, <1>4 DEF Counted
<1>7. \A q \in Queue : free'[q] >= MaxSlots(q) - Cardinality(Counted(q)')
  <2> SUFFICES ASSUME NEW q \in Queue PROVE free'[q] >= MaxSlots(q) - Cardinality(Counted(q)')
    OBVIOUS
  <2>1. CASE q = wq[p]
    <3>1. free'[q] = free[q] - 1 /\ Counted(q) \cup {slot[p]} \subseteq Counted(q)'
      BY <1>1, <1>5, <1>6, <2>1
    <3> QED
      BY <1>5, <1>6, <2>1, <3>1, CountsOneMore
  <2>2. CASE q # wq[p]
    <3>1. free'[q] = free[q]
      BY <1>1, <2>2
    <3> QED
      BY <3>1, <1>5, CountsMore
  <2> QED
    BY <2>1, <2>2
<1> QED
  BY <1>1, <1>7, NothingLoaded DEF FreeEnough, Calls, PickPCs

LEMMA FreeTestCount ==
  ASSUME FInv, TInv', OneCall', NEW a \in Actor, FreeTest(a)
  PROVE  Loaded' /\ Chosen' /\ FreeEnough'
<1> USE DEF FInv, TInv, TypeOK
<1>1. /\ pc[a] = "fs" /\ pc'[a] = IF status[slot[a]] = "PFREE" THEN "undo" ELSE "clear"
      /\ UNCHANGED <<status, squeue, free, slot>>
  BY DEF FreeTest, Goto, shared
<1>2. \A t : ~Late(t) /\ ~Early(t)
  BY <1>1, Sole DEF SoleActor
<1>3. \A t : Early(t)' => status[t] = "PFREE"
  BY <1>1, SoleNext DEF SoleActor
<1>4. \A q \in Queue : Counted(q) \subseteq Counted(q)'
  BY <1>1, <1>2, <1>3 DEF Counted
<1>5. FreeEnough'
  BY <1>1, <1>4, CountsMore DEF FreeEnough
<1> QED
  BY <1>1, <1>5, NothingLoaded DEF Calls, PickPCs, FreePCs

\* The "--" for a slot that is PFREE pays for the "++" still to come.
LEMMA UndoStoreCount ==
  ASSUME FInv, TInv', OneCall', NEW a \in Actor, UndoStore(a)
  PROVE  Loaded' /\ Chosen' /\ FreeEnough'
<1> DEFINE q0 == squeue[slot[a]]
<1> USE DEF FInv, TInv, TypeOK, SlotOK
<1>1. /\ pc[a] = "undo2" /\ pc'[a] = "clear" /\ slot[a] \in Slot /\ q0 \in Queue
      /\ free' = [free EXCEPT ![q0] = free[q0] - 1]
      /\ UNCHANGED <<status, squeue, slot>>
  BY DEF UndoStore, Goto, Loaded, FreePCs
<1>2. \A t : ~Late(t) /\ (Early(t) <=> t = slot[a])
  BY <1>1, Sole DEF SoleActor
<1>3. \A t : (Late(t)' <=> t = slot[a]) /\ ~Early(t)'
  BY <1>1, SoleNext DEF SoleActor
<1>4. \A q \in Queue : Counted(q) \subseteq Counted(q)'
  BY <1>1, <1>2, <1>3 DEF Counted
<1>5. \A q \in Queue : q = q0 => slot[a] \notin Counted(q) /\ slot[a] \in Counted(q)'
  BY <1>1, <1>2, <1>3 DEF Counted
<1>6. \A q \in Queue : free'[q] >= MaxSlots(q) - Cardinality(Counted(q)')
  <2> SUFFICES ASSUME NEW q \in Queue PROVE free'[q] >= MaxSlots(q) - Cardinality(Counted(q)')
    OBVIOUS
  <2>1. CASE q = q0
    <3>1. free'[q] = free[q] - 1 /\ Counted(q) \cup {slot[a]} \subseteq Counted(q)'
      BY <1>1, <1>4, <1>5, <2>1
    <3> QED
      BY <1>4, <1>5, <2>1, <3>1, CountsOneMore
  <2>2. CASE q # q0
    <3>1. free'[q] = free[q]
      BY <1>1, <2>2
    <3> QED
      BY <3>1, <1>4, CountsMore
  <2> QED
    BY <2>1, <2>2
<1> QED
  BY <1>1, <1>6, NothingLoaded DEF FreeEnough, Calls, PickPCs, FreePCs

LEMMA ClearStatusCount ==
  ASSUME FInv, TInv', OneCall', NEW a \in Actor, ClearStatus(a)
  PROVE  Loaded' /\ Chosen' /\ FreeEnough'
<1> USE DEF FInv, TInv, TypeOK, SlotOK
<1>1. /\ pc[a] = "clear" /\ pc'[a] = "inc" /\ slot[a] \in Slot
      /\ status' = [status EXCEPT ![slot[a]] = "PFREE"]
      /\ UNCHANGED <<squeue, free, slot>>
  BY DEF ClearStatus, Goto, FreePCs
<1>2. \A t : Late(t) <=> t = slot[a]
  BY <1>1, Sole DEF SoleActor
<1>3. \A t : (Late(t)' <=> t = slot[a]) /\ ~Early(t)'
  BY <1>1, SoleNext DEF SoleActor
<1>4. \A q \in Queue : Counted(q) \subseteq Counted(q)'
  BY <1>1, <1>2, <1>3 DEF Counted
<1>5. FreeEnough'
  BY <1>1, <1>4, CountsMore DEF FreeEnough
<1> QED
  BY <1>1, <1>5, NothingLoaded DEF Calls, PickPCs, FreePCs

\* The "++" is paid for the slot that is no longer counted, unless it is taken.
LEMMA IncStoreCount ==
  ASSUME FInv, TInv', OneCall', NEW a \in Actor, IncStore(a)
  PROVE  Loaded' /\ Chosen' /\ FreeEnough'
<1> DEFINE q0 == squeue[slot[a]]
<1> USE DEF FInv, TInv, TypeOK, SlotOK
<1>1. /\ pc[a] = "inc2" /\ pc'[a] = "proc" /\ slot[a] \in Slot /\ q0 \in Queue
      /\ free' = [free EXCEPT ![q0] = free[q0] + 1]
      /\ UNCHANGED <<status, squeue, slot>>
  BY DEF IncStore, Goto, Loaded, FreePCs
<1>2. \A t : Late(t) <=> t = slot[a]
  BY <1>1, Sole DEF SoleActor
<1>3. \A t : ~Early(t) /\ ~Late(t)' /\ ~Early(t)'
  BY <1>1, Sole, SoleNext DEF SoleActor
<1>4. \A q \in Queue : Counted(q) \ {slot[a]} \subseteq Counted(q)'
  BY <1>1, <1>2, <1>3 DEF Counted
<1>5. \A q \in Queue : q # q0 => slot[a] \notin Counted(q)
  BY <1>1 DEF Counted
<1>6. \A q \in Queue : free'[q] >= MaxSlots(q) - Cardinality(Counted(q)')
  <2> SUFFICES ASSUME NEW q \in Queue PROVE free'[q] >= MaxSlots(q) - Cardinality(Counted(q)')
    OBVIOUS
  <2>1. CASE q = q0
    <3>1. free'[q] = free[q] + 1
      BY <1>1, <2>1
    <3> QED
      BY <1>4, <3>1, CountsOneLess
  <2>2. CASE q # q0
    <3>1. free'[q] = free[q] /\ Counted(q) \subseteq Counted(q)'
      BY <1>1, <1>4, <1>5, <2>2
    <3> QED
      BY <3>1, CountsMore
  <2> QED
    BY <2>1, <2>2
<1> QED
  BY <1>1, <1>6, NothingLoaded DEF FreeEnough, Calls, PickPCs, FreePCs

LEMMA PurgeCount ==
  ASSUME ~Overlap, FInv, TInv', OneCall', NEW q \in Queue, Purge(q)
  PROVE  Loaded' /\ Chosen' /\ FreeEnough'
<1> USE Distinct DEF FInv, TInv, TypeOK
<1>1. /\ \A b \in Actor : pc'[b] \notin Calls /\ pc[b] \notin Calls
      /\ free' = [free EXCEPT ![q] = MaxSlots(q)]
      /\ UNCHANGED <<status, squeue, slot>>
  BY DEF Purge, MayCall, Calls, PickPCs, FreePCs
<1>2. Loaded' /\ Chosen'
  BY <1>1 DEF Loaded, Chosen, Calls, PickPCs, FreePCs, Actor
<1>3. \A s : ~Early(s)' /\ ~Late(s)
  BY <1>1 DEF Early, Late, Calls, PickPCs, FreePCs, Actor
<1>4. \A r \in Queue : Counted(r) \subseteq Counted(r)'
  BY <1>1, <1>3 DEF Counted
<1>5. free'[q] >= MaxSlots(q) - Cardinality(Counted(q)')
  BY <1>1, MaxSlotsType, CountedFiniteNext
<1>6. ASSUME NEW r \in Queue, r # q PROVE free'[r] >= MaxSlots(r) - Cardinality(Counted(r)')
  <2>1. free'[r] = free[r]
    BY <1>1, <1>6
  <2> QED
    BY <2>1, <1>4, CountsMore
<1> QED
  BY <1>2, <1>5, <1>6 DEF FreeEnough

LEMMA FInvInit == Init => FInv
<1> SUFFICES ASSUME Init PROVE FInv
  OBVIOUS
<1>1. \A a \in Actor : pc[a] \in {"new", "idle"}
  BY DEF Init
<1>2. OneCall /\ Loaded /\ Chosen
  BY <1>1 DEF OneCall, Calls, PickPCs, FreePCs, Loaded, Chosen, Actor
<1>3. \A q \in Queue : free[q] = MaxSlots(q)
  BY DEF Init
<1>4. FreeEnough
  BY <1>3, MaxSlotsType, CountedFinite DEF FreeEnough
<1> QED
  BY <1>2, <1>4, TInvInit DEF FInv

LEMMA FInvNext == ~Overlap /\ ~Crashes /\ FInv /\ [Next]_vars => FInv'
<1> SUFFICES ASSUME ~Overlap, ~Crashes, FInv, [Next]_vars PROVE FInv'
  OBVIOUS
<1>1. TInv' /\ OneCall'
  BY TInvNext, OneCallNext DEF FInv
<1>2. CASE CountKeeps
  BY <1>1, <1>2, CountKeepsInv DEF FInv, CountKeeps
<1>3. CASE ~CountKeeps
  BY <1>1, <1>3, CountKeepsNext, LockSlotCount, TakeSlotCount, SetupSlotCount, DecStoreCount, FreeTestCount,
     UndoStoreCount, ClearStatusCount, IncStoreCount, PurgeCount DEF FInv
<1> QED
  BY <1>2, <1>3

\* slotmaint.c:38,49,138: with calls one at a time, and no death inside one,
\* free_slots never falls below the number of slots that are not taken, so
\* no slot is lost to the counter, whatever the daemon frees or clamps.
THEOREM CapacityKept == ASSUME ~Overlap, ~Crashes PROVE Spec => []NoCapacityLost
<1>1. FInv => NoCapacityLost
  <2> SUFFICES ASSUME FInv, Quiet, NEW q \in Queue
               PROVE  free[q] >= MaxSlots(q) - Cardinality({s \in Slot : status[s] # "PFREE" /\ squeue[s] = q})
    BY DEF NoCapacityLost
  <2>1. \A s : ~Early(s) /\ ~Late(s)
    BY DEF Quiet, Early, Late, PickPCs, FreePCs, Actor
  <2>2. Counted(q) = {s \in Slot : status[s] # "PFREE" /\ squeue[s] = q}
    BY <2>1 DEF Counted
  <2> QED
    BY <2>2 DEF FInv, FreeEnough
<1> QED
  BY <1>1, FInvInit, FInvNext, PTL DEF Spec
=============================================================================
