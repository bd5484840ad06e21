------------------------------- MODULE Slots -------------------------------
(***************************************************************************)
(* Player slots of the Netrek server (ntserv/slotmaint.c), shared by one   *)
(* ntserv process per client and by the daemon.  pickslot() is guarded by  *)
(* two things: the per-queue counter enter_sem, decremented with a plain   *)
(* C "--" on shared memory, and the SysV semaphore LOCK_PICKSLOT around    *)
(* the test-and-set of p_status.  freeslot() takes no lock at all, and is  *)
(* called by the owner of the slot, by its SIGTERM handler and by the      *)
(* daemon.  Every read and write of shared memory that another actor can   *)
(* get between is a step of its own.                                       *)
(*                                                                         *)
(* Abstractions.  p_status keeps PFREE and POUTFIT; "PLAY" stands for      *)
(* PALIVE, POBSERV, PEXPLODE and PDEAD.  enter_sem keeps whether it is 1   *)
(* (TRUE) or at most 0 (FALSE): the code only compares it with 1.  The     *)
(* line of waiting processes is module WaitQueue.                          *)
(***************************************************************************)
EXTENDS Integers, Sequences, FiniteSets

CONSTANTS
  Proc,     \* the ntserv processes; each connects once, as a pid does
  Daemon,   \* the daemon process
  Slot,     \* the entries of players[]
  Queue,    \* the entries of queues[]
  Pickup,   \* QU_PICKUP, queue 0
  Scan,     \* Scan[q]: the slots scanqueue() tries for q, in order
  None,     \* no process, no slot
  Overlap,  \* may pickslot() and freeslot() calls overlap in time?
  Busts,    \* bound: how often the daemon frees a slot whose owner is alive
  Crashes   \* may an ntserv die without running exitGame()?

ASSUME SlotsAssumption ==
  /\ Daemon \notin Proc
  /\ IsFiniteSet(Slot)
  /\ None \notin Proc \cup Slot \cup {Daemon}
  /\ Pickup \in Queue
  /\ Scan \in [Queue -> Seq(Slot)]
  /\ Overlap \in BOOLEAN
  /\ Crashes \in BOOLEAN
  /\ Busts \in Nat

Actor == Proc \cup {Daemon}

VARIABLES
  status,   \* players[s].p_status
  process,  \* players[s].p_process
  squeue,   \* players[s].w_queue
  sem,      \* queues[q].enter_sem = 1
  free,     \* queues[q].free_slots
  lock,     \* holder of LOCK_PICKSLOT
  pc,       \* where each actor is
  wq,       \* the w_queue argument of each process
  cur,      \* loop index of scanqueue, a position in Scan[wq]
  slot,     \* the slot the actor works on: the result of pickslot, me, j
  reg,      \* the value a "--" or "++" has loaded and not yet stored
  term,     \* SIGTERM of each process: "none", "pending", "handled"
  lost,     \* history: processes whose slot was freed after they took it
  busts     \* how many of the Busts are left

shared == <<status, process, squeue, sem, free, lock>>
vars == <<shared, pc, wq, cur, slot, reg, term, lost, busts>>

MaxSlots(q) == Cardinality({Scan[q][k] : k \in DOMAIN Scan[q]})

Init ==
  /\ status = [s \in Slot |-> "PFREE"]
  /\ process = [s \in Slot |-> None]
  /\ squeue = [s \in Slot |-> Pickup]    \* shared memory starts zeroed
  /\ sem = [q \in Queue |-> TRUE]
  /\ free = [q \in Queue |-> MaxSlots(q)]
  /\ lock = None
  /\ pc = [a \in Actor |-> IF a = Daemon THEN "idle" ELSE "new"]
  /\ wq = [p \in Proc |-> None]
  /\ cur = [p \in Proc |-> 1]
  /\ slot = [a \in Actor |-> None]
  /\ reg = [a \in Actor |-> 0]
  /\ term = [p \in Proc |-> "none"]
  /\ lost = {}
  /\ busts = Busts

PickPCs == {"sem", "check", "scan", "lock", "take", "setup", "dec", "dec2", "give"}
FreePCs == {"fs", "undo", "undo2", "clear", "inc", "inc2", "proc"}
MainPCs == {"in", "play"}    \* in main(), and in its loop on input()

\* An actor may start a call: at any time, or, when calls do not overlap,
\* when no other actor is inside one.
MayCall(a) == Overlap \/ \A b \in Actor \ {a} : pc[b] \notin PickPCs \cup FreePCs

Goto(a, l) == pc' = [pc EXCEPT ![a] = l]

\* exit(): the process is gone, and a signal for it has no receiver.
Exit(p) ==
  /\ pc' = [pc EXCEPT ![p] = "gone"]
  /\ slot' = [slot EXCEPT ![p] = None]
  /\ term' = [term EXCEPT ![p] = "none"]

Holds(p) ==
  \/ pc[p] \in {"setup", "dec", "dec2", "claim", "fs", "undo", "undo2", "clear"} \cup MainPCs
  \/ pc[p] = "give" /\ slot[p] # None

Owners(s) == {p \in Proc : Holds(p) /\ slot[p] = s}

-----------------------------------------------------------------------------
(* findslot() and pickslot()                                                *)

\* A client connects and asks for queue q.
Connect(p, q) ==
  /\ pc[p] = "new"
  /\ wq' = [wq EXCEPT ![p] = q]
  /\ Goto(p, "wait")
  /\ UNCHANGED <<shared, cur, slot, reg, term, lost, busts>>

\* A waiting process whose client is dead, or that sees the game go down, exits.
GiveUp(p) ==
  /\ pc[p] = "wait"
  /\ Exit(p)
  /\ UNCHANGED <<shared, wq, cur, reg, lost, busts>>

\* if (queues[w_queue].enter_sem-- < 1): the load.
SemLoad(p) ==
  /\ pc[p] = "wait"
  /\ MayCall(p)
  /\ reg' = [reg EXCEPT ![p] = IF sem[wq[p]] THEN 1 ELSE 0]
  /\ Goto(p, "sem")
  /\ UNCHANGED <<shared, wq, cur, slot, term, lost, busts>>

\* ... and the store, with the early return of a process that read less than 1.
SemStore(p) ==
  /\ pc[p] = "sem"
  /\ sem' = [sem EXCEPT ![wq[p]] = FALSE]
  /\ Goto(p, IF reg[p] < 1 THEN "wait" ELSE "check")
  /\ reg' = [reg EXCEPT ![p] = 0]
  /\ UNCHANGED <<status, process, squeue, free, lock, wq, cur, slot, term, lost, busts>>

\* if (free_slots <= 0) give back control, else start the scan.
CheckFree_Mutant(p) ==         \* the early return keeps enter_sem
  /\ pc[p] = "check"
  /\ Goto(p, IF free[wq[p]] <= 0 THEN "wait" ELSE "scan")
  /\ UNCHANGED <<shared, wq, cur, slot, reg, term, lost, busts>>

CheckFree(p) ==
  /\ pc[p] = "check"
  /\ Goto(p, IF free[wq[p]] <= 0 THEN "give" ELSE "scan")
  /\ UNCHANGED <<shared, wq, cur, slot, reg, term, lost, busts>>

\* for (...; i++) of scanqueue().
NextSlot_Mutant(i) == i + 2    \* the loop steps twice
NextSlot(i) == i + 1

\* scanqueue(): pickslot_action()'s first look at p_status, without the lock.
ScanSlot(p) ==
  /\ pc[p] = "scan"
  /\ \/ /\ cur[p] > Len(Scan[wq[p]])
        /\ Goto(p, "give")
        /\ UNCHANGED cur
     \/ /\ cur[p] <= Len(Scan[wq[p]])
        /\ status[Scan[wq[p]][cur[p]]] # "PFREE"
        /\ cur' = [cur EXCEPT ![p] = NextSlot(@)]
        /\ UNCHANGED pc
     \/ /\ cur[p] <= Len(Scan[wq[p]])
        /\ status[Scan[wq[p]][cur[p]]] = "PFREE"
        /\ Goto(p, "lock")
        /\ UNCHANGED cur
  /\ UNCHANGED <<shared, wq, slot, reg, term, lost, busts>>

\* if (players[i].p_status != PFREE), the look under the lock.
StillFree_Mutant(s) == TRUE    \* only the look without the lock is left
StillFree(s) == status[s] = "PFREE"

\* lock_on(LOCK_PICKSLOT) and the second look; lock_off when it fails.
LockSlot(p) ==
  /\ pc[p] = "lock"
  /\ lock = None
  /\ \/ /\ ~StillFree(Scan[wq[p]][cur[p]])
        /\ cur' = [cur EXCEPT ![p] = NextSlot(@)]
        /\ Goto(p, "scan")
        /\ UNCHANGED lock
     \/ /\ StillFree(Scan[wq[p]][cur[p]])
        /\ lock' = p
        /\ Goto(p, "take")
        /\ UNCHANGED cur
  /\ UNCHANGED <<status, process, squeue, sem, free, wq, slot, reg, term, lost, busts>>

\* players[i].p_status = POUTFIT; lock_off(LOCK_PICKSLOT).
TakeSlot(p) ==
  LET s == Scan[wq[p]][cur[p]] IN
  /\ pc[p] = "take"
  /\ status' = [status EXCEPT ![s] = "POUTFIT"]
  /\ lock' = None
  /\ slot' = [slot EXCEPT ![p] = s]
  /\ Goto(p, "setup")
  /\ UNCHANGED <<process, squeue, sem, free, wq, cur, reg, term, lost, busts>>

\* The player struct is set up for its next user.
SetupSlot(p) ==
  /\ pc[p] = "setup"
  /\ squeue' = [squeue EXCEPT ![slot[p]] = wq[p]]
  /\ process' = [process EXCEPT ![slot[p]] = None]
  /\ Goto(p, "dec")
  /\ UNCHANGED <<status, sem, free, lock, wq, cur, slot, reg, term, lost, busts>>

\* queues[w_queue].free_slots--, load then store.
DecLoad(p) ==
  /\ pc[p] = "dec"
  /\ reg' = [reg EXCEPT ![p] = free[wq[p]]]
  /\ Goto(p, "dec2")
  /\ UNCHANGED <<shared, wq, cur, slot, term, lost, busts>>

DecStore(p) ==
  /\ pc[p] = "dec2"
  /\ free' = [free EXCEPT ![wq[p]] = reg[p] - 1]
  /\ reg' = [reg EXCEPT ![p] = 0]
  /\ Goto(p, "give")
  /\ UNCHANGED <<status, process, squeue, sem, lock, wq, cur, slot, term, lost, busts>>

\* enter_sem = 1, "give back control", and return the slot or -1.
GiveBack(p) ==
  /\ pc[p] = "give"
  /\ sem' = [sem EXCEPT ![wq[p]] = TRUE]
  /\ Goto(p, IF slot[p] = None THEN "wait" ELSE "claim")
  /\ cur' = [cur EXCEPT ![p] = 1]
  /\ UNCHANGED <<status, process, squeue, free, lock, wq, slot, reg, term, lost, busts>>

-----------------------------------------------------------------------------
(* The rest of main(): claim the slot, play, leave                          *)

\* me->p_process = getpid().
Claim_Mutant(p) ==             \* the pid is not recorded
  /\ pc[p] = "claim"
  /\ Goto(p, "in")
  /\ UNCHANGED <<shared, wq, cur, slot, reg, term, lost, busts>>

Claim(p) ==
  /\ pc[p] = "claim"
  /\ process' = [process EXCEPT ![slot[p]] = p]
  /\ Goto(p, "in")
  /\ UNCHANGED <<status, squeue, sem, free, lock, wq, cur, slot, reg, term, lost, busts>>

\* No SIGTERM waits for delivery: its handler is there from before the slot
\* (main.c:177) and runs before main() goes on.
Ready(p) == term[p] # "pending"

\* The player enters the game, whatever p_status is: getEntry() turns PFREE
\* into PDEAD ("unfreeing a PFREE") and main() stores PALIVE unconditionally.
Enter(p) ==
  /\ pc[p] = "in"
  /\ Ready(p)
  /\ status' = [status EXCEPT ![slot[p]] = "PLAY"]
  /\ Goto(p, "play")
  /\ UNCHANGED <<process, squeue, sem, free, lock, wq, cur, slot, reg, term, lost, busts>>

\* death(), and main() asks for a team again; intrupt() has looked at p_status
\* before, and it may have been freed in between.
death(p) ==
  /\ pc[p] = "play"
  /\ Ready(p)
  /\ Overlap \/ status[slot[p]] # "PFREE"
  /\ status' = [status EXCEPT ![slot[p]] = "POUTFIT"]
  /\ Goto(p, "in")
  /\ UNCHANGED <<process, squeue, sem, free, lock, wq, cur, slot, reg, term, lost, busts>>

\* exitGame(), out of the game or by intrupt() on PFREE: a process that finds
\* another pid in its slot, a co-pilot, exits and leaves the slot alone.
ExitGame(p) ==
  /\ pc[p] = "in" \/ (pc[p] = "play" /\ status[slot[p]] = "PFREE")
  /\ Ready(p)
  /\ MayCall(p)
  /\ \/ /\ process[slot[p]] = p
        /\ Goto(p, "fs")
        /\ UNCHANGED <<slot, term>>
     \/ /\ process[slot[p]] # p
        /\ Exit(p)
  /\ UNCHANGED <<shared, wq, cur, reg, lost, busts>>

\* input(): the client is dead, or panic(): freeslot(me) without that check.
Panic(p) ==
  /\ pc[p] = "play"
  /\ Ready(p)
  /\ MayCall(p)
  /\ Goto(p, "fs")
  /\ UNCHANGED <<shared, wq, cur, slot, reg, term, lost, busts>>

\* forceShutdown(), the SIGTERM handler: it may interrupt freeslot(me), never
\* returns to it, and runs with SIGTERM blocked.
ForceShutdown(p) ==
  /\ pc[p] \in MainPCs \cup (IF Overlap THEN FreePCs ELSE {})
  /\ term[p] = "pending"
  /\ MayCall(p)
  /\ \/ /\ status[slot[p]] # "PFREE"
        /\ Goto(p, "fs")
        /\ term' = [term EXCEPT ![p] = "handled"]
        /\ UNCHANGED slot
     \/ /\ status[slot[p]] = "PFREE"
        /\ Exit(p)
  /\ reg' = [reg EXCEPT ![p] = 0]
  /\ UNCHANGED <<shared, wq, cur, lost, busts>>

\* main() ignores every signal for a moment (385-394) before each entry.
LoseTerm(p) ==
  /\ pc[p] = "in"
  /\ term[p] = "pending"
  /\ term' = [term EXCEPT ![p] = "none"]
  /\ UNCHANGED <<shared, pc, wq, cur, slot, reg, lost, busts>>

\* The process dies at any point; SEM_UNDO gives LOCK_PICKSLOT back.
Crash(p) ==
  /\ Crashes
  /\ pc[p] \notin {"new", "gone"}
  /\ lock' = IF lock = p THEN None ELSE lock
  /\ Exit(p)
  /\ cur' = [cur EXCEPT ![p] = 1]
  /\ reg' = [reg EXCEPT ![p] = 0]
  /\ UNCHANGED <<status, process, squeue, sem, free, wq, lost, busts>>

-----------------------------------------------------------------------------
(* freeslot(who), by a process on its own slot or by the daemon             *)

FreeTest_Mutant(a) ==          \* the decrement for a PFREE slot is made for every slot
  /\ pc[a] = "fs"
  /\ Goto(a, "undo")
  /\ UNCHANGED <<shared, wq, cur, slot, reg, term, lost, busts>>

\* A slot that is PFREE already: decrement first, so that the increment
\* below does nothing.
FreeTest(a) ==
  /\ pc[a] = "fs"
  /\ Goto(a, IF status[slot[a]] = "PFREE" THEN "undo" ELSE "clear")
  /\ UNCHANGED <<shared, wq, cur, slot, reg, term, lost, busts>>

UndoLoad(a) ==
  /\ pc[a] = "undo"
  /\ reg' = [reg EXCEPT ![a] = free[squeue[slot[a]]]]
  /\ Goto(a, "undo2")
  /\ UNCHANGED <<shared, wq, cur, slot, term, lost, busts>>

UndoStore(a) ==
  /\ pc[a] = "undo2"
  /\ free' = [free EXCEPT ![squeue[slot[a]]] = reg[a] - 1]
  /\ reg' = [reg EXCEPT ![a] = 0]
  /\ Goto(a, "clear")
  /\ UNCHANGED <<status, process, squeue, sem, lock, wq, cur, slot, term, lost, busts>>

\* who->p_status = PFREE.  From here another process can pick the slot.
ClearStatus(a) ==
  /\ pc[a] = "clear"
  /\ status' = [status EXCEPT ![slot[a]] = "PFREE"]
  /\ lost' = lost \cup Owners(slot[a])
  /\ Goto(a, "inc")
  /\ UNCHANGED <<process, squeue, sem, free, lock, wq, cur, slot, reg, term, busts>>

\* queues[who->w_queue].free_slots++, load then store.
IncLoad(a) ==
  /\ pc[a] = "inc"
  /\ reg' = [reg EXCEPT ![a] = free[squeue[slot[a]]]]
  /\ Goto(a, "inc2")
  /\ UNCHANGED <<shared, wq, cur, slot, term, lost, busts>>

IncStore(a) ==
  /\ pc[a] = "inc2"
  /\ free' = [free EXCEPT ![squeue[slot[a]]] = reg[a] + 1]
  /\ reg' = [reg EXCEPT ![a] = 0]
  /\ Goto(a, "proc")
  /\ UNCHANGED <<status, process, squeue, sem, lock, wq, cur, slot, term, lost, busts>>

\* who->p_process = 0, last; the caller then exits, or the daemon goes on.
ClearProcess(a) ==
  /\ pc[a] = "proc"
  /\ process' = [process EXCEPT ![slot[a]] = None]
  /\ IF a = Daemon
     THEN Goto(a, "idle") /\ slot' = [slot EXCEPT ![a] = None] /\ UNCHANGED term
     ELSE Exit(a)
  /\ UNCHANGED <<status, squeue, sem, free, lock, wq, cur, reg, lost, busts>>

-----------------------------------------------------------------------------
(* The daemon                                                               *)

Alive(p) == pc[p] \notin {"new", "gone"}

\* kill(p, SIGTERM)
Terminate(p) ==
  term' = IF Alive(p) /\ term[p] = "none" THEN [term EXCEPT ![p] = "pending"] ELSE term

\* The daemon calls freeslot(&players[s]).
DaemonFree(s) ==
  /\ slot' = [slot EXCEPT ![Daemon] = s]
  /\ Goto(Daemon, "fs")
  /\ \/ Owners(s) = {} /\ UNCHANGED busts
     \/ Owners(s) # {} /\ busts > 0 /\ busts' = busts - 1

\* Death by ghostbuster, quit or combat takes a ship from the game to POUTFIT.
Die(s) ==
  /\ pc[Daemon] = "idle"
  /\ status[s] = "PLAY"
  /\ status' = [status EXCEPT ![s] = "POUTFIT"]
  /\ UNCHANGED <<process, squeue, sem, free, lock, pc, wq, cur, slot, reg, term, lost, busts>>

\* udplayers_poutfit(), too long in POUTFIT: SIGTERM, or freeslot when
\* there is no process to signal.
OutfitTimeout(s) ==
  /\ pc[Daemon] = "idle"
  /\ MayCall(Daemon)
  /\ status[s] = "POUTFIT"
  /\ \/ /\ process[s] # None
        /\ Busts > 0
        /\ Terminate(process[s])
        /\ UNCHANGED <<pc, slot, busts>>
     \/ /\ process[s] = None
        /\ DaemonFree(s)
        /\ UNCHANGED term
  /\ UNCHANGED <<shared, wq, cur, reg, lost>>

\* udplayers_pause(), ghostbust or quit in a pause: SIGTERM, then freeslot.
PauseKill(s) ==
  /\ pc[Daemon] = "idle"
  /\ MayCall(Daemon)
  /\ status[s] # "PFREE"
  /\ process[s] # None
  /\ Terminate(process[s])
  /\ DaemonFree(s)
  /\ UNCHANGED <<shared, wq, cur, reg, lost>>

\* alarm_send() fails with ESRCH: no process has that pid.
Missing_Mutant(p) == FALSE     \* the failure is ignored
Missing(p) == ~Alive(p)

\* signal_servers(): the process of a slot is missing.
Reap(s) ==
  /\ pc[Daemon] = "idle"
  /\ MayCall(Daemon)
  /\ status[s] # "PFREE"
  /\ process[s] # None
  /\ Missing(process[s])
  /\ DaemonFree(s)
  /\ UNCHANGED <<shared, wq, cur, reg, term, lost>>

\* queues_purge(): clamp a free_slots that has drifted above max_slots.
Purge(q) ==
  /\ pc[Daemon] = "idle"
  /\ MayCall(Daemon)
  /\ free[q] > MaxSlots(q)
  /\ free' = [free EXCEPT ![q] = MaxSlots(q)]
  /\ UNCHANGED <<status, process, squeue, sem, lock, pc, wq, cur, slot, reg, term, lost, busts>>

-----------------------------------------------------------------------------
Freeslot(a) ==
  FreeTest(a) \/ UndoLoad(a) \/ UndoStore(a) \/ ClearStatus(a)
    \/ IncLoad(a) \/ IncStore(a) \/ ClearProcess(a)

Pickslot(p) ==
  SemLoad(p) \/ SemStore(p) \/ CheckFree(p) \/ ScanSlot(p) \/ LockSlot(p)
    \/ TakeSlot(p) \/ SetupSlot(p) \/ DecLoad(p) \/ DecStore(p) \/ GiveBack(p)

ProcStep(p) ==
  \/ \E q \in Queue : Connect(p, q)
  \/ GiveUp(p)
  \/ Pickslot(p)
  \/ Claim(p)
  \/ Enter(p) \/ death(p) \/ ExitGame(p) \/ Panic(p) \/ ForceShutdown(p) \/ LoseTerm(p)
  \/ Crash(p)
  \/ Freeslot(p)

DaemonStep ==
  \/ Freeslot(Daemon)
  \/ \E s \in Slot : Die(s) \/ OutfitTimeout(s) \/ PauseKill(s) \/ Reap(s)
  \/ \E q \in Queue : Purge(q)

Next == DaemonStep \/ \E p \in Proc : ProcStep(p)

Spec == Init /\ [][Next]_vars

\* The daemon's frame loop visits every slot again and again, and a
\* freeslot() that has begun goes on unless its process dies.
Fairness ==
  /\ \A a \in Actor : WF_vars(Freeslot(a))
  /\ \A s \in Slot : SF_vars(Die(s)) /\ SF_vars(OutfitTimeout(s)) /\ SF_vars(Reap(s))

FairSpec == Spec /\ Fairness

-----------------------------------------------------------------------------
PCs == PickPCs \cup FreePCs \cup MainPCs \cup {"new", "wait", "claim", "gone", "idle"}

\* The type of the shared memory and of each actor's own state.
TypeOK ==
  /\ status \in [Slot -> {"PFREE", "POUTFIT", "PLAY"}]
  /\ process \in [Slot -> Proc \cup {None}]
  /\ squeue \in [Slot -> Queue]
  /\ sem \in [Queue -> BOOLEAN]
  /\ free \in [Queue -> Int]
  /\ lock \in Proc \cup {None}
  /\ pc \in [Actor -> PCs]
  /\ wq \in [Proc -> Queue \cup {None}]
  /\ cur \in [Proc -> Nat]
  /\ \A p \in Proc : wq[p] # None => cur[p] <= Len(Scan[wq[p]]) + 1
  /\ slot \in [Actor -> Slot \cup {None}]
  /\ reg \in [Actor -> Int]
  /\ term \in [Proc -> {"none", "pending", "handled"}]
  /\ lost \subseteq Proc
  /\ busts \in 0..Busts

\* Two processes own the same slot (a pilot and a co-pilot) only after the
\* slot was freed under one of them: pickslot() alone never gives a slot to
\* two processes, however its calls interleave (slotmaint.c:70-76), even
\* when enter_sem lets two of them in.
SlotExclusive ==
  \A p, q \in Proc :
    p # q /\ Holds(p) /\ Holds(q) /\ slot[p] = slot[q] => p \in lost \/ q \in lost

\* A slot that is taken and has no living owner is freed, or taken over by
\* an owner: the daemon's ESRCH and outfit timers find every slot a dead
\* ntserv leaves behind, at whatever step it died.
DeadSlotReaped ==
  \A s \in Slot :
    (status[s] # "PFREE" /\ Owners(s) = {}) ~> (status[s] = "PFREE" \/ Owners(s) # {})

Quiet == \A a \in Actor : pc[a] \notin PickPCs \cup FreePCs

\* With nobody inside pickslot(), enter_sem is 1 and the next process can
\* enter (slotmaint.c:144,149 "give back control").
SemGivenBack == Quiet => \A q \in Queue : sem[q]

\* With nobody inside pickslot() or freeslot(), free_slots counts at least
\* the slots that are not taken through that queue: no slot is lost to a
\* counter that is too low (nothing ever raises it again).
NoCapacityLost ==
  Quiet => \A q \in Queue :
             free[q] >= MaxSlots(q) - Cardinality({s \in Slot : status[s] # "PFREE" /\ squeue[s] = q})

\* An owner that nobody has evicted finds its own pid in p_process, so that
\* exitGame() does not take it for a co-pilot and leave its slot taken; a
\* foreign pid there is that of a process that was evicted before.
OwnerKnown ==
  \A p \in Proc : pc[p] \in MainPCs /\ p \notin lost => process[slot[p]] \in {p} \cup lost

\* A SIGTERM sent with the ghostbust ends the old owner and forms no co-pilot
\* with, nor evicts, the next one (main.c:389-394): where p_process is no longer
\* its pid, the handler does not go on to free a slot that another process owns.
FreesOwnSlotOnly ==
  [][\A p \in Proc :
       ForceShutdown(p) /\ pc'[p] = "fs" =>
         process[slot[p]] = p \/ Owners(slot[p]) \subseteq {p}]_vars
=============================================================================
