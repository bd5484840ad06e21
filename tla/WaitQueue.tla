----------------------------- MODULE WaitQueue -----------------------------
(***************************************************************************)
(* The waiting lines of the Netrek server (ntserv/queue.c) and the loop    *)
(* that waits in them (ntserv/findslot.c).  The lines are doubly linked    *)
(* lists threaded through one shared pool, waiting[MAXWAITING].  The       *)
(* semaphore LOCK_QUEUE_ADD covers only the choice of an unused entry:     *)
(* linking, unlinking and renumbering are plain stores by several          *)
(* processes and by the daemon's queues_purge().                           *)
(*                                                                         *)
(* pickslot() (module Slots) is one step here: it takes one of room[q].    *)
(* line is a history variable, what the list should hold.                  *)
(***************************************************************************)
EXTENDS Integers, Sequences, FiniteSets

CONSTANTS
  Proc,        \* the ntserv processes; each arrives once
  Daemon,      \* the daemon process
  MaxQueue,    \* queues 0..MaxQueue-1
  MaxWaiting,  \* entries 0..MaxWaiting-1 of waiting[]
  Room,        \* free slots of each queue at the start
  None,        \* no process
  Overlap,     \* may calls on the lists overlap in time?
  Crashes      \* may a process die inside a call?

ASSUME WaitQueueAssumption ==
  /\ Daemon \notin Proc
  /\ None \notin Proc \cup {Daemon}
  /\ MaxQueue \in Nat \ {0}
  /\ MaxWaiting \in Nat \ {0}
  /\ Room \in Nat
  /\ Overlap \in BOOLEAN
  /\ Crashes \in BOOLEAN

Actor == Proc \cup {Daemon}
Queue == 0..MaxQueue-1
Entry == 0..MaxWaiting-1

VARIABLES
  first, last, count,    \* queues[q]: ends of the list, and its length
  w,         \* w[i]: entry waiting[i], a record
  room,      \* free slots that pickslot() can still find for q
  pc,        \* where each actor is
  wq,        \* w_queue argument; for the daemon and queue_exit, the queue at hand
  mywait,    \* the entry an actor works on
  next,      \* queues_purge(): the entry it looks at next
  killcount, \* queues_purge(): how many entries it has looked at
  victim,    \* queues_purge(): lwait->process, as it was loaded for kill()
  err,       \* an ERROR about the list has been logged
  line,      \* history: line[q], the processes waiting, in order of arrival
  admitted,  \* history: the processes holding a slot
  robbed     \* history: queues_purge() has removed the entry of a running process

lists == <<first, last, count, w>>
purgeVars == <<next, killcount, victim, robbed>>
vars == <<lists, room, pc, wq, mywait, purgeVars, err, line, admitted>>

\* What the lists are for: see ServedInOrder.  wq[p] is the queue p came for.
Fifo == INSTANCE FifoLine WITH
          line <- line, admitted <- admitted,
          wants <- [p \in Proc |-> wq[p]], Nowhere <- -1

Unused == [inuse |-> FALSE, previous |-> -1, next |-> -1, count |-> -1,
           w_queue |-> -1, process |-> None]

Init ==
  /\ first = [q \in Queue |-> -1]
  /\ last = [q \in Queue |-> -1]
  /\ count = [q \in Queue |-> 0]
  /\ w = [i \in Entry |-> Unused]
  /\ room = [q \in Queue |-> Room]
  /\ pc = [a \in Actor |-> IF a = Daemon THEN "idle" ELSE "new"]
  /\ wq = [a \in Actor |-> -1]
  /\ mywait = [a \in Actor |-> -1]
  /\ next = -1
  /\ killcount = 0
  /\ victim = None
  /\ robbed = FALSE
  /\ err = FALSE
  /\ line = [q \in Queue |-> <<>>]
  /\ admitted = {}

CallPCs == {"try", "add", "link", "first", "tail", "last", "done",
            "unlink", "relink", "clear", "update", "purge", "kill"}

\* An actor may start a call: at any time, or, when calls do not overlap,
\* when no other actor is inside one.
MayCall(a) == Overlap \/ \A b \in Actor \ {a} : pc[b] \notin CallPCs

Goto(a, l) == pc' = [pc EXCEPT ![a] = l]

Alive(p) == pc[p] \notin {"new", "gone"}

-----------------------------------------------------------------------------
(* findslot(): the first try, without waiting                               *)

\* if (queues[w_queue].first == -1)
Arrive(p, q) ==
  /\ pc[p] = "new"
  /\ MayCall(p)
  /\ wq' = [wq EXCEPT ![p] = q]
  /\ Goto(p, IF first[q] = -1 THEN "try" ELSE "add")
  /\ UNCHANGED <<lists, room, mywait, purgeVars, err, line, admitted>>

\* pickslot(w_queue) succeeded: a slot is taken.
Pick(p) ==
  /\ room[wq[p]] > 0
  /\ room' = [room EXCEPT ![wq[p]] = @ - 1]
  /\ admitted' = admitted \cup {p}

TryNow(p) ==
  /\ pc[p] = "try"
  /\ \/ Pick(p) /\ Goto(p, "in")
     \/ room[wq[p]] = 0 /\ Goto(p, "add") /\ UNCHANGED <<room, admitted>>
  /\ UNCHANGED <<lists, wq, mywait, purgeVars, err, line>>

-----------------------------------------------------------------------------
(* queue_add()                                                              *)

AddEntry_Mutant(p) ==                 \* the entry is not marked in use
  /\ pc[p] = "add"
  /\ \E i \in Entry :
       /\ ~w[i].inuse
       /\ mywait' = [mywait EXCEPT ![p] = i]
  /\ Goto(p, "link")
  /\ UNCHANGED <<lists, room, wq, purgeVars, err, line, admitted>>

\* Under LOCK_QUEUE_ADD: the lowest unused entry, or "queue full".
AddEntry(p) ==
  LET unused == {i \in Entry : ~w[i].inuse} IN
  /\ pc[p] = "add"
  /\ \/ /\ unused = {}
        /\ Goto(p, "gone")
        /\ UNCHANGED <<w, mywait>>
     \/ \E i \in unused :
        /\ \A j \in unused : i <= j
        /\ w' = [w EXCEPT ![i].inuse = TRUE]
        /\ mywait' = [mywait EXCEPT ![p] = i]
        /\ Goto(p, "link")
  /\ UNCHANGED <<first, last, count, room, wq, purgeVars, err, line, admitted>>

\* if (lqueue->first == -1)
AddTest(p) ==
  /\ pc[p] = "link"
  /\ Goto(p, IF first[wq[p]] = -1 THEN "first" ELSE "tail")
  /\ UNCHANGED <<lists, room, wq, mywait, purgeVars, err, line, admitted>>

AddFirst(p) ==
  /\ pc[p] = "first"
  /\ first' = [first EXCEPT ![wq[p]] = mywait[p]]
  /\ Goto(p, "last")
  /\ UNCHANGED <<last, count, w, room, wq, mywait, purgeVars, err, line, admitted>>

\* waiting[last].next = i; lwait->previous = last.  With last = -1 the store
\* is out of bounds.
AddTail(p) ==
  LET l == last[wq[p]] IN
  /\ pc[p] = "tail"
  /\ IF l \in Entry
     THEN /\ w' = [w EXCEPT ![l].next = mywait[p], ![mywait[p]].previous = l]
          /\ UNCHANGED err
     ELSE err' = TRUE /\ UNCHANGED w
  /\ Goto(p, "last")
  /\ UNCHANGED <<first, last, count, room, wq, mywait, purgeVars, line, admitted>>

\* lqueue->last = i
AddLast(p) ==
  /\ pc[p] = "last"
  /\ last' = [last EXCEPT ![wq[p]] = mywait[p]]
  /\ Goto(p, "done")
  /\ UNCHANGED <<first, count, w, room, wq, mywait, purgeVars, err, line, admitted>>

\* The rest of the entry, and lqueue->count++.
AddDone(p) ==
  LET q == wq[p] IN
  /\ pc[p] = "done"
  /\ w' = [w EXCEPT ![mywait[p]] =
             [@ EXCEPT !.next = -1, !.count = count[q], !.process = p, !.w_queue = q]]
  /\ count' = [count EXCEPT ![q] = @ + 1]
  /\ line' = [line EXCEPT ![q] = Append(@, p)]
  /\ Goto(p, "loop")
  /\ UNCHANGED <<first, last, room, wq, mywait, purgeVars, err, admitted>>

-----------------------------------------------------------------------------
(* findslot(): the loop of a waiting process, one pass per sleep(1).        *)

\* "process lost its waitq entry!": the process goes to the end of the line.
LostEntry(p) ==
  /\ pc[p] = "loop"
  /\ MayCall(p)
  /\ w[mywait[p]].process # p
  /\ Goto(p, "add")
  /\ UNCHANGED <<lists, room, wq, mywait, purgeVars, err, line, admitted>>

\* if (mywait == queues[w_queue].first): may this process try for a slot?
MyTurn_Mutant(p) == TRUE              \* every waiting process tries
MyTurn(p) == mywait[p] = first[wq[p]]

\* First in line, and pickslot() finds a slot.
Served(p) ==
  /\ pc[p] = "loop"
  /\ MayCall(p)
  /\ MyTurn(p)
  /\ Pick(p)
  /\ Goto(p, "unlink")
  /\ UNCHANGED <<lists, wq, mywait, purgeVars, err, line>>

\* The client is dead, or the game is going down: queue_exit and leave.
GiveUp(p) ==
  /\ pc[p] = "loop"
  /\ MayCall(p)
  /\ Goto(p, "unlink")
  /\ UNCHANGED <<lists, room, wq, mywait, purgeVars, err, line, admitted>>

\* A process dies without queue_exit, SIGTERM or a crash: as it sleeps in
\* line, or inside a call, whose other steps are then never taken.
Crash(p) ==
  /\ pc[p] = "loop" \/ (Crashes /\ pc[p] \in CallPCs)
  /\ Goto(p, "gone")
  /\ UNCHANGED <<lists, room, wq, mywait, purgeVars, err, line, admitted>>

\* A player leaves the game, or the slot of a dead one is found, and the slot
\* is freed (module Slots).
Depart(p) ==
  /\ p \in admitted
  /\ pc[p] \in {"in", "gone"}
  /\ Goto(p, "gone")
  /\ room' = [room EXCEPT ![wq[p]] = @ + 1]
  /\ admitted' = admitted \ {p}
  /\ UNCHANGED <<lists, wq, mywait, purgeVars, err, line>>

-----------------------------------------------------------------------------
(* queue_exit(mywait), by a process or by queues_purge()                    *)

After(a) == IF a = Daemon THEN "purge" ELSE IF a \in admitted THEN "in" ELSE "gone"

\* The daemon removes an entry that is no longer the one it looked at, and
\* whose process is running.
Robs(a) ==
  LET e == w[mywait[a]] IN
  /\ a = Daemon
  /\ e.w_queue \in Queue
  /\ e.process # victim
  /\ Alive(e.process)

\* "Invalid queue number": return 0.  Else lwait is unlinked on the side of
\* its predecessor ...
ExitPrevious(a) ==
  LET e == w[mywait[a]] IN
  /\ pc[a] = "unlink"
  /\ robbed' = (robbed \/ Robs(a))
  /\ victim' = IF a = Daemon THEN None ELSE victim
  /\ \/ /\ e.w_queue \notin Queue
        /\ err' = TRUE
        /\ Goto(a, After(a))
        /\ UNCHANGED <<first, w, wq>>
     \/ /\ e.w_queue \in Queue
        /\ wq' = [wq EXCEPT ![a] = e.w_queue]
        /\ IF e.previous = -1
           THEN first' = [first EXCEPT ![e.w_queue] = e.next] /\ UNCHANGED w
           ELSE w' = [w EXCEPT ![e.previous].next = e.next] /\ UNCHANGED first
        /\ Goto(a, "relink")
        /\ UNCHANGED err
  /\ UNCHANGED <<last, count, room, mywait, next, killcount, line, admitted>>

ExitNext_Mutant(a) ==                 \* the successor keeps its previous
  LET e == w[mywait[a]] IN
  /\ pc[a] = "relink"
  /\ IF e.next = -1 THEN last' = [last EXCEPT ![wq[a]] = e.previous] ELSE UNCHANGED last
  /\ Goto(a, "clear")
  /\ UNCHANGED <<first, count, w, room, wq, mywait, purgeVars, err, line, admitted>>

\* ... and of its successor.
ExitNext(a) ==
  LET e == w[mywait[a]] IN
  /\ pc[a] = "relink"
  /\ IF e.next = -1
     THEN last' = [last EXCEPT ![wq[a]] = e.previous] /\ UNCHANGED w
     ELSE w' = [w EXCEPT ![e.next].previous = e.previous] /\ UNCHANGED last
  /\ Goto(a, "clear")
  /\ UNCHANGED <<first, count, room, wq, mywait, purgeVars, err, line, admitted>>

\* "Clear the lwait for redundancy": queue_add() relies on it, it does not
\* set previous in an entry that becomes the first of a list.
ExitClear(a) ==
  /\ pc[a] = "clear"
  /\ w' = [w EXCEPT ![mywait[a]] = Unused]
  /\ line' = [line EXCEPT ![wq[a]] = Fifo!Without(@, w[mywait[a]].process)]
  /\ Goto(a, "update")
  /\ UNCHANGED <<first, last, count, room, wq, mywait, purgeVars, err, admitted>>

\* The entries queue_update() reaches from first, until the list ends, an
\* entry is not in use or has no process, or MaxWaiting are counted.
Valid(i) == i \in Entry /\ w[i].inuse /\ w[i].process # None

LinkAfter(q, r, k) == IF k = 0 THEN first[q] ELSE w[r[k]].next

IsWalk(q, r) ==
  /\ \A k \in 1..Len(r) : r[k] = LinkAfter(q, r, k-1) /\ Valid(r[k])
  /\ Len(r) = MaxWaiting \/ ~Valid(LinkAfter(q, r, Len(r)))

Reached(q) == CHOOSE r \in UNION {[1..n -> Entry] : n \in 0..MaxWaiting} : IsWalk(q, r)

\* Does the walk end on an ERROR, not on -1?
BadEnd(q) ==
  LET r == Reached(q) IN LinkAfter(q, r, Len(r)) # -1

\* lqueue->count = lcount
Counted_Mutant(r) == Len(r) - 1       \* off by one
Counted(r) == Len(r)

\* queue_update(w_queue): everyone's count, and the length.
QueueUpdate(a) ==
  LET q == wq[a]
      r == Reached(q) IN
  /\ pc[a] = "update"
  /\ w' = [i \in Entry |->
             IF \E k \in DOMAIN r : r[k] = i
             THEN [w[i] EXCEPT !.count = CHOOSE k \in 0..Len(r)-1 :
                                             r[k+1] = i /\ \A m \in k+2..Len(r) : r[m] # i]
             ELSE w[i]]
  /\ count' = [count EXCEPT ![q] = Counted(r)]
  /\ err' = (err \/ BadEnd(q))
  /\ mywait' = [mywait EXCEPT ![a] = -1]
  /\ Goto(a, After(a))
  /\ UNCHANGED <<first, last, room, wq, purgeVars, line, admitted>>

-----------------------------------------------------------------------------
(* queues_purge(), by the daemon                                            *)

PurgeStart ==
  /\ pc[Daemon] = "idle"
  /\ MayCall(Daemon)
  /\ Goto(Daemon, "purge")
  /\ wq' = [wq EXCEPT ![Daemon] = 0]
  /\ next' = first[0]
  /\ UNCHANGED <<lists, room, mywait, killcount, victim, robbed, err, line, admitted>>

\* The end of one list: go to the next queue, or return.
PurgeNextQueue ==
  LET q == wq[Daemon] + 1 IN
  /\ pc[Daemon] = "purge"
  /\ next = -1
  /\ IF q \in Queue
     THEN /\ wq' = [wq EXCEPT ![Daemon] = q]
          /\ next' = first[q]
          /\ UNCHANGED <<pc, killcount>>
     ELSE /\ Goto(Daemon, "idle")
          /\ wq' = [wq EXCEPT ![Daemon] = -1]
          /\ killcount' = 0
          /\ UNCHANGED next
  /\ UNCHANGED <<lists, room, mywait, victim, robbed, err, line, admitted>>

\* An entry that is not in use or has no process.  "Check the next queue",
\* says the code, but its continue looks at the same entry again.
PurgeInvalid ==
  /\ pc[Daemon] = "purge"
  /\ next # -1
  /\ killcount < MaxWaiting
  /\ ~Valid(next)
  /\ err' = TRUE
  /\ killcount' = killcount + 1
  /\ UNCHANGED <<lists, room, pc, wq, mywait, next, victim, robbed, line, admitted>>

\* "trying to kill more than MAXWAITING": return, whatever queues are left.
PurgeTooMany ==
  /\ pc[Daemon] = "purge"
  /\ next # -1
  /\ killcount >= MaxWaiting
  /\ err' = TRUE
  /\ Goto(Daemon, "idle")
  /\ wq' = [wq EXCEPT ![Daemon] = -1]
  /\ next' = -1
  /\ killcount' = 0
  /\ UNCHANGED <<lists, room, mywait, victim, robbed, line, admitted>>

\* kill(lwait->process, 0) fails with ESRCH.
NoSuchProcess_Mutant(p) == FALSE      \* dead processes stay in line
NoSuchProcess_Any(p) == TRUE          \* whatever kill() returns
NoSuchProcess(p) == ~Alive(p)

\* A valid entry: its successor is read, and its process for kill().
PurgeEntry ==
  /\ pc[Daemon] = "purge"
  /\ killcount < MaxWaiting
  /\ Valid(next)
  /\ mywait' = [mywait EXCEPT ![Daemon] = next]
  /\ victim' = w[next].process
  /\ next' = w[next].next
  /\ killcount' = killcount + 1
  /\ Goto(Daemon, "kill")
  /\ UNCHANGED <<lists, room, wq, robbed, err, line, admitted>>

\* kill() answers for the process that was loaded; queue_exit(lwait->mynum)
\* then takes the entry as it finds it.
PurgeKill ==
  /\ pc[Daemon] = "kill"
  /\ IF NoSuchProcess(victim)
     THEN Goto(Daemon, "unlink") /\ UNCHANGED <<mywait, victim>>
     ELSE /\ Goto(Daemon, "purge")
          /\ mywait' = [mywait EXCEPT ![Daemon] = -1]
          /\ victim' = None
  /\ UNCHANGED <<lists, room, wq, next, killcount, robbed, err, line, admitted>>

-----------------------------------------------------------------------------
QueueAdd(p) == AddEntry(p) \/ AddTest(p) \/ AddFirst(p) \/ AddTail(p) \/ AddLast(p) \/ AddDone(p)

QueueExit(a) == ExitPrevious(a) \/ ExitNext(a) \/ ExitClear(a) \/ QueueUpdate(a)

Wait(p) == TryNow(p) \/ QueueAdd(p) \/ LostEntry(p) \/ Served(p) \/ QueueExit(p)

Purge ==
  \/ PurgeStart \/ PurgeNextQueue \/ PurgeInvalid \/ PurgeTooMany \/ PurgeEntry \/ PurgeKill
  \/ QueueExit(Daemon)

Next ==
  \/ \E p \in Proc : \/ \E q \in Queue : Arrive(p, q)
                     \/ Wait(p) \/ GiveUp(p) \/ Crash(p) \/ Depart(p)
  \/ Purge

Spec == Init /\ [][Next]_vars

\* A running ntserv goes round its loop, the daemon purges again and again,
\* and players leave in the end.  A pass of the loop and a purge find the
\* lists idle now and then only, hence the strong fairness.  When calls do not
\* overlap each process takes finitely many steps, so that what is fair to
\* all of them together is fair to each.
Fairness ==
  /\ SF_vars(\E p \in Proc : Wait(p))
  /\ WF_vars(\E p \in Proc : Depart(p))
  /\ SF_vars(Purge)

FairSpec == Spec /\ Fairness

-----------------------------------------------------------------------------
Link == {-1} \cup Entry

TypeOK ==
  /\ first \in [Queue -> Link]
  /\ last \in [Queue -> Link]
  /\ count \in [Queue -> Nat]
  /\ w \in [Entry -> [inuse : BOOLEAN, previous : Link, next : Link, count : Nat \cup {-1},
                      w_queue : Queue \cup {-1}, process : Proc \cup {None}]]
  /\ room \in [Queue -> Nat]
  /\ pc \in [Actor -> CallPCs \cup {"new", "loop", "in", "gone", "idle"}]
  /\ wq \in [Actor -> Queue \cup {-1}]
  /\ mywait \in [Actor -> Link]
  /\ next \in Link
  /\ killcount \in 0..MaxWaiting
  /\ victim \in Proc \cup {None}
  /\ robbed \in BOOLEAN
  /\ err \in BOOLEAN
  /\ line \in [Queue -> Seq(Proc)]
  /\ admitted \subseteq Proc

\* The entry a process is building, waits in or removes is its own: no two
\* processes use one entry of waiting[], however their calls overlap and
\* wherever one of them dies.  This is what LOCK_QUEUE_ADD is for
\* (queue.c:212-224).  It ends when queues_purge() has removed the entry of a
\* running process: the dead process it had looked at has left the entry in
\* between, and another one has taken it.  The owner of a removed entry goes
\* on with it until its next pass.
UsesEntry(p) ==
  pc[p] \in {"link", "first", "tail", "last", "done", "loop", "unlink", "relink", "clear"}

EntryExclusive ==
  ~robbed =>
    \A p, q \in Proc : p # q /\ UsesEntry(p) /\ UsesEntry(q) => mywait[p] # mywait[q]

\* A waiting process keeps its entry: no other process takes it away, and the
\* purge only in the way just said, so that findslot.c:167 ("process lost its
\* waitq entry!") is for that case alone, even when the links are damaged by
\* overlapping calls and by deaths inside them.
EntryKept == ~robbed => \A p \in Proc : pc[p] = "loop" => w[mywait[p]].process = p

\* When calls do not overlap, each list, read from either end, is the line of
\* waiting processes in order of arrival; everyone's count is its place; and
\* no entry of the pool is lost: one is in use only if it is in a list.
ListHoldsLine(q) ==
  LET r == Reached(q) IN
  /\ [k \in DOMAIN r |-> w[r[k]].process] = line[q]
  /\ ~BadEnd(q)
  /\ last[q] = (IF r = <<>> THEN -1 ELSE r[Len(r)])
  /\ count[q] = Len(r)
  /\ \A k \in DOMAIN r : /\ w[r[k]].previous = (IF k = 1 THEN -1 ELSE r[k-1])
                         /\ w[r[k]].count = k - 1
                         /\ w[r[k]].w_queue = q

ListsHoldLines ==
  (\A a \in Actor : pc[a] \notin CallPCs) =>
    /\ \A q \in Queue : ListHoldsLine(q)
    /\ \A i \in Entry : w[i].inuse => \E q \in Queue : \E k \in DOMAIN Reached(q) : Reached(q)[k] = i

\* When calls do not overlap, the lists serve each line in order of arrival:
\* findslot(), queue_add() and queue_exit() implement FifoLine.
ServedInOrder == Fifo!Spec

\* When calls do not overlap, nobody waits for ever: every waiting process is
\* admitted or leaves, although a dead process at the head of the line
\* blocks everyone behind it until queues_purge() removes it.  Processes are
\* interchangeable here, so one of them stands for all.
ServedAtLast(p) == pc[p] = "loop" ~> pc[p] \in {"in", "gone"}
EveryoneServed == ServedAtLast(CHOOSE p \in Proc : TRUE)

\* queue.c:17-19, "All ERROR messages should never appear in the log file":
\* when calls do not overlap, no step finds an invalid, unused or lost entry,
\* whichever processes die in line.
NoListError == ~err
=============================================================================
