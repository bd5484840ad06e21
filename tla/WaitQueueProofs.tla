-------------------------- MODULE WaitQueueProofs --------------------------
(***************************************************************************)
(* Proofs about module WaitQueue, for every number of processes, queues    *)
(* and entries.  In four parts:                                            *)
(*  - with calls that overlap in any way, and with processes that die in   *)
(*    them: an entry of waiting[] belongs to one process, which keeps it   *)
(*    until it leaves the line, as long as the purge has not removed the   *)
(*    entry of a running process.  The links may be damaged meanwhile; the *)
(*    argument uses only inuse, process and w_queue, and the few places    *)
(*    that write them;                                                     *)
(*  - also with overlapping calls: types, and the walk of queue_update();  *)
(*  - with calls that do not overlap and nobody who dies in one: what the  *)
(*    links hold after each store of queue_add(), queue_exit() and         *)
(*    queue_update(), hence no list error, no entry taken from a running   *)
(*    process, and lists that are whole whenever no call is at work;       *)
(*  - from this, that the lists implement FifoLine.                        *)
(***************************************************************************)
EXTENDS WaitQueue, FiniteSetTheorems, WellFoundedInduction, TLAPS

-----------------------------------------------------------------------------
(* The invariant                                                            *)

\* x is an array of entries.
Entries(x) ==
  /\ x = [i \in Entry |-> x[i]]
  /\ \A i \in Entry : x[i] = [inuse |-> x[i].inuse, previous |-> x[i].previous,
                              next |-> x[i].next, count |-> x[i].count,
                              w_queue |-> x[i].w_queue, process |-> x[i].process]

\* As much typing as the argument needs.
Shape ==
  /\ pc \in [Actor -> CallPCs \cup {"new", "loop", "in", "gone", "idle"}]
  /\ DOMAIN mywait = Actor
  /\ mywait = [a \in Actor |-> mywait[a]]
  /\ Entries(w)

\* The entry of a process is in use and carries no other process.
OwnEntry ==
  \A p \in Proc : UsesEntry(p) =>
    /\ mywait[p] \in Entry
    /\ w[mywait[p]].inuse = TRUE
    /\ w[mywait[p]].process \in {None, p}

\* An entry carries a process that has arrived, or none, and none when it is
\* unused; one with a queue has a process.
ProcessOK ==
  \A i \in Entry :
    /\ w[i].process \in Proc \cup {None}
    /\ w[i].process \in Proc => pc[w[i].process] # "new"
    /\ w[i].inuse # TRUE => w[i].process = None
    /\ w[i].w_queue \in Queue => w[i].process \in Proc

\* The purge has looked at a process that has arrived, goes on when it is
\* gone, and then removes an entry of a process that is gone.
PurgesDead ==
  /\ pc[Daemon] \in {"kill", "unlink", "relink", "clear"} => mywait[Daemon] \in Entry
  /\ pc[Daemon] \in {"kill", "unlink"} => victim \in Proc /\ pc[victim] # "new"
  /\ pc[Daemon] = "unlink" => pc[victim] = "gone"
  /\ pc[Daemon] \in {"relink", "clear"} =>
       /\ w[mywait[Daemon]].inuse = TRUE
       /\ w[mywait[Daemon]].process \in Proc
       /\ pc[w[mywait[Daemon]].process] = "gone"

\* What EntryExclusive and EntryKept say while nobody has been robbed.
Exclusive ==
  \A p, q \in Proc : p # q /\ UsesEntry(p) /\ UsesEntry(q) => mywait[p] # mywait[q]

Kept == \A p \in Proc : pc[p] = "loop" => w[mywait[p]].process = p

QInv == Shape /\ OwnEntry /\ ProcessOK /\ PurgesDead /\ Exclusive /\ Kept

LEMMA Distinct == Daemon \notin Proc /\ None \notin Proc
  BY WaitQueueAssumption

\* No entry is in use at the start.
LEMMA QInvInit == Init => QInv
<1> SUFFICES ASSUME Init PROVE QInv
  OBVIOUS
<1>1. Shape
  BY DEF Init, Shape, Entries, CallPCs, Unused
<1>2. \A p \in Proc : pc[p] = "new" /\ ~UsesEntry(p)
  BY Distinct DEF Init, UsesEntry, Actor
<1>3. pc[Daemon] = "idle"
  BY DEF Init, Actor
<1>4. ProcessOK
  <2> SUFFICES ASSUME NEW i \in Entry
               PROVE  w[i].process = None /\ w[i].w_queue \notin Queue
    BY Distinct DEF ProcessOK
  <2>1. w[i] = Unused
    BY DEF Init
  <2>2. Unused.process = None /\ Unused.w_queue = -1
    BY DEF Unused
  <2>3. -1 \notin Queue
    BY WaitQueueAssumption DEF Queue
  <2> QED
    BY <2>1, <2>2, <2>3
<1> QED
  BY <1>1, <1>2, <1>3, <1>4 DEF QInv, OwnEntry, PurgesDead, Exclusive, Kept

(***************************************************************************)
(* A step that neither gives an entry to a process nor takes one away: the *)
(* use of the entries and what they carry stay as they are.                *)
(***************************************************************************)
SameUse(x, y) ==
  \A i \in Entry : /\ y[i].inuse = x[i].inuse /\ y[i].process = x[i].process
                    /\ y[i].w_queue = x[i].w_queue

Keeps ==
  /\ SameUse(w, w')
  /\ \A p \in Proc : UsesEntry(p)' => UsesEntry(p) /\ mywait'[p] = mywait[p]
  /\ \A p \in Proc : pc'[p] = "loop" => pc[p] = "loop"
  /\ \A p \in Proc : pc'[p] = "new" => pc[p] = "new"
  /\ \A p \in Proc : pc[p] = "gone" => pc'[p] = "gone"

\* Such a step keeps what is said of the entries of processes ...
LEMMA KeepsInv ==
  ASSUME QInv, Shape', Keeps
  PROVE  OwnEntry' /\ ProcessOK' /\ Exclusive' /\ Kept'
<1>1. OwnEntry'
  BY DEF QInv, Keeps, SameUse, OwnEntry
<1>2. ProcessOK'
  <2> SUFFICES ASSUME NEW i \in Entry
               PROVE  /\ w'[i].process \in Proc \cup {None}
                      /\ w'[i].process \in Proc => pc'[w'[i].process] # "new"
                      /\ w'[i].inuse # TRUE => w'[i].process = None
                      /\ w'[i].w_queue \in Queue => w'[i].process \in Proc
    BY DEF ProcessOK
  <2>1. w'[i].inuse = w[i].inuse /\ w'[i].process = w[i].process /\ w'[i].w_queue = w[i].w_queue
    BY DEF Keeps, SameUse
  <2> QED
    BY <2>1 DEF QInv, Keeps, ProcessOK
<1>3. Exclusive'
  BY DEF QInv, Keeps, SameUse, Exclusive
<1>4. Kept'
  <2> SUFFICES ASSUME NEW p \in Proc, pc'[p] = "loop" PROVE w'[mywait'[p]].process = p
    BY DEF Kept
  <2>1. pc[p] = "loop" /\ mywait'[p] = mywait[p] /\ mywait[p] \in Entry
    BY DEF Keeps, UsesEntry, QInv, OwnEntry
  <2> QED
    BY <2>1 DEF QInv, Keeps, SameUse, Kept
<1> QED
  BY <1>1, <1>2, <1>3, <1>4

\* The daemon goes on with the entry it has.
DaemonKeeps ==
  /\ pc'[Daemon] \in {"kill", "unlink"} =>
       pc'[Daemon] = pc[Daemon] /\ mywait'[Daemon] = mywait[Daemon] /\ victim' = victim
  /\ pc'[Daemon] \in {"relink", "clear"} =>
       pc[Daemon] \in {"relink", "clear"} /\ mywait'[Daemon] = mywait[Daemon]

\* ... and of the entry the daemon removes.
LEMMA KeepsPurge ==
  ASSUME QInv, Shape', Keeps, DaemonKeeps
  PROVE  PurgesDead'
  BY DEF QInv, Keeps, SameUse, PurgesDead, DaemonKeeps

\* Steps of processes that leave waiting[] alone.
LEMMA QuietSteps ==
  ASSUME QInv, NEW p \in Proc,
         \/ \E q \in Queue : Arrive(p, q)
         \/ TryNow(p) \/ AddTest(p) \/ AddFirst(p) \/ AddLast(p)
         \/ LostEntry(p) \/ Served(p) \/ GiveUp(p) \/ Crash(p) \/ Depart(p)
  PROVE  Shape' /\ Keeps /\ DaemonKeeps
<1> USE Distinct DEF QInv, Shape, Keeps, SameUse, DaemonKeeps, UsesEntry, Actor, Goto, CallPCs, lists, purgeVars
<1>1. ASSUME NEW q \in Queue, Arrive(p, q)
      PROVE  Shape' /\ Keeps /\ DaemonKeeps
  BY <1>1 DEF Arrive
<1>2. CASE TryNow(p)
  BY <1>2 DEF TryNow, Pick
<1>3. CASE AddTest(p)
  BY <1>3 DEF AddTest
<1>4. CASE AddFirst(p)
  BY <1>4 DEF AddFirst
<1>5. CASE AddLast(p)
  BY <1>5 DEF AddLast
<1>6. CASE Served(p)
  BY <1>6 DEF Served, Pick
<1>7. CASE GiveUp(p)
  BY <1>7 DEF GiveUp
<1>8. CASE Crash(p)
  BY <1>8 DEF Crash
<1>9. CASE Depart(p)
  BY <1>9 DEF Depart
<1>10. CASE LostEntry(p)
  BY <1>10 DEF LostEntry
<1> QED
  BY <1>1, <1>2, <1>3, <1>4, <1>5, <1>6, <1>7, <1>8, <1>9, <1>10

\* What a step that writes only links and counts leaves of an entry.
LEMMA LinkStep ==
  ASSUME NEW x, Entries(x), NEW v, NEW i
  PROVE  /\ Entries([x EXCEPT ![i].next = v]) /\ SameUse(x, [x EXCEPT ![i].next = v])
         /\ Entries([x EXCEPT ![i].previous = v]) /\ SameUse(x, [x EXCEPT ![i].previous = v])
<1>1. CASE i \in Entry
  <2>1. SameUse(x, [x EXCEPT ![i].next = v]) /\ SameUse(x, [x EXCEPT ![i].previous = v])
    BY <1>1 DEF Entries, SameUse
  <2>2. Entries([x EXCEPT ![i].next = v])
    BY <1>1 DEF Entries
  <2>3. Entries([x EXCEPT ![i].previous = v])
    BY <1>1 DEF Entries
  <2> QED
    BY <2>1, <2>2, <2>3
<1>2. CASE i \notin Entry
  BY <1>2 DEF Entries, SameUse
<1> QED
  BY <1>1, <1>2

\* AddTail links the new entry behind the last one.
LEMMA AddTailStep ==
  ASSUME QInv, NEW p \in Proc, AddTail(p)
  PROVE  Shape' /\ Keeps /\ DaemonKeeps
<1> DEFINE l == last[wq[p]]
           i == mywait[p]
           x == [w EXCEPT ![l].next = i]
<1>1. Entries(w)
  BY DEF QInv, Shape
<1>2. w' = w \/ w' = [x EXCEPT ![i].previous = l]
  BY <1>1 DEF AddTail, Entries
<1>3. Entries(x) /\ SameUse(w, x)
  BY <1>1, LinkStep
<1>4. Entries(w') /\ SameUse(w, w')
  <2>1. CASE w' = w
    BY <2>1, <1>1 DEF SameUse
  <2>2. CASE w' = [x EXCEPT ![i].previous = l]
    <3> HIDE DEF x, i, l
    <3>1. Entries(w') /\ SameUse(x, w')
      BY <2>2, <1>3, LinkStep
    <3> QED
      BY <3>1, <1>3 DEF SameUse
  <2> QED
    BY <1>2, <2>1, <2>2
<1> QED
  BY <1>4, Distinct DEF AddTail, QInv, Shape, Keeps, DaemonKeeps, UsesEntry, Actor, Goto, CallPCs, purgeVars

\* AddEntry: the entry is unused, so it is nobody's.
LEMMA AddEntryStep ==
  ASSUME QInv, NEW p \in Proc, AddEntry(p)
  PROVE  QInv'
<1>1. CASE Goto(p, "gone") /\ UNCHANGED <<w, mywait>>
  <2>1. Shape' /\ Keeps /\ DaemonKeeps
    BY <1>1, Distinct
    DEF AddEntry, QInv, Shape, Keeps, SameUse, DaemonKeeps, UsesEntry, Actor, Goto, CallPCs, purgeVars
  <2> QED
    BY <2>1, KeepsInv, KeepsPurge DEF QInv
<1>2. ASSUME NEW i \in Entry, ~w[i].inuse,
             w' = [w EXCEPT ![i].inuse = TRUE],
             mywait' = [mywait EXCEPT ![p] = i],
             Goto(p, "link")
      PROVE  QInv'
  <2>1. w[i].inuse # TRUE /\ w[i].process = None
    BY <1>2 DEF QInv, ProcessOK
  <2>2. /\ \A j \in Entry \ {i} : w'[j] = w[j]
        /\ w'[i].inuse = TRUE /\ w'[i].process = None /\ w'[i].w_queue = w[i].w_queue
    BY <1>2, <2>1 DEF QInv, Shape, Entries
  <2>3. /\ \A a \in Actor \ {p} : mywait'[a] = mywait[a] /\ pc'[a] = pc[a]
        /\ mywait'[p] = i /\ pc'[p] = "link"
        /\ pc[p] = "add"
    BY <1>2 DEF QInv, Shape, Goto, Actor, AddEntry
  <2>4. Shape'
    BY <1>2 DEF QInv, Shape, Entries, Goto, CallPCs
  <2>5. \A q \in Proc \ {p} : UsesEntry(q)' => UsesEntry(q) /\ mywait[q] \in Entry \ {i}
    BY <2>1, <2>3 DEF QInv, OwnEntry, UsesEntry, Actor
  <2>6. OwnEntry'
    BY <2>2, <2>3, <2>5 DEF QInv, OwnEntry, Actor
  <2>7. ProcessOK'
    <3>1. \A q \in Proc : pc'[q] = "new" => pc[q] = "new"
      BY <2>3 DEF Actor
    <3>2. w[i].w_queue \notin Queue
      BY <2>1, Distinct DEF QInv, ProcessOK
    <3> QED
      BY <2>2, <3>1, <3>2, Distinct DEF QInv, ProcessOK
  <2>8. PurgesDead'
    <3>1. pc'[Daemon] = pc[Daemon] /\ mywait'[Daemon] = mywait[Daemon] /\ victim' = victim
      BY <2>3, Distinct DEF Actor, AddEntry, purgeVars
    <3>2. \A q \in Proc : (pc'[q] = "new" => pc[q] = "new") /\ (pc[q] = "gone" => pc'[q] = "gone")
      BY <2>3 DEF Actor
    <3>3. ASSUME pc[Daemon] \in {"relink", "clear"} PROVE mywait[Daemon] \in Entry \ {i}
      BY <3>3, <2>1 DEF QInv, PurgesDead
    <3> QED
      BY <3>1, <3>2, <3>3, <2>2 DEF QInv, PurgesDead
  <2>9. Exclusive'
    BY <2>3, <2>5 DEF QInv, Exclusive, Actor
  <2>10. Kept'
    BY <2>2, <2>3, <2>5 DEF QInv, Kept, UsesEntry, Actor
  <2> QED
    BY <2>4, <2>6, <2>7, <2>8, <2>9, <2>10 DEF QInv
<1> QED
  BY <1>1, <1>2 DEF AddEntry

\* The stores of AddDone leave inuse alone and set process.
LEMMA DoneEntry ==
  ASSUME NEW e, DOMAIN e = {"inuse", "previous", "next", "count", "w_queue", "process"},
         NEW n, NEW c, NEW p, NEW q
  PROVE  LET f == [e EXCEPT !.next = n, !.count = c, !.process = p, !.w_queue = q]
         IN  f.inuse = e.inuse /\ f.process = p
  OBVIOUS

\* AddDone: the entry, the process's own, gets the process.
LEMMA AddDoneStep ==
  ASSUME QInv, NEW p \in Proc, AddDone(p)
  PROVE  QInv'
<1> DEFINE i == mywait[p]
<1>1. /\ i \in Entry
      /\ w[i].inuse = TRUE
      /\ pc[p] = "done"
      /\ UsesEntry(p)
      /\ UNCHANGED mywait
      /\ w[i].process \in {None, p}
  BY DEF AddDone, QInv, OwnEntry, UsesEntry
<1>2. /\ pc' = [pc EXCEPT ![p] = "loop"]
      /\ w' = [w EXCEPT ![i] = [@ EXCEPT !.next = -1, !.count = count[wq[p]], !.process = p, !.w_queue = wq[p]]]
  BY DEF AddDone, Goto
<1>3. /\ \A j \in Entry \ {i} : w'[j] = w[j]
      /\ w'[i].inuse = TRUE /\ w'[i].process = p
  <2> DEFINE e == w[i]
             f == [e EXCEPT !.next = -1, !.count = count[wq[p]], !.process = p, !.w_queue = wq[p]]
  <2>1. /\ \A j \in Entry \ {i} : w'[j] = w[j]
        /\ w'[i] = f
    BY <1>1, <1>2 DEF QInv, Shape, Entries
  <2>2. DOMAIN e = {"inuse", "previous", "next", "count", "w_queue", "process"}
    BY <1>1 DEF QInv, Shape, Entries
  <2>3. f.inuse = e.inuse /\ f.process = p
    BY <2>2, DoneEntry
  <2> QED
    BY <1>1, <2>1, <2>3
<1>4. pc'[p] = "loop" /\ \A a \in Actor \ {p} : pc'[a] = pc[a]
  BY <1>2 DEF QInv, Shape, Actor
<1>5. Shape'
  BY <1>1, <1>2 DEF QInv, Shape, Entries
<1>6. \A q \in Proc \ {p} : UsesEntry(q)' => UsesEntry(q) /\ mywait[q] \in Entry \ {i}
  BY <1>1, <1>4 DEF QInv, OwnEntry, Exclusive, UsesEntry, Actor
<1>7. OwnEntry'
  BY <1>1, <1>3, <1>6 DEF QInv, OwnEntry
<1>8. ProcessOK'
  <2>1. \A q \in Proc : pc'[q] = "new" => pc[q] = "new"
    BY <1>4 DEF Actor
  <2>2. pc'[p] # "new"
    BY <1>4
  <2>3. ASSUME NEW j \in Entry, j # i
        PROVE  /\ w'[j].process \in Proc \cup {None}
               /\ w'[j].process \in Proc => pc'[w'[j].process] # "new"
               /\ w'[j].inuse # TRUE => w'[j].process = None
               /\ w'[j].w_queue \in Queue => w'[j].process \in Proc
    <3>1. w'[j] = w[j]
      BY <2>3, <1>3
    <3>2. ProcessOK
      BY DEF QInv
    <3> QED
      BY <3>1, <3>2, <2>1 DEF ProcessOK
  <2>4. /\ w'[i].process \in Proc /\ pc'[w'[i].process] # "new"
        /\ w'[i].inuse = TRUE
    BY <1>1, <1>3, <2>2
  <2> QED
    BY <2>3, <2>4 DEF ProcessOK
<1>9. PurgesDead'
  <2>1. pc'[Daemon] = pc[Daemon] /\ mywait'[Daemon] = mywait[Daemon] /\ victim' = victim
    BY <1>1, <1>4, Distinct DEF Actor, AddDone, purgeVars
  <2>2. \A q \in Proc : (pc'[q] = "new" => pc[q] = "new") /\ (pc[q] = "gone" => pc'[q] = "gone")
    BY <1>1, <1>4 DEF Actor
  <2>3. ASSUME pc[Daemon] \in {"relink", "clear"} PROVE mywait[Daemon] \in Entry \ {i}
    <3>1. w[mywait[Daemon]].process \notin {None, p} /\ mywait[Daemon] \in Entry
      BY <2>3, <1>1, Distinct DEF QInv, PurgesDead
    <3> QED
      BY <3>1, <1>1
  <2> QED
    BY <2>1, <2>2, <2>3, <1>3 DEF QInv, PurgesDead
<1>10. Exclusive'
  BY <1>1, <1>6 DEF QInv, Exclusive
<1>11. Kept'
  BY <1>1, <1>3, <1>4, <1>6 DEF QInv, Kept, UsesEntry, Actor
<1> QED
  BY <1>5, <1>7, <1>8, <1>9, <1>10, <1>11 DEF QInv

-----------------------------------------------------------------------------
(* queue_exit(), by a process on its own entry or by the purge              *)

\* ExitPrevious and ExitNext write links only.
LEMMA UnlinkSteps ==
  ASSUME QInv, NEW a \in Actor, ExitPrevious(a) \/ ExitNext(a)
  PROVE  Shape' /\ Keeps
<1>1. Entries(w)
  BY DEF QInv, Shape
<1>2. \/ w' = w
      \/ \E i, v : w' = [w EXCEPT ![i].next = v]
      \/ \E i, v : w' = [w EXCEPT ![i].previous = v]
  BY DEF ExitPrevious, ExitNext
<1>3. Entries(w') /\ SameUse(w, w')
  <2>1. CASE w' = w
    BY <2>1, <1>1 DEF SameUse
  <2>2. ASSUME NEW i, NEW v, w' = [w EXCEPT ![i].next = v] PROVE Entries(w') /\ SameUse(w, w')
    BY <2>2, <1>1, LinkStep
  <2>3. ASSUME NEW i, NEW v, w' = [w EXCEPT ![i].previous = v] PROVE Entries(w') /\ SameUse(w, w')
    BY <2>3, <1>1, LinkStep
  <2> QED
    BY <1>2, <2>1, <2>2, <2>3
<1>4. /\ mywait' = mywait
      /\ \E l \in {"relink", "clear", After(a)} : pc' = [pc EXCEPT ![a] = l]
      /\ pc[a] \in {"unlink", "relink"}
  BY DEF ExitPrevious, ExitNext, Goto
<1>5. After(a) \in {"purge", "in", "gone"}
  BY DEF After
<1> QED
  BY <1>3, <1>4, <1>5, Distinct DEF QInv, Shape, Keeps, UsesEntry, Actor, CallPCs

\* What the daemon removes: unless a running process is robbed of it, the
\* entry of a process that is gone.
LEMMA UnlinkPurge ==
  ASSUME QInv, NEW a \in Actor, ExitPrevious(a) \/ ExitNext(a), ~robbed'
  PROVE  PurgesDead'
<1>1. Shape' /\ Keeps
  BY UnlinkSteps
<1>2. CASE a # Daemon \/ ExitNext(a)
  <2>1. DaemonKeeps
    BY <1>2, Distinct
    DEF ExitPrevious, ExitNext, DaemonKeeps, QInv, Shape, Actor, Goto, CallPCs, purgeVars
  <2> QED
    BY <1>1, <2>1, KeepsPurge
<1>3. CASE a = Daemon /\ ExitPrevious(a)
  <2> DEFINE m == mywait[Daemon]
  <2>1. m \in Entry /\ victim \in Proc /\ pc[victim] = "gone" /\ mywait' = mywait
    BY <1>3 DEF ExitPrevious, QInv, PurgesDead
  <2>2. CASE w[m].w_queue \notin Queue
    <3>1. pc'[Daemon] = "purge"
      BY <1>3, <2>2 DEF ExitPrevious, Goto, After, QInv, Shape
    <3> QED
      BY <3>1 DEF PurgesDead
  <2>3. CASE w[m].w_queue \in Queue
    <3>1. w[m].process \in Proc /\ w[m].inuse = TRUE /\ pc[w[m].process] # "new"
      <4>1. w[m].process \in Proc
        BY <2>1, <2>3 DEF QInv, ProcessOK
      <4> QED
        BY <4>1, <2>1, Distinct DEF QInv, ProcessOK
    <3>2. ~Robs(Daemon)
      BY <1>3 DEF ExitPrevious
    <3>3. w[m].process = victim \/ ~Alive(w[m].process)
      BY <3>2, <2>3 DEF Robs
    <3>4. pc[w[m].process] = "gone"
      BY <3>1, <3>3, <2>1 DEF Alive
    <3>5. pc'[Daemon] = "relink"
      BY <1>3, <2>3 DEF ExitPrevious, Goto, QInv, Shape
    <3>6. /\ w'[m].process = w[m].process /\ w'[m].inuse = w[m].inuse
          /\ pc'[w[m].process] = "gone"
      BY <1>1, <2>1, <3>1, <3>4 DEF Keeps, SameUse
    <3> QED
      BY <2>1, <3>1, <3>5, <3>6 DEF PurgesDead
  <2> QED
    BY <2>2, <2>3
<1> QED
  BY <1>2, <1>3

\* QueueUpdate writes counts only.
LEMMA UpdateStep ==
  ASSUME QInv, NEW a \in Actor, QueueUpdate(a)
  PROVE  Shape' /\ Keeps /\ DaemonKeeps
<1>1. \A i \in Entry : \E c : w'[i] = w[i] \/ w'[i] = [w[i] EXCEPT !.count = c]
  BY DEF QueueUpdate
<1>2. w' = [i \in Entry |-> w'[i]]
  BY DEF QueueUpdate
<1>3. Entries(w') /\ SameUse(w, w')
  BY <1>1, <1>2 DEF Entries, SameUse, QInv, Shape
<1>4. /\ mywait' = [mywait EXCEPT ![a] = -1]
      /\ pc' = [pc EXCEPT ![a] = After(a)]
      /\ pc[a] = "update"
  BY DEF QueueUpdate, Goto
<1>5. After(a) \in {"purge", "in", "gone"} /\ (a = Daemon => After(a) = "purge")
  BY DEF After
<1>6. victim' = victim
  BY DEF QueueUpdate, purgeVars
<1> QED
  BY <1>3, <1>4, <1>5, <1>6, Distinct
  DEF QInv, Shape, Keeps, DaemonKeeps, UsesEntry, Actor, CallPCs

\* The entry that is cleared belongs to the process that clears it, or to a
\* dead one: nobody else uses it.
LEMMA ExitClearStep ==
  ASSUME QInv, NEW a \in Actor, ExitClear(a)
  PROVE  QInv'
<1> DEFINE i == mywait[a]
<1>1. /\ pc[a] = "clear" /\ i \in Entry
      /\ pc' = [pc EXCEPT ![a] = "update"]
      /\ w' = [w EXCEPT ![i] = Unused]
      /\ mywait' = mywait
  BY Distinct DEF ExitClear, Goto, QInv, OwnEntry, PurgesDead, UsesEntry, Actor
<1>2. \A q \in Proc : UsesEntry(q) /\ q # a => mywait[q] \in Entry \ {i}
  <2> SUFFICES ASSUME NEW q \in Proc, UsesEntry(q), q # a, mywait[q] = i PROVE FALSE
    BY DEF QInv, OwnEntry
  <2>1. CASE a \in Proc
    BY <2>1, <1>1 DEF QInv, Exclusive, UsesEntry
  <2>2. CASE a = Daemon
    <3>1. w[i].process \in Proc /\ pc[w[i].process] = "gone"
      BY <2>2, <1>1 DEF QInv, PurgesDead
    <3>2. w[i].process \in {None, q}
      BY DEF QInv, OwnEntry
    <3> QED
      BY <3>1, <3>2, Distinct DEF UsesEntry
  <2> QED
    BY <2>1, <2>2 DEF Actor
<1>3. /\ \A j \in Entry \ {i} : w'[j] = w[j]
      /\ w'[i].inuse # TRUE /\ w'[i].process = None /\ w'[i].w_queue \notin Queue
  BY <1>1, WaitQueueAssumption DEF QInv, Shape, Entries, Unused, Queue
<1>4. Shape'
  BY <1>1 DEF QInv, Shape, Entries, Unused, CallPCs
<1>5. pc'[a] = "update" /\ \A b \in Actor \ {a} : pc'[b] = pc[b]
  BY <1>1 DEF QInv, Shape
<1>6. \A q \in Proc : UsesEntry(q)' => UsesEntry(q) /\ q # a
  BY <1>1, <1>5 DEF UsesEntry, Actor
<1>7. OwnEntry'
  BY <1>1, <1>2, <1>3, <1>6 DEF QInv, OwnEntry
<1>8. ProcessOK'
  <2>1. \A q \in Proc : pc'[q] = "new" => pc[q] = "new"
    BY <1>5 DEF Actor
  <2> QED
    BY <1>3, <2>1, Distinct DEF QInv, ProcessOK
<1>9. PurgesDead'
  <2>1. CASE a = Daemon
    BY <2>1, <1>5 DEF PurgesDead
  <2>2. CASE a \in Proc
    <3>1. pc'[Daemon] = pc[Daemon] /\ mywait'[Daemon] = mywait[Daemon] /\ victim' = victim
      BY <2>2, <1>1, <1>5, Distinct DEF Actor, ExitClear, purgeVars
    <3>2. \A q \in Proc : (pc'[q] = "new" => pc[q] = "new") /\ (pc[q] = "gone" => pc'[q] = "gone")
      BY <1>1, <1>5 DEF Actor
    <3>3. ASSUME pc[Daemon] \in {"relink", "clear"} PROVE mywait[Daemon] \in Entry \ {i}
      <4>1. w[i].process \in {None, a} /\ pc[a] # "gone"
        BY <2>2, <1>1 DEF QInv, OwnEntry, UsesEntry
      <4> QED
        BY <3>3, <4>1, Distinct DEF QInv, PurgesDead
    <3> QED
      BY <3>1, <3>2, <3>3, <1>3 DEF QInv, PurgesDead
  <2> QED
    BY <2>1, <2>2 DEF Actor
<1>10. Exclusive'
  BY <1>1, <1>6 DEF QInv, Exclusive
<1>11. Kept'
  <2> SUFFICES ASSUME NEW q \in Proc, pc'[q] = "loop" PROVE w'[mywait'[q]].process = q
    BY DEF Kept
  <2>1. pc[q] = "loop" /\ q # a /\ UsesEntry(q)
    BY <1>5 DEF Actor, UsesEntry
  <2> QED
    BY <2>1, <1>1, <1>2, <1>3 DEF QInv, Kept
<1> QED
  BY <1>4, <1>7, <1>8, <1>9, <1>10, <1>11 DEF QInv

-----------------------------------------------------------------------------
(* queues_purge()                                                           *)

\* The purge looks on, or gives up.
LEMMA PurgeSteps ==
  ASSUME QInv, PurgeStart \/ PurgeNextQueue \/ PurgeInvalid \/ PurgeTooMany
  PROVE  Shape' /\ Keeps /\ DaemonKeeps
<1> USE Distinct DEF QInv, Shape, Keeps, SameUse, DaemonKeeps, UsesEntry, Actor, Goto, CallPCs, lists
<1>1. CASE PurgeStart
  BY <1>1 DEF PurgeStart
<1>2. CASE PurgeNextQueue
  BY <1>2 DEF PurgeNextQueue
<1>3. CASE PurgeInvalid
  BY <1>3 DEF PurgeInvalid
<1>4. CASE PurgeTooMany
  BY <1>4 DEF PurgeTooMany
<1> QED
  BY <1>1, <1>2, <1>3, <1>4

\* PurgeEntry: the purge loads a process that has arrived.  PurgeKill: it goes
\* on when that process is gone.
LEMMA PurgeEntryStep ==
  ASSUME QInv, PurgeEntry \/ PurgeKill
  PROVE  QInv'
<1>1. Shape' /\ Keeps
  BY Distinct
  DEF PurgeEntry, PurgeKill, QInv, Shape, Keeps, SameUse, UsesEntry, Actor, Goto, CallPCs, lists
<1>2. CASE PurgeEntry
  <2>1. /\ next \in Entry /\ w[next].process \in Proc /\ pc[w[next].process] # "new"
    BY <1>2 DEF PurgeEntry, Valid, QInv, ProcessOK
  <2>2. pc'[Daemon] = "kill" /\ mywait'[Daemon] = next /\ victim' = w[next].process
    BY <1>2 DEF PurgeEntry, Goto, QInv, Shape, Actor
  <2>3. pc'[w[next].process] # "new"
    BY <1>1, <2>1 DEF Keeps
  <2>4. PurgesDead'
    BY <2>1, <2>2, <2>3 DEF PurgesDead
  <2> QED
    BY <1>1, <2>4, KeepsInv DEF QInv
<1>3. CASE PurgeKill
  <2>1. victim \in Proc /\ pc[victim] # "new" /\ mywait[Daemon] \in Entry
    BY <1>3 DEF PurgeKill, QInv, PurgesDead
  <2>2. CASE NoSuchProcess(victim)
    <3>1. pc[victim] = "gone"
      BY <2>1, <2>2 DEF NoSuchProcess, Alive
    <3>2. pc'[victim] = "gone"
      BY <1>1, <2>1, <3>1 DEF Keeps
    <3>3. pc'[Daemon] = "unlink" /\ mywait' = mywait /\ victim' = victim
      BY <1>3, <2>2 DEF PurgeKill, Goto, QInv, Shape, Actor
    <3>4. PurgesDead'
      BY <2>1, <3>2, <3>3 DEF PurgesDead
    <3> QED
      BY <1>1, <3>4, KeepsInv DEF QInv
  <2>3. CASE ~NoSuchProcess(victim)
    <3>1. pc'[Daemon] = "purge"
      BY <1>3, <2>3 DEF PurgeKill, Goto, QInv, Shape, Actor
    <3>2. PurgesDead'
      BY <3>1 DEF PurgesDead
    <3> QED
      BY <1>1, <3>2, KeepsInv DEF QInv
  <2> QED
    BY <2>2, <2>3
<1> QED
  BY <1>2, <1>3

-----------------------------------------------------------------------------
\* Every step keeps the invariant, unless it robs a running process.
LEMMA QInvNext == QInv /\ [Next]_vars /\ ~robbed' => QInv'
<1> SUFFICES ASSUME QInv, [Next]_vars, ~robbed' PROVE QInv'
  OBVIOUS
<1>1. SUFFICES (Shape' /\ Keeps /\ DaemonKeeps) \/ QInv'
  BY KeepsInv, KeepsPurge DEF QInv
<1>2. ASSUME NEW p \in Proc, \E q \in Queue : Arrive(p, q) PROVE Shape' /\ Keeps /\ DaemonKeeps
  BY <1>2, QuietSteps
<1>3. ASSUME NEW p \in Proc, GiveUp(p) \/ Crash(p) \/ Depart(p) PROVE Shape' /\ Keeps /\ DaemonKeeps
  BY <1>3, QuietSteps
<1>4. ASSUME NEW p \in Proc, TryNow(p) \/ LostEntry(p) \/ Served(p)
      PROVE Shape' /\ Keeps /\ DaemonKeeps
  BY <1>4, QuietSteps
<1>5. ASSUME NEW p \in Proc, QueueAdd(p) PROVE (Shape' /\ Keeps /\ DaemonKeeps) \/ QInv'
  BY <1>5, QuietSteps, AddEntryStep, AddTailStep, AddDoneStep DEF QueueAdd
<1>6. ASSUME NEW a \in Actor, QueueExit(a) PROVE (Shape' /\ Keeps /\ DaemonKeeps) \/ QInv'
  <2>1. CASE ExitPrevious(a) \/ ExitNext(a)
    BY <2>1, UnlinkSteps, UnlinkPurge, KeepsInv DEF QInv
  <2> QED
    BY <1>6, <2>1, UpdateStep, ExitClearStep DEF QueueExit
<1>7. CASE Purge
  BY <1>7, <1>6, PurgeSteps, PurgeEntryStep DEF Purge, Actor
<1>8. CASE UNCHANGED vars
  BY <1>8 DEF vars, lists, purgeVars, QInv, Shape, Keeps, SameUse, DaemonKeeps, UsesEntry
<1> QED
  BY <1>2, <1>3, <1>4, <1>5, <1>6, <1>7, <1>8 DEF Next, Wait, Actor

\* Nobody who has been robbed is forgotten.
LEMMA RobbedStays == [Next]_vars /\ ~robbed' => ~robbed
<1> SUFFICES ASSUME [Next]_vars, ~robbed' PROVE ~robbed
  OBVIOUS
<1> USE DEF purgeVars
<1>1. ASSUME NEW p \in Proc, \E q \in Queue : Arrive(p, q) PROVE ~robbed
  BY <1>1 DEF Arrive
<1>2. ASSUME NEW p \in Proc, GiveUp(p) \/ Crash(p) \/ Depart(p) PROVE ~robbed
  BY <1>2 DEF GiveUp, Crash, Depart
<1>3. ASSUME NEW p \in Proc, TryNow(p) \/ LostEntry(p) \/ Served(p) PROVE ~robbed
  BY <1>3 DEF TryNow, LostEntry, Served
<1>4. ASSUME NEW p \in Proc, QueueAdd(p) PROVE ~robbed
  BY <1>4 DEF QueueAdd, AddEntry, AddTest, AddFirst, AddTail, AddLast, AddDone
<1>5. ASSUME NEW a \in Actor, QueueExit(a) PROVE ~robbed
  BY <1>5 DEF QueueExit, ExitPrevious, ExitNext, ExitClear, QueueUpdate
<1>6. CASE Purge
  BY <1>6, <1>5
  DEF Purge, Actor, PurgeStart, PurgeNextQueue, PurgeInvalid, PurgeTooMany, PurgeEntry, PurgeKill
<1>7. CASE UNCHANGED vars
  BY <1>7 DEF vars
<1> QED
  BY <1>1, <1>2, <1>3, <1>4, <1>5, <1>6, <1>7 DEF Next, Wait, Actor

\* Until a running process is robbed of its entry, the invariant holds.
LEMMA QInvAlways == Spec => [](~robbed => QInv)
<1>1. Init => (~robbed => QInv)
  BY QInvInit
<1>2. (~robbed => QInv) /\ [Next]_vars => (~robbed => QInv)'
  BY QInvNext, RobbedStays
<1> QED
  BY <1>1, <1>2, PTL DEF Spec

\* LOCK_QUEUE_ADD does its job (queue.c:212-224): no two processes use one
\* entry, for any number of processes, queues and entries, whatever calls
\* overlap and whoever dies in one, until queues_purge() removes the entry of
\* a running process.
THEOREM EntriesExclusive == Spec => []EntryExclusive
<1>1. (~robbed => QInv) => EntryExclusive
  BY DEF QInv, Exclusive, EntryExclusive
<1> QED
  BY <1>1, QInvAlways, PTL

\* findslot.c:167 finds a process that has lost its entry only after the purge
\* has removed the entry of a running process.
THEOREM EntriesKept == Spec => []EntryKept
<1>1. (~robbed => QInv) => EntryKept
  BY DEF QInv, Kept, EntryKept
<1> QED
  BY <1>1, QInvAlways, PTL

-----------------------------------------------------------------------------
(* Types, and the walk along a list                                        *)

\* A function over 1..n is a sequence of length n.
LEMMA FunctionSeq ==
  ASSUME NEW S, NEW n \in Nat, NEW f \in [1..n -> S]
  PROVE  f \in Seq(S) /\ Len(f) = n
  OBVIOUS

\* A set of naturals that is not empty has a least element, a bounded one
\* a greatest.
LEMMA LeastNat ==
  ASSUME NEW S \in SUBSET Nat, S # {}
  PROVE  \E x \in S : \A y \in S : x <= y
<1>1. PICK x \in S : \A y \in S : ~ (<<y, x>> \in OpToRel(<, Nat))
  BY NatLessThanWellFounded, WFMin
<1>2. \A y \in S : ~ (y < x)
  BY <1>1 DEF OpToRel
<1> QED
  BY <1>2

\* A bounded set of naturals has a greatest element.
LEMMA GreatestNat ==
  ASSUME NEW n \in Nat, NEW S \in SUBSET (0..n), S # {}
  PROVE  \E x \in S : \A y \in S : y <= x
<1> DEFINE T == {n - x : x \in S}
<1>1. T \in SUBSET Nat /\ T # {}
  <2>1. \A x \in S : n - x \in Nat
    OBVIOUS
  <2> QED
    BY <2>1
<1>2. PICK t \in T : \A u \in T : t <= u
  BY <1>1, LeastNat
<1>3. PICK x \in S : t = n - x
  OBVIOUS
<1>4. \A y \in S : n - x <= n - y
  BY <1>2, <1>3
<1> QED
  BY <1>4

\* queue_update() ends: there is a walk.
LEMMA WalkExists ==
  ASSUME NEW q \in Queue
  PROVE  Reached(q) \in UNION {[1..n -> Entry] : n \in 0..MaxWaiting} /\ IsWalk(q, Reached(q))
<1> DEFINE Walks(n) == {r \in [1..n -> Entry] : \A k \in 1..n : r[k] = LinkAfter(q, r, k-1) /\ Valid(r[k])}
           N == {n \in 0..MaxWaiting : Walks(n) # {}}
<1>1. 0 \in N
  <2>1. [k \in 1..0 |-> 0] \in Walks(0)
    OBVIOUS
  <2>2. 0 \in 0..MaxWaiting
    BY WaitQueueAssumption
  <2> HIDE DEF Walks
  <2>3. Walks(0) # {}
    BY <2>1
  <2> QED
    BY <2>2, <2>3
<1>2. PICK n \in N : \A m \in N : m <= n
  BY <1>1, GreatestNat, WaitQueueAssumption
<1>3. PICK r \in Walks(n) : TRUE
  BY <1>2
<1>4. n \in Nat /\ Len(r) = n /\ n \in 0..MaxWaiting /\ r \in [1..n -> Entry]
  BY <1>2, <1>3, FunctionSeq, WaitQueueAssumption
<1>5. n # MaxWaiting => ~Valid(LinkAfter(q, r, n))
  <2> SUFFICES ASSUME n # MaxWaiting, Valid(LinkAfter(q, r, n)) PROVE FALSE
    OBVIOUS
  <2> DEFINE x == LinkAfter(q, r, n)
             s == [k \in 1..n+1 |-> IF k <= n THEN r[k] ELSE x]
  <2>1. x \in Entry
    BY DEF Valid
  <2>2. s \in [1..n+1 -> Entry]
    BY <1>4, <2>1
  <2>3. ASSUME NEW k \in 1..n+1 PROVE s[k] = LinkAfter(q, s, k-1) /\ Valid(s[k])
    BY <1>3, <1>4 DEF LinkAfter
  <2>4. s \in Walks(n+1)
    BY <2>2, <2>3
  <2>5. n+1 \in N
    <3>1. n+1 \in 0..MaxWaiting
      BY <1>4, WaitQueueAssumption
    <3> HIDE DEF Walks
    <3>2. Walks(n+1) # {}
      BY <2>4
    <3> QED
      BY <3>1, <3>2
  <2> QED
    BY <2>5, <1>2, <1>4
<1>6. IsWalk(q, r)
  BY <1>3, <1>4, <1>5 DEF IsWalk
<1>7. r \in UNION {[1..m -> Entry] : m \in 0..MaxWaiting}
  BY <1>4
<1> QED
  BY <1>6, <1>7 DEF Reached

\* Two walks agree as far as both go ...
LEMMA WalksAgree ==
  ASSUME NEW q, NEW r \in Seq(Entry), NEW s \in Seq(Entry), IsWalk(q, r), IsWalk(q, s)
  PROVE  \A k \in 1..Len(r) : k <= Len(s) => r[k] = s[k]
<1> DEFINE D == {k \in 1..Len(r) : k <= Len(s) /\ r[k] # s[k]}
<1> SUFFICES ASSUME D # {} PROVE FALSE
  OBVIOUS
<1>1. PICK k \in D : \A j \in D : k <= j
  <2>1. D \in SUBSET Nat
    OBVIOUS
  <2> QED
    BY <2>1, LeastNat
<1>2. k \in 1..Len(r) /\ k \in 1..Len(s) /\ r[k] # s[k]
  OBVIOUS
<1>3. r[k] = LinkAfter(q, r, k-1) /\ s[k] = LinkAfter(q, s, k-1)
  BY <1>2 DEF IsWalk
<1>4. k # 1 => r[k-1] = s[k-1]
  <2> SUFFICES ASSUME k # 1, r[k-1] # s[k-1] PROVE FALSE
    OBVIOUS
  <2>1. k-1 \in D
    BY <1>2
  <2> QED
    BY <2>1, <1>1, <1>2
<1>5. CASE k = 1
  BY <1>5, <1>2, <1>3 DEF LinkAfter
<1>6. CASE k # 1
  BY <1>6, <1>2, <1>3, <1>4 DEF LinkAfter
<1> QED
  BY <1>5, <1>6

\* ... and neither stops before the other.
LEMMA WalkUnique ==
  ASSUME NEW q, NEW r \in Seq(Entry), NEW s \in Seq(Entry), IsWalk(q, r), IsWalk(q, s),
         Len(s) <= MaxWaiting
  PROVE  Len(s) <= Len(r)
<1> SUFFICES ASSUME Len(r) < Len(s) PROVE FALSE
  OBVIOUS
<1> DEFINE n == Len(r)
<1>1. n \in Nat /\ n # MaxWaiting /\ n+1 \in 1..Len(s)
  BY WaitQueueAssumption
<1>2. ~Valid(LinkAfter(q, r, n))
  BY <1>1 DEF IsWalk
<1>3. s[n+1] = LinkAfter(q, s, n) /\ Valid(s[n+1])
  BY <1>1 DEF IsWalk
<1>4. n # 0 => r[n] = s[n]
  BY <1>1, WalksAgree
<1>5. LinkAfter(q, r, n) = LinkAfter(q, s, n)
  BY <1>4 DEF LinkAfter
<1> QED
  BY <1>2, <1>3, <1>5

\* So Reached names any walk one can show.
LEMMA ReachedIs ==
  ASSUME NEW q \in Queue, NEW s \in Seq(Entry), Len(s) <= MaxWaiting, IsWalk(q, s)
  PROVE  Reached(q) = s
<1> DEFINE r == Reached(q)
<1>1. PICK n \in 0..MaxWaiting : r \in [1..n -> Entry]
  BY WalkExists
<1>2. r \in Seq(Entry) /\ Len(r) = n /\ n \in Nat /\ n <= MaxWaiting /\ IsWalk(q, r)
  BY <1>1, FunctionSeq, WalkExists, WaitQueueAssumption
<1> HIDE DEF r
<1>3. Len(s) <= Len(r) /\ Len(r) <= Len(s)
  BY <1>2, WalkUnique
<1>4. \A k \in 1..Len(r) : r[k] = s[k]
  BY <1>2, <1>3, WalksAgree
<1>5. r = s
  BY <1>2, <1>3, <1>4
<1> QED
  BY <1>5 DEF r

-----------------------------------------------------------------------------
(* Type correctness                                                         *)

EntryType == [inuse : BOOLEAN, previous : Link, next : Link, count : Nat \cup {-1},
              w_queue : Queue \cup {-1}, process : Proc \cup {None}]

\* Whoever is past its arrival, and the daemon inside a purge, has a queue.
QueueKnown ==
  /\ \A p \in Proc : pc[p] # "new" => wq[p] \in Queue
  /\ pc[Daemon] \in CallPCs => wq[Daemon] \in Queue

TInv == TypeOK /\ QueueKnown

\* Whoever works on an entry has one.
EntryKnown ==
  /\ \A p \in Proc : UsesEntry(p) => mywait[p] \in Entry
  /\ pc[Daemon] \in {"kill", "unlink", "relink", "clear"} => mywait[Daemon] \in Entry

\* All types hold at the start.
LEMMA TInvInit == Init => TInv
<1> SUFFICES ASSUME Init PROVE TInv
  OBVIOUS
<1> USE WaitQueueAssumption, Distinct
<1>1. /\ first \in [Queue -> Link] /\ last \in [Queue -> Link] /\ count \in [Queue -> Nat]
      /\ room \in [Queue -> Nat] /\ next \in Link /\ killcount \in 0..MaxWaiting
      /\ err \in BOOLEAN /\ admitted \subseteq Proc
      /\ victim \in Proc \cup {None} /\ robbed \in BOOLEAN
  <2>1. first \in [Queue -> Link] /\ last \in [Queue -> Link] /\ count \in [Queue -> Nat]
    BY DEF Init, Link
  <2>2. room \in [Queue -> Nat] /\ next \in Link /\ killcount \in 0..MaxWaiting
    BY DEF Init, Link
  <2>3. err \in BOOLEAN /\ admitted \subseteq Proc /\ victim \in Proc \cup {None} /\ robbed \in BOOLEAN
    BY DEF Init
  <2> QED
    BY <2>1, <2>2, <2>3
<1>2. Unused \in EntryType
  BY DEF Unused, EntryType, Link
<1>3. w \in [Entry -> EntryType]
  BY <1>2 DEF Init
<1>4. /\ pc \in [Actor -> CallPCs \cup {"new", "loop", "in", "gone", "idle"}]
      /\ wq \in [Actor -> Queue \cup {-1}] /\ mywait \in [Actor -> Link]
  BY DEF Init, Actor, Link
<1>5. line \in [Queue -> Seq(Proc)]
  BY DEF Init
<1>6. QueueKnown
  BY DEF Init, QueueKnown, Actor, CallPCs
<1> QED
  BY <1>1, <1>3, <1>4, <1>5, <1>6 DEF TInv, TypeOK, EntryType

\* Stores into one entry.
LEMMA StoreType ==
  ASSUME NEW x \in [Entry -> EntryType], NEW i, NEW v \in Link
  PROVE  /\ [x EXCEPT ![i].next = v] \in [Entry -> EntryType]
         /\ [x EXCEPT ![i].previous = v] \in [Entry -> EntryType]
<1>1. CASE i \in Entry
  BY <1>1 DEF EntryType
<1>2. CASE i \notin Entry
  BY <1>2
<1> QED
  BY <1>1, <1>2

\* The steps that leave waiting[] alone keep the types.
LEMMA QuietType ==
  ASSUME TInv, NEW p \in Proc,
         \/ \E q \in Queue : Arrive(p, q)
         \/ TryNow(p) \/ AddTest(p) \/ AddFirst(p) \/ AddLast(p)
         \/ LostEntry(p) \/ Served(p) \/ GiveUp(p) \/ Crash(p) \/ Depart(p)
  PROVE  TInv'
<1> USE Distinct DEF TInv, TypeOK, QueueKnown, Goto, lists, Actor, CallPCs, purgeVars
<1>1. ASSUME NEW q \in Queue, Arrive(p, q) PROVE TInv'
  BY <1>1 DEF Arrive
<1>2. CASE TryNow(p)
  <2>1. room' \in [Queue -> Nat] /\ admitted' \subseteq Proc
    <3>1. wq[p] \in Queue
      BY <1>2 DEF TryNow
    <3>2. CASE Pick(p)
      BY <3>1, <3>2 DEF Pick
    <3>3. CASE UNCHANGED <<room, admitted>>
      BY <3>3
    <3> QED
      BY <1>2, <3>2, <3>3 DEF TryNow
  <2>2. \E l \in {"in", "add"} : pc' = [pc EXCEPT ![p] = l]
    BY <1>2 DEF TryNow
  <2>3. pc' \in [Actor -> CallPCs \cup {"new", "loop", "in", "gone", "idle"}] /\ QueueKnown'
    BY <1>2, <2>2 DEF TryNow
  <2> QED
    BY <1>2, <2>1, <2>3 DEF TryNow
<1>3. CASE AddTest(p)
  BY <1>3 DEF AddTest
<1>4. CASE AddFirst(p)
  BY <1>4 DEF AddFirst
<1>5. CASE AddLast(p)
  BY <1>5 DEF AddLast
<1>6. CASE Served(p)
  <2>1. room' \in [Queue -> Nat] /\ admitted' \subseteq Proc
    <3>1. wq[p] \in Queue
      BY <1>6 DEF Served
    <3> QED
      BY <1>6, <3>1 DEF Served, Pick
  <2> QED
    BY <1>6, <2>1 DEF Served
<1>7. CASE GiveUp(p)
  BY <1>7 DEF GiveUp
<1>8. CASE Crash(p)
  BY <1>8 DEF Crash
<1>9. CASE Depart(p)
  BY <1>9 DEF Depart
<1>10. CASE LostEntry(p)
  BY <1>10 DEF LostEntry
<1> QED
  BY <1>1, <1>2, <1>3, <1>4, <1>5, <1>6, <1>7, <1>8, <1>9, <1>10

\* queue_add(): the stores into the pool.
LEMMA AddType ==
  ASSUME TInv, EntryKnown, NEW p \in Proc, AddEntry(p) \/ AddTail(p) \/ AddDone(p)
  PROVE  TInv'
<1>0. w \in [Entry -> EntryType]
  BY DEF TInv, TypeOK, EntryType
<1>1. CASE AddEntry(p)
  <2>1. w' \in [Entry -> EntryType] /\ mywait' \in [Actor -> Link]
    <3>1. CASE UNCHANGED <<w, mywait>>
      BY <3>1, <1>0 DEF TInv, TypeOK
    <3>2. ASSUME NEW i \in Entry, w' = [w EXCEPT ![i].inuse = TRUE], mywait' = [mywait EXCEPT ![p] = i]
          PROVE  w' \in [Entry -> EntryType] /\ mywait' \in [Actor -> Link]
      <4>1. w' \in [Entry -> EntryType]
        BY <3>2, <1>0 DEF EntryType
      <4>2. mywait' \in [Actor -> Link]
        BY <3>2 DEF TInv, TypeOK, Link
      <4> QED
        BY <4>1, <4>2
    <3> QED
      BY <1>1, <3>1, <3>2 DEF AddEntry
  <2>2. (\E l \in {"gone", "link"} : pc' = [pc EXCEPT ![p] = l]) /\ pc[p] = "add" /\ wq' = wq
    BY <1>1 DEF AddEntry, Goto
  <2>3. pc' \in [Actor -> CallPCs \cup {"new", "loop", "in", "gone", "idle"}] /\ QueueKnown'
    BY <2>2, Distinct DEF TInv, TypeOK, QueueKnown, Actor, CallPCs
  <2> QED
    BY <1>1, <2>1, <2>3 DEF AddEntry, TInv, TypeOK, EntryType, purgeVars
<1>2. CASE AddTail(p)
  <2>1. mywait[p] \in Link /\ last[wq[p]] \in Link
    BY <1>2 DEF AddTail, TInv, TypeOK, QueueKnown, Actor
  <2>2. w' \in [Entry -> EntryType]
    <3> DEFINE l == last[wq[p]]
               x == [w EXCEPT ![l].next = mywait[p]]
    <3>1. x \in [Entry -> EntryType]
      BY <1>0, <2>1, StoreType
    <3>2. w' = w \/ w' = [x EXCEPT ![mywait[p]].previous = l]
      BY <1>2, <1>0 DEF AddTail
    <3> HIDE DEF x, l
    <3>3. l \in Link
      BY <2>1 DEF l
    <3>4. [x EXCEPT ![mywait[p]].previous = l] \in [Entry -> EntryType]
      BY <3>1, <3>3, StoreType
    <3> QED
      BY <3>2, <3>4, <1>0
  <2> QED
    BY <1>2, <2>2, Distinct
    DEF AddTail, TInv, TypeOK, QueueKnown, Goto, Actor, CallPCs, EntryType, purgeVars
<1>3. CASE AddDone(p)
  <2> DEFINE q == wq[p]
             i == mywait[p]
             e == [w[i] EXCEPT !.next = -1, !.count = count[q], !.process = p, !.w_queue = q]
  <2>1. q \in Queue /\ i \in Entry /\ count[q] \in Nat
    BY <1>3 DEF AddDone, TInv, TypeOK, QueueKnown, EntryKnown, UsesEntry
  <2>2. w[i] \in EntryType
    BY <2>1, <1>0
  <2>3. e \in EntryType
    BY <2>1, <2>2 DEF EntryType, Link
  <2>4. w' = [w EXCEPT ![i] = e]
    BY <1>3, <1>0, <2>1 DEF AddDone
  <2>5. w' \in [Entry -> EntryType]
    BY <1>0, <2>3, <2>4
  <2>6. count' \in [Queue -> Nat]
    BY <1>3, <2>1 DEF AddDone, TInv, TypeOK
  <2>7. line' \in [Queue -> Seq(Proc)]
    <3>1. line[q] \in Seq(Proc)
      BY <2>1 DEF TInv, TypeOK
    <3>2. Append(line[q], p) \in Seq(Proc)
      BY <3>1
    <3> QED
      BY <1>3, <3>2 DEF AddDone, TInv, TypeOK
  <2>8. pc' \in [Actor -> CallPCs \cup {"new", "loop", "in", "gone", "idle"}] /\ QueueKnown'
    BY <1>3, Distinct DEF AddDone, TInv, TypeOK, QueueKnown, Goto, Actor, CallPCs
  <2> QED
    BY <1>3, <2>5, <2>6, <2>7, <2>8 DEF AddDone, TInv, TypeOK, EntryType, purgeVars
<1> QED
  BY <1>1, <1>2, <1>3

\* A process removed from a line leaves a line.
LEMMA WithoutType ==
  ASSUME NEW S, NEW s \in Seq(S), NEW p
  PROVE  Fifo!Without(s, p) \in Seq(S)
<1>1. CASE \E i \in DOMAIN s : s[i] = p
  <2> DEFINE k == CHOOSE i \in DOMAIN s : s[i] = p
             f == [i \in 1..Len(s)-1 |-> IF i < k THEN s[i] ELSE s[i+1]]
  <2>1. k \in 1..Len(s)
    BY <1>1
  <2>2. f \in [1..Len(s)-1 -> S] /\ Len(s)-1 \in Nat
    <3> HIDE DEF k
    <3> QED
      BY <2>1
  <2>3. f \in Seq(S)
    <3> HIDE DEF f
    <3> QED
      BY <2>2, FunctionSeq
  <2> QED
    BY <1>1, <2>3 DEF Fifo!Without
<1>2. CASE ~\E i \in DOMAIN s : s[i] = p
  BY <1>2 DEF Fifo!Without
<1> QED
  BY <1>1, <1>2

\* The places queue_update() gives to the entries it reaches.
LEMMA PlaceType ==
  ASSUME NEW r \in Seq(Entry), NEW i, \E k \in 1..Len(r) : r[k] = i
  PROVE  LET P(k) == r[k+1] = i /\ \A m \in k+2..Len(r) : r[m] # i
         IN  \E k \in 0..Len(r)-1 : P(k)
<1> DEFINE K == {k \in 0..Len(r) : k # 0 /\ r[k] = i}
<1>1. PICK k \in K : \A j \in K : j <= k
  <2>1. K # {} /\ K \in SUBSET (0..Len(r)) /\ Len(r) \in Nat
    OBVIOUS
  <2> QED
    BY <2>1, GreatestNat
<1>2. k \in 1..Len(r) /\ r[k] = i /\ \A m \in k+1..Len(r) : r[m] # i
  <2>1. k \in 1..Len(r) /\ r[k] = i
    OBVIOUS
  <2>2. ASSUME NEW m \in k+1..Len(r), r[m] = i PROVE FALSE
    <3>1. m \in K
      BY <2>1, <2>2
    <3> QED
      BY <3>1, <2>1, <1>1
  <2> QED
    BY <2>1, <2>2
<1>3. k-1 \in 0..Len(r)-1 /\ (k-1)+1 = k /\ (k-1)+2 = k+1
  BY <1>2
<1> QED
  BY <1>2, <1>3

\* queue_exit()
LEMMA ExitType ==
  ASSUME TInv, EntryKnown, NEW a \in Actor, QueueExit(a)
  PROVE  TInv'
<1>0. w \in [Entry -> EntryType] /\ pc' \in [Actor -> CallPCs \cup {"new", "loop", "in", "gone", "idle"}]
  <2>1. w \in [Entry -> EntryType]
    BY DEF TInv, TypeOK, EntryType
  <2>2. pc' \in [Actor -> CallPCs \cup {"new", "loop", "in", "gone", "idle"}]
    <3>1. \E l \in {"relink", "clear", "update", "purge", "in", "gone"} : pc' = [pc EXCEPT ![a] = l]
      BY DEF QueueExit, ExitPrevious, ExitNext, ExitClear, QueueUpdate, Goto, After
    <3> QED
      BY <3>1 DEF TInv, TypeOK, CallPCs
  <2> QED
    BY <2>1, <2>2
<1>1. QueueKnown'
  <2>1. pc[a] \in {"unlink", "relink", "clear", "update"} /\ (wq' = wq \/ \E q \in Queue : wq' = [wq EXCEPT ![a] = q])
    BY DEF QueueExit, ExitPrevious, ExitNext, ExitClear, QueueUpdate
  <2>2. \A b \in Actor \ {a} : pc'[b] = pc[b]
    BY DEF QueueExit, ExitPrevious, ExitNext, ExitClear, QueueUpdate, Goto, TInv, TypeOK
  <2> QED
    BY <2>1, <2>2, Distinct DEF TInv, TypeOK, QueueKnown, Actor, CallPCs
<1>2. CASE ExitPrevious(a)
  <2> DEFINE e == w[mywait[a]]
  <2>1. mywait[a] \in Entry
    BY <1>2 DEF ExitPrevious, EntryKnown, UsesEntry, Actor
  <2>2. e.next \in Link /\ e.previous \in Link
    BY <2>1, <1>0 DEF EntryType
  <2>3. w' \in [Entry -> EntryType]
    <3>1. w' = w \/ w' = [w EXCEPT ![e.previous].next = e.next]
      BY <1>2 DEF ExitPrevious
    <3> HIDE DEF e
    <3>2. [w EXCEPT ![e.previous].next = e.next] \in [Entry -> EntryType]
      BY <1>0, <2>2, StoreType
    <3> QED
      BY <3>1, <3>2, <1>0
  <2>4. first' \in [Queue -> Link]
    <3>1. first' = first \/ \E q : first' = [first EXCEPT ![q] = e.next]
      BY <1>2 DEF ExitPrevious
    <3> QED
      BY <3>1, <2>2 DEF TInv, TypeOK
  <2>5. wq' \in [Actor -> Queue \cup {-1}] /\ err' \in BOOLEAN
    BY <1>2 DEF ExitPrevious, TInv, TypeOK
  <2>6. victim' \in Proc \cup {None} /\ robbed' \in BOOLEAN
    BY <1>2 DEF ExitPrevious, TInv, TypeOK
  <2> QED
    BY <1>0, <1>1, <1>2, <2>3, <2>4, <2>5, <2>6 DEF ExitPrevious, TInv, TypeOK, EntryType
<1>3. CASE ExitNext(a)
  <2> DEFINE e == w[mywait[a]]
  <2>1. mywait[a] \in Entry
    BY <1>3 DEF ExitNext, EntryKnown, UsesEntry, Actor
  <2>2. e.next \in Link /\ e.previous \in Link
    BY <2>1, <1>0 DEF EntryType
  <2>3. w' \in [Entry -> EntryType]
    <3>1. w' = w \/ w' = [w EXCEPT ![e.next].previous = e.previous]
      BY <1>3 DEF ExitNext
    <3> HIDE DEF e
    <3>2. [w EXCEPT ![e.next].previous = e.previous] \in [Entry -> EntryType]
      BY <1>0, <2>2, StoreType
    <3> QED
      BY <3>1, <3>2, <1>0
  <2>4. last' \in [Queue -> Link]
    <3>1. last' = last \/ \E q : last' = [last EXCEPT ![q] = e.previous]
      BY <1>3 DEF ExitNext
    <3> QED
      BY <3>1, <2>2 DEF TInv, TypeOK
  <2> QED
    BY <1>0, <1>1, <1>3, <2>3, <2>4 DEF ExitNext, TInv, TypeOK, EntryType, purgeVars
<1>4. CASE ExitClear(a)
  <2>1. Unused \in EntryType
    BY DEF Unused, EntryType, Link
  <2>2. w' \in [Entry -> EntryType]
    BY <1>0, <1>4, <2>1 DEF ExitClear
  <2>3. line' \in [Queue -> Seq(Proc)]
    <3> DEFINE p == w[mywait[a]].process
    <3>1. \A q \in Queue : Fifo!Without(line[q], p) \in Seq(Proc)
      BY WithoutType DEF TInv, TypeOK
    <3>2. line' = [line EXCEPT ![wq[a]] = Fifo!Without(line[wq[a]], p)]
      BY <1>4 DEF ExitClear
    <3> HIDE DEF p
    <3> QED
      BY <3>1, <3>2 DEF TInv, TypeOK
  <2> QED
    BY <1>0, <1>1, <1>4, <2>2, <2>3 DEF ExitClear, TInv, TypeOK, EntryType, purgeVars
<1>5. CASE QueueUpdate(a)
  <2> DEFINE q == wq[a]
             r == Reached(q)
  <2>1. q \in Queue
    BY <1>5, Distinct DEF QueueUpdate, TInv, QueueKnown, Actor, CallPCs
  <2>2. r \in Seq(Entry) /\ Len(r) \in Nat
    <3>1. PICK n \in 0..MaxWaiting : r \in [1..n -> Entry]
      BY <2>1, WalkExists
    <3> HIDE DEF r
    <3> QED
      BY <3>1, FunctionSeq
  <2>3. \A i \in Entry : w'[i] = w[i] \/ \E c \in Nat : w'[i] = [w[i] EXCEPT !.count = c]
    <3> SUFFICES ASSUME NEW i \in Entry, \E k \in DOMAIN r : r[k] = i
                 PROVE  \E c \in Nat : w'[i] = [w[i] EXCEPT !.count = c]
      BY <1>5 DEF QueueUpdate
    <3> DEFINE P(k) == r[k+1] = i /\ \A m \in k+2..Len(r) : r[m] # i
               c == CHOOSE k \in 0..Len(r)-1 : P(k)
    <3>1. w'[i] = [w[i] EXCEPT !.count = c]
      BY <1>5 DEF QueueUpdate
    <3> HIDE DEF r
    <3>2. \E k \in 0..Len(r)-1 : P(k)
      BY <2>2, PlaceType
    <3> HIDE DEF P
    <3>3. c \in 0..Len(r)-1
      BY <3>2
    <3> HIDE DEF c
    <3>4. c \in Nat
      BY <3>3, <2>2
    <3> QED
      BY <3>1, <3>4
  <2>4. w' \in [Entry -> EntryType]
    <3>1. w' = [i \in Entry |-> w'[i]]
      BY <1>5 DEF QueueUpdate
    <3>2. ASSUME NEW i \in Entry PROVE w'[i] \in EntryType
      <4>1. w[i] \in EntryType
        BY <1>0
      <4>2. \A c \in Nat : [w[i] EXCEPT !.count = c] \in EntryType
        BY <4>1 DEF EntryType
      <4> QED
        BY <2>3, <4>1, <4>2
    <3> QED
      BY <3>1, <3>2
  <2>5. count' \in [Queue -> Nat]
    BY <1>5, <2>2 DEF QueueUpdate, Counted, TInv, TypeOK
  <2>6. mywait' \in [Actor -> Link] /\ err' \in BOOLEAN
    BY <1>5 DEF QueueUpdate, TInv, TypeOK, Link, BadEnd
  <2> QED
    BY <1>0, <1>1, <1>5, <2>4, <2>5, <2>6 DEF QueueUpdate, TInv, TypeOK, EntryType, purgeVars
<1> QED
  BY <1>2, <1>3, <1>4, <1>5 DEF QueueExit

\* queues_purge()
LEMMA PurgeType ==
  ASSUME TInv, PurgeStart \/ PurgeNextQueue \/ PurgeInvalid \/ PurgeTooMany \/ PurgeEntry \/ PurgeKill
  PROVE  TInv'
<1> USE Distinct, WaitQueueAssumption DEF TInv, TypeOK, QueueKnown, Goto, lists, Actor, CallPCs
<1>1. CASE PurgeStart
  <2>1. 0 \in Queue /\ first[0] \in Link
    BY DEF Queue
  <2> QED
    BY <1>1, <2>1 DEF PurgeStart
<1>2. CASE PurgeNextQueue
  <2> DEFINE q == wq[Daemon] + 1
  <2>0. UNCHANGED <<lists, room, mywait, victim, robbed, err, line, admitted>> /\ pc[Daemon] = "purge"
    BY <1>2 DEF PurgeNextQueue
  <2>1. CASE q \in Queue
    <3>1. wq' = [wq EXCEPT ![Daemon] = q] /\ next' = first[q] /\ UNCHANGED <<pc, killcount>>
      BY <1>2, <2>1 DEF PurgeNextQueue
    <3> HIDE DEF q
    <3>2. next' \in Link /\ wq' \in [Actor -> Queue \cup {-1}] /\ QueueKnown'
      BY <3>1, <2>1
    <3> QED
      BY <3>1, <3>2, <2>0
  <2>2. CASE q \notin Queue
    <3>1. wq' = [wq EXCEPT ![Daemon] = -1] /\ next' = next /\ killcount' = 0 /\ pc' = [pc EXCEPT ![Daemon] = "idle"]
      BY <1>2, <2>2 DEF PurgeNextQueue
    <3>2. QueueKnown'
      BY <3>1
    <3> QED
      BY <3>1, <3>2, <2>0
  <2> QED
    BY <2>1, <2>2
<1>3. CASE PurgeInvalid
  BY <1>3 DEF PurgeInvalid
<1>4. CASE PurgeTooMany
  BY <1>4 DEF PurgeTooMany, Link
<1>5. CASE PurgeEntry
  <2>1. next \in Entry /\ w[next].next \in Link
    BY <1>5 DEF PurgeEntry, Valid
  <2>2. killcount' \in 0..MaxWaiting /\ next' \in Link
    BY <1>5, <2>1 DEF PurgeEntry
  <2>3. mywait' \in [Actor -> Link]
    BY <1>5, <2>1 DEF PurgeEntry
  <2>4. victim' \in Proc \cup {None}
    BY <1>5, <2>1 DEF PurgeEntry
  <2>5. /\ pc[Daemon] = "purge" /\ pc' = [pc EXCEPT ![Daemon] = "kill"]
        /\ UNCHANGED <<lists, room, wq, robbed, err, line, admitted>>
    BY <1>5 DEF PurgeEntry
  <2> QED
    BY <2>2, <2>3, <2>4, <2>5
<1>6. CASE PurgeKill
  <2>1. mywait' \in [Actor -> Link] /\ victim' \in Proc \cup {None}
    BY <1>6 DEF PurgeKill, Link
  <2>2. \E l \in {"unlink", "purge"} : pc' = [pc EXCEPT ![Daemon] = l]
    BY <1>6 DEF PurgeKill
  <2>3. /\ pc[Daemon] = "kill"
        /\ UNCHANGED <<lists, room, wq, next, killcount, robbed, err, line, admitted>>
    BY <1>6 DEF PurgeKill
  <2> QED
    BY <2>1, <2>2, <2>3
<1> QED
  BY <1>1, <1>2, <1>3, <1>4, <1>5, <1>6

\* An entry is had before it is worked on.
LEMMA EntryKnownNext == TInv /\ EntryKnown /\ [Next]_vars => EntryKnown'
<1> SUFFICES ASSUME TInv, EntryKnown, [Next]_vars PROVE EntryKnown'
  OBVIOUS
<1> USE Distinct DEF EntryKnown, UsesEntry, TInv, TypeOK, Actor, Goto, CallPCs, lists
<1>1. ASSUME NEW p \in Proc, NEW q \in Queue, Arrive(p, q) PROVE EntryKnown'
  BY <1>1 DEF Arrive
<1>2. ASSUME NEW p \in Proc, GiveUp(p) \/ Crash(p) \/ Depart(p) PROVE EntryKnown'
  BY <1>2 DEF GiveUp, Crash, Depart
<1>3. ASSUME NEW p \in Proc, TryNow(p) \/ LostEntry(p) \/ Served(p) PROVE EntryKnown'
  BY <1>3 DEF TryNow, LostEntry, Served
<1>4. ASSUME NEW p \in Proc, QueueAdd(p) PROVE EntryKnown'
  <2>1. CASE AddEntry(p)
    <3>1. CASE Goto(p, "gone") /\ UNCHANGED mywait
      BY <2>1, <3>1 DEF AddEntry
    <3>2. ASSUME NEW i \in Entry, mywait' = [mywait EXCEPT ![p] = i], Goto(p, "link")
          PROVE  EntryKnown'
      BY <3>2
    <3> QED
      BY <2>1, <3>1, <3>2 DEF AddEntry
  <2>2. CASE AddTest(p) \/ AddFirst(p) \/ AddTail(p)
    BY <2>2 DEF AddTest, AddFirst, AddTail
  <2>3. CASE AddLast(p) \/ AddDone(p)
    BY <2>3 DEF AddLast, AddDone
  <2> QED
    BY <1>4, <2>1, <2>2, <2>3 DEF QueueAdd
<1>5. ASSUME NEW a \in Actor, QueueExit(a) PROVE EntryKnown'
  <2>1. CASE ExitPrevious(a)
    BY <2>1 DEF ExitPrevious, After
  <2>2. CASE ExitNext(a)
    BY <2>2 DEF ExitNext
  <2>3. CASE ExitClear(a)
    BY <2>3 DEF ExitClear
  <2>4. CASE QueueUpdate(a)
    BY <2>4 DEF QueueUpdate, After
  <2> QED
    BY <1>5, <2>1, <2>2, <2>3, <2>4 DEF QueueExit
<1>6. CASE Purge
  <2>1. CASE PurgeStart \/ PurgeNextQueue \/ PurgeInvalid \/ PurgeTooMany
    BY <2>1 DEF PurgeStart, PurgeNextQueue, PurgeInvalid, PurgeTooMany
  <2>2. CASE PurgeEntry
    BY <2>2 DEF PurgeEntry, Valid
  <2>3. CASE PurgeKill
    BY <2>3 DEF PurgeKill
  <2> QED
    BY <1>5, <1>6, <2>1, <2>2, <2>3 DEF Purge
<1>7. CASE UNCHANGED vars
  BY <1>7 DEF vars
<1> QED
  BY <1>1, <1>2, <1>3, <1>4, <1>5, <1>6, <1>7 DEF Next, Wait

\* Every step keeps the types.
LEMMA TInvNext == TInv /\ EntryKnown /\ [Next]_vars => TInv'
<1> SUFFICES ASSUME TInv, EntryKnown, [Next]_vars PROVE TInv'
  OBVIOUS
<1>1. ASSUME NEW p \in Proc, \E q \in Queue : Arrive(p, q) PROVE TInv'
  BY <1>1, QuietType
<1>2. ASSUME NEW p \in Proc, \/ GiveUp(p) \/ Crash(p) \/ Depart(p)
                            \/ TryNow(p) \/ LostEntry(p) \/ Served(p)
      PROVE TInv'
  BY <1>2, QuietType
<1>3. ASSUME NEW p \in Proc, QueueAdd(p) PROVE TInv'
  BY <1>3, QuietType, AddType DEF QueueAdd
<1>4. ASSUME NEW a \in Actor, QueueExit(a) PROVE TInv'
  BY <1>4, ExitType
<1>5. CASE Purge
  BY <1>5, <1>4, PurgeType DEF Purge, Actor
<1>6. CASE UNCHANGED vars
  BY <1>6 DEF vars, lists, purgeVars, TInv, TypeOK, QueueKnown
<1> QED
  BY <1>1, <1>2, <1>3, <1>4, <1>5, <1>6 DEF Next, Wait, Actor

\* Nobody works on an entry at the start.
LEMMA EntryKnownInit == Init => EntryKnown
  BY Distinct DEF Init, EntryKnown, UsesEntry, Actor

\* Every variable keeps its type, however the calls overlap and whoever dies.
THEOREM TypeCorrect == Spec => []TypeOK
<1>1. TInv => TypeOK
  BY DEF TInv
<1> QED
  BY <1>1, TInvInit, TInvNext, EntryKnownInit, EntryKnownNext, PTL DEF Spec

-----------------------------------------------------------------------------
(* Calls that do not overlap: the invariant                                 *)

\* The k-th entry of a sequence, -1 outside it: what the links hold.
At(s, k) == IF k \in 1..Len(s) THEN s[k] ELSE -1

\* The entries of line q, in order.
Ents(q) == [k \in 1..Len(line[q]) |-> mywait[line[q][k]]]

\* Along next from first, along previous from last, the entries x hold s.
Nexts(x, f, s) == f = At(s, 1) /\ \A k \in 1..Len(s) : x[s[k]].next = At(s, k+1)
Previouses(x, l, s) == l = At(s, Len(s)) /\ \A k \in 1..Len(s) : x[s[k]].previous = At(s, k-1)

Counts(q) == /\ count[q] = Len(line[q])
             /\ \A k \in 1..Len(line[q]) : w[Ents(q)[k]].count = k - 1

Whole(q) == Nexts(w, first[q], Ents(q)) /\ Previouses(w, last[q], Ents(q)) /\ Counts(q)

\* One call at a time.
OneCall == \A a, b \in Actor : pc[a] \in CallPCs /\ pc[b] \in CallPCs => a = b

\* A process is in one line, once, and its entry is marked with it.
InLine(p, q) ==
  /\ pc[p] \in {"loop", "unlink", "relink", "clear", "gone"}
  /\ wq[p] = q
  /\ mywait[p] \in Entry
  /\ w[mywait[p]].inuse = TRUE
  /\ w[mywait[p]].process = p
  /\ w[mywait[p]].w_queue = q

LinesOK ==
  /\ line \in [Queue -> Seq(Proc)]
  /\ \A q \in Queue : \A k \in 1..Len(line[q]) : InLine(line[q][k], q)
  /\ \A q \in Queue : \A j, k \in 1..Len(line[q]) : line[q][j] = line[q][k] => j = k

Holds(q, i) == \E k \in 1..Len(line[q]) : mywait[line[q][k]] = i

\* Whoever waits, or removes an entry, finds it in the line.
Present ==
  /\ \A p \in Proc : pc[p] \in {"loop", "unlink", "relink", "clear"} =>
       \E k \in 1..Len(line[wq[p]]) : line[wq[p]][k] = p
  /\ pc[Daemon] \in {"kill", "unlink", "relink", "clear"} => Holds(wq[Daemon], mywait[Daemon])

\* An entry in use is in a list, or is being added; the others are clear.
Adding(p) == pc[p] \in {"link", "first", "tail", "last", "done"}

Pool ==
  \A i \in Entry :
    IF w[i].inuse THEN (\E q \in Queue : Holds(q, i)) \/ (\E p \in Proc : Adding(p) /\ mywait[p] = i)
    ELSE w[i] = Unused

\* No call is at work on list q.
Quiet(q) == \A a \in Actor : wq[a] = q => pc[a] \notin {"last", "done", "relink", "clear", "update"}

QuietLists == \A q \in Queue : Quiet(q) => Whole(q)

\* queue_add()
New(p) == w[mywait[p]] = [Unused EXCEPT !.inuse = TRUE]

AddOKAt(p) ==
    LET q == wq[p]
        s == Append(Ents(q), mywait[p])
    IN /\ pc[p] = "try" => line[q] = <<>>
       /\ pc[p] \in {"link", "first", "tail"} => New(p)
       /\ pc[p] = "first" => line[q] = <<>>
       /\ pc[p] = "tail" => line[q] # <<>>
       /\ pc[p] \in {"last", "done"} =>
            /\ w[mywait[p]].process = None
            /\ Nexts(w, first[q], s)
            /\ Previouses(w, mywait[p], s)
            /\ Counts(q)
       /\ pc[p] = "done" => last[q] = mywait[p]

AddOK == \A p \in Proc : AddOKAt(p)

\* queue_exit()
ExitOKAt(a) ==
    LET q == wq[a]
        s == Ents(q)
        t == Fifo!Without(s, mywait[a])
    IN /\ pc[a] \in {"relink", "clear"} => Nexts(w, first[q], t) /\ Counts(q)
       /\ pc[a] = "relink" =>
            /\ Previouses(w, last[q], s)
            /\ \A k \in 1..Len(s) : s[k] = mywait[a] => w[s[k]].next = At(s, k+1)
       /\ pc[a] = "clear" => Previouses(w, last[q], t)
       /\ pc[a] = "update" => Nexts(w, first[q], s) /\ Previouses(w, last[q], s)

ExitOK == \A a \in Actor : ExitOKAt(a)

\* queues_purge(): the entries it has not looked at yet.
ToVisit ==
  LET q == wq[Daemon]
  IN {i \in Entry : \/ \E r \in Queue : r > q /\ Holds(r, i)
                    \/ \E j, k \in 1..Len(line[q]) : j <= k /\ Ents(q)[j] = next /\ Ents(q)[k] = i}

PurgeOK ==
  pc[Daemon] \in {"purge", "kill", "unlink", "relink", "clear", "update"} =>
    /\ next # -1 => Holds(wq[Daemon], next)
    /\ pc[Daemon] # "purge" => next # mywait[Daemon]
    /\ killcount <= Cardinality(Entry \ ToVisit)

AdmittedOK ==
  /\ \A p \in Proc : pc[p] = "in" => p \in admitted
  /\ \A p \in admitted : pc[p] \in {"in", "unlink", "relink", "clear", "update"}

SInv == /\ OneCall /\ LinesOK /\ Present /\ Pool /\ QuietLists
        /\ AddOK /\ ExitOK /\ PurgeOK /\ AdmittedOK /\ err = FALSE

-----------------------------------------------------------------------------
(* Sequences of entries and the links that hold them                        *)

Injective(s) == \A j, k \in 1..Len(s) : s[j] = s[k] => j = k

\* What is left of a sequence without its k-th element.
LEMMA WithoutAt ==
  ASSUME NEW S, NEW s \in Seq(S), Injective(s), NEW k \in 1..Len(s)
  PROVE  LET t == Fifo!Without(s, s[k])
         IN  /\ t \in Seq(S)
             /\ Len(t) = Len(s) - 1
             /\ \A i \in 1..Len(t) : t[i] = IF i < k THEN s[i] ELSE s[i+1]
             /\ \A i \in 0..Len(s) : At(t, i) = IF i < k THEN At(s, i) ELSE At(s, i+1)
<1> DEFINE t == Fifo!Without(s, s[k])
           n == Len(s) - 1
           f == [i \in 1..n |-> IF i < k THEN s[i] ELSE s[i+1]]
<1>1. k = CHOOSE i \in DOMAIN s : s[i] = s[k]
  BY DEF Injective
<1>2. t = f
  <2>1. \E i \in DOMAIN s : s[i] = s[k]
    OBVIOUS
  <2> QED
    BY <1>1, <2>1 DEF Fifo!Without
<1>3. n \in Nat /\ f \in [1..n -> S]
  OBVIOUS
<1>4. f \in Seq(S) /\ Len(f) = n
  <2> HIDE DEF f, n
  <2> QED
    BY <1>3, FunctionSeq
<1>5. t \in Seq(S) /\ Len(t) = n /\ \A i \in 1..n : t[i] = IF i < k THEN s[i] ELSE s[i+1]
  BY <1>2, <1>4
<1>6. ASSUME NEW i \in 0..Len(s) PROVE At(t, i) = IF i < k THEN At(s, i) ELSE At(s, i+1)
  <2> HIDE DEF t
  <2>1. CASE i = 0
    BY <2>1 DEF At
  <2>2. CASE i \in 1..n /\ i < k
    BY <2>2, <1>5 DEF At
  <2>3. CASE i \in 1..n /\ ~(i < k)
    BY <2>3, <1>5 DEF At
  <2>4. CASE i = Len(s)
    BY <2>4, <1>5 DEF At
  <2> QED
    BY <2>1, <2>2, <2>3, <2>4
<1> QED
  BY <1>5, <1>6

\* A new entry at the end of a list.
LEMMA AppendAt ==
  ASSUME NEW S, NEW s \in Seq(S), NEW e \in S
  PROVE  LET t == Append(s, e)
         IN  /\ t \in Seq(S) /\ Len(t) = Len(s) + 1
             /\ \A i \in 1..Len(s) : t[i] = s[i]
             /\ t[Len(s)+1] = e
             /\ \A i \in 0..Len(s) : At(t, i) = At(s, i)
             /\ At(t, Len(s)+1) = e
             /\ At(t, Len(s)+2) = -1
  BY DEF At

\* What one store does to the links of an array of entries.
LEMMA StoreLink ==
  ASSUME NEW x \in [Entry -> EntryType], NEW i \in Entry, NEW v
  PROVE  /\ LET y == [x EXCEPT ![i].next = v]
            IN  /\ y[i].next = v /\ \A j \in Entry : y[j].previous = x[j].previous
                /\ \A j \in Entry \ {i} : y[j] = x[j]
                /\ \A j \in Entry : /\ y[j].inuse = x[j].inuse /\ y[j].process = x[j].process
                                    /\ y[j].w_queue = x[j].w_queue /\ y[j].count = x[j].count
         /\ LET y == [x EXCEPT ![i].previous = v]
            IN  /\ y[i].previous = v /\ \A j \in Entry : y[j].next = x[j].next
                /\ \A j \in Entry \ {i} : y[j] = x[j]
                /\ \A j \in Entry : /\ y[j].inuse = x[j].inuse /\ y[j].process = x[j].process
                                    /\ y[j].w_queue = x[j].w_queue /\ y[j].count = x[j].count
  BY DEF EntryType

\* The links depend on nothing but the entries of the list.
LEMMA LinksFrame ==
  ASSUME NEW s \in Seq(Entry), NEW x, NEW y, NEW f
  PROVE  /\ (\A k \in 1..Len(s) : y[s[k]].next = x[s[k]].next) /\ Nexts(x, f, s) => Nexts(y, f, s)
         /\ (\A k \in 1..Len(s) : y[s[k]].previous = x[s[k]].previous) /\ Previouses(x, f, s) => Previouses(y, f, s)
  BY DEF Nexts, Previouses

\* Forward links: an entry is removed.
LEMMA RemoveNext ==
  ASSUME NEW s \in Seq(Entry), Injective(s), NEW k \in 1..Len(s),
         NEW x \in [Entry -> EntryType], NEW f, Nexts(x, f, s)
  PROVE  LET t == Fifo!Without(s, s[k])
         IN  /\ k = 1 => Nexts(x, x[s[k]].next, t)
             /\ k # 1 => Nexts([x EXCEPT ![s[k-1]].next = x[s[k]].next], f, t)
<1> DEFINE t == Fifo!Without(s, s[k])
<1>1. /\ t \in Seq(Entry)
      /\ Len(t) = Len(s) - 1
      /\ \A i \in 1..Len(t) : t[i] = IF i < k THEN s[i] ELSE s[i+1]
      /\ \A i \in 0..Len(s) : At(t, i) = IF i < k THEN At(s, i) ELSE At(s, i+1)
  BY WithoutAt
<1> HIDE DEF t
<1>2. f = At(s, 1) /\ \A i \in 1..Len(s) : x[s[i]].next = At(s, i+1)
  BY DEF Nexts
<1>3. CASE k = 1
  <2>1. At(t, 1) = x[s[k]].next
    BY <1>1, <1>2, <1>3
  <2>2. ASSUME NEW i \in 1..Len(t) PROVE x[t[i]].next = At(t, i+1)
    <3>1. t[i] = s[i+1] /\ At(t, i+1) = At(s, i+2) /\ i+1 \in 1..Len(s)
      BY <1>1, <1>3
    <3> QED
      BY <3>1, <1>2
  <2> QED
    BY <1>3, <2>1, <2>2 DEF Nexts, t
<1>4. CASE k # 1
  <2> DEFINE v == x[s[k]].next
             y == [x EXCEPT ![s[k-1]].next = v]
  <2>1. /\ s[k-1] \in Entry /\ y[s[k-1]].next = v /\ \A j \in Entry \ {s[k-1]} : y[j] = x[j]
        /\ v = At(s, k+1)
    <3>1. s[k-1] \in Entry
      BY <1>4
    <3>2. v = At(s, k+1)
      BY <1>2
    <3> HIDE DEF v
    <3> QED
      BY <3>1, <3>2, StoreLink
  <2> HIDE DEF y, v
  <2>2. f = At(t, 1)
    BY <1>1, <1>2, <1>4
  <2>3. ASSUME NEW i \in 1..Len(t) PROVE y[t[i]].next = At(t, i+1)
    <3>1. CASE i = k-1
      BY <3>1, <2>1, <1>1, <1>4
    <3>2. CASE i < k-1
      <4>1. t[i] = s[i] /\ i \in 1..Len(s) /\ k-1 \in 1..Len(s) /\ i # k-1 /\ At(t, i+1) = At(s, i+1)
        BY <3>2, <1>1, <1>4
      <4>2. s[i] # s[k-1] /\ s[i] \in Entry
        BY <4>1 DEF Injective
      <4> QED
        BY <4>1, <4>2, <2>1, <1>2
    <3>3. CASE i > k-1
      <4>1. t[i] = s[i+1] /\ i+1 \in 1..Len(s) /\ k-1 \in 1..Len(s) /\ i+1 # k-1 /\ At(t, i+1) = At(s, i+2)
        BY <3>3, <1>1, <1>4
      <4>2. s[i+1] # s[k-1] /\ s[i+1] \in Entry
        BY <4>1 DEF Injective
      <4>3. x[s[i+1]].next = At(s, i+2)
        BY <4>1, <1>2
      <4> QED
        BY <4>1, <4>2, <4>3, <2>1
    <3> QED
      BY <3>1, <3>2, <3>3
  <2> QED
    BY <1>4, <2>2, <2>3 DEF Nexts, t, y, v
<1> QED
  BY <1>3, <1>4 DEF t

\* Backward links: an entry is removed.
LEMMA RemovePrevious ==
  ASSUME NEW s \in Seq(Entry), Injective(s), NEW k \in 1..Len(s),
         NEW x \in [Entry -> EntryType], NEW l, Previouses(x, l, s)
  PROVE  LET t == Fifo!Without(s, s[k])
         IN  /\ k = Len(s) => Previouses(x, x[s[k]].previous, t)
             /\ k # Len(s) => Previouses([x EXCEPT ![s[k+1]].previous = x[s[k]].previous], l, t)
<1> DEFINE t == Fifo!Without(s, s[k])
<1>1. /\ t \in Seq(Entry)
      /\ Len(t) = Len(s) - 1
      /\ \A i \in 1..Len(t) : t[i] = IF i < k THEN s[i] ELSE s[i+1]
      /\ \A i \in 0..Len(s) : At(t, i) = IF i < k THEN At(s, i) ELSE At(s, i+1)
  BY WithoutAt
<1> HIDE DEF t
<1>2. l = At(s, Len(s)) /\ \A i \in 1..Len(s) : x[s[i]].previous = At(s, i-1)
  BY DEF Previouses
<1>3. CASE k = Len(s)
  <2>1. At(t, Len(t)) = x[s[k]].previous
    BY <1>1, <1>2, <1>3
  <2>2. ASSUME NEW i \in 1..Len(t) PROVE x[t[i]].previous = At(t, i-1)
    BY <1>1, <1>2, <1>3
  <2> QED
    BY <1>3, <2>1, <2>2 DEF Previouses, t
<1>4. CASE k # Len(s)
  <2> DEFINE v == x[s[k]].previous
             y == [x EXCEPT ![s[k+1]].previous = v]
  <2>1. /\ s[k+1] \in Entry /\ y[s[k+1]].previous = v /\ \A j \in Entry \ {s[k+1]} : y[j] = x[j]
        /\ v = At(s, k-1)
    <3>1. s[k+1] \in Entry
      BY <1>4
    <3>2. v = At(s, k-1)
      BY <1>2
    <3> HIDE DEF v
    <3> QED
      BY <3>1, <3>2, StoreLink
  <2> HIDE DEF y, v
  <2>2. l = At(t, Len(t))
    BY <1>1, <1>2, <1>4
  <2>3. ASSUME NEW i \in 1..Len(t) PROVE y[t[i]].previous = At(t, i-1)
    <3>1. CASE i = k
      BY <3>1, <2>1, <1>1, <1>4
    <3>2. CASE i < k
      <4>1. t[i] = s[i] /\ i \in 1..Len(s) /\ k+1 \in 1..Len(s) /\ i # k+1
        BY <3>2, <1>1, <1>4
      <4>2. s[i] # s[k+1] /\ s[i] \in Entry
        BY <4>1 DEF Injective
      <4> QED
        BY <4>1, <4>2, <3>2, <2>1, <1>1, <1>2
    <3>3. CASE i > k
      <4>1. t[i] = s[i+1] /\ s[i+1] # s[k+1] /\ s[i+1] \in Entry
        BY <3>3, <1>1, <1>4 DEF Injective
      <4> QED
        BY <4>1, <3>3, <2>1, <1>1, <1>2
    <3> QED
      BY <3>1, <3>2, <3>3
  <2> QED
    BY <1>4, <2>2, <2>3 DEF Previouses, t, y, v
<1> QED
  BY <1>3, <1>4 DEF t

-----------------------------------------------------------------------------
(* The entries of a line                                                    *)

\* The pool is finite.
LEMMA PoolSize == IsFiniteSet(Entry) /\ Cardinality(Entry) = MaxWaiting
<1>1. 0 \in Int /\ MaxWaiting - 1 \in Int /\ ~(0 > MaxWaiting - 1) /\ (MaxWaiting - 1) - 0 + 1 = MaxWaiting
  BY WaitQueueAssumption
<1> QED
  BY <1>1, FS_Interval DEF Entry

\* What a line says of its k-th entry.
LEMMA EntAt ==
  ASSUME LinesOK, NEW q \in Queue, NEW k \in 1..Len(line[q])
  PROVE  /\ Ents(q)[k] = mywait[line[q][k]] /\ Ents(q)[k] \in Entry
         /\ line[q][k] \in Proc
         /\ w[Ents(q)[k]].inuse = TRUE
         /\ w[Ents(q)[k]].process = line[q][k]
         /\ w[Ents(q)[k]].w_queue = q
<1>1. Ents(q)[k] = mywait[line[q][k]] /\ line[q][k] \in Proc
  BY DEF Ents, LinesOK
<1>2. InLine(line[q][k], q)
  BY DEF LinesOK
<1> QED
  BY <1>1, <1>2 DEF InLine

\* A line names different entries, and fits the pool.
LEMMA EntsSeq ==
  ASSUME LinesOK, NEW q \in Queue
  PROVE  /\ Ents(q) \in Seq(Entry) /\ Len(Ents(q)) = Len(line[q]) /\ Len(line[q]) \in Nat
         /\ line[q] \in Seq(Proc)
         /\ Injective(Ents(q))
         /\ Len(line[q]) <= MaxWaiting
<1> DEFINE n == Len(line[q])
           s == Ents(q)
<1>1. n \in Nat /\ line[q] \in Seq(Proc)
  BY DEF LinesOK
<1>2. \A k \in 1..n : s[k] \in Entry /\ w[s[k]].process = line[q][k]
  BY EntAt
<1>3. s \in [1..n -> Entry]
  BY <1>2 DEF Ents
<1> HIDE DEF s, n
<1>4. s \in Seq(Entry) /\ Len(s) = n
  BY <1>1, <1>3, FunctionSeq
<1>5. \A j, k \in 1..n : s[j] = s[k] => j = k
  <2> SUFFICES ASSUME NEW j \in 1..n, NEW k \in 1..n, s[j] = s[k] PROVE j = k
    OBVIOUS
  <2>1. line[q][j] = line[q][k]
    <3>1. w[s[j]].process = line[q][j] /\ w[s[k]].process = line[q][k]
      BY <1>2
    <3> QED
      BY <3>1
  <2> QED
    BY <2>1 DEF LinesOK, n
<1>6. n <= MaxWaiting
  <2> SUFFICES ASSUME MaxWaiting < n PROVE FALSE
    BY <1>1, WaitQueueAssumption
  <2>1. IsFiniteSet(1..n) /\ Cardinality(1..n) = n
    <3>1. 1 \in Int /\ n \in Int /\ ~(1 > n)
      BY <1>1, WaitQueueAssumption
    <3> QED
      BY <3>1, FS_Interval
  <2>2. IsFiniteSet(Entry) /\ Cardinality(Entry) = MaxWaiting
    BY PoolSize
  <2>3. \E j, k \in 1..n : j # k /\ s[j] = s[k]
    BY <1>3, <2>1, <2>2, FS_PigeonHole
  <2> QED
    BY <2>3, <1>5
<1> QED
  BY <1>1, <1>4, <1>5, <1>6 DEF Injective, n, s

\* Different lines name different entries.
LEMMA EntsDisjoint ==
  ASSUME LinesOK, NEW q \in Queue, NEW r \in Queue,
         NEW j \in 1..Len(line[q]), NEW k \in 1..Len(line[r]), Ents(q)[j] = Ents(r)[k]
  PROVE  q = r /\ j = k
<1>1. q = r
  <2>1. w[Ents(q)[j]].w_queue = q /\ w[Ents(r)[k]].w_queue = r
    BY EntAt
  <2> QED
    BY <2>1
<1>2. Injective(Ents(q)) /\ Len(Ents(q)) = Len(line[q])
  BY EntsSeq
<1> QED
  BY <1>1, <1>2 DEF Injective

\* An entry that is being added is in no list.
LEMMA AddingApart ==
  ASSUME LinesOK, QInv, NEW p \in Proc, Adding(p), NEW q \in Queue, NEW k \in 1..Len(line[q])
  PROVE  mywait[p] # Ents(q)[k]
<1>1. line[q][k] \in Proc
  BY EntAt
<1>2. w[Ents(q)[k]].process = line[q][k]
  BY EntAt
<1>3. InLine(line[q][k], q)
  BY DEF LinesOK
<1>4. line[q][k] # p
  BY <1>3 DEF InLine, Adding
<1>5. w[mywait[p]].process \in {None, p}
  BY DEF QInv, OwnEntry, UsesEntry, Adding
<1> QED
  BY <1>1, <1>2, <1>4, <1>5, Distinct

\* When nothing but control moves, the lists are as they were.
LEMMA SameLists ==
  ASSUME LinesOK, UNCHANGED <<first, last, count, w, line>>, \A p \in Proc : mywait'[p] = mywait[p]
  PROVE  /\ \A q \in Queue : Ents(q)' = Ents(q) /\ (Whole(q)' <=> Whole(q)) /\ (Counts(q)' <=> Counts(q))
         /\ \A q \in Queue : \A i : Holds(q, i)' <=> Holds(q, i)
<1>1. ASSUME NEW q \in Queue, NEW k \in 1..Len(line[q]) PROVE line[q][k] \in Proc
  BY EntAt
<1>2. ASSUME NEW q \in Queue PROVE Ents(q)' = Ents(q)
  BY <1>1 DEF Ents
<1>3. ASSUME NEW q \in Queue PROVE (Counts(q)' <=> Counts(q)) /\ (Whole(q)' <=> Whole(q))
  <2>1. Counts(q)' <=> Counts(q)
    BY <1>2 DEF Counts
  <2>2. Nexts(w, first[q], Ents(q))' <=> Nexts(w, first[q], Ents(q))
    BY <1>2 DEF Nexts, At
  <2>3. Previouses(w, last[q], Ents(q))' <=> Previouses(w, last[q], Ents(q))
    BY <1>2 DEF Previouses, At
  <2> QED
    BY <2>1, <2>2, <2>3 DEF Whole
<1>4. ASSUME NEW q \in Queue PROVE \A i : Holds(q, i)' <=> Holds(q, i)
  BY <1>1 DEF Holds
<1> QED
  BY <1>2, <1>3, <1>4

\* A list nobody works on.
LEMMA WholeFrame ==
  ASSUME LinesOK, NEW q \in Queue, Whole(q), line'[q] = line[q],
         \A k \in 1..Len(line[q]) : mywait'[line[q][k]] = mywait[line[q][k]],
         first'[q] = first[q], last'[q] = last[q], count'[q] = count[q],
         \A k \in 1..Len(line[q]) : w'[Ents(q)[k]] = w[Ents(q)[k]]
  PROVE  Whole(q)'
<1>2. Ents(q)' = Ents(q)
  BY DEF Ents
<1>3. Ents(q) \in Seq(Entry) /\ Len(Ents(q)) = Len(line[q])
  BY EntsSeq
<1>4. Nexts(w', first'[q], Ents(q)) /\ Previouses(w', last'[q], Ents(q))
  BY <1>3, LinksFrame DEF Whole
<1>5. Counts(q)'
  BY <1>2 DEF Whole, Counts
<1> QED
  BY <1>2, <1>4, <1>5 DEF Whole, Nexts, Previouses, At

-----------------------------------------------------------------------------
(* A step of one actor, nobody else being in a call                         *)

\* The daemon counts from zero.
IdleCount == pc[Daemon] = "idle" => killcount = 0

\* The purge removes the entry it has looked at, and so robs nobody; who has
\* not arrived wants no queue.
Looks ==
  /\ ~robbed
  /\ pc[Daemon] \in {"kill", "unlink"} => victim = w[mywait[Daemon]].process
  /\ \A p \in Proc : pc[p] = "new" => wq[p] = -1

GInv == QInv /\ TInv /\ SInv /\ IdleCount /\ Looks

Alone(a) ==
  \A b \in Actor \ {a} : pc[b] \notin CallPCs /\ pc'[b] = pc[b] /\ wq'[b] = wq[b] /\ mywait'[b] = mywait[b]

AtWork == {"last", "done", "relink", "clear", "update"}

\* What such a step has to show.
LEMMA AloneInv ==
  ASSUME NEW a \in Actor, Alone(a),
         LinesOK', Present', Pool',
         \A q \in Queue : ~(wq'[a] = q /\ pc'[a] \in AtWork) => Whole(q)',
         a \in Proc => AddOKAt(a)',
         ExitOKAt(a)',
         a = Daemon => PurgeOK',
         AdmittedOK', err' = FALSE
  PROVE  SInv'
<1>1. \A b \in Actor \ {a} : pc'[b] \notin CallPCs
  BY DEF Alone
<1>2. OneCall'
  BY <1>1 DEF OneCall
<1>3. QuietLists'
  BY DEF QuietLists, Quiet, AtWork
<1>4. AddOK'
  BY <1>1 DEF AddOK, AddOKAt, CallPCs, Actor
<1>5. ExitOK'
  BY <1>1 DEF ExitOK, ExitOKAt, CallPCs
<1>6. PurgeOK'
  <2>1. CASE a = Daemon
    BY <2>1
  <2>2. CASE a # Daemon
    BY <2>2, <1>1 DEF PurgeOK, CallPCs, Actor
  <2> QED
    BY <2>1, <2>2
<1> QED
  BY <1>2, <1>3, <1>4, <1>5, <1>6 DEF SInv

\* An actor in a call, or one that may begin one, is alone.
LEMMA IsAlone ==
  ASSUME GInv, NEW a \in Actor, pc[a] \in CallPCs \/ (~Overlap /\ MayCall(a)),
         \A b \in Actor \ {a} : pc'[b] = pc[b] /\ wq'[b] = wq[b] /\ mywait'[b] = mywait[b]
  PROVE  Alone(a)
  BY DEF Alone, GInv, SInv, OneCall, MayCall

\* A list nobody works on is whole.
LEMMA WholeNow ==
  ASSUME GInv, NEW a \in Actor, Alone(a), NEW q \in Queue, ~(wq[a] = q /\ pc[a] \in AtWork)
  PROVE  Whole(q)
  BY DEF GInv, SInv, QuietLists, Quiet, AtWork, Alone, CallPCs

\* The first entry of a list tells whether somebody waits.
LEMMA EmptyLine ==
  ASSUME LinesOK, NEW q \in Queue, Whole(q)
  PROVE  first[q] = -1 <=> line[q] = <<>>
<1>1. first[q] = At(Ents(q), 1) /\ Len(Ents(q)) = Len(line[q]) /\ line[q] \in Seq(Proc)
  BY EntsSeq DEF Whole, Nexts
<1>2. CASE line[q] = <<>>
  BY <1>1, <1>2 DEF At
<1>3. CASE line[q] # <<>>
  <2>1. 1 \in 1..Len(line[q])
    BY <1>1, <1>3
  <2>2. Ents(q)[1] \in 0..MaxWaiting-1
    BY <2>1, EntAt DEF Entry
  <2> QED
    BY <1>1, <1>3, <2>1, <2>2, WaitQueueAssumption DEF At
<1> QED
  BY <1>2, <1>3

\* The lines are as they were when their processes stay in them.
Stays(p, q) ==
  /\ mywait'[p] = mywait[p] /\ wq'[p] = wq[p]
  /\ pc'[p] \in {"loop", "unlink", "relink", "clear", "gone"}
  /\ w'[mywait[p]].inuse = TRUE
  /\ w'[mywait[p]].process = p
  /\ w'[mywait[p]].w_queue = q

\* The lines stand when every process in them keeps its entry and its place.
LEMMA LinesFrame ==
  ASSUME LinesOK, line' = line,
         \A q \in Queue : \A k \in 1..Len(line[q]) : Stays(line[q][k], q)
  PROVE  LinesOK'
<1>1. ASSUME NEW q \in Queue, NEW k \in 1..Len(line[q]) PROVE InLine(line[q][k], q)'
  <2>1. InLine(line[q][k], q)
    BY DEF LinesOK
  <2> QED
    BY <2>1 DEF InLine, Stays
<1> QED
  BY <1>1 DEF LinesOK

\* A step of one actor that takes no entry away leaves the lines as they are.
LEMMA LinesKeep ==
  ASSUME GInv, NEW a \in Actor,
         \A b \in Actor \ {a} : pc'[b] = pc[b] /\ wq'[b] = wq[b],
         \A p \in Proc : mywait'[p] = mywait[p],
         line' = line,
         \A i \in Entry : w'[i].inuse = w[i].inuse /\ w'[i].process = w[i].process /\ w'[i].w_queue = w[i].w_queue,
         pc[a] \in {"loop", "unlink", "relink", "clear"} =>
            wq'[a] = wq[a] /\ pc'[a] \in {"loop", "unlink", "relink", "clear", "gone"},
         pc[a] = "gone" => wq'[a] = wq[a] /\ pc'[a] = "gone"
  PROVE  LinesOK'
<1>1. ASSUME NEW q \in Queue, NEW k \in 1..Len(line[q]) PROVE Stays(line[q][k], q)
  <2>1. InLine(line[q][k], q) /\ line[q][k] \in Proc
    BY DEF GInv, SInv, LinesOK
  <2> QED
    BY <2>1 DEF InLine, Actor, Stays
<1> QED
  BY <1>1, LinesFrame DEF GInv, SInv

\* Steps of a process that leave the lists alone.
LEMMA StillSteps ==
  ASSUME GInv, ~Overlap, NEW p \in Proc,
         \/ \E q \in Queue : Arrive(p, q)
         \/ TryNow(p) \/ AddTest(p) \/ Served(p) \/ GiveUp(p)
  PROVE  SInv'
<1>0. p \in Actor /\ p # Daemon /\ Daemon \in Actor
  BY Distinct DEF Actor
<1>1. /\ UNCHANGED <<first, last, count, w, line, mywait, err>>
      /\ \A b \in Actor \ {p} : pc'[b] = pc[b] /\ wq'[b] = wq[b]
      /\ pc[p] \in CallPCs \/ MayCall(p)
      /\ \/ pc[p] = "new" /\ pc'[p] \in {"try", "add"} /\ (pc'[p] = "try" => first[wq'[p]] = -1)
         \/ pc[p] = "try" /\ pc'[p] \in {"in", "add"} /\ (pc'[p] = "in" => p \in admitted')
         \/ pc[p] = "link" /\ wq'[p] = wq[p] /\ pc'[p] = (IF first[wq[p]] = -1 THEN "first" ELSE "tail")
         \/ pc[p] = "loop" /\ wq'[p] = wq[p] /\ pc'[p] = "unlink"
      /\ admitted' = admitted \/ (admitted' = admitted \cup {p} /\ pc'[p] \in {"in", "unlink"})
      /\ wq'[p] \in Queue
  <2>0. /\ DOMAIN pc = Actor /\ DOMAIN wq = Actor /\ (pc[p] # "new" => wq[p] \in Queue)
        /\ \A l \in {"try", "link"} : l \in CallPCs
    BY <1>0 DEF GInv, TInv, TypeOK, QueueKnown, CallPCs
  <2> USE <1>0, <2>0 DEF Goto, lists
  <2>1. ASSUME NEW q \in Queue, Arrive(p, q) PROVE <1>1!:
    <3>1. /\ UNCHANGED <<first, last, count, w, line, mywait, err, admitted>> /\ MayCall(p) /\ pc[p] = "new"
          /\ pc' = [pc EXCEPT ![p] = IF first[q] = -1 THEN "try" ELSE "add"] /\ wq' = [wq EXCEPT ![p] = q]
      BY <2>1 DEF Arrive
    <3>2. /\ pc'[p] = (IF first[q] = -1 THEN "try" ELSE "add") /\ wq'[p] = q
          /\ \A b \in Actor \ {p} : pc'[b] = pc[b] /\ wq'[b] = wq[b]
      BY <3>1
    <3> QED
      BY <3>1, <3>2
  <2>2. CASE TryNow(p)
    <3>1. CASE Pick(p) /\ Goto(p, "in")
      BY <2>2, <3>1 DEF TryNow, Pick
    <3>2. CASE Goto(p, "add") /\ UNCHANGED <<room, admitted>>
      <4>1. /\ UNCHANGED <<first, last, count, w, line, mywait, err, admitted, wq>> /\ pc[p] = "try"
            /\ pc' = [pc EXCEPT ![p] = "add"]
        BY <2>2, <3>2 DEF TryNow
      <4> QED
        BY <4>1
    <3> QED
      BY <2>2, <3>1, <3>2 DEF TryNow
  <2>3. CASE AddTest(p)
    <3>1. /\ UNCHANGED <<first, last, count, w, line, mywait, err, admitted, wq>> /\ pc[p] = "link"
          /\ pc' = [pc EXCEPT ![p] = IF first[wq[p]] = -1 THEN "first" ELSE "tail"]
      BY <2>3 DEF AddTest
    <3>2. /\ pc'[p] = (IF first[wq[p]] = -1 THEN "first" ELSE "tail")
          /\ \A b \in Actor \ {p} : pc'[b] = pc[b]
      BY <3>1
    <3> QED
      BY <3>1, <3>2
  <2>4. CASE Served(p)
    BY <2>4 DEF Served, Pick
  <2>5. CASE GiveUp(p)
    BY <2>5 DEF GiveUp
  <2> QED
    BY <2>1, <2>2, <2>3, <2>4, <2>5
<1>2. Alone(p)
  BY <1>0, <1>1, IsAlone
<1>3. /\ \A q \in Queue : Ents(q)' = Ents(q) /\ (Whole(q)' <=> Whole(q)) /\ (Counts(q)' <=> Counts(q))
      /\ \A q \in Queue : \A i : Holds(q, i)' <=> Holds(q, i)
  BY <1>1, SameLists DEF GInv, SInv
<1>4. \A q \in Queue : Whole(q)
  BY <1>0, <1>1, <1>2, WholeNow DEF AtWork
<1>5. LinesOK'
  BY <1>0, <1>1, LinesKeep
<1>6. Present'
  BY <1>0, <1>1, <1>2 DEF GInv, SInv, Present, Alone, CallPCs, Actor
<1>7. Pool'
  <2>1. \A r \in Proc : Adding(r) => Adding(r)'
    BY <1>0, <1>1 DEF Adding, Actor
  <2> QED
    BY <1>1, <1>3, <2>1 DEF GInv, SInv, Pool
<1>8. \A q \in Queue : Whole(q)'
  BY <1>3, <1>4
<1>9. AddOKAt(p)'
  <2>1. pc'[p] \in {"first", "tail"} => New(p)' /\ wq'[p] = wq[p] /\ (first[wq[p]] = -1 <=> pc'[p] = "first")
    BY <1>1 DEF New, GInv, SInv, AddOK, AddOKAt
  <2>2. pc'[p] = "try" => first[wq'[p]] = -1
    BY <1>1
  <2>3. first[wq'[p]] = -1 <=> line[wq'[p]] = <<>>
    BY <1>1, <1>4, EmptyLine DEF GInv, SInv
  <2> QED
    BY <1>1, <2>1, <2>2, <2>3 DEF AddOKAt
<1>10. ExitOKAt(p)'
  BY <1>1 DEF ExitOKAt
<1>11. AdmittedOK'
  BY <1>0, <1>1 DEF GInv, SInv, AdmittedOK, Actor, TInv, TypeOK
<1>12. err' = FALSE
  BY <1>1 DEF GInv, SInv
<1> QED
  BY <1>0, <1>2, <1>5, <1>6, <1>7, <1>8, <1>9, <1>10, <1>11, <1>12, AloneInv

\* A process in line has its entry.
LEMMA NoneLost ==
  ASSUME GInv, NEW p \in Proc
  PROVE  ~LostEntry(p)
  BY DEF GInv, QInv, Kept, LostEntry

\* A process dies in line, or an admitted one leaves: somebody else may be
\* in a call, and does not notice.
LEMMA LeaveSteps ==
  ASSUME GInv, ~Crashes, NEW p \in Proc, Crash(p) \/ Depart(p)
  PROVE  SInv'
<1>0. p \in Actor /\ p # Daemon /\ Daemon \in Actor
  BY Distinct DEF Actor
<1>1. /\ UNCHANGED <<first, last, count, w, line, mywait, wq, next, killcount, err>>
      /\ \A b \in Actor \ {p} : pc'[b] = pc[b]
      /\ pc[p] \in {"loop", "in"} /\ pc'[p] = "gone"
      /\ admitted' \subseteq admitted /\ admitted \ {p} \subseteq admitted'
      /\ p \notin admitted'
  <2> USE <1>0 DEF GInv, TInv, TypeOK, Goto, lists, purgeVars, SInv, AdmittedOK
  <2>1. CASE Crash(p)
    BY <2>1 DEF Crash
  <2>2. CASE Depart(p)
    BY <2>2 DEF Depart
  <2> QED
    BY <2>1, <2>2
<1>2. /\ \A q \in Queue : Ents(q)' = Ents(q) /\ (Whole(q)' <=> Whole(q)) /\ (Counts(q)' <=> Counts(q))
      /\ \A q \in Queue : \A i : Holds(q, i)' <=> Holds(q, i)
  BY <1>1, SameLists DEF GInv, SInv
<1>3. \A b \in Actor : \A S \in {CallPCs, AtWork} : pc'[b] \in S <=> pc[b] \in S
  BY <1>1 DEF CallPCs, AtWork
<1>4. OneCall'
  BY <1>3 DEF GInv, SInv, OneCall
<1>5. LinesOK'
  BY <1>0, <1>1, LinesKeep
<1>6. Present'
  <2>1. ASSUME NEW r \in Proc, pc'[r] \in {"loop", "unlink", "relink", "clear"}
        PROVE  \E k \in 1..Len(line'[wq'[r]]) : line'[wq'[r]][k] = r
    <3>1. pc[r] = pc'[r]
      BY <2>1, <1>1 DEF Actor
    <3> QED
      BY <2>1, <3>1, <1>1 DEF GInv, SInv, Present
  <2>2. pc'[Daemon] \in {"kill", "unlink", "relink", "clear"} => Holds(wq[Daemon], mywait[Daemon])'
    BY <1>0, <1>1, <1>2 DEF GInv, SInv, Present, TInv, QueueKnown, CallPCs
  <2> QED
    BY <2>1, <2>2, <1>1 DEF Present
<1>7. Pool'
  <2>1. \A r \in Proc : Adding(r) => Adding(r)'
    BY <1>0, <1>1 DEF Adding, Actor
  <2> QED
    BY <1>1, <1>2, <2>1 DEF GInv, SInv, Pool
<1>8. QuietLists'
  BY <1>1, <1>2, <1>3 DEF GInv, SInv, QuietLists, Quiet, AtWork
<1>9. AddOK'
  <2> SUFFICES ASSUME NEW r \in Proc PROVE AddOKAt(r)'
    BY DEF AddOK
  <2>1. CASE r = p
    BY <2>1, <1>1 DEF AddOKAt
  <2>2. CASE r # p
    <3>1. pc'[r] = pc[r] /\ AddOKAt(r) /\ New(r)' = New(r)
      BY <2>2, <1>1 DEF GInv, SInv, AddOK, Actor, New
    <3>2. pc[r] \in CallPCs => wq[r] \in Queue
      BY DEF GInv, TInv, QueueKnown, CallPCs
    <3> QED
      BY <3>1, <3>2, <1>1, <1>2 DEF AddOKAt, CallPCs, Nexts, Previouses, At
  <2> QED
    BY <2>1, <2>2
<1>10. ExitOK'
  <2> SUFFICES ASSUME NEW b \in Actor PROVE ExitOKAt(b)'
    BY DEF ExitOK
  <2>1. CASE b = p
    BY <2>1, <1>1 DEF ExitOKAt
  <2>2. CASE b # p
    <3>1. pc'[b] = pc[b] /\ ExitOKAt(b)
      BY <2>2, <1>1 DEF GInv, SInv, ExitOK
    <3>2. pc[b] \in CallPCs => wq[b] \in Queue
      BY DEF GInv, TInv, QueueKnown, CallPCs, Actor
    <3> SUFFICES ASSUME pc[b] \in CallPCs PROVE ExitOKAt(b)'
      BY <3>1 DEF ExitOKAt, CallPCs
    <3> DEFINE Q == wq[b]
               s == Ents(Q)
               t == Fifo!Without(s, mywait[b])
    <3>3. Q' = Q /\ s' = s /\ Counts(Q)' = Counts(Q) /\ mywait'[b] = mywait[b]
      BY <1>1 DEF Ents, Counts
    <3>4. t' = t
      BY <3>3 DEF Fifo!Without
    <3>5. /\ Nexts(w, first[Q], s)' = Nexts(w, first[Q], s)
          /\ Previouses(w, last[Q], s)' = Previouses(w, last[Q], s)
      <4> HIDE DEF Q, s
      <4> QED
        BY <3>3, <1>1 DEF Nexts, Previouses, At
    <3>6. /\ Nexts(w, first[Q], t)' = Nexts(w, first[Q], t)
          /\ Previouses(w, last[Q], t)' = Previouses(w, last[Q], t)
      <4> HIDE DEF Q, s, t
      <4> QED
        BY <3>3, <3>4, <1>1 DEF Nexts, Previouses, At
    <3>7. (\A k \in 1..Len(s) : s[k] = mywait[b] => w[s[k]].next = At(s, k+1))'
          = (\A k \in 1..Len(s) : s[k] = mywait[b] => w[s[k]].next = At(s, k+1))
      <4> HIDE DEF Q, s
      <4> QED
        BY <3>3, <1>1 DEF At
    <3> QED
      BY <3>1, <3>3, <3>5, <3>6, <3>7 DEF ExitOKAt
  <2> QED
    BY <2>1, <2>2
<1>11. PurgeOK'
  <2>1. pc'[Daemon] = pc[Daemon]
    BY <1>0, <1>1
  <2>2. pc[Daemon] \in CallPCs => ToVisit' = ToVisit /\ wq[Daemon] \in Queue
    <3> SUFFICES ASSUME wq[Daemon] \in Queue PROVE ToVisit' = ToVisit
      BY DEF GInv, TInv, QueueKnown
    <3> QED
      BY <1>1, <1>2 DEF ToVisit
  <2> QED
    BY <1>1, <1>2, <2>1, <2>2 DEF GInv, SInv, PurgeOK, CallPCs
<1>12. AdmittedOK'
  BY <1>0, <1>1 DEF GInv, SInv, AdmittedOK, Actor, TInv, TypeOK
<1>13. err' = FALSE
  BY <1>1 DEF GInv, SInv
<1> QED
  BY <1>4, <1>5, <1>6, <1>7, <1>8, <1>9, <1>10, <1>11, <1>12, <1>13 DEF SInv

-----------------------------------------------------------------------------
(* queue_add()                                                              *)

\* While a process adds its entry, it is alone, in no line, and the others
\* stay where they are.
LEMMA AddFrame ==
  ASSUME GInv, NEW p \in Proc, pc[p] = "add" \/ Adding(p),
         \E l : pc' = [pc EXCEPT ![p] = l],
         wq' = wq,
         \A b \in Actor \ {p} : mywait'[b] = mywait[b]
  PROVE  /\ Alone(p) /\ p \in Actor /\ p # Daemon
         /\ wq[p] \in Queue
         /\ \A b \in Actor \ {p} : pc'[b] = pc[b]
         /\ \A q \in Queue : \A k \in 1..Len(line[q]) :
              LET r == line[q][k]
              IN  r \in Proc \ {p} /\ pc'[r] = pc[r] /\ mywait'[r] = mywait[r]
<1>1. p \in Actor /\ p # Daemon
  BY Distinct DEF Actor
<1>2. \A b \in Actor \ {p} : pc'[b] = pc[b] /\ wq'[b] = wq[b] /\ mywait'[b] = mywait[b]
  BY <1>1 DEF GInv, TInv, TypeOK
<1>3. Alone(p)
  <2>1. pc[p] \in CallPCs
    BY DEF Adding, CallPCs
  <2> QED
    BY <1>1, <1>2, <2>1, IsAlone
<1>4. wq[p] \in Queue
  BY DEF GInv, TInv, QueueKnown, Adding
<1>5. ASSUME NEW q \in Queue, NEW k \in 1..Len(line[q]) PROVE line[q][k] \in Proc \ {p}
  <2>1. InLine(line[q][k], q) /\ line[q][k] \in Proc
    BY DEF GInv, SInv, LinesOK
  <2> QED
    BY <2>1 DEF InLine, Adding
<1> QED
  BY <1>1, <1>2, <1>3, <1>4, <1>5 DEF Actor

\* The processes in line stay, when no entry of theirs is written but for its links.
LEMMA AddLines ==
  ASSUME GInv, NEW p \in Proc, pc[p] = "add" \/ Adding(p),
         \E l \in {"gone", "link", "last", "done"} : pc' = [pc EXCEPT ![p] = l],
         wq' = wq,
         \A b \in Actor \ {p} : mywait'[b] = mywait[b],
         line' = line,
         \A q \in Queue : \A k \in 1..Len(line[q]) :
           LET e == Ents(q)[k]
           IN  w'[e].inuse = w[e].inuse /\ w'[e].process = w[e].process /\ w'[e].w_queue = w[e].w_queue
  PROVE  LinesOK' /\ Present' /\ \A q \in Queue : \A i : Holds(q, i)' <=> Holds(q, i)
<1>1. LinesOK
  BY DEF GInv, SInv
<1>2. ASSUME NEW q \in Queue, NEW k \in 1..Len(line[q])
      PROVE  Stays(line[q][k], q) /\ mywait'[line[q][k]] = mywait[line[q][k]]
  <2>1. line[q][k] \in Proc \ {p} /\ pc'[line[q][k]] = pc[line[q][k]] /\ mywait'[line[q][k]] = mywait[line[q][k]]
    BY AddFrame
  <2>2. InLine(line[q][k], q)
    BY <1>1 DEF LinesOK
  <2>3. Ents(q)[k] = mywait[line[q][k]]
    BY DEF Ents
  <2> QED
    BY <2>1, <2>2, <2>3 DEF InLine, Stays
<1>3. LinesOK'
  BY <1>1, <1>2, LinesFrame
<1>4. \A q \in Queue : \A i : Holds(q, i)' <=> Holds(q, i)
  BY <1>2 DEF Holds
<1>5. Present'
  <2>1. Alone(p) /\ p # Daemon /\ p \in Actor /\ \A b \in Actor \ {p} : pc'[b] = pc[b]
    BY AddFrame
  <2>9. pc'[p] \in {"gone", "link", "last", "done"}
    BY <2>1 DEF GInv, TInv, TypeOK
  <2>2. pc'[Daemon] \notin {"kill", "unlink", "relink", "clear"}
    BY <2>1 DEF Alone, Actor, CallPCs
  <2>3. ASSUME NEW r \in Proc, pc'[r] \in {"loop", "unlink", "relink", "clear"}, r # p
        PROVE  \E k \in 1..Len(line'[wq'[r]]) : line'[wq'[r]][k] = r
    <3>1. pc'[r] = pc[r]
      BY <2>1, <2>3 DEF Actor
    <3> QED
      BY <2>3, <3>1 DEF GInv, SInv, Present
  <2> QED
    BY <2>2, <2>3, <2>9 DEF Present
<1> QED
  BY <1>3, <1>4, <1>5

\* queue_add() takes an entry: a clear one, that no list names.
LEMMA AddEntrySerial ==
  ASSUME GInv, NEW p \in Proc, AddEntry(p)
  PROVE  SInv'
<1>0. /\ pc[p] = "add" /\ wq' = wq /\ line' = line /\ UNCHANGED <<first, last, count, admitted, err>>
      /\ \E l \in {"gone", "link"} : pc' = [pc EXCEPT ![p] = l]
      /\ \A b \in Actor \ {p} : mywait'[b] = mywait[b]
  BY DEF AddEntry, Goto, GInv, TInv, TypeOK
<1>1. /\ Alone(p) /\ p \in Actor /\ p # Daemon
      /\ wq[p] \in Queue
      /\ \A b \in Actor \ {p} : pc'[b] = pc[b]
      /\ \A q \in Queue : \A k \in 1..Len(line[q]) :
           LET r == line[q][k]
           IN  r \in Proc \ {p} /\ pc'[r] = pc[r] /\ mywait'[r] = mywait[r]
  BY <1>0, AddFrame
<1>2. pc'[p] \in {"gone", "link"}
  BY <1>0, <1>1 DEF GInv, TInv, TypeOK
<1>3. \/ w' = w /\ mywait' = mywait /\ pc'[p] = "gone"
      \/ /\ pc'[p] = "link"
         /\ mywait'[p] \in Entry /\ ~w[mywait'[p]].inuse
         /\ w' = [w EXCEPT ![mywait'[p]].inuse = TRUE]
  BY <1>1 DEF AddEntry, Goto, GInv, TInv, TypeOK
<1>4. ASSUME NEW q \in Queue, NEW k \in 1..Len(line[q]) PROVE w'[Ents(q)[k]] = w[Ents(q)[k]]
  <2>1. w[Ents(q)[k]].inuse = TRUE /\ Ents(q)[k] \in Entry
    BY EntAt DEF GInv, SInv
  <2> QED
    BY <2>1, <1>3 DEF GInv, TInv, TypeOK
<1>5. LinesOK' /\ Present' /\ \A q \in Queue : \A i : Holds(q, i)' <=> Holds(q, i)
  BY <1>0, <1>4, AddLines
<1>6. \A q \in Queue : Whole(q)'
  <2> SUFFICES ASSUME NEW q \in Queue PROVE Whole(q)'
    OBVIOUS
  <2>1. Whole(q)
    BY <1>0, <1>1, WholeNow DEF AtWork
  <2> QED
    BY <2>1, <1>0, <1>1, <1>4, WholeFrame DEF GInv, SInv
<1>7. /\ \A i \in Entry : w'[i] = w[i] \/ (i = mywait'[p] /\ pc'[p] = "link" /\ w'[i].inuse = TRUE)
      /\ pc'[p] = "link" => New(p)'
  <2>1. CASE w' = w /\ pc'[p] = "gone"
    BY <2>1
  <2>2. CASE /\ pc'[p] = "link"
             /\ mywait'[p] \in Entry /\ ~w[mywait'[p]].inuse
             /\ w' = [w EXCEPT ![mywait'[p]].inuse = TRUE]
    <3> DEFINE i == mywait'[p]
    <3>1. w[i] = Unused
      BY <2>2 DEF GInv, SInv, Pool
    <3>2. w'[i] = [Unused EXCEPT !.inuse = TRUE] /\ \A j \in Entry \ {i} : w'[j] = w[j]
      BY <2>2, <3>1 DEF GInv, TInv, TypeOK
    <3>3. w'[i].inuse = TRUE
      BY <3>2 DEF Unused
    <3> QED
      BY <2>2, <3>2, <3>3 DEF New, Unused
  <2> QED
    BY <1>3, <2>1, <2>2
<1>8. Pool'
  <2>1. ASSUME NEW r \in Proc, Adding(r) PROVE FALSE
    BY <2>1, <1>0, <1>1 DEF Adding, Alone, CallPCs, Actor
  <2>2. pc'[p] = "link" => Adding(p)'
    BY DEF Adding
  <2> QED
    BY <1>5, <1>7, <2>1, <2>2 DEF GInv, SInv, Pool
<1>9. AddOKAt(p)'
  BY <1>2, <1>7 DEF AddOKAt
<1>10. ExitOKAt(p)'
  BY <1>2 DEF ExitOKAt
<1>11. AdmittedOK'
  BY <1>0, <1>1, <1>2 DEF GInv, SInv, AdmittedOK, Actor, TInv, TypeOK
<1> QED
  BY <1>0, <1>1, <1>5, <1>6, <1>8, <1>9, <1>10, <1>11, AloneInv DEF GInv, SInv

\* queue_add() to an empty list: first.
LEMMA AddFirstSerial ==
  ASSUME GInv, NEW p \in Proc, AddFirst(p)
  PROVE  SInv'
<1> DEFINE Q == wq[p]
           e == mywait[p]
<1>0. /\ pc[p] = "first" /\ wq' = wq /\ line' = line /\ mywait' = mywait
      /\ UNCHANGED <<w, last, count, admitted, err>>
      /\ pc' = [pc EXCEPT ![p] = "last"] /\ first' = [first EXCEPT ![Q] = e]
  BY DEF AddFirst, Goto
<1>1. /\ Alone(p) /\ p \in Actor /\ p # Daemon
      /\ Q \in Queue
      /\ \A b \in Actor \ {p} : pc'[b] = pc[b]
      /\ \A q \in Queue : \A k \in 1..Len(line[q]) :
           LET r == line[q][k]
           IN  r \in Proc \ {p} /\ pc'[r] = pc[r] /\ mywait'[r] = mywait[r]
  BY <1>0, AddFrame DEF Adding
<1>2. pc'[p] = "last" /\ first'[Q] = e /\ \A q \in Queue \ {Q} : first'[q] = first[q]
  BY <1>0, <1>1 DEF GInv, TInv, TypeOK
<1>3. LinesOK' /\ Present' /\ \A q \in Queue : \A i : Holds(q, i)' <=> Holds(q, i)
  BY <1>0, AddLines DEF Adding
<1>4. \A q \in Queue \ {Q} : Whole(q)'
  <2> SUFFICES ASSUME NEW q \in Queue \ {Q} PROVE Whole(q)'
    OBVIOUS
  <2>1. Whole(q)
    BY <1>1, WholeNow
  <2> QED
    BY <2>1, <1>0, <1>1, <1>2, WholeFrame DEF GInv, SInv
<1>5. Pool'
  <2>1. \A r \in Proc : Adding(r) => Adding(r)'
    BY <1>1, <1>2 DEF Adding, Actor
  <2> QED
    BY <1>0, <1>3, <2>1 DEF GInv, SInv, Pool
<1>6. AddOKAt(p)'
  <2>1. line[Q] = <<>> /\ w[e] = [Unused EXCEPT !.inuse = TRUE] /\ Whole(Q)
    <3>1. Whole(Q)
      BY <1>0, <1>1, WholeNow DEF AtWork
    <3> QED
      BY <3>1, <1>0 DEF GInv, SInv, AddOK, AddOKAt, New
  <2>2. Ents(Q)' = <<>>
    BY <2>1, <1>0 DEF Ents
  <2>3. w'[e].next = -1 /\ w'[e].previous = -1 /\ w'[e].process = None
    BY <2>1, <1>0 DEF Unused
  <2>4. Nexts(w', e, <<e>>) /\ Previouses(w', e, <<e>>)
    BY <2>3 DEF Nexts, Previouses, At
  <2>5. Append(<<>>, e) = <<e>>
    OBVIOUS
  <2>6. Counts(Q)'
    BY <1>0, <2>1, <2>2 DEF Whole, Counts
  <2> QED
    BY <1>0, <1>2, <2>2, <2>3, <2>4, <2>5, <2>6 DEF AddOKAt, Nexts, Previouses, At
<1>7. ExitOKAt(p)'
  BY <1>2 DEF ExitOKAt
<1>8. AdmittedOK'
  BY <1>0, <1>1, <1>2 DEF GInv, SInv, AdmittedOK, Actor, TInv, TypeOK
<1>9. \A q \in Queue : ~(wq'[p] = q /\ pc'[p] \in AtWork) => Whole(q)'
  BY <1>0, <1>2, <1>4 DEF AtWork
<1> QED
  BY <1>0, <1>1, <1>3, <1>5, <1>6, <1>7, <1>8, <1>9, AloneInv DEF GInv, SInv

\* queue_add() to a list with entries: the links of the last one and of the
\* new one.
LEMMA AddTailSerial ==
  ASSUME GInv, NEW p \in Proc, AddTail(p)
  PROVE  SInv'
<1> DEFINE Q == wq[p]
           e == mywait[p]
           s == Ents(Q)
           n == Len(line[Q])
           l == last[Q]
           x == [w EXCEPT ![l].next = e]
<1>0. /\ pc[p] = "tail" /\ wq' = wq /\ line' = line /\ mywait' = mywait
      /\ UNCHANGED <<first, last, count, admitted>>
      /\ pc' = [pc EXCEPT ![p] = "last"]
  BY DEF AddTail, Goto
<1>1. /\ Alone(p) /\ p \in Actor /\ p # Daemon
      /\ Q \in Queue
      /\ \A b \in Actor \ {p} : pc'[b] = pc[b]
      /\ \A q \in Queue : \A k \in 1..Len(line[q]) :
           LET r == line[q][k]
           IN  r \in Proc \ {p} /\ pc'[r] = pc[r] /\ mywait'[r] = mywait[r]
  BY <1>0, AddFrame DEF Adding
<1>2. pc'[p] = "last"
  BY <1>0, <1>1 DEF GInv, TInv, TypeOK
<1>3. /\ s \in Seq(Entry) /\ Len(s) = n /\ n \in Nat /\ line[Q] \in Seq(Proc) /\ Injective(s)
      /\ Nexts(w, first[Q], s) /\ Previouses(w, l, s) /\ Counts(Q)
      /\ line[Q] # <<>> /\ w[e] = [Unused EXCEPT !.inuse = TRUE]
  <2>1. Whole(Q)
    BY <1>0, <1>1, WholeNow DEF AtWork
  <2>2. AddOKAt(p)
    BY DEF GInv, SInv, AddOK
  <2> QED
    BY <2>1, <2>2, <1>0, <1>1, EntsSeq DEF Whole, AddOKAt, New, GInv, SInv
<1>4. n \in 1..n /\ l = s[n] /\ l \in Entry /\ e \in Entry /\ e # l /\ w \in [Entry -> EntryType]
  <2>1. n \in 1..n
    BY <1>3
  <2>2. l = s[n] /\ l \in Entry
    BY <2>1, <1>3 DEF Previouses, At
  <2>3. e \in Entry
    BY <1>0 DEF GInv, QInv, OwnEntry, UsesEntry
  <2>4. e # l
    BY <2>1, <2>2, <1>0, <1>1, AddingApart DEF Adding, GInv, SInv
  <2>5. w \in [Entry -> EntryType]
    BY DEF GInv, TInv, TypeOK, EntryType
  <2> QED
    BY <2>1, <2>2, <2>3, <2>4, <2>5
<1>5. w' = [x EXCEPT ![e].previous = l] /\ err' = err
  BY <1>4 DEF AddTail
<1>6. /\ x \in [Entry -> EntryType]
      /\ x[l].next = e /\ \A j \in Entry : x[j].previous = w[j].previous
      /\ \A j \in Entry \ {l} : x[j] = w[j]
      /\ \A j \in Entry : /\ x[j].inuse = w[j].inuse /\ x[j].process = w[j].process
                          /\ x[j].w_queue = w[j].w_queue /\ x[j].count = w[j].count
  <2>1. e \in Link
    BY <1>4 DEF Link
  <2> HIDE DEF l, e
  <2>2. x \in [Entry -> EntryType]
    BY <1>4, <2>1, StoreType
  <2>3. /\ x[l].next = e /\ \A j \in Entry : x[j].previous = w[j].previous
        /\ \A j \in Entry \ {l} : x[j] = w[j]
        /\ \A j \in Entry : /\ x[j].inuse = w[j].inuse /\ x[j].process = w[j].process
                            /\ x[j].w_queue = w[j].w_queue /\ x[j].count = w[j].count
    BY <1>4, StoreLink
  <2> QED
    BY <2>2, <2>3
<1>7. /\ w'[l].next = e /\ w'[e].previous = l
      /\ \A j \in Entry \ {l} : w'[j].next = w[j].next
      /\ \A j \in Entry \ {e} : w'[j].previous = w[j].previous
      /\ \A j \in Entry \ {l, e} : w'[j] = w[j]
      /\ \A j \in Entry : /\ w'[j].inuse = w[j].inuse /\ w'[j].process = w[j].process
                          /\ w'[j].w_queue = w[j].w_queue /\ w'[j].count = w[j].count
  <2>1. /\ w'[e].previous = l /\ \A j \in Entry : w'[j].next = x[j].next
        /\ \A j \in Entry \ {e} : w'[j] = x[j]
        /\ \A j \in Entry : /\ w'[j].inuse = x[j].inuse /\ w'[j].process = x[j].process
                            /\ w'[j].w_queue = x[j].w_queue /\ w'[j].count = x[j].count
    <3> HIDE DEF x, l, e
    <3> QED
      BY <1>4, <1>5, <1>6, StoreLink
  <2> HIDE DEF x, l, e
  <2> QED
    BY <2>1, <1>6, <1>4
<1>8. \A q \in Queue : \A k \in 1..Len(line[q]) : Ents(q)[k] \in Entry /\ Ents(q)[k] # e
  BY <1>0, AddingApart, EntAt DEF Adding, GInv, SInv
<1>9. LinesOK' /\ Present' /\ \A q \in Queue : \A i : Holds(q, i)' <=> Holds(q, i)
  BY <1>0, <1>7, <1>8, AddLines DEF Adding
<1>10. \A q \in Queue \ {Q} : Whole(q)'
  <2> SUFFICES ASSUME NEW q \in Queue \ {Q} PROVE Whole(q)'
    OBVIOUS
  <2>1. Whole(q)
    BY <1>1, WholeNow
  <2>2. ASSUME NEW k \in 1..Len(line[q]) PROVE w'[Ents(q)[k]] = w[Ents(q)[k]]
    <3>1. Ents(q)[k] # l
      BY <1>1, <1>3, <1>4, EntsDisjoint DEF GInv, SInv
    <3> QED
      BY <3>1, <1>7, <1>8
  <2> QED
    BY <2>1, <2>2, <1>0, <1>1, WholeFrame DEF GInv, SInv
<1>11. Pool'
  <2>1. \A r \in Proc : Adding(r) => Adding(r)'
    BY <1>1, <1>2 DEF Adding, Actor
  <2>2. \A i \in Entry : w[i].inuse \/ (w[i] = Unused /\ i # l /\ i # e)
    <3>1. w[l].inuse = TRUE
      <4>1. w[s[n]].inuse = TRUE
        BY <1>1, <1>4, EntAt DEF GInv, SInv
      <4> QED
        BY <4>1, <1>4
    <3>2. w[e].inuse = TRUE
      BY <1>3 DEF Unused
    <3> QED
      BY <3>1, <3>2 DEF GInv, SInv, Pool
  <2> QED
    BY <1>0, <1>7, <1>9, <2>1, <2>2 DEF GInv, SInv, Pool
<1>12. AddOKAt(p)'
  <2> DEFINE t == Append(s, e)
  <2>1. Ents(Q)' = s
    BY <1>0 DEF Ents
  <2>2. /\ t \in Seq(Entry) /\ Len(t) = n + 1
        /\ \A i \in 1..n : t[i] = s[i]
        /\ t[n+1] = e
        /\ \A i \in 0..n : At(t, i) = At(s, i)
        /\ At(t, n+1) = e
        /\ At(t, n+2) = -1
    <3> HIDE DEF s, e
    <3> QED
      BY <1>3, <1>4, AppendAt
  <2> HIDE DEF t
  <2>3. Nexts(w', first[Q], t)
    <3>1. first[Q] = At(t, 1)
      BY <1>3, <1>4, <2>2 DEF Nexts
    <3>2. ASSUME NEW k \in 1..n+1 PROVE w'[t[k]].next = At(t, k+1)
      <4>1. CASE k = n+1
        <5>1. w'[e].next = -1
          BY <1>3, <1>4, <1>7 DEF Unused
        <5> QED
          BY <4>1, <5>1, <2>2
      <4>2. CASE k = n
        BY <4>2, <1>4, <1>7, <2>2
      <4>3. CASE k \in 1..n-1
        <5>1. s[k] # s[n] /\ s[k] \in Entry /\ k \in 1..n
          BY <4>3, <1>3, <1>4 DEF Injective
        <5>2. w'[s[k]].next = w[s[k]].next
          BY <5>1, <1>4, <1>7
        <5>3. w[s[k]].next = At(s, k+1)
          BY <5>1, <1>3 DEF Nexts
        <5>4. At(t, k+1) = At(s, k+1) /\ t[k] = s[k]
          <6>1. k+1 \in 0..n
            BY <4>3, <1>3
          <6> HIDE DEF s, n
          <6> QED
            BY <6>1, <5>1, <2>2
        <5> QED
          BY <5>2, <5>3, <5>4
      <4> QED
        BY <4>1, <4>2, <4>3, <1>3
    <3> QED
      BY <3>1, <3>2, <2>2 DEF Nexts
  <2>4. Previouses(w', e, t)
    <3>1. e = At(t, Len(t))
      BY <2>2
    <3>2. ASSUME NEW k \in 1..n+1 PROVE w'[t[k]].previous = At(t, k-1)
      <4>1. CASE k = n+1
        <5>1. t[k] = e /\ At(t, k-1) = At(s, n) /\ At(s, n) = s[n]
          <6> HIDE DEF s, n, t, e
          <6> QED
            BY <4>1, <1>3, <1>4, <2>2 DEF At
        <5>2. w'[e].previous = s[n]
          BY <1>4, <1>7
        <5> QED
          BY <5>1, <5>2
      <4>2. CASE k \in 1..n
        <5>1. s[k] # e /\ s[k] \in Entry
          BY <4>2, <1>1, <1>3, <1>8
        <5>2. w'[s[k]].previous = w[s[k]].previous
          BY <5>1, <1>7
        <5>3. w[s[k]].previous = At(s, k-1)
          BY <4>2, <1>3 DEF Previouses
        <5>4. At(t, k-1) = At(s, k-1) /\ t[k] = s[k]
          <6>1. k-1 \in 0..n
            BY <4>2, <1>3
          <6> HIDE DEF s, n
          <6> QED
            BY <6>1, <4>2, <2>2
        <5> QED
          BY <5>2, <5>3, <5>4
      <4> QED
        BY <4>1, <4>2, <1>3
    <3> QED
      BY <3>1, <3>2, <2>2 DEF Previouses
  <2>5. Counts(Q)'
    BY <1>0, <1>1, <1>3, <1>7, <1>8, <2>1 DEF Counts
  <2>6. w'[e].process = None
    BY <1>3, <1>4, <1>7 DEF Unused
  <2>7. pc'[p] = "last" /\ wq'[p] = Q /\ mywait'[p] = e /\ first'[Q] = first[Q]
    BY <1>0, <1>2
  <2>8. Append(Ents(wq[p])', mywait'[p]) = t
    BY <2>1, <2>7 DEF t
  <2>11. Counts(wq[p])'
    BY <2>5
  <2> HIDE DEF s, e, Q
  <2>9. Nexts(w, first[wq[p]], Append(Ents(wq[p]), mywait[p]))'
    BY <2>3, <2>7, <2>8 DEF Nexts, At
  <2>10. Previouses(w, mywait[p], Append(Ents(wq[p]), mywait[p]))'
    BY <2>4, <2>7, <2>8 DEF Previouses, At
  <2> QED
    BY <2>6, <2>7, <2>9, <2>10, <2>11 DEF AddOKAt
<1>13. ExitOKAt(p)'
  BY <1>2 DEF ExitOKAt
<1>14. AdmittedOK'
  BY <1>0, <1>1, <1>2 DEF GInv, SInv, AdmittedOK, Actor, TInv, TypeOK
<1>15. \A q \in Queue : ~(wq'[p] = q /\ pc'[p] \in AtWork) => Whole(q)'
  BY <1>0, <1>2, <1>10 DEF AtWork
<1>16. err' = FALSE
  BY <1>5 DEF GInv, SInv
<1> QED
  BY <1>1, <1>9, <1>11, <1>12, <1>13, <1>14, <1>15, <1>16, AloneInv

\* queue_add(): last.
LEMMA AddLastSerial ==
  ASSUME GInv, NEW p \in Proc, AddLast(p)
  PROVE  SInv'
<1> DEFINE Q == wq[p]
<1>0. /\ pc[p] = "last" /\ wq' = wq /\ line' = line /\ mywait' = mywait
      /\ UNCHANGED <<w, first, count, admitted, err>>
      /\ pc' = [pc EXCEPT ![p] = "done"] /\ last' = [last EXCEPT ![Q] = mywait[p]]
  BY DEF AddLast, Goto
<1>1. /\ Alone(p) /\ p \in Actor /\ p # Daemon
      /\ Q \in Queue
      /\ \A b \in Actor \ {p} : pc'[b] = pc[b]
      /\ \A q \in Queue : \A k \in 1..Len(line[q]) :
           LET r == line[q][k]
           IN  r \in Proc \ {p} /\ pc'[r] = pc[r] /\ mywait'[r] = mywait[r]
  BY <1>0, AddFrame DEF Adding
<1>2. pc'[p] = "done" /\ last'[Q] = mywait[p] /\ \A q \in Queue \ {Q} : last'[q] = last[q]
  BY <1>0, <1>1 DEF GInv, TInv, TypeOK
<1>3. LinesOK' /\ Present' /\ \A q \in Queue : \A i : Holds(q, i)' <=> Holds(q, i)
  BY <1>0, AddLines DEF Adding
<1>4. \A q \in Queue \ {Q} : Whole(q)'
  <2> SUFFICES ASSUME NEW q \in Queue \ {Q} PROVE Whole(q)'
    OBVIOUS
  <2>1. Whole(q)
    BY <1>1, WholeNow
  <2> QED
    BY <2>1, <1>0, <1>1, <1>2, WholeFrame DEF GInv, SInv
<1>5. Pool'
  <2>1. \A r \in Proc : Adding(r) => Adding(r)'
    BY <1>1, <1>2 DEF Adding, Actor
  <2> QED
    BY <1>0, <1>3, <2>1 DEF GInv, SInv, Pool
<1>6. AddOKAt(p)'
  <2>1. AddOKAt(p)
    BY DEF GInv, SInv, AddOK
  <2>2. Ents(Q)' = Ents(Q) /\ wq'[p] = wq[p] /\ first'[Q] = first[Q]
    BY <1>0 DEF Ents
  <2> QED
    BY <2>1, <2>2, <1>0, <1>2 DEF AddOKAt, Nexts, Previouses, At, Counts
<1>7. ExitOKAt(p)'
  BY <1>2 DEF ExitOKAt
<1>8. AdmittedOK'
  BY <1>0, <1>1, <1>2 DEF GInv, SInv, AdmittedOK, Actor, TInv, TypeOK
<1>9. \A q \in Queue : ~(wq'[p] = q /\ pc'[p] \in AtWork) => Whole(q)'
  BY <1>0, <1>2, <1>4 DEF AtWork
<1> QED
  BY <1>0, <1>1, <1>3, <1>5, <1>6, <1>7, <1>8, <1>9, AloneInv DEF GInv, SInv

\* queue_add(): the rest of the entry, and the length.
LEMMA AddDoneSerial ==
  ASSUME GInv, NEW p \in Proc, AddDone(p)
  PROVE  SInv'
<1> DEFINE Q == wq[p]
           e == mywait[p]
           s == Ents(Q)
           n == Len(line[Q])
           t == Append(s, e)
<1>0. /\ pc[p] = "done" /\ wq' = wq /\ mywait' = mywait
      /\ UNCHANGED <<first, last, admitted, err>>
      /\ pc' = [pc EXCEPT ![p] = "loop"]
      /\ line' = [line EXCEPT ![Q] = Append(line[Q], p)]
      /\ count' = [count EXCEPT ![Q] = count[Q] + 1]
  BY DEF AddDone, Goto
<1>1. /\ Alone(p) /\ p \in Actor /\ p # Daemon
      /\ Q \in Queue
      /\ \A b \in Actor \ {p} : pc'[b] = pc[b]
      /\ \A q \in Queue : \A k \in 1..Len(line[q]) :
           LET r == line[q][k]
           IN  r \in Proc \ {p} /\ pc'[r] = pc[r] /\ mywait'[r] = mywait[r]
  BY <1>0, AddFrame DEF Adding
<1>2. /\ pc'[p] = "loop" /\ count'[Q] = count[Q] + 1
      /\ \A q \in Queue \ {Q} : count'[q] = count[q] /\ line'[q] = line[q]
      /\ line'[Q] = Append(line[Q], p)
  BY <1>0, <1>1 DEF GInv, TInv, TypeOK
<1>3. /\ s \in Seq(Entry) /\ Len(s) = n /\ n \in Nat /\ line[Q] \in Seq(Proc) /\ Injective(s)
      /\ Nexts(w, first[Q], t) /\ Previouses(w, e, t) /\ Counts(Q) /\ last[Q] = e
  <2>1. AddOKAt(p)
    BY DEF GInv, SInv, AddOK
  <2> QED
    BY <2>1, <1>0, <1>1, EntsSeq DEF AddOKAt, GInv, SInv
<1>4. e \in Entry /\ w[e].inuse = TRUE
  BY <1>0 DEF GInv, QInv, OwnEntry, UsesEntry
<1>5. /\ w'[e].inuse = TRUE /\ w'[e].previous = w[e].previous /\ w'[e].next = -1
      /\ w'[e].count = count[Q] /\ w'[e].process = p /\ w'[e].w_queue = Q
      /\ \A j \in Entry \ {e} : w'[j] = w[j]
  <2> DEFINE f == [w[e] EXCEPT !.next = -1, !.count = count[Q], !.process = p, !.w_queue = Q]
  <2>1. w' = [w EXCEPT ![e] = f]
    BY DEF AddDone
  <2>2. w \in [Entry -> EntryType]
    BY DEF GInv, TInv, TypeOK, EntryType
  <2>3. w'[e] = f /\ \A j \in Entry \ {e} : w'[j] = w[j]
    BY <1>4, <2>1, <2>2
  <2>4. w[e] \in EntryType
    BY <1>4, <2>2
  <2>5. /\ f.inuse = w[e].inuse /\ f.previous = w[e].previous /\ f.next = -1
        /\ f.count = count[Q] /\ f.process = p /\ f.w_queue = Q
    BY <2>4 DEF EntryType
  <2> QED
    BY <1>4, <2>3, <2>5
<1>6. \A q \in Queue : \A k \in 1..Len(line[q]) : Ents(q)[k] \in Entry /\ Ents(q)[k] # e
  BY <1>0, AddingApart, EntAt DEF Adding, GInv, SInv
<1>7. /\ line'[Q] \in Seq(Proc) /\ Len(line'[Q]) = n + 1 /\ line'[Q][n+1] = p
      /\ \A k \in 1..n : line'[Q][k] = line[Q][k]
  BY <1>2, <1>3
<1>70. \A q \in Queue : \A k \in 1..Len(line[q]) : k \in 1..Len(line'[q]) /\ line'[q][k] = line[q][k]
  <2> SUFFICES ASSUME NEW q \in Queue, NEW k \in 1..Len(line[q])
               PROVE  k \in 1..Len(line'[q]) /\ line'[q][k] = line[q][k]
    OBVIOUS
  <2>1. CASE q = Q
    <3>1. k \in 1..n
      BY <2>1
    <3>2. k \in 1..n+1
      BY <3>1, <1>3
    <3> QED
      BY <2>1, <3>1, <3>2, <1>7
  <2>2. CASE q # Q
    BY <2>2, <1>2
  <2> QED
    BY <2>1, <2>2
<1>8. /\ t \in Seq(Entry) /\ Len(t) = n + 1
      /\ \A i \in 1..n : t[i] = s[i]
      /\ t[n+1] = e
      /\ At(t, n+2) = -1
  <2> HIDE DEF s, e
  <2> QED
    BY <1>3, <1>4, AppendAt
<1>9. LinesOK'
  <2>1. line' \in [Queue -> Seq(Proc)]
    BY <1>0, <1>7, <1>2 DEF GInv, TInv, TypeOK
  <2>2. ASSUME NEW q \in Queue, NEW k \in 1..Len(line[q])
        PROVE  InLine(line[q][k], q)' /\ line[q][k] # p
    <3>1. InLine(line[q][k], q)
      BY DEF GInv, SInv, LinesOK
    <3>2. Ents(q)[k] = mywait[line[q][k]]
      BY DEF Ents
    <3>3. w'[Ents(q)[k]] = w[Ents(q)[k]]
      BY <1>5, <1>6
    <3> QED
      BY <3>1, <3>2, <3>3, <1>0, <1>1 DEF InLine
  <2>3. InLine(p, Q)'
    BY <1>0, <1>2, <1>4, <1>5 DEF InLine
  <2>4. ASSUME NEW q \in Queue, NEW k \in 1..Len(line'[q]) PROVE InLine(line[q][k], q)'
    <3>1. CASE q # Q
      BY <3>1, <1>2, <2>2
    <3>2. CASE q = Q /\ k \in 1..n
      BY <3>2, <2>2
    <3>3. CASE q = Q /\ k = n+1
      BY <3>3, <1>0, <1>7, <2>3 DEF InLine
    <3> QED
      BY <3>1, <3>2, <3>3, <1>3, <1>7
  <2>5. ASSUME NEW q \in Queue, NEW j \in 1..Len(line'[q]), NEW k \in 1..Len(line'[q]), line'[q][j] = line'[q][k]
        PROVE  j = k
    <3>1. CASE q # Q
      BY <3>1, <2>5, <1>2 DEF GInv, SInv, LinesOK
    <3>2. CASE q = Q
      <4>0. \A h \in 1..n : line'[Q][h] = line[Q][h] /\ line[Q][h] # p
        BY <1>1, <1>7, <2>2
      <4>1. j \in 1..n /\ k \in 1..n => j = k
        <5> SUFFICES ASSUME j \in 1..n, k \in 1..n PROVE j = k
          OBVIOUS
        <5>1. line[Q][j] = line[Q][k]
          BY <3>2, <2>5, <4>0
        <5> QED
          BY <5>1, <1>1 DEF GInv, SInv, LinesOK
      <4>2. j \in 1..n => line'[Q][j] # p
        BY <4>0
      <4>3. k \in 1..n => line'[Q][k] # p
        BY <4>0
      <4>5. j \in 1..n+1 /\ k \in 1..n+1 /\ line'[Q][j] = line'[Q][k] /\ line'[Q][n+1] = p
        BY <3>2, <2>5, <1>3, <1>7
      <4>6. \A h \in 1..n+1 : h \in 1..n \/ h = n+1
        BY <1>3
      <4>7. CASE j = n+1
        BY <4>7, <4>3, <4>5, <4>6
      <4>8. CASE j \in 1..n
        BY <4>8, <4>1, <4>2, <4>5, <4>6
      <4> QED
        BY <4>5, <4>6, <4>7, <4>8
    <3> QED
      BY <3>1, <3>2
  <2> QED
    BY <2>1, <2>4, <2>5 DEF LinesOK
<1>10. Ents(Q)' = t
  <2>1. Ents(Q)' = [k \in 1..n+1 |-> mywait[line'[Q][k]]]
    BY <1>0, <1>7 DEF Ents
  <2>2. \A k \in 1..n : s[k] = mywait[line[Q][k]]
    BY DEF Ents
  <2>3. ASSUME NEW k \in 1..n+1 PROVE mywait[line'[Q][k]] = t[k]
    BY <2>2, <1>7, <1>8, <1>3
  <2> HIDE DEF t, n, e, s
  <2> QED
    BY <2>1, <2>3, <1>8
<1>11. Whole(Q)'
  <2>1. Nexts(w', first[Q], t)
    <3>1. \A k \in 1..Len(t) : w'[t[k]].next = w[t[k]].next
      <4> SUFFICES ASSUME NEW k \in 1..n+1 PROVE w'[t[k]].next = w[t[k]].next
        BY <1>8
      <4>1. CASE k = n+1
        BY <4>1, <1>3, <1>5, <1>8 DEF Nexts
      <4>2. CASE k \in 1..n
        BY <4>2, <1>1, <1>5, <1>6, <1>8
      <4> QED
        BY <4>1, <4>2, <1>3
    <3> HIDE DEF t
    <3> QED
      BY <3>1, <1>3, <1>8, LinksFrame
  <2>2. Previouses(w', e, t)
    <3>1. \A k \in 1..Len(t) : w'[t[k]].previous = w[t[k]].previous
      <4> SUFFICES ASSUME NEW k \in 1..n+1 PROVE w'[t[k]].previous = w[t[k]].previous
        BY <1>8
      <4>1. CASE k = n+1
        BY <4>1, <1>5, <1>8
      <4>2. CASE k \in 1..n
        BY <4>2, <1>1, <1>5, <1>6, <1>8
      <4> QED
        BY <4>1, <4>2, <1>3
    <3> HIDE DEF t, e
    <3> QED
      BY <3>1, <1>3, <1>8, LinksFrame
  <2>3. Counts(Q)'
    <3>1. count'[Q] = n + 1 /\ Len(line'[Q]) = n + 1
      BY <1>2, <1>3, <1>7 DEF Counts
    <3>2. ASSUME NEW k \in 1..n+1 PROVE w'[t[k]].count = k - 1
      <4>1. CASE k = n+1
        BY <4>1, <1>3, <1>5, <1>8 DEF Counts
      <4>2. CASE k \in 1..n
        BY <4>2, <1>1, <1>3, <1>5, <1>6, <1>8 DEF Counts
      <4> QED
        BY <4>1, <4>2, <1>3
    <3> QED
      BY <3>1, <3>2, <1>0, <1>10 DEF Counts
  <2> QED
    BY <2>1, <2>2, <2>3, <1>0, <1>3, <1>10 DEF Whole, Nexts, Previouses, At
<1>12. \A q \in Queue \ {Q} : Whole(q)'
  <2> SUFFICES ASSUME NEW q \in Queue \ {Q} PROVE Whole(q)'
    OBVIOUS
  <2>1. Whole(q)
    BY <1>1, WholeNow
  <2>2. \A k \in 1..Len(line[q]) : w'[Ents(q)[k]] = w[Ents(q)[k]]
    BY <1>5, <1>6
  <2> QED
    BY <2>1, <2>2, <1>0, <1>1, <1>2, WholeFrame DEF GInv, SInv
<1>13. Present'
  <2>1. pc'[Daemon] \notin {"kill", "unlink", "relink", "clear"}
    BY <1>1 DEF Alone, Actor, CallPCs
  <2>2. ASSUME NEW r \in Proc, pc'[r] \in {"loop", "unlink", "relink", "clear"}
        PROVE  \E k \in 1..Len(line'[wq'[r]]) : line'[wq'[r]][k] = r
    <3>1. CASE r = p
      BY <3>1, <1>0, <1>3, <1>7
    <3>2. CASE r # p
      <4>1. pc'[r] = pc[r] /\ wq[r] \in Queue
        BY <3>2, <2>2, <1>1 DEF Actor, GInv, TInv, QueueKnown
      <4>2. PICK k \in 1..Len(line[wq[r]]) : line[wq[r]][k] = r
        BY <4>1, <2>2 DEF GInv, SInv, Present
      <4>3. k \in 1..Len(line'[wq[r]]) /\ line'[wq[r]][k] = r
        BY <4>1, <4>2, <1>70
      <4> QED
        BY <4>3, <1>0
    <3> QED
      BY <3>1, <3>2
  <2> QED
    BY <2>1, <2>2 DEF Present
<1>14. Pool'
  <2>1. \A r \in Proc : Adding(r) => r = p
    BY <1>1 DEF Alone, Adding, CallPCs, Actor
  <2>2. ASSUME NEW q \in Queue, NEW i, Holds(q, i) PROVE Holds(q, i)'
    <3>1. PICK k \in 1..Len(line[q]) : mywait[line[q][k]] = i
      BY <2>2 DEF Holds
    <3>2. k \in 1..Len(line'[q]) /\ line'[q][k] = line[q][k]
      BY <1>70
    <3> QED
      BY <3>1, <3>2, <1>0 DEF Holds
  <2>3. Holds(Q, e)'
    BY <1>0, <1>3, <1>7 DEF Holds
  <2>4. \A i \in Entry \ {e} : w'[i] = w[i]
    BY <1>5
  <2>5. \E q \in Queue : \E k \in 1..Len(line'[q]) : mywait'[line'[q][k]] = e
    BY <2>3, <1>0, <1>1 DEF Holds
  <2> HIDE DEF e, Q
  <2>6. ASSUME NEW i \in Entry, i # e, w'[i].inuse PROVE \E q \in Queue : Holds(q, i)'
    <3>1. \E q \in Queue : Holds(q, i)
      BY <2>1, <2>4, <2>6 DEF GInv, SInv, Pool, e
    <3> QED
      BY <3>1, <2>2
  <2>7. ASSUME NEW i \in Entry, ~w'[i].inuse PROVE w'[i] = Unused
    <3>1. i # e
      BY <2>7, <1>5
    <3> QED
      BY <2>4, <2>7, <3>1 DEF GInv, SInv, Pool
  <2> QED
    BY <2>5, <2>6, <2>7 DEF Pool, Holds
<1>15. AddOKAt(p)'
  BY <1>2 DEF AddOKAt
<1>16. ExitOKAt(p)'
  BY <1>2 DEF ExitOKAt
<1>17. AdmittedOK'
  BY <1>0, <1>1, <1>2 DEF GInv, SInv, AdmittedOK, Actor, TInv, TypeOK
<1>18. \A q \in Queue : Whole(q)'
  BY <1>0, <1>11, <1>12
<1> QED
  BY <1>0, <1>1, <1>9, <1>13, <1>14, <1>15, <1>16, <1>17, <1>18, AloneInv DEF GInv, SInv

-----------------------------------------------------------------------------
(* queue_exit()                                                             *)

\* The entry that is removed is in its list, at one place.
LEMMA ExitFacts ==
  ASSUME GInv, NEW a \in Actor, pc[a] \in {"unlink", "relink", "clear"}
  PROVE  /\ wq[a] \in Queue /\ mywait[a] \in Entry
         /\ \E k \in 1..Len(line[wq[a]]) : Ents(wq[a])[k] = mywait[a]
         /\ w[mywait[a]].w_queue = wq[a]
         /\ w \in [Entry -> EntryType]
<1>1. wq[a] \in Queue
  BY Distinct DEF GInv, TInv, QueueKnown, Actor, CallPCs
<1>2. PICK k \in 1..Len(line[wq[a]]) : mywait[line[wq[a]][k]] = mywait[a]
  <2>1. CASE a \in Proc
    BY <2>1 DEF GInv, SInv, Present
  <2>2. CASE a = Daemon
    BY <2>2 DEF GInv, SInv, Present, Holds
  <2> QED
    BY <2>1, <2>2 DEF Actor
<1>3. Ents(wq[a])[k] = mywait[a]
  BY <1>2 DEF Ents
<1>4. Ents(wq[a])[k] \in Entry /\ w[Ents(wq[a])[k]].w_queue = wq[a]
  BY <1>1, EntAt DEF GInv, SInv
<1>5. w \in [Entry -> EntryType]
  BY DEF GInv, TInv, TypeOK, EntryType
<1> QED
  BY <1>1, <1>2, <1>3, <1>4, <1>5

\* The steps that write links only: every line stays as it is.
LEMMA UnlinkFrame ==
  ASSUME GInv, NEW a \in Actor, pc[a] \in {"unlink", "relink"},
         \E l \in {"relink", "clear"} : pc' = [pc EXCEPT ![a] = l],
         wq' = wq, mywait' = mywait, line' = line, next' = next, killcount' = killcount,
         admitted' = admitted, err' = err,
         \A i \in Entry : w'[i].inuse = w[i].inuse /\ w'[i].process = w[i].process /\ w'[i].w_queue = w[i].w_queue,
         \A i \in Entry : ~w[i].inuse => w'[i] = w[i],
         \A q \in Queue \ {wq[a]} : Whole(q)',
         ExitOKAt(a)'
  PROVE  SInv'
<1>1. \A b \in Actor \ {a} : pc'[b] = pc[b]
  BY DEF GInv, TInv, TypeOK
<1>2. pc'[a] \in {"relink", "clear"}
  BY DEF GInv, TInv, TypeOK
<1>3. Alone(a)
  BY <1>1, IsAlone DEF CallPCs
<1>4. LinesOK'
  BY <1>1, <1>2, LinesKeep
<1>5. \A q \in Queue : Ents(q)' = Ents(q) /\ \A i : Holds(q, i)' <=> Holds(q, i)
  BY DEF Ents, Holds
<1>6. wq[a] \in Queue
  BY ExitFacts
<1>7. Present'
  <2>1. ASSUME NEW r \in Proc, pc'[r] \in {"loop", "unlink", "relink", "clear"}
        PROVE  pc[r] \in {"loop", "unlink", "relink", "clear"}
    BY <1>1, <2>1 DEF Actor
  <2>2. pc'[Daemon] \in {"kill", "unlink", "relink", "clear"} =>
          pc[Daemon] \in {"kill", "unlink", "relink", "clear"} /\ wq[Daemon] \in Queue
    <3>1. CASE a = Daemon
      BY <3>1, <1>6
    <3>2. CASE a # Daemon
      <4>1. pc[Daemon] \notin CallPCs /\ pc'[Daemon] = pc[Daemon]
        BY <3>2, <1>3 DEF Alone, Actor
      <4> QED
        BY <4>1 DEF CallPCs
    <3> QED
      BY <3>1, <3>2
  <2> QED
    BY <2>1, <2>2, <1>5 DEF GInv, SInv, Present
<1>8. Pool'
  <2>1. \A r \in Proc : ~Adding(r)
    BY <1>3 DEF Adding, Alone, CallPCs, Actor
  <2> QED
    BY <1>5, <2>1 DEF GInv, SInv, Pool
<1>9. a \in Proc => AddOKAt(a)'
  BY <1>2 DEF AddOKAt
<1>10. a = Daemon => PurgeOK'
  <2> SUFFICES ASSUME a = Daemon PROVE PurgeOK'
    OBVIOUS
  <2>1. ToVisit' = ToVisit
    BY <1>5, <1>6 DEF ToVisit
  <2> QED
    BY <2>1, <1>2, <1>5, <1>6 DEF GInv, SInv, PurgeOK
<1>11. AdmittedOK'
  BY <1>1, <1>2 DEF GInv, SInv, AdmittedOK, Actor, TInv, TypeOK
<1>12. \A q \in Queue : ~(wq'[a] = q /\ pc'[a] \in AtWork) => Whole(q)'
  BY <1>2 DEF AtWork
<1> QED
  BY <1>3, <1>4, <1>7, <1>8, <1>9, <1>10, <1>11, <1>12, AloneInv DEF GInv, SInv

\* queue_exit(), first store: the entry is unlinked from its predecessor.
LEMMA ExitPreviousSerial ==
  ASSUME GInv, NEW a \in Actor, ExitPrevious(a)
  PROVE  SInv'
<1> DEFINE Q == wq[a]
           e == mywait[a]
           s == Ents(Q)
           n == Len(line[Q])
           t == Fifo!Without(s, e)
<1>1. Q \in Queue /\ e \in Entry /\ w[e].w_queue = Q /\ w \in [Entry -> EntryType] /\ pc[a] = "unlink"
  BY ExitFacts DEF ExitPrevious
<1>2. PICK k \in 1..n : s[k] = e
  BY ExitFacts DEF ExitPrevious
<1>3. /\ wq' = wq /\ pc' = [pc EXCEPT ![a] = "relink"] /\ err' = err
      /\ UNCHANGED <<last, count, room, mywait, next, killcount, line, admitted>>
      /\ IF w[e].previous = -1
         THEN first' = [first EXCEPT ![Q] = w[e].next] /\ w' = w
         ELSE w' = [w EXCEPT ![w[e].previous].next = w[e].next] /\ first' = first
  <2>1. wq' = [wq EXCEPT ![a] = Q] /\ w[e].w_queue \in Queue
    BY <1>1 DEF ExitPrevious
  <2>2. wq' = wq
    BY <2>1 DEF GInv, TInv, TypeOK
  <2> QED
    BY <1>1, <2>1, <2>2 DEF ExitPrevious, Goto
<1>4. pc'[a] = "relink"
  BY <1>3 DEF GInv, TInv, TypeOK
<1>5. Alone(a)
  BY <1>1, <1>3, IsAlone DEF CallPCs, GInv, TInv, TypeOK
<1>6. /\ s \in Seq(Entry) /\ Len(s) = n /\ n \in Nat /\ Injective(s)
      /\ Nexts(w, first[Q], s) /\ Previouses(w, last[Q], s) /\ Counts(Q)
  <2>1. Whole(Q)
    BY <1>1, <1>5, WholeNow DEF AtWork
  <2> QED
    BY <2>1, <1>1, EntsSeq DEF Whole, GInv, SInv
<1>7. w[e].previous = At(s, k-1) /\ w[e].next = At(s, k+1)
  BY <1>2, <1>6 DEF Nexts, Previouses
<1>8. k # 1 => At(s, k-1) = s[k-1] /\ s[k-1] \in Entry /\ s[k-1] # -1 /\ s[k-1] # e /\ k-1 \in 1..n
  <2> SUFFICES ASSUME k # 1 PROVE At(s, k-1) = s[k-1] /\ s[k-1] \in Entry /\ s[k-1] # -1 /\ s[k-1] # e /\ k-1 \in 1..n
    OBVIOUS
  <2>1. k-1 \in 1..n
    BY <1>6
  <2>2. At(s, k-1) = s[k-1] /\ s[k-1] \in Entry
    BY <2>1, <1>6 DEF At
  <2>3. s[k-1] # -1
    BY <2>2, WaitQueueAssumption DEF Entry
  <2>4. s[k-1] # e
    BY <2>1, <1>2, <1>6 DEF Injective
  <2> QED
    BY <2>1, <2>2, <2>3, <2>4
<1>9. k = 1 => At(s, k-1) = -1
  BY DEF At
<1>10. \/ k = 1 /\ first' = [first EXCEPT ![Q] = w[e].next] /\ w' = w
       \/ k # 1 /\ w' = [w EXCEPT ![s[k-1]].next = w[e].next] /\ first' = first
  <2> HIDE DEF e, s, Q
  <2> QED
    BY <1>3, <1>7, <1>8, <1>9
<1>11. /\ \A i \in Entry : k = 1 \/ i # s[k-1] => w'[i] = w[i]
       /\ \A i \in Entry : /\ w'[i].inuse = w[i].inuse /\ w'[i].process = w[i].process
                           /\ w'[i].w_queue = w[i].w_queue /\ w'[i].count = w[i].count
                           /\ w'[i].previous = w[i].previous
  <2>1. CASE k = 1
    BY <2>1, <1>10
  <2>2. CASE k # 1
    <3> DEFINE i == s[k-1]
               v == w[e].next
    <3>1. i \in Entry /\ w' = [w EXCEPT ![i].next = v]
      BY <2>2, <1>8, <1>10
    <3> HIDE DEF i, v
    <3>2. /\ \A j \in Entry \ {i} : w'[j] = w[j]
          /\ \A j \in Entry : /\ w'[j].inuse = w[j].inuse /\ w'[j].process = w[j].process
                              /\ w'[j].w_queue = w[j].w_queue /\ w'[j].count = w[j].count
                              /\ w'[j].previous = w[j].previous
      BY <3>1, <1>1, StoreLink
    <3> QED
      BY <2>2, <3>2 DEF i
  <2> QED
    BY <2>1, <2>2
<1>12. \A i \in Entry : ~w[i].inuse => w'[i] = w[i]
  <2> SUFFICES ASSUME k # 1 PROVE w[s[k-1]].inuse = TRUE
    BY <1>11
  <2> QED
    BY <1>1, <1>8, EntAt DEF GInv, SInv
<1>13. \A q \in Queue \ {Q} : Whole(q)'
  <2> SUFFICES ASSUME NEW q \in Queue \ {Q} PROVE Whole(q)'
    OBVIOUS
  <2>1. Whole(q)
    BY <1>5, WholeNow
  <2>2. first'[q] = first[q]
    <3>1. first \in [Queue -> Link]
      BY DEF GInv, TInv, TypeOK
    <3> HIDE DEF Q, e
    <3> QED
      BY <1>10, <3>1
  <2>3. ASSUME NEW j \in 1..Len(line[q]) PROVE w'[Ents(q)[j]] = w[Ents(q)[j]]
    <3>1. k # 1 => Ents(q)[j] # s[k-1]
      BY <1>1, <1>8, EntsDisjoint DEF GInv, SInv
    <3>2. Ents(q)[j] \in Entry
      BY EntAt DEF GInv, SInv
    <3> QED
      BY <3>1, <3>2, <1>11
  <2> QED
    BY <2>1, <2>2, <2>3, <1>3, WholeFrame DEF GInv, SInv
<1>14. ExitOKAt(a)'
  <2>1. Nexts(w', first'[Q], t)
    <3>1. CASE k = 1
      <4>1. first'[Q] = w[e].next
        BY <3>1, <1>1, <1>10 DEF GInv, TInv, TypeOK
      <4>2. Nexts(w, w[s[k]].next, Fifo!Without(s, s[k]))
        <5> HIDE DEF s
        <5> QED
          BY <3>1, <1>1, <1>6, RemoveNext
      <4> QED
        BY <3>1, <4>1, <4>2, <1>2, <1>10
    <3>2. CASE k # 1
      <4>1. Nexts([w EXCEPT ![s[k-1]].next = w[s[k]].next], first[Q], Fifo!Without(s, s[k]))
        <5> HIDE DEF s
        <5> QED
          BY <3>2, <1>1, <1>6, RemoveNext
      <4> QED
        BY <3>2, <4>1, <1>2, <1>10
    <3> QED
      BY <3>1, <3>2
  <2>2. Previouses(w', last[Q], s)
    <3> HIDE DEF s
    <3> QED
      BY <1>6, <1>11, LinksFrame
  <2>3. Ents(Q)' = s /\ wq'[a] = Q /\ mywait'[a] = e /\ last'[Q] = last[Q]
    BY <1>3 DEF Ents
  <2>4. Counts(Q)'
    BY <1>3, <1>6, <1>11, <2>3 DEF Counts
  <2>5. \A j \in 1..Len(s) : s[j] = e => w'[s[j]].next = At(s, j+1)
    <3>1. w'[e] = w[e]
      BY <1>1, <1>8, <1>11
    <3> QED
      BY <3>1, <1>6 DEF Nexts
  <2>6. Nexts(w, first[wq[a]], Fifo!Without(Ents(wq[a]), mywait[a]))'
    <3>1. Fifo!Without(Ents(wq[a]), mywait[a])' = t
      BY <2>3 DEF Fifo!Without
    <3> HIDE DEF t
    <3> QED
      BY <2>1, <2>3, <3>1 DEF Nexts, At
  <2>7. Previouses(w, last[wq[a]], Ents(wq[a]))'
    BY <2>2, <2>3 DEF Previouses, At
  <2>8. (\A j \in 1..Len(Ents(wq[a])) : Ents(wq[a])[j] = mywait[a] => w[Ents(wq[a])[j]].next = At(Ents(wq[a]), j+1))'
    BY <2>5, <2>3 DEF At
  <2> QED
    BY <1>4, <2>4, <2>6, <2>7, <2>8 DEF ExitOKAt
<1> QED
  BY <1>1, <1>3, <1>11, <1>12, <1>13, <1>14, UnlinkFrame

\* queue_exit(), second store: the entry is unlinked from its successor.
LEMMA ExitNextSerial ==
  ASSUME GInv, NEW a \in Actor, ExitNext(a)
  PROVE  SInv'
<1> DEFINE Q == wq[a]
           e == mywait[a]
           s == Ents(Q)
           n == Len(line[Q])
           t == Fifo!Without(s, e)
<1>1. Q \in Queue /\ e \in Entry /\ w \in [Entry -> EntryType] /\ pc[a] = "relink"
  BY ExitFacts DEF ExitNext
<1>2. PICK k \in 1..n : s[k] = e
  BY ExitFacts DEF ExitNext
<1>3. /\ wq' = wq /\ pc' = [pc EXCEPT ![a] = "clear"] /\ err' = err
      /\ UNCHANGED <<first, count, room, mywait, next, killcount, line, admitted>>
      /\ IF w[e].next = -1
         THEN last' = [last EXCEPT ![Q] = w[e].previous] /\ w' = w
         ELSE w' = [w EXCEPT ![w[e].next].previous = w[e].previous] /\ last' = last
  BY DEF ExitNext, Goto, purgeVars
<1>4. pc'[a] = "clear"
  BY <1>3 DEF GInv, TInv, TypeOK
<1>5. Alone(a)
  BY <1>1, <1>3, IsAlone DEF CallPCs, GInv, TInv, TypeOK
<1>6. /\ s \in Seq(Entry) /\ Len(s) = n /\ n \in Nat /\ Injective(s)
      /\ Nexts(w, first[Q], t) /\ Previouses(w, last[Q], s) /\ Counts(Q)
      /\ w[e].next = At(s, k+1)
  <2>1. s \in Seq(Entry) /\ Len(s) = n /\ n \in Nat /\ Injective(s)
    BY <1>1, EntsSeq DEF GInv, SInv
  <2>2. ExitOKAt(a)
    BY DEF GInv, SInv, ExitOK
  <2>3. \A j \in 1..Len(s) : s[j] = e => w[s[j]].next = At(s, j+1)
    BY <2>2, <1>1 DEF ExitOKAt
  <2> QED
    BY <2>1, <2>2, <2>3, <1>1, <1>2 DEF ExitOKAt
<1>7. w[e].previous = At(s, k-1)
  BY <1>2, <1>6 DEF Previouses
<1>8. k # n => At(s, k+1) = s[k+1] /\ s[k+1] \in Entry /\ s[k+1] # -1 /\ s[k+1] # e /\ k+1 \in 1..n
  <2> SUFFICES ASSUME k # n PROVE At(s, k+1) = s[k+1] /\ s[k+1] \in Entry /\ s[k+1] # -1 /\ s[k+1] # e /\ k+1 \in 1..n
    OBVIOUS
  <2>1. k+1 \in 1..n
    BY <1>6
  <2>2. At(s, k+1) = s[k+1] /\ s[k+1] \in Entry
    BY <2>1, <1>6 DEF At
  <2>3. s[k+1] # -1
    BY <2>2, WaitQueueAssumption DEF Entry
  <2>4. s[k+1] # e
    BY <2>1, <1>2, <1>6 DEF Injective
  <2> QED
    BY <2>1, <2>2, <2>3, <2>4
<1>9. k = n => At(s, k+1) = -1
  BY <1>6 DEF At
<1>10. \/ k = n /\ last' = [last EXCEPT ![Q] = w[e].previous] /\ w' = w
       \/ k # n /\ w' = [w EXCEPT ![s[k+1]].previous = w[e].previous] /\ last' = last
  <2> HIDE DEF e, s, Q, n
  <2> QED
    BY <1>3, <1>6, <1>8, <1>9
<1>11. /\ \A i \in Entry : k = n \/ i # s[k+1] => w'[i] = w[i]
       /\ \A i \in Entry : /\ w'[i].inuse = w[i].inuse /\ w'[i].process = w[i].process
                           /\ w'[i].w_queue = w[i].w_queue /\ w'[i].count = w[i].count
                           /\ w'[i].next = w[i].next
  <2>1. CASE k = n
    BY <2>1, <1>10
  <2>2. CASE k # n
    <3> DEFINE i == s[k+1]
               v == w[e].previous
    <3>1. i \in Entry /\ w' = [w EXCEPT ![i].previous = v]
      BY <2>2, <1>8, <1>10
    <3> HIDE DEF i, v
    <3>2. /\ \A j \in Entry \ {i} : w'[j] = w[j]
          /\ \A j \in Entry : /\ w'[j].inuse = w[j].inuse /\ w'[j].process = w[j].process
                              /\ w'[j].w_queue = w[j].w_queue /\ w'[j].count = w[j].count
                              /\ w'[j].next = w[j].next
      BY <3>1, <1>1, StoreLink
    <3> QED
      BY <2>2, <3>2 DEF i
  <2> QED
    BY <2>1, <2>2
<1>12. \A i \in Entry : ~w[i].inuse => w'[i] = w[i]
  <2> SUFFICES ASSUME k # n PROVE w[s[k+1]].inuse = TRUE
    BY <1>11
  <2> QED
    BY <1>1, <1>8, EntAt DEF GInv, SInv
<1>13. \A q \in Queue \ {Q} : Whole(q)'
  <2> SUFFICES ASSUME NEW q \in Queue \ {Q} PROVE Whole(q)'
    OBVIOUS
  <2>1. Whole(q)
    BY <1>5, WholeNow
  <2>2. last'[q] = last[q]
    <3>1. last \in [Queue -> Link]
      BY DEF GInv, TInv, TypeOK
    <3> HIDE DEF Q, e
    <3> QED
      BY <1>10, <3>1
  <2>3. ASSUME NEW j \in 1..Len(line[q]) PROVE w'[Ents(q)[j]] = w[Ents(q)[j]]
    <3>1. k # n => Ents(q)[j] # s[k+1]
      BY <1>1, <1>8, EntsDisjoint DEF GInv, SInv
    <3>2. Ents(q)[j] \in Entry
      BY EntAt DEF GInv, SInv
    <3> QED
      BY <3>1, <3>2, <1>11
  <2> QED
    BY <2>1, <2>2, <2>3, <1>3, WholeFrame DEF GInv, SInv
<1>14. ExitOKAt(a)'
  <2>1. Previouses(w', last'[Q], t)
    <3>1. CASE k = n
      <4>1. last'[Q] = w[e].previous
        BY <3>1, <1>1, <1>10 DEF GInv, TInv, TypeOK
      <4>2. Previouses(w, w[s[k]].previous, Fifo!Without(s, s[k]))
        <5> HIDE DEF s
        <5> QED
          BY <3>1, <1>1, <1>6, RemovePrevious
      <4> QED
        BY <3>1, <4>1, <4>2, <1>2, <1>10
    <3>2. CASE k # n
      <4>1. Previouses([w EXCEPT ![s[k+1]].previous = w[s[k]].previous], last[Q], Fifo!Without(s, s[k]))
        <5> HIDE DEF s
        <5> QED
          BY <3>2, <1>1, <1>6, RemovePrevious
      <4> QED
        BY <3>2, <4>1, <1>2, <1>10
    <3> QED
      BY <3>1, <3>2
  <2>2. Nexts(w', first[Q], t)
    <3>1. t \in Seq(Entry)
      <4> HIDE DEF s
      <4> QED
        BY <1>2, <1>6, WithoutAt
    <3>2. Nexts(w, first[Q], t)
      BY <1>6
    <3> HIDE DEF t, s, Q, e
    <3>3. \A j \in 1..Len(t) : w'[t[j]].next = w[t[j]].next
      BY <3>1, <1>11
    <3> QED
      BY <3>1, <3>2, <3>3, LinksFrame
  <2>3. Ents(Q)' = s /\ wq'[a] = Q /\ mywait'[a] = e /\ first'[Q] = first[Q]
    BY <1>3 DEF Ents
  <2>4. Counts(Q)'
    BY <1>3, <1>6, <1>11, <2>3 DEF Counts
  <2>5. Fifo!Without(Ents(wq[a]), mywait[a])' = t
    BY <2>3 DEF Fifo!Without
  <2>6. Nexts(w, first[wq[a]], Fifo!Without(Ents(wq[a]), mywait[a]))'
    <3> HIDE DEF t
    <3> QED
      BY <2>2, <2>3, <2>5 DEF Nexts, At
  <2>7. Previouses(w, last[wq[a]], Fifo!Without(Ents(wq[a]), mywait[a]))'
    <3> HIDE DEF t
    <3> QED
      BY <2>1, <2>3, <2>5 DEF Previouses, At
  <2> QED
    BY <1>4, <2>3, <2>4, <2>6, <2>7 DEF ExitOKAt
<1> QED
  BY <1>1, <1>3, <1>11, <1>12, <1>13, <1>14, UnlinkFrame

\* A line without the process of its k-th entry.
LEMMA ShorterLine ==
  ASSUME LinesOK, NEW q \in Queue, NEW k \in 1..Len(line[q])
  PROVE  LET m == Fifo!Without(line[q], line[q][k])
             t == Fifo!Without(Ents(q), Ents(q)[k])
             at(j) == IF j < k THEN j ELSE j + 1
         IN  /\ m \in Seq(Proc) /\ Len(m) = Len(line[q]) - 1
             /\ \A j \in 1..Len(m) : at(j) \in 1..Len(line[q]) /\ at(j) # k /\ m[j] = line[q][at(j)]
             /\ t = [j \in 1..Len(m) |-> mywait[m[j]]]
             /\ t \in Seq(Entry) /\ Len(t) = Len(m)
             /\ \A j \in 1..Len(m) : t[j] = Ents(q)[at(j)]
<1> DEFINE l == line[q]
           s == Ents(q)
           m == Fifo!Without(l, l[k])
           t == Fifo!Without(s, s[k])
           at(j) == IF j < k THEN j ELSE j + 1
<1>1. /\ l \in Seq(Proc) /\ Injective(l) /\ k \in 1..Len(l)
      /\ s \in Seq(Entry) /\ Injective(s) /\ Len(s) = Len(l)
      /\ \A i \in 1..Len(l) : s[i] = mywait[l[i]]
  <2>1. Injective(l)
    BY DEF LinesOK, Injective
  <2>2. \A i \in 1..Len(l) : s[i] = mywait[l[i]]
    BY DEF Ents
  <2> QED
    BY <2>1, <2>2, EntsSeq
<1> HIDE DEF l, s
<1>2. /\ m \in Seq(Proc) /\ Len(m) = Len(l) - 1
      /\ \A j \in 1..Len(m) : m[j] = IF j < k THEN l[j] ELSE l[j+1]
  BY <1>1, WithoutAt
<1>3. /\ t \in Seq(Entry) /\ Len(t) = Len(s) - 1
      /\ \A j \in 1..Len(t) : t[j] = IF j < k THEN s[j] ELSE s[j+1]
  BY <1>1, WithoutAt
<1> HIDE DEF m, t
<1>4. \A j \in 1..Len(m) : at(j) \in 1..Len(l) /\ at(j) # k /\ m[j] = l[at(j)] /\ t[j] = s[at(j)]
  BY <1>1, <1>2, <1>3
<1>5. t = [j \in 1..Len(m) |-> mywait[m[j]]]
  <2>1. t = [j \in 1..Len(m) |-> t[j]]
    BY <1>1, <1>2, <1>3
  <2>2. \A j \in 1..Len(m) : t[j] = mywait[m[j]]
    BY <1>1, <1>4
  <2> QED
    BY <2>1, <2>2
<1>6. Len(t) = Len(m)
  BY <1>1, <1>2, <1>3
<1> QED
  BY <1>2, <1>3, <1>4, <1>5, <1>6 DEF l, s, m, t

\* queue_exit(), third store: the entry is cleared, and its process leaves
\* the line.
LEMMA ExitClearSerial ==
  ASSUME GInv, NEW a \in Actor, ExitClear(a)
  PROVE  SInv'
<1> DEFINE Q == wq[a]
           e == mywait[a]
           s == Ents(Q)
           n == Len(line[Q])
           t == Fifo!Without(s, e)
<1>1. Q \in Queue /\ e \in Entry /\ w \in [Entry -> EntryType] /\ pc[a] = "clear" /\ LinesOK /\ Daemon \in Actor
  BY ExitFacts DEF ExitClear, GInv, SInv, Actor
<1>2. PICK k \in 1..n : s[k] = e
  BY ExitFacts DEF ExitClear
<1> DEFINE m == Fifo!Without(line[Q], line[Q][k])
           at(j) == IF j < k THEN j ELSE j + 1
<1>3. /\ wq' = wq /\ mywait' = mywait /\ pc' = [pc EXCEPT ![a] = "update"] /\ err' = err
      /\ UNCHANGED <<first, last, count, room, next, killcount, admitted>>
      /\ w' = [w EXCEPT ![e] = Unused]
      /\ line' = [line EXCEPT ![Q] = m]
  <2>1. w[Ents(Q)[k]].process = line[Q][k]
    BY <1>1, EntAt
  <2>2. w[e].process = line[Q][k]
    BY <1>2, <2>1
  <2> QED
    BY <2>2 DEF ExitClear, Goto, purgeVars
<1>4. pc'[a] = "update" /\ \A b \in Actor \ {a} : pc'[b] = pc[b]
  BY <1>3 DEF GInv, TInv, TypeOK
<1>5. Alone(a)
  BY <1>1, <1>3, <1>4, IsAlone DEF CallPCs
<1>6. /\ m \in Seq(Proc) /\ Len(m) = n - 1
      /\ \A j \in 1..Len(m) : at(j) \in 1..n /\ at(j) # k /\ m[j] = line[Q][at(j)] /\ t[j] = s[at(j)]
      /\ t = [j \in 1..Len(m) |-> mywait[m[j]]]
      /\ t \in Seq(Entry) /\ Len(t) = Len(m)
  <2>1. n \in Nat /\ Len(s) = n /\ s[k] = e /\ k \in 1..n
    BY <1>1, <1>2, EntsSeq
  <2>2. t = Fifo!Without(Ents(Q), Ents(Q)[k])
    BY <1>2
  <2>3. /\ m \in Seq(Proc) /\ Len(m) = n - 1
        /\ \A j \in 1..Len(m) : at(j) \in 1..n /\ at(j) # k /\ m[j] = line[Q][at(j)]
        /\ t = [j \in 1..Len(m) |-> mywait[m[j]]]
        /\ t \in Seq(Entry) /\ Len(t) = Len(m)
        /\ \A j \in 1..Len(m) : t[j] = s[at(j)]
    <3> DEFINE u == Fifo!Without(Ents(Q), Ents(Q)[k])
    <3>1. /\ m \in Seq(Proc) /\ Len(m) = Len(line[Q]) - 1
          /\ \A j \in 1..Len(m) : at(j) \in 1..Len(line[Q]) /\ at(j) # k /\ m[j] = line[Q][at(j)]
          /\ u = [j \in 1..Len(m) |-> mywait[m[j]]]
          /\ u \in Seq(Entry) /\ Len(u) = Len(m)
          /\ \A j \in 1..Len(m) : u[j] = Ents(Q)[at(j)]
      <4> HIDE DEF Q
      <4> QED
        BY <1>1, ShorterLine
    <3>2. t = u
      BY <2>2
    <3> HIDE DEF t, u, m, at
    <3> QED
      BY <3>1, <3>2
  <2> HIDE DEF t, m, s, at
  <2> QED
    BY <2>1, <2>3
<1> HIDE DEF m, t
<1>7. line'[Q] = m /\ (\A q \in Queue \ {Q} : line'[q] = line[q]) /\ line' \in [Queue -> Seq(Proc)]
  BY <1>1, <1>3, <1>6 DEF LinesOK
<1>8. w'[e] = Unused /\ \A i \in Entry \ {e} : w'[i] = w[i]
  BY <1>1, <1>3
<1>9. Injective(s) /\ Len(s) = n /\ n \in Nat
  BY <1>1, EntsSeq
<1>10. ASSUME NEW q \in Queue, NEW i \in 1..Len(line[q]), ~(q = Q /\ i = k)
       PROVE  Ents(q)[i] # e /\ Ents(q)[i] \in Entry /\ mywait[line[q][i]] = Ents(q)[i] /\ line[q][i] \in Proc
  <2>1. Ents(q)[i] # e
    BY <1>1, <1>2, <1>10, EntsDisjoint
  <2>2. Ents(q)[i] = mywait[line[q][i]]
    BY DEF Ents
  <2>3. line[q][i] \in Proc /\ Ents(q)[i] \in Entry
    BY <1>1, EntAt
  <2> QED
    BY <2>1, <2>2, <2>3
<1>11. ASSUME NEW q \in Queue, NEW i \in 1..Len(line[q]), ~(q = Q /\ i = k), NEW r \in Proc, r = line[q][i]
       PROVE  InLine(r, q)'
  <2>1. mywait[r] # e /\ mywait[r] \in Entry /\ r # a /\ r \in Actor
    BY <1>10, <1>11 DEF Actor
  <2>2. InLine(r, q)
    BY <1>1, <1>11 DEF LinesOK
  <2>3. pc'[r] = pc[r] /\ wq'[r] = wq[r] /\ mywait'[r] = mywait[r] /\ w'[mywait[r]] = w[mywait[r]]
    BY <2>1, <1>3, <1>4, <1>8
  <2> QED
    BY <2>2, <2>3 DEF InLine
<1>12. \A q \in Queue : \A j \in 1..Len(line'[q]) :
         \E i \in 1..Len(line[q]) : line'[q][j] = line[q][i] /\ ~(q = Q /\ i = k)
  <2> SUFFICES ASSUME NEW q \in Queue, NEW j \in 1..Len(line'[q])
               PROVE  \E i \in 1..Len(line[q]) : line'[q][j] = line[q][i] /\ ~(q = Q /\ i = k)
    OBVIOUS
  <2>1. CASE q = Q
    <3>1. j \in 1..Len(m) /\ line'[q][j] = m[j]
      BY <2>1, <1>7
    <3> QED
      BY <3>1, <2>1, <1>6
  <2>2. CASE q # Q
    BY <2>2, <1>7
  <2> QED
    BY <2>1, <2>2
<1>13. LinesOK'
  <2>1. ASSUME NEW q \in Queue, NEW j \in 1..Len(line'[q]) PROVE InLine(line[q][j], q)'
    <3>1. PICK i \in 1..Len(line[q]) : line'[q][j] = line[q][i] /\ ~(q = Q /\ i = k)
      BY <1>12
    <3>2. line[q][i] \in Proc
      BY <3>1, <1>10
    <3>3. \A r \in Proc : r = line[q][i] => InLine(r, q)'
      BY <3>1, <1>11
    <3> QED
      BY <3>1, <3>2, <3>3 DEF InLine
  <2>2. ASSUME NEW q \in Queue, NEW i \in 1..Len(line'[q]), NEW j \in 1..Len(line'[q]), line'[q][i] = line'[q][j]
        PROVE  i = j
    <3>1. CASE q = Q
      <4>1. i \in 1..Len(m) /\ j \in 1..Len(m) /\ m[i] = m[j]
        BY <2>2, <3>1, <1>7
      <4>2. at(i) \in 1..n /\ at(j) \in 1..n /\ line[Q][at(i)] = line[Q][at(j)]
        BY <4>1, <1>6
      <4>3. at(i) = at(j)
        <5> HIDE DEF at
        <5> QED
          BY <4>2, <1>1 DEF LinesOK
      <4> QED
        BY <4>1, <4>3, <1>6, <1>9
    <3>2. CASE q # Q
      BY <2>2, <3>2, <1>1, <1>7 DEF LinesOK
    <3> QED
      BY <3>1, <3>2
  <2> QED
    BY <1>7, <2>1, <2>2 DEF LinesOK
<1>14. Ents(Q)' = t /\ \A q \in Queue \ {Q} : Ents(q)' = Ents(q)
  BY <1>3, <1>6, <1>7 DEF Ents
<1>15. ASSUME NEW q \in Queue, NEW h \in 1..Len(line[q]), mywait[line[q][h]] # e
       PROVE  \E j \in 1..Len(line'[q]) : line'[q][j] = line[q][h]
  <2>1. CASE q = Q
    <3>1. h # k
      BY <1>15, <2>1, <1>2 DEF Ents
    <3> DEFINE j == IF h < k THEN h ELSE h - 1
    <3>2. j \in 1..Len(m) /\ at(j) = h
      BY <2>1, <3>1, <1>6, <1>9
    <3>3. m[j] = line[Q][h]
      BY <3>2, <1>6
    <3> HIDE DEF j, at
    <3> QED
      BY <2>1, <3>2, <3>3, <1>7
  <2>2. CASE q # Q
    BY <2>2, <1>7
  <2> QED
    BY <2>1, <2>2
<1>16. \A q \in Queue : \A i : Holds(q, i)' <=> Holds(q, i) /\ i # e
  <2> SUFFICES ASSUME NEW q \in Queue, NEW i PROVE Holds(q, i)' <=> Holds(q, i) /\ i # e
    OBVIOUS
  <2>1. ASSUME NEW j \in 1..Len(line'[q]), mywait[line'[q][j]] = i PROVE Holds(q, i) /\ i # e
    <3>1. PICK h \in 1..Len(line[q]) : line'[q][j] = line[q][h] /\ ~(q = Q /\ h = k)
      BY <1>12
    <3>2. mywait[line[q][h]] # e
      BY <3>1, <1>10
    <3> QED
      BY <2>1, <3>1, <3>2 DEF Holds
  <2> QED
    BY <2>1, <1>3, <1>15 DEF Holds
<1>17. Present'
  <2>1. ASSUME NEW r \in Proc, pc'[r] \in {"loop", "unlink", "relink", "clear"}
        PROVE  \E j \in 1..Len(line'[wq'[r]]) : line'[wq'[r]][j] = r
    <3>1. r # a /\ r \in Actor
      BY <2>1, <1>4 DEF Actor
    <3>2. pc[r] = "loop"
      BY <2>1, <3>1, <1>4, <1>5 DEF Alone, CallPCs
    <3>3. PICK i \in 1..Len(line[wq[r]]) : line[wq[r]][i] = r
      BY <3>2 DEF GInv, SInv, Present
    <3>4. mywait[r] # e
      <4>1. w[mywait[r]].process = r
        BY <3>2 DEF GInv, QInv, Kept
      <4>2. CASE a \in Proc
        BY <4>2, <3>1, <3>2, <1>1 DEF GInv, QInv, Exclusive, UsesEntry
      <4>3. CASE a = Daemon
        <5>1. pc[w[e].process] = "gone"
          BY <4>3, <1>1 DEF GInv, QInv, PurgesDead
        <5> QED
          BY <5>1, <4>1, <3>2
      <4> QED
        BY <4>2, <4>3 DEF Actor
    <3>5. wq[r] \in Queue
      BY <3>2 DEF GInv, TInv, QueueKnown
    <3> QED
      BY <3>3, <3>4, <3>5, <1>3, <1>15
  <2>2. pc'[Daemon] \notin {"kill", "unlink", "relink", "clear"}
    BY <1>1, <1>4, <1>5 DEF Alone, CallPCs
  <2> QED
    BY <2>1, <2>2 DEF Present
<1>18. Pool'
  <2>1. \A r \in Proc : ~Adding(r)
    BY <1>1, <1>5 DEF Adding, Alone, CallPCs, Actor
  <2> SUFFICES ASSUME NEW i \in Entry
               PROVE  IF w'[i].inuse THEN \E q \in Queue : Holds(q, i)' ELSE w'[i] = Unused
    BY DEF Pool
  <2>2. CASE i = e
    BY <2>2, <1>8 DEF Unused
  <2>3. CASE i # e
    BY <2>1, <2>3, <1>8, <1>16 DEF GInv, SInv, Pool
  <2> QED
    BY <2>2, <2>3
<1>19. \A q \in Queue : ~(wq'[a] = q /\ pc'[a] \in AtWork) => Whole(q)'
  <2> SUFFICES ASSUME NEW q \in Queue \ {Q} PROVE Whole(q)'
    BY <1>3, <1>4 DEF AtWork
  <2>1. Whole(q)
    BY <1>5, WholeNow
  <2>2. \A j \in 1..Len(line[q]) : w'[Ents(q)[j]] = w[Ents(q)[j]]
    BY <1>8, <1>10
  <2> QED
    BY <2>1, <2>2, <1>1, <1>3, <1>7, WholeFrame
<1>20. ExitOKAt(a)'
  <2>1. Nexts(w, first[Q], t) /\ Previouses(w, last[Q], t)
    BY <1>1 DEF GInv, SInv, ExitOK, ExitOKAt, t
  <2>2. \A j \in 1..Len(t) : t[j] \in Entry /\ t[j] # e
    <3> SUFFICES ASSUME NEW j \in 1..Len(t) PROVE t[j] \in Entry /\ t[j] # e
      OBVIOUS
    <3>1. at(j) \in 1..n /\ at(j) # k /\ t[j] = s[at(j)]
      BY <1>6
    <3> HIDE DEF at, t
    <3> QED
      BY <3>1, <1>1, <1>10
  <2>3. Nexts(w', first[Q], t) /\ Previouses(w', last[Q], t)
    <3>1. \A j \in 1..Len(t) : w'[t[j]] = w[t[j]]
      BY <2>2, <1>8
    <3> HIDE DEF Q
    <3> QED
      BY <2>1, <3>1, <1>6, LinksFrame
  <2>4. Nexts(w, first[wq[a]], Ents(wq[a]))' /\ Previouses(w, last[wq[a]], Ents(wq[a]))'
    BY <2>3, <1>3, <1>14 DEF Nexts, Previouses, At
  <2> QED
    BY <2>4, <1>4 DEF ExitOKAt
<1>21. a = Daemon => PurgeOK'
  <2> SUFFICES ASSUME a = Daemon PROVE PurgeOK'
    OBVIOUS
  <2>1. /\ next # -1 => Holds(Q, next)
        /\ next # e
        /\ killcount <= Cardinality(Entry \ ToVisit)
    BY <1>1 DEF GInv, SInv, PurgeOK
  <2>2. ToVisit' \subseteq ToVisit
    <3> SUFFICES ASSUME NEW i \in Entry, i \in ToVisit' PROVE i \in ToVisit
      BY DEF ToVisit
    <3>1. CASE \E r \in Queue : r > Q /\ Holds(r, i)'
      BY <3>1, <1>16 DEF ToVisit
    <3>2. CASE \E h, j \in 1..Len(line'[Q]) : h <= j /\ t[h] = next /\ t[j] = i
      <4>1. PICK h \in 1..Len(m), j \in 1..Len(m) : h <= j /\ t[h] = next /\ t[j] = i
        BY <3>2, <1>7
      <4>2. at(h) <= at(j)
        BY <4>1, <1>6, <1>9
      <4> HIDE DEF at
      <4>3. at(h) \in 1..n /\ at(j) \in 1..n /\ s[at(h)] = next /\ s[at(j)] = i
        BY <4>1, <1>6
      <4> QED
        BY <4>2, <4>3 DEF ToVisit
    <3> QED
      BY <3>1, <3>2, <1>3, <1>14 DEF ToVisit
  <2>3. Cardinality(Entry \ ToVisit) <= Cardinality(Entry \ ToVisit')
    <3> DEFINE A == Entry \ ToVisit
               B == Entry \ ToVisit'
    <3>1. A \subseteq B /\ B \subseteq Entry
      BY <2>2
    <3> HIDE DEF A, B
    <3>2. IsFiniteSet(B)
      BY <3>1, PoolSize, FS_Subset
    <3>3. Cardinality(A) <= Cardinality(B)
      BY <3>1, <3>2, FS_Subset
    <3> QED
      BY <3>3 DEF A, B
  <2>4. Cardinality(Entry \ ToVisit) \in Nat /\ Cardinality(Entry \ ToVisit') \in Nat /\ killcount \in Nat
    <3>1. IsFiniteSet(Entry \ ToVisit) /\ IsFiniteSet(Entry \ ToVisit')
      BY PoolSize, FS_Difference
    <3> QED
      BY <3>1, FS_CardinalityType, WaitQueueAssumption DEF GInv, TInv, TypeOK
  <2>5. killcount <= Cardinality(Entry \ ToVisit')
    BY <2>1, <2>3, <2>4
  <2> QED
    BY <2>1, <2>5, <1>3, <1>1, <1>4, <1>16 DEF PurgeOK
<1>22. AdmittedOK'
  BY <1>1, <1>3, <1>4 DEF GInv, SInv, AdmittedOK, Actor
<1>23. (a \in Proc => AddOKAt(a)') /\ err' = FALSE
  BY <1>3, <1>4 DEF AddOKAt, GInv, SInv
<1> QED
  BY <1>5, <1>13, <1>17, <1>18, <1>19, <1>20, <1>21, <1>22, <1>23, AloneInv

-----------------------------------------------------------------------------
(* queue_update()                                                           *)

\* A list whose links are whole is walked as it should be.
LEMMA WholeReached ==
  ASSUME LinesOK, NEW q \in Queue, Nexts(w, first[q], Ents(q))
  PROVE  Reached(q) = Ents(q) /\ ~BadEnd(q)
<1> DEFINE s == Ents(q)
           n == Len(line[q])
<1>1. s \in Seq(Entry) /\ Len(s) = n /\ n \in Nat /\ n <= MaxWaiting
  BY EntsSeq
<1>2. first[q] = At(s, 1) /\ \A k \in 1..n : w[s[k]].next = At(s, k+1)
  BY <1>1 DEF Nexts
<1>3. \A k \in 1..n : Valid(s[k])
  <2> SUFFICES ASSUME NEW k \in 1..n PROVE Valid(s[k])
    OBVIOUS
  <2>1. s[k] \in Entry /\ w[s[k]].inuse = TRUE /\ w[s[k]].process = line[q][k] /\ line[q][k] \in Proc
    BY EntAt
  <2> HIDE DEF s
  <2> QED
    BY <2>1, Distinct DEF Valid
<1> HIDE DEF s, n
<1>4. \A k \in 0..n : LinkAfter(q, s, k) = At(s, k+1)
  BY <1>1, <1>2 DEF LinkAfter
<1>5. LinkAfter(q, s, n) = -1
  BY <1>1, <1>4 DEF At
<1>6. IsWalk(q, s)
  <2>1. \A k \in 1..Len(s) : s[k] = LinkAfter(q, s, k-1)
    BY <1>1, <1>4 DEF At
  <2>2. ~Valid(-1)
    BY WaitQueueAssumption DEF Valid, Entry
  <2> QED
    BY <1>1, <1>3, <1>5, <2>1, <2>2 DEF IsWalk
<1>7. Reached(q) = s
  BY <1>1, <1>6, ReachedIs
<1> QED
  BY <1>1, <1>5, <1>7 DEF BadEnd, s

\* The count that queue_update() gives to the k-th entry.
LEMMA PlaceIs ==
  ASSUME NEW s \in Seq(Entry), Injective(s), NEW k \in 1..Len(s)
  PROVE  (CHOOSE c \in 0..Len(s)-1 : s[c+1] = s[k] /\ \A m \in c+2..Len(s) : s[m] # s[k]) = k - 1
<1> DEFINE P(c) == s[c+1] = s[k] /\ \A m \in c+2..Len(s) : s[m] # s[k]
<1>1. k-1 \in 0..Len(s)-1 /\ P(k-1)
  BY DEF Injective
<1>2. \A c \in 0..Len(s)-1 : P(c) => c = k-1
  <2> SUFFICES ASSUME NEW c \in 0..Len(s)-1, P(c) PROVE c = k-1
    OBVIOUS
  <2>1. c+1 \in 1..Len(s) /\ s[c+1] = s[k]
    OBVIOUS
  <2>2. c+1 = k
    BY <2>1 DEF Injective
  <2> QED
    BY <2>2
<1> HIDE DEF P
<1>3. (CHOOSE c \in 0..Len(s)-1 : P(c)) = k-1
  BY <1>1, <1>2
<1> QED
  BY <1>3 DEF P

\* queue_update(): everyone's count is its place again.
LEMMA QueueUpdateSerial ==
  ASSUME GInv, NEW a \in Actor, QueueUpdate(a)
  PROVE  SInv'
<1> DEFINE Q == wq[a]
           s == Ents(Q)
           n == Len(line[Q])
<1>1. Q \in Queue /\ w \in [Entry -> EntryType] /\ pc[a] = "update" /\ LinesOK /\ Daemon \in Actor
  BY Distinct DEF QueueUpdate, GInv, SInv, Actor, TInv, TypeOK, EntryType, QueueKnown, CallPCs
<1>2. /\ s \in Seq(Entry) /\ Len(s) = n /\ n \in Nat /\ Injective(s)
      /\ Nexts(w, first[Q], s) /\ Previouses(w, last[Q], s)
  <2>1. s \in Seq(Entry) /\ Len(s) = n /\ n \in Nat /\ Injective(s)
    BY <1>1, EntsSeq
  <2>2. ExitOKAt(a)
    BY DEF GInv, SInv, ExitOK
  <2> QED
    BY <2>1, <2>2, <1>1 DEF ExitOKAt
<1>3. Reached(Q) = s /\ ~BadEnd(Q)
  BY <1>1, <1>2, WholeReached
<1> DEFINE Place(i) == CHOOSE c \in 0..Len(s)-1 : s[c+1] = i /\ \A h \in c+2..Len(s) : s[h] # i
           y == [i \in Entry |-> IF \E k \in DOMAIN s : s[k] = i THEN [w[i] EXCEPT !.count = Place(i)] ELSE w[i]]
<1>4. /\ wq' = wq /\ mywait' = [mywait EXCEPT ![a] = -1] /\ pc' = [pc EXCEPT ![a] = After(a)]
      /\ UNCHANGED <<first, last, room, next, killcount, line, admitted>>
      /\ err' = err /\ err = FALSE
      /\ w' = y
      /\ count' = [count EXCEPT ![Q] = n]
  <2>1. /\ wq' = wq /\ mywait' = [mywait EXCEPT ![a] = -1] /\ pc' = [pc EXCEPT ![a] = After(a)]
        /\ UNCHANGED <<first, last, room, next, killcount, line, admitted>>
    BY DEF QueueUpdate, Goto, purgeVars
  <2>2. err = FALSE /\ err' = (err \/ BadEnd(Q))
    BY DEF QueueUpdate, GInv, SInv
  <2>3. w' = y /\ count' = [count EXCEPT ![Q] = Len(s)]
    <3>1. DOMAIN s = 1..Len(s)
      BY <1>2
    <3> QED
      BY <3>1, <1>3 DEF QueueUpdate, Counted
  <2> QED
    BY <2>1, <2>2, <2>3, <1>2, <1>3
<1> HIDE DEF y
<1>5. /\ \A i \in Entry : /\ w'[i].inuse = w[i].inuse /\ w'[i].process = w[i].process
                          /\ w'[i].w_queue = w[i].w_queue /\ w'[i].next = w[i].next
                          /\ w'[i].previous = w[i].previous
      /\ \A i \in Entry : (\A k \in 1..n : s[k] # i) => w'[i] = w[i]
      /\ \A k \in 1..n : w'[s[k]].count = Place(s[k])
  <2>1. \A i \in Entry : w'[i] = IF \E k \in DOMAIN s : s[k] = i THEN [w[i] EXCEPT !.count = Place(i)] ELSE w[i]
    BY <1>4 DEF y
  <2>2. DOMAIN s = 1..n
    BY <1>2
  <2> HIDE DEF s, Place, n
  <2>4. ASSUME NEW i \in Entry
        PROVE  /\ (\A k \in 1..n : s[k] # i) => w'[i] = w[i]
               /\ (\E k \in 1..n : s[k] = i) => w'[i] = [w[i] EXCEPT !.count = Place(i)]
    <3> DEFINE p == Place(i)
    <3>1. w'[i] = IF \E k \in 1..n : s[k] = i THEN [w[i] EXCEPT !.count = p] ELSE w[i]
      BY <2>1, <2>2
    <3> HIDE DEF p
    <3>2. /\ (\A k \in 1..n : s[k] # i) => w'[i] = w[i]
          /\ (\E k \in 1..n : s[k] = i) => w'[i] = [w[i] EXCEPT !.count = p]
      BY <3>1
    <3> QED
      BY <3>2 DEF p
  <2>5. ASSUME NEW i \in Entry
        PROVE  (\E k \in 1..n : s[k] = i) => w'[i].count = Place(i)
    <3> DEFINE p == Place(i)
    <3>1. (\E k \in 1..n : s[k] = i) => w'[i] = [w[i] EXCEPT !.count = p]
      BY <2>4
    <3> HIDE DEF p
    <3>2. (\E k \in 1..n : s[k] = i) => w'[i].count = p
      BY <3>1, <1>1 DEF EntryType
    <3> QED
      BY <3>2 DEF p
  <2>6. ASSUME NEW i \in Entry
        PROVE  /\ w'[i].inuse = w[i].inuse /\ w'[i].process = w[i].process
               /\ w'[i].w_queue = w[i].w_queue /\ w'[i].next = w[i].next
               /\ w'[i].previous = w[i].previous
    <3> DEFINE p == Place(i)
    <3>1. w'[i] = w[i] \/ w'[i] = [w[i] EXCEPT !.count = p]
      BY <2>4
    <3> HIDE DEF p
    <3> QED
      BY <3>1, <1>1 DEF EntryType
  <2>7. \A k \in 1..n : w'[s[k]].count = Place(s[k])
    <3> SUFFICES ASSUME NEW k \in 1..n PROVE w'[s[k]].count = Place(s[k])
      OBVIOUS
    <3>1. s[k] \in Entry
      BY <1>2, <2>2
    <3> QED
      BY <3>1, <2>5
  <2> QED
    BY <2>4, <2>6, <2>7
<1>6. \A k \in 1..n : w'[s[k]].count = k - 1
  <2> SUFFICES ASSUME NEW k \in 1..n PROVE Place(s[k]) = k - 1
    BY <1>5
  <2> HIDE DEF s, Q
  <2> QED
    BY <1>2, PlaceIs
<1>7. /\ pc'[a] = After(a) /\ \A b \in Actor \ {a} : pc'[b] = pc[b] /\ mywait'[b] = mywait[b]
      /\ count'[Q] = n /\ \A q \in Queue \ {Q} : count'[q] = count[q]
  BY <1>1, <1>4 DEF GInv, TInv, TypeOK
<1>8. Alone(a)
  BY <1>1, <1>4, <1>7, IsAlone DEF CallPCs
<1>9. \A q \in Queue : \A k \in 1..Len(line[q]) :
        /\ line[q][k] \in Actor \ {a} /\ mywait'[line[q][k]] = mywait[line[q][k]]
        /\ Stays(line[q][k], q)
  <2> SUFFICES ASSUME NEW q \in Queue, NEW k \in 1..Len(line[q]), NEW r \in Proc, r = line[q][k], InLine(r, q)
               PROVE  r \in Actor \ {a} /\ mywait'[r] = mywait[r] /\ Stays(r, q)
    BY <1>1 DEF LinesOK
  <2>1. r \in Actor \ {a}
    BY <1>1 DEF InLine, Actor
  <2> QED
    BY <2>1, <1>4, <1>5, <1>7 DEF InLine, Stays
<1>10. LinesOK'
  BY <1>1, <1>4, <1>9, LinesFrame
<1>11. /\ \A q \in Queue : Ents(q)' = Ents(q)
       /\ \A q \in Queue : \A i : Holds(q, i)' <=> Holds(q, i)
  BY <1>4, <1>9 DEF Ents, Holds
<1>12. ASSUME NEW q \in Queue PROVE Whole(q)'
  <2>1. CASE q = Q
    <3>1. Nexts(w', first[Q], s) /\ Previouses(w', last[Q], s)
      <4>1. \A k \in 1..Len(s) : w'[s[k]].next = w[s[k]].next /\ w'[s[k]].previous = w[s[k]].previous
        BY <1>2, <1>5
      <4> HIDE DEF Q, s
      <4> QED
        BY <4>1, <1>2, LinksFrame
    <3>2. Counts(Q)'
      BY <1>4, <1>6, <1>7, <1>11, <1>1 DEF Counts
    <3> QED
      BY <2>1, <3>1, <3>2, <1>4, <1>11, <1>1 DEF Whole, Nexts, Previouses, At
  <2>2. CASE q # Q
    <3>1. Whole(q)
      BY <2>2, <1>8, WholeNow
    <3>2. \A k \in 1..Len(line[q]) : w'[Ents(q)[k]] = w[Ents(q)[k]]
      <4> SUFFICES ASSUME NEW k \in 1..Len(line[q]) PROVE w'[Ents(q)[k]] = w[Ents(q)[k]]
        OBVIOUS
      <4>1. Ents(q)[k] \in Entry
        BY <1>1, EntAt
      <4>2. \A j \in 1..n : s[j] # Ents(q)[k]
        BY <2>2, <1>1, EntsDisjoint
      <4> QED
        BY <4>1, <4>2, <1>5
    <3> QED
      BY <2>2, <3>1, <3>2, <1>1, <1>4, <1>7, <1>9, WholeFrame
  <2> QED
    BY <2>1, <2>2
<1>13. pc'[a] \in {"purge", "in", "gone"} /\ (pc'[a] = "purge" <=> a = Daemon)
       /\ (pc'[a] = "in" => a \in admitted) /\ (a # Daemon /\ a \in admitted => pc'[a] = "in")
  BY <1>7 DEF After
<1>14. Present'
  <2>1. ASSUME NEW r \in Proc, pc'[r] \in {"loop", "unlink", "relink", "clear"}
        PROVE  pc[r] \in {"loop", "unlink", "relink", "clear"}
    BY <1>7, <1>13, <2>1 DEF Actor
  <2>2. pc'[Daemon] \notin {"kill", "unlink", "relink", "clear"}
    BY <1>1, <1>7, <1>8, <1>13 DEF Alone, CallPCs
  <2> QED
    BY <2>1, <2>2, <1>4 DEF GInv, SInv, Present
<1>15. Pool'
  <2>1. \A r \in Proc : ~Adding(r)
    BY <1>1, <1>8 DEF Adding, Alone, CallPCs, Actor
  <2> SUFFICES ASSUME NEW i \in Entry
               PROVE  IF w'[i].inuse THEN \E q \in Queue : Holds(q, i)' ELSE w'[i] = Unused
    BY DEF Pool
  <2>2. CASE w[i].inuse
    BY <2>1, <2>2, <1>5, <1>11 DEF GInv, SInv, Pool
  <2>3. CASE ~w[i].inuse
    <3>1. w[i] = Unused
      BY <2>3 DEF GInv, SInv, Pool
    <3>2. \A k \in 1..n : s[k] # i
      <4> SUFFICES ASSUME NEW k \in 1..n, s[k] = i PROVE FALSE
        OBVIOUS
      <4>1. w[Ents(Q)[k]].inuse = TRUE
        BY <1>1, EntAt
      <4> QED
        BY <4>1, <2>3
    <3> QED
      BY <2>3, <3>1, <3>2, <1>5
  <2> QED
    BY <2>2, <2>3
<1>16. a = Daemon => PurgeOK'
  <2> SUFFICES ASSUME a = Daemon PROVE PurgeOK'
    OBVIOUS
  <2>1. ToVisit' = ToVisit
    BY <1>4, <1>11, <1>1 DEF ToVisit
  <2> QED
    BY <2>1, <1>1, <1>4, <1>11, <1>13 DEF GInv, SInv, PurgeOK
<1>17. AdmittedOK'
  <2>1. ASSUME NEW p \in Proc PROVE pc'[p] = "in" => p \in admitted
    BY <1>7, <1>13 DEF GInv, SInv, AdmittedOK, Actor
  <2>2. ASSUME NEW p \in admitted PROVE pc'[p] \in {"in", "unlink", "relink", "clear", "update"}
    <3>1. p \in Proc /\ p # Daemon /\ p \in Actor
      BY Distinct DEF GInv, TInv, TypeOK, Actor
    <3> QED
      BY <3>1, <1>7, <1>13 DEF GInv, SInv, AdmittedOK
  <2> QED
    BY <2>1, <2>2, <1>4 DEF AdmittedOK
<1>18. (a \in Proc => AddOKAt(a)') /\ ExitOKAt(a)' /\ err' = FALSE
  BY <1>4, <1>13 DEF AddOKAt, ExitOKAt
<1> QED
  BY <1>8, <1>10, <1>12, <1>14, <1>15, <1>16, <1>17, <1>18, AloneInv

-----------------------------------------------------------------------------
(* queues_purge()                                                           *)

\* The steps of the purge write no list.
LEMMA PurgeFrame ==
  ASSUME GInv, Alone(Daemon),
         pc[Daemon] \in {"idle", "purge", "kill"}, pc'[Daemon] \in {"idle", "purge", "kill", "unlink"},
         UNCHANGED <<first, last, count, w, line, err, admitted>>,
         pc'[Daemon] \in {"kill", "unlink"} => wq'[Daemon] \in Queue /\ Holds(wq'[Daemon], mywait'[Daemon]),
         PurgeOK'
  PROVE  SInv'
<1>0. Daemon \in Actor /\ Daemon \notin Proc
  BY Distinct DEF Actor
<1>1. /\ \A b \in Actor \ {Daemon} : pc'[b] = pc[b] /\ wq'[b] = wq[b]
      /\ \A p \in Proc : p \in Actor \ {Daemon} /\ mywait'[p] = mywait[p] /\ pc'[p] = pc[p] /\ wq'[p] = wq[p]
  BY <1>0 DEF Alone, Actor
<1>2. /\ \A q \in Queue : Ents(q)' = Ents(q) /\ (Whole(q)' <=> Whole(q)) /\ (Counts(q)' <=> Counts(q))
      /\ \A q \in Queue : \A i : Holds(q, i)' <=> Holds(q, i)
  BY <1>1, SameLists DEF GInv, SInv
<1>3. LinesOK'
  BY <1>0, <1>1, LinesKeep
<1>4. Present'
  <2>1. ASSUME NEW r \in Proc, pc'[r] \in {"loop", "unlink", "relink", "clear"}
        PROVE  \E k \in 1..Len(line'[wq'[r]]) : line'[wq'[r]][k] = r
    BY <1>1, <2>1 DEF GInv, SInv, Present
  <2>2. pc'[Daemon] \in {"kill", "unlink", "relink", "clear"} => Holds(wq[Daemon], mywait[Daemon])'
    <3> SUFFICES ASSUME pc'[Daemon] \in {"kill", "unlink"} PROVE Holds(wq[Daemon], mywait[Daemon])'
      OBVIOUS
    <3>1. wq'[Daemon] \in Queue /\ Holds(wq'[Daemon], mywait'[Daemon])
      OBVIOUS
    <3>2. \A k \in 1..Len(line[wq'[Daemon]]) : line[wq'[Daemon]][k] \in Proc
      BY <3>1, EntAt DEF GInv, SInv
    <3> QED
      BY <3>1, <3>2, <1>1 DEF Holds
  <2> QED
    BY <2>1, <2>2 DEF Present
<1>5. Pool'
  <2>1. \A r \in Proc : Adding(r) => Adding(r)'
    BY <1>1 DEF Adding
  <2> QED
    BY <1>1, <1>2, <2>1 DEF GInv, SInv, Pool
<1>6. \A q \in Queue : Whole(q)'
  BY <1>0, <1>2, WholeNow DEF AtWork
<1>7. ExitOKAt(Daemon)' /\ AdmittedOK' /\ err' = FALSE
  BY <1>1 DEF ExitOKAt, GInv, SInv, AdmittedOK, TInv, TypeOK
<1> QED
  BY <1>0, <1>3, <1>4, <1>5, <1>6, <1>7, AloneInv

\* The entry the purge looks at next is one it has not looked at.
LEMMA NextToVisit ==
  ASSUME GInv, pc[Daemon] = "purge", next # -1
  PROVE  /\ wq[Daemon] \in Queue /\ next \in Entry /\ Valid(next) /\ next \in ToVisit
         /\ \E k \in 1..Len(line[wq[Daemon]]) : Ents(wq[Daemon])[k] = next
         /\ killcount <= Cardinality(Entry \ ToVisit) /\ killcount \in Nat
<1> DEFINE Q == wq[Daemon]
<1>1. Q \in Queue /\ LinesOK
  BY DEF GInv, SInv, TInv, QueueKnown, CallPCs
<1>2. PICK k \in 1..Len(line[Q]) : mywait[line[Q][k]] = next
  BY DEF GInv, SInv, PurgeOK, Holds
<1>3. Ents(Q)[k] = next
  BY <1>2 DEF Ents
<1>4. Ents(Q)[k] \in Entry /\ w[Ents(Q)[k]].inuse = TRUE /\ w[Ents(Q)[k]].process \in Proc
  <2>1. Ents(Q)[k] \in Entry /\ w[Ents(Q)[k]].inuse = TRUE
    BY <1>1, EntAt
  <2>2. w[Ents(Q)[k]].process = line[Q][k] /\ line[Q][k] \in Proc
    BY <1>1, EntAt
  <2> QED
    BY <2>1, <2>2
<1>5. Valid(next) /\ next \in Entry
  BY <1>3, <1>4, Distinct DEF Valid
<1>6. next \in ToVisit
  <2>1. k <= k
    BY <1>1, EntsSeq
  <2> QED
    BY <1>3, <1>5, <2>1 DEF ToVisit
<1>7. killcount <= Cardinality(Entry \ ToVisit) /\ killcount \in Nat
  BY WaitQueueAssumption DEF GInv, SInv, PurgeOK, TInv, TypeOK
<1> QED
  BY <1>1, <1>3, <1>5, <1>6, <1>7

\* So the purge meets neither an invalid entry nor the end of its patience.
LEMMA PurgeNoError == GInv => ~PurgeInvalid /\ ~PurgeTooMany
<1> SUFFICES ASSUME GInv, pc[Daemon] = "purge", next # -1 PROVE Valid(next) /\ killcount < MaxWaiting
  BY WaitQueueAssumption DEF PurgeInvalid, PurgeTooMany, GInv, TInv, TypeOK
<1> DEFINE A == Entry \ ToVisit
<1>1. A \subseteq Entry /\ A # Entry
  BY NextToVisit
<1>2. Cardinality(A) < Cardinality(Entry)
  <2>1. Cardinality(A) <= Cardinality(Entry) /\ (Cardinality(A) = Cardinality(Entry) => A = Entry)
    <3> HIDE DEF A
    <3> QED
      BY <1>1, PoolSize, FS_Subset
  <2>2. Cardinality(A) \in Nat /\ Cardinality(Entry) \in Nat
    <3>1. IsFiniteSet(A)
      BY <1>1, PoolSize, FS_Subset
    <3> QED
      BY <3>1, PoolSize, FS_CardinalityType
  <2> HIDE DEF A
  <2> QED
    BY <1>1, <2>1, <2>2
<1>3. Cardinality(A) \in Nat /\ Cardinality(Entry) = MaxWaiting /\ MaxWaiting \in Nat
  <2>1. IsFiniteSet(A)
    BY <1>1, PoolSize, FS_Subset
  <2> QED
    BY <2>1, PoolSize, FS_CardinalityType, WaitQueueAssumption
<1> QED
  BY <1>2, <1>3, NextToVisit

\* The purge begins with the first list: nothing has been visited.
LEMMA PurgeStartSerial ==
  ASSUME GInv, ~Overlap, PurgeStart
  PROVE  SInv'
<1>0. Daemon \in Actor /\ Daemon \notin Proc /\ 0 \in Queue
  BY Distinct, WaitQueueAssumption DEF Actor, Queue
<1>1. /\ UNCHANGED <<first, last, count, w, line, mywait, err, admitted, killcount>>
      /\ pc[Daemon] = "idle" /\ pc'[Daemon] = "purge" /\ wq'[Daemon] = 0 /\ next' = first[0]
      /\ \A b \in Actor \ {Daemon} : pc'[b] = pc[b] /\ wq'[b] = wq[b] /\ mywait'[b] = mywait[b]
  BY <1>0 DEF PurgeStart, Goto, lists, GInv, TInv, TypeOK
<1>2. Alone(Daemon)
  BY <1>0, <1>1, IsAlone DEF PurgeStart
<1>3. killcount = 0
  BY <1>1 DEF GInv, IdleCount
<1>4. first[0] # -1 => Holds(0, first[0])
  <2>1. Whole(0)
    BY <1>0, <1>1, <1>2, WholeNow DEF AtWork
  <2>2. first[0] = At(Ents(0), 1) /\ Len(Ents(0)) = Len(line[0])
    BY <1>0, <2>1, EntsSeq DEF Whole, Nexts, GInv, SInv
  <2> SUFFICES ASSUME first[0] # -1 PROVE Holds(0, first[0])
    OBVIOUS
  <2>3. 1 \in 1..Len(line[0]) /\ first[0] = Ents(0)[1]
    BY <2>2 DEF At
  <2>4. Ents(0)[1] = mywait[line[0][1]]
    BY <2>3 DEF Ents
  <2> QED
    BY <2>3, <2>4 DEF Holds
<1>5. PurgeOK'
  <2>1. next' # -1 => Holds(wq[Daemon], next)'
    BY <1>1, <1>4 DEF Holds
  <2>2. ToVisit' \subseteq Entry
    BY DEF ToVisit
  <2>3. Cardinality(Entry \ ToVisit') \in Nat
    <3>1. IsFiniteSet(Entry \ ToVisit')
      BY PoolSize, FS_Difference
    <3> QED
      BY <3>1, FS_CardinalityType
  <2>4. killcount' <= Cardinality(Entry \ ToVisit')
    BY <1>1, <1>3, <2>3
  <2> QED
    BY <1>1, <2>1, <2>4 DEF PurgeOK
<1> QED
  BY <1>1, <1>2, <1>5, PurgeFrame

\* It goes on to the next list: no more is left to visit than before.
LEMMA PurgeNextQueueSerial ==
  ASSUME GInv, PurgeNextQueue
  PROVE  SInv'
<1> DEFINE Q == wq[Daemon]
<1>0. Daemon \in Actor /\ Daemon \notin Proc /\ LinesOK
  BY Distinct DEF Actor, GInv, SInv
<1>1. /\ UNCHANGED <<first, last, count, w, line, mywait, err, admitted>>
      /\ pc[Daemon] = "purge" /\ next = -1 /\ Q \in Queue
      /\ \/ Q + 1 \in Queue /\ wq'[Daemon] = Q + 1 /\ next' = first[Q + 1] /\ pc'[Daemon] = "purge" /\ killcount' = killcount
         \/ pc'[Daemon] = "idle"
      /\ \A b \in Actor \ {Daemon} : pc'[b] = pc[b] /\ wq'[b] = wq[b] /\ mywait'[b] = mywait[b]
  <2>1. Q \in Queue
    BY DEF PurgeNextQueue, GInv, TInv, QueueKnown, CallPCs
  <2>2. DOMAIN pc = Actor /\ DOMAIN wq = Actor
    BY DEF GInv, TInv, TypeOK
  <2>3. CASE Q + 1 \in Queue
    BY <1>0, <2>1, <2>2, <2>3 DEF PurgeNextQueue, lists
  <2>4. CASE Q + 1 \notin Queue
    BY <1>0, <2>1, <2>2, <2>4 DEF PurgeNextQueue, lists, Goto
  <2> QED
    BY <2>3, <2>4
<1>2. Alone(Daemon)
  BY <1>0, <1>1, IsAlone DEF CallPCs
<1>3. CASE pc'[Daemon] = "idle"
  <2>1. PurgeOK'
    BY <1>3 DEF PurgeOK
  <2> QED
    BY <1>1, <1>2, <1>3, <2>1, PurgeFrame
<1>4. CASE Q + 1 \in Queue /\ wq'[Daemon] = Q + 1 /\ next' = first[Q + 1] /\ pc'[Daemon] = "purge" /\ killcount' = killcount
  <2> DEFINE r == Q + 1
  <2>1. first[r] # -1 => Holds(r, first[r])
    <3>1. Whole(r)
      BY <1>0, <1>1, <1>2, <1>4, WholeNow DEF AtWork
    <3>2. first[r] = At(Ents(r), 1) /\ Len(Ents(r)) = Len(line[r])
      BY <1>0, <1>4, <3>1, EntsSeq DEF Whole, Nexts
    <3> SUFFICES ASSUME first[r] # -1 PROVE Holds(r, first[r])
      OBVIOUS
    <3> HIDE DEF r
    <3>3. 1 \in 1..Len(line[r]) /\ first[r] = Ents(r)[1]
      BY <3>2 DEF At
    <3>4. Ents(r)[1] = mywait[line[r][1]]
      BY <3>3 DEF Ents
    <3> QED
      BY <3>3, <3>4 DEF Holds
  <2>2. next' # -1 => Holds(wq[Daemon], next)'
    BY <1>1, <1>4, <2>1 DEF Holds
  <2>3. \A q \in Queue : Ents(q)' = Ents(q) /\ \A i : Holds(q, i)' <=> Holds(q, i)
    BY <1>1 DEF Ents, Holds
  <2>4. ToVisit' \subseteq ToVisit
    <3> SUFFICES ASSUME NEW i \in Entry, i \in ToVisit' PROVE i \in ToVisit
      BY DEF ToVisit
    <3>1. PICK q \in Queue : q > Q /\ Holds(q, i)
      <4>1. CASE \E q \in Queue : q > r /\ Holds(q, i)'
        <5>1. \A q \in Queue : q > r => q > Q
          BY <1>1, <1>4, WaitQueueAssumption DEF Queue
        <5> QED
          BY <4>1, <5>1, <2>3
      <4>2. CASE \E h, k \in 1..Len(line[r]) : h <= k /\ Ents(r)[h] = first[r] /\ Ents(r)[k] = i
        <5>1. Holds(r, i)
          BY <4>2 DEF Ents, Holds
        <5>2. r > Q
          BY <1>1, WaitQueueAssumption DEF Queue
        <5> QED
          BY <5>1, <5>2, <1>4
      <4> QED
        BY <4>1, <4>2, <1>1, <1>4, <2>3 DEF ToVisit
    <3> QED
      BY <3>1 DEF ToVisit
  <2>5. killcount' <= Cardinality(Entry \ ToVisit')
    <3> DEFINE A == Entry \ ToVisit
               B == Entry \ ToVisit'
    <3>1. A \subseteq B /\ B \subseteq Entry
      BY <2>4
    <3>2. killcount <= Cardinality(A) /\ killcount \in Nat
      BY <1>1, WaitQueueAssumption DEF GInv, SInv, PurgeOK, TInv, TypeOK
    <3> HIDE DEF A, B
    <3>3. IsFiniteSet(A) /\ IsFiniteSet(B) /\ Cardinality(A) <= Cardinality(B)
      BY <3>1, PoolSize, FS_Subset
    <3>4. Cardinality(A) \in Nat /\ Cardinality(B) \in Nat
      BY <3>3, FS_CardinalityType
    <3>5. killcount' <= Cardinality(B)
      BY <1>4, <3>2, <3>3, <3>4
    <3> QED
      BY <3>5 DEF B
  <2>6. PurgeOK'
    BY <1>4, <2>2, <2>5 DEF PurgeOK
  <2> QED
    BY <1>1, <1>2, <1>4, <2>6, PurgeFrame
<1> QED
  BY <1>1, <1>3, <1>4

\* It visits an entry: one less is left, whether it is removed or not.
LEMMA PurgeEntrySerial ==
  ASSUME GInv, PurgeEntry
  PROVE  SInv'
<1> DEFINE Q == wq[Daemon]
           s == Ents(Q)
           n == Len(line[Q])
<1>0. Daemon \in Actor /\ Daemon \notin Proc /\ LinesOK
  BY Distinct DEF Actor, GInv, SInv
<1>1. /\ UNCHANGED <<first, last, count, w, line, err, admitted>> /\ wq' = wq
      /\ pc[Daemon] = "purge" /\ next # -1
      /\ next' = w[next].next /\ killcount' = killcount + 1
      /\ pc'[Daemon] = "kill" /\ mywait'[Daemon] = next
      /\ \A b \in Actor \ {Daemon} : pc'[b] = pc[b] /\ wq'[b] = wq[b] /\ mywait'[b] = mywait[b]
  <2>1. DOMAIN pc = Actor /\ DOMAIN mywait = Actor
    BY DEF GInv, TInv, TypeOK
  <2>2. next # -1
    BY WaitQueueAssumption DEF PurgeEntry, Valid, Entry
  <2> QED
    BY <1>0, <2>1, <2>2 DEF PurgeEntry, lists, Goto
<1>2. Alone(Daemon)
  BY <1>0, <1>1, IsAlone DEF CallPCs
<1>3. /\ Q \in Queue /\ next \in Entry /\ next \in ToVisit
      /\ killcount <= Cardinality(Entry \ ToVisit) /\ killcount \in Nat
  BY <1>1, NextToVisit
<1>4. PICK k \in 1..n : s[k] = next
  BY <1>1, NextToVisit
<1>5. s \in Seq(Entry) /\ Len(s) = n /\ n \in Nat /\ Injective(s) /\ next' = At(s, k+1)
  <2>1. Whole(Q)
    BY <1>0, <1>1, <1>2, <1>3, WholeNow DEF AtWork
  <2>2. s \in Seq(Entry) /\ Len(s) = n /\ n \in Nat /\ Injective(s)
    BY <1>0, <1>3, EntsSeq
  <2> QED
    BY <2>1, <2>2, <1>1, <1>4 DEF Whole, Nexts
<1>6. next' # -1 => k+1 \in 1..n /\ next' = s[k+1] /\ next' # next
  <2> HIDE DEF s
  <2> QED
    BY <1>4, <1>5 DEF At, Injective
<1>7. \A q \in Queue : Ents(q)' = Ents(q) /\ \A i : Holds(q, i)' <=> Holds(q, i)
  <2>1. \A q \in Queue : \A j \in 1..Len(line[q]) : mywait'[line[q][j]] = mywait[line[q][j]]
    <3> SUFFICES ASSUME NEW q \in Queue, NEW j \in 1..Len(line[q]) PROVE mywait'[line[q][j]] = mywait[line[q][j]]
      OBVIOUS
    <3>1. line[q][j] \in Proc
      BY <1>0, EntAt
    <3> QED
      BY <3>1, <1>0, <1>1 DEF Actor
  <2> QED
    BY <2>1, <1>1 DEF Ents, Holds
<1>8. next' # -1 => Holds(wq[Daemon], next)'
  <2> SUFFICES ASSUME next' # -1 PROVE Holds(wq[Daemon], next)'
    OBVIOUS
  <2>1. mywait[line[Q][k+1]] = next' /\ k+1 \in 1..Len(line[Q])
    BY <1>6 DEF Ents
  <2>2. Holds(Q, next')
    BY <2>1 DEF Holds
  <2>3. \A i : Holds(Q, i) => \E j \in 1..Len(line'[Q]) : mywait'[line'[Q][j]] = i
    BY <1>3, <1>7 DEF Holds
  <2> QED
    BY <2>2, <2>3, <1>1 DEF Holds
<1>9. ToVisit' \subseteq ToVisit \ {next}
  <2> SUFFICES ASSUME NEW i \in Entry, i \in ToVisit' PROVE i \in ToVisit /\ i # next
    BY DEF ToVisit
  <2>1. CASE \E r \in Queue : r > Q /\ Holds(r, i)
    <3>1. i \in ToVisit
      BY <2>1 DEF ToVisit
    <3>2. PICK r \in Queue : r > Q /\ Holds(r, i)
      BY <2>1
    <3>3. PICK j \in 1..Len(line[r]) : Ents(r)[j] = i
      BY <3>2 DEF Holds, Ents
    <3>4. r # Q
      BY <3>2, <1>3, WaitQueueAssumption DEF Queue
    <3>5. i # next
      BY <3>3, <3>4, <1>0, <1>3, <1>4, EntsDisjoint
    <3> QED
      BY <3>1, <3>5
  <2>2. CASE \E h, j \in 1..n : h <= j /\ s[h] = next' /\ s[j] = i
    <3>1. PICK h \in 1..n, j \in 1..n : h <= j /\ s[h] = next' /\ s[j] = i
      BY <2>2
    <3> HIDE DEF s, n
    <3>2. next' # -1
      BY <3>1, <1>5, WaitQueueAssumption DEF Entry
    <3>3. h = k+1
      BY <3>1, <3>2, <1>5, <1>6 DEF Injective
    <3>4. k <= j /\ j # k
      BY <3>1, <3>3, <1>5
    <3>5. i # next
      BY <3>1, <3>4, <1>4, <1>5 DEF Injective
    <3>6. i \in ToVisit
      BY <3>1, <3>4, <1>4 DEF ToVisit, s, n
    <3> QED
      BY <3>5, <3>6
  <2> QED
    BY <2>1, <2>2, <1>1, <1>3, <1>7 DEF ToVisit
<1>10. killcount' <= Cardinality(Entry \ ToVisit')
  <2> DEFINE A == Entry \ ToVisit
             B == Entry \ ToVisit'
  <2>1. A \cup {next} \subseteq B /\ B \subseteq Entry /\ A \subseteq Entry /\ next \notin A
    BY <1>3, <1>9
  <2>2. killcount <= Cardinality(A) /\ killcount \in Nat
    BY <1>3
  <2> HIDE DEF A, B
  <2>3. IsFiniteSet(A) /\ IsFiniteSet(B)
    BY <2>1, PoolSize, FS_Subset
  <2>4. IsFiniteSet(A \cup {next}) /\ Cardinality(A \cup {next}) = Cardinality(A) + 1
    BY <2>1, <2>3, FS_AddElement
  <2>5. Cardinality(A \cup {next}) <= Cardinality(B)
    BY <2>1, <2>3, FS_Subset
  <2>6. Cardinality(A) \in Nat /\ Cardinality(B) \in Nat
    BY <2>3, FS_CardinalityType
  <2>7. killcount' <= Cardinality(B)
    BY <1>1, <2>2, <2>4, <2>5, <2>6
  <2> QED
    BY <2>7 DEF B
<1>11. PurgeOK'
  <2>1. next' # -1 => Holds(wq[Daemon], next)'
    BY <1>8
  <2>2. pc'[Daemon] # "purge" => next' # mywait'[Daemon]
    BY <1>1, <1>3, <1>6, WaitQueueAssumption DEF Entry
  <2> QED
    BY <2>1, <2>2, <1>10 DEF PurgeOK
<1>12. wq'[Daemon] \in Queue /\ Holds(wq'[Daemon], mywait'[Daemon])
  <2>1. mywait[line[Q][k]] = next
    BY <1>4 DEF Ents
  <2> QED
    BY <2>1, <1>1, <1>3 DEF Holds
<1> QED
  BY <1>1, <1>2, <1>11, <1>12, PurgeFrame

\* It goes on to remove the entry, or to the next one.
LEMMA PurgeKillSerial ==
  ASSUME GInv, PurgeKill
  PROVE  SInv'
<1> DEFINE Q == wq[Daemon]
<1>0. Daemon \in Actor /\ Daemon \notin Proc /\ LinesOK
  BY Distinct DEF Actor, GInv, SInv
<1>1. /\ UNCHANGED <<first, last, count, w, line, err, admitted>> /\ wq' = wq
      /\ pc[Daemon] = "kill" /\ next' = next /\ killcount' = killcount
      /\ \/ pc'[Daemon] = "unlink" /\ mywait'[Daemon] = mywait[Daemon]
         \/ pc'[Daemon] = "purge"
      /\ \A b \in Actor \ {Daemon} : pc'[b] = pc[b] /\ wq'[b] = wq[b] /\ mywait'[b] = mywait[b]
  <2>1. DOMAIN pc = Actor /\ DOMAIN mywait = Actor
    BY DEF GInv, TInv, TypeOK
  <2>2. CASE NoSuchProcess(victim)
    BY <1>0, <2>1, <2>2 DEF PurgeKill, lists, Goto
  <2>3. CASE ~NoSuchProcess(victim)
    BY <1>0, <2>1, <2>3 DEF PurgeKill, lists, Goto
  <2> QED
    BY <2>2, <2>3
<1>2. Alone(Daemon)
  BY <1>0, <1>1, IsAlone DEF CallPCs
<1>3. Q \in Queue
  BY <1>1 DEF GInv, TInv, QueueKnown, CallPCs
<1>4. \A q \in Queue : \A j \in 1..Len(line[q]) : mywait'[line[q][j]] = mywait[line[q][j]]
  <2> SUFFICES ASSUME NEW q \in Queue, NEW j \in 1..Len(line[q]) PROVE mywait'[line[q][j]] = mywait[line[q][j]]
    OBVIOUS
  <2>1. line[q][j] \in Proc
    BY <1>0, EntAt
  <2> QED
    BY <2>1, <1>0, <1>1 DEF Actor
<1>5. \A q \in Queue : Ents(q)' = Ents(q) /\ \A i : Holds(q, i)' <=> Holds(q, i)
  BY <1>1, <1>4 DEF Ents, Holds
<1>6. ToVisit' = ToVisit
  BY <1>1, <1>3, <1>5 DEF ToVisit
<1>7. Holds(Q, mywait[Daemon]) /\ (next # -1 => Holds(Q, next)) /\ next # mywait[Daemon]
      /\ killcount <= Cardinality(Entry \ ToVisit)
  BY <1>1 DEF GInv, SInv, Present, PurgeOK
<1>8. \A i : Holds(Q, i) => \E j \in 1..Len(line'[Q]) : mywait'[line'[Q][j]] = i
  BY <1>3, <1>5 DEF Holds
<1>9. PurgeOK'
  <2>1. next' # -1 => Holds(wq[Daemon], next)'
    BY <1>1, <1>7, <1>8 DEF Holds
  <2>2. pc'[Daemon] # "purge" => next' # mywait'[Daemon]
    BY <1>1, <1>7
  <2> QED
    BY <2>1, <2>2, <1>1, <1>6, <1>7 DEF PurgeOK
<1>10. pc'[Daemon] \in {"kill", "unlink"} => wq'[Daemon] \in Queue /\ Holds(wq'[Daemon], mywait'[Daemon])
  BY <1>1, <1>3, <1>7
<1> QED
  BY <1>1, <1>2, <1>9, <1>10, PurgeFrame

-----------------------------------------------------------------------------
(* Every step                                                               *)

\* The lists are empty and whole at the start.
LEMMA SInvInit == Init => SInv
<1> SUFFICES ASSUME Init PROVE SInv
  OBVIOUS
<1> USE Distinct
<1>1. /\ \A a \in Actor : pc[a] \in {"idle", "new"} /\ pc[a] \notin CallPCs
      /\ Daemon \in Actor /\ pc[Daemon] = "idle" /\ \A p \in Proc : p \in Actor /\ pc[p] = "new"
  BY DEF Init, Actor, CallPCs
<1>2. \A q \in Queue : line[q] = <<>> /\ Len(line[q]) = 0 /\ Ents(q) = <<>>
  <2>1. \A q \in Queue : line[q] = <<>>
    BY DEF Init
  <2> QED
    BY <2>1 DEF Ents
<1>3. OneCall /\ AddOK /\ ExitOK /\ PurgeOK /\ AdmittedOK
  BY <1>1 DEF OneCall, AddOK, AddOKAt, ExitOK, ExitOKAt, PurgeOK, AdmittedOK, CallPCs, Init
<1>4. LinesOK
  <2>1. line \in [Queue -> Seq(Proc)]
    BY DEF Init
  <2> QED
    BY <1>2, <2>1 DEF LinesOK
<1>5. Present /\ Pool
  BY <1>1 DEF Present, Pool, Init, Unused
<1>6. QuietLists
  <2> SUFFICES ASSUME NEW q \in Queue PROVE Whole(q)
    BY DEF QuietLists
  <2>1. first[q] = -1 /\ last[q] = -1 /\ count[q] = 0
    BY DEF Init
  <2>2. Len(<<>>) = 0 /\ 1..0 = {}
    OBVIOUS
  <2> QED
    BY <1>2, <2>1, <2>2 DEF Whole, Nexts, Previouses, Counts, At
<1>7. err = FALSE
  BY DEF Init
<1> QED
  BY <1>3, <1>4, <1>5, <1>6, <1>7 DEF SInv

\* Nothing changes when nothing changes.
LEMMA SInvStutters ==
  ASSUME SInv, UNCHANGED vars
  PROVE  SInv'
<1> USE DEF vars, lists, purgeVars
<1>1. \A q : Ents(q)' = Ents(q) /\ \A i : Holds(q, i)' <=> Holds(q, i)
  BY DEF Ents, Holds
<1>2. OneCall' /\ LinesOK' /\ Present'
  BY <1>1 DEF SInv, OneCall, LinesOK, InLine, Present
<1>3. Pool' /\ AdmittedOK' /\ err' = FALSE
  BY <1>1 DEF SInv, Pool, Adding, AdmittedOK
<1>4. QuietLists'
  <2>1. \A q : Whole(q)' <=> Whole(q)
    BY <1>1 DEF Whole, Nexts, Previouses, Counts, At
  <2> QED
    BY <2>1 DEF SInv, QuietLists, Quiet
<1>5. AddOK'
  <2> SUFFICES ASSUME NEW p \in Proc PROVE AddOKAt(p)'
    BY DEF AddOK
  <2>1. AddOKAt(p) /\ New(p)' = New(p) /\ Counts(wq[p])' = Counts(wq[p])
    BY <1>1 DEF SInv, AddOK, New, Counts
  <2>2. /\ Nexts(w, first[wq[p]], Append(Ents(wq[p]), mywait[p]))' = Nexts(w, first[wq[p]], Append(Ents(wq[p]), mywait[p]))
        /\ Previouses(w, mywait[p], Append(Ents(wq[p]), mywait[p]))' = Previouses(w, mywait[p], Append(Ents(wq[p]), mywait[p]))
    BY <1>1 DEF Nexts, Previouses, At
  <2> QED
    BY <2>1, <2>2 DEF AddOKAt
<1>6. ExitOK'
  <2> SUFFICES ASSUME NEW a \in Actor PROVE ExitOKAt(a)'
    BY DEF ExitOK
  <2> DEFINE t == Fifo!Without(Ents(wq[a]), mywait[a])
  <2>1. ExitOKAt(a) /\ Counts(wq[a])' = Counts(wq[a])
    BY <1>1 DEF SInv, ExitOK, Counts
  <2>2. t' = t
    BY <1>1 DEF Fifo!Without
  <2>3. /\ Nexts(w, first[wq[a]], Ents(wq[a]))' = Nexts(w, first[wq[a]], Ents(wq[a]))
        /\ Previouses(w, last[wq[a]], Ents(wq[a]))' = Previouses(w, last[wq[a]], Ents(wq[a]))
    BY <1>1 DEF Nexts, Previouses, At
  <2>4. /\ Nexts(w, first[wq[a]], t)' = Nexts(w, first[wq[a]], t)
        /\ Previouses(w, last[wq[a]], t)' = Previouses(w, last[wq[a]], t)
    <3> HIDE DEF t
    <3> QED
      BY <2>2 DEF Nexts, Previouses, At
  <2>5. (\A k \in 1..Len(Ents(wq[a])) : Ents(wq[a])[k] = mywait[a] => w[Ents(wq[a])[k]].next = At(Ents(wq[a]), k+1))'
        = (\A k \in 1..Len(Ents(wq[a])) : Ents(wq[a])[k] = mywait[a] => w[Ents(wq[a])[k]].next = At(Ents(wq[a]), k+1))
    BY <1>1 DEF At
  <2> QED
    BY <2>1, <2>3, <2>4, <2>5 DEF ExitOKAt
<1>7. PurgeOK'
  <2>1. ToVisit' = ToVisit
    BY <1>1 DEF ToVisit
  <2> QED
    BY <1>1, <2>1 DEF SInv, PurgeOK
<1> QED
  BY <1>2, <1>3, <1>4, <1>5, <1>6, <1>7 DEF SInv

\* Every step keeps the lists as queue.c means them.
LEMMA SInvNext == ~Overlap /\ ~Crashes /\ GInv /\ [Next]_vars => SInv'
<1> SUFFICES ASSUME ~Overlap, ~Crashes, GInv, [Next]_vars PROVE SInv'
  OBVIOUS
<1>1. ASSUME NEW p \in Proc, \E q \in Queue : Arrive(p, q) PROVE SInv'
  BY <1>1, StillSteps
<1>2. ASSUME NEW p \in Proc, GiveUp(p) \/ TryNow(p) \/ Served(p) PROVE SInv'
  BY <1>2, StillSteps
<1>3. ASSUME NEW p \in Proc, Crash(p) \/ Depart(p) PROVE SInv'
  BY <1>3, LeaveSteps
<1>4. ASSUME NEW p \in Proc, QueueAdd(p) PROVE SInv'
  BY <1>4, StillSteps, AddEntrySerial, AddFirstSerial, AddTailSerial, AddLastSerial, AddDoneSerial DEF QueueAdd
<1>5. ASSUME NEW a \in Actor, QueueExit(a) PROVE SInv'
  BY <1>5, ExitPreviousSerial, ExitNextSerial, ExitClearSerial, QueueUpdateSerial DEF QueueExit
<1>6. CASE Purge
  BY <1>6, <1>5, PurgeNoError, PurgeStartSerial, PurgeNextQueueSerial, PurgeEntrySerial, PurgeKillSerial
  DEF Purge, Actor
<1>7. CASE UNCHANGED vars
  BY <1>7, SInvStutters DEF GInv
<1> QED
  BY <1>1, <1>2, <1>3, <1>4, <1>5, <1>6, <1>7, NoneLost DEF Next, Wait, Actor

\* killcount is zero whenever the daemon is outside the purge.
LEMMA IdleCountNext == TInv /\ IdleCount /\ [Next]_vars => IdleCount'
<1> SUFFICES ASSUME TInv, IdleCount, [Next]_vars PROVE IdleCount'
  OBVIOUS
<1>0. pc \in [Actor -> CallPCs \cup {"new", "loop", "in", "gone", "idle"}] /\ Daemon \in Actor
  BY DEF TInv, TypeOK, Actor
<1> USE <1>0, Distinct DEF IdleCount, Goto, lists, purgeVars
<1>1. ASSUME NEW p \in Proc, \E q \in Queue : Arrive(p, q) PROVE IdleCount'
  BY <1>1 DEF Arrive
<1>2. ASSUME NEW p \in Proc, GiveUp(p) \/ Crash(p) \/ Depart(p) PROVE IdleCount'
  BY <1>2 DEF GiveUp, Crash, Depart
<1>3. ASSUME NEW p \in Proc, TryNow(p) \/ LostEntry(p) \/ Served(p) PROVE IdleCount'
  BY <1>3 DEF TryNow, LostEntry, Served, Pick
<1>4. ASSUME NEW p \in Proc, QueueAdd(p) PROVE IdleCount'
  BY <1>4 DEF QueueAdd, AddEntry, AddTest, AddFirst, AddTail, AddLast, AddDone
<1>5. ASSUME NEW a \in Actor, QueueExit(a) PROVE IdleCount'
  <2>1. After(a) # "idle" /\ (a = Daemon => After(a) = "purge")
    BY DEF After
  <2> QED
    BY <1>5, <2>1 DEF QueueExit, ExitPrevious, ExitNext, ExitClear, QueueUpdate
<1>6. CASE Purge
  BY <1>6, <1>5 DEF Purge, PurgeStart, PurgeNextQueue, PurgeInvalid, PurgeTooMany, PurgeEntry, PurgeKill
<1>7. CASE UNCHANGED vars
  BY <1>7 DEF vars
<1> QED
  BY <1>1, <1>2, <1>3, <1>4, <1>5, <1>6, <1>7 DEF Next, Wait, Actor

\* Only the daemon's own steps change what it has looked at.
LEMMA LooksNext == ~Overlap /\ ~Crashes /\ GInv /\ [Next]_vars => Looks'
<1> SUFFICES ASSUME ~Overlap, ~Crashes, GInv, [Next]_vars PROVE Looks'
  OBVIOUS
<1>0. /\ pc \in [Actor -> CallPCs \cup {"new", "loop", "in", "gone", "idle"}] /\ wq \in [Actor -> Queue \cup {-1}]
      /\ Daemon \in Actor /\ Daemon \notin Proc /\ Looks /\ OneCall /\ \A p \in Proc : p \in Actor
  BY Distinct DEF GInv, SInv, TInv, TypeOK, Actor
<1> USE <1>0 DEF Goto, lists, purgeVars
\* A process in a call: the daemon is in none, and begins none.
<1>1. ASSUME NEW p \in Proc, pc[p] \in CallPCs \/ MayCall(p),
             pc' = [pc EXCEPT ![p] = pc'[p]], pc'[p] # "new", robbed' = robbed,
             \A b \in Actor \ {p} : wq'[b] = wq[b]
      PROVE  Looks'
  <2>1. pc[Daemon] \notin CallPCs
    BY <1>1 DEF OneCall, MayCall
  <2>2. pc'[Daemon] \notin {"kill", "unlink"}
    BY <1>1, <2>1 DEF CallPCs
  <2> QED
    BY <1>1, <2>2 DEF Looks
<1>2. ASSUME NEW p \in Proc, NEW q \in Queue, Arrive(p, q) PROVE Looks'
  <2>1. pc'[p] # "new" /\ pc' = [pc EXCEPT ![p] = pc'[p]] /\ robbed' = robbed /\ MayCall(p)
        /\ \A b \in Actor \ {p} : wq'[b] = wq[b]
    BY <1>2 DEF Arrive
  <2> QED
    BY <1>1, <2>1
<1>3. ASSUME NEW p \in Proc, Crash(p) \/ Depart(p) PROVE Looks'
  BY <1>3 DEF Crash, Depart, Looks
<1>4. ASSUME NEW p \in Proc, GiveUp(p) \/ TryNow(p) \/ LostEntry(p) \/ Served(p) PROVE Looks'
  <2>1. pc'[p] # "new" /\ pc' = [pc EXCEPT ![p] = pc'[p]] /\ robbed' = robbed
        /\ (pc[p] \in CallPCs \/ MayCall(p)) /\ \A b \in Actor \ {p} : wq'[b] = wq[b]
    BY <1>4 DEF GiveUp, TryNow, LostEntry, Served, CallPCs
  <2> QED
    BY <1>1, <2>1
<1>5. ASSUME NEW p \in Proc, QueueAdd(p) PROVE Looks'
  <2>1. pc'[p] # "new" /\ pc' = [pc EXCEPT ![p] = pc'[p]] /\ robbed' = robbed
        /\ pc[p] \in CallPCs /\ \A b \in Actor \ {p} : wq'[b] = wq[b]
    <3>1. CASE AddEntry(p)
      BY <3>1 DEF AddEntry, CallPCs
    <3>2. CASE AddTest(p) \/ AddFirst(p)
      BY <3>2 DEF AddTest, AddFirst, CallPCs
    <3>3. CASE AddTail(p)
      BY <3>3 DEF AddTail, CallPCs
    <3>4. CASE AddLast(p) \/ AddDone(p)
      BY <3>4 DEF AddLast, AddDone, CallPCs
    <3> QED
      BY <1>5, <3>1, <3>2, <3>3, <3>4 DEF QueueAdd
  <2> QED
    BY <1>1, <2>1
<1>6. ASSUME NEW a \in Actor, QueueExit(a) PROVE Looks'
  <2>1. pc'[a] \notin {"new", "kill", "unlink"} /\ pc' = [pc EXCEPT ![a] = pc'[a]]
        /\ pc[a] \in CallPCs /\ \A b \in Actor \ {a} : wq'[b] = wq[b]
    <3>1. After(a) \in {"purge", "in", "gone"}
      BY DEF After
    <3>2. CASE ExitPrevious(a)
      BY <3>1, <3>2 DEF ExitPrevious, CallPCs
    <3>3. CASE ExitNext(a)
      BY <3>3 DEF ExitNext, CallPCs
    <3>4. CASE ExitClear(a)
      BY <3>4 DEF ExitClear, CallPCs
    <3>5. CASE QueueUpdate(a)
      BY <3>1, <3>5 DEF QueueUpdate, CallPCs
    <3> QED
      BY <1>6, <3>2, <3>3, <3>4, <3>5 DEF QueueExit
  <2>2. ~robbed'
    <3>1. CASE ExitPrevious(a)
      <4>1. ~Robs(a)
        BY <3>1 DEF Robs, Looks, ExitPrevious
      <4> QED
        BY <3>1, <4>1 DEF ExitPrevious, Looks
    <3>2. CASE ~ExitPrevious(a)
      BY <1>6, <3>2 DEF QueueExit, ExitNext, ExitClear, QueueUpdate, Looks
    <3> QED
      BY <3>1, <3>2
  <2>3. CASE a \in Proc
    <3>1. robbed' = robbed
      BY <2>2, <1>6 DEF QueueExit, ExitPrevious, ExitNext, ExitClear, QueueUpdate, GInv, TInv, TypeOK, Looks
    <3> QED
      BY <1>1, <2>1, <2>3, <3>1
  <2>4. CASE a = Daemon
    BY <2>1, <2>2, <2>4 DEF Looks
  <2> QED
    BY <2>3, <2>4 DEF Actor
<1>7. CASE Purge
  <2>1. CASE PurgeStart \/ PurgeNextQueue \/ PurgeInvalid \/ PurgeTooMany
    BY <2>1 DEF PurgeStart, PurgeNextQueue, PurgeInvalid, PurgeTooMany, Looks
  <2>2. CASE PurgeEntry
    <3>1. /\ victim' = w[next].process /\ w' = w /\ robbed' = robbed /\ wq' = wq
          /\ pc' = [pc EXCEPT ![Daemon] = "kill"] /\ mywait' = [mywait EXCEPT ![Daemon] = next]
      BY <2>2 DEF PurgeEntry
    <3>2. mywait'[Daemon] = next
      BY <3>1 DEF GInv, TInv, TypeOK
    <3> QED
      BY <3>1, <3>2 DEF Looks
  <2>3. CASE PurgeKill
    <3>1. CASE NoSuchProcess(victim)
      BY <2>3, <3>1 DEF PurgeKill, Looks
    <3>2. CASE ~NoSuchProcess(victim)
      BY <2>3, <3>2 DEF PurgeKill, Looks
    <3> QED
      BY <3>1, <3>2
  <2> QED
    BY <1>6, <1>7, <2>1, <2>2, <2>3 DEF Purge
<1>8. CASE UNCHANGED vars
  BY <1>8 DEF vars, Looks
<1> QED
  BY <1>2, <1>3, <1>4, <1>5, <1>6, <1>7, <1>8 DEF Next, Wait

\* The whole invariant: at the start ...
LEMMA GInvInit == Init => GInv
<1>1. Init => IdleCount /\ Looks
  BY Distinct DEF Init, IdleCount, Looks, Actor
<1> QED
  BY <1>1, QInvInit, TInvInit, SInvInit DEF GInv

\* ... and after every step.
LEMMA GInvNext == ~Overlap /\ ~Crashes /\ GInv /\ [Next]_vars => GInv'
<1>1. QInv => EntryKnown
  BY DEF QInv, OwnEntry, PurgesDead, EntryKnown
<1>2. Looks' => ~robbed'
  BY DEF Looks
<1> QED
  BY <1>1, <1>2, QInvNext, TInvNext, SInvNext, IdleCountNext, LooksNext DEF GInv

\* queue.c:17-19: when calls do not overlap, no step ever finds an invalid,
\* unused or lost entry.  For every number of processes, queues and entries.
THEOREM NoErrors ==
  ASSUME ~Overlap, ~Crashes
  PROVE  Spec => []NoListError
<1>1. GInv => NoListError
  BY DEF GInv, SInv, NoListError
<1>2. GInv /\ [Next]_vars => GInv'
  BY GInvNext
<1> QED
  BY <1>1, <1>2, GInvInit, PTL DEF Spec

\* When calls do not overlap, each list is its line whenever no call is at
\* work: from either end, with the right counts, and with no entry lost.
THEOREM ListsWhole ==
  ASSUME ~Overlap, ~Crashes
  PROVE  Spec => []ListsHoldLines
<1>1. GInv => ListsHoldLines
  <2> SUFFICES ASSUME GInv, \A a \in Actor : pc[a] \notin CallPCs
               PROVE  /\ \A q \in Queue : ListHoldsLine(q)
                      /\ \A i \in Entry : w[i].inuse => \E q \in Queue : \E k \in DOMAIN Reached(q) : Reached(q)[k] = i
    BY DEF ListsHoldLines
  <2>1. LinesOK /\ \A q \in Queue : Whole(q)
    BY DEF GInv, SInv, QuietLists, Quiet, CallPCs
  <2>2. ASSUME NEW q \in Queue
        PROVE  /\ Reached(q) = Ents(q) /\ ~BadEnd(q)
               /\ Ents(q) \in Seq(Entry) /\ Len(Ents(q)) = Len(line[q]) /\ Len(line[q]) \in Nat
               /\ line[q] \in Seq(Proc)
    BY <2>1, WholeReached, EntsSeq DEF Whole
  <2>3. ASSUME NEW q \in Queue PROVE ListHoldsLine(q)
    <3> DEFINE s == Ents(q)
               n == Len(line[q])
    <3>1. Reached(q) = s /\ ~BadEnd(q) /\ s \in Seq(Entry) /\ Len(s) = n /\ n \in Nat /\ line[q] \in Seq(Proc)
      BY <2>2
    <3>2. last[q] = At(s, n) /\ count[q] = n
          /\ \A k \in 1..n : w[s[k]].previous = At(s, k-1) /\ w[s[k]].count = k-1
      BY <2>1, <3>1 DEF Whole, Previouses, Counts
    <3>3. \A k \in 1..n : w[s[k]].process = line[q][k] /\ w[s[k]].w_queue = q
      <4> SUFFICES ASSUME NEW k \in 1..n PROVE w[s[k]].process = line[q][k] /\ w[s[k]].w_queue = q
        OBVIOUS
      <4> QED
        BY <2>1, EntAt
    <3> HIDE DEF s
    <3>4. [k \in 1..n |-> w[s[k]].process] = line[q]
      BY <3>1, <3>3
    <3>5. last[q] = (IF s = <<>> THEN -1 ELSE s[Len(s)])
      BY <3>1, <3>2 DEF At
    <3>6. \A k \in 1..n : w[s[k]].previous = (IF k = 1 THEN -1 ELSE s[k-1])
      BY <3>1, <3>2 DEF At
    <3>7. DOMAIN s = 1..n
      BY <3>1
    <3> HIDE DEF n
    <3> QED
      BY <3>1, <3>2, <3>3, <3>4, <3>5, <3>6, <3>7 DEF ListHoldsLine
  <2>4. ASSUME NEW i \in Entry, w[i].inuse PROVE \E q \in Queue : \E k \in DOMAIN Reached(q) : Reached(q)[k] = i
    <3>1. \A p \in Proc : ~Adding(p)
      BY DEF Adding, Actor, CallPCs
    <3>2. PICK q \in Queue : Holds(q, i)
      BY <2>4, <3>1 DEF GInv, SInv, Pool
    <3>3. PICK k \in 1..Len(line[q]) : Ents(q)[k] = i
      BY <3>2 DEF Holds, Ents
    <3>4. DOMAIN Reached(q) = 1..Len(line[q]) /\ Reached(q)[k] = i
      BY <3>3, <2>2
    <3> QED
      BY <3>3, <3>4
  <2> QED
    BY <2>3, <2>4
<1>2. GInv /\ [Next]_vars => GInv'
  BY GInvNext
<1> QED
  BY <1>1, <1>2, GInvInit, PTL DEF Spec

\* The entry at the head of a line is that of the process at its head.
LEMMA HeadEntry ==
  ASSUME LinesOK, NEW q \in Queue, 1 \in 1..Len(line[q])
  PROVE  /\ line[q][1] \in Proc /\ Ents(q)[1] = mywait[line[q][1]]
         /\ w[Ents(q)[1]].process = line[q][1]
<1>1. Ents(q)[1] = mywait[line[q][1]] /\ line[q][1] \in Proc
  BY DEF Ents, LinesOK
<1>2. InLine(line[q][1], q)
  BY DEF LinesOK
<1> QED
  BY <1>1, <1>2 DEF InLine

\* Nobody is blocked by the lists: when no call is at work on them, the head of
\* a line is the one who may try for a slot, or it is dead and the first that
\* the purge comes to.
HeadHasTurn ==
  (\A a \in Actor : pc[a] \notin CallPCs) =>
    \A q \in Queue :
      line[q] # <<>> =>
        LET p == Head(line[q]) IN
        /\ first[q] = mywait[p] /\ w[first[q]].process = p
        /\ (pc[p] = "loop" /\ MyTurn(p)) \/ NoSuchProcess(p)

\* When calls do not overlap, no line is stuck behind an entry of nobody: the
\* safety half of EveryoneServed.
THEOREM HeadMayMove ==
  ASSUME ~Overlap, ~Crashes
  PROVE  Spec => []HeadHasTurn
<1>1. GInv => HeadHasTurn
  <2> SUFFICES ASSUME GInv, \A a \in Actor : pc[a] \notin CallPCs,
                      NEW q \in Queue, line[q] # <<>>
               PROVE  LET p == Head(line[q]) IN
                      /\ first[q] = mywait[p] /\ w[first[q]].process = p
                      /\ (pc[p] = "loop" /\ MyTurn(p)) \/ NoSuchProcess(p)
    BY DEF HeadHasTurn
  <2> DEFINE p == line[q][1]
  <2>1. LinesOK /\ Whole(q)
    BY DEF GInv, SInv, QuietLists, Quiet, CallPCs
  <2>2. line[q] \in Seq(Proc) /\ Len(Ents(q)) = Len(line[q])
    BY <2>1, EntsSeq
  <2>3. Head(line[q]) = p /\ 1 \in 1..Len(line[q])
    BY <2>2
  <2>4. first[q] = Ents(q)[1]
    BY <2>1, <2>2, <2>3 DEF Whole, Nexts, At
  <2>5. /\ p \in Proc /\ Ents(q)[1] = mywait[p] /\ w[Ents(q)[1]].process = p
    BY <2>1, <2>3, HeadEntry
  <2>6. wq[p] = q /\ pc[p] \in {"loop", "unlink", "relink", "clear", "gone"}
    BY <2>1, <2>3 DEF LinesOK, InLine
  <2>7. pc[p] \in {"loop", "gone"}
    BY <2>5, <2>6 DEF Actor, CallPCs
  <2> HIDE DEF p
  <2> QED
    BY <2>3, <2>4, <2>5, <2>6, <2>7 DEF MyTurn, NoSuchProcess, Alive
<1>2. GInv /\ [Next]_vars => GInv'
  BY GInvNext
<1> QED
  BY <1>1, <1>2, GInvInit, PTL DEF Spec

\* A process in a line is there once; one that has a slot and no call at
\* work for it is in none.
LEMMA WhoWaits ==
  ASSUME GInv, NEW p \in Proc
  PROVE  /\ Fifo!Waiting(p) => pc[p] \in {"loop", "unlink", "relink", "clear", "gone"}
         /\ pc[p] = "loop" => Fifo!Waiting(p)
<1>1. LinesOK /\ line \in [Queue -> Seq(Proc)]
  BY DEF GInv, SInv, LinesOK
<1>2. \A q \in Queue : DOMAIN line[q] = 1..Len(line[q])
  BY <1>1
<1>3. Fifo!Waiting(p) => pc[p] \in {"loop", "unlink", "relink", "clear", "gone"}
  BY <1>1, <1>2 DEF LinesOK, InLine, Fifo!Waiting, Fifo!InLine
<1>4. pc[p] = "loop" => Fifo!Waiting(p)
  <2> SUFFICES ASSUME pc[p] = "loop" PROVE Fifo!Waiting(p)
    OBVIOUS
  <2>1. wq[p] \in Queue
    BY DEF GInv, TInv, QueueKnown
  <2>2. \E k \in 1..Len(line[wq[p]]) : line[wq[p]][k] = p
    BY DEF GInv, SInv, Present
  <2> QED
    BY <2>1, <2>2, <1>2 DEF Fifo!Waiting, Fifo!InLine
<1> QED
  BY <1>3, <1>4

\* The steps that the promise speaks of.
LEMMA AdmitStep ==
  ASSUME GInv, ~Overlap, NEW p \in Proc, TryNow(p) \/ Served(p), admitted' # admitted
  PROVE  \E q \in Queue : Fifo!Admit(p, q)
<1> DEFINE q == wq[p]
<1>0. p \in Actor /\ q \in Queue /\ line' = line /\ wq' = wq /\ LinesOK
  BY DEF Actor, TryNow, Served, GInv, SInv, TInv, QueueKnown
<1>1. CASE TryNow(p)
  <2>1. pc[p] = "try" /\ Pick(p)
    BY <1>1 DEF TryNow
  <2>2. p \notin admitted /\ line[q] = <<>>
    BY <2>1 DEF GInv, SInv, AdmittedOK, AddOK, AddOKAt
  <2> QED
    BY <1>0, <2>1, <2>2 DEF Fifo!Admit, Pick
<1>2. CASE Served(p)
  <2>1. pc[p] = "loop" /\ Pick(p) /\ mywait[p] = first[q] /\ Alone(p)
    BY <1>0, <1>2, IsAlone DEF Served, MyTurn, Goto, GInv, TInv, TypeOK
  <2>2. p \notin admitted
    BY <2>1 DEF GInv, SInv, AdmittedOK
  <2>3. PICK k \in 1..Len(line[q]) : line[q][k] = p
    BY <2>1 DEF GInv, SInv, Present
  <2>4. Ents(q)[k] = first[q]
    BY <2>1, <2>3 DEF Ents
  <2>5. /\ first[q] = At(Ents(q), 1) /\ Len(Ents(q)) = Len(line[q]) /\ Injective(Ents(q))
        /\ line[q] \in Seq(Proc)
    <3>1. Whole(q)
      BY <1>0, <2>1, WholeNow DEF AtWork
    <3> QED
      BY <3>1, <1>0, EntsSeq DEF Whole, Nexts
  <2>6. k = 1
    <3> DEFINE s == Ents(q)
    <3> HIDE DEF s
    <3>1. 1 \in 1..Len(line[q])
      BY <2>5
    <3> QED
      BY <3>1, <2>4, <2>5 DEF Injective, At, s
  <2>7. line[q] # <<>> /\ Head(line[q]) = p
    BY <2>3, <2>5, <2>6
  <2> QED
    BY <1>0, <2>1, <2>2, <2>7 DEF Fifo!Admit, Pick
<1> QED
  BY <1>1, <1>2

\* The last store of queue_add() puts the process at the end of its line.
LEMMA JoinStep ==
  ASSUME GInv, NEW p \in Proc, AddDone(p)
  PROVE  \E q \in Queue : Fifo!Join(p, q)
<1>1. pc[p] = "done" /\ wq[p] \in Queue /\ wq' = wq
  BY DEF AddDone, GInv, TInv, QueueKnown
<1>2. ~Fifo!Waiting(p) /\ p \notin admitted
  BY <1>1, WhoWaits DEF GInv, SInv, AdmittedOK
<1> QED
  BY <1>1, <1>2 DEF AddDone, Fifo!Join

\* The third store of queue_exit() takes one process out of its line.
LEMMA LeaveStep ==
  ASSUME GInv, NEW a \in Actor, ExitClear(a)
  PROVE  \E p \in Proc : \E q \in Queue : Fifo!Leave(p, q)
<1> DEFINE q == wq[a]
           p == w[mywait[a]].process
<1>1. q \in Queue /\ LinesOK
  BY ExitFacts DEF ExitClear, GInv, SInv
<1>2. PICK k \in 1..Len(line[q]) : Ents(q)[k] = mywait[a]
  BY ExitFacts DEF ExitClear
<1>3. line[q][k] = p /\ p \in Proc
  <2>1. w[Ents(q)[k]].process = line[q][k] /\ line[q][k] \in Proc
    BY <1>1, EntAt
  <2> QED
    BY <2>1, <1>2
<1>4. DOMAIN line[q] = 1..Len(line[q])
  BY <1>1 DEF LinesOK
<1> QED
  BY <1>1, <1>3, <1>4 DEF ExitClear, Fifo!Leave, Fifo!InLine

\* Who comes for a slot is new, and wants no other queue.
LEMMA ComeStep ==
  ASSUME GInv, NEW p \in Proc, NEW q \in Queue, Arrive(p, q)
  PROVE  Fifo!Come(p, q)
<1> DEFINE want == [r \in Proc |-> wq[r]]
<1>1. want[p] = -1
  BY DEF Arrive, GInv, Looks
<1>2. \A r \in Proc : wq'[r] = IF r = p THEN q ELSE wq[r]
  BY DEF Arrive, GInv, TInv, TypeOK, Actor
<1>3. want' = [want EXCEPT ![p] = q]
  BY <1>2
<1>4. line' = line /\ admitted' = admitted
  BY DEF Arrive
<1> QED
  BY <1>1, <1>3, <1>4 DEF Fifo!Come

\* Nobody changes the queue it wants: queue_exit() finds the number of the
\* line in the entry.
LEMMA WantsStay ==
  ASSUME GInv, [Next]_vars, ~\E p \in Proc : \E q \in Queue : Arrive(p, q)
  PROVE  [p \in Proc |-> wq[p]]' = [p \in Proc |-> wq[p]]
<1>0. wq \in [Actor -> Queue \cup {-1}] /\ Daemon \notin Proc /\ \A p \in Proc : p \in Actor
  BY Distinct DEF GInv, TInv, TypeOK, Actor
<1>1. ASSUME NEW p \in Proc, GiveUp(p) \/ Crash(p) \/ Depart(p) PROVE wq' = wq
  BY <1>1 DEF GiveUp, Crash, Depart
<1>2. ASSUME NEW p \in Proc, TryNow(p) \/ LostEntry(p) \/ Served(p) PROVE wq' = wq
  BY <1>2 DEF TryNow, LostEntry, Served
<1>3. ASSUME NEW p \in Proc, QueueAdd(p) PROVE wq' = wq
  BY <1>3 DEF QueueAdd, AddEntry, AddTest, AddFirst, AddTail, AddLast, AddDone
<1>4. ASSUME NEW a \in Actor, QueueExit(a) PROVE \A p \in Proc : wq'[p] = wq[p]
  <2>1. CASE ~ExitPrevious(a)
    BY <1>4, <2>1 DEF QueueExit, ExitNext, ExitClear, QueueUpdate
  <2>2. CASE ExitPrevious(a) /\ a = Daemon
    BY <2>2, <1>0 DEF ExitPrevious
  <2>3. CASE ExitPrevious(a) /\ a \in Proc
    <3>1. PICK k \in 1..Len(line[wq[a]]) : line[wq[a]][k] = a
      BY <2>3 DEF ExitPrevious, GInv, SInv, Present
    <3>2. wq[a] \in Queue
      BY <2>3 DEF ExitPrevious, GInv, TInv, QueueKnown
    <3>3. InLine(a, wq[a])
      BY <3>1, <3>2 DEF GInv, SInv, LinesOK
    <3>4. w[mywait[a]].w_queue = wq[a]
      BY <3>3 DEF InLine
    <3> QED
      BY <2>3, <3>4, <1>0 DEF ExitPrevious
  <2> QED
    BY <2>1, <2>2, <2>3 DEF Actor
<1>5. CASE Purge
  <2>1. CASE PurgeInvalid \/ PurgeEntry \/ PurgeKill
    BY <2>1 DEF PurgeInvalid, PurgeEntry, PurgeKill
  <2>2. CASE PurgeStart \/ PurgeNextQueue \/ PurgeTooMany
    <3>1. wq' = wq \/ \E q : wq' = [wq EXCEPT ![Daemon] = q]
      BY <2>2 DEF PurgeStart, PurgeNextQueue, PurgeTooMany
    <3> QED
      BY <3>1, <1>0
  <2> QED
    BY <1>4, <1>5, <2>1, <2>2 DEF Purge, Actor
<1>6. CASE UNCHANGED vars
  BY <1>6 DEF vars
<1> QED
  BY <1>1, <1>2, <1>3, <1>4, <1>5, <1>6 DEF Next, Wait, Actor

\* Every step of the lists is one that the promise allows.
LEMMA FifoNext ==
  ~Overlap /\ ~Crashes /\ GInv /\ [Next]_vars =>
    [Fifo!Next]_<<[p \in Proc |-> wq[p]], line, admitted>>
<1> DEFINE want == [p \in Proc |-> wq[p]]
<1> SUFFICES ASSUME ~Overlap, ~Crashes, GInv, [Next]_vars, ~UNCHANGED <<want, line, admitted>>
             PROVE  Fifo!Next
  OBVIOUS
<1>1. CASE \E p \in Proc : \E q \in Queue : Arrive(p, q)
  BY <1>1, ComeStep DEF Fifo!Next
<1>2. CASE ~\E p \in Proc : \E q \in Queue : Arrive(p, q)
  <2>0. UNCHANGED want /\ ~UNCHANGED <<line, admitted>>
    BY <1>2, WantsStay
  <2>1. ASSUME NEW p \in Proc, GiveUp(p) \/ Crash(p) \/ LostEntry(p) PROVE FALSE
    BY <2>0, <2>1 DEF GiveUp, Crash, LostEntry
  <2>2. ASSUME NEW p \in Proc, TryNow(p) \/ Served(p) PROVE Fifo!Next
    <3>1. line' = line
      BY <2>2 DEF TryNow, Served
    <3> QED
      BY <2>0, <2>2, <3>1, AdmitStep DEF Fifo!Next
  <2>3. ASSUME NEW p \in Proc, QueueAdd(p) PROVE Fifo!Next
    <3>1. CASE AddDone(p)
      BY <3>1, JoinStep DEF Fifo!Next
    <3>2. CASE ~AddDone(p)
      BY <2>0, <2>3, <3>2 DEF QueueAdd, AddEntry, AddTest, AddFirst, AddTail, AddLast
    <3> QED
      BY <3>1, <3>2
  <2>4. ASSUME NEW a \in Actor, QueueExit(a) PROVE Fifo!Next
    <3>1. CASE ExitClear(a)
      BY <2>0, <3>1, LeaveStep DEF Fifo!Next
    <3>2. CASE ~ExitClear(a)
      BY <2>0, <2>4, <3>2 DEF QueueExit, ExitPrevious, ExitNext, QueueUpdate
    <3> QED
      BY <3>1, <3>2
  <2>5. ASSUME NEW p \in Proc, Depart(p) PROVE Fifo!Next
    <3>1. p \in admitted /\ admitted' = admitted \ {p} /\ line' = line
      BY <2>5 DEF Depart
    <3>2. Fifo!Depart(p)
      BY <2>0, <3>1 DEF Fifo!Depart
    <3> QED
      BY <3>2 DEF Fifo!Next
  <2>6. CASE Purge
    BY <2>0, <2>6, <2>4
    DEF Purge, Actor, PurgeStart, PurgeNextQueue, PurgeInvalid, PurgeTooMany, PurgeEntry, PurgeKill
  <2>7. ~UNCHANGED vars
    BY <2>0 DEF vars
  <2> QED
    BY <1>2, <2>1, <2>2, <2>3, <2>4, <2>5, <2>6, <2>7 DEF Next, Wait, Actor
<1> QED
  BY <1>1, <1>2

\* When calls do not overlap, the doubly linked lists of queue.c implement
\* FifoLine: a newcomer passes only when nobody waits for the queue he wants,
\* and of those who wait only the head of the line is served.
THEOREM Refinement ==
  ASSUME ~Overlap, ~Crashes
  PROVE  Spec => ServedInOrder
<1>1. Init => Fifo!Init
  BY DEF Init, Fifo!Init, Actor
<1>2. GInv /\ [Next]_vars => GInv' /\ [Fifo!Next]_<<[p \in Proc |-> wq[p]], line, admitted>>
  BY GInvNext, FifoNext
<1> QED
  BY <1>1, <1>2, GInvInit, PTL DEF Spec, ServedInOrder, Fifo!Spec
=============================================================================
