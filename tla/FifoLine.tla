------------------------------ MODULE FifoLine ------------------------------
(***************************************************************************)
(* What a waiting line of the server promises: one line per queue, served  *)
(* from the head, and nobody overtakes it.  Module WaitQueue implements    *)
(* it.                                                                     *)
(***************************************************************************)
EXTENDS Naturals, Sequences

CONSTANTS Proc, Queue, Nowhere

VARIABLES
  wants,     \* wants[p]: the queue p has come for, or Nowhere
  line,      \* line[q]: the processes waiting for queue q, first come first
  admitted   \* the processes that have been given a slot

InLine(p, q) == \E i \in DOMAIN line[q] : line[q][i] = p

Waiting(p) == \E q \in Queue : InLine(p, q)

\* The line s without process p; the others keep their order.
Without(s, p) ==
  IF \E i \in DOMAIN s : s[i] = p
  THEN LET k == CHOOSE i \in DOMAIN s : s[i] = p
       IN [i \in 1..Len(s)-1 |-> IF i < k THEN s[i] ELSE s[i+1]]
  ELSE s

Init ==
  /\ wants = [p \in Proc |-> Nowhere]
  /\ line = [q \in Queue |-> <<>>]
  /\ admitted = {}

\* A process comes for a slot of queue q, for good.
Come(p, q) ==
  /\ wants[p] = Nowhere
  /\ wants' = [wants EXCEPT ![p] = q]
  /\ UNCHANGED <<line, admitted>>

\* A process that is not in a line joins the end of its own.
Join(p, q) ==
  /\ wants[p] = q
  /\ ~Waiting(p)
  /\ p \notin admitted
  /\ line' = [line EXCEPT ![q] = Append(@, p)]
  /\ UNCHANGED <<wants, admitted>>

\* A slot of queue q goes to the head of its line, or, when nobody waits in
\* that line, to a newcomer who wants it.
Admit(p, q) ==
  /\ wants[p] = q
  /\ p \notin admitted
  /\ line[q] = <<>> \/ Head(line[q]) = p
  /\ admitted' = admitted \cup {p}
  /\ UNCHANGED <<wants, line>>

\* A process leaves its line, from any place.
Leave(p, q) ==
  /\ InLine(p, q)
  /\ line' = [line EXCEPT ![q] = Without(@, p)]
  /\ UNCHANGED <<wants, admitted>>

\* An admitted process that has left the line ends its game.
Depart(p) ==
  /\ p \in admitted
  /\ admitted' = admitted \ {p}
  /\ UNCHANGED <<wants, line>>

Next ==
  \E p \in Proc :
    \/ Depart(p)
    \/ \E q \in Queue : Come(p, q) \/ Join(p, q) \/ Admit(p, q) \/ Leave(p, q)

Spec == Init /\ [][Next]_<<wants, line, admitted>>
=============================================================================
