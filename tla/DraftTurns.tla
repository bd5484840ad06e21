---------------------------- MODULE DraftTurns ----------------------------
(***************************************************************************)
(* What the captains of a draft are promised: "the captains alternate in   *)
(* using lock or tractor to pick players from the pool", and "a captain    *)
(* can pass on his round" (README.inl-draft, f and g).                     *)
(***************************************************************************)
EXTENDS Naturals

CONSTANTS Nobody    \* no team

VARIABLES
  turn,     \* the team that has the right to pick, or Nobody
  picks     \* picks of each team since the draft began

Teams == {"FED", "ROM"}
Other(t) == IF t = "ROM" THEN "FED" ELSE "ROM"

Init == turn = Nobody /\ picks = [t \in Teams |-> 0]

\* The turn goes to the other team, or is lost when its captain is away.
HandOver(t) == turn = t /\ turn' \in {Other(t), Nobody}

Pick(t) == HandOver(t) /\ picks' = [picks EXCEPT ![t] = @ + 1]

Pass(t) == HandOver(t) /\ UNCHANGED picks

\* Nobody has the right to pick, and a captain gets to his place.
Take(t) == turn = Nobody /\ turn' = t /\ UNCHANGED picks

\* The captain who has it goes away, or the draft is done.
Drop == turn' = Nobody /\ UNCHANGED picks

Begin == turn' = Nobody /\ picks' = [t \in Teams |-> 0]

Next == Drop \/ Begin \/ \E t \in Teams : Pick(t) \/ Pass(t) \/ Take(t)

Spec == Init /\ [][Next]_<<turn, picks>>
=============================================================================
