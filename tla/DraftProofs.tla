---------------------------- MODULE DraftProofs ----------------------------
(***************************************************************************)
(* The draft implements DraftTurns, every player who is sent home has a    *)
(* team, and picks of a team stand in different places: for every number   *)
(* of slots, players who come and go, and drafts.                          *)
(*                                                                         *)
(* The argument rests on who is captain.  As long as no team has had two,  *)
(* two flagged players in the game are of different teams (OneCaptain); a  *)
(* newcomer with the flag of a captain who left has no team.  Hence at     *)
(* most one captain has the right to pick (OneUp), and the captain to whom *)
(* the turn passes is of the other team or has none.                       *)
(***************************************************************************)
EXTENDS Draft, FiniteSetTheorems, TLAPS

InGame(p) == status[p] \in {"OUTFIT", "ALIVE"}

\* change_team_quietly() and enter() keep the team and the queue together.
QueueOfTeam == \A p \in Players : team[p] \in Teams => queue[p] = team[p]

\* A flagged player has a team, unless he is a newcomer in a captain's slot.
FlagOfCaptain ==
  \A p \in Players :
    captain[p] => /\ InGame(p) => team[p] \in Teams
                  /\ status[p] = "LOGIN" => team[p] = Nobody

OneCaptain ==
  \A p, q \in Players :
    captain[p] /\ captain[q] /\ InGame(p) /\ InGame(q) /\ team[p] = team[q] => p = q

CaptaincyHasFlag ==
  \A p \in Players : status[p] = "ALIVE" /\ draft[p] \in Captaincy => captain[p]

OneUp == \A p, q \in Up : p = q

TeamlessInPool ==
  \A p \in Players : status[p] = "ALIVE" /\ team[p] \notin Teams => draft[p] \in Pooled

PoolEmptied ==
  inl_draft # "MOVING_TO_POOL"
    => \A p \in Players : status[p] = "ALIVE" => draft[p] \notin Pooled

PlaceInRange ==
  \A p \in Players :
    status[p] = "ALIVE" /\ draft[p] \in Picked
      => team[p] \in Teams /\ pick[p] < picks[team[p]]

Order == QueueOfTeam /\ FlagOfCaptain /\ CaptaincyHasFlag /\ (~disputed => OneCaptain /\ OneUp)

\* What a step of the draft is to DraftTurns.
TurnStep == disputed' \/ [Turns!Next]_<<Turn, picks>>

\* A step that gives nobody the turn.
NoTurn ==
  /\ Up' \subseteq Up /\ \A c \in Up' : team'[c] = team[c]
  /\ picks' = picks /\ (disputed => disputed')
Ends == TeamlessInPool /\ PoolEmptied
Places == PlaceInRange /\ PlacesDistinct

IInv == TypeOK /\ Order /\ Ends /\ Places

-----------------------------------------------------------------------------
(* The loops by slot number.                                               *)

\* The initial segments of the slots are ordered by inclusion, which is
\* well-founded on the subsets of a finite set.
LEMMA FirstPlayer ==
  ASSUME NEW S \in SUBSET Players, S # {}
  PROVE  First(S) \in S
<1> DEFINE R == StrictSubsetOrdering(Players)
           T == {0 .. p : p \in S}
<1>1. Players \subseteq Nat /\ \A p \in Players : 0 .. p \subseteq Players
  BY DraftAssumption DEF Players
<1>2. IsFiniteSet(Players)
  BY DraftAssumption, FS_Interval DEF Players
<1>3. IsWellFoundedOn(R, SUBSET Players)
  BY <1>2, FS_StrictSubsetOrderingWellFounded, FS_FiniteSubsetsOfFinite
<1>4. T \subseteq SUBSET Players /\ T # {}
  BY <1>1
<1>5. PICK X \in T : \A Y \in T : ~ (<<Y, X>> \in R)
  BY <1>3, <1>4, WFMin
<1>6. PICK p \in S : X = 0 .. p
  BY <1>5
<1>7. ASSUME NEW q \in S PROVE p <= q
  <2>1. SUFFICES ASSUME q < p PROVE FALSE
    BY <1>1
  <2>2. 0 .. q \subseteq 0 .. p /\ 0 .. q # 0 .. p
    <3>1. p \in 0 .. p /\ p \notin 0 .. q
      BY <1>1, <2>1
    <3> QED BY <1>1, <2>1, <3>1
  <2>3. <<0 .. q, X>> \in R
    BY <1>4, <1>6, <2>2 DEF StrictSubsetOrdering
  <2> QED BY <1>5, <2>3
<1> QED BY <1>7 DEF First

LEMMA FirstOfOne ==
  ASSUME NEW p \in Players
  PROVE  First({p}) = p
BY DraftAssumption DEF First, Players

-----------------------------------------------------------------------------
(* Captains and the turn.                                                  *)

LEMMA OthersAreTeams ==
  \A t \in Teams : Other(t) \in Teams /\ Other(t) # t /\ \A u \in Teams : u = t \/ u = Other(t)
BY DEF Other, Teams

LEMMA UpInGame ==
  ASSUME TypeOK, FlagOfCaptain, NEW c \in Up
  PROVE  /\ c \in Players /\ captain[c] /\ InGame(c) /\ team[c] \in Teams
         /\ draft[c] = "CAPTAIN_UP" /\ status[c] # "FREE"
BY DraftAssumption DEF TypeOK, FlagOfCaptain, Up, Involved, InGame, Teams

LEMMA TurnOfUp ==
  ASSUME TypeOK, OneUp
  PROVE  /\ Up = {} => Turn = Nobody
         /\ \A c \in Up : Up = {c} /\ Turn = team[c]
<1>1. ASSUME NEW c \in Up PROVE Up = {c}
  BY DEF OneUp
<1>2. ASSUME NEW c \in Up PROVE Turn = team[c]
  <2>1. c \in Players
    BY DEF Up, Involved
  <2> QED BY <1>1, <2>1, FirstOfOne DEF Turn
<1> QED BY <1>1, <1>2 DEF Turn

\* A step that gives nobody the turn leaves it or takes it away.
LEMMA TurnDrops ==
  ASSUME IInv, Order', NoTurn
  PROVE  TurnStep
<1> SUFFICES ASSUME ~disputed' PROVE [Turns!Next]_<<Turn, picks>>
  BY DEF TurnStep
<1> USE DEF NoTurn
<1>0. OneUp /\ OneUp'
  BY DEF IInv, Order
<1>1. CASE Up' = {}
  <2>1. Turn' = Nobody
    BY <1>1 DEF Turn
  <2> QED BY <2>1 DEF Turns!Next, Turns!Drop
<1>2. CASE Up' # {}
  <2>1. PICK c \in Up' : TRUE
    BY <1>2
  <2>2. Turn = team[c]
    BY <1>0, <2>1, TurnOfUp DEF IInv
  <2>3. Turn' = team'[c]
    <3>1. Up' = {c}
      BY <1>0, <2>1 DEF OneUp
    <3>2. c \in Players
      BY <2>1 DEF Up, Involved
    <3> QED BY <3>1, <3>2, FirstOfOne DEF Turn
  <2> QED BY <2>1, <2>2, <2>3
<1> QED BY <1>1, <1>2

-----------------------------------------------------------------------------
(* Players come, enter, die and leave.                                     *)

LEMMA InitInv == Init => IInv
<1> SUFFICES ASSUME Init PROVE IInv
  OBVIOUS
<1>1. TypeOK
  BY DraftAssumption DEF Init, TypeOK, Players, Teams, States, None
<1>2. Order /\ Ends /\ Places
  BY DEF Init, Order, Ends, Places, QueueOfTeam, FlagOfCaptain, CaptaincyHasFlag, OneCaptain, OneUp, Up,
         Involved, TeamlessInPool, PoolEmptied, PlaceInRange, PlacesDistinct, Captaincy, Pooled,
         Picked, Teams
<1> QED BY <1>1, <1>2 DEF IInv

LEMMA ConnectInv ==
  ASSUME IInv, NEW p \in Players, Connect(p)
  PROVE  IInv' /\ NoTurn
<1> USE DEF Connect, game, robot, bounds
<1>1. TypeOK'
  BY DraftAssumption DEF IInv, TypeOK, Teams
<1>2. \A c \in Up' : c \in Up /\ team'[c] = team[c]
  BY DraftAssumption DEF IInv, TypeOK, Up, Involved, Teams
<1>3. Order'
  BY <1>2, DraftAssumption DEF IInv, TypeOK, Order, QueueOfTeam, FlagOfCaptain, CaptaincyHasFlag,
     OneCaptain, OneUp, InGame, Teams
<1>4. Ends'
  BY DEF IInv, TypeOK, Ends, TeamlessInPool, PoolEmptied
<1>5. Places'
  BY DEF IInv, TypeOK, Places, PlaceInRange, PlacesDistinct
<1> QED BY <1>1, <1>2, <1>3, <1>4, <1>5 DEF IInv, NoTurn

LEMMA LoginInv ==
  ASSUME IInv, NEW p \in Players, Login(p)
  PROVE  IInv' /\ NoTurn
<1> USE DEF Login, game, robot, bounds
<1>1. TypeOK'
  BY DraftAssumption DEF IInv, TypeOK
<1>2. \A c \in Up' : c \in Up /\ team'[c] = team[c]
  BY DraftAssumption DEF IInv, TypeOK, Order, CaptaincyHasFlag, Captaincy, Up, Involved, Teams
<1>3. Order'
  <2>1. QueueOfTeam'
    BY DraftAssumption DEF IInv, TypeOK, Order, QueueOfTeam, Teams
  <2>2. FlagOfCaptain'
    BY DraftAssumption DEF IInv, TypeOK, Order, QueueOfTeam, FlagOfCaptain, InGame, Teams, None, Players
  <2>3. CaptaincyHasFlag'
    BY DEF IInv, TypeOK, Order, CaptaincyHasFlag, Captaincy
  <2>4. ~disputed' => OneCaptain' /\ OneUp'
    BY <1>2, DraftAssumption DEF IInv, TypeOK, Order, OneCaptain, OneUp, InGame, Teams
  <2> QED BY <2>1, <2>2, <2>3, <2>4 DEF Order
<1>4. Ends'
  BY DraftAssumption DEF IInv, TypeOK, Ends, TeamlessInPool, PoolEmptied, Pooled, Teams
<1>5. Places'
  BY DEF IInv, TypeOK, Places, PlaceInRange, PlacesDistinct, Picked
<1> QED BY <1>1, <1>2, <1>3, <1>4, <1>5 DEF IInv, NoTurn

LEMMA EnterInv ==
  ASSUME IInv, NEW p \in Players, Enter(p)
  PROVE  IInv' /\ NoTurn
<1> USE DEF Enter, game, robot, bounds
<1>1. TypeOK'
  BY DEF IInv, TypeOK, States
<1>2. \A c \in Up' : c \in Up /\ team'[c] = team[c]
  BY DraftAssumption DEF IInv, TypeOK, Order, CaptaincyHasFlag, Captaincy, Up, Involved, Teams
<1>3. Order'
  <2>1. QueueOfTeam'
    BY DraftAssumption DEF IInv, TypeOK, Order, QueueOfTeam, Teams
  <2>2. FlagOfCaptain'
    BY DraftAssumption DEF IInv, TypeOK, Order, QueueOfTeam, FlagOfCaptain, InGame, Teams, None, Players
  <2>3. CaptaincyHasFlag'
    BY DEF IInv, TypeOK, Order, CaptaincyHasFlag, Captaincy
  <2>4. ~disputed' => OneCaptain' /\ OneUp'
    BY <1>2 DEF IInv, TypeOK, Order, OneCaptain, OneUp, InGame, QueueOfTeam, FlagOfCaptain
  <2> QED BY <2>1, <2>2, <2>3, <2>4 DEF Order
<1>4. Ends'
  BY DraftAssumption DEF IInv, TypeOK, Ends, TeamlessInPool, PoolEmptied, Pooled, Teams
<1>5. Places'
  BY DEF IInv, TypeOK, Places, PlaceInRange, PlacesDistinct, Picked
<1> QED BY <1>1, <1>2, <1>3, <1>4, <1>5 DEF IInv, NoTurn

LEMMA DieInv ==
  ASSUME IInv, NEW p \in Players, Die(p)
  PROVE  IInv' /\ NoTurn
<1> USE DEF Die, game, robot, bounds, Lose
<1>1. TypeOK'
  BY DraftAssumption DEF IInv, TypeOK
<1>2. \A c \in Up' : c \in Up /\ team'[c] = team[c]
  BY DraftAssumption DEF IInv, TypeOK, Order, CaptaincyHasFlag, Captaincy, Up, Involved, Teams
<1>3. Order'
  <2>1. QueueOfTeam'
    BY DraftAssumption DEF IInv, TypeOK, Order, QueueOfTeam, Teams
  <2>2. FlagOfCaptain'
    BY DraftAssumption DEF IInv, TypeOK, Order, QueueOfTeam, FlagOfCaptain, InGame, Teams, None, Players
  <2>3. CaptaincyHasFlag'
    BY DEF IInv, TypeOK, Order, CaptaincyHasFlag, Captaincy
  <2>4. ~disputed' => OneCaptain' /\ OneUp'
    BY <1>2, DraftAssumption DEF IInv, TypeOK, Order, OneCaptain, OneUp, InGame, Teams
  <2> QED BY <2>1, <2>2, <2>3, <2>4 DEF Order
<1>4. Ends'
  BY DraftAssumption DEF IInv, TypeOK, Ends, TeamlessInPool, PoolEmptied, Pooled, Teams
<1>5. Places'
  BY DEF IInv, TypeOK, Places, PlaceInRange, PlacesDistinct, Picked
<1> QED BY <1>1, <1>2, <1>3, <1>4, <1>5 DEF IInv, NoTurn

LEMMA LeaveInv ==
  ASSUME IInv, NEW p \in Players, Leave(p)
  PROVE  IInv' /\ NoTurn
<1> USE DEF Leave, game, robot, bounds, Lose
<1>1. TypeOK'
  BY DraftAssumption DEF IInv, TypeOK
<1>2. \A c \in Up' : c \in Up /\ team'[c] = team[c]
  BY DraftAssumption DEF IInv, TypeOK, Order, CaptaincyHasFlag, Captaincy, Up, Involved, Teams
<1>3. Order'
  <2>1. QueueOfTeam'
    BY DraftAssumption DEF IInv, TypeOK, Order, QueueOfTeam, Teams
  <2>2. FlagOfCaptain'
    BY DraftAssumption DEF IInv, TypeOK, Order, QueueOfTeam, FlagOfCaptain, InGame, Teams, None, Players
  <2>3. CaptaincyHasFlag'
    BY DEF IInv, TypeOK, Order, CaptaincyHasFlag, Captaincy
  <2>4. ~disputed' => OneCaptain' /\ OneUp'
    BY <1>2, DraftAssumption DEF IInv, TypeOK, Order, OneCaptain, OneUp, InGame, Teams
  <2> QED BY <2>1, <2>2, <2>3, <2>4 DEF Order
<1>4. Ends'
  BY DraftAssumption DEF IInv, TypeOK, Ends, TeamlessInPool, PoolEmptied, Pooled, Teams
<1>5. Places'
  BY DEF IInv, TypeOK, Places, PlaceInRange, PlacesDistinct, Picked
<1> QED BY <1>1, <1>2, <1>3, <1>4, <1>5 DEF IInv, NoTurn

LEMMA TimeOutInv ==
  ASSUME IInv, NEW p \in Players, TimeOut(p)
  PROVE  IInv' /\ NoTurn
<1> USE DEF TimeOut, game, robot, bounds
<1>1. TypeOK'
  BY DraftAssumption DEF IInv, TypeOK
<1>2. \A c \in Up' : c \in Up /\ team'[c] = team[c]
  BY DraftAssumption DEF IInv, TypeOK, Order, CaptaincyHasFlag, Captaincy, Up, Involved, Teams
<1>3. Order'
  <2>1. QueueOfTeam'
    BY DraftAssumption DEF IInv, TypeOK, Order, QueueOfTeam, Teams
  <2>2. FlagOfCaptain'
    BY DraftAssumption DEF IInv, TypeOK, Order, QueueOfTeam, FlagOfCaptain, InGame, Teams, None, Players
  <2>3. CaptaincyHasFlag'
    BY DEF IInv, TypeOK, Order, CaptaincyHasFlag, Captaincy
  <2>4. ~disputed' => OneCaptain' /\ OneUp'
    BY <1>2, DraftAssumption DEF IInv, TypeOK, Order, OneCaptain, OneUp, InGame, Teams
  <2> QED BY <2>1, <2>2, <2>3, <2>4 DEF Order
<1>4. Ends'
  BY DraftAssumption DEF IInv, TypeOK, Ends, TeamlessInPool, PoolEmptied, Pooled, Teams
<1>5. Places'
  BY DEF IInv, TypeOK, Places, PlaceInRange, PlacesDistinct, Picked
<1> QED BY <1>1, <1>2, <1>3, <1>4, <1>5 DEF IInv, NoTurn

-----------------------------------------------------------------------------
(* The robot and the daemon.                                               *)

LEMMA MakeCaptainInv ==
  ASSUME IInv, NEW p \in Players, NEW t \in Teams, MakeCaptain(p, t)
  PROVE  IInv' /\ NoTurn
<1> USE DEF MakeCaptain, game, robot, bounds, OnTeam
<1>1. TypeOK'
  BY DraftAssumption DEF IInv, TypeOK
<1>2. \A c \in Up' : c \in Up /\ team'[c] = team[c]
  BY DraftAssumption DEF IInv, TypeOK, Order, CaptaincyHasFlag, Captaincy, Up, Involved, Teams
<1>3. Order'
  <2>1. QueueOfTeam'
    BY DraftAssumption DEF IInv, TypeOK, Order, QueueOfTeam, Teams
  <2>2. FlagOfCaptain'
    BY DraftAssumption DEF IInv, TypeOK, Order, QueueOfTeam, FlagOfCaptain, InGame, Teams, None, Players
  <2>3. CaptaincyHasFlag'
    BY DEF IInv, TypeOK, Order, CaptaincyHasFlag, Captaincy
  <2>4. ~disputed' => OneCaptain' /\ OneUp'
    BY <1>2 DEF IInv, TypeOK, Order, OneCaptain, OneUp, InGame, Involved
  <2> QED BY <2>1, <2>2, <2>3, <2>4 DEF Order
<1>4. Ends'
  BY DraftAssumption DEF IInv, TypeOK, Ends, TeamlessInPool, PoolEmptied, Pooled, Teams
<1>5. Places'
  BY DEF IInv, TypeOK, Places, PlaceInRange, PlacesDistinct, Picked
<1> QED BY <1>1, <1>2, <1>3, <1>4, <1>5 DEF IInv, NoTurn

LEMMA OverthrowInv ==
  ASSUME IInv, NEW p \in Players, NEW t \in Teams, Overthrow(p, t)
  PROVE  IInv' /\ NoTurn
<1> USE DEF Overthrow, game, robot, bounds, OnTeam
<1>1. TypeOK'
  BY DraftAssumption DEF IInv, TypeOK
<1>2. \A c \in Up' : c \in Up /\ team'[c] = team[c]
  BY DraftAssumption DEF IInv, TypeOK, Order, CaptaincyHasFlag, Captaincy, Up, Involved, Teams
<1>3. Order'
  <2>1. QueueOfTeam'
    BY DraftAssumption DEF IInv, TypeOK, Order, QueueOfTeam, Teams
  <2>2. FlagOfCaptain'
    BY DraftAssumption DEF IInv, TypeOK, Order, QueueOfTeam, FlagOfCaptain, InGame, Teams, None, Players
  <2>3. CaptaincyHasFlag'
    BY DEF IInv, TypeOK, Order, CaptaincyHasFlag, Captaincy
  <2>4. ~disputed' => OneCaptain' /\ OneUp'
    BY <1>2, DraftAssumption DEF IInv, TypeOK, Order, OneCaptain, OneUp, InGame, Teams
  <2> QED BY <2>1, <2>2, <2>3, <2>4 DEF Order
<1>4. Ends'
  BY DraftAssumption DEF IInv, TypeOK, Ends, TeamlessInPool, PoolEmptied, Pooled, Teams
<1>5. Places'
  BY DEF IInv, TypeOK, Places, PlaceInRange, PlacesDistinct, Picked
<1> QED BY <1>1, <1>2, <1>3, <1>4, <1>5 DEF IInv, NoTurn

LEMMA PlayerMaintInv ==
  ASSUME IInv, NEW t \in Teams, PlayerMaint(t)
  PROVE  IInv' /\ NoTurn
<1> USE DEF PlayerMaint, game, robot, bounds
<1>1. TypeOK'
  BY DraftAssumption DEF IInv, TypeOK
<1>2. \A c \in Up' : c \in Up /\ team'[c] = team[c]
  BY DraftAssumption DEF IInv, TypeOK, Order, CaptaincyHasFlag, Captaincy, Up, Involved, Teams
<1>3. Order'
  <2>1. QueueOfTeam'
    BY DraftAssumption DEF IInv, TypeOK, Order, QueueOfTeam, Teams
  <2>2. FlagOfCaptain'
    BY DraftAssumption DEF IInv, TypeOK, Order, QueueOfTeam, FlagOfCaptain, InGame, Teams, None, Players
  <2>3. CaptaincyHasFlag'
    BY DEF IInv, TypeOK, Order, CaptaincyHasFlag, Captaincy
  <2>4. ~disputed' => OneCaptain' /\ OneUp'
    BY <1>2, DraftAssumption DEF IInv, TypeOK, Order, OneCaptain, OneUp, InGame, Teams
  <2> QED BY <2>1, <2>2, <2>3, <2>4 DEF Order
<1>4. Ends'
  BY DraftAssumption DEF IInv, TypeOK, Ends, TeamlessInPool, PoolEmptied, Pooled, Teams
<1>5. Places'
  BY DEF IInv, TypeOK, Places, PlaceInRange, PlacesDistinct, Picked
<1> QED BY <1>1, <1>2, <1>3, <1>4, <1>5 DEF IInv, NoTurn

LEMMA DoneInv ==
  ASSUME IInv, Done
  PROVE  IInv' /\ NoTurn
<1> USE DEF Done, game, robot, bounds, Pool, Involved
<1>1. TypeOK'
  BY DEF IInv, TypeOK, States
<1>2. \A c \in Up' : c \in Up /\ team'[c] = team[c]
  BY DraftAssumption DEF IInv, TypeOK, Order, CaptaincyHasFlag, Captaincy, Up, Involved, Teams
<1>3. Order'
  <2>1. QueueOfTeam'
    BY DraftAssumption DEF IInv, TypeOK, Order, QueueOfTeam, Teams
  <2>2. FlagOfCaptain'
    BY DraftAssumption DEF IInv, TypeOK, Order, QueueOfTeam, FlagOfCaptain, InGame, Teams, None, Players
  <2>3. CaptaincyHasFlag'
    BY DEF IInv, TypeOK, Order, CaptaincyHasFlag, Captaincy
  <2>4. ~disputed' => OneCaptain' /\ OneUp'
    BY <1>2, DraftAssumption DEF IInv, TypeOK, Order, OneCaptain, OneUp, InGame, Teams
  <2> QED BY <2>1, <2>2, <2>3, <2>4 DEF Order
<1>4. Ends'
  BY DraftAssumption DEF IInv, TypeOK, Ends, TeamlessInPool, PoolEmptied, Pooled, Teams
<1>5. Places'
  BY DEF IInv, TypeOK, Places, PlaceInRange, PlacesDistinct, Picked
<1> QED BY <1>1, <1>2, <1>3, <1>4, <1>5 DEF IInv, NoTurn

LEMMA EndInv ==
  ASSUME IInv, End
  PROVE  IInv' /\ NoTurn
<1> USE DEF End, game, robot, bounds, Involved
<1>1. TypeOK'
  BY DEF IInv, TypeOK, States
<1>2. \A c \in Up' : c \in Up /\ team'[c] = team[c]
  BY DraftAssumption DEF IInv, TypeOK, Order, CaptaincyHasFlag, Captaincy, Up, Involved, Teams
<1>3. Order'
  <2>1. QueueOfTeam'
    BY DraftAssumption DEF IInv, TypeOK, Order, QueueOfTeam, Teams
  <2>2. FlagOfCaptain'
    BY DraftAssumption DEF IInv, TypeOK, Order, QueueOfTeam, FlagOfCaptain, InGame, Teams, None, Players
  <2>3. CaptaincyHasFlag'
    BY DEF IInv, TypeOK, Order, CaptaincyHasFlag, Captaincy
  <2>4. ~disputed' => OneCaptain' /\ OneUp'
    BY <1>2, DraftAssumption DEF IInv, TypeOK, Order, OneCaptain, OneUp, InGame, Teams
  <2> QED BY <2>1, <2>2, <2>3, <2>4 DEF Order
<1>4. Ends'
  BY DraftAssumption DEF IInv, TypeOK, Ends, TeamlessInPool, PoolEmptied, Pooled, Teams
<1>5. Places'
  BY DEF IInv, TypeOK, Places, PlaceInRange, PlacesDistinct, Picked
<1> QED BY <1>1, <1>2, <1>3, <1>4, <1>5 DEF IInv, NoTurn

LEMMA Assigned ==
  ASSUME IInv, NEW S \in SUBSET Players, AssignToPool(S)
  PROVE  /\ draft' \in [Players -> States] /\ pick' \in [Players -> Nat]
         /\ team' \in [Players -> Teams \cup {Nobody}] /\ queue' \in [Players -> Teams]
         /\ \A p \in Players : /\ p \in S => draft'[p] = "MOVING_TO_POOL"
                               /\ p \notin S => draft'[p] = draft[p] /\ pick'[p] = pick[p]
                               /\ p \in S /\ ~captain[p] => team'[p] = Nobody
                               /\ p \notin S \/ captain[p] => team'[p] = team[p]
                               /\ queue'[p] = queue[p]
BY DEF IInv, TypeOK, AssignToPool, ChangeQueue, States, Pooled

LEMMA JoinInv ==
  ASSUME IInv, NEW p \in Players, Join(p)
  PROVE  IInv' /\ NoTurn
<1> USE DEF Join, game, robot, bounds
<1>0. AssignToPool({p})
  OBVIOUS
<1>1. TypeOK'
  BY <1>0, Assigned DEF IInv, TypeOK
<1>2. \A c \in Up' : c \in Up /\ team'[c] = team[c]
  BY <1>0, Assigned DEF IInv, TypeOK, Up, Involved
<1>3. Order'
  <2>1. QueueOfTeam'
    BY <1>0, Assigned, DraftAssumption DEF IInv, TypeOK, Order, QueueOfTeam, Teams
  <2>2. FlagOfCaptain'
    BY <1>0, Assigned DEF IInv, TypeOK, Order, FlagOfCaptain, InGame
  <2>3. CaptaincyHasFlag'
    BY <1>0, Assigned DEF IInv, TypeOK, Order, CaptaincyHasFlag, Captaincy
  <2>4. ~disputed' => OneCaptain' /\ OneUp'
    BY <1>0, <1>2, Assigned DEF IInv, Order, OneCaptain, OneUp, InGame
  <2> QED BY <2>1, <2>2, <2>3, <2>4 DEF Order
<1>4. Ends'
  BY <1>0, Assigned DEF IInv, TypeOK, Ends, TeamlessInPool, PoolEmptied, Pooled
<1>5. Places'
  BY <1>0, Assigned DEF IInv, TypeOK, Places, PlaceInRange, PlacesDistinct, Picked
<1> QED BY <1>1, <1>2, <1>3, <1>4, <1>5 DEF IInv, NoTurn

LEMMA AskDraftInv ==
  ASSUME IInv, NEW p \in Players, NEW t \in Teams, AskDraft(p, t)
  PROVE  IInv' /\ TurnStep
<1> USE DEF AskDraft, game, robot, bounds
<1>1. CASE UNCHANGED <<draft, team, queue, pick, game, drafts>>
  <2>1. TypeOK'
    BY <1>1 DEF IInv, TypeOK, Begin
  <2>2. Up' = Up /\ Turn' = Turn
    BY <1>1 DEF Up, Turn, Involved, First
  <2>3. Order' /\ Ends' /\ Places'
    BY <1>1, <2>2 DEF IInv, Order, QueueOfTeam, FlagOfCaptain, CaptaincyHasFlag, OneCaptain,
       OneUp, InGame, Ends, TeamlessInPool, PoolEmptied, Places, PlaceInRange, PlacesDistinct
  <2> QED BY <1>1, <2>1, <2>2, <2>3 DEF IInv, TurnStep
<1>2. CASE Begin
  <2>0. AssignToPool(Involved) /\ Involved \in SUBSET Players
    BY <1>2 DEF Begin, Involved
  <2>1. TypeOK'
    <3>1. picks' \in [Teams -> Nat] /\ drafts' \in Nat /\ inl_draft' = "MOVING_TO_POOL"
      BY <1>2 DEF IInv, TypeOK, Begin
    <3>2. agreed' \in [Teams -> BOOLEAN]
      BY DEF IInv, TypeOK
    <3> QED BY <2>0, <3>1, <3>2, Assigned DEF IInv, TypeOK
  <2>2. Up' = {} /\ Turn' = Nobody
    <3>1. Up' = {}
      BY <2>0, Assigned DEF IInv, TypeOK, Up, Involved
    <3> QED BY <3>1 DEF Turn
  <2>3. Order'
    <3>1. QueueOfTeam'
      BY <2>0, Assigned, DraftAssumption DEF IInv, TypeOK, Order, QueueOfTeam, Teams
    <3>2. FlagOfCaptain'
      BY <2>0, Assigned DEF IInv, TypeOK, Order, FlagOfCaptain, InGame
    <3>3. CaptaincyHasFlag'
      BY <2>0, Assigned DEF IInv, TypeOK, Order, CaptaincyHasFlag, Captaincy
    <3>4. ~disputed' => OneCaptain'
      BY <2>0, Assigned DEF IInv, TypeOK, Order, OneCaptain, InGame, Involved
    <3> QED BY <2>2, <3>1, <3>2, <3>3, <3>4 DEF Order, OneUp
  <2>4. Ends' /\ Places'
    BY <1>2, <2>0, Assigned DEF IInv, TypeOK, Begin, Involved, Ends, TeamlessInPool, PoolEmptied,
       Places, PlaceInRange, PlacesDistinct, Pooled, Picked
  <2>5. Turns!Next
    BY <1>2, <2>2 DEF Begin, Turns!Next, Turns!Begin, Turns!Teams, Teams
  <2> QED BY <2>1, <2>2, <2>3, <2>4, <2>5 DEF IInv, TurnStep
<1> QED BY <1>1, <1>2

\* Of the captains of a team at most one is in his place.
LEMMA OneInPlace ==
  ASSUME IInv, ~disputed, NEW t \in Teams, NEW c \in CaptainsOf(t)
  PROVE  CaptainsOf(t) = {c} /\ c \in Players /\ captain[c] /\ team[c] = t
         /\ First(CaptainsOf(t)) = c
<1>1. ASSUME NEW q \in CaptainsOf(t)
      PROVE  q \in Players /\ captain[q] /\ InGame(q) /\ team[q] = t
  BY DraftAssumption DEF IInv, TypeOK, Order, FlagOfCaptain, CaptainsOf, Involved, InGame, Teams
<1>2. CaptainsOf(t) = {c}
  BY <1>1 DEF IInv, Order, OneCaptain
<1> QED BY <1>1, <1>2, FirstOfOne

\* A captain gets the turn at his place only when nobody has it.
LEMMA ArrivalTurn ==
  ASSUME IInv, ~disputed, NEW p \in Players, status[p] = "ALIVE", captain[p],
         draft[p] # "CAPTAIN_UP",
         ArrivalCaptain(p) = "CAPTAIN_UP"
  PROVE  Up = {}
<1>1. SUFFICES ASSUME NEW c \in Up PROVE FALSE
  OBVIOUS
<1>2. c \in Players /\ captain[c] /\ InGame(c) /\ team[c] \in Teams
      /\ draft[c] = "CAPTAIN_UP" /\ status[c] # "FREE"
  BY UpInGame DEF IInv, Order
<1>3. InGame(p) /\ team[p] \in Teams
  BY DEF IInv, Order, FlagOfCaptain, InGame
<1>4. c # p
  BY <1>2
<1>5. team[c] = Other(team[p])
  BY <1>2, <1>3, <1>4, OthersAreTeams DEF IInv, Order, OneCaptain
<1>6. c \in CaptainsOf(Other(team[p]))
  BY <1>2, <1>5 DEF CaptainsOf, Involved, Captaincy
<1>7. First(CaptainsOf(Other(team[p]))) = c
  BY <1>2, <1>5, <1>6, OneInPlace
<1> QED BY <1>2, <1>6, <1>7 DEF ArrivalCaptain

LEMMA ArrivalInv ==
  ASSUME IInv, NEW p \in Players, Arrival(p)
  PROVE  IInv' /\ TurnStep
<1> USE DEF Arrival, ArriveAt, game, robot, bounds
<1>1. PICK s \in States :
        /\ draft' = [draft EXCEPT ![p] = s]
        /\ s \in Captaincy => captain[p] /\ s = ArrivalCaptain(p)
        /\ s = "POOLED" => draft[p] = "MOVING_TO_POOL"
        /\ s \notin Pooled => draft[p] \notin Pooled \/ captain[p]
        /\ s \in Picked => draft[p] \in Picked
        /\ draft[p] # "CAPTAIN_UP"
        /\ s # "MOVING_TO_POOL"
  <2>1. ArrivalCaptain(p) \in Captaincy
    BY DEF ArrivalCaptain, Captaincy
  <2> QED BY <2>1 DEF States, Captaincy, Pooled, Picked
<1>2. status[p] = "ALIVE" /\ UNCHANGED <<status, captain, team, queue, pick, game, robot, bounds>>
  OBVIOUS
<1> HIDE DEF Arrival, ArriveAt
<1>3. TypeOK'
  BY <1>1, <1>2 DEF IInv, TypeOK
<1>4. \A q \in Players : q # p => draft'[q] = draft[q]
  BY <1>1 DEF IInv, TypeOK
<1>5. draft'[p] = s
  BY <1>1 DEF IInv, TypeOK
<1>6. ASSUME s = "CAPTAIN_UP", ~disputed PROVE OneUp' /\ [Turns!Next]_<<Turn, picks>>
  <2>1. Up = {} /\ captain[p] /\ team[p] \in Teams
    BY <1>1, <1>2, <1>6, ArrivalTurn DEF IInv, Order, FlagOfCaptain, InGame, Captaincy
  <2>2. Up' = {p}
    BY <1>2, <1>4, <1>5, <1>6, <2>1 DEF Up, Involved
  <2>3. Turn = Nobody /\ Turn' = team[p]
    <3>1. Turn = Nobody
      BY <2>1 DEF Turn
    <3>2. Turn' = team'[First({p})]
      BY <2>2 DEF Turn
    <3> QED BY <1>2, <3>1, <3>2, FirstOfOne
  <2>4. OneUp'
    BY <2>2 DEF OneUp
  <2>5. Turns!Next
    BY <1>2, <2>1, <2>3 DEF Turns!Next, Turns!Take, Turns!Teams, Teams
  <2> QED BY <2>4, <2>5
<1>7. ASSUME s # "CAPTAIN_UP" PROVE Up' \subseteq Up /\ NoTurn
  BY <1>2, <1>4, <1>5, <1>7 DEF Up, Involved, NoTurn
<1>8. Order'
  <2>1. QueueOfTeam' /\ FlagOfCaptain'
    BY <1>2 DEF IInv, Order, QueueOfTeam, FlagOfCaptain, InGame
  <2>2. CaptaincyHasFlag'
    BY <1>1, <1>2, <1>4, <1>5 DEF IInv, Order, CaptaincyHasFlag
  <2>3. ~disputed' => OneCaptain' /\ OneUp'
    <3>1. ~disputed' => OneCaptain'
      BY <1>2 DEF IInv, Order, OneCaptain, InGame
    <3>2. ~disputed' => OneUp'
      BY <1>2, <1>6, <1>7 DEF IInv, Order, OneUp
    <3> QED BY <3>1, <3>2
  <2> QED BY <2>1, <2>2, <2>3 DEF Order
<1>9. Ends'
  <2>1. TeamlessInPool'
    BY <1>1, <1>2, <1>4, <1>5 DEF IInv, Order, Ends, TeamlessInPool, FlagOfCaptain, InGame
  <2>2. PoolEmptied'
    BY <1>1, <1>2, <1>4, <1>5 DEF IInv, Ends, PoolEmptied, Pooled
  <2> QED BY <2>1, <2>2 DEF Ends
<1>10. Places'
  BY <1>1, <1>2, <1>4, <1>5 DEF IInv, Places, PlaceInRange, PlacesDistinct
<1>11. TurnStep
  BY <1>2, <1>6, <1>7, <1>8, TurnDrops DEF TurnStep
<1> QED BY <1>3, <1>8, <1>9, <1>10, <1>11 DEF IInv

-----------------------------------------------------------------------------
(* inl_draft_select().                                                     *)

\* Who hands the turn on is the one who has it, and after him at most one
\* captain with a team has it, who is not of his team.
LEMMA HandedOn ==
  ASSUME IInv, NEW c \in Up, Rivals(c) # {}
  PROVE  \E r \in Players :
           /\ r # c /\ captain[r] /\ status[r] # "FREE"
           /\ TurnGoesOn(c) \in [Players -> States]
           /\ TurnGoesOn(c)[r] = "CAPTAIN_UP" /\ TurnGoesOn(c)[c] = "CAPTAIN_DOWN"
           /\ \A p \in Players \ {r, c} : TurnGoesOn(c)[p] = draft[p]
           /\ ~disputed /\ team[r] \in Teams => team[r] = Other(team[c])
<1> DEFINE r == First(Rivals(c))
<1>1. Rivals(c) \in SUBSET Players
  BY DEF Rivals, Involved
<1>2. r \in Rivals(c)
  BY <1>1, FirstPlayer
<1>3. r \in Players /\ r # c /\ captain[r] /\ status[r] # "FREE"
  BY <1>2 DEF Rivals, Involved
<1>4. c \in Players /\ captain[c] /\ InGame(c) /\ team[c] \in Teams
  BY UpInGame DEF IInv, Order
<1>5. /\ TurnGoesOn(c) \in [Players -> States]
      /\ TurnGoesOn(c)[r] = "CAPTAIN_UP" /\ TurnGoesOn(c)[c] = "CAPTAIN_DOWN"
      /\ \A p \in Players \ {r, c} : TurnGoesOn(c)[p] = draft[p]
  BY <1>3, <1>4 DEF IInv, TypeOK, TurnGoesOn, States, Captaincy
<1>6. ASSUME ~disputed, team[r] \in Teams PROVE team[r] = Other(team[c])
  <2>1. InGame(r)
    BY <1>3, <1>6, DraftAssumption DEF IInv, TypeOK, Order, FlagOfCaptain, InGame, Teams
  <2> QED BY <1>3, <1>4, <1>6, <2>1, OthersAreTeams DEF IInv, Order, OneCaptain
<1> QED BY <1>3, <1>5, <1>6

\* Who picks, for himself or as a selector, does it for a captain who is up.
LEMMA PickerUp ==
  ASSUME IInv, NEW k \in Players, NEW c \in Players, status[k] = "ALIVE", PicksFor(k, c)
  PROVE  c \in Up
<1>1. CASE draft[k] = "CAPTAIN_UP" /\ c = k
  BY <1>1 DEF IInv, Order, CaptaincyHasFlag, FlagOfCaptain, InGame, Up, Involved, Captaincy
<1>2. CASE draft[k] = "PICKED_SELECTOR" /\ CaptainsOf(team[k]) # {}
           /\ c = First(CaptainsOf(team[k])) /\ draft[c] = "CAPTAIN_UP"
  <2>1. team[k] \in Teams
    BY <1>2 DEF IInv, Places, PlaceInRange, Picked
  <2>2. c \in CaptainsOf(team[k])
    <3>1. CaptainsOf(team[k]) \in SUBSET Players
      BY DEF CaptainsOf, Involved
    <3> QED BY <1>2, <3>1, FirstPlayer
  <2> QED BY <1>2, <2>1, <2>2 DEF CaptainsOf, Up
<1> QED BY <1>1, <1>2 DEF PicksFor

\* What both kinds of handing on have in common: D is the draft after it.
LEMMA HandOverTurn ==
  ASSUME IInv, ~disputed, NEW c \in Up, NEW r \in Players, r # c, captain[r],
         status[r] # "FREE", team[r] \in Teams => team[r] = Other(team[c]),
         UNCHANGED <<status, captain>>,
         \A p \in Players : captain[p] => team'[p] = team[p],
         draft'[r] = "CAPTAIN_UP", draft'[c] = "CAPTAIN_DOWN",
         \A p \in Players \ {r, c} : captain[p] => draft'[p] = draft[p]
  PROVE  OneCaptain' /\ OneUp' /\ Turns!HandOver(team[c])
<1>0. OneCaptain'
  BY DEF IInv, Order, OneCaptain, InGame
<1>1. c \in Players /\ captain[c] /\ team[c] \in Teams /\ Up = {c} /\ Turn = team[c]
  BY UpInGame, TurnOfUp DEF IInv, Order
<1>2. \A p \in Up' : p = r
  <2> SUFFICES ASSUME NEW p \in Up', p # r PROVE FALSE
    OBVIOUS
  <2>1. p \in Players /\ captain[p] /\ status[p] # "FREE" /\ team[p] \in Teams
        /\ draft'[p] = "CAPTAIN_UP"
    BY DEF Up, Involved
  <2>2. p # c
    BY <2>1
  <2>3. p \in Up
    BY <2>1, <2>2 DEF Up, Involved
  <2> QED BY <1>1, <2>2, <2>3
<1>3. OneUp'
  BY <1>2 DEF OneUp
<1>4. CASE Up' = {}
  BY <1>0, <1>1, <1>3, <1>4 DEF Turn, Turns!HandOver
<1>5. CASE Up' # {}
  <2>1. Up' = {r} /\ team[r] \in Teams
    BY <1>2, <1>5 DEF Up, Involved
  <2>2. Turn' = team'[First({r})]
    BY <2>1 DEF Turn
  <2>3. Turn' = Other(team[c])
    BY <2>1, <2>2, FirstOfOne
  <2> QED BY <1>0, <1>1, <1>3, <2>3 DEF Turns!HandOver, Turns!Other, Other
<1> QED BY <1>4, <1>5

LEMMA PassTurnInv ==
  ASSUME IInv, NEW k \in Players, NEW j \in Players, status[k] = "ALIVE", PassTurn(k, j),
         UNCHANGED <<status, captain, inl_draft, robot, bounds>>
  PROVE  IInv' /\ TurnStep
<1> USE DEF PassTurn, robot, bounds
<1>1. k \in Up
  BY PickerUp DEF PicksFor
<1>2. PICK r \in Players :
        /\ r # k /\ captain[r] /\ status[r] # "FREE"
        /\ draft' \in [Players -> States]
        /\ draft'[r] = "CAPTAIN_UP" /\ draft'[k] = "CAPTAIN_DOWN"
        /\ \A p \in Players \ {r, k} : draft'[p] = draft[p]
        /\ ~disputed /\ team[r] \in Teams => team[r] = Other(team[k])
  BY <1>1, HandedOn
<1>3. TypeOK'
  BY <1>2 DEF IInv, TypeOK
<1>4. ~disputed => OneCaptain' /\ OneUp' /\ Turns!HandOver(team[k])
  BY <1>1, <1>2, HandOverTurn
<1>5. TurnStep
  BY <1>1, <1>4 DEF TurnStep, Turns!Next, Turns!Pass, Turns!Teams, Teams, Up
<1>6. captain[k]
  BY <1>1 DEF Up
<1>7. Order'
  <2>1. QueueOfTeam' /\ FlagOfCaptain'
    BY DEF IInv, Order, QueueOfTeam, FlagOfCaptain, InGame
  <2>2. CaptaincyHasFlag'
    BY <1>2, <1>6 DEF IInv, Order, CaptaincyHasFlag
  <2> QED BY <1>4, <2>1, <2>2 DEF Order
<1>8. Ends'
  BY <1>2, <1>6 DEF IInv, Order, FlagOfCaptain, InGame, Ends, TeamlessInPool, PoolEmptied, Pooled
<1>9. Places'
  BY <1>2 DEF IInv, Places, PlaceInRange, PlacesDistinct, Picked
<1> QED BY <1>3, <1>5, <1>7, <1>8, <1>9 DEF IInv

LEMMA DelegateInv ==
  ASSUME IInv, NEW k \in Players, NEW j \in Players, status[k] = "ALIVE", Delegate(k, j),
         UNCHANGED <<status, captain, inl_draft, robot, bounds>>
  PROVE  IInv' /\ TurnStep
<1> USE DEF Delegate, robot, bounds
<1>1. TypeOK'
  BY DEF IInv, TypeOK, States, Picked
<1>2. /\ draft[j] \in Picked /\ draft'[j] \in Picked
      /\ \A p \in Players \ {j} : draft'[p] = draft[p]
  BY DEF IInv, TypeOK, Picked
<1> HIDE DEF Delegate
<1>3. UNCHANGED <<team, queue, pick, picks>>
  BY DEF Delegate
<1>4. NoTurn
  BY <1>2, <1>3 DEF NoTurn, Up, Involved, Picked
<1>5. Order'
  BY <1>2, <1>3, <1>4 DEF IInv, Order, QueueOfTeam, FlagOfCaptain, CaptaincyHasFlag, OneCaptain,
     OneUp, InGame, Picked, Captaincy, NoTurn
<1>6. Ends'
  BY <1>2, <1>3 DEF IInv, Ends, TeamlessInPool, PoolEmptied, Picked, Pooled
<1>7. Places'
  BY <1>2, <1>3 DEF IInv, Places, PlaceInRange, PlacesDistinct
<1>8. TurnStep
  BY <1>4, <1>5, TurnDrops
<1> QED BY <1>1, <1>5, <1>6, <1>7, <1>8 DEF IInv

LEMMA PickPlayerInv ==
  ASSUME IInv, NEW k \in Players, NEW j \in Players, NEW c \in Players, status[k] = "ALIVE",
         PickPlayer(k, j, c), UNCHANGED <<status, captain, inl_draft, robot, bounds>>
  PROVE  IInv' /\ TurnStep
<1> USE DEF PickPlayer, robot, bounds
<1>1. c \in Up
  BY PickerUp
<1>2. captain[c] /\ team[c] \in Teams /\ ~captain[j] /\ c # j /\ Nobody \notin Teams
  BY <1>1, DraftAssumption DEF Up, Teams
<1>3. PICK r \in Players :
        /\ r # c /\ captain[r] /\ status[r] # "FREE"
        /\ TurnGoesOn(c) \in [Players -> States]
        /\ TurnGoesOn(c)[r] = "CAPTAIN_UP" /\ TurnGoesOn(c)[c] = "CAPTAIN_DOWN"
        /\ \A p \in Players \ {r, c} : TurnGoesOn(c)[p] = draft[p]
        /\ ~disputed /\ team[r] \in Teams => team[r] = Other(team[c])
  BY <1>1, HandedOn
<1>4. /\ draft' \in [Players -> States] /\ draft'[j] = "MOVING_TO_PICK"
      /\ draft'[r] = "CAPTAIN_UP" /\ draft'[c] = "CAPTAIN_DOWN"
      /\ \A p \in Players \ {r, c, j} : draft'[p] = draft[p]
  BY <1>2, <1>3 DEF States, Picked
<1>5. /\ team'[j] = team[c] /\ queue'[j] = team[c] /\ pick'[j] = picks[team[c]]
      /\ \A p \in Players \ {j} : team'[p] = team[p] /\ queue'[p] = queue[p] /\ pick'[p] = pick[p]
      /\ picks'[team[c]] = picks[team[c]] + 1
      /\ \A t \in Teams \ {team[c]} : picks'[t] = picks[t]
      /\ picks' = [picks EXCEPT ![team[c]] = @ + 1]
  BY <1>2 DEF IInv, TypeOK, ChangeQueue
<1>6. TypeOK'
  <2>1. /\ team' \in [Players -> Teams \cup {Nobody}] /\ queue' \in [Players -> Teams]
        /\ pick' \in [Players -> Nat] /\ picks' \in [Teams -> Nat]
    BY <1>2 DEF IInv, TypeOK, ChangeQueue
  <2> QED BY <1>4, <2>1 DEF IInv, TypeOK
<1> HIDE DEF PickPlayer
<1>7. ~disputed => OneCaptain' /\ OneUp' /\ Turns!HandOver(team[c])
  BY <1>1, <1>2, <1>3, <1>4, <1>5, HandOverTurn
<1>8. TurnStep
  BY <1>2, <1>5, <1>7 DEF TurnStep, Turns!Next, Turns!Pick, Turns!Teams, Teams
<1>9. Order'
  <2>1. QueueOfTeam'
    BY <1>5 DEF IInv, Order, QueueOfTeam
  <2>2. FlagOfCaptain'
    BY <1>2, <1>5 DEF IInv, Order, FlagOfCaptain, InGame
  <2>3. CaptaincyHasFlag'
    BY <1>2, <1>3, <1>4 DEF IInv, Order, CaptaincyHasFlag, Captaincy
  <2> QED BY <1>7, <2>1, <2>2, <2>3 DEF Order
<1>10. Ends'
  <2>1. TeamlessInPool'
    BY <1>2, <1>3, <1>4, <1>5 DEF IInv, Order, FlagOfCaptain, InGame, Ends, TeamlessInPool
  <2>2. PoolEmptied'
    BY <1>4 DEF IInv, Ends, PoolEmptied, Pooled
  <2> QED BY <2>1, <2>2 DEF Ends
<1>11. Places'
  <2>1. \A p \in Players \ {j} : status[p] = "ALIVE" /\ draft'[p] \in Picked
          => draft[p] \in Picked /\ team'[p] \in Teams
             /\ pick'[p] < picks[team'[p]] /\ pick'[p] = pick[p] /\ team'[p] = team[p]
    BY <1>4, <1>5 DEF IInv, Places, PlaceInRange, Picked
  <2>2. \A t \in Teams : picks[t] \in Nat /\ picks[t] <= picks'[t]
    BY <1>2, <1>5 DEF IInv, TypeOK
  <2>3. \A p \in Players : pick[p] \in Nat
    BY DEF IInv, TypeOK
  <2>4. PlaceInRange'
    BY <1>2, <1>5, <2>1, <2>2, <2>3 DEF PlaceInRange
  <2>5. PlacesDistinct'
    BY <1>2, <1>5, <2>1, <2>2, <2>3 DEF IInv, Places, PlacesDistinct
  <2> QED BY <2>4, <2>5 DEF Places
<1> QED BY <1>6, <1>8, <1>9, <1>10, <1>11 DEF IInv

-----------------------------------------------------------------------------
(* The theorems.                                                           *)

LEMMA NextInv ==
  ASSUME IInv, [Next]_vars
  PROVE  IInv' /\ TurnStep
<1>1. CASE UNCHANGED vars
  <2>1. Up' = Up /\ Turn' = Turn /\ picks' = picks
    BY <1>1 DEF vars, game, Up, Turn, Involved, First
  <2>2. IInv'
    BY <1>1, <2>1 DEF vars, game, robot, bounds, IInv, TypeOK, Order, QueueOfTeam, FlagOfCaptain,
       CaptaincyHasFlag, OneCaptain, OneUp, InGame, Ends, TeamlessInPool, PoolEmptied, Places, PlaceInRange,
       PlacesDistinct
  <2> QED BY <2>1, <2>2 DEF TurnStep
<1>2. ASSUME NEW p \in Players,
             Connect(p) \/ Login(p) \/ Enter(p) \/ Die(p) \/ Leave(p) \/ TimeOut(p) \/ Join(p)
      PROVE  IInv' /\ TurnStep
  <2>1. IInv' /\ NoTurn
    BY <1>2, ConnectInv, LoginInv, EnterInv, DieInv, LeaveInv, TimeOutInv, JoinInv
  <2> QED BY <2>1, TurnDrops DEF IInv
<1>3. ASSUME NEW p \in Players, Arrival(p)
      PROVE  IInv' /\ TurnStep
  BY <1>3, ArrivalInv
<1>4. ASSUME NEW p \in Players, NEW t \in Teams, MakeCaptain(p, t) \/ Overthrow(p, t) \/ AskDraft(p, t)
      PROVE  IInv' /\ TurnStep
  <2>1. CASE MakeCaptain(p, t) \/ Overthrow(p, t)
    <3>1. IInv' /\ NoTurn
      BY <2>1, MakeCaptainInv, OverthrowInv
    <3> QED BY <3>1, TurnDrops DEF IInv
  <2>2. CASE AskDraft(p, t)
    BY <2>2, AskDraftInv
  <2> QED BY <1>4, <2>1, <2>2
<1>5. ASSUME NEW k \in Players, NEW j \in Players, Select(k, j)
      PROVE  IInv' /\ TurnStep
  BY <1>5, PassTurnInv, DelegateInv, PickPlayerInv DEF Select
<1>6. ASSUME (\E t \in Teams : PlayerMaint(t)) \/ Done \/ End
      PROVE  IInv' /\ TurnStep
  <2>1. IInv' /\ NoTurn
    BY <1>6, PlayerMaintInv, DoneInv, EndInv
  <2> QED BY <2>1, TurnDrops DEF IInv
<1> QED BY <1>1, <1>2, <1>3, <1>4, <1>5, <1>6 DEF Next

LEMMA DraftInv == Spec => []IInv
<1>1. IInv /\ [Next]_vars => IInv'
  BY NextInv
<1> QED BY <1>1, InitInv, PTL DEF Spec

\* The variables hold what draft.c and the robot can store in them.
THEOREM DraftTypeOK == Spec => []TypeOK
<1>1. IInv => TypeOK
  BY DEF IInv
<1> QED BY <1>1, DraftInv, PTL

\* Every player whom inl_draft_done() sends home has a team to go home to.
THEOREM HomeForEverybody == Spec => []TeamedAtEnd
<1>1. IInv => TeamedAtEnd
  BY DEF IInv, TypeOK, Ends, TeamlessInPool, TeamedAtEnd, Pooled, Teams
<1> QED BY <1>1, DraftInv, PTL

\* inl_draft_place_pick() never puts two picks of a team in one place.
THEOREM PicksApart == Spec => []PlacesDistinct
<1>1. IInv => PlacesDistinct
  BY DEF IInv, Places
<1> QED BY <1>1, DraftInv, PTL

\* The captains alternate in picking: the draft implements DraftTurns, until
\* a team has had two captains.
THEOREM DraftRefines == Spec => TakeTurns
<1>1. Init => Turns!Init
  <2> SUFFICES ASSUME Init PROVE Turns!Init
    OBVIOUS
  <2>1. Up = {}
    BY DEF Init, Up, Involved
  <2>2. Turn = Nobody
    BY <2>1 DEF Turn
  <2> QED BY <2>2 DEF Init, Turns!Init, Turns!Teams, Teams
<1>2. IInv /\ [Next]_vars => [disputed' \/ Turns!Next]_<<Turn, picks>>
  BY NextInv DEF TurnStep
<1> QED BY <1>1, <1>2, DraftInv, PTL DEF Spec, TakeTurns

=============================================================================
