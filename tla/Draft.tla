------------------------------- MODULE Draft -------------------------------
(***************************************************************************)
(* The draft of a league game (draft.c).  The captains of two teams pick   *)
(* players from a pool in turn, each in the ntserv of the one who picks;   *)
(* the daemon moves the ships to their places and records who has arrived; *)
(* the league robot says who is captain; players come, go and return.      *)
(*                                                                         *)
(* Abstractions.  A request is one step, and so is the daemon's visit to a *)
(* ship; whether the ship has arrived is left to choice.  Observers and    *)
(* robots, whom the draft ignores, are left out, and so are two commands   *)
(* to the robot, TRADE and UNCAPTAIN.  A dead player (PEXPLODE, PDEAD) is  *)
(* in POUTFIT at once; LOGIN is POUTFIT before main.c:322.                 *)
(***************************************************************************)
EXTENDS Naturals, FiniteSets

CONSTANTS
  MaxPlayer,    \* MAXPLAYER
  Nobody,       \* NOBODY, and the teams of a player who is logging in
  MaxLosses,    \* bound: players who die or leave
  MaxArrivals,  \* bound: players who connect
  MaxDrafts     \* bound: drafts begun

ASSUME DraftAssumption ==
  /\ MaxPlayer \in Nat /\ MaxLosses \in Nat /\ MaxArrivals \in Nat /\ MaxDrafts \in Nat
  /\ Nobody \notin {"FED", "ROM"}

VARIABLES
  status,     \* p_status
  captain,    \* p_inl_captain
  draft,      \* p_inl_draft
  team,       \* p_team
  queue,      \* w_queue: QU_HOME (FED) or QU_AWAY (ROM)
  pick,       \* p_inl_pick
  inl_draft,  \* the phase, context->inl_draft; GU_INL_DRAFTING if not "OFF"
  picks,      \* inl_home_pick and inl_away_pick
  leader,     \* inl_teams[].captain of the robot
  agreed,     \* T_DRAFT of inl_teams[].flags
  disputed,   \* has a team had two players with the flag of a captain?
  losses,     \* players who died or left so far
  arrivals,   \* players who connected so far
  drafts      \* drafts begun so far

robot == <<leader, agreed, disputed>>
game == <<inl_draft, picks>>
bounds == <<losses, arrivals, drafts>>
vars == <<status, captain, draft, team, queue, pick, game, robot, bounds>>

Players == 0 .. MaxPlayer - 1
Teams == {"FED", "ROM"}
None == MaxPlayer
Other(t) == IF t = "ROM" THEN "FED" ELSE "ROM"

Captaincy == {"CAPTAIN_UP", "CAPTAIN_DOWN"}
Pooled == {"MOVING_TO_POOL", "POOLED"}
Picked == {"MOVING_TO_PICK", "PICKED", "PICKED_SELECTOR"}

\* The loops of draft.c go by slot number, and skip the slots that are free.
First(S) == CHOOSE p \in S : \A q \in S : p <= q
Involved == {p \in Players : status[p] # "FREE"}

\* Everybody is in the game, in the slots that his queue prefers (queue.c:91).
Init ==
  /\ status = [p \in Players |-> "ALIVE"]
  /\ queue = [p \in Players |-> IF p < MaxPlayer \div 2 THEN "FED" ELSE "ROM"]
  /\ team = queue
  /\ captain = [p \in Players |-> FALSE]
  /\ draft = [p \in Players |-> "OFF"]
  /\ pick = [p \in Players |-> 0]
  /\ inl_draft = "OFF"
  /\ picks = [t \in Teams |-> 0]
  /\ leader = [t \in Teams |-> None]
  /\ agreed = [t \in Teams |-> FALSE]
  /\ disputed = FALSE
  /\ losses = 0 /\ arrivals = 0 /\ drafts = 0

Lose == losses < MaxLosses /\ losses' = losses + 1

-----------------------------------------------------------------------------
(* Players come, enter, die and leave.                                     *)

\* The fields of the draft are those of the player who had the slot before.
Connect(p) ==
  /\ status[p] = "FREE"
  /\ arrivals < MaxArrivals /\ arrivals' = arrivals + 1
  /\ status' = [status EXCEPT ![p] = "LOGIN"]
  /\ team' = [team EXCEPT ![p] = Nobody]
  /\ \E t \in Teams : queue' = [queue EXCEPT ![p] = t]
  /\ UNCHANGED <<captain, draft, pick, game, robot, losses, drafts>>

Login(p) ==
  /\ status[p] = "LOGIN"
  /\ status' = [status EXCEPT ![p] = "OUTFIT"]
  /\ captain' = [captain EXCEPT ![p] = FALSE]
  /\ UNCHANGED <<draft, team, queue, pick, game, robot, bounds>>

\* enter(), with the one team that the queue lets him choose.
Enter(p) ==
  /\ status[p] = "OUTFIT"
  /\ status' = [status EXCEPT ![p] = "ALIVE"]
  /\ team' = [team EXCEPT ![p] = queue[p]]
  /\ draft' = [draft EXCEPT ![p] = "OFF"]
  /\ UNCHANGED <<captain, queue, pick, game, robot, bounds>>

Die(p) ==
  /\ status[p] = "ALIVE"
  /\ Lose
  /\ status' = [status EXCEPT ![p] = "OUTFIT"]
  /\ UNCHANGED <<captain, draft, team, queue, pick, game, robot, arrivals, drafts>>

Leave(p) ==
  /\ status[p] = "ALIVE"
  /\ Lose
  /\ status' = [status EXCEPT ![p] = "FREE"]
  /\ UNCHANGED <<captain, draft, team, queue, pick, game, robot, arrivals, drafts>>

\* Who does not answer when asked for a name or a team (daemon.c:1061).
TimeOut(p) ==
  /\ status[p] \in {"LOGIN", "OUTFIT"}
  /\ status' = [status EXCEPT ![p] = "FREE"]
  /\ UNCHANGED <<captain, draft, team, queue, pick, game, robot, bounds>>

-----------------------------------------------------------------------------
(* The commands to the league robot.                                       *)

\* check_player(): a player sends a command, and is on a team.
OnTeam(p, t) == status[p] = "ALIVE" /\ team[p] = t /\ t \in Teams

\* do_captain(): nobody is captain, as far as the robot has it recorded; one
\* who was overthrown may still have the flag.
MakeCaptain(p, t) ==
  /\ OnTeam(p, t) /\ leader[t] = None
  /\ leader' = [leader EXCEPT ![t] = p]
  /\ captain' = [captain EXCEPT ![p] = TRUE]
  /\ disputed' = (disputed \/ \E q \in Involved \ {p} : captain[q] /\ team[q] = t)
  /\ UNCHANGED <<status, draft, team, queue, pick, game, agreed, bounds>>

\* do_captain(): the captain "has died and been overthrown"; his flag stays.
Overthrow(p, t) ==
  /\ OnTeam(p, t) /\ leader[t] # None /\ status[leader[t]] # "ALIVE"
  /\ leader' = [leader EXCEPT ![t] = None]
  /\ UNCHANGED <<status, captain, draft, team, queue, pick, game, agreed, disputed, bounds>>

\* player_maint(): the flag it clears is that of players[NONE].
PlayerMaint(t) ==
  /\ leader[t] # None /\ status[leader[t]] = "FREE"
  /\ leader' = [leader EXCEPT ![t] = None]
  /\ UNCHANGED <<status, captain, draft, team, queue, pick, game, agreed, disputed, bounds>>

\* change_team_quietly(): the queue goes with the team, but not to Nobody.
ChangeQueue_Always(q, ours) == ours
ChangeQueue(q, ours) == IF ours = Nobody THEN q ELSE ours

\* inl_draft_assign_to_pool() of the players in S: captains keep their team.
AssignToPool(S) ==
  LET ours(p) == IF p \in S /\ ~captain[p] THEN Nobody ELSE team[p] IN
  /\ draft' = [p \in Players |-> IF p \in S THEN "MOVING_TO_POOL" ELSE draft[p]]
  /\ pick' = [p \in Players |-> IF p \in S THEN 0 ELSE pick[p]]
  /\ team' = [p \in Players |-> ours(p)]
  /\ queue' = [p \in Players |->
                IF p \in S /\ ~captain[p] THEN ChangeQueue(queue[p], ours(p)) ELSE queue[p]]

\* inl_draft_begin().
Begin ==
  /\ drafts < MaxDrafts /\ drafts' = drafts + 1
  /\ inl_draft' = "MOVING_TO_POOL"
  /\ picks' = [t \in Teams |-> 0]
  /\ AssignToPool(Involved)

\* do_draft(): the draft begins when both captains have asked for it, also
\* when one is under way.
AskDraft(p, t) ==
  /\ OnTeam(p, t) /\ leader[t] = p
  /\ \/ /\ ~agreed[Other(t)]
        /\ agreed' = [agreed EXCEPT ![t] = TRUE]
        /\ UNCHANGED <<draft, team, queue, pick, game, drafts>>
     \/ /\ agreed[Other(t)]
        /\ agreed' = [u \in Teams |-> FALSE]
        /\ Begin
  /\ UNCHANGED <<status, captain, leader, disputed, losses, arrivals>>

-----------------------------------------------------------------------------
(* The daemon: inl_draft_update().                                         *)

Drafting == inl_draft # "OFF"

\* Newly arriving players are forced into the pool.
Join(p) ==
  /\ inl_draft = "MOVING_TO_POOL"
  /\ status[p] = "ALIVE" /\ draft[p] = "OFF"
  /\ AssignToPool({p})
  /\ UNCHANGED <<status, captain, game, robot, bounds>>

\* inl_draft_team_to_captain().
CaptainsOf(t) ==
  {p \in Involved : captain[p] /\ team[p] = t /\ draft[p] \in Captaincy}

\* inl_draft_arrival_captain(): the captain who comes first is up.
ArrivalCaptain(p) ==
  LET others == CaptainsOf(Other(team[p]))
  IN IF others # {} /\ draft[First(others)] = "CAPTAIN_UP"
     THEN "CAPTAIN_DOWN" ELSE "CAPTAIN_UP"

ArriveAt(p, state) ==
  /\ draft' = [draft EXCEPT ![p] = state]
  /\ UNCHANGED <<status, captain, team, queue, pick, game, robot, bounds>>

Arrival_NotHome(p) ==
  /\ Drafting /\ status[p] = "ALIVE"
  /\ \/ /\ draft[p] \in {"MOVING_TO_POOL", "POOLED", "PICKED"} /\ captain[p]
        /\ ArriveAt(p, ArrivalCaptain(p))
     \/ draft[p] = "MOVING_TO_POOL" /\ ~captain[p] /\ ArriveAt(p, "POOLED")
     \/ draft[p] = "MOVING_TO_PICK" /\ ArriveAt(p, "PICKED")

\* inl_draft_arrival().
Arrival(p) ==
  /\ Drafting /\ status[p] = "ALIVE"
  /\ \/ /\ draft[p] \in {"MOVING_TO_POOL", "POOLED", "PICKED"} /\ captain[p]
        /\ ArriveAt(p, ArrivalCaptain(p))
     \/ draft[p] = "MOVING_TO_POOL" /\ ~captain[p] /\ ArriveAt(p, "POOLED")
     \/ draft[p] = "MOVING_TO_PICK" /\ ArriveAt(p, "PICKED")
     \/ draft[p] = "MOVING_TO_HOME" /\ ArriveAt(p, "END")

\* inl_draft_pool_size().
Pool_InPlace == {p \in Involved : draft[p] \in {"POOLED", "MOVING_TO_PICK"}}
Pool == {p \in Involved : draft[p] \in {"MOVING_TO_POOL", "POOLED", "MOVING_TO_PICK"}}

\* inl_draft_done().
Done ==
  /\ inl_draft = "MOVING_TO_POOL" /\ Pool = {}
  /\ inl_draft' = "MOVING_TO_HOME"
  /\ draft' = [p \in Players |-> IF p \in Involved THEN "MOVING_TO_HOME" ELSE draft[p]]
  /\ UNCHANGED <<status, captain, team, queue, pick, picks, robot, bounds>>

\* inl_draft_end().
End ==
  /\ inl_draft = "MOVING_TO_HOME"
  /\ \A p \in Involved : draft[p] # "MOVING_TO_HOME"
  /\ inl_draft' = "OFF"
  /\ draft' = [p \in Players |-> "OFF"]
  /\ UNCHANGED <<status, captain, team, queue, pick, picks, robot, bounds>>

-----------------------------------------------------------------------------
(* inl_draft_select(): the player k locks on to, or tractors, the slot j.  *)

\* inl_draft_next(): the next to pick is the first captain who is not c.
Rivals(c) == {p \in Involved \ {c} : captain[p]}
TurnGoesOn(c) ==
  [draft EXCEPT ![First(Rivals(c))] = "CAPTAIN_UP", ![c] = "CAPTAIN_DOWN"]

PassTurn(k, j) ==
  /\ draft[k] = "CAPTAIN_UP" /\ draft[j] = "CAPTAIN_DOWN"
  /\ Rivals(k) # {}
  /\ draft' = TurnGoesOn(k)
  /\ UNCHANGED <<team, queue, pick, picks>>

PicksFor_AnyTime(k, c) ==
  \/ draft[k] = "CAPTAIN_UP" /\ c = k
  \/ /\ draft[k] = "PICKED_SELECTOR"
     /\ CaptainsOf(team[k]) # {} /\ c = First(CaptainsOf(team[k]))

\* Who picks for k: a captain himself, a selector for his captain.
PicksFor(k, c) ==
  \/ draft[k] = "CAPTAIN_UP" /\ c = k
  \/ /\ draft[k] = "PICKED_SELECTOR"
     /\ CaptainsOf(team[k]) # {} /\ c = First(CaptainsOf(team[k]))
     /\ draft[c] = "CAPTAIN_UP"

PickPlayer_CountsFirst(k, j, c) ==
  /\ PicksFor(k, c)
  /\ draft[j] \in Pooled /\ ~captain[j]
  /\ Rivals(c) # {}
  /\ draft' = [TurnGoesOn(c) EXCEPT ![j] = "MOVING_TO_PICK"]
  /\ team' = [team EXCEPT ![j] = team[c]]
  /\ queue' = [queue EXCEPT ![j] = ChangeQueue(@, team[c])]
  /\ UNCHANGED <<pick, picks>>

PickPlayer(k, j, c) ==
  /\ PicksFor(k, c)
  /\ draft[j] \in Pooled /\ ~captain[j]
  /\ Rivals(c) # {}
  /\ draft' = [TurnGoesOn(c) EXCEPT ![j] = "MOVING_TO_PICK"]
  /\ team' = [team EXCEPT ![j] = team[c]]
  /\ queue' = [queue EXCEPT ![j] = ChangeQueue(@, team[c])]
  /\ pick' = [pick EXCEPT ![j] = picks[team[c]]]
  /\ picks' = [picks EXCEPT ![team[c]] = @ + 1]

\* A captain makes a pick of his a selector, or withdraws the duty.
Delegate(k, j) ==
  /\ draft[k] \in Captaincy /\ team[j] = team[k]
  /\ \/ /\ draft[j] \in {"MOVING_TO_PICK", "PICKED"}
        /\ draft' = [draft EXCEPT ![j] = "PICKED_SELECTOR"]
     \/ /\ draft[j] = "PICKED_SELECTOR"
        /\ draft' = [draft EXCEPT ![j] = "PICKED"]
  /\ UNCHANGED <<team, queue, pick, picks>>

Select(k, j) ==
  /\ status[k] = "ALIVE"
  /\ PassTurn(k, j) \/ Delegate(k, j) \/ \E c \in Players : PickPlayer(k, j, c)
  /\ UNCHANGED <<status, captain, inl_draft, robot, bounds>>

-----------------------------------------------------------------------------
Next ==
  \/ \E p \in Players :
       \/ Connect(p) \/ Login(p) \/ Enter(p) \/ Die(p)
       \/ Leave(p) \/ TimeOut(p) \/ Join(p) \/ Arrival(p)
       \/ \E t \in Teams : MakeCaptain(p, t) \/ Overthrow(p, t) \/ AskDraft(p, t)
       \/ \E j \in Players : Select(p, j)
  \/ \E t \in Teams : PlayerMaint(t)
  \/ Done \/ End

Spec == Init /\ [][Next]_vars

\* The daemon visits every ship, and its ship gets there; who is asked for
\* a name or a team answers or is timed out (daemon.c:1061).  Nothing is
\* assumed of the captains, or of players who are in the game.
Fairness ==
  /\ \A p \in Players :
       /\ WF_vars(Arrival(p))
       /\ WF_vars(Login(p) \/ Enter(p) \/ TimeOut(p))
  /\ WF_vars(End)

FairSpec == Spec /\ Fairness

-----------------------------------------------------------------------------
States == {"OFF", "MOVING_TO_HOME", "END"} \cup Captaincy \cup Pooled \cup Picked

TypeOK ==
  /\ status \in [Players -> {"FREE", "LOGIN", "OUTFIT", "ALIVE"}]
  /\ captain \in [Players -> BOOLEAN]
  /\ draft \in [Players -> States]
  /\ team \in [Players -> Teams \cup {Nobody}]
  /\ queue \in [Players -> Teams]
  /\ pick \in [Players -> Nat]
  /\ inl_draft \in {"OFF", "MOVING_TO_POOL", "MOVING_TO_HOME"}
  /\ picks \in [Teams -> Nat]
  /\ leader \in [Teams -> Players \cup {None}]
  /\ agreed \in [Teams -> BOOLEAN]
  /\ disputed \in BOOLEAN
  /\ losses \in Nat /\ arrivals \in Nat /\ drafts \in Nat

\* Whoever is sent home at the end of a draft has a team to go home to: the
\* pool, where a player has none, is empty then, whoever came late, left or
\* died in between (inl_draft_place_end() asks for the home of the team).
TeamedAtEnd ==
  \A p \in Players :
    status[p] = "ALIVE" /\ draft[p] \in {"MOVING_TO_HOME", "END"} => team[p] \in Teams

\* No two picks of a team stand in one place: p_inl_pick is counted up within
\* a draft, and what is left in a slot from an earlier draft is never shown.
PlacesDistinct ==
  \A p, q \in Players :
    /\ p # q /\ status[p] = "ALIVE" /\ status[q] = "ALIVE"
    /\ draft[p] \in Picked /\ draft[q] \in Picked /\ team[p] = team[q]
    => pick[p] # pick[q]

\* The right to pick is with the team of the captain who is up.  Who takes
\* the slot of a captain has his flag and his state until he has a name.
Up == {p \in Involved : captain[p] /\ draft[p] = "CAPTAIN_UP" /\ team[p] \in Teams}
Turn == IF Up = {} THEN Nobody ELSE team[First(Up)]

Turns == INSTANCE DraftTurns WITH turn <- Turn, picks <- picks, Nobody <- Nobody

\* "The captains alternate ... to pick players from the pool"
\* (README.inl-draft, f): Draft implements DraftTurns.  A captain, or any of
\* his selectors, picks only in his team's turn, one player for a turn.  As
\* long as no team has had two captains: one who is overthrown while he is
\* dead keeps his flag (inlcomm.c:785), and inl_draft_next() may then give
\* his team the turn twice.
TakeTurns == Turns!Init /\ [][disputed' \/ Turns!Next]_<<Turn, picks>>

\* A draft that is done ends: the robot does not let the game start before.
HomeEnds == inl_draft = "MOVING_TO_HOME" ~> inl_draft # "MOVING_TO_HOME"
=============================================================================
