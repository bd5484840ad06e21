----------------------------- MODULE TeamChoice -----------------------------
(***************************************************************************)
(* Which team a player may join: getEntry() and tournamentMask()           *)
(* (getentry.c), in the ntserv of each player of the pickup queue, and the *)
(* tournament mode (T-mode) that the daemon starts and ends by the same    *)
(* counts.  A player is on his first choice, on another after a death, let *)
(* through but not yet in his team (getEntry() has tested the mask,        *)
(* enter() sets p_team later), or in the game.                             *)
(*                                                                         *)
(* Abstractions.  Players of one team in one place are alike, so they are  *)
(* counted.  A team has planets or none, which is all deadTeam() asks.     *)
(* Whether there are scummers is a choice at each frame.  NODIAG is 1 and  *)
(* CLASSICTOURN is 0, as in docs/sample_sysdef.  Left out:                 *)
(* robots, observers (who are not counted, but for the moment between      *)
(* enter() and their first update), the modes and queues for which the     *)
(* mask is a constant, pre-T entertainment, server hours, and the league,  *)
(* whose teams are not chosen here.  The choice of a ship is not modelled. *)
(***************************************************************************)
EXTENDS Integers, FiniteSets

CONSTANTS
  All,           \* p_team of a player who never had a team (ALLTEAM)
  Full,          \* a full team (8)
  Crowd,         \* newcomers wait for T-mode beyond this (4)
  TournPlayers,  \* tournplayers: players of a team in T-mode
  Seats,         \* slots of the pickup queue (MAXPLAYER - TESTERS, 16)
  CheckScum,     \* check_scum is set
  Hopefuls,      \* bound: players choosing at one time
  Fallen         \* bound: teams without planets

ASSUME TeamChoiceAssumption ==
  /\ {Full, Crowd, TournPlayers, Seats, Hopefuls, Fallen} \subseteq Nat
  /\ CheckScum \in BOOLEAN
  /\ All \notin 0..3
  /\ 2 <= Crowd /\ 2 <= TournPlayers
  /\ Crowd <= Full /\ Seats <= 2 * Full
  /\ Fallen < 4

VARIABLES
  members,    \* how many have a team as their p_team: realNumShips()
  choosing,   \* how many are in getEntry(), by their p_team
  entering,   \* how many getEntry() has let through, by p_team and choice
  held,       \* the teams that own a planet
  ts,         \* ts of move(): the stage of T-mode
  tourn,      \* status->tourn
  upset       \* has a team lost its last planet, or were two let through
              \* before the first was in his team?

vars == <<members, choosing, entering, held, ts, tourn, upset>>

Team == 0..3  \* FED, ROM, KLI, ORI
Origin == Team \cup {All}

\* The races across the galaxy from each other.
Diagonal(t) == IF t < 2 THEN t + 2 ELSE t - 2

Sum(f) == f[0] + f[1] + f[2] + f[3]

\* t comes before u in the order in which the loop finds the largest teams.
Leads(t, u) ==
  members[t] > members[u] \/ (members[t] = members[u] /\ t < u)

\* The two largest teams, large[0] and large[1]; the rest of the code treats
\* them alike.
Large == {t \in Team :
            \A u, v \in Team \ {t} : u # v => ~(Leads(u, t) /\ Leads(v, t))}

\* A player without a team asks about all four, of which one owns a planet.
deadTeam(o) == o \in Team \ held

\* Full teams are closed to everybody.
Open_Mutant(o) == {t \in Team : members[t] < Full}

\* Full teams are closed, but for who is on them.
Open(o) == {t \in Team : members[t] < Full \/ t = o}

\* With > for >=.
Diagonals_Mutant(large) == {Diagonal(l) : l \in {m \in large : members[m] > 2}}

\* The teams across from a large team of two players or more.
Diagonals(large) == {Diagonal(l) : l \in {m \in large : members[m] >= 2}}

\* A player of a large team may not make it the smaller one; anybody else may
\* not join the larger one, if it is two ahead.
Unfair(o, large) ==
  IF o \in large
  THEN {l \in large \ {o} : members[l] + 2 > members[o]}
  ELSE {l \in large : \E m \in large \ {l} : members[l] > members[m] + 1}

Crowded(large) == {l \in large : members[l] >= Crowd}

\* Without the early return for a dead team.
tournamentMask_Mutant(o) ==
  LET large == Large
  IN  (IF deadTeam(o) THEN Team \ ({o} \cup large) ELSE Open(o)) \ Diagonals(large)

\* The teams a player may choose, by his p_team.
tournamentMask(o) ==
  LET large == Large
  IN  IF deadTeam(o) THEN Team \ ({o} \cup large)
      ELSE (Open(o) \ Diagonals(large))
             \ (IF o = All /\ ~tourn THEN Crowded(large) ELSE Unfair(o, large))

is_tournament_mode == \E t, u \in Team :
  t # u /\ members[t] >= TournPlayers /\ members[u] >= TournPlayers

\* Two teams have as many players as a newcomer may find in his.
TwoCrowded == \E t, u \in Team :
  t # u /\ members[t] >= Crowd /\ members[u] >= Crowd

\* The players of a team who are not in the game, those who are let through but
\* not in their team, and all who have a slot.  Who is let through keeps his old
\* p_team until enter().
Away(t) == choosing[t] + Sum(entering[t])
OnTheWay == Sum([t \in Team |-> Sum(entering[t])]) + Sum(entering[All])
Seated == Sum(members) + choosing[All] + Sum(entering[All])

-----------------------------------------------------------------------------
Init ==
  /\ members = [t \in Team |-> 0]
  /\ choosing = [o \in Origin |-> 0]
  /\ entering = [o \in Origin |-> [t \in Team |-> 0]]
  /\ held = Team
  /\ ts = "PICKUP"
  /\ tourn = FALSE
  /\ upset = FALSE

\* Bound: n more may choose.
Room(n) == Sum(choosing) + choosing[All] + OnTheWay + n <= Hopefuls

\* With <= for <.
Connect_Mutant ==
  /\ Seated <= Seats
  /\ Room(1)
  /\ choosing' = [choosing EXCEPT ![All] = @ + 1]
  /\ UNCHANGED <<members, entering, held, ts, tourn, upset>>

\* A client gets a slot and is asked for a team.
Connect ==
  /\ Seated < Seats
  /\ Room(1)
  /\ choosing' = [choosing EXCEPT ![All] = @ + 1]
  /\ UNCHANGED <<members, entering, held, ts, tourn, upset>>

\* The choice of a player is accepted.
getEntry(o, t) ==
  /\ choosing[o] > 0
  /\ t \in tournamentMask(o)
  /\ choosing' = [choosing EXCEPT ![o] = @ - 1]
  /\ entering' = [entering EXCEPT ![o][t] = @ + 1]
  /\ upset' = (upset \/ OnTheWay > 0)
  /\ UNCHANGED <<members, held, ts, tourn>>

enter(o, t) ==
  /\ entering[o][t] > 0
  /\ entering' = [entering EXCEPT ![o][t] = @ - 1]
  /\ members' = [u \in Team |-> members[u] + (IF u = t THEN 1 ELSE 0) - (IF u = o THEN 1 ELSE 0)]
  /\ UNCHANGED <<choosing, held, ts, tourn, upset>>

\* A player dies and is asked again.
death(t) ==
  /\ members[t] > Away(t)
  /\ Room(1)
  /\ choosing' = [choosing EXCEPT ![t] = @ + 1]
  /\ UNCHANGED <<members, entering, held, ts, tourn, upset>>

\* A slot is freed: its player has left, or its process has died.
Freed(o) == IF o = All THEN members ELSE [members EXCEPT ![o] = @ - 1]
Leave ==
  /\ \/ \E t \in Team : /\ members[t] > Away(t)
                        /\ members' = Freed(t)
                        /\ UNCHANGED <<choosing, entering>>
     \/ \E o \in Origin : /\ choosing[o] > 0
                          /\ choosing' = [choosing EXCEPT ![o] = @ - 1]
                          /\ members' = Freed(o)
                          /\ UNCHANGED entering
     \/ \E o \in Origin, t \in Team : /\ entering[o][t] > 0
                                      /\ entering' = [entering EXCEPT ![o][t] = @ - 1]
                                      /\ members' = Freed(o)
                                      /\ UNCHANGED choosing
  /\ UNCHANGED <<held, ts, tourn, upset>>

\* A team loses its last planet and all its ships with it.
Fall(t) ==
  /\ t \in held
  /\ Cardinality(Team \ held) < Fallen
  /\ Room(members[t] - Away(t))
  /\ held' = held \ {t}
  /\ choosing' = [choosing EXCEPT ![t] = members[t] - Sum(entering[t])]
  /\ upset' = TRUE
  /\ UNCHANGED <<members, entering, ts, tourn>>

\* It has a planet again: one it takes, or a new galaxy.
Rise(t) ==
  /\ t \notin held
  /\ held' = held \cup {t}
  /\ UNCHANGED <<members, choosing, entering, ts, tourn, upset>>

Pickup ==
  /\ ts = "PICKUP"
  /\ tourn' = FALSE
  /\ \/ ~is_tournament_mode /\ UNCHANGED ts
     \/ is_tournament_mode /\ ts' = "TOURNAMENT"
     \/ is_tournament_mode /\ CheckScum /\ ts' = "SCUMMERS"

Scummers ==
  /\ ts = "SCUMMERS"
  /\ tourn' = FALSE
  /\ \/ ~is_tournament_mode /\ ts' = "PICKUP"
     \/ is_tournament_mode /\ ts' \in {"SCUMMERS", "TOURNAMENT"}

\* TS_BEGIN, which falls through to TS_TOURNAMENT; that falls through to TS_END.
Tournament ==
  /\ ts = "TOURNAMENT"
  /\ tourn' = TRUE
  /\ ts' = IF is_tournament_mode THEN ts ELSE "PICKUP"

Frame ==
  /\ Pickup \/ Scummers \/ Tournament
  /\ UNCHANGED <<members, choosing, entering, held, upset>>

Next ==
  \/ Connect
  \/ Leave
  \/ Frame
  \/ \E t \in Team : death(t) \/ Fall(t) \/ Rise(t)
  \/ \E o \in Origin, t \in Team : getEntry(o, t) \/ enter(o, t)

Spec == Init /\ [][Next]_vars

-----------------------------------------------------------------------------
\* Every player is in one place, and nobody has a seat that is not there.
TypeOK ==
  /\ members \in [Team -> Nat]
  /\ choosing \in [Origin -> Nat]
  /\ entering \in [Origin -> [Team -> Nat]]
  /\ held \subseteq Team
  /\ ts \in {"PICKUP", "SCUMMERS", "TOURNAMENT"}
  /\ tourn \in BOOLEAN
  /\ upset \in BOOLEAN
  /\ \A t \in Team : Away(t) <= members[t]
  /\ Seated <= Seats

\* "Disallow diagonals from the 2 largest teams with >= 2 players"
\* (getentry.c:507): races across the galaxy from each other do not both get
\* two players, whoever joins, dies, changes sides and leaves.
DiagonalsApart == ~upset =>
  \A t \in Team : members[t] < 2 \/ members[Diagonal(t)] < 2

\* Whoever is asked for a team has one to choose, however the rules about full,
\* large, dead and diagonal teams meet ("so we can't diagonal-mask out all 4
\* teams", getentry.c:499).  Excepted are newcomers while two teams are crowded
\* and there is no T-mode, whom getentry.c:530 means to keep out.  Where
\* TournPlayers is not above Crowd that is when T-mode is about to begin or is
\* held back by scummers; where it is 5 (data.c:124), it may last.
NobodyShutOut == \A o \in Origin :
  choosing[o] > 0 => \/ tournamentMask(o) # {}
                     \/ o = All /\ ~tourn /\ TwoCrowded

\* "Existing players get to keep their slot on death" (getentry.c:532), that
\* is, their team, once it has two players and has not fallen.
KeepsPlace == ~upset =>
  \A t \in held : members[t] >= 2 => t \in tournamentMask(t)
=============================================================================
