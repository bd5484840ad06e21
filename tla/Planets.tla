------------------------------ MODULE Planets ------------------------------
(***************************************************************************)
(* Planets, armies and conquest: bombing, beaming, population, coups, the  *)
(* genocide and the surrender of a team, and the conquest of the galaxy.   *)
(* Everything is done by the daemon (plfight(), beam(), udplanets(),       *)
(* udsurrend(), ghostmess(), conquer.c) but for the request for a coup     *)
(* (coup.c) and a player's entry, which run in his ntserv in between.      *)
(*                                                                         *)
(* Abstractions.  A step is the daemon's work on one ship or one planet,   *)
(* or one request.  Which planet a ship orbits, whether it bombs or beams, *)
(* its kills and its wars are choices: the daemon tests them again when it *)
(* acts.  A ship is ALIVE (PALIVE) or OUT, any other state.  The number of *)
(* ships a team has, and T-mode, which udsurrend() asks for, are choices.  *)
(* Independents, the league's own rules (inl_mode), the pre-T entertain-   *)
(* ment (GU_PRET), the operator's parade and sturgeon are left out.        *)
(***************************************************************************)
EXTENDS Integers, FiniteSets

CONSTANTS
  Planet, Team, Nobody, Ship,
  System,          \* the team in whose home system a planet is (pl_flags)
  Home,            \* the home planet of a team (PLHOME)
  Unowned,         \* the team credited with a system that nobody owns (ORI)
  Garrison,        \* fewest armies to bomb or beam up (5); a coup leaves one less
  TopArmies,       \* armies of a planet at the start (top_armies)
  Hold,            \* s_maxarmies
  SurrenderStart,  \* surrenderStart: planets that start the clock
  Surrend,         \* SURREND: planets that stop it
  SurrLength,      \* SURRLENGTH: minutes
  CoupMinutes,     \* MIN_COUP_TIME to MAX_COUP_TIME
  Victory,         \* VICTORY: systems to conquer the galaxy
  PlagueScale,     \* the 4500 of PopPlanet()
  MaxArmies        \* bound: armies on a planet

ASSUME PlanetsAssumption ==
  /\ IsFiniteSet(Planet) /\ Nobody \notin Team
  /\ System \in [Planet -> Team] /\ Home \in [Team -> Planet] /\ Unowned \in Team
  /\ Garrison \in Nat /\ Garrison > 1
  /\ TopArmies \in Nat \ {0} /\ Hold \in Nat
  /\ SurrenderStart \in Nat /\ Surrend \in Nat /\ SurrenderStart < Surrend
  /\ SurrLength \in Nat \ {0} /\ CoupMinutes \in Nat /\ Victory \in Nat

\* A planet holds 4498 armies at most: with 4499 a plague may leave it none, and
\* with more, less than none (daemon.c:2666-2667).
ASSUME ArmiesAssumption ==
  /\ PlagueScale \in Nat /\ MaxArmies \in Nat
  /\ TopArmies <= MaxArmies /\ Garrison <= MaxArmies
  /\ MaxArmies <= PlagueScale - 2

VARIABLES
  owner,     \* pl_owner
  armies,    \* pl_armies
  coups,     \* the teams whose home planet has PLCOUP
  couptime,  \* pl_couptime of each team's home planet
  plcount,   \* te_plcount
  clock,     \* te_surrender
  parade,    \* GU_CONQUER and GU_PAUSED: "no", "on", and "new" for what is
             \* left of the frame in which beam() has set them
  side,      \* p_team
  status,    \* p_status
  carried,   \* p_armies
  upset      \* "no" coup since the start, or one that a count of the planets
             \* has not seen yet ("unseen"), or has ("seen")

land == <<owner, armies>>
ships == <<side, status, carried>>
collapse == <<plcount, clock>>
vars == <<land, coups, couptime, collapse, parade, ships, upset>>

Owned(own, t) == {l \in Planet : own[l] = t}
Count(own, t) == Cardinality(Owned(own, t))

\* pl_reset(): each team has its system.
Init ==
  /\ owner = System
  /\ armies = [l \in Planet |-> TopArmies]
  /\ coups = {}
  /\ couptime = [t \in Team |-> 0]
  /\ plcount = [t \in Team |-> 0]
  /\ clock = [t \in Team |-> 0]
  /\ parade = "no"
  /\ side \in [Ship -> Team]
  /\ status = [s \in Ship |-> "OUT"]
  /\ carried = [s \in Ship |-> 0]
  /\ upset = "no"

-----------------------------------------------------------------------------
(* The counts and the clocks.                                              *)

\* A system is won by the team that has planets in it, if no other has; one
\* that nobody has is credited to the team tested first.
WonBy(own, sys, t) ==
  /\ \A l \in Planet : System[l] = sys => own[l] \in {t, Nobody}
  /\ t = Unowned \/ \E l \in Planet : System[l] = sys /\ own[l] = t

Conquered(own) ==
  \E t \in Team : Cardinality({sys \in Team : WonBy(own, sys, t)}) >= Victory

\* Every count of the planets; a coup before it is no news any more.
Recount(own) ==
  /\ plcount' = [t \in Team |-> Count(own, t)]
  /\ upset' = IF upset = "no" THEN "no" ELSE "seen"

\* The clock of a team that has regained Surrend planets stops.
Sustain(clk, own, t) ==
  IF Count(own, t) = Surrend THEN [clk EXCEPT ![t] = 0] ELSE clk

\* Mutant: the clock starts one planet late.
Collapse_Mutant(clk, own, t) ==
  IF clk[t] = 0 /\ Count(own, t) + 1 = SurrenderStart
    THEN [clk EXCEPT ![t] = SurrLength] ELSE clk

\* The clock of a team that is down to SurrenderStart planets starts.
Collapse(clk, own, t) ==
  IF clk[t] = 0 /\ Count(own, t) = SurrenderStart
    THEN [clk EXCEPT ![t] = SurrLength] ELSE clk

\* Mutant: checkwin() counts the systems only.
Checkwin_Mutant(clk, own, winner) ==
  /\ UNCHANGED <<plcount, upset>>
  /\ clock' = Sustain(clk, own, winner)
  /\ parade' = IF Conquered(own) THEN "new" ELSE parade

\* checkwin(): a planet was taken, or the last one of a team destroyed.
Checkwin(clk, own, winner) ==
  /\ Recount(own)
  /\ clock' = Sustain(clk, own, winner)
  /\ parade' = IF Conquered(own) THEN "new" ELSE parade

\* addTroops(): the winner's planets may get more armies.
Boosted(own, arms, winner) ==
  {a \in [Planet -> 0..MaxArmies] :
     \A l \in Planet : IF own[l] = winner THEN a[l] >= arms[l] ELSE a[l] = arms[l]}

\* Mutant: a genocide does not stop the clock.
Checkgen_Mutant(own, arms, loser, winner) ==
  /\ Recount(own)
  /\ clock' = Collapse(clock, own, loser)
  /\ armies' = arms
  /\ UNCHANGED <<parade, status, couptime>>

\* checkgen(): a planet of loser was destroyed, and was it the last?  If so,
\* and the galaxy is not conquered, the players of that team are out and may
\* not throw a coup for a while.
Checkgen(own, arms, loser, winner) ==
  IF Count(own, loser) > 0
  THEN /\ Recount(own)
       /\ clock' = Collapse(clock, own, loser)
       /\ armies' = arms
       /\ UNCHANGED <<parade, status, couptime>>
  ELSE /\ Checkwin([clock EXCEPT ![loser] = 0], own, winner)
       /\ IF Conquered(own)
            THEN armies' = arms /\ UNCHANGED <<status, couptime>>
            ELSE /\ armies' \in Boosted(own, arms, winner)
                 /\ status' = [s \in Ship |-> IF side[s] = loser THEN "OUT" ELSE status[s]]
                 /\ couptime' = [couptime EXCEPT ![loser] = CoupMinutes]

-----------------------------------------------------------------------------
(* Ships and planets.                                                      *)

\* enter(): a player, perhaps a new one in the slot, with the team he chose.
Enter(s, t) ==
  /\ status[s] = "OUT"
  /\ status' = [status EXCEPT ![s] = "ALIVE"]
  /\ side' = [side EXCEPT ![s] = t]
  /\ carried' = [carried EXCEPT ![s] = 0]
  /\ UNCHANGED <<land, coups, couptime, collapse, parade, upset>>

\* The ship explodes, whatever hit it.
Die(s) ==
  /\ status[s] = "ALIVE"
  /\ status' = [status EXCEPT ![s] = "OUT"]
  /\ UNCHANGED <<land, coups, couptime, collapse, parade, side, carried, upset>>

\* ghostmess() for a player who is gone: his armies are put on a planet of
\* his own system that his team still owns, and the slot is freed.
Ghostbust(s, l) ==
  /\ status[s] = "OUT" \/ parade = "on"
  /\ carried[s] > 0
  /\ System[l] = side[s] /\ owner[l] = side[s]
  /\ armies[l] + carried[s] <= MaxArmies
  /\ armies' = [armies EXCEPT ![l] = @ + carried[s]]
  /\ carried' = [carried EXCEPT ![s] = 0]
  /\ status' = [status EXCEPT ![s] = "OUT"]
  /\ UNCHANGED <<owner, coups, couptime, collapse, parade, side, upset>>

\* Mutant: a planet may be bombed flat.
Bomb_Mutant(s, l, n) ==
  /\ parade = "no"
  /\ status[s] = "ALIVE"
  /\ owner[l] \notin {side[s], Nobody}
  /\ armies[l] >= Garrison - 1
  /\ armies' = [armies EXCEPT ![l] = @ - n]
  /\ UNCHANGED <<owner, coups, couptime, collapse, parade, ships, upset>>

\* plfight(): 1 to 3 armies, and one more for an assault ship, die.
Bomb(s, l, n) ==
  /\ parade = "no"
  /\ status[s] = "ALIVE"
  /\ owner[l] \notin {side[s], Nobody}
  /\ armies[l] >= Garrison
  /\ armies' = [armies EXCEPT ![l] = @ - n]
  /\ UNCHANGED <<owner, coups, couptime, collapse, parade, ships, upset>>

\* Mutant: one army too many.
BeamUp_Mutant(s, l) ==
  /\ parade # "on"
  /\ status[s] = "ALIVE"
  /\ owner[l] = side[s]
  /\ armies[l] >= Garrison
  /\ carried[s] <= Hold
  /\ carried' = [carried EXCEPT ![s] = @ + 1]
  /\ armies' = [armies EXCEPT ![l] = @ - 1]
  /\ UNCHANGED <<owner, coups, couptime, collapse, parade, side, status, upset>>

BeamUp(s, l) ==
  /\ parade # "on"
  /\ status[s] = "ALIVE"
  /\ owner[l] = side[s]
  /\ armies[l] >= Garrison
  /\ carried[s] < Hold
  /\ carried' = [carried EXCEPT ![s] = @ + 1]
  /\ armies' = [armies EXCEPT ![l] = @ - 1]
  /\ UNCHANGED <<owner, coups, couptime, collapse, parade, side, status, upset>>

\* Between a base and a ship docked with it, either way.
Transfer(from, to) ==
  /\ parade # "on"
  /\ from # to /\ side[from] = side[to]
  /\ status[from] = "ALIVE" /\ status[to] = "ALIVE"
  /\ carried[from] > 0 /\ carried[to] < Hold
  /\ carried' = [carried EXCEPT ![from] = @ - 1, ![to] = @ + 1]
  /\ UNCHANGED <<land, coups, couptime, collapse, parade, side, status, upset>>

\* beam() with PFBEAMDOWN at a planet, in its three cases.
BeamsDown(s) ==
  /\ parade # "on"
  /\ status[s] = "ALIVE"
  /\ carried[s] > 0
  /\ carried' = [carried EXCEPT ![s] = @ - 1]
  /\ UNCHANGED <<coups, side>>

Reinforce(s, l) ==
  /\ BeamsDown(s)
  /\ owner[l] = side[s]
  /\ armies[l] < MaxArmies
  /\ armies' = [armies EXCEPT ![l] = @ + 1]
  /\ UNCHANGED <<owner, couptime, collapse, parade, status, upset>>

Destroyed(l) == armies[l] = 1

Invade(s, l) ==
  /\ BeamsDown(s)
  /\ owner[l] \notin {side[s], Nobody}
  /\ armies[l] > 0
  /\ LET arms == [armies EXCEPT ![l] = @ - 1] IN
     IF Destroyed(l)
       THEN /\ owner' = [owner EXCEPT ![l] = Nobody]
            /\ Checkgen(owner', arms, owner[l], side[s])
       ELSE /\ armies' = arms
            /\ UNCHANGED <<owner, couptime, collapse, parade, status, upset>>

TakeOver(s, l) ==
  /\ BeamsDown(s)
  /\ owner[l] # side[s] /\ armies[l] = 0
  /\ owner' = [owner EXCEPT ![l] = side[s]]
  /\ armies' = [armies EXCEPT ![l] = @ + 1]
  /\ Checkwin(clock, owner', side[s])
  /\ UNCHANGED <<couptime, status>>

\* The most armies that a plague kills; it may also be switched off.
Plague(a) ==
  IF a > Garrison THEN (PlagueScale - 1 + a * a) \div PlagueScale ELSE 0

\* PopPlanet(): a plague, and then growth.
Populate(l, n) ==
  /\ parade # "on"
  /\ armies[l] > 0
  /\ n >= armies[l] - Plague(armies[l])
  /\ armies' = [armies EXCEPT ![l] = n]
  /\ UNCHANGED <<owner, coups, couptime, collapse, parade, ships, upset>>

-----------------------------------------------------------------------------
(* Coups, the minute, and the end of a parade.                             *)

\* coup(), in the player's ntserv.
Coup(s) ==
  LET t == side[s] IN
  /\ status[s] = "ALIVE"
  /\ \A l \in Planet : ~(owner[l] = t /\ armies[l] > 0)
  /\ armies[Home[t]] < Garrison
  /\ couptime[t] = 0
  /\ t \notin coups
  /\ coups' = coups \cup {t}
  /\ UNCHANGED <<land, couptime, collapse, parade, ships, upset>>

\* plfight() later.
Overthrow(t) ==
  /\ parade = "no"
  /\ t \in coups
  /\ coups' = coups \ {t}
  /\ owner' = [owner EXCEPT ![Home[t]] = t]
  /\ armies' = [armies EXCEPT ![Home[t]] = Garrison - 1]
  /\ upset' = "unseen"
  /\ UNCHANGED <<couptime, collapse, parade, ships>>

\* udsurrend(), every minute; able: the teams with players enough, in T-mode.
Minute(able) ==
  LET counting == {t \in able : clock[t] > 0 /\ plcount[t] <= SurrenderStart}
      ended == {t \in counting : clock[t] = 1}
  IN
  /\ parade # "on"
  /\ clock' = [t \in Team |-> IF t \in counting THEN clock[t] - 1 ELSE clock[t]]
  /\ owner' = [l \in Planet |-> IF owner[l] \in ended THEN Nobody ELSE owner[l]]
  /\ armies' = [l \in Planet |-> IF owner[l] \in ended THEN 0 ELSE armies[l]]
  /\ couptime' = [t \in Team |-> IF t \in ended THEN CoupMinutes
                                 ELSE IF couptime[t] > 0 THEN couptime[t] - 1 ELSE 0]
  /\ status' = [s \in Ship |-> IF side[s] \in ended THEN "OUT" ELSE status[s]]
  /\ UNCHANGED <<coups, plcount, parade, side, carried, upset>>

\* The next frame is one of the parade.
Pause ==
  /\ parade = "new"
  /\ parade' = "on"
  /\ UNCHANGED <<land, coups, couptime, collapse, ships, upset>>

\* conquer_end(): everybody explodes and the galaxy is as new; te_plcount is
\* left as it was.
EndParade ==
  /\ parade = "on"
  /\ parade' = "no"
  /\ status' = [s \in Ship |-> "OUT"]
  /\ owner' = System
  /\ armies' = [l \in Planet |-> TopArmies]
  /\ coups' = {}
  /\ couptime' = [t \in Team |-> 0]
  /\ clock' = [t \in Team |-> 0]
  /\ upset' = "no"
  /\ UNCHANGED <<plcount, side, carried>>

Next ==
  \/ \E s \in Ship, t \in Team : Enter(s, t)
  \/ \E s \in Ship : Die(s)
  \/ \E s \in Ship, l \in Planet : Ghostbust(s, l)
  \/ \E s \in Ship, l \in Planet, n \in 1..Garrison-1 : Bomb(s, l, n)
  \/ \E s \in Ship, l \in Planet : BeamUp(s, l)
  \/ \E x, y \in Ship : Transfer(x, y)
  \/ \E s \in Ship, l \in Planet : Reinforce(s, l)
  \/ \E s \in Ship, l \in Planet : Invade(s, l)
  \/ \E s \in Ship, l \in Planet : TakeOver(s, l)
  \/ \E l \in Planet, n \in 0..MaxArmies : Populate(l, n)
  \/ \E s \in Ship : Coup(s)
  \/ \E t \in Team : Overthrow(t)
  \/ \E able \in SUBSET Team : Minute(able)
  \/ Pause
  \/ EndParade

Spec == Init /\ [][Next]_vars

-----------------------------------------------------------------------------
TypeOK ==
  /\ owner \in [Planet -> Team \cup {Nobody}]
  /\ armies \in [Planet -> 0..MaxArmies]
  /\ coups \subseteq Team
  /\ couptime \in [Team -> Nat]
  /\ plcount \in [Team -> Nat]
  /\ clock \in [Team -> 0..SurrLength]
  /\ parade \in {"no", "new", "on"}
  /\ side \in [Ship -> Team]
  /\ status \in [Ship -> {"ALIVE", "OUT"}]
  /\ carried \in [Ship -> 0..Hold]
  /\ upset \in {"no", "unseen", "seen"}

\* A planet has an owner exactly as long as it has armies, whichever of
\* bombs, beams, plague, coup, surrender and the armies of the dead come in
\* between, and as long as no planet has more armies than a plague is made
\* for (ArmiesAssumption).  beam() relies on it: a planet without armies is
\* taken over without asking whose it was, and its owner's genocide would go
\* unnoticed.
OwnedHasArmies == \A l \in Planet : owner[l] = Nobody <=> armies[l] = 0

\* udsurrend() decides by te_plcount, which is counted elsewhere: while a
\* team's clock runs, it is the number of the team's planets, but for a coup
\* that has not been counted yet.
CountFresh ==
  \A t \in Team : clock[t] > 0 /\ upset # "unseen" => plcount[t] = Count(owner, t)

\* "If team gains ownership of 4 planets, countdown is terminated", and it
\* ends with genocide (docs/players.CHANGES_bronco_old): both are tested by
\* equality, where a planet is won or lost, so that one step past the number
\* would leave the clock running.  As long as nobody has thrown a coup.
Sustained ==
  upset = "no" =>
    \A t \in Team : clock[t] > 0 => Count(owner, t) > 0 /\ Count(owner, t) < Surrend

\* A fall is noticed: a team reduced to SurrenderStart planets has its clock
\* running, and one reduced to none has no ship left in the game unless the
\* galaxy is conquered.  As long as nobody has thrown a coup.
FallNoticed ==
  [][parade # "on" /\ upset' = "no" =>
       \A t \in Team :
         /\ Count(owner, t) > SurrenderStart /\ Count(owner', t) \in 1..SurrenderStart
              => clock'[t] > 0
         /\ Count(owner, t) > 0 /\ Count(owner', t) = 0
              => parade' # "no" \/ \A s \in Ship : status'[s] = "ALIVE" => side[s] # t]_vars
=============================================================================
