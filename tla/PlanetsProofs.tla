--------------------------- MODULE PlanetsProofs ---------------------------
(***************************************************************************)
(* For any number of planets, teams and ships, and as many armies on a     *)
(* planet as leave a plague one to spare (ArmiesAssumption): a planet has  *)
(* an owner as long as it has armies, the daemon's cached count of a team  *)
(* whose clock runs is right, a clock runs only between none and SURREND   *)
(* planets, and a fall is noticed.  IInv, the conjunction of the four      *)
(* invariants, is inductive: a clock is right because planets change hands *)
(* one at a time (LosePlanet, GainPlanet), and they do because a planet    *)
(* without armies is nobody's.                                             *)
(***************************************************************************)
EXTENDS Planets, FiniteSetTheorems, TLAPS

IInv == TypeOK /\ OwnedHasArmies /\ CountFresh /\ Sustained

-----------------------------------------------------------------------------
(* Counting planets.                                                       *)

LEMMA CountNat ==
  ASSUME NEW own, NEW t
  PROVE  IsFiniteSet(Owned(own, t)) /\ Count(own, t) \in Nat
<1>1. Owned(own, t) \subseteq Planet BY DEF Owned
<1>2. IsFiniteSet(Owned(own, t)) BY <1>1, FS_Subset, PlanetsAssumption
<1> QED BY <1>2, FS_CardinalityType DEF Count

LEMMA LosePlanet ==
  ASSUME NEW own \in [Planet -> Team \cup {Nobody}], NEW l \in Planet, own[l] \in Team
  PROVE  LET new == [own EXCEPT ![l] = Nobody] IN
         /\ Count(new, own[l]) = Count(own, own[l]) - 1
         /\ \A t \in Team \ {own[l]} : Count(new, t) = Count(own, t)
<1> DEFINE new == [own EXCEPT ![l] = Nobody]
<1>1. Owned(new, own[l]) = Owned(own, own[l]) \ {l}
  BY PlanetsAssumption DEF Owned
<1>2. l \in Owned(own, own[l]) BY DEF Owned
<1>3. Count(new, own[l]) = Count(own, own[l]) - 1
  <2>1. IsFiniteSet(Owned(own, own[l])) BY CountNat
  <2>2. Cardinality(Owned(own, own[l]) \ {l}) = Cardinality(Owned(own, own[l])) - 1
    BY <1>2, <2>1, FS_RemoveElement
  <2> QED BY <1>1, <2>2 DEF Count
<1>4. ASSUME NEW t \in Team \ {own[l]} PROVE Owned(new, t) = Owned(own, t)
  BY PlanetsAssumption DEF Owned
<1> QED BY <1>3, <1>4 DEF Count

LEMMA GainPlanet ==
  ASSUME NEW own \in [Planet -> Team \cup {Nobody}], NEW l \in Planet, own[l] = Nobody,
         NEW w \in Team
  PROVE  LET new == [own EXCEPT ![l] = w] IN
         /\ Count(new, w) = Count(own, w) + 1
         /\ \A t \in Team \ {w} : Count(new, t) = Count(own, t)
<1> DEFINE new == [own EXCEPT ![l] = w]
<1>1. Owned(new, w) = Owned(own, w) \cup {l}
  BY PlanetsAssumption DEF Owned
<1>2. l \notin Owned(own, w) BY PlanetsAssumption DEF Owned
<1>3. Count(new, w) = Count(own, w) + 1
  BY <1>1, <1>2, CountNat, FS_AddElement DEF Count
<1>4. ASSUME NEW t \in Team \ {w} PROVE Owned(new, t) = Owned(own, t)
  BY PlanetsAssumption DEF Owned
<1> QED BY <1>3, <1>4 DEF Count

-----------------------------------------------------------------------------
(* Steps that move no planet.                                              *)

LEMMA Numbers ==
  /\ SurrenderStart \in Nat /\ Surrend \in Nat /\ SurrenderStart < Surrend
  /\ SurrLength \in Nat /\ SurrLength > 0
BY PlanetsAssumption

LEMMA ArmyNumbers ==
  /\ Garrison \in Nat /\ Garrison > 1 /\ TopArmies \in Nat /\ TopArmies > 0
  /\ MaxArmies \in Nat /\ PlagueScale \in Nat
  /\ TopArmies <= MaxArmies /\ Garrison <= MaxArmies /\ MaxArmies <= PlagueScale - 2
BY PlanetsAssumption, ArmiesAssumption

\* A plague kills all armies of a planet but one at most, as long as there are
\* two fewer than its scale: (a - 1)(a + 1) is less than (a - 1) times the scale.
LEMMA PlagueSpares ==
  ASSUME NEW a \in Nat, NEW s \in Nat, a > 1, a <= s - 2
  PROVE  (s - 1 + a * a) \div s < a
<1>1. s - 1 + a * a < a * s
  <2>1. (a - 1) * (a + 1) <= (a - 1) * (s - 1)
    BY a - 1 \in Nat, a + 1 <= s - 1
  <2>2. (a - 1) * (a + 1) = a * a - 1
    OBVIOUS
  <2>3. (a - 1) * (s - 1) = a * s - a - s + 1
    OBVIOUS
  <2> QED BY <2>1, <2>2, <2>3
<1> DEFINE k == (s - 1 + a * a) \div s
<1>2. k \in Int /\ s * k <= s - 1 + a * a
  OBVIOUS
<1>3. ~(k >= a)
  <2> SUFFICES ASSUME k >= a PROVE FALSE OBVIOUS
  <2>1. s * k >= s * a BY <1>2
  <2> QED BY <1>1, <1>2, <2>1
<1> QED BY <1>2, <1>3

\* What keeps owner, the counts and the clocks keeps what is said of them.
LEMMA Kept ==
  ASSUME CountFresh, Sustained, UNCHANGED <<owner, collapse, upset>>
  PROVE  CountFresh' /\ Sustained'
BY DEF CountFresh, Sustained, collapse, Count, Owned

LEMMA InitInv == Init => IInv
<1> SUFFICES ASSUME Init PROVE IInv OBVIOUS
<1>1. TypeOK
  <2>1. owner \in [Planet -> Team \cup {Nobody}] BY PlanetsAssumption DEF Init
  <2>2. armies \in [Planet -> 0..MaxArmies] BY ArmyNumbers DEF Init
  <2>3. couptime \in [Team -> Nat] /\ plcount \in [Team -> Nat] BY DEF Init
  <2>4. clock \in [Team -> 0..SurrLength] BY PlanetsAssumption DEF Init
  <2>5. carried \in [Ship -> 0..Hold] BY PlanetsAssumption DEF Init
  <2> QED BY <2>1, <2>2, <2>3, <2>4, <2>5 DEF Init, TypeOK
<1>2. OwnedHasArmies BY PlanetsAssumption, ArmyNumbers DEF Init, OwnedHasArmies
<1>3. CountFresh /\ Sustained BY DEF Init, CountFresh, Sustained
<1> QED BY <1>1, <1>2, <1>3 DEF IInv

LEMMA ShipsInv ==
  ASSUME IInv, NEW s \in Ship,
         \/ \E t \in Team : Enter(s, t)
         \/ Die(s)
         \/ \E x \in Ship : Transfer(s, x)
         \/ Coup(s)
  PROVE  IInv'
<1>1. UNCHANGED <<land, collapse, upset>> BY DEF Enter, Die, Transfer, Coup
<1>2. TypeOK'
  <2>1. CASE \E t \in Team : Enter(s, t)
    BY <2>1, PlanetsAssumption DEF IInv, TypeOK, Enter, land, collapse
  <2>2. CASE Die(s) BY <2>2 DEF IInv, TypeOK, Die, land, collapse
  <2>3. CASE \E x \in Ship : Transfer(s, x)
    BY <2>3, PlanetsAssumption DEF IInv, TypeOK, Transfer, land, collapse
  <2>4. CASE Coup(s)
    BY <2>4 DEF IInv, TypeOK, Coup, land, collapse, ships
  <2> QED BY <2>1, <2>2, <2>3, <2>4
<1>3. OwnedHasArmies' BY <1>1 DEF IInv, OwnedHasArmies, land
<1>4. CountFresh' /\ Sustained' BY <1>1, Kept DEF IInv, land
<1> QED BY <1>2, <1>3, <1>4 DEF IInv

\* What a ship does to the armies of a planet it does not take.
ByShip(s, l) ==
  \/ Ghostbust(s, l)
  \/ \E n \in 1..Garrison-1 : Bomb(s, l, n)
  \/ BeamUp(s, l)
  \/ Reinforce(s, l)

\* Armies come and go on a planet, and never the last one.
LEMMA ArmiesInv ==
  ASSUME IInv, NEW l \in Planet,
         \/ \E s \in Ship : ByShip(s, l)
         \/ \E n \in 0..MaxArmies : Populate(l, n)
  PROVE  IInv'
<1>1. UNCHANGED <<owner, collapse, upset, coups, couptime, parade>>
  BY DEF ByShip, Ghostbust, Bomb, BeamUp, Reinforce, BeamsDown, Populate
<1>2. side' = side /\ status' \in [Ship -> {"ALIVE", "OUT"}] /\ carried' \in [Ship -> 0..Hold]
  BY PlanetsAssumption DEF ByShip, IInv, TypeOK, ships, Ghostbust, Bomb, BeamUp, Reinforce, BeamsDown, Populate
<1>3. armies[l] > 0 /\ \E k \in 1..MaxArmies : armies' = [armies EXCEPT ![l] = k]
  <2> armies[l] \in Nat /\ armies[l] <= MaxArmies /\ Garrison \in Nat /\ Garrison > 1
        /\ MaxArmies \in Nat
    BY ArmyNumbers DEF IInv, TypeOK
  <2>1. ASSUME NEW s \in Ship, Ghostbust(s, l)
        PROVE  armies[l] > 0 /\ \E k \in 1..MaxArmies : armies' = [armies EXCEPT ![l] = k]
    <3> carried[s] \in Nat BY DEF IInv, TypeOK
    <3>1. side[s] # Nobody BY PlanetsAssumption DEF IInv, TypeOK
    <3>2. armies[l] > 0 BY <2>1, <3>1 DEF IInv, OwnedHasArmies, Ghostbust
    <3>3. armies[l] + carried[s] \in 1..MaxArmies BY <2>1, <3>2 DEF Ghostbust
    <3> QED BY <2>1, <3>2, <3>3 DEF Ghostbust
  <2>2. ASSUME NEW s \in Ship, \E n \in 1..Garrison-1 : Bomb(s, l, n)
        PROVE  armies[l] > 0 /\ \E k \in 1..MaxArmies : armies' = [armies EXCEPT ![l] = k]
    <3>1. PICK n \in 1..Garrison-1 : Bomb(s, l, n) BY <2>2
    <3>2. armies[l] > 0 /\ armies[l] - n \in 1..MaxArmies BY <3>1 DEF Bomb
    <3> QED BY <3>1, <3>2 DEF Bomb
  <2>3. ASSUME NEW s \in Ship, BeamUp(s, l)
        PROVE  armies[l] > 0 /\ \E k \in 1..MaxArmies : armies' = [armies EXCEPT ![l] = k]
    <3>1. armies[l] > 0 /\ armies[l] - 1 \in 1..MaxArmies BY <2>3 DEF BeamUp
    <3> QED BY <2>3, <3>1 DEF BeamUp
  <2>4. ASSUME NEW s \in Ship, Reinforce(s, l)
        PROVE  armies[l] > 0 /\ \E k \in 1..MaxArmies : armies' = [armies EXCEPT ![l] = k]
    <3>1. side[s] # Nobody BY PlanetsAssumption DEF IInv, TypeOK
    <3>2. armies[l] > 0 BY <2>4, <3>1 DEF IInv, OwnedHasArmies, Reinforce
    <3>3. armies[l] + 1 \in 1..MaxArmies BY <2>4, <3>2 DEF Reinforce
    <3> QED BY <2>4, <3>2, <3>3 DEF Reinforce
  <2>5. CASE \E n \in 0..MaxArmies : Populate(l, n)
    <3>1. PICK n \in 0..MaxArmies : Populate(l, n) BY <2>5
    <3>2. armies[l] > 0 /\ n >= armies[l] - Plague(armies[l]) BY <3>1 DEF Populate
    <3>3. CASE armies[l] > Garrison
      <4>1. (PlagueScale - 1 + armies[l] * armies[l]) \div PlagueScale < armies[l]
        BY <3>3, ArmyNumbers, PlagueSpares
      <4>2. Plague(armies[l]) = (PlagueScale - 1 + armies[l] * armies[l]) \div PlagueScale
        BY <3>3 DEF Plague
      <4>3. Plague(armies[l]) \in Int /\ Plague(armies[l]) < armies[l]
        BY <4>1, <4>2, ArmyNumbers
      <4>4. n \in 1..MaxArmies BY <3>2, <4>3
      <4> QED BY <3>1, <3>2, <4>4 DEF Populate
    <3>4. CASE ~(armies[l] > Garrison)
      <4>1. Plague(armies[l]) = 0 BY <3>4 DEF Plague
      <4>2. n \in 1..MaxArmies BY <3>2, <4>1
      <4> QED BY <3>1, <3>2, <4>2 DEF Populate
    <3> QED BY <3>3, <3>4
  <2> QED BY <2>1, <2>2, <2>3, <2>4, <2>5 DEF ByShip
<1>4. TypeOK' BY <1>1, <1>2, <1>3 DEF IInv, TypeOK, collapse
<1>5. OwnedHasArmies' BY <1>1, <1>3 DEF IInv, TypeOK, OwnedHasArmies
<1>6. CountFresh' /\ Sustained' BY <1>1, Kept DEF IInv
<1> QED BY <1>4, <1>5, <1>6 DEF IInv

-----------------------------------------------------------------------------
(* Steps that move planets.                                                *)

\* What FallNoticed says of a step.
Noticed ==
  parade # "on" /\ upset' = "no" =>
    \A t \in Team :
      /\ Count(owner, t) > SurrenderStart /\ Count(owner', t) \in 1..SurrenderStart
           => clock'[t] > 0
      /\ Count(owner, t) > 0 /\ Count(owner', t) = 0
           => parade' # "no" \/ \A s \in Ship : status'[s] = "ALIVE" => side[s] # t

LEMMA InvadeStep ==
  ASSUME IInv, NEW s \in Ship, NEW l \in Planet, Invade(s, l)
  PROVE  IInv' /\ Noticed
<1> DEFINE loser == owner[l]
           winner == side[s]
           new == [owner EXCEPT ![l] = Nobody]
           arms == [armies EXCEPT ![l] = @ - 1]
<1>1. loser \in Team /\ winner \in Team /\ loser # winner
  BY DEF IInv, TypeOK, Invade
<1>2. side' = side /\ coups' = coups /\ carried' \in [Ship -> 0..Hold]
  BY PlanetsAssumption DEF IInv, TypeOK, Invade, BeamsDown
<1>3. armies[l] \in Nat \ {0} BY DEF IInv, TypeOK, Invade
<1>4. CASE ~Destroyed(l)
  <2>1. UNCHANGED <<owner, couptime, collapse, parade, status, upset>> /\ armies' = arms
    BY <1>4 DEF Invade
  <2>2. armies[l] - 1 \in Nat \ {0} /\ armies[l] - 1 <= MaxArmies
    BY <1>3, <1>4, ArmyNumbers DEF Destroyed, IInv, TypeOK
  <2>3. arms \in [Planet -> 0..MaxArmies] BY <2>2, ArmyNumbers DEF IInv, TypeOK
  <2> HIDE DEF arms
  <2>7. TypeOK' BY <1>2, <2>1, <2>3 DEF IInv, TypeOK, collapse
  <2> USE DEF arms
  <2>4. OwnedHasArmies' BY <1>3, <2>1, <2>2 DEF IInv, TypeOK, OwnedHasArmies
  <2>5. CountFresh' /\ Sustained' BY <2>1, Kept DEF IInv
  <2>6. Noticed
    <3>1. ASSUME NEW t \in Team PROVE Count(owner', t) = Count(owner, t) BY <2>1
    <3>2. ASSUME NEW t \in Team PROVE Count(owner, t) \in Nat BY CountNat
    <3> QED BY <3>1, <3>2, PlanetsAssumption DEF Noticed
  <2> QED BY <2>4, <2>5, <2>6, <2>7 DEF IInv
<1>5. CASE Destroyed(l)
  <2>1. owner' = new /\ Checkgen(new, arms, loser, winner) BY <1>5 DEF Invade
  <2>2. /\ Count(new, loser) = Count(owner, loser) - 1
        /\ \A t \in Team \ {loser} : Count(new, t) = Count(owner, t)
    BY <1>1, LosePlanet DEF IInv, TypeOK
  <2>3. \A t \in Team : Count(owner, t) \in Nat /\ Count(new, t) \in Nat BY CountNat
  <2>4. /\ plcount' = [t \in Team |-> Count(new, t)]
        /\ upset' = IF upset = "no" THEN "no" ELSE "seen"
    BY <2>1 DEF Checkgen, Checkwin, Recount
  <2>5. new \in [Planet -> Team \cup {Nobody}] /\ arms \in [Planet -> 0..MaxArmies]
    <3>1. armies[l] - 1 \in 0..MaxArmies BY <1>3, ArmyNumbers DEF IInv, TypeOK
    <3> QED BY <3>1 DEF IInv, TypeOK
  <2>6. \A m \in Planet : new[m] = Nobody <=> arms[m] = 0
    BY <1>3, <1>5 DEF IInv, TypeOK, OwnedHasArmies, Destroyed
  <2>7. plcount' \in [Team -> Nat] /\ upset' \in {"no", "unseen", "seen"}
    BY <2>3, <2>4
  <2>8. CountFresh' BY <2>1, <2>4 DEF CountFresh
  <2>9. CASE Count(new, loser) > 0
    <3>1. clock' = Collapse(clock, new, loser) /\ armies' = arms
           /\ UNCHANGED <<parade, status, couptime>>
      BY <2>1, <2>9 DEF Checkgen
    <3>2. clock' \in [Team -> 0..SurrLength]
      BY <3>1, <1>1, Numbers DEF Collapse, IInv, TypeOK
    <3>3. TypeOK' BY <1>2, <2>1, <2>5, <2>7, <3>1, <3>2 DEF IInv, TypeOK
    <3>4. OwnedHasArmies' BY <2>1, <2>6, <3>1 DEF OwnedHasArmies
    <3>5. \A t \in Team \ {loser} : clock'[t] = clock[t]
      BY <3>1 DEF Collapse, IInv, TypeOK
    <3>6. clock'[loser] > 0 => clock[loser] > 0 \/ Count(new, loser) = SurrenderStart
      BY <3>1, <1>1 DEF Collapse, IInv, TypeOK
    <3>7. Sustained'
      <4> SUFFICES ASSUME upset = "no", NEW t \in Team, clock'[t] > 0
                   PROVE  Count(new, t) > 0 /\ Count(new, t) < Surrend
        BY <2>1, <2>4 DEF Sustained
      <4>1. CASE t = loser
        BY <4>1, <1>1, <2>2, <2>3, <2>9, <3>6, PlanetsAssumption DEF IInv, Sustained
      <4>2. CASE t # loser
        BY <4>2, <2>2, <3>5 DEF IInv, Sustained
      <4> QED BY <4>1, <4>2
    <3>8. Noticed
      <4> SUFFICES ASSUME upset = "no", NEW t \in Team
                   PROVE /\ Count(owner, t) > SurrenderStart /\ Count(new, t) \in 1..SurrenderStart
                              => clock'[t] > 0
                         /\ ~(Count(owner, t) > 0 /\ Count(new, t) = 0)
        BY <2>1, <2>4 DEF Noticed
      <4>1. CASE t # loser
        <5>1. Count(new, t) = Count(owner, t) /\ Count(owner, t) \in Nat BY <4>1, <2>2, <2>3
        <5> HIDE DEF new
        <5> QED BY <5>1, Numbers
      <4>2. CASE t = loser
        <5>1. Count(owner, t) > SurrenderStart /\ Count(new, t) \in 1..SurrenderStart
                => Count(new, t) = SurrenderStart
          BY <4>2, <2>2, <2>3, PlanetsAssumption
        <5>2. Count(new, t) = SurrenderStart => clock'[t] > 0
          BY <3>1, <4>2, <1>1, PlanetsAssumption DEF Collapse, IInv, TypeOK
        <5> QED BY <5>1, <5>2, <4>2, <2>9
      <4> QED BY <4>1, <4>2
    <3> QED BY <3>3, <3>4, <2>8, <3>7, <3>8 DEF IInv
  <2>10. CASE ~(Count(new, loser) > 0)
    <3> DEFINE stopped == [clock EXCEPT ![loser] = 0]
    <3>1. /\ clock' = Sustain(stopped, new, winner)
           /\ parade' = IF Conquered(new) THEN "new" ELSE parade
      BY <2>1, <2>10 DEF Checkgen, Checkwin
    <3>2. \/ /\ Conquered(new) /\ armies' = arms /\ UNCHANGED <<status, couptime>>
          \/ /\ ~Conquered(new)
             /\ armies' \in Boosted(new, arms, winner)
             /\ status' = [x \in Ship |-> IF side[x] = loser THEN "OUT" ELSE status[x]]
             /\ couptime' = [couptime EXCEPT ![loser] = CoupMinutes]
      BY <2>1, <2>10 DEF Checkgen
    <3>3. armies' \in [Planet -> 0..MaxArmies] /\ \A m \in Planet : new[m] = Nobody <=> armies'[m] = 0
      <4>1. CASE armies' = arms BY <4>1, <2>5, <2>6
      <4>2. CASE armies' \in Boosted(new, arms, winner)
        <5>2. armies' \in [Planet -> 0..MaxArmies] BY <4>2 DEF Boosted
        <5>3. ASSUME NEW m \in Planet PROVE new[m] = Nobody <=> armies'[m] = 0
          <6>1. CASE new[m] = winner
            <7>1. armies'[m] >= arms[m] BY <4>2, <6>1 DEF Boosted
            <7>2. arms[m] \in Nat /\ armies'[m] \in Nat BY <2>5, <5>2, ArmyNumbers
            <7>3. winner # Nobody BY <1>1, PlanetsAssumption
            <7>4. arms[m] # 0 /\ new[m] # Nobody BY <6>1, <7>3, <2>6
            <7> HIDE DEF arms, new
            <7> QED BY <7>1, <7>2, <7>4
          <6>2. CASE new[m] # winner
            <7>1. armies'[m] = arms[m] BY <4>2, <6>2 DEF Boosted
            <7> QED BY <7>1, <2>6
          <6> QED BY <6>1, <6>2
        <5> QED BY <5>2, <5>3
      <4> QED BY <3>2, <4>1, <4>2
    <3>4. status' \in [Ship -> {"ALIVE", "OUT"}] /\ couptime' \in [Team -> Nat]
      BY <3>2, PlanetsAssumption DEF IInv, TypeOK
    <3>5. clock' \in [Team -> 0..SurrLength]
      BY <3>1, <1>1, Numbers DEF Sustain, IInv, TypeOK
    <3>6. parade' \in {"no", "new", "on"} BY <3>1 DEF IInv, TypeOK
    <3>7. TypeOK' BY <1>2, <2>1, <2>5, <2>7, <3>3, <3>4, <3>5, <3>6 DEF IInv, TypeOK
    <3>8. OwnedHasArmies' BY <2>1, <3>3 DEF OwnedHasArmies
    <3>9. \A t \in Team : clock'[t] > 0 => t # loser /\ clock'[t] = clock[t]
      BY <3>1, <1>1, PlanetsAssumption DEF Sustain, IInv, TypeOK
    <3>10. Sustained'
      <4> SUFFICES ASSUME upset = "no", NEW t \in Team, clock'[t] > 0
                   PROVE  Count(new, t) > 0 /\ Count(new, t) < Surrend
        BY <2>1, <2>4 DEF Sustained
      <4> QED BY <2>2, <3>9 DEF IInv, Sustained
    <3>11. Noticed
      <4> SUFFICES ASSUME upset = "no", NEW t \in Team
                   PROVE /\ Count(owner, t) > SurrenderStart /\ Count(new, t) \in 1..SurrenderStart
                              => clock'[t] > 0
                         /\ Count(owner, t) > 0 /\ Count(new, t) = 0
                              => parade' # "no" \/ \A x \in Ship : status'[x] = "ALIVE" => side[x] # t
        BY <2>1, <2>4 DEF Noticed
      <4>1. CASE t # loser
        <5>1. Count(new, t) = Count(owner, t) /\ Count(owner, t) \in Nat BY <4>1, <2>2, <2>3
        <5> HIDE DEF new
        <5> QED BY <5>1, Numbers
      <4>2. CASE t = loser
        BY <4>2, <2>10, <2>3, <3>1, <3>2, PlanetsAssumption
      <4> QED BY <4>1, <4>2
    <3> QED BY <3>7, <3>8, <2>8, <3>10, <3>11 DEF IInv
  <2> QED BY <2>9, <2>10
<1> QED BY <1>4, <1>5

LEMMA TakeOverStep ==
  ASSUME IInv, NEW s \in Ship, NEW l \in Planet, TakeOver(s, l)
  PROVE  IInv' /\ Noticed
<1> DEFINE winner == side[s]
           new == [owner EXCEPT ![l] = winner]
<1>1. winner \in Team /\ owner[l] = Nobody /\ armies[l] = 0
  BY DEF IInv, TypeOK, OwnedHasArmies, TakeOver
<1>2. /\ side' = side /\ coups' = coups /\ carried' \in [Ship -> 0..Hold]
      /\ status' = status /\ couptime' = couptime
  BY PlanetsAssumption DEF IInv, TypeOK, TakeOver, BeamsDown
<1>3. owner' = new /\ armies' = [armies EXCEPT ![l] = 1]
  BY <1>1 DEF TakeOver
<1>4. /\ plcount' = [t \in Team |-> Count(new, t)]
      /\ upset' = IF upset = "no" THEN "no" ELSE "seen"
      /\ clock' = Sustain(clock, new, winner)
      /\ parade' = IF Conquered(new) THEN "new" ELSE parade
  BY <1>3 DEF TakeOver, Checkwin, Recount
<1>5. /\ Count(new, winner) = Count(owner, winner) + 1
      /\ \A t \in Team \ {winner} : Count(new, t) = Count(owner, t)
  BY <1>1, GainPlanet DEF IInv, TypeOK
<1>6. \A t \in Team : Count(owner, t) \in Nat /\ Count(new, t) \in Nat BY CountNat
<1>7. TypeOK'
  <2>1. owner' \in [Planet -> Team \cup {Nobody}] /\ armies' \in [Planet -> 0..MaxArmies]
    BY <1>1, <1>3, ArmyNumbers DEF IInv, TypeOK
  <2>2. clock' \in [Team -> 0..SurrLength] /\ parade' \in {"no", "new", "on"}
    BY <1>4, PlanetsAssumption DEF Sustain, IInv, TypeOK
  <2>3. plcount' \in [Team -> Nat] /\ upset' \in {"no", "unseen", "seen"}
    BY <1>4, <1>6
  <2> QED BY <1>2, <2>1, <2>2, <2>3 DEF IInv, TypeOK
<1>8. OwnedHasArmies'
  BY <1>1, <1>3, PlanetsAssumption DEF IInv, TypeOK, OwnedHasArmies
<1>9. CountFresh' BY <1>3, <1>4 DEF CountFresh
<1>10. \A t \in Team : clock'[t] > 0 => /\ clock'[t] = clock[t]
                                        /\ t = winner => Count(new, t) # Surrend
  BY <1>1, <1>4 DEF Sustain, IInv, TypeOK
<1>11. Sustained'
  <2> SUFFICES ASSUME upset = "no", NEW t \in Team, clock'[t] > 0
               PROVE  Count(new, t) > 0 /\ Count(new, t) < Surrend
    BY <1>3, <1>4 DEF Sustained
  <2>1. Count(owner, t) > 0 /\ Count(owner, t) < Surrend BY <1>10 DEF IInv, Sustained
  <2>2. CASE t = winner
    <3>1. Count(new, t) = Count(owner, t) + 1 /\ Count(new, t) # Surrend
      BY <2>2, <1>5, <1>10
    <3>2. Count(owner, t) \in Nat BY <1>6
    <3> HIDE DEF new
    <3> QED BY <2>1, <3>1, <3>2, Numbers
  <2>3. CASE t # winner BY <2>1, <2>3, <1>5
  <2> QED BY <2>2, <2>3
<1>12. Noticed
  <2>1. ASSUME NEW t \in Team PROVE Count(new, t) >= Count(owner, t)
    <3>1. Count(new, t) = Count(owner, t) + 1 \/ Count(new, t) = Count(owner, t)
      BY <1>5
    <3>2. Count(owner, t) \in Nat BY <1>6
    <3> HIDE DEF new
    <3> QED BY <3>1, <3>2
  <2> HIDE DEF new
  <2> QED BY <2>1, <1>3, <1>6, Numbers DEF Noticed
<1> QED BY <1>7, <1>8, <1>9, <1>11, <1>12 DEF IInv

\* No clock and no count changes before the planets are counted again.
LEMMA OverthrowStep ==
  ASSUME IInv, NEW t \in Team, Overthrow(t)
  PROVE  IInv' /\ Noticed
<1>1. Garrison - 1 \in 1..MaxArmies /\ Home[t] \in Planet /\ t # Nobody
  BY PlanetsAssumption, ArmyNumbers
<1>2. TypeOK' BY <1>1 DEF IInv, TypeOK, Overthrow, collapse, ships
<1>3. OwnedHasArmies' BY <1>1 DEF IInv, TypeOK, OwnedHasArmies, Overthrow
<1>4. upset' = "unseen" BY DEF Overthrow
<1>5. CountFresh' /\ Sustained' /\ Noticed BY <1>4 DEF CountFresh, Sustained, Noticed
<1> QED BY <1>2, <1>3, <1>5 DEF IInv

\* The surrender of some teams takes all their planets and nobody else's.
LEMMA MinuteStep ==
  ASSUME IInv, NEW able \in SUBSET Team, Minute(able)
  PROVE  IInv' /\ Noticed
<1> DEFINE counting == {t \in able : clock[t] > 0 /\ plcount[t] <= SurrenderStart}
           ended == {t \in counting : clock[t] = 1}
<1>1. /\ clock' = [t \in Team |-> IF t \in counting THEN clock[t] - 1 ELSE clock[t]]
      /\ owner' = [l \in Planet |-> IF owner[l] \in ended THEN Nobody ELSE owner[l]]
      /\ armies' = [l \in Planet |-> IF owner[l] \in ended THEN 0 ELSE armies[l]]
      /\ couptime' = [t \in Team |-> IF t \in ended THEN CoupMinutes
                                     ELSE IF couptime[t] > 0 THEN couptime[t] - 1 ELSE 0]
      /\ status' = [s \in Ship |-> IF side[s] \in ended THEN "OUT" ELSE status[s]]
      /\ UNCHANGED <<coups, plcount, parade, side, carried, upset>>
  BY DEF Minute
<1>2. ended \subseteq Team OBVIOUS
<1>3. clock' \in [Team -> 0..SurrLength]
  <2> SUFFICES ASSUME NEW t \in Team
               PROVE (IF t \in counting THEN clock[t] - 1 ELSE clock[t]) \in 0..SurrLength
    BY <1>1
  <2> QED BY PlanetsAssumption DEF IInv, TypeOK
<1>4. owner' \in [Planet -> Team \cup {Nobody}] /\ armies' \in [Planet -> 0..MaxArmies]
  BY <1>1, ArmyNumbers DEF IInv, TypeOK
<1>5. couptime' \in [Team -> Nat]
  <2> SUFFICES ASSUME NEW t \in Team
               PROVE (IF t \in ended THEN CoupMinutes
                      ELSE IF couptime[t] > 0 THEN couptime[t] - 1 ELSE 0) \in Nat
    BY <1>1
  <2> couptime[t] \in Nat /\ CoupMinutes \in Nat BY PlanetsAssumption DEF IInv, TypeOK
  <2> QED OBVIOUS
<1>6. status' \in [Ship -> {"ALIVE", "OUT"}] BY <1>1 DEF IInv, TypeOK
<1>7. TypeOK' BY <1>1, <1>3, <1>4, <1>5, <1>6 DEF IInv, TypeOK
<1>8. OwnedHasArmies'
  <2> SUFFICES ASSUME NEW l \in Planet PROVE owner'[l] = Nobody <=> armies'[l] = 0
    BY DEF OwnedHasArmies
  <2>1. CASE owner[l] \in ended BY <2>1, <1>1
  <2>2. CASE owner[l] \notin ended BY <2>2, <1>1 DEF IInv, OwnedHasArmies
  <2> QED BY <2>1, <2>2
<1>9. ASSUME NEW t \in Team \ ended PROVE Count(owner', t) = Count(owner, t)
  <2>1. Owned(owner', t) = Owned(owner, t) BY <1>1, PlanetsAssumption DEF Owned
  <2> QED BY <2>1 DEF Count
<1>10. ASSUME NEW t \in ended PROVE clock'[t] = 0 /\ \A s \in Ship : status'[s] = "ALIVE" => side[s] # t
  BY <1>1
<1>11. \A t \in Team : clock'[t] > 0 => t \notin ended /\ clock[t] > 0
  BY <1>1, PlanetsAssumption DEF IInv, TypeOK
<1>12. CountFresh'
  <2> SUFFICES ASSUME NEW t \in Team, clock'[t] > 0, upset # "unseen"
               PROVE plcount[t] = Count(owner', t)
    BY <1>1 DEF CountFresh
  <2> QED BY <1>9, <1>11 DEF IInv, CountFresh
<1>13. Sustained'
  <2> SUFFICES ASSUME NEW t \in Team, clock'[t] > 0, upset = "no"
               PROVE Count(owner', t) > 0 /\ Count(owner', t) < Surrend
    BY <1>1 DEF Sustained
  <2> QED BY <1>9, <1>11 DEF IInv, Sustained
<1>14. Noticed
  <2> SUFFICES ASSUME NEW t \in Team
               PROVE /\ Count(owner, t) > SurrenderStart /\ Count(owner', t) \in 1..SurrenderStart
                          => clock'[t] > 0
                     /\ Count(owner, t) > 0 /\ Count(owner', t) = 0
                          => \A s \in Ship : status'[s] = "ALIVE" => side[s] # t
    BY DEF Noticed
  <2>1. CASE t \in ended
    <3>1. Owned(owner', t) = {} BY <2>1, <1>1, <1>2, PlanetsAssumption DEF Owned
    <3>2. Count(owner', t) = 0 BY <3>1, FS_EmptySet DEF Count
    <3> QED BY <2>1, <3>2, <1>10, PlanetsAssumption
  <2>2. CASE t \notin ended
    <3>1. Count(owner, t) \in Nat BY CountNat
    <3> QED BY <2>2, <3>1, <1>9, PlanetsAssumption
  <2> QED BY <2>1, <2>2
<1> QED BY <1>7, <1>8, <1>12, <1>13, <1>14 DEF IInv

LEMMA EndParadeStep ==
  ASSUME IInv, EndParade
  PROVE  IInv' /\ Noticed
<1>1. TypeOK'
  <2>1. owner' \in [Planet -> Team \cup {Nobody}] /\ armies' \in [Planet -> 0..MaxArmies]
    BY PlanetsAssumption, ArmyNumbers DEF EndParade
  <2>2. clock' \in [Team -> 0..SurrLength] /\ couptime' \in [Team -> Nat]
    BY PlanetsAssumption DEF EndParade
  <2> QED BY <2>1, <2>2 DEF IInv, TypeOK, EndParade
<1>2. OwnedHasArmies' BY PlanetsAssumption, ArmyNumbers DEF EndParade, OwnedHasArmies
<1>3. CountFresh' /\ Sustained' BY DEF EndParade, CountFresh, Sustained
<1>4. Noticed BY DEF EndParade, Noticed
<1> QED BY <1>1, <1>2, <1>3, <1>4 DEF IInv

LEMMA PauseStep ==
  ASSUME IInv, Pause
  PROVE  IInv'
<1>1. TypeOK' /\ OwnedHasArmies'
  BY DEF IInv, TypeOK, OwnedHasArmies, Pause, land, ships, collapse
<1>2. CountFresh' /\ Sustained' BY Kept DEF IInv, Pause, land
<1> QED BY <1>1, <1>2 DEF IInv

-----------------------------------------------------------------------------
(* All steps together.                                                     *)

LEMMA OwnerKept ==
  ASSUME owner' = owner
  PROVE  Noticed
<1>1. \A t \in Team : Count(owner', t) = Count(owner, t) /\ Count(owner, t) \in Nat
  BY CountNat
<1> QED BY <1>1, PlanetsAssumption DEF Noticed

LEMMA NextInv == IInv /\ [Next]_vars => IInv' /\ [Noticed]_vars
<1> SUFFICES ASSUME IInv, [Next]_vars PROVE IInv' /\ [Noticed]_vars OBVIOUS
<1>1. CASE UNCHANGED vars
  <2>1. TypeOK' /\ OwnedHasArmies'
    BY <1>1 DEF IInv, TypeOK, OwnedHasArmies, vars, land, ships, collapse
  <2>2. CountFresh' /\ Sustained' BY <1>1, Kept DEF IInv, vars, land
  <2> QED BY <1>1, <2>1, <2>2 DEF IInv
<1>2. ASSUME NEW s \in Ship,
             \/ \E t \in Team : Enter(s, t)
             \/ Die(s)
             \/ \E x \in Ship : Transfer(s, x)
             \/ Coup(s)
      PROVE  IInv' /\ Noticed
  <2>1. owner' = owner BY <1>2 DEF Enter, Die, Transfer, Coup, land
  <2> QED BY <1>2, <2>1, ShipsInv, OwnerKept
<1>3. ASSUME NEW s \in Ship, NEW l \in Planet, ByShip(s, l)
      PROVE  IInv' /\ Noticed
  <2>1. owner' = owner BY <1>3 DEF ByShip, Ghostbust, Bomb, BeamUp, Reinforce
  <2> QED BY <1>3, <2>1, ArmiesInv, OwnerKept
<1>4. ASSUME NEW l \in Planet, NEW n \in 0..MaxArmies, Populate(l, n)
      PROVE  IInv' /\ Noticed
  <2>1. owner' = owner BY <1>4 DEF Populate
  <2> QED BY <1>4, <2>1, ArmiesInv, OwnerKept
<1>5. ASSUME Pause PROVE IInv' /\ Noticed
  <2>1. owner' = owner BY <1>5 DEF Pause, land
  <2> QED BY <1>5, <2>1, PauseStep, OwnerKept
<1>6. ASSUME Next PROVE IInv' /\ Noticed
  BY <1>6, <1>2, <1>3, <1>4, <1>5, InvadeStep, TakeOverStep, OverthrowStep, MinuteStep,
     EndParadeStep DEF Next, ByShip
<1> QED BY <1>1, <1>6

LEMMA Inductive == Spec => []IInv
<1>1. IInv /\ [Next]_vars => IInv' BY NextInv
<1> QED BY InitInv, <1>1, PTL DEF Spec

\* The types of the state, for any numbers; no planet has more than MaxArmies.
THEOREM PlanetsTypeOK == Spec => []TypeOK
<1>1. IInv => TypeOK BY DEF IInv
<1> QED BY Inductive, <1>1, PTL

\* A planet has an owner exactly as long as it has armies, for any bound on the
\* armies of a planet that is two below the scale of the plague, 4498 for 4500.
THEOREM OwnersHaveArmies == Spec => []OwnedHasArmies
<1>1. IInv => OwnedHasArmies BY DEF IInv
<1> QED BY Inductive, <1>1, PTL

\* The daemon's cached count of a team whose surrender clock runs is right.
THEOREM ClockCountsRight == Spec => []CountFresh
<1>1. IInv => CountFresh BY DEF IInv
<1> QED BY Inductive, <1>1, PTL

\* A clock runs only for a team with some planets and fewer than Surrend.
THEOREM ClockStops == Spec => []Sustained
<1>1. IInv => Sustained BY DEF IInv
<1> QED BY Inductive, <1>1, PTL

\* A team's fall to SurrenderStart planets starts its clock, and its fall to
\* none puts its ships out of the game or ends in the conquest of the galaxy.
THEOREM FallsAreNoticed == Spec => FallNoticed
<1>1. IInv /\ [Next]_vars => [Noticed]_vars BY NextInv
<1>2. Spec => [][Noticed]_vars BY Inductive, <1>1, PTL DEF Spec
<1> QED BY <1>2 DEF FallNoticed, Noticed
=============================================================================
