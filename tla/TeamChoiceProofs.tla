-------------------------- MODULE TeamChoiceProofs --------------------------
(***************************************************************************)
(* Proofs about module TeamChoice, for teams of any size, any number of    *)
(* seats, and however many players choose and however many teams fall: its *)
(* types, that diagonals are kept apart, that nobody is shut out, and that *)
(* a player keeps his place.                                               *)
(***************************************************************************)
EXTENDS TeamChoice, TLAPS

\* All is no team; the sizes are numbers.
USE TeamChoiceAssumption

(***************************************************************************)
(* Counting over the four teams.                                           *)
(***************************************************************************)
LEMMA SumNat ==
  ASSUME NEW f \in [Team -> Nat]
  PROVE  Sum(f) \in Nat /\ \A t \in Team : f[t] <= Sum(f)
BY DEF Sum, Team

LEMMA SumInc ==
  ASSUME NEW f \in [Team -> Nat], NEW t \in Team
  PROVE  /\ [f EXCEPT ![t] = @ + 1] \in [Team -> Nat]
         /\ Sum([f EXCEPT ![t] = @ + 1]) = Sum(f) + 1
BY DEF Sum, Team

LEMMA SumDec ==
  ASSUME NEW f \in [Team -> Nat], NEW t \in Team, f[t] > 0
  PROVE  /\ [f EXCEPT ![t] = @ - 1] \in [Team -> Nat]
         /\ Sum([f EXCEPT ![t] = @ - 1]) = Sum(f) - 1
BY DEF Sum, Team

\* Whoever moves from o to t.
LEMMA SumMove ==
  ASSUME NEW f \in [Team -> Nat], NEW o \in Team, NEW t \in Team, f[o] > 0,
         NEW g, g = [u \in Team |-> f[u] + (IF u = t THEN 1 ELSE 0) - (IF u = o THEN 1 ELSE 0)]
  PROVE  g \in [Team -> Nat] /\ Sum(g) = Sum(f)
BY DEF Sum, Team

\* Whoever had no team and joins t.
LEMMA SumJoin ==
  ASSUME NEW f \in [Team -> Nat], NEW o, o \notin Team, NEW t \in Team,
         NEW g, g = [u \in Team |-> f[u] + (IF u = t THEN 1 ELSE 0) - (IF u = o THEN 1 ELSE 0)]
  PROVE  /\ g \in [Team -> Nat]
         /\ Sum(g) = Sum(f) + 1
         /\ \A u \in Team : g[u] >= f[u]
<1>1. \A u \in Team : g[u] = f[u] + (IF u = t THEN 1 ELSE 0)
  OBVIOUS
<1> QED  BY <1>1 DEF Sum, Team

(***************************************************************************)
(* The two largest teams.                                                  *)
(***************************************************************************)
LEMMA LargestTwo ==
  ASSUME members \in [Team -> Nat]
  PROVE  \E x, y \in Team :
           /\ x # y
           /\ Large = {x, y}
           /\ members[x] >= members[y]
           /\ \A z \in Team \ {x, y} : members[z] <= members[y]
<1>1. PICK x \in Team : \A u \in Team \ {x} : Leads(x, u)
  BY DEF Leads, Team
<1>2. PICK y \in Team \ {x} : \A u \in Team \ {x, y} : Leads(y, u)
  BY DEF Leads, Team
<1>3. x \in Large
  BY <1>1 DEF Large, Leads, Team
<1>4. y \in Large
  BY <1>2 DEF Large, Leads, Team
<1>5. \A z \in Team \ {x, y} : z \notin Large
  BY <1>1, <1>2 DEF Large
<1>6. Large \subseteq Team
  BY DEF Large
<1>7. members[x] >= members[y] /\ \A z \in Team \ {x, y} : members[z] <= members[y]
  BY <1>1, <1>2 DEF Leads, Team
<1> QED  BY <1>2, <1>3, <1>4, <1>5, <1>6, <1>7

Apart == \A t \in Team : members[t] < 2 \/ members[Diagonal(t)] < 2

\* Of three teams two are diagonals, so that only large teams have two players.
LEMMA TwoIsLarge ==
  ASSUME members \in [Team -> Nat], Apart, NEW t \in Team, members[t] >= 2
  PROVE  t \in Large
<1> SUFFICES ASSUME NEW u \in Team \ {t}, NEW v \in Team \ {t}, u # v,
                    Leads(u, t), Leads(v, t)
             PROVE  FALSE
  BY DEF Large
<1>1. members[u] >= 2 /\ members[v] >= 2
  BY DEF Leads, Team
<1>2. Diagonal(t) \in {u, v} \/ Diagonal(u) = v
  BY DEF Diagonal, Team
<1> QED  BY <1>1, <1>2 DEF Apart, Team

(***************************************************************************)
(* Types.                                                                  *)
(***************************************************************************)
LEMMA InitType == Init => TypeOK
<1> SUFFICES ASSUME Init PROVE TypeOK  OBVIOUS
<1>1. /\ members \in [Team -> Nat]
      /\ choosing \in [Origin -> Nat]
      /\ entering \in [Origin -> [Team -> Nat]]
  BY DEF Init
<1>2. Sum(members) = 0 /\ \A o \in Origin : Sum(entering[o]) = 0
  BY DEF Init, Sum, Team
<1>3. \A t \in Team : Away(t) <= members[t]
  BY <1>2 DEF Init, Away, Origin
<1>4. Seated <= Seats
  BY <1>2 DEF Init, Seated, Origin
<1> QED  BY <1>1, <1>3, <1>4 DEF Init, TypeOK

LEMMA SeatedNat ==
  ASSUME TypeOK
  PROVE  /\ Sum(members) \in Nat
         /\ \A o \in Origin : Sum(entering[o]) \in Nat
         /\ \A o \in Origin, t \in Team : entering[o][t] <= Sum(entering[o])
BY SumNat DEF TypeOK, Origin

LEMMA ConnectType == TypeOK /\ Connect => TypeOK'
<1> SUFFICES ASSUME TypeOK, Connect PROVE TypeOK'  OBVIOUS
<1>1. choosing' \in [Origin -> Nat] /\ choosing'[All] = choosing[All] + 1
  BY DEF TypeOK, Connect, Origin
<1>2. \A t \in Team : Away(t)' = Away(t)
  BY DEF TypeOK, Connect, Away, Origin, Team
<1>3. Seated' = Seated + 1
  <2>1. Sum(members') = Sum(members) /\ Sum(entering'[All]) = Sum(entering[All])
    BY DEF Connect
  <2>2. choosing[All] \in Nat /\ Sum(members) \in Nat /\ Sum(entering[All]) \in Nat
    BY SeatedNat DEF TypeOK, Origin
  <2>3. choosing'[All] = choosing[All] + 1
    BY <1>1
  <2> QED  BY <2>1, <2>2, <2>3 DEF Seated
<1>4. Seated \in Nat
  BY SeatedNat DEF TypeOK, Seated, Origin
<1> QED  BY <1>1, <1>2, <1>3, <1>4 DEF TypeOK, Connect

LEMMA getEntryType ==
  ASSUME TypeOK, NEW o \in Origin, NEW t \in Team, getEntry(o, t)
  PROVE  TypeOK'
<1>1. choosing' \in [Origin -> Nat] /\ choosing' = [choosing EXCEPT ![o] = @ - 1]
  BY DEF TypeOK, getEntry
<1>2. /\ entering' \in [Origin -> [Team -> Nat]]
      /\ Sum(entering'[o]) = Sum(entering[o]) + 1
      /\ \A p \in Origin \ {o} : entering'[p] = entering[p]
  <2>1. entering' = [entering EXCEPT ![o] = [entering[o] EXCEPT ![t] = @ + 1]]
    BY DEF getEntry, TypeOK
  <2> QED  BY <2>1, SumInc DEF TypeOK
<1>3. \A p \in Origin : choosing'[p] + Sum(entering'[p]) = choosing[p] + Sum(entering[p])
  <2> TAKE p \in Origin
  <2>1. CASE p = o  BY <2>1, <1>1, <1>2, SeatedNat DEF TypeOK
  <2>2. CASE p # o  BY <2>2, <1>1, <1>2 DEF TypeOK
  <2> QED  BY <2>1, <2>2
<1>4. \A p \in Team : Away(p)' <= members'[p]
  BY <1>3 DEF Away, TypeOK, getEntry, Origin
<1>5. Seated' = Seated
  <2>1. Sum(members') = Sum(members) /\ Sum(members) \in Nat
    BY SeatedNat DEF getEntry
  <2>2. Sum(entering[All]) \in Nat /\ choosing[All] \in Nat
    BY SeatedNat DEF TypeOK, Origin
  <2>3. Sum(entering'[All]) \in Nat /\ choosing'[All] \in Nat
    BY <1>1, <1>2, SumNat DEF Origin
  <2>4. choosing'[All] + Sum(entering'[All]) = choosing[All] + Sum(entering[All])
    BY <1>3 DEF Origin
  <2> QED  BY <2>1, <2>2, <2>3, <2>4 DEF Seated
<1>6. upset' \in BOOLEAN
  BY DEF getEntry, TypeOK
<1> QED  BY <1>1, <1>2, <1>4, <1>5, <1>6 DEF TypeOK, getEntry

\* A player who was let through is gone from the way.
LEMMA OffTheWay ==
  ASSUME TypeOK, NEW o \in Origin, NEW t \in Team, entering[o][t] > 0,
         entering' = [entering EXCEPT ![o][t] = @ - 1]
  PROVE  /\ entering' \in [Origin -> [Team -> Nat]]
         /\ Sum(entering'[o]) = Sum(entering[o]) - 1
         /\ \A p \in Origin \ {o} : entering'[p] = entering[p]
<1>1. entering' = [entering EXCEPT ![o] = [entering[o] EXCEPT ![t] = @ - 1]]
  BY DEF TypeOK
<1>2. /\ [entering[o] EXCEPT ![t] = @ - 1] \in [Team -> Nat]
      /\ Sum([entering[o] EXCEPT ![t] = @ - 1]) = Sum(entering[o]) - 1
  <2> entering[o] \in [Team -> Nat]
    BY DEF TypeOK
  <2> QED  BY SumDec
<1> QED  BY <1>1, <1>2 DEF TypeOK

LEMMA enterType ==
  ASSUME TypeOK, NEW o \in Origin, NEW t \in Team, enter(o, t)
  PROVE  TypeOK'
<1>1. /\ entering' \in [Origin -> [Team -> Nat]]
      /\ Sum(entering'[o]) = Sum(entering[o]) - 1
      /\ \A p \in Origin \ {o} : entering'[p] = entering[p]
  BY OffTheWay DEF enter
<1>2. CASE o = All
  <2>1. o \notin Team
    BY <1>2 DEF Team
  <2>2. /\ members' \in [Team -> Nat]
        /\ Sum(members') = Sum(members) + 1
        /\ \A p \in Team : members'[p] >= members[p]
    <3>1. members' = [u \in Team |-> members[u] + (IF u = t THEN 1 ELSE 0)
                                               - (IF u = o THEN 1 ELSE 0)]
      BY DEF enter
    <3>2. members \in [Team -> Nat]
      BY DEF TypeOK
    <3> QED  BY <2>1, <3>1, <3>2, SumJoin
  <2>3. \A p \in Team : Away(p)' <= members'[p]
    BY <1>1, <1>2, <2>1, <2>2, SeatedNat DEF Away, TypeOK, enter, Origin
  <2>4. Seated' = Seated
    BY <1>1, <1>2, <2>2, SeatedNat DEF Seated, TypeOK, enter, Origin
  <2> QED  BY <1>1, <2>2, <2>3, <2>4 DEF TypeOK, enter
<1>3. CASE o \in Team
  <2>1. members[o] > 0
    BY <1>3, SeatedNat DEF TypeOK, enter, Away, Origin
  <2>2. members' \in [Team -> Nat] /\ Sum(members') = Sum(members)
    <3>1. members' = [u \in Team |-> members[u] + (IF u = t THEN 1 ELSE 0)
                                               - (IF u = o THEN 1 ELSE 0)]
      BY DEF enter
    <3>2. members \in [Team -> Nat]
      BY DEF TypeOK
    <3> QED  BY <1>3, <2>1, <3>1, <3>2, SumMove
  <2>3. \A p \in Team : Away(p)' <= members'[p]
    <3> TAKE p \in Team
    <3>1. CASE p = o
      BY <1>1, <3>1, SeatedNat DEF Away, TypeOK, enter, Origin
    <3>2. CASE p # o
      BY <1>1, <3>2, SeatedNat DEF Away, TypeOK, enter, Origin
    <3> QED  BY <3>1, <3>2
  <2>4. Seated' = Seated
    BY <1>1, <1>3, <2>2, SeatedNat DEF Seated, TypeOK, enter, Origin, Team
  <2> QED  BY <1>1, <2>2, <2>3, <2>4 DEF TypeOK, enter
<1> QED  BY <1>2, <1>3 DEF Origin

LEMMA deathType ==
  ASSUME TypeOK, NEW t \in Team, death(t)
  PROVE  TypeOK'
<1>1. choosing' \in [Origin -> Nat] /\ choosing' = [choosing EXCEPT ![t] = @ + 1]
  BY DEF TypeOK, death, Origin
<1>2. \A p \in Team : Away(p)' <= members'[p]
  BY <1>1, SeatedNat DEF Away, TypeOK, death, Origin
<1>3. Seated' = Seated
  BY <1>1 DEF Seated, TypeOK, death, Origin, Team
<1> QED  BY <1>1, <1>2, <1>3 DEF TypeOK, death

LEMMA FreedType ==
  ASSUME TypeOK, NEW o \in Team, members[o] > 0
  PROVE  /\ Freed(o) \in [Team -> Nat]
         /\ Sum(Freed(o)) = Sum(members) - 1
         /\ Freed(o)[o] = members[o] - 1
         /\ \A p \in Team \ {o} : Freed(o)[p] = members[p]
<1>1. Freed(o) = [members EXCEPT ![o] = @ - 1]
  BY DEF Freed, Team
<1>2. members \in [Team -> Nat]
  BY DEF TypeOK
<1>3. [members EXCEPT ![o] = @ - 1] \in [Team -> Nat]
      /\ Sum([members EXCEPT ![o] = @ - 1]) = Sum(members) - 1
  BY <1>2, SumDec
<1> QED  BY <1>1, <1>2, <1>3

LEMMA LeaveType == TypeOK /\ Leave => TypeOK'
<1> SUFFICES ASSUME TypeOK, Leave PROVE TypeOK'  OBVIOUS
<1>1. CASE \E t \in Team : /\ members[t] > Away(t)
                           /\ members' = Freed(t)
                           /\ UNCHANGED <<choosing, entering>>
  <2> PICK t \in Team : /\ members[t] > Away(t)
                        /\ members' = Freed(t)
                        /\ UNCHANGED <<choosing, entering>>
    BY <1>1
  <2>1. members[t] > 0 /\ Away(t) <= members[t] - 1
    BY SeatedNat DEF Away, TypeOK, Origin
  <2>2. \A p \in Team : Away(p)' <= members'[p]
    BY <2>1, FreedType DEF Away, TypeOK
  <2>3. Seated' <= Seats
    BY <2>1, FreedType, SeatedNat DEF Seated, TypeOK, Origin
  <2> QED  BY <2>1, <2>2, <2>3, FreedType DEF TypeOK, Leave
<1>2. CASE \E o \in Origin : /\ choosing[o] > 0
                             /\ choosing' = [choosing EXCEPT ![o] = @ - 1]
                             /\ members' = Freed(o)
                             /\ UNCHANGED entering
  <2> PICK o \in Origin : /\ choosing[o] > 0
                          /\ choosing' = [choosing EXCEPT ![o] = @ - 1]
                          /\ members' = Freed(o)
                          /\ UNCHANGED entering
    BY <1>2
  <2>1. choosing' \in [Origin -> Nat]
    BY DEF TypeOK
  <2>2. CASE o = All
    <3>1. members' = members
      BY <2>2 DEF Freed
    <3>2. \A p \in Team : Away(p)' <= members'[p]
      BY <2>2, <3>1 DEF Away, TypeOK, Origin, Team
    <3>3. Seated' <= Seats
      BY <2>2, <3>1, SeatedNat DEF Seated, TypeOK, Origin
    <3> QED  BY <2>1, <3>1, <3>2, <3>3 DEF TypeOK, Leave
  <2>3. CASE o \in Team
    <3>1. members[o] > 0
      BY <2>3, SeatedNat DEF Away, TypeOK, Origin
    <3>2. \A p \in Team : Away(p)' <= members'[p]
      BY <2>3, <3>1, FreedType, SeatedNat DEF Away, TypeOK, Origin
    <3>3. Seated' <= Seats
      BY <2>3, <3>1, FreedType, SeatedNat DEF Seated, TypeOK, Origin, Team
    <3> QED  BY <2>1, <2>3, <3>1, <3>2, <3>3, FreedType DEF TypeOK, Leave
  <2> QED  BY <2>2, <2>3 DEF Origin
<1>3. CASE \E o \in Origin, t \in Team :
             /\ entering[o][t] > 0
             /\ entering' = [entering EXCEPT ![o][t] = @ - 1]
             /\ members' = Freed(o)
             /\ UNCHANGED choosing
  <2> PICK o \in Origin, t \in Team :
             /\ entering[o][t] > 0
             /\ entering' = [entering EXCEPT ![o][t] = @ - 1]
             /\ members' = Freed(o)
             /\ UNCHANGED choosing
    BY <1>3
  <2>1. /\ entering' \in [Origin -> [Team -> Nat]]
        /\ Sum(entering'[o]) = Sum(entering[o]) - 1
        /\ \A p \in Origin \ {o} : entering'[p] = entering[p]
    BY OffTheWay
  <2>2. CASE o = All
    <3>1. members' = members
      BY <2>2 DEF Freed
    <3>2. \A p \in Team : Away(p)' <= members'[p]
      BY <2>1, <2>2, <3>1 DEF Away, TypeOK, Origin, Team
    <3>3. Seated' <= Seats
      BY <2>1, <2>2, <3>1, SeatedNat DEF Seated, TypeOK, Origin
    <3> QED  BY <2>1, <3>1, <3>2, <3>3 DEF TypeOK, Leave
  <2>3. CASE o \in Team
    <3>1. members[o] > 0
      BY <2>3, SeatedNat DEF Away, TypeOK, Origin
    <3>2. \A p \in Team : Away(p)' <= members'[p]
      <4> TAKE p \in Team
      <4>1. CASE p = o
        BY <2>1, <2>3, <3>1, <4>1, FreedType, SeatedNat DEF Away, TypeOK, Origin
      <4>2. CASE p # o
        BY <2>1, <2>3, <3>1, <4>2, FreedType, SeatedNat DEF Away, TypeOK, Origin
      <4> QED  BY <4>1, <4>2
    <3>3. Seated' <= Seats
      BY <2>1, <2>3, <3>1, FreedType, SeatedNat DEF Seated, TypeOK, Origin, Team
    <3> QED  BY <2>1, <2>3, <3>1, <3>2, <3>3, FreedType DEF TypeOK, Leave
  <2> QED  BY <2>2, <2>3 DEF Origin
<1> QED  BY <1>1, <1>2, <1>3 DEF Leave

LEMMA FallType ==
  ASSUME TypeOK, NEW t \in Team, Fall(t)
  PROVE  TypeOK'
<1>1. choosing' \in [Origin -> Nat]
  BY SeatedNat DEF TypeOK, Fall, Away, Origin
<1>2. \A p \in Team : Away(p)' <= members'[p]
  BY SeatedNat DEF TypeOK, Fall, Away, Origin
<1>3. Seated' = Seated
  BY DEF Seated, TypeOK, Fall, Origin, Team
<1> QED  BY <1>1, <1>2, <1>3 DEF TypeOK, Fall

LEMMA RestType ==
  ASSUME TypeOK, UNCHANGED <<members, choosing, entering, upset>>,
         held' \subseteq Team, tourn' \in BOOLEAN,
         ts' \in {"PICKUP", "SCUMMERS", "TOURNAMENT"}
  PROVE  TypeOK'
BY DEF TypeOK, Away, Seated

LEMMA FrameType == TypeOK /\ Frame => TypeOK'
<1> SUFFICES ASSUME TypeOK, Frame PROVE TypeOK'  OBVIOUS
<1>1. tourn' \in BOOLEAN /\ ts' \in {"PICKUP", "SCUMMERS", "TOURNAMENT"}
  BY DEF Frame, Pickup, Scummers, Tournament
<1> QED  BY <1>1, RestType DEF Frame, TypeOK

LEMMA NextType == TypeOK /\ [Next]_vars => TypeOK'
<1> SUFFICES ASSUME TypeOK, [Next]_vars PROVE TypeOK'  OBVIOUS
<1>1. CASE Connect  BY <1>1, ConnectType
<1>2. CASE Leave  BY <1>2, LeaveType
<1>3. CASE Frame  BY <1>3, FrameType
<1>4. CASE \E t \in Team : death(t) \/ Fall(t) \/ Rise(t)
  <2>1. ASSUME NEW t \in Team, Rise(t) PROVE TypeOK'
    BY <2>1, RestType DEF Rise, TypeOK
  <2> QED  BY <1>4, <2>1, deathType, FallType
<1>5. CASE \E o \in Origin, t \in Team : getEntry(o, t) \/ enter(o, t)
  BY <1>5, getEntryType, enterType
<1>6. CASE UNCHANGED vars
  BY <1>6, RestType DEF vars, TypeOK
<1> QED  BY <1>1, <1>2, <1>3, <1>4, <1>5, <1>6 DEF Next

\* The types, that everybody is in one place, and that nobody has a seat too
\* many, for every number of seats and players.
THEOREM TeamChoiceTypeOK == Spec => []TypeOK
BY InitType, NextType, PTL DEF Spec

(***************************************************************************)
(* Diagonals.  While nothing is upset every team has planets, at most one  *)
(* player is on his way into a team, and nobody has joined a team since    *)
(* that player's mask was tested.                                          *)
(***************************************************************************)
OneComing ==
  \A o, p \in Origin : \A t, u \in Team :
    entering[o][t] > 0 /\ entering[p][u] > 0 => o = p /\ t = u /\ entering[o][t] = 1

MayCome ==
  \A o \in Origin, t \in Team : entering[o][t] > 0 /\ o # t => members[Diagonal(t)] < 2

DInv == ~upset => held = Team /\ OneComing /\ MayCome /\ Apart

LEMMA InitD == Init => DInv
BY DEF Init, DInv, OneComing, MayCome, Apart, Team, Origin

LEMMA DiagonalTwice == \A t \in Team : /\ Diagonal(t) \in Team \ {t}
                                       /\ Diagonal(Diagonal(t)) = t
BY DEF Diagonal, Team

LEMMA NobodyComing ==
  ASSUME TypeOK, ~(OnTheWay > 0)
  PROVE  \A o \in Origin, t \in Team : entering[o][t] = 0
<1>1. \A o \in Origin : Sum(entering[o]) \in Nat
  BY SeatedNat
<1>2. [u \in Team |-> Sum(entering[u])] \in [Team -> Nat]
  BY <1>1 DEF Origin
<1>3. /\ Sum([u \in Team |-> Sum(entering[u])]) \in Nat
      /\ \A u \in Team : Sum(entering[u]) <= Sum([v \in Team |-> Sum(entering[v])])
  BY <1>1, <1>2, SumNat DEF Origin
<1>4. \A o \in Origin : Sum(entering[o]) = 0
  BY <1>1, <1>3 DEF OnTheWay, Origin
<1> QED  BY <1>4, SeatedNat DEF TypeOK

\* Whoever changes teams is let into one whose diagonal has not two players.
LEMMA LetIn ==
  ASSUME TypeOK, Apart, held = Team,
         NEW o \in Origin, NEW t \in tournamentMask(o)
  PROVE  t \in Team /\ members[Diagonal(t)] < 2
<1>1. ~deadTeam(o)
  BY DEF deadTeam
<1>2. t \in Open(o) \ Diagonals(Large)
  BY <1>1 DEF tournamentMask
<1>3. t \in Team
  BY <1>2 DEF Open
<1>4. Diagonal(t) \in Large => members[Diagonal(t)] < 2
  BY <1>2, <1>3, DiagonalTwice DEF Diagonals, TypeOK
<1> QED  BY <1>3, <1>4, DiagonalTwice, TwoIsLarge DEF TypeOK

\* Players only leave.
LEMMA FewerD ==
  ASSUME TypeOK, TypeOK', DInv, upset' = upset, held' = held,
         \A t \in Team : members'[t] <= members[t],
         \A o \in Origin, t \in Team : entering'[o][t] <= entering[o][t]
  PROVE  DInv'
<1> SUFFICES ASSUME ~upset PROVE (held = Team /\ OneComing /\ MayCome /\ Apart)'
  BY DEF DInv
<1>1. held = Team /\ OneComing /\ MayCome /\ Apart
  BY DEF DInv
<1>2. OneComing'
  <2> SUFFICES ASSUME NEW o \in Origin, NEW p \in Origin, NEW t \in Team, NEW u \in Team,
                      entering'[o][t] > 0, entering'[p][u] > 0
               PROVE  o = p /\ t = u /\ entering'[o][t] = 1
    BY DEF OneComing
  <2>1. {entering[o][t], entering[p][u], entering'[o][t], entering'[p][u]} \subseteq Nat
    BY DEF TypeOK
  <2>2. /\ entering'[o][t] <= entering[o][t]
        /\ entering'[p][u] <= entering[p][u]
    OBVIOUS
  <2>3. entering[o][t] > 0 /\ entering[p][u] > 0
    BY <2>1, <2>2
  <2>4. o = p /\ t = u /\ entering[o][t] = 1
    BY <1>1, <2>3 DEF OneComing
  <2> QED  BY <2>1, <2>2, <2>4
<1>3. MayCome'
  BY <1>1, DiagonalTwice DEF MayCome, TypeOK
<1>4. Apart'
  BY <1>1, DiagonalTwice DEF Apart, TypeOK
<1> QED  BY <1>1, <1>2, <1>3, <1>4

LEMMA getEntryD ==
  ASSUME TypeOK, DInv, NEW o \in Origin, NEW t \in Team, getEntry(o, t)
  PROVE  DInv'
<1> SUFFICES ASSUME ~upset' PROVE (held = Team /\ OneComing /\ MayCome /\ Apart)'
  BY DEF DInv
<1>1. ~upset /\ ~(OnTheWay > 0)
  BY DEF getEntry
<1>2. held = Team /\ OneComing /\ MayCome /\ Apart
  BY <1>1 DEF DInv
<1>3. \A p \in Origin, u \in Team : entering'[p][u] = IF p = o /\ u = t THEN 1 ELSE 0
  BY <1>1, NobodyComing DEF getEntry, TypeOK
<1>4. OneComing'
  BY <1>3 DEF OneComing
<1>5. members[Diagonal(t)] < 2
  BY <1>2, LetIn DEF getEntry
<1>6. MayCome'
  BY <1>3, <1>5 DEF MayCome, getEntry
<1>7. Apart' /\ held' = Team
  BY <1>2 DEF Apart, getEntry
<1> QED  BY <1>4, <1>6, <1>7

LEMMA enterD ==
  ASSUME TypeOK, TypeOK', DInv, NEW o \in Origin, NEW t \in Team, enter(o, t)
  PROVE  DInv'
<1> SUFFICES ASSUME ~upset PROVE (held = Team /\ OneComing /\ MayCome /\ Apart)'
  BY DEF DInv, enter
<1>1. held = Team /\ OneComing /\ MayCome /\ Apart
  BY DEF DInv
<1>2. entering[o][t] = 1
  BY <1>1 DEF OneComing, enter
<1>3. \A p \in Origin, u \in Team : entering'[p][u] = 0
  <2> TAKE p \in Origin, u \in Team
  <2>1. CASE p = o /\ u = t
    BY <1>2, <2>1 DEF enter, TypeOK
  <2>2. CASE ~(p = o /\ u = t)
    <3>1. entering'[p][u] = entering[p][u]
      BY <2>2 DEF enter, TypeOK
    <3>2. entering[p][u] \in Nat /\ ~(entering[p][u] > 0)
      BY <1>1, <1>2, <2>2 DEF OneComing, TypeOK
    <3> QED  BY <3>1, <3>2
  <2> QED  BY <2>1, <2>2
<1>4. OneComing' /\ MayCome'
  BY <1>3 DEF OneComing, MayCome
<1>5. Apart'
  <2>1. CASE o = t
    <3>1. \A u \in Team : members'[u] = members[u]
      BY <2>1 DEF enter, TypeOK
    <3> QED  BY <3>1, <1>1, DiagonalTwice DEF Apart
  <2>2. CASE o # t
    <3>1. members[Diagonal(t)] < 2
      BY <1>1, <2>2 DEF MayCome, enter
    <3>2. \A u \in Team \ {t} : members'[u] <= members[u]
      BY DEF enter, TypeOK
    <3>3. members'[Diagonal(t)] < 2
      BY <3>1, <3>2, DiagonalTwice DEF TypeOK
    <3>4. \A u \in Team : members'[u] < 2 \/ members'[Diagonal(u)] < 2
      <4> TAKE u \in Team
      <4>1. CASE u = t  BY <4>1, <3>3
      <4>2. CASE u = Diagonal(t)  BY <4>2, <3>3
      <4>3. CASE u \notin {t, Diagonal(t)}
        <5>1. Diagonal(u) # t
          BY <4>3, DiagonalTwice
        <5> QED  BY <4>3, <5>1, <1>1, <3>2, DiagonalTwice DEF Apart, TypeOK
      <4> QED  BY <4>1, <4>2, <4>3
    <3> QED  BY <3>4 DEF Apart
  <2> QED  BY <2>1, <2>2
<1> QED  BY <1>1, <1>4, <1>5 DEF enter

LEMMA LeaveD ==
  ASSUME TypeOK, TypeOK', DInv, Leave
  PROVE  DInv'
<1>1. upset' = upset /\ held' = held
  BY DEF Leave
<1>2. \A o \in Origin, t \in Team : Freed(o)[t] <= members[t]
  BY DEF Freed, TypeOK
<1>3. \A t \in Team : members'[t] <= members[t]
  BY <1>2 DEF Leave, Origin
<1>4. \A o \in Origin, t \in Team : entering'[o][t] <= entering[o][t]
  BY DEF Leave, TypeOK
<1> QED  BY <1>1, <1>3, <1>4, FewerD

LEMMA NextD == TypeOK /\ TypeOK' /\ DInv /\ [Next]_vars => DInv'
<1> SUFFICES ASSUME TypeOK, TypeOK', DInv, [Next]_vars PROVE DInv'  OBVIOUS
<1>1. ASSUME UNCHANGED <<members, entering, held, upset>> PROVE DInv'
  BY <1>1 DEF DInv, OneComing, MayCome, Apart
<1>2. CASE Connect  BY <1>1, <1>2 DEF Connect
<1>3. CASE Leave  BY <1>3, LeaveD
<1>4. CASE Frame  BY <1>1, <1>4 DEF Frame
<1>5. CASE \E t \in Team : death(t) \/ Fall(t) \/ Rise(t)
  <2>1. ASSUME NEW t \in Team, death(t) PROVE DInv'
    BY <1>1, <2>1 DEF death
  <2>2. ASSUME NEW t \in Team, Fall(t) PROVE DInv'
    BY <2>2 DEF Fall, DInv
  <2>3. ASSUME NEW t \in Team, Rise(t) PROVE DInv'
    \* A team that rises had fallen.
    BY <2>3 DEF Rise, DInv
  <2> QED  BY <1>5, <2>1, <2>2, <2>3
<1>6. CASE \E o \in Origin, t \in Team : getEntry(o, t) \/ enter(o, t)
  BY <1>6, getEntryD, enterD
<1>7. CASE UNCHANGED vars
  BY <1>1, <1>7 DEF vars
<1> QED  BY <1>2, <1>3, <1>4, <1>5, <1>6, <1>7 DEF Next

LEMMA SpecD == Spec => []DInv
<1>1. Init => DInv
  BY InitD
<1>2. TypeOK /\ TypeOK' /\ DInv /\ [Next]_vars => DInv'
  BY NextD
<1> QED  BY <1>1, <1>2, TeamChoiceTypeOK, PTL DEF Spec

\* Diagonals do not both get two players, by one player after another, for any
\* size of teams and however players die, change teams and leave.
THEOREM TeamChoiceApart == Spec => []DiagonalsApart
<1>1. DInv => DiagonalsApart
  BY DEF DInv, Apart, DiagonalsApart
<1> QED  BY <1>1, SpecD, PTL

\* A player of a team of two or more that has planets may stay in it, full or
\* not, in T-mode or not.
THEOREM PlaceKept == Spec => []KeepsPlace
<1>1. TypeOK /\ DInv => KeepsPlace
  <2> SUFFICES ASSUME TypeOK, DInv, ~upset, NEW t \in held, members[t] >= 2
               PROVE  t \in tournamentMask(t)
    BY DEF KeepsPlace
  <2>1. t \in Team /\ Apart
    BY DEF DInv, TypeOK
  <2>2. t \in Large
    BY <2>1, TwoIsLarge DEF TypeOK
  <2>3. t \in Open(t) /\ t # All /\ ~deadTeam(t)
    BY <2>1 DEF Open, deadTeam, Team
  <2>4. t \notin Diagonals(Large)
    BY <2>1, DiagonalTwice DEF Diagonals, Large, Apart, TypeOK
  <2>5. t \notin Unfair(t, Large)
    BY <2>2 DEF Unfair
  <2> QED  BY <2>3, <2>4, <2>5 DEF tournamentMask
<1> QED  BY <1>1, SpecD, TeamChoiceTypeOK, PTL

(***************************************************************************)
(* Nobody is shut out.  This needs no more than the types: whatever has    *)
(* fallen and whoever was let in together, one of the two large teams, or  *)
(* a third, is left.                                                       *)
(***************************************************************************)
LEMMA ThirdOpen ==
  ASSUME TypeOK, NEW x \in Team, NEW y \in Team \ {x}, Large = {x, y},
         members[x] >= members[y],
         \A z \in Team \ {x, y} : members[z] <= members[y]
  PROVE  \A z \in Team \ {x, y} : members[z] < Full
<1> SUFFICES ASSUME NEW z \in Team \ {x, y}, members[z] >= Full PROVE FALSE
  BY DEF TypeOK
<1>1. Sum(members) >= members[x] + members[y] + members[z]
  BY DEF TypeOK, Sum, Team
<1>2. Sum(members) <= Seats
  BY SeatedNat DEF TypeOK, Seated, Origin
<1>3. {Full, Seats} \subseteq Nat /\ Full >= 2 /\ Seats <= 2 * Full
  OBVIOUS
<1>4. {members[x], members[y], members[z], Sum(members)} \subseteq Nat
  BY SeatedNat DEF TypeOK
<1> QED  BY <1>1, <1>2, <1>3, <1>4

\* The smaller of the two large teams is not full for who is not in either.
LEMMA SmallerOpen ==
  ASSUME TypeOK, NEW o \in Origin, choosing[o] > 0,
         NEW x \in Team, NEW y \in Team \ {x},
         o \notin {x, y}, members[x] >= members[y]
  PROVE  members[y] < Full
<1> SUFFICES ASSUME members[y] >= Full PROVE FALSE
  BY DEF TypeOK
<1>1. {Full, Seats} \subseteq Nat /\ Seats <= 2 * Full
  OBVIOUS
<1>2. {members[x], members[y], Sum(members), choosing[All], Sum(entering[All])} \subseteq Nat
  BY SeatedNat DEF TypeOK, Origin
<1>3. Sum(members) + choosing[All] + Sum(entering[All]) <= Seats
  BY DEF TypeOK, Seated
<1>4. CASE o = All
  <2>1. Sum(members) >= members[x] + members[y]
    BY DEF TypeOK, Sum, Team
  <2> QED  BY <1>1, <1>2, <1>3, <1>4, <2>1
<1>5. CASE o \in Team
  <2>1. members[o] \in Nat /\ members[o] > 0
    BY <1>5, SeatedNat DEF TypeOK, Away, Origin
  <2>2. Sum(members) >= members[x] + members[y] + members[o]
    BY <1>5 DEF TypeOK, Sum, Team
  <2> QED  BY <1>1, <1>2, <1>3, <2>1, <2>2
<1> QED  BY <1>4, <1>5 DEF Origin

LEMMA HasChoice == TypeOK => NobodyShutOut
<1> SUFFICES ASSUME TypeOK, NEW o \in Origin, choosing[o] > 0,
                    ~(o = All /\ ~tourn /\ TwoCrowded)
             PROVE  \E t \in Team : t \in tournamentMask(o)
  BY DEF NobodyShutOut
<1>1. PICK x \in Team, y \in Team :
        /\ x # y
        /\ Large = {x, y}
        /\ members[x] >= members[y]
        /\ \A z \in Team \ {x, y} : members[z] <= members[y]
  BY LargestTwo DEF TypeOK
<1>2. CASE deadTeam(o)
  <2>1. PICK t \in Team : t \notin {o, x, y}
    BY DEF Team
  <2> QED  BY <1>1, <1>2, <2>1 DEF tournamentMask
<1>3. CASE ~deadTeam(o) /\ y = Diagonal(x)
  \* A third team is nobody's diagonal, and not full.
  <2>1. PICK t \in Team : t \notin {x, y}
    BY DEF Team
  <2>2. t \in Open(o)
    BY <1>1, <2>1, ThirdOpen DEF Open
  <2>3. t \notin Diagonals(Large)
    BY <1>1, <1>3, <2>1, DiagonalTwice DEF Diagonals
  <2>4. t \notin Crowded(Large) \cup Unfair(o, Large)
    BY <1>1, <2>1 DEF Crowded, Unfair
  <2> QED  BY <1>3, <2>2, <2>3, <2>4 DEF tournamentMask
<1>4. CASE ~deadTeam(o) /\ y # Diagonal(x)
  <2>1. x \notin Diagonals(Large) /\ y \notin Diagonals(Large)
    BY <1>1, <1>4, DiagonalTwice DEF Diagonals
  <2>2. CASE o \in {x, y}
    \* Who is on a large team stays.
    <3>1. o \in Open(o) /\ o \notin Unfair(o, Large) /\ o # All
      BY <1>1, <2>2 DEF Open, Unfair, Team
    <3> QED  BY <1>4, <2>1, <2>2, <3>1 DEF tournamentMask
  <2>3. CASE o \notin {x, y}
    \* Who is not joins the smaller one.
    <3>1. members[y] < Full /\ y \in Open(o)
      BY <1>1, <2>3, SmallerOpen DEF Open
    <3>2. y \notin Unfair(o, Large)
      BY <1>1, <2>3 DEF Unfair, TypeOK
    <3>3. o = All /\ ~tourn => y \notin Crowded(Large)
      <4> SUFFICES ASSUME ~TwoCrowded, members[y] >= Crowd PROVE FALSE
        BY DEF Crowded
      <4>1. members[x] >= Crowd /\ members[y] >= Crowd
        BY <1>1 DEF TypeOK
      <4> QED  BY <1>1, <4>1 DEF TwoCrowded
    <3> QED  BY <1>4, <2>1, <3>1, <3>2, <3>3 DEF tournamentMask
  <2> QED  BY <2>2, <2>3
<1> QED  BY <1>2, <1>3, <1>4

\* Whoever is asked for a team has one to choose, or is a newcomer without
\* T-mode to a galaxy with two crowded teams, whatever T-mode asks for, above
\* Crowd (data.c:124) or not, with seats for two full teams at most.
THEOREM ChoiceLeft == Spec => []NobodyShutOut
BY HasChoice, TeamChoiceTypeOK, PTL
=============================================================================
