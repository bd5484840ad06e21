----------------------------- MODULE BaysProofs -----------------------------
(***************************************************************************)
(* For any number of ships and bays: a docked ship is in the bay it says   *)
(* it is in, of a starbase in play, and a base that refuses docking has    *)
(* nobody docked with it.  Both hold when no client leaves in play with    *)
(* ships docked to its own; BInv, their conjunction with the type, is      *)
(* inductive.  That no bay is lost follows from it by counting: the bays   *)
(* that are not free and the docked ships are in bijection.                *)
(***************************************************************************)
EXTENDS Bays, FiniteSetTheorems, TLAPS

BInv == TypeOK /\ HoldsBay /\ ClosedIsEmpty

\* A berth is a bay of a ship.
LEMMA BerthType ==
  ASSUME TypeOK, NEW s \in Ship, berth[s] # Vacant
  PROVE  /\ berth[s][1] \in Ship
         /\ berth[s][2] \in Bay
         /\ berth[s] = <<berth[s][1], berth[s][2]>>
BY DEF TypeOK

\* Vacant is not a ship.
LEMMA VacantNotShip == Vacant \notin Ship
BY BaysAssumption DEF Ship

\* A docked ship is among those the base's bay_release_all() releases.
LEMMA DockedInBays ==
  ASSUME TypeOK, HoldsBay, NEW s \in Ship, berth[s] # Vacant
  PROVE  s \in InBays(berth[s][1])
<1>1. bays[berth[s][1]][berth[s][2]] = s BY DEF HoldsBay
<1>2. berth[s][2] \in Bay BY BerthType
<1> QED BY <1>1, <1>2, VacantNotShip DEF InBays

\* bay_release() of some ships leaves the bays of the others alone.
LEMMA ReleasedHolds ==
  ASSUME TypeOK, HoldsBay, NEW S \in SUBSET Ship, NEW s \in Ship \ S, berth[s] # Vacant
  PROVE  Released(S)[berth[s][1]][berth[s][2]] = s
<1>1. berth[s][1] \in Ship /\ berth[s][2] \in Bay /\ berth[s] = <<berth[s][1], berth[s][2]>>
  BY BerthType
<1>2. bays[berth[s][1]][berth[s][2]] = s BY DEF HoldsBay
<1>3. ASSUME NEW t \in S, berth[t] = <<berth[s][1], berth[s][2]>> PROVE FALSE
  <2>1. berth[t] = berth[s] BY <1>1, <1>3
  <2>2. berth[t] # Vacant BY <2>1
  <2>3. bays[berth[t][1]][berth[t][2]] = t BY <2>2 DEF HoldsBay
  <2>4. t = s BY <1>2, <2>1, <2>3
  <2> QED BY <2>4
<1> QED BY <1>1, <1>2, <1>3 DEF Released

LEMMA ReleasedType ==
  ASSUME TypeOK, NEW S \in SUBSET Ship
  PROVE  /\ Released(S) \in [Ship -> [Bay -> {Vacant} \cup Ship]]
         /\ Undocked(S) \in [Ship -> {Vacant} \cup (Ship \X Bay)]
<1>1. \A b \in Ship, i \in Bay : bays[b][i] \in {Vacant} \cup Ship BY DEF TypeOK
<1> QED BY <1>1 DEF TypeOK, Released, Undocked

LEMMA NoBaysType == NoBays \in [Bay -> {Vacant} \cup Ship]
BY DEF NoBays

LEMMA InBaysType ==
  ASSUME TypeOK, NEW b \in Ship
  PROVE  InBays(b) \in SUBSET Ship
<1>1. \A i \in Bay : bays[b][i] \in {Vacant} \cup Ship BY DEF TypeOK
<1> QED BY <1>1 DEF InBays

\* The consistency check, made while s looks for a berth, keeps the bays of
\* every other ship, and a free bay is nobody else's.
LEMMA CheckedHolds ==
  ASSUME TypeOK, HoldsBay, NEW s \in Ship, NEW t \in Ship \ {s}, berth[t] # Vacant
  PROVE  Checked([berth EXCEPT ![s] = Vacant], berth[t][1])[berth[t][2]] = t
<1> DEFINE at == [berth EXCEPT ![s] = Vacant]
           b == berth[t][1]
           i == berth[t][2]
<1>1. b \in Ship /\ i \in Bay /\ berth[t] = <<b, i>> BY BerthType
<1>2. bays[b][i] = t BY DEF HoldsBay
<1>3. at[t] = <<b, i>> BY <1>1 DEF TypeOK
<1>4. Consistent(at, b, i) BY <1>2, <1>3 DEF Consistent
<1>5. bays[b][i] # Vacant BY <1>2, VacantNotShip
<1>6. Checked(at, b)[i] = bays[b][i] BY <1>1, <1>4, <1>5 DEF Checked
<1> QED BY <1>2, <1>6

LEMMA CheckedType ==
  ASSUME TypeOK, NEW at, NEW b \in Ship
  PROVE  Checked(at, b) \in [Bay -> {Vacant} \cup Ship]
<1>1. \A i \in Bay : bays[b][i] \in {Vacant} \cup Ship BY DEF TypeOK
<1> QED BY <1>1 DEF Checked

\* What a step must do to keep the invariant: whoever is docked after it was
\* docked there before, and its base and bay are still what they were.
LEMMA DockedStay ==
  ASSUME BInv, TypeOK',
         \A s \in Ship : berth'[s] # Vacant =>
           /\ berth'[s] = berth[s]
           /\ starbase'[berth[s][1]]
           /\ status'[berth[s][1]] \in {"ALIVE", "EXPLODE"}
           /\ bays'[berth[s][1]][berth[s][2]] = s
           /\ dockok[berth[s][1]] => dockok'[berth[s][1]]
  PROVE  BInv'
<1>1. HoldsBay' BY DEF HoldsBay, InGame
<1>2. ASSUME NEW s \in Ship, berth'[s] # Vacant PROVE dockok'[berth'[s][1]]
  <2>1. berth'[s] = berth[s] BY <1>2
  <2>2. berth[s][1] \in Ship BY <1>2, <2>1, BerthType DEF BInv
  <2>3. s \in DockedWith(berth[s][1]) BY <1>2, <2>1 DEF DockedWith
  <2>4. dockok[berth[s][1]] BY <2>2, <2>3 DEF BInv, ClosedIsEmpty
  <2> QED BY <1>2, <2>1, <2>4
<1>3. ClosedIsEmpty' BY <1>2 DEF ClosedIsEmpty, DockedWith
<1> QED BY <1>1, <1>3 DEF BInv

\* A step that only releases ships and changes no base keeps the invariant.
LEMMA ReleaseKeeps ==
  ASSUME BInv, NEW S \in SUBSET Ship,
         bays' = Released(S), berth' = Undocked(S),
         status' = status, starbase' = starbase, dockok' = dockok,
         tractor' \in [Ship -> {Vacant} \cup Ship]
  PROVE  BInv'
<1>1. TypeOK' BY ReleasedType DEF TypeOK, BInv
<1>2. ASSUME NEW s \in Ship, berth'[s] # Vacant
      PROVE  /\ berth'[s] = berth[s]
             /\ starbase[berth[s][1]]
             /\ status[berth[s][1]] \in {"ALIVE", "EXPLODE"}
             /\ bays'[berth[s][1]][berth[s][2]] = s
  <2>1. s \notin S /\ berth'[s] = berth[s] BY <1>2 DEF Undocked
  <2>2. berth[s] # Vacant BY <1>2, <2>1
  <2>3. Released(S)[berth[s][1]][berth[s][2]] = s BY <2>1, <2>2, ReleasedHolds DEF BInv
  <2> QED BY <2>1, <2>2, <2>3 DEF BInv, HoldsBay, InGame
<1> QED BY <1>1, <1>2, DockedStay

-----------------------------------------------------------------------------
(* Each request keeps the invariant.                                       *)

\* A ship and its base in play are different kinds of fact about one berth.
LEMMA Docked ==
  ASSUME BInv, NEW s \in Ship, berth[s] # Vacant
  PROVE  /\ berth[s][1] \in Ship
         /\ berth[s][2] \in Bay
         /\ starbase[berth[s][1]]
         /\ status[berth[s][1]] \in {"ALIVE", "EXPLODE"}
         /\ bays[berth[s][1]][berth[s][2]] = s
         /\ dockok[berth[s][1]]
         /\ s \in InBays(berth[s][1])
<1>1. berth[s][1] \in Ship /\ berth[s][2] \in Bay BY BerthType DEF BInv
<1>2. s \in DockedWith(berth[s][1]) BY DEF DockedWith
<1>3. dockok[berth[s][1]] BY <1>1, <1>2 DEF BInv, ClosedIsEmpty
<1> QED BY <1>1, <1>3, DockedInBays DEF BInv, HoldsBay, InGame

LEMMA DockKeeps ==
  ASSUME BInv, NEW s \in Ship, NEW b \in Ship, starbase[b], status[b] = "ALIVE",
         Dock(s, b), UNCHANGED <<status, starbase, dockok>>
  PROVE  BInv'
<1> DEFINE at == [berth EXCEPT ![s] = Vacant]
<1>1. \A t \in Ship : at[t] = IF t = s THEN Vacant ELSE berth[t] BY DEF BInv, TypeOK
<1>2. at \in [Ship -> {Vacant} \cup (Ship \X Bay)] BY DEF BInv, TypeOK
<1>3. tractor' \in [Ship -> {Vacant} \cup Ship] BY DEF Dock, BInv, TypeOK
<1>4. CASE berth' = at /\ UNCHANGED bays
  <2>1. TypeOK' BY <1>2, <1>3, <1>4 DEF BInv, TypeOK
  <2> QED BY <1>1, <1>4, <2>1, Docked, DockedStay
<1>5. CASE berth' = at /\ bays' = [bays EXCEPT ![b] = Checked(at, b)]
  <2>1. TypeOK' BY <1>2, <1>3, <1>5, CheckedType DEF BInv, TypeOK
  <2>2. ASSUME NEW t \in Ship, berth'[t] # Vacant
        PROVE  berth'[t] = berth[t] /\ bays'[berth[t][1]][berth[t][2]] = t
    <3>1. t # s /\ berth'[t] = berth[t] BY <1>1, <1>5, <2>2
    <3>2. Checked(at, berth[t][1])[berth[t][2]] = t BY <2>2, <3>1, CheckedHolds DEF BInv
    <3> QED BY <1>5, <2>2, <3>1, <3>2, Docked DEF BInv, TypeOK
  <2> QED BY <2>1, <2>2, Docked, DockedStay
<1>6. ASSUME dockok[b], NEW i \in FreeBays(at, b),
             berth' = [berth EXCEPT ![s] = <<b, i>>],
             bays' = [bays EXCEPT ![b] = [Checked(at, b) EXCEPT ![i] = s]]
      PROVE  BInv'
  <2>1. i \in Bay /\ Checked(at, b)[i] = Vacant BY <1>6 DEF FreeBays
  <2>2. Checked(at, b) \in [Bay -> {Vacant} \cup Ship] BY CheckedType DEF BInv
  <2>3. TypeOK' BY <1>3, <1>6, <2>1, <2>2 DEF BInv, TypeOK
  <2>4. berth'[s] = <<b, i>> /\ bays'[b][i] = s BY <1>6, <2>1, <2>2 DEF BInv, TypeOK
  <2>5. ASSUME NEW t \in Ship, t # s, berth'[t] # Vacant
        PROVE  berth'[t] = berth[t] /\ bays'[berth[t][1]][berth[t][2]] = t
    <3>1. berth'[t] = berth[t] BY <1>6, <2>5 DEF BInv, TypeOK
    <3>2. Checked(at, berth[t][1])[berth[t][2]] = t BY <2>5, <3>1, CheckedHolds DEF BInv
    <3>3. berth[t][1] = b => berth[t][2] # i BY <2>1, <2>5, <3>2, VacantNotShip
    <3>4. berth[t][1] \in Ship /\ berth[t][2] \in Bay /\ bays[berth[t][1]][berth[t][2]] = t
      BY <2>5, <3>1, Docked
    <3>5. CASE berth[t][1] = b BY <1>6, <2>2, <3>1, <3>2, <3>3, <3>4, <3>5 DEF BInv, TypeOK
    <3>6. CASE berth[t][1] # b BY <1>6, <3>1, <3>4, <3>6 DEF BInv, TypeOK
    <3> QED BY <3>5, <3>6
  <2>6. HoldsBay'
    <3>1. ASSUME NEW t \in Ship, t # s, berth'[t] # Vacant
          PROVE  /\ starbase'[berth'[t][1]] /\ status'[berth'[t][1]] \in {"ALIVE", "EXPLODE"}
                 /\ bays'[berth'[t][1]][berth'[t][2]] = t
      BY <2>5, <3>1, Docked
    <3>2. /\ starbase'[berth'[s][1]] /\ status'[berth'[s][1]] \in {"ALIVE", "EXPLODE"}
          /\ bays'[berth'[s][1]][berth'[s][2]] = s
      BY <2>4
    <3> QED BY <3>1, <3>2 DEF HoldsBay, InGame
  <2>7. \A t \in Ship : berth'[t] # Vacant => dockok'[berth'[t][1]]
    BY <1>6, <2>4, <2>5, Docked
  <2>8. ClosedIsEmpty' BY <2>7 DEF ClosedIsEmpty, DockedWith
  <2> QED BY <2>3, <2>6, <2>8 DEF BInv
<1> QED BY <1>4, <1>5, <1>6 DEF Dock

LEMMA OrbitKeeps ==
  ASSUME BInv, NEW s \in Ship, Orbit(s)
  PROVE  BInv'
<1>1. ASSUME NEW b \in Ship, starbase[b], status[b] = "ALIVE", Dock(s, b) PROVE BInv'
  BY <1>1, DockKeeps DEF Orbit
<1>2. \A b \in Ship : Tractoring(s) = {b} => status[b] = "ALIVE" BY DEF Tractoring
<1>3. CASE berth' = [berth EXCEPT ![s] = Vacant] /\ UNCHANGED <<bays, tractor>>
  <2>1. TypeOK' BY <1>3 DEF Orbit, BInv, TypeOK
  <2>2. \A t \in Ship : berth'[t] # Vacant => berth'[t] = berth[t] BY <1>3 DEF BInv, TypeOK
  <2> QED BY <1>3, <2>1, <2>2, Docked, DockedStay DEF Orbit
<1> QED BY <1>1, <1>2, <1>3 DEF Orbit

LEMMA UndockKeeps ==
  ASSUME BInv, NEW s \in Ship, Undock(s)
  PROVE  BInv'
<1>1. {s} \in SUBSET Ship OBVIOUS
<1>2. tractor' \in [Ship -> {Vacant} \cup Ship] BY DEF Undock, BInv, TypeOK
<1> QED BY <1>1, <1>2, ReleaseKeeps DEF Undock

LEMMA TractorKeeps ==
  ASSUME BInv, NEW s \in Ship, NEW victim \in Ship, Tractor(s, victim)
  PROVE  BInv'
<1>1. {s, victim} \in SUBSET Ship OBVIOUS
<1>2. tractor' \in [Ship -> {Vacant} \cup Ship] BY DEF Tractor, BInv, TypeOK
<1> QED BY <1>1, <1>2, ReleaseKeeps DEF Tractor

LEMMA DeclareWarKeeps ==
  ASSUME BInv, NEW s \in Ship, DeclareWar(s)
  PROVE  BInv'
<1>1. PICK out \in SUBSET ({s} \cup {x \in InBays(s) : starbase[s]}) :
        bays' = Released(out) /\ berth' = Undocked(out)
  BY DEF DeclareWar
<1>2. out \in SUBSET Ship BY InBaysType DEF BInv
<1>3. tractor' \in [Ship -> {Vacant} \cup Ship] BY DEF DeclareWar, BInv, TypeOK
<1> QED BY <1>1, <1>2, <1>3, ReleaseKeeps DEF DeclareWar

\* A request that changes neither berths nor bays, and closes no base.
LEMMA SameBerths ==
  ASSUME BInv, TypeOK', UNCHANGED <<starbase, berth, bays>>,
         \A b \in Ship : dockok[b] => dockok'[b],
         \A b \in Ship : status[b] \in {"ALIVE", "EXPLODE"} => status'[b] \in {"ALIVE", "EXPLODE"}
  PROVE  BInv'
BY Docked, DockedStay

LEMMA TractorOffKeeps ==
  ASSUME BInv, NEW s \in Ship, TractorOff(s)
  PROVE  BInv'
<1>1. TypeOK' BY DEF TractorOff, BInv, TypeOK
<1> QED BY <1>1, SameBerths DEF TractorOff

LEMMA PermitDockingKeeps ==
  ASSUME BInv, NEW s \in Ship, PermitDocking(s)
  PROVE  BInv'
<1>1. TypeOK' BY DEF PermitDocking, BInv, TypeOK
<1>2. \A b \in Ship : dockok[b] => dockok'[b] BY DEF PermitDocking, BInv, TypeOK
<1> QED BY <1>1, <1>2, SameBerths DEF PermitDocking

LEMMA ExplodeKeeps ==
  ASSUME BInv, NEW s \in Ship, Explode(s)
  PROVE  BInv'
<1>1. TypeOK' BY DEF Explode, BInv, TypeOK
<1>2. \A b \in Ship : status[b] \in {"ALIVE", "EXPLODE"} => status'[b] \in {"ALIVE", "EXPLODE"}
  BY DEF Explode, BInv, TypeOK
<1> QED BY <1>1, <1>2, SameBerths DEF Explode

\* Who is docked after a base emptied its bays is docked with another base.
LEMMA EmptiedKeeps ==
  ASSUME BInv, TypeOK', NEW b \in Ship, NEW S \in SUBSET Ship,
         berth' = Undocked(S),
         \A t \in Ship : berth[t] # Vacant /\ berth[t][1] = b => t \in S,
         \A c \in Ship \ {b} : /\ starbase'[c] = starbase[c]
                               /\ status[c] \in {"ALIVE", "EXPLODE"} => status'[c] \in {"ALIVE", "EXPLODE"}
                               /\ dockok'[c] = dockok[c]
                               /\ bays'[c] = bays[c] \/ bays'[c] = Released(S)[c]
  PROVE  BInv'
<1>1. ASSUME NEW s \in Ship, berth'[s] # Vacant
      PROVE  /\ berth'[s] = berth[s]
             /\ starbase'[berth[s][1]]
             /\ status'[berth[s][1]] \in {"ALIVE", "EXPLODE"}
             /\ bays'[berth[s][1]][berth[s][2]] = s
             /\ dockok[berth[s][1]] => dockok'[berth[s][1]]
  <2>1. s \notin S /\ berth'[s] = berth[s] /\ berth[s] # Vacant BY <1>1 DEF Undocked
  <2>2. berth[s][1] \in Ship \ {b} BY <2>1, Docked
  <2>3. Released(S)[berth[s][1]][berth[s][2]] = s BY <2>1, ReleasedHolds DEF BInv
  <2>4. bays'[berth[s][1]][berth[s][2]] = s BY <2>1, <2>2, <2>3, Docked
  <2> QED BY <2>1, <2>2, <2>4, Docked
<1> QED BY <1>1, DockedStay

LEMMA RefuseDockingKeeps ==
  ASSUME BInv, NEW s \in Ship, RefuseDocking(s)
  PROVE  BInv'
<1>1. InBays(s) \in SUBSET Ship BY InBaysType DEF BInv
<1>2. TypeOK' BY <1>1, ReleasedType, NoBaysType DEF RefuseDocking, BInv, TypeOK
<1>3. \A c \in Ship \ {s} : dockok'[c] = dockok[c] /\ bays'[c] = bays[c]
  BY DEF RefuseDocking, BInv, TypeOK
<1>4. \A t \in Ship : berth[t] # Vacant /\ berth[t][1] = s => t \in InBays(s) BY Docked
<1>5. berth' = Undocked(InBays(s)) /\ starbase' = starbase /\ status' = status
  BY DEF RefuseDocking
<1> QED BY <1>1, <1>2, <1>3, <1>4, <1>5, EmptiedKeeps

LEMMA RefitKeeps ==
  ASSUME BInv, NEW s \in Ship, NEW sb \in BOOLEAN, Refit(s, sb)
  PROVE  BInv'
<1> DEFINE S == IF starbase[s] THEN InBays(s) ELSE {}
<1>1. S \in SUBSET Ship BY InBaysType DEF BInv
<1>2. berth' = Undocked(S)
  <2>1. berth = Undocked({}) BY DEF Undocked, BInv, TypeOK
  <2> QED BY <2>1 DEF Refit
<1>3. TypeOK'
  <2>1. dockok' \in [Ship -> BOOLEAN] BY DEF Refit, BInv, TypeOK
  <2>2. starbase' \in [Ship -> BOOLEAN] BY DEF Refit, BInv, TypeOK
  <2>3. bays' \in [Ship -> [Bay -> {Vacant} \cup Ship]] BY NoBaysType DEF Refit, BInv, TypeOK
  <2>4. berth' \in [Ship -> {Vacant} \cup (Ship \X Bay)] BY <1>1, <1>2, ReleasedType DEF BInv
  <2> QED BY <2>1, <2>2, <2>3, <2>4 DEF Refit, BInv, TypeOK
<1>4. \A c \in Ship \ {s} : starbase'[c] = starbase[c] /\ dockok'[c] = dockok[c] /\ bays'[c] = bays[c]
  BY DEF Refit, BInv, TypeOK
<1>5. \A t \in Ship : berth[t] # Vacant /\ berth[t][1] = s => t \in S BY Docked
<1>6. status' = status BY DEF Refit
<1> HIDE DEF S
<1> QED BY <1>1, <1>2, <1>3, <1>4, <1>5, <1>6, EmptiedKeeps

LEMMA EnterKeeps ==
  ASSUME BInv, NEW s \in Ship, NEW sb \in BOOLEAN, Enter(s, sb)
  PROVE  BInv'
<1>1. berth' = Undocked({s}) BY DEF Enter, Undocked, BInv, TypeOK
<1>2. TypeOK' BY NoBaysType DEF Enter, BInv, TypeOK
<1>3. \A c \in Ship \ {s} : /\ starbase'[c] = starbase[c] /\ status'[c] = status[c]
                            /\ dockok'[c] = dockok[c] /\ bays'[c] = bays[c]
  BY DEF Enter, BInv, TypeOK
<1>4. \A t \in Ship : berth[t] # Vacant /\ berth[t][1] = s => t \in {s} BY Docked DEF Enter
<1> QED BY <1>1, <1>2, <1>3, <1>4, EmptiedKeeps

LEMMA ExplodeFrameKeeps ==
  ASSUME BInv, NEW s \in Ship, ExplodeFrame(s)
  PROVE  BInv'
<1> DEFINE S == {s} \cup (IF starbase[s] THEN InBays(s) ELSE {})
<1>1. S \in SUBSET Ship BY InBaysType DEF BInv
<1>2. berth' = Undocked(S) BY DEF ExplodeFrame
<1>3. Released({s}) \in [Ship -> [Bay -> {Vacant} \cup Ship]] BY ReleasedType DEF BInv
<1>4. TypeOK'
  <2>1. bays' \in [Ship -> [Bay -> {Vacant} \cup Ship]] BY <1>3, NoBaysType DEF ExplodeFrame
  <2>2. berth' \in [Ship -> {Vacant} \cup (Ship \X Bay)] BY <1>1, <1>2, ReleasedType DEF BInv
  <2>3. status' \in [Ship -> {"FREE", "OUT", "ALIVE", "EXPLODE"}] BY DEF ExplodeFrame, BInv, TypeOK
  <2> QED BY <2>1, <2>2, <2>3 DEF ExplodeFrame, BInv, TypeOK
<1>5. \A t \in Ship : berth[t] # Vacant /\ berth[t][1] = s => t \in S BY Docked
<1>6. \A c \in Ship \ {s} : status'[c] = status[c] /\ bays'[c] = Released({s})[c]
  BY <1>3 DEF ExplodeFrame, BInv, TypeOK
<1>7. ASSUME NEW t \in Ship, berth'[t] # Vacant
      PROVE  /\ berth'[t] = berth[t]
             /\ status'[berth[t][1]] \in {"ALIVE", "EXPLODE"}
             /\ bays'[berth[t][1]][berth[t][2]] = t
  <2>1. t \notin S /\ berth'[t] = berth[t] /\ berth[t] # Vacant BY <1>2, <1>7 DEF Undocked
  <2>2. berth[t][1] \in Ship \ {s} BY <1>5, <2>1, Docked
  <2>3. Released({s})[berth[t][1]][berth[t][2]] = t BY <2>1, ReleasedHolds DEF BInv
  <2> QED BY <1>6, <2>1, <2>2, <2>3, Docked
<1> QED BY <1>4, <1>7, Docked, DockedStay DEF ExplodeFrame

LEMMA EjectKeeps ==
  ASSUME BInv, NEW s \in Ship, Eject(s)
  PROVE  BInv'
<1>1. {s} \in SUBSET Ship OBVIOUS
<1>2. TypeOK' BY <1>1, ReleasedType DEF Eject, BInv, TypeOK
<1>3. \A c \in Ship : /\ starbase[c] => starbase'[c]
                      /\ status[c] \in {"ALIVE", "EXPLODE"} => status'[c] \in {"ALIVE", "EXPLODE"}
  BY DEF Eject, BInv, TypeOK
<1>4. ASSUME NEW t \in Ship, berth'[t] # Vacant
      PROVE  berth'[t] = berth[t] /\ bays'[berth[t][1]][berth[t][2]] = t
  <2>1. t \notin {s} /\ berth'[t] = berth[t] /\ berth[t] # Vacant BY <1>4 DEF Eject, Undocked
  <2>2. Released({s})[berth[t][1]][berth[t][2]] = t BY <1>1, <2>1, ReleasedHolds DEF BInv
  <2>3. bays' = Released({s}) BY DEF Eject
  <2> QED BY <2>1, <2>2, <2>3
<1>5. ASSUME NEW t \in Ship, berth'[t] # Vacant
      PROVE  /\ starbase'[berth[t][1]]
             /\ status'[berth[t][1]] \in {"ALIVE", "EXPLODE"}
             /\ dockok'[berth[t][1]]
  <2>1. dockok' = dockok BY DEF Eject
  <2>2. berth[t] # Vacant BY <1>4, <1>5
  <2> QED BY <1>3, <2>1, <2>2, Docked
<1> QED BY <1>2, <1>4, <1>5, DockedStay

LEMMA LeaveKeeps ==
  ASSUME ~BaseLeaves, BInv, NEW s \in Ship, Leave(s)
  PROVE  BInv'
<1>1. berth' = Undocked({s}) BY DEF Leave, Undocked, BInv, TypeOK
<1>2. TypeOK' BY DEF Leave, BInv, TypeOK
<1>3. \A c \in Ship \ {s} : status'[c] = status[c] /\ dockok'[c] = dockok[c]
  BY DEF Leave, BInv, TypeOK
<1>4. \A t \in Ship : berth[t] # Vacant /\ berth[t][1] = s => t \in {s} BY DEF Leave, DockedWith
<1> QED BY <1>1, <1>2, <1>3, <1>4, EmptiedKeeps DEF Leave

-----------------------------------------------------------------------------
LEMMA InitKeeps == Init => BInv
<1> SUFFICES ASSUME Init PROVE BInv OBVIOUS
<1>1. TypeOK BY NoBaysType DEF Init, TypeOK
<1>2. \A s \in Ship : berth[s] = Vacant BY DEF Init
<1> QED BY <1>1, <1>2 DEF BInv, HoldsBay, ClosedIsEmpty, DockedWith

\* BInv is an invariant when no client leaves in play with ships docked to
\* its own (freeslot() does not release them).
THEOREM BaysHeld == ASSUME ~BaseLeaves PROVE Spec => []BInv
<1>1. ASSUME BInv, [Next]_vars PROVE BInv'
  <2>1. CASE UNCHANGED vars
    BY <1>1, <2>1 DEF vars, BInv, TypeOK, HoldsBay, ClosedIsEmpty, DockedWith, InGame
  <2>2. ASSUME NEW s \in Ship, Orbit(s) PROVE BInv' BY <1>1, <2>2, OrbitKeeps
  <2>3. ASSUME NEW s \in Ship, Undock(s) PROVE BInv' BY <1>1, <2>3, UndockKeeps
  <2>4. ASSUME NEW s \in Ship, TractorOff(s) PROVE BInv' BY <1>1, <2>4, TractorOffKeeps
  <2>5. ASSUME NEW s \in Ship, NEW victim \in Ship, Tractor(s, victim) PROVE BInv'
    BY <1>1, <2>5, TractorKeeps
  <2>6. ASSUME NEW s \in Ship, PermitDocking(s) PROVE BInv' BY <1>1, <2>6, PermitDockingKeeps
  <2>7. ASSUME NEW s \in Ship, RefuseDocking(s) PROVE BInv' BY <1>1, <2>7, RefuseDockingKeeps
  <2>8. ASSUME NEW s \in Ship, DeclareWar(s) PROVE BInv' BY <1>1, <2>8, DeclareWarKeeps
  <2>9. ASSUME NEW s \in Ship, NEW sb \in BOOLEAN, Refit(s, sb) PROVE BInv'
    BY <1>1, <2>9, RefitKeeps
  <2>10. ASSUME NEW s \in Ship, NEW sb \in BOOLEAN, Enter(s, sb) PROVE BInv'
    BY <1>1, <2>10, EnterKeeps
  <2>11. ASSUME NEW s \in Ship, Explode(s) PROVE BInv' BY <1>1, <2>11, ExplodeKeeps
  <2>12. ASSUME NEW s \in Ship, ExplodeFrame(s) PROVE BInv' BY <1>1, <2>12, ExplodeFrameKeeps
  <2>13. ASSUME NEW s \in Ship, Eject(s) PROVE BInv' BY <1>1, <2>13, EjectKeeps
  <2>14. ASSUME NEW s \in Ship, Leave(s) PROVE BInv' BY <1>1, <2>14, LeaveKeeps
  <2> QED BY <1>1, <2>1, <2>2, <2>3, <2>4, <2>5, <2>6, <2>7, <2>8, <2>9, <2>10, <2>11, <2>12, <2>13, <2>14 DEF Next
<1> QED BY <1>1, InitKeeps, PTL DEF Spec

\* A docked ship is in the bay it says it is in, of a starbase in play: no two
\* ships share a bay, whichever processes dock, tow, refit and explode.
THEOREM DockedHoldsBay == ASSUME ~BaseLeaves PROVE Spec => []HoldsBay
<1>1. BInv => HoldsBay BY DEF BInv
<1> QED BY <1>1, BaysHeld, PTL

\* A base that refuses docking has nobody docked with it.
THEOREM ClosedBaseEmpty == ASSUME ~BaseLeaves PROVE Spec => []ClosedIsEmpty
<1>1. BInv => ClosedIsEmpty BY DEF BInv
<1> QED BY <1>1, BaysHeld, PTL

-----------------------------------------------------------------------------
(* Counting the bays.                                                      *)

TakenBays(b) == Bay \ FreeBays(berth, b)

\* The ship in a bay that the check does not find free is docked there.
LEMMA TakenIsDocked ==
  ASSUME TypeOK, NEW b \in Ship, NEW i \in TakenBays(b)
  PROVE  /\ bays[b][i] \in DockedWith(b)
         /\ berth[bays[b][i]] = <<b, i>>
<1>1. i \in Bay BY DEF TakenBays
<1>2. bays[b][i] # Vacant /\ Consistent(berth, b, i) BY <1>1 DEF TakenBays, FreeBays, Checked
<1>3. bays[b][i] \in Ship BY <1>1, <1>2 DEF TypeOK
<1>4. berth[bays[b][i]] = <<b, i>> BY <1>2 DEF Consistent
<1>5. <<b, i>> # Vacant BY <1>1, BaysAssumption DEF Ship, Bay
<1> QED BY <1>3, <1>4, <1>5 DEF DockedWith

\* A docked ship is in a bay that the check does not find free.
LEMMA DockedIsTaken ==
  ASSUME TypeOK, HoldsBay, NEW b \in Ship, NEW s \in DockedWith(b)
  PROVE  /\ berth[s][2] \in TakenBays(b)
         /\ bays[b][berth[s][2]] = s
<1>1. s \in Ship /\ berth[s] # Vacant /\ berth[s][1] = b BY DEF DockedWith
<1>2. berth[s][2] \in Bay /\ berth[s] = <<b, berth[s][2]>> BY <1>1, BerthType
<1>3. bays[b][berth[s][2]] = s BY <1>1 DEF HoldsBay
<1>4. Checked(berth, b)[berth[s][2]] = s
  BY <1>1, <1>2, <1>3, VacantNotShip DEF Checked, Consistent
<1> QED BY <1>1, <1>2, <1>3, <1>4, VacantNotShip DEF TakenBays, FreeBays

LEMMA TakenMatchDocked ==
  ASSUME TypeOK, HoldsBay, NEW b \in Ship
  PROVE  ExistsBijection(TakenBays(b), DockedWith(b))
<1> DEFINE f == [i \in TakenBays(b) |-> bays[b][i]]
<1>1. f \in [TakenBays(b) -> DockedWith(b)] BY TakenIsDocked
<1>2. ASSUME NEW i \in TakenBays(b), NEW j \in TakenBays(b), f[i] = f[j] PROVE i = j
  <2>1. <<b, i>> = <<b, j>> BY <1>2, TakenIsDocked
  <2> QED BY <2>1
<1>3. \A s \in DockedWith(b) : \E i \in TakenBays(b) : f[i] = s BY DockedIsTaken
<1>4. f \in Bijection(TakenBays(b), DockedWith(b))
  BY <1>1, <1>2, <1>3 DEF Bijection, Injection, Surjection, IsInjective
<1> QED BY <1>4 DEF ExistsBijection

LEMMA BaysCounted ==
  ASSUME TypeOK, HoldsBay
  PROVE  NoBayLost
<1> SUFFICES ASSUME NEW b \in Ship
    PROVE Cardinality(FreeBays(berth, b)) + Cardinality(DockedWith(b)) = NumBays
  BY DEF NoBayLost
<1>1. IsFiniteSet(Bay) /\ Cardinality(Bay) = NumBays
  BY BaysAssumption, FS_Interval DEF Bay
<1>2. FreeBays(berth, b) \subseteq Bay BY DEF FreeBays
<1>3. Cardinality(TakenBays(b)) = NumBays - Cardinality(FreeBays(berth, b))
  <2>1. Bay \cap FreeBays(berth, b) = FreeBays(berth, b) BY <1>2
  <2> QED BY <1>1, <2>1, FS_Difference DEF TakenBays
<1>4. IsFiniteSet(TakenBays(b)) /\ IsFiniteSet(FreeBays(berth, b))
  BY <1>1, <1>2, FS_Subset DEF TakenBays
<1>5. Cardinality(DockedWith(b)) = Cardinality(TakenBays(b))
  BY <1>4, TakenMatchDocked, FS_Bijection
<1>6. Cardinality(FreeBays(berth, b)) \in Nat BY <1>4, FS_CardinalityType
<1> QED BY <1>3, <1>5, <1>6, BaysAssumption

\* Every record of a docking stays within its type.
THEOREM BaysTypeOK == ASSUME ~BaseLeaves PROVE Spec => []TypeOK
<1>1. BInv => TypeOK BY DEF BInv
<1> QED BY <1>1, BaysHeld, PTL

\* Whoever is refused because all bays are occupied is refused by a base with
\* a docked ship in each: bay_consistency_check() finds every stale bay.
THEOREM EveryBayCounted == ASSUME ~BaseLeaves PROVE Spec => []NoBayLost
<1>1. BInv => NoBayLost BY BaysCounted DEF BInv
<1> QED BY <1>1, BaysHeld, PTL
=============================================================================
