-------------------------------- MODULE Bays --------------------------------
(***************************************************************************)
(* The docking bays of the starbases (ntserv/bay.c) and every request that *)
(* docks or releases a ship: orbit.c, transwarp.c, interface.c, socket.c,  *)
(* and the daemon's explosions.  A docked ship and its base each record    *)
(* the docking, and the two records are written by different processes:    *)
(* the ship's, the base's, that of any third ship with a tractor beam, and *)
(* the daemon.  They are not locked; here each request is one step.        *)
(*                                                                         *)
(* Abstractions.  Positions, teams, damage and fuel are left to choice: a  *)
(* base may be in range or not, friendly or not.  PFDOCK, p_dock_with and  *)
(* p_dock_bay are one value, since the last two are read under PFDOCK      *)
(* only.  Robots and observers do not dock.                                *)
(***************************************************************************)
EXTENDS Integers, FiniteSets

CONSTANTS
  MaxPlayer,    \* ships 0..MaxPlayer-1, the entries of players[]
  NumBays,      \* bays 0..NumBays-1 of a base
  Vacant,       \* VACANT; no berth; no victim of a tractor beam
  Chaos,        \* chaosmode: may a base dock with a base?
  BaseLeaves    \* may a client leave in play with ships docked to it?

ASSUME BaysAssumption ==
  /\ MaxPlayer \in Nat \ {0}
  /\ NumBays \in Nat \ {0}
  /\ Vacant \notin Nat \cup (Nat \X Nat)
  /\ Chaos \in BOOLEAN
  /\ BaseLeaves \in BOOLEAN

Ship == 0..MaxPlayer-1
Bay == 0..NumBays-1

VARIABLES
  status,    \* p_status: FREE, OUT (POUTFIT and PDEAD), ALIVE or EXPLODE
  starbase,  \* p_ship.s_type = STARBASE
  dockok,    \* PFDOCKOK: the base allows docking
  berth,     \* <<p_dock_with, p_dock_bay>> of a ship with PFDOCK
  bays,      \* bays[b][i]: players[b].p_bays[i]
  tractor    \* p_tractor of a ship with PFTRACT

vars == <<status, starbase, dockok, berth, bays, tractor>>

NoBays == [i \in Bay |-> Vacant]

Init ==
  /\ status = [s \in Ship |-> "FREE"]
  /\ starbase = [s \in Ship |-> FALSE]
  /\ dockok = [s \in Ship |-> FALSE]
  /\ berth = [s \in Ship |-> Vacant]
  /\ bays = [b \in Ship |-> NoBays]
  /\ tractor = [s \in Ship |-> Vacant]

\* A process takes requests from its client until its next update after the
\* explosion of its ship.
InGame(s) == status[s] \in {"ALIVE", "EXPLODE"}

DockedWith(b) == {s \in Ship : berth[s] # Vacant /\ berth[s][1] = b}

-----------------------------------------------------------------------------
(* bay.c                                                                    *)

\* bay_release() of the ships S: each clears the bay it says it is in.
Released(S) ==
  [b \in Ship |-> [i \in Bay |-> IF \E s \in S : berth[s] = <<b, i>> THEN Vacant ELSE bays[b][i]]]

Undocked(S) == [s \in Ship |-> IF s \in S THEN Vacant ELSE berth[s]]

\* bay_release_all(b) clears PFDOCK of these ships, wherever they are docked.
InBays(b) == {bays[b][i] : i \in Bay} \ {Vacant}

\* bay_consistency_check(b): does the ship in bay i say that it is there?
Consistent_Mutant(at, b, i) == TRUE      \* nothing is repaired
Consistent(at, b, i) == at[bays[b][i]] = <<b, i>>

Checked(at, b) == [i \in Bay |-> IF bays[b][i] # Vacant /\ Consistent(at, b, i) THEN bays[b][i] ELSE Vacant]

\* bay_closest(b): any vacant bay, after the check.
FreeBays(at, b) == {i \in Bay : Checked(at, b)[i] = Vacant}

-----------------------------------------------------------------------------
(* Docking                                                                  *)

\* dock(b) by s, which orbit() has taken out of any berth (orbit.c:177) or
\* found without one (orbit.c:192).
Dock(s, b) ==
  LET at == [berth EXCEPT ![s] = Vacant] IN
  \* no base in range
  \/ berth' = at /\ UNCHANGED <<bays, tractor>>
  \* hostile base, no permission, a base itself, or docking refused: de_lock()
  \/ /\ berth' = at
     /\ tractor' = [tractor EXCEPT ![s] = Vacant]
     /\ UNCHANGED bays
  \* all bays occupied
  \/ /\ dockok[b]
     /\ starbase[s] => Chaos
     /\ FreeBays(at, b) = {}
     /\ berth' = at
     /\ bays' = [bays EXCEPT ![b] = Checked(at, b)]
     /\ tractor' = [tractor EXCEPT ![s] = Vacant]
  \* bay_claim()
  \/ /\ dockok[b]
     /\ starbase[s] => Chaos
     /\ \E i \in FreeBays(at, b) :
          /\ berth' = [berth EXCEPT ![s] = <<b, i>>]
          /\ bays' = [bays EXCEPT ![b] = [Checked(at, b) EXCEPT ![i] = s]]
     /\ tractor' = [tractor EXCEPT ![s] = Vacant]

Tractoring(s) == {j \in Ship : status[j] = "ALIVE" /\ tractor[j] = s}

\* orbit().  One base may hold s in its beam; a second beam, or the beam of
\* another ship, forbids docking.
Orbit(s) ==
  /\ InGame(s)
  /\ \/ /\ Tractoring(s) = {}
        /\ berth[s] = Vacant
        /\ starbase[s] => Chaos
        /\ \E b \in Ship \ {s} : starbase[b] /\ status[b] = "ALIVE" /\ Dock(s, b)
     \/ \E b \in Ship : Tractoring(s) = {b} /\ starbase[b] /\ Dock(s, b)
     \/ /\ Cardinality(Tractoring(s)) > 1
        /\ \E b \in Tractoring(s) : starbase[b] /\ \A j \in Tractoring(s) : b <= j
        /\ berth' = [berth EXCEPT ![s] = Vacant]
        /\ UNCHANGED <<bays, tractor>>
  /\ UNCHANGED <<status, starbase, dockok>>

\* A new course or speed, transwarp, an end to docking, a league draft.
Undock(s) ==
  /\ InGame(s)
  /\ bays' = Released({s})
  /\ berth' = Undocked({s})
  /\ UNCHANGED <<status, starbase, dockok, tractor>>

\* A tractor or pressor beam takes its victim, and its own ship, from dock.
Tractor(s, victim) ==
  /\ InGame(s)
  /\ victim # s
  /\ bays' = Released({s, victim})
  /\ berth' = Undocked({s, victim})
  /\ tractor' = [tractor EXCEPT ![s] = victim]
  /\ UNCHANGED <<status, starbase, dockok>>

\* The player or the daemon ends the beam, or s goes into orbit.
TractorOff(s) ==
  /\ tractor[s] # Vacant
  /\ tractor' = [tractor EXCEPT ![s] = Vacant]
  /\ UNCHANGED <<status, starbase, dockok, berth, bays>>

-----------------------------------------------------------------------------
(* The base                                                                 *)

PermitDocking(b) ==
  /\ InGame(b)
  /\ starbase[b]
  /\ dockok' = [dockok EXCEPT ![b] = TRUE]
  /\ UNCHANGED <<status, starbase, berth, bays, tractor>>

RefuseDocking_Mutant(b) ==          \* docked ships stay
  /\ InGame(b)
  /\ starbase[b]
  /\ dockok' = [dockok EXCEPT ![b] = FALSE]
  /\ UNCHANGED <<status, starbase, berth, bays, tractor>>

RefuseDocking(b) ==
  /\ InGame(b)
  /\ starbase[b]
  /\ dockok' = [dockok EXCEPT ![b] = FALSE]
  /\ berth' = Undocked(InBays(b))
  /\ bays' = [bays EXCEPT ![b] = NoBays]
  /\ UNCHANGED <<status, starbase, tractor>>

\* declare_war(): s leaves a base that is now hostile, and as a base releases
\* the ships in its bays that are now hostile.
DeclareWar(s) ==
  /\ InGame(s)
  /\ \E out \in SUBSET ({s} \cup {x \in InBays(s) : starbase[s]}) :
       /\ bays' = Released(out)
       /\ berth' = Undocked(out)
  /\ UNCHANGED <<status, starbase, dockok, tractor>>

Refit_Mutant(s, sb) ==              \* a base that changes ship keeps its guests
  /\ InGame(s)
  /\ sb => berth[s] = Vacant
  /\ starbase' = [starbase EXCEPT ![s] = sb]
  /\ dockok' = IF starbase[s] \/ sb THEN [dockok EXCEPT ![s] = TRUE] ELSE dockok
  /\ bays' = IF sb THEN [bays EXCEPT ![s] = NoBays] ELSE bays
  /\ UNCHANGED <<status, berth, tractor>>

\* do_refit(): at the home planet, or docked and then not to a starbase.
Refit(s, sb) ==
  /\ InGame(s)
  /\ sb => berth[s] = Vacant
  /\ starbase' = [starbase EXCEPT ![s] = sb]
  /\ dockok' = IF starbase[s] \/ sb THEN [dockok EXCEPT ![s] = TRUE] ELSE dockok
  /\ bays' = IF starbase[s] \/ sb THEN [bays EXCEPT ![s] = NoBays] ELSE bays
  /\ berth' = IF starbase[s] THEN Undocked(InBays(s)) ELSE berth
  /\ UNCHANGED <<status, tractor>>

-----------------------------------------------------------------------------
(* Entry, death, and the end of a process                                   *)

\* enter(): a new ship.
Enter(s, sb) ==
  /\ status[s] \in {"FREE", "OUT"}
  /\ status' = [status EXCEPT ![s] = "ALIVE"]
  /\ starbase' = [starbase EXCEPT ![s] = sb]
  /\ dockok' = [dockok EXCEPT ![s] = sb]
  /\ berth' = [berth EXCEPT ![s] = Vacant]
  /\ bays' = [bays EXCEPT ![s] = NoBays]
  /\ tractor' = [tractor EXCEPT ![s] = Vacant]

\* Damage, self-destruction, quit.
Explode(s) ==
  /\ status[s] = "ALIVE"
  /\ status' = [status EXCEPT ![s] = "EXPLODE"]
  /\ UNCHANGED <<starbase, dockok, berth, bays, tractor>>

\* udplayers_pexplode(): one frame of the explosion, or the last.
ExplodeFrame(s) ==
  /\ status[s] = "EXPLODE"
  /\ \E now \in {"EXPLODE", "OUT"} : status' = [status EXCEPT ![s] = now]
  /\ bays' = IF starbase[s] THEN [Released({s}) EXCEPT ![s] = NoBays] ELSE Released({s})
  /\ berth' = Undocked({s} \cup (IF starbase[s] THEN InBays(s) ELSE {}))
  /\ UNCHANGED <<starbase, dockok, tractor>>

\* eject_player(): the ejected ship becomes a starbase, for a large explosion.
Eject(s) ==
  /\ status[s] # "FREE"
  /\ status' = [status EXCEPT ![s] = "EXPLODE"]
  /\ starbase' = [starbase EXCEPT ![s] = TRUE]
  /\ bays' = Released({s})
  /\ berth' = Undocked({s})
  /\ UNCHANGED <<dockok, tractor>>

\* freeslot(), whatever the ship is doing: the client is gone, SIGTERM, panic.
Leave(s) ==
  /\ status[s] # "FREE"
  /\ BaseLeaves \/ DockedWith(s) = {}
  /\ status' = [status EXCEPT ![s] = "FREE"]
  /\ dockok' = [dockok EXCEPT ![s] = FALSE]
  /\ berth' = [berth EXCEPT ![s] = Vacant]
  /\ tractor' = [tractor EXCEPT ![s] = Vacant]
  /\ UNCHANGED <<starbase, bays>>

-----------------------------------------------------------------------------
Next ==
  \E s \in Ship :
    \/ Orbit(s) \/ Undock(s) \/ TractorOff(s)
    \/ \E victim \in Ship : Tractor(s, victim)
    \/ PermitDocking(s) \/ RefuseDocking(s)
    \/ DeclareWar(s)
    \/ \E sb \in BOOLEAN : Refit(s, sb) \/ Enter(s, sb)
    \/ Explode(s) \/ ExplodeFrame(s) \/ Eject(s) \/ Leave(s)

Spec == Init /\ [][Next]_vars

-----------------------------------------------------------------------------
TypeOK ==
  /\ status \in [Ship -> {"FREE", "OUT", "ALIVE", "EXPLODE"}]
  /\ starbase \in [Ship -> BOOLEAN]
  /\ dockok \in [Ship -> BOOLEAN]
  /\ berth \in [Ship -> {Vacant} \cup (Ship \X Bay)]
  /\ bays \in [Ship -> [Bay -> {Vacant} \cup Ship]]
  /\ tractor \in [Ship -> {Vacant} \cup Ship]

\* A docked ship is in the bay it says it is in, of a starbase in play; so no
\* two ships are in one bay.  The base's record may be stale the other way: a
\* bay may name a ship that has left (orbit.c:177, freeslot()).
HoldsBay ==
  \A s \in Ship : berth[s] # Vacant =>
    LET b == berth[s][1] IN starbase[b] /\ InGame(b) /\ bays[b][berth[s][2]] = s

\* A ship that is refused because all bays are occupied is refused by a base
\* with a docked ship in each: bays with stale names are never lost.
NoBayLost ==
  \A b \in Ship :
    starbase[b] /\ InGame(b) => Cardinality(FreeBays(berth, b)) + Cardinality(DockedWith(b)) = NumBays

\* A base that refuses docking has no ship docked with it, whichever way it
\* came to refuse: the request, a new ship, a refit or an ejection.
ClosedIsEmpty == \A b \in Ship : ~dockok[b] => DockedWith(b) = {}

\* "This leaves the slot in good shape for the next user" (slotmaint.c:22):
\* no ship is docked with a slot that is free.
FreedSlotClean == \A b \in Ship : status[b] = "FREE" => DockedWith(b) = {}
=============================================================================
