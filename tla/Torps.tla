------------------------------- MODULE Torps -------------------------------
(***************************************************************************)
(* The torpedoes and plasmas (torps[]) and the counts p_ntorp and          *)
(* p_nplasmatorp.  An ntserv fires, turns off its own and detonates those  *)
(* of others; the daemon moves them, explodes them and gives their entries *)
(* back, one entry at a time.  The search for an entry trusts the count:   *)
(* it does not stop at the last entry of the player (torp.c:135).  A dead  *)
(* player may choose a ship again when both counts have come down.         *)
(*                                                                         *)
(* Abstractions.  A request, and the daemon's work on one entry, is one    *)
(* step.  Fuel, heat, range, war and damage are left to choice, and a fuse *)
(* burns for any time, but not for ever.  Not modelled: the conquest       *)
(* parade (conquer.c), which uses the plasmas as decoration, and sturgeon. *)
(***************************************************************************)
EXTENDS Integers, FiniteSets

CONSTANTS
  MaxPlayer,   \* players 0..MaxPlayer-1
  MaxTorp,     \* MAXTORP: torpedoes of a player
  MaxPlasma,   \* MAXPLASMA: plasmas of a player
  Early        \* what may happen to a player with weapons in flight:
               \* "trade" (change_team()), "leave" (freeslot())

ASSUME TorpsAssumption ==
  /\ MaxPlayer \in Nat \ {0}
  /\ MaxTorp \in Nat \ {0}
  /\ MaxPlasma \in Nat \ {0}
  /\ Early \subseteq {"trade", "leave"}

Player == 0..MaxPlayer-1

\* torps[]: the torpedoes of all players, then their plasmas.
TorpsOf(p) == {<<"torp", p, i>> : i \in 0..MaxTorp-1}
PlasmasOf(p) == {<<"plasma", p, i>> : i \in 0..MaxPlasma-1}
AllTorps == UNION {TorpsOf(p) : p \in Player}
AllPlasmas == UNION {PlasmasOf(p) : p \in Player}
Entry == AllTorps \cup AllPlasmas

VARIABLES
  status,    \* p_status: FREE, OUT (choosing a ship), ALIVE, EXPLODE or
             \* DEAD (PDEAD, and POUTFIT until death())
  ntorp,     \* p_ntorp
  nplasma,   \* p_nplasmatorp
  torps      \* t_status, t_type and t_owner of each entry

vars == <<status, ntorp, nplasma, torps>>

\* A free entry, whose other fields nobody reads.
Free == [status |-> "FREE", type |-> "torp", owner |-> 0]

Init ==
  /\ status = [p \in Player |-> "FREE"]
  /\ ntorp = [p \in Player |-> 0]
  /\ nplasma = [p \in Player |-> 0]
  /\ torps = [k \in Entry |-> Free]

InFlight(p) == {k \in Entry : torps[k].status # "FREE" /\ torps[k].owner = p}

\* A process takes requests from its client until its next update after the
\* explosion of its ship.
InGame(p) == status[p] \in {"ALIVE", "EXPLODE"}

-----------------------------------------------------------------------------
(* Requests: torp.c, plasma.c, detonate.c, phaser.c, handleDetMReq()        *)

FreeOf(S) == {k \in S : torps[k] = Free}

\* lastTorpOf(p) + 1.
Beyond(p) == IF p < MaxPlayer-1 THEN <<"torp", p+1, 0>> ELSE <<"plasma", 0, 0>>

\* Where the search ends: at the first free entry, or just past the last one.
Found(p) ==
  LET free == FreeOf(TorpsOf(p)) IN
    IF free # {} THEN {k \in free : \A j \in free : k[3] <= j[3]} ELSE {Beyond(p)}

Launched(k, type, p) == [torps EXCEPT ![k] = [status |-> "MOVE", type |-> type, owner |-> p]]

FireTorp_Mutant(p) ==       \* no limit
  /\ InGame(p)
  /\ \E k \in Found(p) : torps' = Launched(k, "torp", p)
  /\ ntorp' = [ntorp EXCEPT ![p] = @ + 1]
  /\ UNCHANGED <<status, nplasma>>

FireTorp(p) ==
  /\ InGame(p)
  /\ ntorp[p] # MaxTorp
  /\ \E k \in Found(p) : torps' = Launched(k, "torp", p)
  /\ ntorp' = [ntorp EXCEPT ![p] = @ + 1]
  /\ UNCHANGED <<status, nplasma>>

\* Unlike ntorp(), nplasmatorp() looks whether it found an entry.  An ATT ship
\* fires whatever its count is.
FirePlasma(p) ==
  /\ InGame(p)
  /\ \E k \in FreeOf(PlasmasOf(p)) :
       /\ \A j \in FreeOf(PlasmasOf(p)) : k[3] <= j[3]
       /\ torps' = Launched(k, "plasma", p)
  /\ nplasma' = [nplasma EXCEPT ![p] = @ + 1]
  /\ UNCHANGED <<status, ntorp>>

Turned(S, to) == [k \in Entry |-> IF k \in S THEN [torps[k] EXCEPT !.status = to] ELSE torps[k]]

DetMine_Mutant(p) ==        \* freed without the daemon
  /\ InGame(p)
  /\ \E k \in AllTorps :
       /\ torps[k].status = "MOVE"
       /\ torps[k].owner = p
       /\ torps' = [torps EXCEPT ![k] = Free]
  /\ UNCHANGED <<status, ntorp, nplasma>>

\* The torpedo the client names; with short packets, every one in p's entries.
DetMine(p) ==
  /\ InGame(p)
  /\ \/ \E k \in AllTorps :
          /\ torps[k].status = "MOVE"
          /\ torps[k].owner = p
          /\ torps' = Turned({k}, "OFF")
     \/ torps' = Turned({k \in TorpsOf(p) : torps[k].status = "MOVE"}, "OFF")
  /\ UNCHANGED <<status, ntorp, nplasma>>

\* Enemy torpedoes in range of p.
DetOthers(p) ==
  /\ InGame(p)
  /\ \E S \in SUBSET {k \in AllTorps : /\ torps[k].status = "MOVE"
                                       /\ torps[k].owner # p
                                       /\ status[k[2]] # "FREE"} :
       S # {} /\ torps' = Turned(S, "DET")
  /\ UNCHANGED <<status, ntorp, nplasma>>

\* Deflected: the plasma changes its owner.
Deflect_Mutant(p, k) ==     \* the count of the old owner stays
  /\ torps' = [torps EXCEPT ![k].owner = p]
  /\ nplasma' = [nplasma EXCEPT ![p] = @ + 1]

Deflect(p, k) ==
  /\ torps' = [torps EXCEPT ![k].owner = p]
  /\ nplasma' = [nplasma EXCEPT ![torps[k].owner] = @ - 1, ![p] = @ + 1]

\* A phaser hits a plasma: deflected with pingpong_plasma, else destroyed.
Phaser(p) ==
  /\ InGame(p)
  /\ \E k \in AllPlasmas :
       /\ torps[k].status = "MOVE"
       /\ torps[k].owner # p
       /\ \/ Deflect(p, k)
          \/ torps' = Turned({k}, "DET") /\ UNCHANGED nplasma
  /\ UNCHANGED <<status, ntorp>>

-----------------------------------------------------------------------------
(* The daemon: udtorps() on one entry                                       *)

\* t_explosion() of k, which may kill ships.
Explosion(k) ==
  /\ torps[k].status \in {"MOVE", "DET"}
  /\ torps' = Turned({k}, "EXPLODE")
  /\ \E dead \in SUBSET {p \in Player : status[p] = "ALIVE"} :
       status' = [p \in Player |-> IF p \in dead THEN "EXPLODE" ELSE status[p]]
  /\ UNCHANGED <<ntorp, nplasma>>

Expire_Mutant(k) ==         \* a plasma is counted as a torpedo
  /\ torps[k].status \in {"MOVE", "EXPLODE", "OFF"}
  /\ torps' = [torps EXCEPT ![k] = Free]
  /\ ntorp' = [ntorp EXCEPT ![torps[k].owner] = @ - 1]
  /\ UNCHANGED <<status, nplasma>>

\* The fuse is burnt, or the owner turned the torpedo off.
Expire(k) ==
  /\ torps[k].status \in {"MOVE", "EXPLODE", "OFF"}
  /\ torps' = [torps EXCEPT ![k] = Free]
  /\ LET owner == torps[k].owner IN
       IF torps[k].type = "torp"
         THEN ntorp' = [ntorp EXCEPT ![owner] = @ - 1] /\ UNCHANGED nplasma
         ELSE nplasma' = [nplasma EXCEPT ![owner] = @ - 1] /\ UNCHANGED ntorp
  /\ UNCHANGED status

-----------------------------------------------------------------------------
(* Life of a player                                                         *)

\* enter(): the counts start again.
Enter(p) ==
  /\ status[p] \in {"FREE", "OUT"}
  /\ status' = [status EXCEPT ![p] = "ALIVE"]
  /\ ntorp' = [ntorp EXCEPT ![p] = 0]
  /\ nplasma' = [nplasma EXCEPT ![p] = 0]
  /\ UNCHANGED torps

\* Any other death: phasers, planets, self-destruction.
Killed(p) ==
  /\ status[p] = "ALIVE"
  /\ status' = [status EXCEPT ![p] = "EXPLODE"]
  /\ UNCHANGED <<ntorp, nplasma, torps>>

\* udplayers_pexplode(): the last frame.
Exploded(p) ==
  /\ status[p] = "EXPLODE"
  /\ status' = [status EXCEPT ![p] = "DEAD"]
  /\ UNCHANGED <<ntorp, nplasma, torps>>

Gone_Mutant(p) == ntorp[p] <= 0                  \* plasmas forgotten
Gone(p) == ntorp[p] <= 0 /\ nplasma[p] <= 0

\* intrupt(): death() when the weapons are gone.
Death(p) ==
  /\ status[p] = "DEAD"
  /\ Gone(p)
  /\ status' = [status EXCEPT ![p] = "OUT"]
  /\ UNCHANGED <<ntorp, nplasma, torps>>

\* change_team(): a vote to balance the teams, or a trade of the league.  What
\* it does to the status of a player who is choosing a ship is lost on entry.
ChangeTeam(p) ==
  /\ status[p] # "FREE"
  /\ "trade" \in Early \/ InFlight(p) = {}
  /\ status' = [status EXCEPT ![p] = IF @ = "OUT" THEN "OUT" ELSE "EXPLODE"]
  /\ ntorp' = [ntorp EXCEPT ![p] = 0]
  /\ nplasma' = [nplasma EXCEPT ![p] = 0]
  /\ UNCHANGED torps

\* freeslot(): the client is gone.
Leave(p) ==
  /\ status[p] # "FREE"
  /\ "leave" \in Early \/ InFlight(p) = {}
  /\ status' = [status EXCEPT ![p] = "FREE"]
  /\ UNCHANGED <<ntorp, nplasma, torps>>

-----------------------------------------------------------------------------
Next ==
  \/ \E p \in Player :
       \/ FireTorp(p) \/ FirePlasma(p) \/ DetMine(p) \/ DetOthers(p) \/ Phaser(p)
       \/ Enter(p) \/ Killed(p) \/ Exploded(p) \/ Death(p) \/ ChangeTeam(p) \/ Leave(p)
  \/ \E k \in Entry : Explosion(k) \/ Expire(k)

Spec == Init /\ [][Next]_vars

\* The daemon runs every frame, a fuse burns down, and a process sees every
\* update.  A plasma that changes hands gets a longer fuse, so its fuse burns
\* down only for an owner who keeps it.
Fairness ==
  /\ \A k \in Entry, p \in Player : WF_vars(torps[k].owner = p /\ Expire(k))
  /\ \A k \in Entry : WF_vars(torps[k].status = "DET" /\ Explosion(k))
  /\ \A p \in Player : WF_vars(Exploded(p)) /\ WF_vars(Death(p))

FairSpec == Spec /\ Fairness

-----------------------------------------------------------------------------
TypeOK ==
  /\ status \in [Player -> {"FREE", "OUT", "ALIVE", "EXPLODE", "DEAD"}]
  /\ ntorp \in [Player -> 0..MaxTorp]
  /\ nplasma \in [Player -> Nat]
  /\ torps \in [Entry -> [status : {"FREE", "MOVE", "EXPLODE", "DET", "OFF"},
                          type : {"torp", "plasma"}, owner : Player]]

Flying(p, type) == {k \in InFlight(p) : torps[k].type = type}

\* "Number of torps flying", "Number of plasma torps active" (struct.h:444):
\* the counts say how many entries the daemon has not given back.
Counted ==
  \A p \in Player :
    /\ ntorp[p] = Cardinality(Flying(p, "torp"))
    /\ nplasma[p] = Cardinality(Flying(p, "plasma"))

\* A player who is let fire finds a free entry: the search does not run into
\* the torpedoes of the next player (the check that torp.c:138 leaves out).
NoOverrun == \A p \in Player : InGame(p) /\ ntorp[p] # MaxTorp => FreeOf(TorpsOf(p)) # {}

\* "they cannot rejoin until all in-flight weapons have ended" (daemon.c:1028).
RejoinClean == \A p \in Player : status[p] = "OUT" => InFlight(p) = {}

\* A dead player is not kept waiting for ever by a count that never comes down.
DeadRejoins == \A p \in Player : status[p] = "DEAD" ~> status[p] # "DEAD"
=============================================================================
