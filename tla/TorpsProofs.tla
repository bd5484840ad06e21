---------------------------- MODULE TorpsProofs ----------------------------
(***************************************************************************)
(* For any number of players, torpedoes and plasmas: the counts agree with *)
(* the entries in flight, a player who is let fire finds an entry of his   *)
(* own, and nobody comes back while a weapon of his is in flight.  They    *)
(* hold when no player is traded, and no client leaves, with weapons in    *)
(* flight.  TpInv is inductive; NoOverrun follows from it, because a       *)
(* torpedo's entry belongs to its owner (Placed), so that a player with no *)
(* free entry has MaxTorp torpedoes in flight.                             *)
(***************************************************************************)
EXTENDS Torps, FiniteSetTheorems, TLAPS

Types ==
  /\ status \in [Player -> {"FREE", "OUT", "ALIVE", "EXPLODE", "DEAD"}]
  /\ ntorp \in [Player -> Int]
  /\ nplasma \in [Player -> Int]
  /\ torps \in [Entry -> [status : {"FREE", "MOVE", "EXPLODE", "DET", "OFF"},
                          type : {"torp", "plasma"}, owner : Player]]

\* A torpedo is in its owner's entries; a plasma may have changed its owner.
Placed ==
  \A k \in Entry :
    IF torps[k].status = "FREE"
      THEN torps[k] = Free
      ELSE torps[k].type = k[1] /\ (k[1] = "torp" => torps[k].owner = k[2])

\* Nothing in flight either when the slot is free: the next life starts clean.
OutClean == \A p \in Player : status[p] \in {"FREE", "OUT"} => InFlight(p) = {}

TpInv == Types /\ Placed /\ Counted /\ OutClean

-----------------------------------------------------------------------------
\* What an entry is.
LEMMA EntryShape ==
  /\ \A k \in AllTorps : k[1] = "torp" /\ k[2] \in Player /\ k \in TorpsOf(k[2])
  /\ \A k \in AllPlasmas : k[1] = "plasma"
  /\ \A p \in Player : \A k \in TorpsOf(p) : k \in AllTorps /\ k[2] = p
  /\ \A p \in Player : PlasmasOf(p) \subseteq AllPlasmas
BY DEF AllTorps, AllPlasmas, TorpsOf, PlasmasOf

\* A player has MaxTorp entries for torpedoes.
LEMMA TorpsOfSize ==
  ASSUME NEW p \in Player
  PROVE  IsFiniteSet(TorpsOf(p)) /\ Cardinality(TorpsOf(p)) = MaxTorp
<1> DEFINE S == 0..MaxTorp-1
           f == [i \in S |-> <<"torp", p, i>>]
<1>1. IsFiniteSet(S) /\ Cardinality(S) = MaxTorp
  <2>1. 0 \in Int /\ MaxTorp-1 \in Int /\ ~(0 > MaxTorp-1) BY TorpsAssumption
  <2>2. Cardinality(S) = MaxTorp-1-0+1 BY <2>1, FS_Interval, SMT
  <2> QED BY <2>1, <2>2, FS_Interval, TorpsAssumption, SMT
<1>2. f \in Bijection(S, TorpsOf(p))
  BY DEF Bijection, Injection, Surjection, IsInjective, TorpsOf
<1>3. ExistsBijection(S, TorpsOf(p)) BY <1>2 DEF ExistsBijection
<1> HIDE DEF S
<1> QED BY <1>1, <1>3, FS_Bijection

LEMMA EntryFinite == IsFiniteSet(Entry)
<1>1. IsFiniteSet(Player) BY FS_Interval, TorpsAssumption DEF Player
<1>2. IsFiniteSet(AllTorps)
  <2> DEFINE S == 0..MaxTorp-1
             f == [x \in Player \X S |-> <<"torp", x[1], x[2]>>]
  <2>1. IsFiniteSet(S) BY FS_Interval, TorpsAssumption
  <2>2. f \in [Player \X S -> AllTorps]
    BY DEF AllTorps, TorpsOf
  <2>3. \A k \in AllTorps : \E x \in Player \X S : f[x] = k
    <3> TAKE k \in AllTorps
    <3>1. PICK p \in Player, i \in S : k = <<"torp", p, i>> BY DEF AllTorps, TorpsOf
    <3>2. <<p, i>> \in Player \X S /\ f[<<p, i>>] = <<"torp", p, i>> OBVIOUS
    <3> QED BY <3>1, <3>2
  <2>4. f \in Surjection(Player \X S, AllTorps) BY <2>2, <2>3 DEF Surjection
  <2> HIDE DEF S, f
  <2> QED BY <1>1, <2>1, <2>4, FS_Product, FS_Surjection
<1>3. IsFiniteSet(AllPlasmas)
  <2> DEFINE S == 0..MaxPlasma-1
             f == [x \in Player \X S |-> <<"plasma", x[1], x[2]>>]
  <2>1. IsFiniteSet(S) BY FS_Interval, TorpsAssumption
  <2>2. f \in [Player \X S -> AllPlasmas]
    BY DEF AllPlasmas, PlasmasOf
  <2>3. \A k \in AllPlasmas : \E x \in Player \X S : f[x] = k
    <3> TAKE k \in AllPlasmas
    <3>1. PICK p \in Player, i \in S : k = <<"plasma", p, i>> BY DEF AllPlasmas, PlasmasOf
    <3>2. <<p, i>> \in Player \X S /\ f[<<p, i>>] = <<"plasma", p, i>> OBVIOUS
    <3> QED BY <3>1, <3>2
  <2>4. f \in Surjection(Player \X S, AllPlasmas) BY <2>2, <2>3 DEF Surjection
  <2> HIDE DEF S, f
  <2> QED BY <1>1, <2>1, <2>4, FS_Product, FS_Surjection
<1> QED BY <1>2, <1>3, FS_Union DEF Entry

\* The weapons in flight are torpedoes and plasmas, finitely many.
LEMMA FlyingFacts ==
  ASSUME Types, NEW p \in Player
  PROVE  /\ InFlight(p) = Flying(p, "torp") \cup Flying(p, "plasma")
         /\ IsFiniteSet(Flying(p, "torp"))
         /\ IsFiniteSet(Flying(p, "plasma"))
<1>1. \A k \in Entry : torps[k].type \in {"torp", "plasma"} BY DEF Types
<1>2. InFlight(p) = Flying(p, "torp") \cup Flying(p, "plasma")
  BY <1>1 DEF InFlight, Flying
<1>3. /\ Flying(p, "torp") \in SUBSET Entry
      /\ Flying(p, "plasma") \in SUBSET Entry
  BY DEF InFlight, Flying
<1> QED BY <1>2, <1>3, EntryFinite, FS_Subset

\* No weapon in flight when both counts are zero, and the other way round.
LEMMA NoneFlying ==
  ASSUME Types, Counted, NEW p \in Player
  PROVE  (ntorp[p] <= 0 /\ nplasma[p] <= 0) <=> InFlight(p) = {}
<1> DEFINE A == Flying(p, "torp")
           B == Flying(p, "plasma")
<1>1. IsFiniteSet(A) /\ IsFiniteSet(B) /\ InFlight(p) = A \cup B BY FlyingFacts
<1>2. ntorp[p] = Cardinality(A) /\ nplasma[p] = Cardinality(B) BY DEF Counted
<1> HIDE DEF A, B
<1>3. Cardinality(A) \in Nat /\ Cardinality(B) \in Nat BY <1>1, FS_CardinalityType
<1>4. (Cardinality(A) = 0 <=> A = {}) /\ (Cardinality(B) = 0 <=> B = {})
  BY <1>1, FS_EmptySet
<1> QED BY <1>1, <1>2, <1>3, <1>4

\* The torpedoes of a player are in his entries, and there are at most MaxTorp.
LEMMA AtMostMaxTorp ==
  ASSUME TpInv, NEW p \in Player
  PROVE  /\ Flying(p, "torp") = TorpsOf(p) \ FreeOf(TorpsOf(p))
         /\ ntorp[p] \in 0..MaxTorp
         /\ ntorp[p] # MaxTorp => FreeOf(TorpsOf(p)) # {}
<1> USE DEF TpInv
<1>1. Flying(p, "torp") \subseteq TorpsOf(p)
  <2> SUFFICES ASSUME NEW k \in Entry, torps[k].status # "FREE", torps[k].owner = p,
                      torps[k].type = "torp"
               PROVE  k \in TorpsOf(p)
    BY DEF Flying, InFlight
  <2>1. k[1] = "torp" /\ k[2] = p BY DEF Placed
  <2>2. k \in AllTorps BY <2>1, EntryShape DEF Entry
  <2> QED BY <2>1, <2>2, EntryShape
<1>2. Flying(p, "torp") = TorpsOf(p) \ FreeOf(TorpsOf(p))
  <2> SUFFICES ASSUME NEW k \in TorpsOf(p)
               PROVE  k \in Flying(p, "torp") <=> torps[k] # Free
    BY <1>1 DEF FreeOf
  <2>1. k \in Entry /\ k[1] = "torp" /\ k[2] = p BY EntryShape DEF Entry
  <2> QED BY <2>1 DEF Placed, Flying, InFlight, Free
<1>3. /\ IsFiniteSet(Flying(p, "torp"))
      /\ IsFiniteSet(TorpsOf(p))
      /\ Cardinality(TorpsOf(p)) = MaxTorp
  BY FlyingFacts, TorpsOfSize
<1>4. Cardinality(Flying(p, "torp")) <= MaxTorp BY <1>1, <1>3, FS_Subset
<1>5. Cardinality(Flying(p, "torp")) \in Nat BY <1>3, FS_CardinalityType
<1>6. ntorp[p] = Cardinality(Flying(p, "torp")) BY DEF Counted
<1>7. ntorp[p] \in 0..MaxTorp BY <1>4, <1>5, <1>6, TorpsAssumption
<1>8. FreeOf(TorpsOf(p)) = {} => ntorp[p] = MaxTorp
  <2> SUFFICES ASSUME FreeOf(TorpsOf(p)) = {} PROVE ntorp[p] = MaxTorp OBVIOUS
  <2>1. Flying(p, "torp") = TorpsOf(p) BY <1>2
  <2> QED BY <2>1, <1>3, <1>6
<1> QED BY <1>2, <1>7, <1>8

-----------------------------------------------------------------------------
\* A step that frees and fills no entry keeps the invariant when the counts it
\* resets, and the players it lets out, have nothing in flight.
LEMMA Kept ==
  ASSUME TpInv, Types',
         \A k \in Entry :
           /\ torps'[k].status = "FREE" <=> torps[k].status = "FREE"
           /\ torps'[k].type = torps[k].type
           /\ torps'[k].owner = torps[k].owner,
         \A p \in Player :
           \/ ntorp'[p] = ntorp[p] /\ nplasma'[p] = nplasma[p]
           \/ ntorp'[p] = 0 /\ nplasma'[p] = 0 /\ InFlight(p) = {},
         \A p \in Player :
           status'[p] \in {"FREE", "OUT"} =>
             status[p] \in {"FREE", "OUT"} \/ InFlight(p) = {}
  PROVE  TpInv'
<1> USE DEF TpInv
<1>1. Placed'
  <2> SUFFICES ASSUME NEW k \in Entry
               PROVE  IF torps'[k].status = "FREE"
                        THEN torps'[k] = Free
                        ELSE torps'[k].type = k[1] /\ (k[1] = "torp" => torps'[k].owner = k[2])
    BY DEF Placed
  <2>1. CASE torps'[k].status = "FREE"
    <3>1. torps[k] = Free BY <2>1 DEF Placed
    <3>2. /\ torps'[k].type = Free.type
          /\ torps'[k].owner = Free.owner
          /\ torps'[k].status = Free.status
      BY <2>1, <3>1 DEF Free
    <3>3. torps'[k] \in [status : {"FREE", "MOVE", "EXPLODE", "DET", "OFF"},
                         type : {"torp", "plasma"}, owner : Player]
      BY DEF Types
    <3>4. torps'[k] = Free BY <3>2, <3>3 DEF Free
    <3> QED BY <2>1, <3>4
  <2>2. CASE torps'[k].status # "FREE" BY <2>2 DEF Placed
  <2> QED BY <2>1, <2>2
<1>2. \A p \in Player : InFlight(p)' = InFlight(p) BY DEF InFlight
<1>3. \A p \in Player : /\ Flying(p, "torp")' = Flying(p, "torp")
                        /\ Flying(p, "plasma")' = Flying(p, "plasma")
  BY <1>2 DEF Flying, InFlight
<1>4. ASSUME NEW p \in Player
      PROVE  /\ ntorp'[p] = Cardinality(Flying(p, "torp"))
             /\ nplasma'[p] = Cardinality(Flying(p, "plasma"))
  <2>1. /\ ntorp[p] = Cardinality(Flying(p, "torp"))
        /\ nplasma[p] = Cardinality(Flying(p, "plasma"))
    BY DEF Counted
  <2>2. CASE InFlight(p) = {} /\ ntorp'[p] = 0 /\ nplasma'[p] = 0
    <3>1. Flying(p, "torp") = {} /\ Flying(p, "plasma") = {} BY <2>2 DEF Flying
    <3> QED BY <2>2, <3>1, FS_EmptySet
  <2> QED BY <2>1, <2>2
<1>5. Counted' BY <1>3, <1>4 DEF Counted
<1>6. OutClean' BY <1>2 DEF OutClean
<1> QED BY <1>1, <1>5, <1>6

\* An entry of the right kind, filled for a player in the game, is counted.
LEMMA Fired ==
  ASSUME TpInv, NEW p \in Player, InGame(p), NEW k \in Entry, torps[k] = Free,
         k[1] = "torp" => k[2] = p,
         k[1] \in {"torp", "plasma"},
         torps' = Launched(k, k[1], p), status' = status,
         ntorp' = IF k[1] = "torp" THEN [ntorp EXCEPT ![p] = @ + 1] ELSE ntorp,
         nplasma' = IF k[1] = "torp" THEN nplasma ELSE [nplasma EXCEPT ![p] = @ + 1]
  PROVE  TpInv'
<1> USE DEF TpInv
<1>1. torps[k].status = "FREE" BY DEF Free
<1>2. /\ torps'[k] = [status |-> "MOVE", type |-> k[1], owner |-> p]
      /\ \A j \in Entry \ {k} : torps'[j] = torps[j]
  BY DEF Launched, Types
<1>3. Types'
  <2>1. torps' \in [Entry -> [status : {"FREE", "MOVE", "EXPLODE", "DET", "OFF"},
                              type : {"torp", "plasma"}, owner : Player]]
    BY DEF Launched, Types
  <2>2. ntorp' \in [Player -> Int] BY DEF Types
  <2>3. nplasma' \in [Player -> Int] BY DEF Types
  <2> QED BY <2>1, <2>2, <2>3 DEF Types
<1>4. Placed' BY <1>2 DEF Placed
<1>5. \A q \in Player : InFlight(q)' = IF q = p THEN InFlight(q) \cup {k} ELSE InFlight(q)
  BY <1>1, <1>2 DEF InFlight
<1>6. \A q \in Player, t \in {"torp", "plasma"} :
        Flying(q, t)' = IF q = p /\ t = k[1] THEN Flying(q, t) \cup {k} ELSE Flying(q, t)
  BY <1>1, <1>2 DEF Flying, InFlight
<1>7. k \notin Flying(p, k[1]) BY <1>1 DEF Flying, InFlight
<1>8. IsFiniteSet(Flying(p, k[1])) BY FlyingFacts
<1>9. Cardinality(Flying(p, k[1]) \cup {k}) = Cardinality(Flying(p, k[1])) + 1
  BY <1>7, <1>8, FS_AddElement
<1>10. Counted' BY <1>6, <1>9 DEF Counted, Types
<1>11. OutClean' BY <1>5 DEF OutClean, InGame
<1> QED BY <1>3, <1>4, <1>10, <1>11

\* A weapon in flight, given back, is counted off.
LEMMA Returned ==
  ASSUME TpInv, NEW k \in Entry, Expire(k)
  PROVE  TpInv'
<1> USE DEF TpInv
<1> DEFINE p == torps[k].owner
           t == torps[k].type
<1>1. torps[k].status # "FREE" /\ p \in Player /\ t \in {"torp", "plasma"}
  BY DEF Expire, Types
<1>2. torps'[k] = Free /\ \A j \in Entry \ {k} : torps'[j] = torps[j]
  BY DEF Expire, Types
<1>3. 0 \in Player BY TorpsAssumption DEF Player
<1>4. Types'
  <2>1. torps' \in [Entry -> [status : {"FREE", "MOVE", "EXPLODE", "DET", "OFF"},
                              type : {"torp", "plasma"}, owner : Player]]
    BY <1>3 DEF Expire, Types, Free
  <2>2. status' \in [Player -> {"FREE", "OUT", "ALIVE", "EXPLODE", "DEAD"}]
    BY DEF Expire, Types
  <2>3. ntorp' \in [Player -> Int] /\ nplasma' \in [Player -> Int]
    BY DEF Expire, Types
  <2> QED BY <2>1, <2>2, <2>3 DEF Types
<1>5. Placed' BY <1>2 DEF Placed, Free
<1>6. \A q \in Player : InFlight(q)' = IF q = p THEN InFlight(q) \ {k} ELSE InFlight(q)
  BY <1>1, <1>2 DEF InFlight, Free
<1>7. \A q \in Player, u \in {"torp", "plasma"} :
        Flying(q, u)' = IF q = p /\ u = t THEN Flying(q, u) \ {k} ELSE Flying(q, u)
  BY <1>1, <1>2 DEF Flying, InFlight, Free
<1>8. k \in Flying(p, t) BY <1>1 DEF Flying, InFlight
<1>9. IsFiniteSet(Flying(p, t)) BY <1>1, FlyingFacts
<1>10. Cardinality(Flying(p, t) \ {k}) = Cardinality(Flying(p, t)) - 1
  BY <1>8, <1>9, FS_RemoveElement
<1>11. /\ ntorp' = IF t = "torp" THEN [ntorp EXCEPT ![p] = @ - 1] ELSE ntorp
       /\ nplasma' = IF t = "torp" THEN nplasma ELSE [nplasma EXCEPT ![p] = @ - 1]
       /\ status' = status
  BY DEF Expire
<1> HIDE DEF p, t
<1>12. Counted' BY <1>1, <1>7, <1>10, <1>11 DEF Counted, Types
<1>13. OutClean' BY <1>6, <1>11 DEF OutClean
<1> QED BY <1>4, <1>5, <1>12, <1>13

\* A plasma that changes hands is counted off one owner and on the other.
LEMMA Deflected ==
  ASSUME TpInv, NEW p \in Player, InGame(p), NEW k \in AllPlasmas,
         torps[k].status = "MOVE", torps[k].owner # p, Deflect(p, k),
         UNCHANGED <<status, ntorp>>
  PROVE  TpInv'
<1> USE DEF TpInv
<1> DEFINE o == torps[k].owner
<1>1. k \in Entry /\ k[1] = "plasma" BY EntryShape DEF Entry
<1>2. o \in Player /\ torps[k].type = "plasma" /\ o # p BY <1>1 DEF Types, Placed
<1>3. /\ torps'[k].owner = p /\ torps'[k].status = "MOVE" /\ torps'[k].type = "plasma"
      /\ \A j \in Entry \ {k} : torps'[j] = torps[j]
  BY <1>1, <1>2 DEF Deflect, Types
<1>4. Types'
  <2>1. torps' \in [Entry -> [status : {"FREE", "MOVE", "EXPLODE", "DET", "OFF"},
                              type : {"torp", "plasma"}, owner : Player]]
    BY <1>1 DEF Deflect, Types
  <2>2. nplasma' \in [Player -> Int] BY <1>2 DEF Deflect, Types
  <2> QED BY <2>1, <2>2 DEF Types
<1>5. Placed' BY <1>1, <1>3 DEF Placed
<1>6. \A q \in Player : InFlight(q)' =
        IF q = p THEN InFlight(q) \cup {k} ELSE IF q = o THEN InFlight(q) \ {k} ELSE InFlight(q)
  BY <1>1, <1>2, <1>3 DEF InFlight
<1>7. \A q \in Player : Flying(q, "torp")' = Flying(q, "torp")
  BY <1>1, <1>2, <1>3 DEF Flying, InFlight
<1>8. \A q \in Player : Flying(q, "plasma")' =
        IF q = p THEN Flying(q, "plasma") \cup {k}
        ELSE IF q = o THEN Flying(q, "plasma") \ {k} ELSE Flying(q, "plasma")
  BY <1>1, <1>2, <1>3 DEF Flying, InFlight
<1>9. k \in Flying(o, "plasma") /\ k \notin Flying(p, "plasma")
  BY <1>1, <1>2 DEF Flying, InFlight
<1>10. IsFiniteSet(Flying(o, "plasma")) /\ IsFiniteSet(Flying(p, "plasma"))
  BY <1>2, FlyingFacts
<1>11. /\ Cardinality(Flying(o, "plasma") \ {k}) = Cardinality(Flying(o, "plasma")) - 1
       /\ Cardinality(Flying(p, "plasma") \cup {k}) = Cardinality(Flying(p, "plasma")) + 1
  BY <1>9, <1>10, FS_AddElement, FS_RemoveElement
<1>12. /\ nplasma'[o] = nplasma[o] - 1
       /\ nplasma'[p] = nplasma[p] + 1
       /\ \A q \in Player \ {o, p} : nplasma'[q] = nplasma[q]
  BY <1>2 DEF Deflect, Types
<1> HIDE DEF o
<1>13. Counted' BY <1>2, <1>7, <1>8, <1>11, <1>12 DEF Counted
<1>14. OutClean'
  <2> SUFFICES ASSUME NEW q \in Player, status[q] \in {"FREE", "OUT"}
               PROVE  InFlight(q)' = {}
    BY DEF OutClean
  <2>1. q # p /\ InFlight(q) = {} BY DEF OutClean, InGame
  <2> QED BY <2>1, <1>6
<1> QED BY <1>4, <1>5, <1>13, <1>14

-----------------------------------------------------------------------------
\* Weapons in flight that are turned off, detonated or exploded stay in flight.
LEMMA TurnedType ==
  ASSUME Types, NEW S \in SUBSET Entry, \A k \in S : torps[k].status # "FREE",
         NEW to \in {"EXPLODE", "DET", "OFF"}
  PROVE  /\ Turned(S, to) \in [Entry -> [status : {"FREE", "MOVE", "EXPLODE", "DET", "OFF"},
                                         type : {"torp", "plasma"}, owner : Player]]
         /\ \A k \in Entry :
              /\ Turned(S, to)[k].status = "FREE" <=> torps[k].status = "FREE"
              /\ Turned(S, to)[k].type = torps[k].type
              /\ Turned(S, to)[k].owner = torps[k].owner
<1>1. \A k \in Entry : torps[k] \in [status : {"FREE", "MOVE", "EXPLODE", "DET", "OFF"},
                                     type : {"torp", "plasma"}, owner : Player]
  BY DEF Types
<1> QED BY <1>1 DEF Turned

\* So a step that only turns some of them keeps the invariant.
LEMMA TurnedKeeps ==
  ASSUME TpInv, NEW S \in SUBSET Entry, \A k \in S : torps[k].status # "FREE",
         NEW to \in {"EXPLODE", "DET", "OFF"}, torps' = Turned(S, to),
         ntorp' = ntorp, nplasma' = nplasma,
         status' \in [Player -> {"FREE", "OUT", "ALIVE", "EXPLODE", "DEAD"}],
         \A p \in Player : status'[p] \in {"FREE", "OUT"} => status[p] \in {"FREE", "OUT"}
  PROVE  TpInv'
<1>1. Types' BY TurnedType DEF Types, TpInv
<1> QED BY <1>1, TurnedType, Kept DEF TpInv

LEMMA FireTorpKeeps ==
  ASSUME TpInv, NEW p \in Player, FireTorp(p)
  PROVE  TpInv'
<1>1. FreeOf(TorpsOf(p)) # {} BY AtMostMaxTorp DEF FireTorp
<1>2. PICK k \in FreeOf(TorpsOf(p)) : torps' = Launched(k, "torp", p)
  BY <1>1 DEF FireTorp, Found
<1>3. k \in Entry /\ k[1] = "torp" /\ k[2] = p /\ torps[k] = Free
  BY <1>2, EntryShape DEF FreeOf, Entry
<1> QED BY <1>2, <1>3, Fired DEF FireTorp

LEMMA FirePlasmaKeeps ==
  ASSUME TpInv, NEW p \in Player, FirePlasma(p)
  PROVE  TpInv'
<1>1. PICK k \in FreeOf(PlasmasOf(p)) : torps' = Launched(k, "plasma", p)
  BY DEF FirePlasma
<1>2. k \in Entry /\ k[1] = "plasma" /\ torps[k] = Free
  BY <1>1, EntryShape DEF FreeOf, Entry
<1> QED BY <1>1, <1>2, Fired DEF FirePlasma

LEMMA DetMineKeeps ==
  ASSUME TpInv, NEW p \in Player, DetMine(p)
  PROVE  TpInv'
<1>1. \/ \E k \in AllTorps : torps[k].status = "MOVE" /\ torps' = Turned({k}, "OFF")
      \/ torps' = Turned({k \in TorpsOf(p) : torps[k].status = "MOVE"}, "OFF")
  BY DEF DetMine
<1>2. PICK S \in SUBSET Entry : (\A j \in S : torps[j].status = "MOVE") /\ torps' = Turned(S, "OFF")
  <2>1. ASSUME NEW k \in AllTorps, torps[k].status = "MOVE", torps' = Turned({k}, "OFF")
        PROVE  \E S \in SUBSET Entry :
                 (\A j \in S : torps[j].status = "MOVE") /\ torps' = Turned(S, "OFF")
    <3>1. {k} \in SUBSET Entry BY DEF Entry
    <3> QED BY <2>1, <3>1
  <2>2. CASE torps' = Turned({k \in TorpsOf(p) : torps[k].status = "MOVE"}, "OFF")
    <3>1. {k \in TorpsOf(p) : torps[k].status = "MOVE"} \in SUBSET Entry
      BY EntryShape DEF Entry
    <3> QED BY <2>2, <3>1
  <2> QED BY <1>1, <2>1, <2>2
<1>3. /\ \A j \in S : torps[j].status # "FREE"
      /\ UNCHANGED <<status, ntorp, nplasma>>
  BY <1>2 DEF DetMine
<1> QED BY <1>2, <1>3, TurnedKeeps DEF TpInv, Types

LEMMA DetOthersKeeps ==
  ASSUME TpInv, NEW p \in Player, DetOthers(p)
  PROVE  TpInv'
<1>1. PICK S \in SUBSET {k \in AllTorps : /\ torps[k].status = "MOVE"
                                          /\ torps[k].owner # p
                                          /\ status[k[2]] # "FREE"} :
        torps' = Turned(S, "DET")
  BY DEF DetOthers
<1>2. /\ S \in SUBSET Entry
      /\ \A j \in S : torps[j].status # "FREE"
      /\ UNCHANGED <<status, ntorp, nplasma>>
  BY <1>1 DEF DetOthers, Entry
<1> QED BY <1>1, <1>2, TurnedKeeps DEF TpInv, Types

LEMMA PhaserKeeps ==
  ASSUME TpInv, NEW p \in Player, Phaser(p)
  PROVE  TpInv'
<1>1. PICK k \in AllPlasmas :
        /\ torps[k].status = "MOVE"
        /\ torps[k].owner # p
        /\ \/ Deflect(p, k)
           \/ torps' = Turned({k}, "DET") /\ UNCHANGED nplasma
  BY DEF Phaser
<1>2. InGame(p) /\ UNCHANGED <<status, ntorp>> BY DEF Phaser
<1>3. CASE Deflect(p, k) BY <1>1, <1>2, <1>3, Deflected
<1>4. CASE torps' = Turned({k}, "DET") /\ UNCHANGED nplasma
  <2>1. {k} \in SUBSET Entry /\ \A j \in {k} : torps[j].status # "FREE"
    BY <1>1 DEF Entry
  <2> QED BY <1>2, <1>4, <2>1, TurnedKeeps DEF TpInv, Types
<1> QED BY <1>1, <1>3, <1>4

LEMMA ExplosionKeeps ==
  ASSUME TpInv, NEW k \in Entry, Explosion(k)
  PROVE  TpInv'
<1>1. PICK dead \in SUBSET {p \in Player : status[p] = "ALIVE"} :
        status' = [p \in Player |-> IF p \in dead THEN "EXPLODE" ELSE status[p]]
  BY DEF Explosion
<1>2. /\ status' \in [Player -> {"FREE", "OUT", "ALIVE", "EXPLODE", "DEAD"}]
      /\ \A p \in Player : status'[p] \in {"FREE", "OUT"} => status[p] \in {"FREE", "OUT"}
  BY <1>1 DEF TpInv, Types
<1>3. /\ {k} \in SUBSET Entry
      /\ \A j \in {k} : torps[j].status # "FREE"
      /\ torps' = Turned({k}, "EXPLODE")
      /\ ntorp' = ntorp /\ nplasma' = nplasma
  BY DEF Explosion
<1> QED BY <1>2, <1>3, TurnedKeeps

\* Steps of a player's life leave the entries alone.
LEMMA LifeKeeps ==
  ASSUME TpInv, NEW p \in Player,
         Enter(p) \/ Killed(p) \/ Exploded(p) \/ Death(p)
  PROVE  TpInv'
<1> USE DEF TpInv
<1>1. Types' BY DEF Types, Enter, Killed, Exploded, Death
<1>2. torps' = torps BY DEF Enter, Killed, Exploded, Death
<1>3. CASE Enter(p)
  <2>1. InFlight(p) = {} BY <1>3 DEF Enter, OutClean
  <2> QED BY <1>1, <1>2, <1>3, <2>1, Kept DEF Enter, Types
<1>4. CASE Killed(p) \/ Exploded(p)
  BY <1>1, <1>2, <1>4, Kept DEF Killed, Exploded, Types
<1>5. CASE Death(p)
  <2>1. InFlight(p) = {} BY <1>5, NoneFlying DEF Death, Gone
  <2> QED BY <1>1, <1>2, <1>5, <2>1, Kept DEF Death, Types
<1> QED BY <1>3, <1>4, <1>5

LEMMA ChangeTeamKeeps ==
  ASSUME Early = {}, TpInv, NEW p \in Player, ChangeTeam(p)
  PROVE  TpInv'
<1>1. InFlight(p) = {} BY DEF ChangeTeam
<1>2. Types' BY DEF Types, TpInv, ChangeTeam
<1> QED BY <1>1, <1>2, Kept DEF ChangeTeam, TpInv, Types

LEMMA LeaveKeeps ==
  ASSUME Early = {}, TpInv, NEW p \in Player, Leave(p)
  PROVE  TpInv'
<1>1. InFlight(p) = {} BY DEF Leave
<1>2. Types' BY DEF Types, TpInv, Leave
<1> QED BY <1>1, <1>2, Kept DEF Leave, TpInv, Types

LEMMA InitKeeps == Init => TpInv
<1> SUFFICES ASSUME Init PROVE TpInv OBVIOUS
<1>1. 0 \in Player BY TorpsAssumption DEF Player
<1>2. Types BY <1>1 DEF Init, Types, Free
<1>3. Placed BY DEF Init, Placed, Free
<1>4. \A p \in Player : InFlight(p) = {} BY DEF Init, InFlight, Free
<1>5. \A p \in Player : Flying(p, "torp") = {} /\ Flying(p, "plasma") = {} BY <1>4 DEF Flying
<1>6. Counted BY <1>5, FS_EmptySet DEF Init, Counted
<1> QED BY <1>2, <1>3, <1>4, <1>6 DEF TpInv, OutClean

-----------------------------------------------------------------------------
\* TpInv is an invariant when nobody is traded, or leaves, with weapons in
\* flight.
THEOREM TorpsHeld == ASSUME Early = {} PROVE Spec => []TpInv
<1>1. ASSUME TpInv, [Next]_vars PROVE TpInv'
  <2>1. CASE UNCHANGED vars
    <3>1. Types' BY <1>1, <2>1 DEF vars, TpInv, Types
    <3> QED BY <1>1, <2>1, <3>1, Kept DEF vars
  <2>2. ASSUME NEW p \in Player, FireTorp(p) PROVE TpInv' BY <1>1, <2>2, FireTorpKeeps
  <2>3. ASSUME NEW p \in Player, FirePlasma(p) PROVE TpInv' BY <1>1, <2>3, FirePlasmaKeeps
  <2>4. ASSUME NEW p \in Player, DetMine(p) PROVE TpInv' BY <1>1, <2>4, DetMineKeeps
  <2>5. ASSUME NEW p \in Player, DetOthers(p) PROVE TpInv' BY <1>1, <2>5, DetOthersKeeps
  <2>6. ASSUME NEW p \in Player, Phaser(p) PROVE TpInv' BY <1>1, <2>6, PhaserKeeps
  <2>7. ASSUME NEW p \in Player, Enter(p) \/ Killed(p) \/ Exploded(p) \/ Death(p) PROVE TpInv'
    BY <1>1, <2>7, LifeKeeps
  <2>8. ASSUME NEW p \in Player, ChangeTeam(p) PROVE TpInv' BY <1>1, <2>8, ChangeTeamKeeps
  <2>9. ASSUME NEW p \in Player, Leave(p) PROVE TpInv' BY <1>1, <2>9, LeaveKeeps
  <2>10. ASSUME NEW k \in Entry, Explosion(k) PROVE TpInv' BY <1>1, <2>10, ExplosionKeeps
  <2>11. ASSUME NEW k \in Entry, Expire(k) PROVE TpInv' BY <1>1, <2>11, Returned
  <2> QED BY <1>1, <2>1, <2>2, <2>3, <2>4, <2>5, <2>6, <2>7, <2>8, <2>9, <2>10, <2>11 DEF Next
<1> QED BY <1>1, InitKeeps, PTL DEF Spec

\* p_ntorp and p_nplasmatorp are the numbers of weapons in flight, whoever
\* fires, detonates, deflects or dies while the daemon gives entries back.
THEOREM CountsAgree == ASSUME Early = {} PROVE Spec => []Counted
<1>1. TpInv => Counted BY DEF TpInv
<1> QED BY <1>1, TorpsHeld, PTL

\* The search of ntorp() never runs past the player's last torpedo.
THEOREM FindsOwnTorp == ASSUME Early = {} PROVE Spec => []NoOverrun
<1>1. TpInv => NoOverrun BY AtMostMaxTorp DEF NoOverrun
<1> QED BY <1>1, TorpsHeld, PTL

\* Whoever chooses a ship has no weapon left in flight.
THEOREM RejoinsClean == ASSUME Early = {} PROVE Spec => []RejoinClean
<1>1. TpInv => RejoinClean BY DEF TpInv, OutClean, RejoinClean
<1> QED BY <1>1, TorpsHeld, PTL

\* The counts stay in range: at most MaxTorp torpedoes, and never below zero.
THEOREM TypeCorrect == ASSUME Early = {} PROVE Spec => []TypeOK
<1>1. ASSUME TpInv PROVE TypeOK
  <2>1. \A p \in Player : ntorp[p] \in 0..MaxTorp BY <1>1, AtMostMaxTorp
  <2>2. \A p \in Player : nplasma[p] \in Nat
    BY <1>1, FlyingFacts, FS_CardinalityType DEF TpInv, Counted
  <2> QED BY <1>1, <2>1, <2>2 DEF TypeOK, TpInv, Types
<1> QED BY <1>1, TorpsHeld, PTL
=============================================================================
