--------------------------- MODULE WorldNodeProofs ---------------------------
(***************************************************************************)
(* What three parts of a world node keep that share no state with another.  *)
(*                                                                         *)
(* Spawner, for any number of spawn points and any counts: the invariants  *)
(* are inductive together.                                                 *)
(*                                                                         *)
(* Loot, for any characters, sources and slots: the invariants need each   *)
(* other, and two facts more: only the owner of a box looks into it, and   *)
(* what was handed out is marked in the loot as long as its source is      *)
(* there.                                                                  *)
(*                                                                         *)
(* CreatureCombat, for any creatures, characters and posted functions:     *)
(* lists of enemies and attackers agree (FoesKnown) and everyone on a list *)
(* is there (FoesThere); a posted choice is of a creature that fights, and *)
(* a call for help against someone who is there (CallsFit).  Handlers of   *)
(* one creature leave the others alone (Elsewhere); when a character is    *)
(* gone, each who drops it chooses for itself (Forsakes).                  *)
(***************************************************************************)
EXTENDS MCWorldNode, WorldTransferProofs, TLAPS

-----------------------------------------------------------------------------
(* Spawn points. *)

\* What each spawn point promises by itself: no step reads another one.
Kept(s, r) ==
  /\ s \in ObjectSpawner => r.active /\ r.respawn
  /\ s \in ObjectSpawner => r.spawned <= MaxCount[s] /\ (r.countdown <=> r.spawned < MaxCount[s])
  /\ s \notin ObjectSpawner => r.spawned <= MaxCount[s] + 1
  /\ s \notin ObjectSpawner => (r.countdown => r.spawned <= MaxCount[s])
  /\ r.active /\ r.respawn /\ r.spawned = 0 => r.countdown

SpawnInv == SpawnTypeOK /\ \A s \in Spawner : Kept(s, spawner[s])

(* Counts are positive. *)
LEMMA CountIsPositive == ASSUME NEW s \in Spawner PROVE MaxCount[s] \in Nat /\ MaxCount[s] > 0
  BY SpawnerAssumption

(* A fresh spawn point keeps its promise. *)
LEMMA FreshKept ==
  ASSUME NEW s \in Spawner, NEW active \in BOOLEAN, NEW respawn \in BOOLEAN,
         s \in ObjectSpawner => active /\ respawn
  PROVE  Fresh(s, active, respawn) \in SpawnRecord /\ Kept(s, Fresh(s, active, respawn))
  BY CountIsPositive DEF Fresh, SpawnRecord, Kept

(* setRespawnTimer keeps every promise of a spawn point that is not owed a
   countdown it has. *)
LEMMA TimerStarted ==
  ASSUME NEW s \in Spawner, NEW r \in SpawnRecord,
         s \in ObjectSpawner => r.active /\ r.respawn /\ r.spawned <= MaxCount[s],
         r.spawned <= MaxCount[s] + 1,
         r.countdown => r.spawned < MaxCount[s]
  PROVE  WithRespawnTimer(s, r) \in SpawnRecord /\ Kept(s, WithRespawnTimer(s, r))
<1> DEFINE x == [r EXCEPT !.countdown = TRUE]
<1>1. x \in SpawnRecord /\ x.spawned = r.spawned /\ x.countdown
      /\ (x.active <=> r.active) /\ (x.respawn <=> r.respawn)
  BY DEF SpawnRecord
<1>2. r.spawned \in Nat /\ r.countdown \in BOOLEAN
  BY DEF SpawnRecord
<1>3. CASE r.spawned >= MaxCount[s]
  <2>1. WithRespawnTimer(s, r) = r
    BY <1>3 DEF WithRespawnTimer
  <2> QED BY <2>1, <1>2, <1>3, CountIsPositive DEF Kept
<1>4. CASE ~(r.spawned >= MaxCount[s])
  <2>1. WithRespawnTimer(s, r) = x
    BY <1>4 DEF WithRespawnTimer
  <2> HIDE DEF x
  <2> QED BY <2>1, <1>1, <1>2, <1>4, CountIsPositive DEF Kept
<1> QED BY <1>3, <1>4

(* The countdown may be started while one is missing: onSpawnTime. *)
LEMMA RespawnedKept ==
  ASSUME NEW s \in Spawner, NEW r \in SpawnRecord, Kept(s, r), r.countdown
  PROVE  Respawned(s, r) \in SpawnRecord /\ Kept(s, Respawned(s, r))
<1> DEFINE x == [r EXCEPT !.spawned = @ + 1, !.countdown = FALSE]
<1>0. r.spawned + 1 \in Nat
  BY DEF SpawnRecord
<1>1. x \in SpawnRecord /\ x.spawned = r.spawned + 1 /\ ~x.countdown
      /\ (x.active <=> r.active) /\ (x.respawn <=> r.respawn)
  <2>1. x \in SpawnRecord
    BY <1>0 DEF SpawnRecord
  <2>2. x.spawned = r.spawned + 1 /\ ~x.countdown
    BY <1>0 DEF SpawnRecord
  <2>3. (x.active <=> r.active) /\ (x.respawn <=> r.respawn)
    BY <1>0 DEF SpawnRecord
  <2> QED BY <2>1, <2>2, <2>3
<1>2. r.spawned \in Nat /\ r.spawned <= MaxCount[s] /\ MaxCount[s] \in Nat
  BY CountIsPositive DEF SpawnRecord, Kept
<1>3. s \in ObjectSpawner => r.active /\ r.respawn /\ r.spawned < MaxCount[s]
  BY DEF Kept
<1>4. Respawned(s, r) = WithRespawnTimer(s, x)
  BY DEF Respawned
<1> HIDE DEF x
<1> QED BY <1>1, <1>2, <1>3, <1>4, TimerStarted

(* onRemoval, with one at least there. *)
LEMMA RemovedKept ==
  ASSUME NEW s \in Spawner, NEW r \in SpawnRecord, Kept(s, r), r.spawned > 0
  PROVE  Removed(s, r) \in SpawnRecord /\ Kept(s, Removed(s, r))
<1> DEFINE x == [r EXCEPT !.spawned = @ - 1]
<1>1. x \in SpawnRecord /\ x.spawned = r.spawned - 1 /\ (x.countdown <=> r.countdown)
      /\ (x.active <=> r.active) /\ (x.respawn <=> r.respawn)
  BY DEF SpawnRecord
<1>2. r.spawned \in Nat /\ r.spawned <= MaxCount[s] + 1 /\ MaxCount[s] \in Nat
  BY CountIsPositive DEF SpawnRecord, Kept
<1>3. s \in ObjectSpawner => r.active /\ r.respawn /\ r.spawned <= MaxCount[s]
  BY DEF Kept
<1>4. r.countdown => r.spawned <= MaxCount[s]
  BY CountIsPositive DEF Kept
<1>5. Removed(s, r) = WithRespawnTimer(s, x)
  BY DEF Removed
<1>6. x.countdown => x.spawned < MaxCount[s]
  BY <1>1, <1>2, <1>4
<1> HIDE DEF x
<1> QED BY <1>1, <1>2, <1>3, <1>5, <1>6, TimerStarted

(* setState: the countdown is cancelled only where it is not owed. *)
LEMMA SwitchedKept ==
  ASSUME NEW s \in Spawner, NEW r \in SpawnRecord, Kept(s, r), s \notin ObjectSpawner,
         NEW on \in BOOLEAN
  PROVE  Switched(s, r, on) \in SpawnRecord /\ Kept(s, Switched(s, r, on))
<1>1. r.spawned \in Nat /\ r.active \in BOOLEAN /\ MaxCount[s] \in Nat /\ MaxCount[s] > 0
  BY CountIsPositive DEF SpawnRecord
<1>2. CASE r.active = on
  BY <1>2 DEF Switched
<1>3. CASE r.active # on /\ on /\ r.spawned = 0
  <2> DEFINE x == [r EXCEPT !.spawned = MaxCount[s], !.active = on]
  <2>1. x \in SpawnRecord
    BY <1>1 DEF SpawnRecord
  <2>2. x.spawned = MaxCount[s]
    BY <1>1 DEF SpawnRecord
  <2>3. Switched(s, r, on) = x
    BY <1>3 DEF Switched
  <2> HIDE DEF x
  <2> QED BY <2>1, <2>2, <2>3, <1>1 DEF Kept
<1>4. CASE r.active # on /\ ~(on /\ r.spawned = 0)
  <2> DEFINE x == [r EXCEPT !.countdown = FALSE, !.active = on]
  <2>1. x \in SpawnRecord
    BY <1>1 DEF SpawnRecord
  <2>2. ~x.countdown /\ x.spawned = r.spawned
    BY <1>1 DEF SpawnRecord
  <2>3. x.active <=> on
    BY <1>1 DEF SpawnRecord
  <2>4. Switched(s, r, on) = x
    BY <1>4 DEF Switched
  <2> HIDE DEF x
  <2> QED BY <2>1, <2>2, <2>3, <2>4, <1>1, <1>4 DEF Kept
<1> QED BY <1>2, <1>3, <1>4

(* setRespawn: it may start the countdown of a spawn point that is switched off. *)
LEMMA RespawnSetKept ==
  ASSUME NEW s \in Spawner, NEW r \in SpawnRecord, Kept(s, r), s \notin ObjectSpawner,
         NEW on \in BOOLEAN
  PROVE  RespawnSet(s, r, on) \in SpawnRecord /\ Kept(s, RespawnSet(s, r, on))
<1>1. r.spawned \in Nat /\ r.respawn \in BOOLEAN /\ r.countdown \in BOOLEAN
      /\ MaxCount[s] \in Nat /\ MaxCount[s] > 0
  BY CountIsPositive DEF SpawnRecord
<1>2. CASE r.respawn = on
  BY <1>2 DEF RespawnSet
<1>3. CASE r.respawn # on /\ on
  <2> DEFINE y == WithRespawnTimer(s, r)
             x == [y EXCEPT !.respawn = on]
  <2>1. y \in SpawnRecord /\ y.spawned = r.spawned
    BY DEF WithRespawnTimer, SpawnRecord
  <2>2. y.countdown => r.spawned <= MaxCount[s]
    BY <1>1 DEF WithRespawnTimer, Kept, SpawnRecord
  <2>3. r.spawned = 0 => y.countdown
    BY <1>1 DEF WithRespawnTimer, SpawnRecord
  <2>4. RespawnSet(s, r, on) = x
    BY <1>3 DEF RespawnSet
  <2> HIDE DEF y
  <2>5. x \in SpawnRecord
    BY <2>1 DEF SpawnRecord
  <2>6. x.spawned = r.spawned
    BY <2>1 DEF SpawnRecord
  <2>7. x.countdown <=> y.countdown
    BY <2>1 DEF SpawnRecord
  <2> HIDE DEF x
  <2> QED BY <2>2, <2>3, <2>4, <2>5, <2>6, <2>7, <1>1 DEF Kept
<1>4. CASE r.respawn # on /\ ~on
  <2> DEFINE x == [r EXCEPT !.countdown = FALSE, !.respawn = on]
  <2>1. x \in SpawnRecord
    BY <1>1 DEF SpawnRecord
  <2>2. ~x.countdown /\ x.spawned = r.spawned
    BY <1>1 DEF SpawnRecord
  <2>3. ~x.respawn
    BY <1>1, <1>4 DEF SpawnRecord
  <2>4. RespawnSet(s, r, on) = x
    BY <1>4 DEF RespawnSet
  <2> HIDE DEF x
  <2> QED BY <2>1, <2>2, <2>3, <2>4, <1>1 DEF Kept
<1> QED BY <1>2, <1>3, <1>4

(* A step that replaces one spawn point by one that keeps its promise. *)
LEMMA OneReplaced ==
  ASSUME SpawnInv, NEW s \in Spawner, NEW r, r \in SpawnRecord /\ Kept(s, r),
         spawner' = [spawner EXCEPT ![s] = r]
  PROVE  SpawnInv'
  BY DEF SpawnInv, SpawnTypeOK, SpawnRecord, Kept

(* The spawn points keep their promises in every behaviour. *)
THEOREM SpawnPointsKept == SpawnSpec => []SpawnInv
<1>1. SpawnInit => SpawnInv
  <2> SUFFICES ASSUME NEW active \in [Spawner -> BOOLEAN], NEW respawn \in [Spawner -> BOOLEAN],
                      \A s \in ObjectSpawner : active[s] /\ respawn[s],
                      spawner = [s \in Spawner |-> Fresh(s, active[s], respawn[s])]
               PROVE  SpawnInv
    BY DEF SpawnInit
  <2>1. \A s \in Spawner : Fresh(s, active[s], respawn[s]) \in SpawnRecord
                             /\ Kept(s, Fresh(s, active[s], respawn[s]))
    BY FreshKept
  <2> QED BY <2>1 DEF SpawnInv, SpawnTypeOK, SpawnRecord
<1>2. SpawnInv /\ [SpawnNext]_spawner => SpawnInv'
  <2> SUFFICES ASSUME SpawnInv, [SpawnNext]_spawner PROVE SpawnInv'
    OBVIOUS
  <2>0. \A s \in Spawner : spawner[s] \in SpawnRecord /\ Kept(s, spawner[s])
    BY DEF SpawnInv, SpawnTypeOK, SpawnRecord
  <2>1. ASSUME NEW s \in Spawner, OnSpawnTime(s) PROVE SpawnInv'
    BY <2>0, <2>1, RespawnedKept, OneReplaced DEF OnSpawnTime
  <2>2. ASSUME NEW s \in Spawner, OnRemoval(s) PROVE SpawnInv'
    BY <2>0, <2>2, RemovedKept, OneReplaced DEF OnRemoval
  <2>3. ASSUME NEW s \in Spawner, NEW on \in BOOLEAN, SetSpawnState(s, on) PROVE SpawnInv'
    BY <2>0, <2>3, SwitchedKept, OneReplaced DEF SetSpawnState, CreatureSpawner
  <2>4. ASSUME NEW s \in Spawner, NEW on \in BOOLEAN, SetRespawnState(s, on) PROVE SpawnInv'
    BY <2>0, <2>4, RespawnSetKept, OneReplaced DEF SetRespawnState, CreatureSpawner
  <2>5. CASE UNCHANGED spawner
    BY <2>5 DEF SpawnInv, SpawnTypeOK, SpawnRecord, Kept
  <2> QED BY <2>1, <2>2, <2>3, <2>4, <2>5 DEF SpawnNext
<1> QED BY <1>1, <1>2, PTL DEF SpawnSpec

(* An object's spawn point never overfills and its countdown runs exactly
   while one is missing; however triggers switch a creatures' spawn point, it
   holds one too many at most, and none that is on and may respawn stays
   empty (WorldObjectSpawner, CreatureSpawner). *)
THEOREM SpawnersAreKept == SpawnSpec => []SpawnersKept
<1>1. SpawnInv => ObjectsKept
  BY SpawnerAssumption DEF SpawnInv, ObjectsKept, Kept
<1>2. SpawnInv => AtMostOneTooMany
  BY DEF SpawnInv, AtMostOneTooMany, Kept, CreatureSpawner
<1>3. SpawnInv => EmptyIsRefilled
  BY DEF SpawnInv, EmptyIsRefilled, Kept
<1>4. SpawnInv => SpawnersKept
  BY <1>1, <1>2, <1>3 DEF SpawnersKept
<1> QED BY <1>4, SpawnPointsKept, PTL

(* The counters stay counters (the type of m_currentlySpawned is unsigned). *)
THEOREM SpawnTypeCorrect == SpawnSpec => []SpawnTypeOK
<1>1. SpawnInv => SpawnTypeOK
  BY DEF SpawnInv
<1> QED BY <1>1, SpawnPointsKept, PTL

-----------------------------------------------------------------------------
(* Loot and loot dialogs. *)

Handed == [items : SUBSET LootSlot, gold : BOOLEAN, twice : BOOLEAN]
Faults == {"none", "division", "dangling"}

\* A source with its loot r.
Sound(s, r) ==
  /\ r \in LootRecord /\ r.looted \subseteq r.items
  /\ s \in Corpse => (r.lootable <=> r.there /\ ~EmptyLoot(r))
\* What a source with loot r has handed out is g.
MarkedAs(r, g) ==
  /\ ~g.twice
  /\ r.there => g.items \subseteq r.looted /\ (g.gold => r.gold = 0)
\* A dialog of p that shows loot r of s.
Shown(p, s, r) ==
  /\ p \in inWorld /\ ~EmptyLoot(r)
  /\ r.there \/ s \in Box
  /\ s \in Box => OwnerOf[s] = p

LootInv ==
  /\ loot \in [Source -> LootRecord] /\ dialog \in [Looter -> Source \union {NoSource}]
  /\ inWorld \subseteq Looter /\ given \in [Corpse \union Chest -> Handed] /\ fault \in Faults
  /\ \A s \in Source : Sound(s, loot[s])
  /\ \A s \in Corpse \union Chest : MarkedAs(loot[s], given[s])
  /\ \A p \in Looter : dialog[p] # NoSource => Shown(p, dialog[p], loot[dialog[p]])

-----------------------------------------------------------------------------
(* Records of loot. *)

(* What no source holds is a record of the type. *)
LEMMA NoLootIsRecord ==
  NoLoot \in LootRecord /\ NoLoot.looted = {} /\ NoLoot.items = {} /\ ~NoLoot.there /\ ~NoLoot.lootable
  BY LootAssumption DEF NoLoot, LootRecord

(* Whoever rolls loot gets a record of the type. *)
LEMMA RolledIsRecord ==
  ASSUME NEW items \in SUBSET LootSlot, NEW gold \in Golds, NEW recipients \in SUBSET Looter
  PROVE  /\ Rolled(items, gold, recipients) \in LootRecord
         /\ Rolled(items, gold, recipients).looted = {}
         /\ Rolled(items, gold, recipients).there /\ ~Rolled(items, gold, recipients).lootable
  BY LootAssumption DEF Rolled, NoLoot, LootRecord

(* Emptiness is about money, items and shares only. *)
LEMMA SameContent ==
  ASSUME NEW r, NEW q, r.gold = q.gold, r.items = q.items, r.looted = q.looted,
         r.shares = q.shares, r.recipients = q.recipients
  PROVE  EmptyLoot(r) <=> EmptyLoot(q)
  BY DEF EmptyLoot

(* takeItem marks the item, or the share, and nothing else. *)
LEMMA ItemTakenMarks ==
  ASSUME NEW r \in LootRecord, r.looted \subseteq r.items, NEW p \in Looter, NEW i \in r.items \ r.looted
  PROVE  LET t == ItemTaken(r, i, p)
         IN  /\ t \in LootRecord /\ t.looted \subseteq t.items /\ r.looted \subseteq t.looted
             /\ t.gold = r.gold /\ (t.there <=> r.there) /\ (t.lootable <=> r.lootable)
             /\ i \notin SharedSlot => t.looted = r.looted \union {i}
<1>1. i \in LootSlot
  BY DEF LootRecord
<1>2. CASE i \in SharedSlot
  <2> DEFINE t == [r EXCEPT !.shares[i] = @ \union {p}]
  <2>1. t \in LootRecord
    BY <1>2 DEF LootRecord
  <2>2. t.looted = r.looted /\ t.items = r.items /\ t.gold = r.gold
    BY DEF LootRecord
  <2>3. (t.there <=> r.there) /\ (t.lootable <=> r.lootable)
    BY DEF LootRecord
  <2>4. ItemTaken(r, i, p) = t
    BY <1>2 DEF ItemTaken
  <2> HIDE DEF t
  <2> QED BY <2>1, <2>2, <2>3, <2>4, <1>2
<1>3. CASE i \notin SharedSlot
  <2> DEFINE t == [r EXCEPT !.looted = @ \union {i}]
  <2>1. t \in LootRecord
    BY <1>1 DEF LootRecord
  <2>2. t.looted = r.looted \union {i} /\ t.items = r.items /\ t.gold = r.gold
    BY DEF LootRecord
  <2>3. (t.there <=> r.there) /\ (t.lootable <=> r.lootable)
    BY DEF LootRecord
  <2>4. ItemTaken(r, i, p) = t
    BY <1>3 DEF ItemTaken
  <2> HIDE DEF t
  <2> QED BY <2>1, <2>2, <2>3, <2>4
<1> QED BY <1>2, <1>3

(* takeGold takes the money and nothing else. *)
LEMMA GoldTakenAll ==
  ASSUME NEW r \in LootRecord
  PROVE  LET t == GoldTaken(r)
         IN  /\ t \in LootRecord /\ t.looted = r.looted /\ t.items = r.items
             /\ t.gold = 0 /\ (t.there <=> r.there) /\ (t.lootable <=> r.lootable)
<1> DEFINE t == GoldTaken(r)
<1>1. t \in LootRecord
  BY LootAssumption DEF GoldTaken, LootRecord
<1>2. t.looted = r.looted /\ t.items = r.items /\ t.gold = 0
  BY DEF GoldTaken, LootRecord
<1>3. (t.there <=> r.there) /\ (t.lootable <=> r.lootable)
  BY DEF GoldTaken, LootRecord
<1> QED BY <1>1, <1>2, <1>3

(* Loot that was cleared is sound: a corpse loses its mark, everything else
   is gone. *)
LEMMA ClearedIsSound ==
  ASSUME NEW s \in Source, NEW r \in LootRecord, r.looted \subseteq r.items, EmptyLoot(r)
  PROVE  /\ Sound(s, Cleared(s, r))
         /\ s \in Corpse => Cleared(s, r).looted = r.looted /\ Cleared(s, r).gold = r.gold
         /\ s \notin Corpse => ~Cleared(s, r).there
<1>1. CASE s \in Corpse
  <2> DEFINE t == [r EXCEPT !.lootable = FALSE]
  <2>1. t \in LootRecord
    BY DEF LootRecord
  <2>2. t.looted = r.looted /\ t.items = r.items /\ t.gold = r.gold /\ t.shares = r.shares /\ t.recipients = r.recipients
    BY DEF LootRecord
  <2>3. ~t.lootable
    BY DEF LootRecord
  <2>4. Cleared(s, r) = t
    BY <1>1 DEF Cleared
  <2> HIDE DEF t
  <2>5. EmptyLoot(t)
    BY <2>2, SameContent
  <2> QED BY <1>1, <2>1, <2>2, <2>3, <2>4, <2>5 DEF Sound
<1>2. CASE s \notin Corpse
  BY <1>2, NoLootIsRecord DEF Cleared, Sound
<1> QED BY <1>1, <1>2

-----------------------------------------------------------------------------
(* Steps. *)

(* Taking something: whoever looks into the loot may be left with nothing,
   and then everyone's dialog is closed in the same step. *)
LEMMA LeftKeeps ==
  ASSUME LootInv, NEW p \in Looter, NEW s \in Source, dialog[p] = s,
         NEW r \in LootRecord, r.looted \subseteq r.items,
         r.there <=> loot[s].there, r.lootable <=> loot[s].lootable,
         Left(s, r, p), UNCHANGED <<inWorld, fault>>,
         given' \in [Corpse \union Chest -> Handed],
         \A t \in Corpse \union Chest : t # s => given'[t] = given[t],
         s \notin Box => MarkedAs(r, given'[s])
  PROVE  LootInv'
<1>1. Shown(p, s, loot[s]) /\ s # NoSource
  BY LootAssumption DEF LootInv, Source
<1>2. r.there \/ s \in Box
  BY <1>1 DEF Shown
<1>3. s \in Corpse => loot[s].lootable
  BY <1>1, LootAssumption DEF LootInv, Sound, Shown, Source
<1>4. CASE EmptyLoot(r)
  <2>1. /\ loot' = [loot EXCEPT ![s] = Cleared(s, r)]
        /\ dialog' = Closed(Viewers(s))
    BY <1>4 DEF Left
  <2>2. loot' \in [Source -> LootRecord] /\ \A t \in Source : Sound(t, loot'[t])
    BY <2>1, <1>4, ClearedIsSound DEF LootInv, Sound
  <2>3. dialog' \in [Looter -> Source \union {NoSource}]
    BY <2>1 DEF LootInv, Closed
  <2>4. \A t \in Corpse \union Chest : MarkedAs(loot'[t], given'[t])
    <3> TAKE t \in Corpse \union Chest
    <3>1. CASE t # s
      BY <3>1, <2>1 DEF LootInv, Source
    <3>2. CASE t = s
      <4>1. loot'[t] = Cleared(s, r)
        BY <2>1, <3>2 DEF LootInv
      <4>2. s \notin Box
        BY <3>2, LootAssumption
      <4>3. MarkedAs(r, given'[s])
        BY <4>2
      <4> QED BY <4>1, <4>3, <3>2, <1>4, <1>2, <4>2, ClearedIsSound DEF MarkedAs
    <3> QED BY <3>1, <3>2
  <2>5. \A q \in Looter : dialog'[q] # NoSource => dialog'[q] = dialog[q] /\ dialog[q] # s
    BY <2>1 DEF Closed, Viewers
  <2>6. \A q \in Looter : (dialog[q] # NoSource => Shown(q, dialog[q], loot[dialog[q]]))'
    <3> SUFFICES ASSUME NEW q \in Looter, dialog'[q] # NoSource
                 PROVE  Shown(q, dialog[q], loot[dialog[q]])'
      OBVIOUS
    <3>1. Shown(q, dialog[q], loot[dialog[q]]) /\ loot'[dialog[q]] = loot[dialog[q]]
      BY <2>1, <2>5 DEF LootInv
    <3> QED BY <3>1, <2>5 DEF Shown
  <2> QED BY <2>2, <2>3, <2>4, <2>6 DEF LootInv
<1>5. CASE ~EmptyLoot(r)
  <2>1. loot' = [loot EXCEPT ![s] = r] /\ dialog' = dialog
    BY <1>5 DEF Left, Closed, LootInv
  <2>2. Sound(s, r)
    BY <1>2, <1>3, <1>5, LootAssumption DEF Sound
  <2>3. loot' \in [Source -> LootRecord] /\ \A t \in Source : Sound(t, loot'[t])
    BY <2>1, <2>2 DEF LootInv
  <2>4. \A t \in Corpse \union Chest : MarkedAs(loot'[t], given'[t])
    BY <2>1, LootAssumption DEF LootInv, Source
  <2>5. \A q \in Looter : (dialog[q] # NoSource => Shown(q, dialog[q], loot[dialog[q]]))'
    <3> SUFFICES ASSUME NEW q \in Looter, dialog'[q] # NoSource
                 PROVE  Shown(q, dialog[q], loot[dialog[q]])'
      OBVIOUS
    <3>1. Shown(q, dialog[q], loot[dialog[q]])
      BY <2>1 DEF LootInv
    <3>2. CASE dialog[q] = s
      BY <3>1, <3>2, <2>1, <1>2, <1>5 DEF LootInv, Shown
    <3>3. CASE dialog[q] # s
      BY <3>1, <3>3, <2>1 DEF LootInv, Shown
    <3> QED BY <3>2, <3>3
  <2> QED BY <2>1, <2>3, <2>4, <2>5 DEF LootInv
<1> QED BY <1>4, <1>5

(* A source nobody looks into changes as a whole. *)
LEMMA UnseenChanges ==
  ASSUME LootInv, NEW s \in Source, \A p \in Looter : dialog[p] # s, NEW r, Sound(s, r),
         loot' = [loot EXCEPT ![s] = r], UNCHANGED <<dialog, inWorld, fault>>,
         given' \in [Corpse \union Chest -> Handed],
         \A t \in Corpse \union Chest : t # s => given'[t] = given[t],
         s \notin Box => MarkedAs(r, given'[s])
  PROVE  LootInv'
<1>1. loot' \in [Source -> LootRecord] /\ \A t \in Source : Sound(t, loot'[t])
  BY DEF LootInv, Sound
<1>2. \A t \in Corpse \union Chest : MarkedAs(loot'[t], given'[t])
  BY LootAssumption DEF LootInv, Source
<1>3. \A q \in Looter : (dialog[q] # NoSource => Shown(q, dialog[q], loot[dialog[q]]))'
  <2> SUFFICES ASSUME NEW q \in Looter, dialog'[q] # NoSource
               PROVE  Shown(q, dialog[q], loot[dialog[q]])'
    OBVIOUS
  <2>1. Shown(q, dialog[q], loot[dialog[q]]) /\ loot'[dialog[q]] = loot[dialog[q]]
    BY DEF LootInv
  <2> QED BY <2>1 DEF Shown
<1> QED BY <1>1, <1>2, <1>3 DEF LootInv

(* Nobody looks into a corpse or chest that is not there. *)
LEMMA GoneIsUnseen ==
  ASSUME LootInv, NEW s \in Corpse \union Chest, ~loot[s].there
  PROVE  \A p \in Looter : dialog[p] # s
<1> SUFFICES ASSUME NEW p \in Looter, dialog[p] = s PROVE FALSE
  OBVIOUS
<1>1. s # NoSource /\ s \notin Box
  BY LootAssumption DEF Source
<1> QED BY <1>1 DEF LootInv, Shown

(* Nothing was handed out of a source that has just come. *)
LEMMA NothingHanded == Nothing \in Handed /\ \A r : MarkedAs(r, Nothing)
  BY DEF Nothing, Handed, MarkedAs

LEMMA CreatureDiesKeeps ==
  ASSUME LootInv, NEW c \in Corpse, NEW T \in SUBSET Looter, CreatureDies(c, T)
  PROVE  LootInv'
<1>1. PICK items \in SUBSET MayHold[c], gold \in Golds :
        LET r == Rolled(items, gold, T \intersect inWorld)
        IN  loot' = [loot EXCEPT ![c] =
              IF EmptyLoot(r) THEN [NoLoot EXCEPT !.there = TRUE, !.tagged = T]
              ELSE [r EXCEPT !.tagged = T, !.lootable = TRUE]]
  BY DEF CreatureDies
<1> DEFINE r == Rolled(items, gold, T \intersect inWorld)
           e == [NoLoot EXCEPT !.there = TRUE, !.tagged = T]
           f == [r EXCEPT !.tagged = T, !.lootable = TRUE]
<1>2. c \in Source /\ c \notin Box /\ items \in SUBSET LootSlot /\ T \intersect inWorld \in SUBSET Looter
  BY LootAssumption DEF Source
<1>3. r \in LootRecord /\ r.looted = {} /\ r.there
  BY <1>2, RolledIsRecord
<1>4. Sound(c, e)
  <2>1. e \in LootRecord
    BY NoLootIsRecord DEF LootRecord
  <2>2. e.looted = {} /\ e.items = {} /\ e.gold = 0 /\ ~e.lootable
    BY DEF NoLoot
  <2>3. EmptyLoot(e)
    BY <2>2 DEF EmptyLoot
  <2> HIDE DEF e
  <2> QED BY <2>1, <2>2, <2>3 DEF Sound
<1>5. ASSUME ~EmptyLoot(r) PROVE Sound(c, f)
  <2> HIDE DEF r
  <2>1. f \in LootRecord
    BY <1>3 DEF LootRecord
  <2>2. f.looted = r.looted /\ f.items = r.items /\ f.gold = r.gold /\ f.shares = r.shares /\ f.recipients = r.recipients
    BY <1>3 DEF LootRecord
  <2>3. f.lootable /\ f.there
    BY <1>3 DEF LootRecord
  <2> HIDE DEF f
  <2>4. ~EmptyLoot(f)
    BY <2>2, <1>5, SameContent
  <2> QED BY <1>3, <2>1, <2>2, <2>3, <2>4 DEF Sound
<1>6. ~loot[c].there /\ given' = [given EXCEPT ![c] = Nothing] /\ UNCHANGED <<dialog, inWorld, fault>>
  BY DEF CreatureDies
<1>7. \A p \in Looter : dialog[p] # c
  BY <1>6, GoneIsUnseen
<1>8. given' \in [Corpse \union Chest -> Handed] /\ given'[c] = Nothing
      /\ \A t \in Corpse \union Chest : t # c => given'[t] = given[t]
  BY <1>6, NothingHanded DEF LootInv
<1>9. CASE EmptyLoot(r)
  <2>1. loot' = [loot EXCEPT ![c] = e]
    BY <1>1, <1>9
  <2> HIDE DEF e, r
  <2> QED BY <2>1, <1>2, <1>4, <1>6, <1>7, <1>8, NothingHanded, UnseenChanges
<1>10. CASE ~EmptyLoot(r)
  <2>1. loot' = [loot EXCEPT ![c] = f]
    BY <1>1, <1>10
  <2>2. Sound(c, f)
    BY <1>5, <1>10
  <2> HIDE DEF f, r
  <2> QED BY <2>1, <2>2, <1>2, <1>6, <1>7, <1>8, NothingHanded, UnseenChanges
<1> QED BY <1>9, <1>10

LEMMA DespawnKeeps ==
  ASSUME LootInv, NEW s \in Source, Despawn(s)
  PROVE  LootInv'
<1>1. /\ s \in Corpse \union Chest /\ s \notin Box
      /\ loot' = [loot EXCEPT ![s] = NoLoot] /\ given' = [given EXCEPT ![s] = Nothing]
      /\ dialog' = Closed(Viewers(s)) /\ UNCHANGED <<inWorld, fault>>
  BY LootAssumption DEF Despawn
<1>2. Sound(s, NoLoot)
  BY NoLootIsRecord DEF Sound
<1>3. loot' \in [Source -> LootRecord] /\ \A t \in Source : Sound(t, loot'[t])
  BY <1>1, <1>2 DEF LootInv, Sound
<1>4. given' \in [Corpse \union Chest -> Handed] /\ \A t \in Corpse \union Chest : MarkedAs(loot'[t], given'[t])
  BY <1>1, NothingHanded DEF LootInv, Source
<1>5. dialog' \in [Looter -> Source \union {NoSource}]
  BY <1>1 DEF LootInv, Closed
<1>6. \A q \in Looter : dialog'[q] # NoSource => dialog'[q] = dialog[q] /\ dialog[q] # s
  BY <1>1 DEF Closed, Viewers
<1>7. \A q \in Looter : (dialog[q] # NoSource => Shown(q, dialog[q], loot[dialog[q]]))'
  <2> SUFFICES ASSUME NEW q \in Looter, dialog'[q] # NoSource
               PROVE  Shown(q, dialog[q], loot[dialog[q]])'
    OBVIOUS
  <2>1. Shown(q, dialog[q], loot[dialog[q]]) /\ loot'[dialog[q]] = loot[dialog[q]]
    BY <1>1, <1>6 DEF LootInv
  <2> QED BY <2>1, <1>1, <1>6 DEF Shown
<1> QED BY <1>1, <1>3, <1>4, <1>5, <1>7 DEF LootInv

LEMMA ChestSpawnsKeeps ==
  ASSUME LootInv, NEW h \in Chest, ChestSpawns(h)
  PROVE  LootInv'
<1>1. PICK items \in SUBSET MayHold[h] : loot' = [loot EXCEPT ![h] = Rolled(items, 0, {})]
  BY DEF ChestSpawns
<1>2. h \in Source /\ h \notin Box /\ h \notin Corpse /\ items \in SUBSET LootSlot /\ 0 \in Golds
  BY LootAssumption DEF Source
<1>3. Sound(h, Rolled(items, 0, {}))
  BY <1>2, RolledIsRecord DEF Sound
<1>4. ~loot[h].there /\ given' = [given EXCEPT ![h] = Nothing] /\ UNCHANGED <<dialog, inWorld, fault>>
  BY DEF ChestSpawns
<1>5. \A p \in Looter : dialog[p] # h
  BY <1>4, GoneIsUnseen
<1>6. given' \in [Corpse \union Chest -> Handed] /\ given'[h] = Nothing
      /\ \A t \in Corpse \union Chest : t # h => given'[t] = given[t]
  BY <1>4, NothingHanded DEF LootInv
<1> QED BY <1>1, <1>2, <1>3, <1>4, <1>5, <1>6, NothingHanded, UnseenChanges

LEMMA ReceiveBoxKeeps ==
  ASSUME LootInv, NEW b \in Box, ReceiveBox(b)
  PROVE  LootInv'
<1>1. PICK items \in SUBSET MayHold[b], gold \in Golds : loot' = [loot EXCEPT ![b] = Rolled(items, gold, {})]
  BY DEF ReceiveBox
<1>2. b \in Source /\ b \notin Corpse \union Chest /\ items \in SUBSET LootSlot
  BY LootAssumption DEF Source
<1>3. Sound(b, Rolled(items, gold, {}))
  BY <1>2, RolledIsRecord DEF Sound
<1>4. Viewers(b) = {} /\ UNCHANGED <<dialog, inWorld, given, fault>>
  BY DEF ReceiveBox
<1>5. \A p \in Looter : dialog[p] # b
  BY <1>4 DEF Viewers
<1> QED BY <1>1, <1>2, <1>3, <1>4, <1>5, UnseenChanges DEF LootInv

LEMMA RemoveBoxKeeps ==
  ASSUME LootInv, NEW b \in Box, RemoveBox(b)
  PROVE  LootInv'
<1>1. b \in Source /\ b \notin Corpse \union Chest /\ loot[b] \in LootRecord
  BY LootAssumption DEF Source, LootInv
<1>2. UNCHANGED <<dialog, inWorld, given, fault>>
  BY DEF RemoveBox
<1>3. CASE Viewers(b) = {}
  <2>1. loot' = [loot EXCEPT ![b] = NoLoot]
    BY <1>3 DEF RemoveBox
  <2>2. Sound(b, NoLoot)
    BY NoLootIsRecord DEF Sound
  <2>3. \A p \in Looter : dialog[p] # b
    BY <1>3 DEF Viewers
  <2> QED BY <2>1, <2>2, <2>3, <1>1, <1>2, UnseenChanges DEF LootInv
<1>4. CASE Viewers(b) # {}
  <2> DEFINE r == [loot[b] EXCEPT !.there = FALSE]
  <2>1. loot' = [loot EXCEPT ![b] = r]
    BY <1>4 DEF RemoveBox
  <2>2. r \in LootRecord
    BY <1>1 DEF LootRecord
  <2>3. /\ r.looted = loot[b].looted /\ r.items = loot[b].items /\ r.gold = loot[b].gold
        /\ r.shares = loot[b].shares /\ r.recipients = loot[b].recipients
    BY <1>1 DEF LootRecord
  <2> HIDE DEF r
  <2>4. EmptyLoot(r) <=> EmptyLoot(loot[b])
    BY <2>3, SameContent
  <2>5. Sound(b, r)
    BY <1>1, <2>2, <2>3 DEF Sound, LootInv
  <2>6. loot' \in [Source -> LootRecord] /\ \A t \in Source : Sound(t, loot'[t])
    BY <2>1, <2>2, <2>5 DEF LootInv
  <2>7. \A t \in Corpse \union Chest : MarkedAs(loot'[t], given'[t])
    BY <1>1, <1>2, <2>1 DEF LootInv, Source
  <2>8. \A q \in Looter : (dialog[q] # NoSource => Shown(q, dialog[q], loot[dialog[q]]))'
    <3> SUFFICES ASSUME NEW q \in Looter, dialog'[q] # NoSource
                 PROVE  Shown(q, dialog[q], loot[dialog[q]])'
      OBVIOUS
    <3>1. Shown(q, dialog[q], loot[dialog[q]])
      BY <1>2 DEF LootInv
    <3>2. CASE dialog[q] = b
      BY <3>1, <3>2, <2>1, <2>4, <1>1, <1>2 DEF LootInv, Shown
    <3>3. CASE dialog[q] # b
      BY <3>1, <3>3, <2>1, <1>2 DEF LootInv, Shown
    <3> QED BY <3>2, <3>3
  <2> QED BY <1>2, <2>6, <2>7, <2>8 DEF LootInv
<1> QED BY <1>3, <1>4

LEMMA OpenLootDialogKeeps ==
  ASSUME LootInv, NEW p \in Looter, NEW s \in Source, OpenLootDialog(p, s)
  PROVE  LootInv'
<1>1. /\ p \in inWorld /\ loot[s].there /\ ~EmptyLoot(loot[s])
      /\ dialog' = [dialog EXCEPT ![p] = s] /\ UNCHANGED <<loot, inWorld, given, fault>>
  BY DEF OpenLootDialog
<1>2. s \in Box => OwnerOf[s] = p
  <2> SUFFICES ASSUME s \in Box PROVE OwnerOf[s] = p
    OBVIOUS
  <2>1. s \notin Corpse
    BY LootAssumption
  <2>2. MayOpen(p, s)
    BY DEF OpenLootDialog
  <2> QED BY <2>1, <2>2 DEF MayOpen
<1>3. \A q \in Looter : (dialog[q] # NoSource => Shown(q, dialog[q], loot[dialog[q]]))'
  <2> SUFFICES ASSUME NEW q \in Looter, dialog'[q] # NoSource
               PROVE  Shown(q, dialog[q], loot[dialog[q]])'
    OBVIOUS
  <2>1. CASE q = p
    <3>1. dialog'[q] = s
      BY <2>1, <1>1 DEF LootInv
    <3> QED BY <3>1, <2>1, <1>1, <1>2 DEF Shown
  <2>2. CASE q # p
    <3>1. dialog'[q] = dialog[q]
      BY <2>2, <1>1 DEF LootInv
    <3>2. Shown(q, dialog[q], loot[dialog[q]])
      BY <3>1 DEF LootInv
    <3> QED BY <3>1, <3>2, <1>1 DEF Shown
  <2> QED BY <2>1, <2>2
<1> QED BY <1>1, <1>3 DEF LootInv, Sound, MarkedAs

LEMMA AutoStoreLootItemKeeps ==
  ASSUME LootInv, NEW p \in Looter, NEW i \in LootSlot, AutoStoreLootItem(p, i)
  PROVE  LootInv'
<1> DEFINE s == dialog[p]
           r == ItemTaken(loot[s], i, p)
<1>1. /\ s # NoSource /\ i \in loot[s].items \ loot[s].looted
      /\ given' = IF s \in Box \/ i \in SharedSlot THEN given
                  ELSE [given EXCEPT ![s].items = @ \union {i}, ![s].twice = @ \/ i \in given[s].items]
      /\ Left(s, r, p) /\ UNCHANGED <<inWorld, fault>>
  BY DEF AutoStoreLootItem
<1>2. s \in Source /\ loot[s] \in LootRecord /\ loot[s].looted \subseteq loot[s].items /\ Shown(p, s, loot[s])
  BY <1>1 DEF LootInv, Sound
<1>3. /\ r \in LootRecord /\ r.looted \subseteq r.items /\ loot[s].looted \subseteq r.looted
      /\ r.gold = loot[s].gold /\ (r.there <=> loot[s].there) /\ (r.lootable <=> loot[s].lootable)
      /\ i \notin SharedSlot => r.looted = loot[s].looted \union {i}
  BY <1>1, <1>2, ItemTakenMarks
<1> HIDE DEF r
<1>4. CASE s \in Box \/ i \in SharedSlot
  <2>1. given' = given
    BY <1>1, <1>4
  <2>2. s \notin Box => MarkedAs(r, given'[s])
    <3> SUFFICES ASSUME s \notin Box PROVE MarkedAs(r, given[s])
      BY <2>1
    <3>1. MarkedAs(loot[s], given[s])
      BY <1>2 DEF LootInv, Source
    <3> QED BY <3>1, <1>3 DEF MarkedAs
  <2>3. given' \in [Corpse \union Chest -> Handed]
    BY <2>1 DEF LootInv
  <2> HIDE DEF s
  <2> QED BY <1>1, <1>2, <1>3, <2>1, <2>2, <2>3, LeftKeeps DEF s
<1>5. CASE s \notin Box /\ i \notin SharedSlot
  <2> DEFINE g == [given[s] EXCEPT !.items = @ \union {i}, !.twice = @ \/ i \in given[s].items]
  <2>1. s \in Corpse \union Chest /\ loot[s].there /\ given[s] \in Handed /\ MarkedAs(loot[s], given[s])
    BY <1>2, <1>5 DEF LootInv, Source, Shown
  <2>2. given' = [given EXCEPT ![s] = g]
    BY <1>1, <1>5
  <2>3. i \notin given[s].items /\ ~given[s].twice
    BY <2>1, <1>1 DEF MarkedAs
  <2>4. g \in Handed
    BY <2>1 DEF Handed
  <2>5. ~g.twice
    BY <2>1, <2>3 DEF Handed
  <2>6. g.items = given[s].items \union {i} /\ (g.gold <=> given[s].gold)
    BY <2>1 DEF Handed
  <2> HIDE DEF g
  <2>7. MarkedAs(r, g)
    BY <2>1, <2>5, <2>6, <1>3, <1>5 DEF MarkedAs
  <2>8. given'[s] = g /\ given' \in [Corpse \union Chest -> Handed]
        /\ \A t \in Corpse \union Chest : t # s => given'[t] = given[t]
    BY <2>1, <2>2, <2>4 DEF LootInv
  <2> HIDE DEF s
  <2> QED BY <1>1, <1>2, <1>3, <2>7, <2>8, LeftKeeps DEF s
<1> QED BY <1>4, <1>5

LEMMA LootMoneyKeeps ==
  ASSUME LootInv, NEW p \in Looter, LootMoney(p)
  PROVE  LootInv'
<1> DEFINE s == dialog[p]
           r == GoldTaken(loot[s])
<1>1. s # NoSource /\ loot[s].gold > 0
  BY DEF LootMoney
<1>2. s \in Source /\ loot[s] \in LootRecord /\ loot[s].looted \subseteq loot[s].items /\ Shown(p, s, loot[s])
  BY <1>1 DEF LootInv, Sound
<1>3. CASE UNCHANGED <<loot, dialog, inWorld, given>> /\ fault' \in Faults
  BY <1>3 DEF LootInv, Sound, MarkedAs, Shown
<1>4. CASE /\ given' = IF s \in Box THEN given
                        ELSE [given EXCEPT ![s].gold = TRUE, ![s].twice = @ \/ given[s].gold]
           /\ Left(s, r, p) /\ UNCHANGED <<inWorld, fault>>
  <2>1. /\ r \in LootRecord /\ r.looted = loot[s].looted /\ r.items = loot[s].items
        /\ r.gold = 0 /\ (r.there <=> loot[s].there) /\ (r.lootable <=> loot[s].lootable)
    BY <1>2, GoldTakenAll
  <2> HIDE DEF r
  <2>2. CASE s \in Box
    <3>1. given' = given /\ given' \in [Corpse \union Chest -> Handed]
      BY <1>4, <2>2 DEF LootInv
    <3> HIDE DEF s
    <3> QED BY <1>2, <1>4, <2>1, <2>2, <3>1, LeftKeeps DEF s
  <2>3. CASE s \notin Box
    <3> DEFINE g == [given[s] EXCEPT !.gold = TRUE, !.twice = @ \/ given[s].gold]
    <3>1. s \in Corpse \union Chest /\ loot[s].there /\ given[s] \in Handed /\ MarkedAs(loot[s], given[s])
      BY <1>2, <2>3 DEF LootInv, Source, Shown
    <3>2. given' = [given EXCEPT ![s] = g]
      BY <1>4, <2>3
    <3>3. ~given[s].gold /\ ~given[s].twice
      BY <3>1, <1>1 DEF MarkedAs
    <3>4. g \in Handed
      BY <3>1 DEF Handed
    <3>5. ~g.twice
      BY <3>1, <3>3 DEF Handed
    <3>6. g.items = given[s].items
      BY <3>1 DEF Handed
    <3> HIDE DEF g
    <3>7. MarkedAs(r, g)
      BY <3>1, <3>5, <3>6, <2>1 DEF MarkedAs
    <3>8. given'[s] = g /\ given' \in [Corpse \union Chest -> Handed]
          /\ \A t \in Corpse \union Chest : t # s => given'[t] = given[t]
      BY <3>1, <3>2, <3>4 DEF LootInv
    <3> HIDE DEF s
    <3> QED BY <1>2, <1>4, <2>1, <3>7, <3>8, LeftKeeps DEF s
  <2> QED BY <2>2, <2>3
<1> QED BY <1>3, <1>4 DEF LootMoney, Faults

LEMMA LootReleaseKeeps ==
  ASSUME LootInv, NEW p \in Looter, LootRelease(p)
  PROVE  LootInv'
<1>1. UNCHANGED <<loot, inWorld, given>> /\ fault' \in Faults
      /\ (dialog' = Closed({p}) \/ dialog' = dialog)
  BY DEF LootRelease, LootInv, Faults
<1>2. dialog' \in [Looter -> Source \union {NoSource}]
  BY <1>1 DEF LootInv, Closed
<1>3. \A q \in Looter : dialog'[q] # NoSource => dialog'[q] = dialog[q]
  BY <1>1 DEF Closed
<1>4. \A q \in Looter : (dialog[q] # NoSource => Shown(q, dialog[q], loot[dialog[q]]))'
  <2> SUFFICES ASSUME NEW q \in Looter, dialog'[q] # NoSource
               PROVE  Shown(q, dialog[q], loot[dialog[q]])'
    OBVIOUS
  <2>1. Shown(q, dialog[q], loot[dialog[q]]) /\ dialog'[q] = dialog[q]
    BY <1>3 DEF LootInv
  <2> QED BY <2>1, <1>1 DEF Shown
<1> QED BY <1>1, <1>2, <1>4 DEF LootInv, Sound, MarkedAs

LEMMA LeaveWorldKeeps ==
  ASSUME LootInv, NEW p \in Looter, LeaveWorld(p)
  PROVE  LootInv'
<1>1. /\ inWorld' = inWorld \ {p} /\ dialog' = [dialog EXCEPT ![p] = NoSource]
      /\ UNCHANGED <<loot, given, fault>>
  BY DEF LeaveWorld
<1>2. \A q \in Looter : (dialog[q] # NoSource => Shown(q, dialog[q], loot[dialog[q]]))'
  <2> SUFFICES ASSUME NEW q \in Looter, dialog'[q] # NoSource
               PROVE  Shown(q, dialog[q], loot[dialog[q]])'
    OBVIOUS
  <2>1. q # p /\ dialog'[q] = dialog[q]
    BY <1>1 DEF LootInv
  <2>2. Shown(q, dialog[q], loot[dialog[q]])
    BY <2>1 DEF LootInv
  <2> QED BY <2>1, <2>2, <1>1 DEF Shown
<1> QED BY <1>1, <1>2 DEF LootInv, Sound, MarkedAs

(* Its boxes are made anew; as it was away, nobody looked into them. *)
LEMMA EnterWorldKeeps ==
  ASSUME LootInv, NEW p \in Looter, EnterWorld(p)
  PROVE  LootInv'
<1>1. p \notin inWorld /\ inWorld' = inWorld \union {p} /\ UNCHANGED <<dialog, given, fault>>
  BY DEF EnterWorld
<1>2. PICK items \in [Box -> SUBSET LootSlot], gold \in [Box -> Golds] :
        /\ \A b \in Box : items[b] \subseteq MayHold[b]
        /\ loot' = [s \in Source |-> IF s \in Box /\ loot[s].there /\ OwnerOf[s] = p
                                      THEN Rolled(items[s], gold[s], {}) ELSE loot[s]]
  BY DEF EnterWorld
<1>3. \A s \in Source : Sound(s, loot'[s])
  <2> TAKE s \in Source
  <2>1. CASE s \in Box /\ loot[s].there /\ OwnerOf[s] = p
    <3>1. s \notin Corpse /\ loot'[s] = Rolled(items[s], gold[s], {})
      BY <2>1, <1>2, LootAssumption
    <3>2. items[s] \in SUBSET LootSlot /\ gold[s] \in Golds /\ {} \in SUBSET Looter
      BY <2>1
    <3>3. /\ Rolled(items[s], gold[s], {}) \in LootRecord
          /\ Rolled(items[s], gold[s], {}).looted = {}
      BY <3>2, RolledIsRecord
    <3> QED BY <3>1, <3>3 DEF Sound
  <2>2. CASE ~(s \in Box /\ loot[s].there /\ OwnerOf[s] = p)
    BY <2>2, <1>2 DEF LootInv
  <2> QED BY <2>1, <2>2
<1>4. loot' \in [Source -> LootRecord]
  BY <1>2, <1>3 DEF Sound
<1>5. \A t \in Corpse \union Chest : MarkedAs(loot'[t], given'[t])
  <2> TAKE t \in Corpse \union Chest
  <2>1. t \in Source /\ t \notin Box
    BY LootAssumption DEF Source
  <2>2. loot'[t] = loot[t]
    BY <2>1, <1>2
  <2> QED BY <2>2, <1>1 DEF LootInv
<1>6. \A q \in Looter : (dialog[q] # NoSource => Shown(q, dialog[q], loot[dialog[q]]))'
  <2> SUFFICES ASSUME NEW q \in Looter, dialog'[q] # NoSource
               PROVE  Shown(q, dialog[q], loot[dialog[q]])'
    OBVIOUS
  <2>1. dialog[q] \in Source /\ Shown(q, dialog[q], loot[dialog[q]])
    BY <1>1 DEF LootInv
  <2>2. loot'[dialog[q]] = loot[dialog[q]]
    BY <2>1, <1>1, <1>2 DEF Shown
  <2> QED BY <2>1, <2>2, <1>1 DEF Shown
<1> QED BY <1>1, <1>3, <1>4, <1>5, <1>6 DEF LootInv

-----------------------------------------------------------------------------

(* Types, dialogs, marks and what was handed out stay sound in every
   behaviour, for any number of characters and sources. *)
THEOREM LootSound == LootSpec => []LootInv
<1>1. LootInit => LootInv
  <2> SUFFICES ASSUME LootInit PROVE LootInv
    OBVIOUS
  <2>1. \A s \in Source : Sound(s, loot[s])
    BY NoLootIsRecord DEF LootInit, Sound
  <2>2. \A s \in Corpse \union Chest : MarkedAs(loot[s], given[s])
    BY NothingHanded DEF LootInit
  <2> QED BY <2>1, <2>2, NoLootIsRecord, NothingHanded DEF LootInit, LootInv, Faults
<1>2. LootInv /\ [LootNext]_lootVars => LootInv'
  <2> SUFFICES ASSUME LootInv, [LootNext]_lootVars PROVE LootInv'
    OBVIOUS
  <2>1. CASE UNCHANGED lootVars
    BY <2>1 DEF lootVars, LootInv, Sound, MarkedAs, Shown
  <2>2. CASE LootNext
    BY <2>2, CreatureDiesKeeps, DespawnKeeps, ChestSpawnsKeeps, ReceiveBoxKeeps, RemoveBoxKeeps,
       OpenLootDialogKeeps, AutoStoreLootItemKeeps, LootMoneyKeeps, LootReleaseKeeps,
       LeaveWorldKeeps, EnterWorldKeeps DEF LootNext
  <2> QED BY <2>1, <2>2
<1> QED BY <1>1, <1>2, PTL DEF LootSpec

(* The types of Loot. *)
THEOREM LootTypeCorrect == LootSpec => []LootTypeOK
<1>1. LootInv => LootTypeOK
  BY DEF LootInv, LootTypeOK, Sound, Handed, Faults
<1> QED BY <1>1, LootSound, PTL

(* Nobody looks into empty loot, or into loot whose corpse or chest is gone,
   and a corpse is lootable exactly while there is something to loot
   (LootInstance::cleared, closeLootDialog, CreatureAIDeathState::onEnter). *)
THEOREM LootIsShown == LootSpec => []LootShown
<1>1. LootInv => DialogShowsLoot
  BY DEF LootInv, DialogShowsLoot, Shown
<1>2. LootInv => LootableAgrees
  BY DEF LootInv, LootableAgrees, Sound, Source
<1>3. LootInv => LootShown
  BY <1>1, <1>2 DEF LootShown
<1> QED BY <1>3, LootSound, PTL

(* An item that is not shared and the money go to one player, whoever looks
   (takeItem, takeGold). *)
THEOREM NothingTwice == LootSpec => []HandedOutOnce
<1>1. LootInv => HandedOutOnce
  BY DEF LootInv, HandedOutOnce, MarkedAs
<1> QED BY <1>1, LootSound, PTL

-----------------------------------------------------------------------------
(* Creatures and characters in combat. *)

(* What is changed together. *)
Fray == [npc : [Creature -> Npc], char : [Unit -> Char], posted : Seq(Function)]

(* A creature that does not fight has no enemy, and its victim is one. *)
FoeFits(r) ==
  /\ r.state # "combat" => r.threat = {} /\ r.victim = NoUnit /\ ~r.armed
  /\ r.victim # NoUnit => r.victim \in r.threat
AllFoesFit(w) == \A c \in Creature : FoeFits(w.npc[c])
FoesKnown(w) == \A c \in Creature, u \in Unit : c \in w.char[u].attackers <=> u \in w.npc[c].threat
(* Enemies are there, but for those of S. *)
FoesThere(w, S) ==
  \A c \in Creature : \A u \in w.npc[c].threat \ S :
    w.char[u].here /\ w.char[u].alive /\ w.char[u].inCombat
(* Only a creature that fights will choose, and only for those that are there. *)
CallFits(w, f) ==
  /\ f.call = "choose" => w.npc[f.npc].state = "combat"
  /\ f.call = "assist" => f.unit \in Unit /\ w.char[f.unit].here
CallsFit(w) == \A i \in DOMAIN w.posted : CallFits(w, w.posted[i])
Orderly(w, S) == w \in Fray /\ AllFoesFit(w) /\ FoesKnown(w) /\ FoesThere(w, S) /\ CallsFit(w)

(* A choice of the creature is posted. *)
WillChoose(w, c) == \E i \in DOMAIN w.posted : w.posted[i].call = "choose" /\ w.posted[i].npc = c
(* Whoever fights has a reason to. *)
Reasoned(w, c) ==
  w.npc[c].state = "combat" /\ w.npc[c].threat = {} /\ w.npc[c].held = {} /\ w.npc[c].moves => WillChoose(w, c)
KillMarked(w, c) == w.npc[c].state = "death" => w.npc[c].tagged # {}

(* Handlers of one creature leave the others alone and nobody comes or dies. *)
Elsewhere(w, x, c) ==
  /\ \A d \in Creature \ {c} : x.npc[d] = w.npc[d] /\ (WillChoose(w, d) => WillChoose(x, d))
  /\ \A u \in Unit : x.char[u].here = w.char[u].here /\ x.char[u].alive = w.char[u].alive

(* The states of a creature that does not fight. *)
Peaceful == {"none", "prepare", "idle", "reset", "stranded", "death"}
(* w with r for the creature c. *)
WithNpc(w, c, r) == [w EXCEPT !.npc = [@ EXCEPT ![c] = r]]
(* onLeave with the state that follows. *)
LeftFor(w, c, state) == [LeaveCombat(w, c) EXCEPT !.npc[c].state = state]

(* It adds up. *)
LEMMA ElsewhereTwice ==
  ASSUME NEW w, NEW x, NEW y, NEW c \in Creature, Elsewhere(w, x, c), Elsewhere(x, y, c)
  PROVE  Elsewhere(w, y, c)
BY DEF Elsewhere

(* The parts of what is changed together. *)
LEMMA FrayParts ==
  ASSUME NEW w \in Fray
  PROVE  /\ w.npc \in [Creature -> Npc] /\ w.char \in [Unit -> Char] /\ w.posted \in Seq(Function)
         /\ \A c \in Creature : w.npc[c] \in Npc
         /\ \A u \in Unit : w.char[u] \in Char
         /\ \A i \in DOMAIN w.posted : w.posted[i] \in Function
BY DEF Fray

(* A change of one creature that keeps its enemies and goes on fighting. *)
LEMMA OwnChange ==
  ASSUME NEW w, NEW S, Orderly(w, S), NEW c \in Creature, NEW r \in Npc, FoeFits(r),
         w.npc[c].state = "combat" => r.state = "combat", r.threat = w.npc[c].threat
  PROVE  /\ Orderly(WithNpc(w, c, r), S) /\ Elsewhere(w, WithNpc(w, c, r), c) /\ WithNpc(w, c, r).npc[c] = r
         /\ WithNpc(w, c, r).char = w.char /\ WithNpc(w, c, r).posted = w.posted
<1> DEFINE x == WithNpc(w, c, r)
<1>1. w \in Fray
  BY DEF Orderly
<1>2. /\ x \in Fray /\ x.char = w.char /\ x.posted = w.posted /\ x.npc = [w.npc EXCEPT ![c] = r]
  BY <1>1 DEF Fray, WithNpc
<1> HIDE DEF x
<1>3. \A d \in Creature : x.npc[d] = IF d = c THEN r ELSE w.npc[d]
  BY <1>1, <1>2, FrayParts
<1>4. AllFoesFit(x)
  BY <1>3 DEF AllFoesFit, Orderly
<1>5. FoesKnown(x)
  BY <1>2, <1>3 DEF FoesKnown, Orderly
<1>6. FoesThere(x, S)
  BY <1>2, <1>3 DEF FoesThere, Orderly
<1>7. CallsFit(x)
  <2> SUFFICES ASSUME NEW i \in DOMAIN w.posted PROVE CallFits(x, w.posted[i])
    BY <1>2 DEF CallsFit
  <2>1. w.posted[i].npc \in Creature /\ CallFits(w, w.posted[i])
    BY <1>1, FrayParts DEF Orderly, CallsFit, Function
  <2> QED
    BY <1>2, <1>3, <2>1 DEF CallFits
<1>8. Elsewhere(w, x, c)
  BY <1>2, <1>3 DEF Elsewhere, WillChoose
<1> QED
  BY <1>2, <1>3, <1>4, <1>5, <1>6, <1>7, <1>8 DEF Orderly, x

(* The queue after a state's weak pointer has expired. *)
LEMMA ExpiredQueue ==
  ASSUME NEW q \in Seq(Function), NEW c \in Creature
  PROVE  /\ Expired(q, c) \in Seq(Function) /\ DOMAIN Expired(q, c) = DOMAIN q
         /\ \A i \in DOMAIN q : Expired(q, c)[i].npc = q[i].npc /\ Expired(q, c)[i].unit = q[i].unit
         /\ \A i \in DOMAIN q : Expired(q, c)[i].call =
              IF q[i].call = "choose" /\ q[i].npc = c THEN "expired" ELSE q[i].call
<1>1. Len(q) \in Nat /\ DOMAIN q = 1 .. Len(q) /\ \A i \in DOMAIN q : q[i] \in Function
  OBVIOUS
<1>2. \A f \in Function : /\ [f EXCEPT !.call = "expired"] \in Function
                          /\ [f EXCEPT !.call = "expired"].npc = f.npc
                          /\ [f EXCEPT !.call = "expired"].unit = f.unit
                          /\ [f EXCEPT !.call = "expired"].call = "expired"
  BY DEF Function
<1>3. DOMAIN Expired(q, c) = DOMAIN q
  BY DEF Expired
<1>4. \A i \in DOMAIN q : Expired(q, c)[i] = IF q[i].call = "choose" /\ q[i].npc = c
                                             THEN [q[i] EXCEPT !.call = "expired"] ELSE q[i]
  BY DEF Expired
<1>5. \A i \in DOMAIN q : Expired(q, c)[i] \in Function
  BY <1>1, <1>2, <1>4
<1>6. Expired(q, c) \in Seq(Function)
  <2>1. Expired(q, c) = [i \in 1 .. Len(q) |-> Expired(q, c)[i]]
    BY <1>1, <1>3 DEF Expired
  <2>2. \A i \in 1 .. Len(q) : Expired(q, c)[i] \in Function
    BY <1>1, <1>5
  <2>3. [i \in 1 .. Len(q) |-> Expired(q, c)[i]] \in Seq(Function)
    BY <1>1, <2>2
  <2> QED
    BY <2>1, <2>3
<1>7. ASSUME NEW i \in DOMAIN q
      PROVE  /\ Expired(q, c)[i].npc = q[i].npc /\ Expired(q, c)[i].unit = q[i].unit
             /\ Expired(q, c)[i].call = IF q[i].call = "choose" /\ q[i].npc = c THEN "expired" ELSE q[i].call
  <2>1. q[i] \in Function
    BY <1>1
  <2>2. Expired(q, c)[i].npc = q[i].npc
    BY <1>2, <1>4, <2>1
  <2>3. Expired(q, c)[i].unit = q[i].unit
    BY <1>2, <1>4, <2>1
  <2>4. Expired(q, c)[i].call = IF q[i].call = "choose" /\ q[i].npc = c THEN "expired" ELSE q[i].call
    <3>1. CASE q[i].call = "choose" /\ q[i].npc = c
      <4>1. Expired(q, c)[i] = [q[i] EXCEPT !.call = "expired"]
        BY <1>4, <3>1
      <4> QED
        BY <1>2, <2>1, <3>1, <4>1
    <3>2. CASE ~(q[i].call = "choose" /\ q[i].npc = c)
      <4>1. Expired(q, c)[i] = q[i]
        BY <1>4, <3>2
      <4> QED
        BY <3>2, <4>1
    <3> QED
      BY <3>1, <3>2
  <2> QED
    BY <2>2, <2>3, <2>4
<1> QED
  BY <1>3, <1>6, <1>7

(* Who is released. *)
LEMMA ReleasedChars ==
  ASSUME NEW w \in Fray, NEW c \in Creature
  PROVE  /\ Released(w, c) \in [Unit -> Char]
         /\ \A u \in Unit :
              LET r == Released(w, c)[u] IN
              /\ r.here = w.char[u].here /\ r.alive = w.char[u].alive
              /\ r.attackers = IF u \in w.npc[c].threat THEN w.char[u].attackers \ {c} ELSE w.char[u].attackers
              /\ w.char[u].inCombat /\ (u \notin w.npc[c].threat \/ w.char[u].attackers \ {c} # {}) => r.inCombat
<1>1. \A u \in Unit : w.char[u] \in Char /\ w.char \in [Unit -> Char]
  BY FrayParts
<1>2. ASSUME NEW u \in Unit
      PROVE  NotAttacked(w, u, c).char[u] =
               [w.char[u] EXCEPT !.attackers = w.char[u].attackers \ {c},
                                 !.inCombat = @ /\ (w.char[u].pvp \/ w.char[u].attackers \ {c} # {})]
  BY <1>1 DEF NotAttacked, Fray
<1>3. ASSUME NEW u \in Unit
      PROVE  /\ NotAttacked(w, u, c).char[u] \in Char
             /\ NotAttacked(w, u, c).char[u].here = w.char[u].here
             /\ NotAttacked(w, u, c).char[u].alive = w.char[u].alive
             /\ NotAttacked(w, u, c).char[u].attackers = w.char[u].attackers \ {c}
             /\ w.char[u].inCombat /\ w.char[u].attackers \ {c} # {} => NotAttacked(w, u, c).char[u].inCombat
  <2> DEFINE k == w.char[u]
  <2> DEFINE left == k.attackers \ {c}
  <2> DEFINE fights == k.inCombat /\ (k.pvp \/ left # {})
  <2>1. k \in Char /\ left \in SUBSET Creature /\ fights \in BOOLEAN
    BY <1>1 DEF Char
  <2>2. NotAttacked(w, u, c).char[u] = [k EXCEPT !.attackers = left, !.inCombat = fights]
    BY <1>2, <2>1 DEF Char
  <2>3. k.inCombat /\ left # {} => fights
    OBVIOUS
  <2> HIDE DEF left, fights, k
  <2>4. /\ [k EXCEPT !.attackers = left, !.inCombat = fights] \in Char
        /\ [k EXCEPT !.attackers = left, !.inCombat = fights].here = k.here
        /\ [k EXCEPT !.attackers = left, !.inCombat = fights].alive = k.alive
        /\ [k EXCEPT !.attackers = left, !.inCombat = fights].attackers = left
        /\ [k EXCEPT !.attackers = left, !.inCombat = fights].inCombat = fights
    BY <2>1 DEF Char
  <2> QED
    BY <2>2, <2>3, <2>4 DEF left, k
<1>4. \A u \in Unit : Released(w, c)[u] = IF u \in w.npc[c].threat THEN NotAttacked(w, u, c).char[u] ELSE w.char[u]
  BY DEF Released
<1>5. Released(w, c) \in [Unit -> Char]
  BY <1>1, <1>3 DEF Released
<1> QED
  BY <1>3, <1>4, <1>5

(* CreatureAICombatState::onLeave with the state that follows. *)
LEMMA LeavesCombat ==
  ASSUME NEW w, Orderly(w, {}), NEW c \in Creature, w.npc[c].state = "combat",
         NEW state \in Peaceful
  PROVE  /\ Orderly(LeftFor(w, c, state), {}) /\ Elsewhere(w, LeftFor(w, c, state), c)
         /\ LeftFor(w, c, state).npc[c].state = state /\ LeftFor(w, c, state).npc[c].threat = {}
         /\ LeftFor(w, c, state).npc[c].victim = NoUnit /\ ~LeftFor(w, c, state).npc[c].armed
         /\ LeftFor(w, c, state).npc[c].tagged = w.npc[c].tagged
         /\ LeftFor(w, c, state).npc[c].held = w.npc[c].held
         /\ LeftFor(w, c, state).npc[c].moves = w.npc[c].moves
<1> DEFINE x == LeftFor(w, c, state)
<1> DEFINE r == [w.npc[c] EXCEPT !.state = state, !.threat = {}, !.victim = NoUnit, !.armed = FALSE]
<1> DEFINE chars == Released(w, c)
<1> DEFINE queue == Expired(w.posted, c)
<1>1. w \in Fray /\ w.npc[c] \in Npc
  BY FrayParts DEF Orderly
<1>2. /\ r \in Npc /\ r.state = state /\ r.threat = {} /\ r.victim = NoUnit /\ ~r.armed /\ FoeFits(r)
      /\ r.tagged = w.npc[c].tagged /\ r.held = w.npc[c].held /\ r.moves = w.npc[c].moves
  BY <1>1 DEF Npc, FoeFits, Peaceful
<1>3. x = [npc |-> [w.npc EXCEPT ![c] = r], char |-> chars, posted |-> queue]
  <2> DEFINE m == [w.npc EXCEPT ![c].threat = {}, ![c].victim = NoUnit, ![c].armed = FALSE]
  <2>1. LeaveCombat(w, c) = [npc |-> m, char |-> chars, posted |-> queue]
    BY DEF LeaveCombat
  <2>2. w.npc \in [Creature -> Npc]
    BY <1>1, FrayParts
  <2>3. [m EXCEPT ![c].state = state] = [w.npc EXCEPT ![c] = r]
    BY <1>1, <2>2 DEF Npc
  <2> HIDE DEF m, r
  <2>4. x = [npc |-> [m EXCEPT ![c].state = state], char |-> chars, posted |-> queue]
    BY <2>1 DEF LeftFor
  <2> QED
    BY <2>3, <2>4
<1>4. chars \in [Unit -> Char] /\ queue \in Seq(Function)
  BY <1>1, ReleasedChars, ExpiredQueue, FrayParts
<1> HIDE DEF x, r, chars, queue
<1>5. x \in Fray /\ x.char = chars /\ x.posted = queue /\ x.npc = [w.npc EXCEPT ![c] = r]
  <2>1. x.char = chars /\ x.posted = queue /\ x.npc = [w.npc EXCEPT ![c] = r]
    BY <1>3
  <2>2. [w.npc EXCEPT ![c] = r] \in [Creature -> Npc]
    BY <1>1, <1>2, FrayParts
  <2> QED
    BY <1>3, <1>4, <2>1, <2>2 DEF Fray
<1>6. \A d \in Creature : x.npc[d] = IF d = c THEN r ELSE w.npc[d]
  BY <1>1, <1>5, FrayParts
<1>7. \A u \in Unit : /\ chars[u].here = w.char[u].here /\ chars[u].alive = w.char[u].alive
                      /\ chars[u].attackers = w.char[u].attackers \ {c}
                      /\ w.char[u].inCombat /\ (\E d \in Creature \ {c} : u \in w.npc[d].threat) => chars[u].inCombat
  <2> SUFFICES ASSUME NEW u \in Unit
               PROVE  /\ chars[u].here = w.char[u].here /\ chars[u].alive = w.char[u].alive
                      /\ chars[u].attackers = w.char[u].attackers \ {c}
                      /\ w.char[u].inCombat /\ (\E d \in Creature \ {c} : u \in w.npc[d].threat) => chars[u].inCombat
    OBVIOUS
  <2>1. /\ chars[u].here = w.char[u].here /\ chars[u].alive = w.char[u].alive
        /\ chars[u].attackers = IF u \in w.npc[c].threat THEN w.char[u].attackers \ {c} ELSE w.char[u].attackers
        /\ w.char[u].inCombat /\ (u \notin w.npc[c].threat \/ w.char[u].attackers \ {c} # {}) => chars[u].inCombat
    BY <1>1, ReleasedChars DEF chars
  <2>2. \A d \in Creature : d \in w.char[u].attackers <=> u \in w.npc[d].threat
    BY DEF Orderly, FoesKnown
  <2> QED
    BY <2>1, <2>2
<1>8. AllFoesFit(x)
  BY <1>2, <1>6 DEF AllFoesFit, Orderly
<1>9. FoesKnown(x)
  <2> SUFFICES ASSUME NEW d \in Creature, NEW u \in Unit
               PROVE  d \in x.char[u].attackers <=> u \in x.npc[d].threat
    BY DEF FoesKnown
  <2>1. d \in w.char[u].attackers <=> u \in w.npc[d].threat
    BY DEF FoesKnown, Orderly
  <2>2. x.char[u].attackers = w.char[u].attackers \ {c}
    BY <1>5, <1>7
  <2> QED
    BY <1>2, <1>6, <2>1, <2>2
<1>10. FoesThere(x, {})
  <2> SUFFICES ASSUME NEW d \in Creature, NEW u \in x.npc[d].threat
               PROVE  x.char[u].here /\ x.char[u].alive /\ x.char[u].inCombat
    BY DEF FoesThere
  <2>1. d # c /\ u \in w.npc[d].threat /\ u \in Unit
    <3>1. d # c /\ u \in w.npc[d].threat
      BY <1>2, <1>6
    <3>2. w.npc[d].threat \subseteq Unit
      BY <1>1, FrayParts DEF Npc
    <3> QED
      BY <3>1, <3>2
  <2>2. w.char[u].here /\ w.char[u].alive /\ w.char[u].inCombat
    BY <2>1 DEF Orderly, FoesThere
  <2> QED
    BY <1>5, <1>7, <2>1, <2>2
<1>11. /\ DOMAIN queue = DOMAIN w.posted
       /\ \A i \in DOMAIN w.posted :
            /\ queue[i].npc = w.posted[i].npc /\ queue[i].unit = w.posted[i].unit
            /\ queue[i].call = IF w.posted[i].call = "choose" /\ w.posted[i].npc = c THEN "expired" ELSE w.posted[i].call
  BY <1>1, ExpiredQueue, FrayParts DEF queue
<1>12. CallsFit(x)
  <2> SUFFICES ASSUME NEW i \in DOMAIN w.posted PROVE CallFits(x, queue[i])
    BY <1>5, <1>11 DEF CallsFit
  <2>1. w.posted[i].npc \in Creature /\ CallFits(w, w.posted[i])
    BY <1>1, FrayParts DEF Orderly, CallsFit, Function
  <2> QED
    BY <1>5, <1>6, <1>7, <1>11, <2>1 DEF CallFits
<1>13. Elsewhere(w, x, c)
  BY <1>5, <1>6, <1>7, <1>11 DEF Elsewhere, WillChoose
<1> QED
  BY <1>2, <1>5, <1>6, <1>8, <1>9, <1>10, <1>12, <1>13 DEF Orderly, x

(* setState to a state other than combat. *)
LEMMA StateSet ==
  ASSUME NEW w, Orderly(w, {}), NEW c \in Creature,
         NEW state \in Peaceful,
         NEW x, x = SetState(w, c, state)
  PROVE  /\ Orderly(x, {}) /\ Elsewhere(w, x, c)
         /\ x.npc[c].state = state /\ x.npc[c].threat = {} /\ x.npc[c].victim = NoUnit /\ ~x.npc[c].armed
         /\ x.npc[c].tagged = w.npc[c].tagged /\ x.npc[c].held = w.npc[c].held
         /\ x.npc[c].moves = w.npc[c].moves
<1>1. w \in Fray /\ w.npc[c] \in Npc /\ w.npc \in [Creature -> Npc] /\ FoeFits(w.npc[c])
  BY FrayParts DEF Orderly, AllFoesFit
<1>2. CASE w.npc[c].state = "combat"
  <2>1. x = LeftFor(w, c, state)
    BY <1>2 DEF SetState, LeftFor
  <2> QED
    BY <1>2, <2>1, LeavesCombat
<1>3. CASE w.npc[c].state # "combat"
  <2> DEFINE r == [w.npc[c] EXCEPT !.state = state]
  <2>1. /\ r \in Npc /\ r.state = state /\ r.threat = w.npc[c].threat /\ r.victim = w.npc[c].victim
        /\ r.armed = w.npc[c].armed /\ r.tagged = w.npc[c].tagged /\ r.held = w.npc[c].held
        /\ r.moves = w.npc[c].moves
    BY <1>1 DEF Npc, Peaceful
  <2>2. r.threat = {} /\ r.victim = NoUnit /\ ~r.armed
    BY <1>1, <1>3, <2>1 DEF FoeFits
  <2>3. x = WithNpc(w, c, r)
    BY <1>1, <1>3 DEF SetState, Fray, WithNpc
  <2> HIDE DEF r
  <2>4. FoeFits(r)
    BY <2>1, <2>2 DEF FoeFits
  <2>5. Orderly(x, {}) /\ Elsewhere(w, x, c) /\ x.npc[c] = r
    BY <1>3, <2>1, <2>3, <2>4, OwnChange
  <2> QED
    BY <2>1, <2>2, <2>5
<1> QED
  BY <1>2, <1>3

(* CreatureAI::reset *)
LEMMA GoesHome ==
  ASSUME NEW w, Orderly(w, {}), NEW c \in Creature, NEW x, x = Reset(w, c)
  PROVE  /\ Orderly(x, {}) /\ Elsewhere(w, x, c)
         /\ x.npc[c].state = "reset" /\ x.npc[c].tagged = w.npc[c].tagged
<1> DEFINE y == SetState(w, c, "reset")
<1> DEFINE r == [y.npc[c] EXCEPT !.held = {}, !.moves = TRUE]
<1>1. /\ Orderly(y, {}) /\ Elsewhere(w, y, c)
      /\ y.npc[c].state = "reset" /\ y.npc[c].threat = {} /\ y.npc[c].victim = NoUnit /\ ~y.npc[c].armed
      /\ y.npc[c].tagged = w.npc[c].tagged
  <2>1. "reset" \in Peaceful
    BY DEF Peaceful
  <2> QED
    BY <2>1, StateSet
<1>2. x = [y EXCEPT !.npc[c].held = {}, !.npc[c].moves = TRUE]
  BY DEF Reset
<1> HIDE DEF y
<1>3. y \in Fray /\ y.npc[c] \in Npc /\ y.npc \in [Creature -> Npc]
  BY <1>1, FrayParts DEF Orderly
<1>4. /\ r \in Npc /\ r.state = "reset" /\ r.threat = {} /\ r.victim = NoUnit /\ ~r.armed
      /\ r.tagged = w.npc[c].tagged
  BY <1>1, <1>3 DEF Npc
<1>5. x = WithNpc(y, c, r)
  BY <1>2, <1>3 DEF Fray, WithNpc
<1> HIDE DEF r
<1>6. FoeFits(r)
  BY <1>4 DEF FoeFits
<1>7. Orderly(x, {}) /\ Elsewhere(y, x, c) /\ x.npc[c] = r
  <2>1. y.npc[c].state # "combat" /\ r.threat = y.npc[c].threat
    BY <1>1, <1>4
  <2>2. Orderly(WithNpc(y, c, r), {}) /\ Elsewhere(y, WithNpc(y, c, r), c) /\ WithNpc(y, c, r).npc[c] = r
    <3>1. Orderly(y, {}) /\ r \in Npc
      BY <1>1, <1>4
    <3> QED
      BY <1>6, <2>1, <3>1, OwnChange
  <2> QED
    BY <1>5, <2>2
<1>8. Elsewhere(w, x, c)
  BY <1>1, <1>7, ElsewhereTwice
<1> QED
  BY <1>4, <1>7, <1>8

(* Whom a fighting creature finds. *)
LEMMA Found ==
  ASSUME NEW w \in Fray, NEW c \in Creature, w.npc[c].state = "combat", w.npc[c].moves,
         NEW found \in Findable(w, c)
  PROVE  /\ found # NoUnit => found \in w.npc[c].threat
         /\ found = NoUnit => w.npc[c].threat = {} \/ w.npc[c].held # {}
<1>1. w.npc[c] \in Npc /\ NoUnit \notin Unit
  BY FrayParts, CombatAssumption
<1>2. w.npc[c].threat \subseteq Unit
  BY <1>1 DEF Npc
<1> QED
  BY <1>1, <1>2 DEF Findable, CanAutoAttack

(* chooseNextAction of a fighting creature. *)
LEMMA Chooses ==
  ASSUME NEW w, Orderly(w, {}), NEW c \in Creature, w.npc[c].state = "combat",
         NEW found \in Findable(w, c), NEW again \in BOOLEAN,
         NEW x, x = ChooseNextAction(w, c, found, again)
  PROVE  /\ Orderly(x, {}) /\ Elsewhere(w, x, c) /\ Reasoned(x, c)
         /\ x.npc[c].tagged = w.npc[c].tagged /\ x.npc[c].state \in {"combat", "reset"}
         /\ w.npc[c].threat # {} => x.npc[c].state = "combat"
<1>1. w \in Fray /\ w.npc[c] \in Npc /\ w.npc \in [Creature -> Npc] /\ FoeFits(w.npc[c])
  BY FrayParts DEF Orderly, AllFoesFit
<1>2. Elsewhere(w, w, c)
  BY DEF Elsewhere
<1>3. CASE ~w.npc[c].moves
  <2>1. x = w
    BY <1>3 DEF ChooseNextAction
  <2> QED
    BY <1>2, <1>3, <2>1 DEF Reasoned
<1>4. CASE w.npc[c].moves /\ found # NoUnit
  <2> DEFINE armed == w.npc[c].armed \/ again \/ c \notin Ranged
  <2>1. found \in w.npc[c].threat
    BY <1>1, <1>4, Found
  <2>2. armed \in BOOLEAN /\ x = [w EXCEPT !.npc[c].victim = found, !.npc[c].armed = armed]
    BY <1>1, <1>4 DEF ChooseNextAction, Npc, Fray
  <2> HIDE DEF armed
  <2> DEFINE r == [w.npc[c] EXCEPT !.victim = found, !.armed = armed]
  <2>3. /\ r \in Npc /\ r.state = "combat" /\ r.threat = w.npc[c].threat /\ r.victim = found
        /\ r.tagged = w.npc[c].tagged
    BY <1>1, <2>1, <2>2 DEF Npc
  <2>4. x = WithNpc(w, c, r)
    BY <1>1, <2>2 DEF Fray, WithNpc
  <2> HIDE DEF r
  <2>5. FoeFits(r)
    BY <2>1, <2>3 DEF FoeFits
  <2>6. Orderly(x, {}) /\ Elsewhere(w, x, c) /\ x.npc[c] = r
    BY <2>3, <2>4, <2>5, OwnChange
  <2> QED
    BY <2>1, <2>3, <2>6 DEF Reasoned
<1>5. CASE w.npc[c].moves /\ found = NoUnit /\ w.npc[c].held = {}
  <2>1. w.npc[c].threat = {} /\ x = Reset(w, c)
    BY <1>1, <1>5, Found DEF ChooseNextAction
  <2>2. Orderly(x, {}) /\ Elsewhere(w, x, c) /\ x.npc[c].state = "reset" /\ x.npc[c].tagged = w.npc[c].tagged
    BY <2>1, GoesHome
  <2> QED
    BY <2>1, <2>2 DEF Reasoned
<1>6. CASE w.npc[c].moves /\ found = NoUnit /\ w.npc[c].held # {}
  <2> DEFINE r == [w.npc[c] EXCEPT !.victim = NoUnit]
  <2>1. /\ r \in Npc /\ r.state = "combat" /\ r.threat = w.npc[c].threat /\ r.victim = NoUnit
        /\ r.tagged = w.npc[c].tagged /\ r.held = w.npc[c].held
    BY <1>1 DEF Npc
  <2>2. x = WithNpc(w, c, r)
    BY <1>1, <1>6 DEF Fray, ChooseNextAction, WithNpc
  <2> HIDE DEF r
  <2>3. FoeFits(r)
    BY <2>1 DEF FoeFits
  <2>4. Orderly(x, {}) /\ Elsewhere(w, x, c) /\ x.npc[c] = r
    BY <2>1, <2>2, <2>3, OwnChange
  <2> QED
    BY <1>6, <2>1, <2>4 DEF Reasoned
<1> QED
  BY <1>3, <1>4, <1>5, <1>6

(* addThreat and addAttackingUnit. *)
LEMMA Joins ==
  ASSUME NEW w, Orderly(w, {}), NEW c \in Creature, w.npc[c].state = "combat",
         NEW u \in Unit, w.char[u].here
  PROVE  /\ Orderly(WithThreat(w, c, u), {}) /\ Elsewhere(w, WithThreat(w, c, u), c)
         /\ WithThreat(w, c, u).posted = w.posted
         /\ WithThreat(w, c, u).npc[c].state = "combat"
         /\ WithThreat(w, c, u).npc[c].threat = IF w.char[u].alive THEN w.npc[c].threat \union {u} ELSE w.npc[c].threat
         /\ WithThreat(w, c, u).npc[c].held = w.npc[c].held
         /\ WithThreat(w, c, u).npc[c].moves = w.npc[c].moves
<1> DEFINE x == WithThreat(w, c, u)
<1>1. /\ w \in Fray /\ w.npc[c] \in Npc /\ w.npc \in [Creature -> Npc] /\ w.char[u] \in Char
      /\ w.char \in [Unit -> Char]
      /\ FoeFits(w.npc[c]) /\ w.posted \in Seq(Function)
  BY FrayParts DEF Orderly, AllFoesFit
<1>2. CASE ~w.char[u].alive \/ u \in w.npc[c].threat
  <2>1. x = w
    BY <1>2 DEF WithThreat
  <2>2. Elsewhere(w, w, c)
    BY DEF Elsewhere
  <2>3. w.npc[c].threat = IF w.char[u].alive THEN w.npc[c].threat \union {u} ELSE w.npc[c].threat
    BY <1>2
  <2> QED
    BY <2>1, <2>2, <2>3
<1>3. CASE w.char[u].alive /\ u \notin w.npc[c].threat
  <2> DEFINE r == [w.npc[c] EXCEPT !.threat = w.npc[c].threat \union {u}]
  <2> DEFINE k == [w.char[u] EXCEPT !.attackers = w.char[u].attackers \union {c}, !.inCombat = TRUE]
  <2>1. /\ r \in Npc /\ r.state = "combat" /\ r.threat = w.npc[c].threat \union {u}
        /\ r.victim = w.npc[c].victim
        /\ r.armed = w.npc[c].armed /\ r.held = w.npc[c].held /\ r.moves = w.npc[c].moves
    BY <1>1 DEF Npc
  <2>2. /\ k \in Char /\ k.attackers = w.char[u].attackers \union {c} /\ k.inCombat
        /\ k.here = w.char[u].here /\ k.alive = w.char[u].alive
    BY <1>1 DEF Char
  <2>3. x = [npc |-> [w.npc EXCEPT ![c] = r], char |-> [w.char EXCEPT ![u] = k], posted |-> w.posted]
    <3>1. Attacked(w, u, c) = [npc |-> w.npc, char |-> [w.char EXCEPT ![u] = k], posted |-> w.posted]
      <4> DEFINE h == [w.char EXCEPT ![u].attackers = @ \union {c}]
      <4> DEFINE y == [w EXCEPT !.char[u].attackers = @ \union {c}]
      <4>1. Attacked(w, u, c) = [y EXCEPT !.char[u].inCombat = TRUE]
        BY DEF Attacked
      <4>2. y = [w EXCEPT !.char = h]
        OBVIOUS
      <4>3. [h EXCEPT ![u].inCombat = TRUE] = [w.char EXCEPT ![u] = k]
        BY <1>1 DEF Char
      <4> HIDE DEF h, y
      <4>4. y = [npc |-> w.npc, char |-> h, posted |-> w.posted]
        BY <1>1, <4>2 DEF Fray
      <4>5. Attacked(w, u, c) = [npc |-> w.npc, char |-> [h EXCEPT ![u].inCombat = TRUE], posted |-> w.posted]
        BY <4>1, <4>4
      <4> QED
        BY <4>3, <4>5
    <3>2. x = [Attacked(w, u, c) EXCEPT !.npc[c].threat = @ \union {u}]
      BY <1>3 DEF WithThreat
    <3> HIDE DEF k, x
    <3>3. x = [npc |-> [w.npc EXCEPT ![c].threat = @ \union {u}], char |-> [w.char EXCEPT ![u] = k], posted |-> w.posted]
      <4> DEFINE h == [w.char EXCEPT ![u] = k]
      <4> DEFINE a == [npc |-> w.npc, char |-> h, posted |-> w.posted]
      <4> HIDE DEF h
      <4>1. x = [a EXCEPT !.npc = [w.npc EXCEPT ![c].threat = @ \union {u}]]
        BY <3>1, <3>2 DEF h
      <4> QED
        BY <4>1 DEF h
    <3>4. [w.npc EXCEPT ![c].threat = @ \union {u}] = [w.npc EXCEPT ![c] = r]
      BY <1>1
    <3> QED
      BY <3>3, <3>4
  <2> HIDE DEF x, r, k
  <2>4. x.npc = [w.npc EXCEPT ![c] = r] /\ x.char = [w.char EXCEPT ![u] = k] /\ x.posted = w.posted
    BY <2>3
  <2>5. x \in Fray
    <3>1. [w.npc EXCEPT ![c] = r] \in [Creature -> Npc] /\ [w.char EXCEPT ![u] = k] \in [Unit -> Char]
      BY <1>1, <2>1, <2>2
    <3> QED
      BY <1>1, <2>3, <3>1 DEF Fray
  <2>6. \A d \in Creature : x.npc[d] = IF d = c THEN r ELSE w.npc[d]
    BY <1>1, <2>4
  <2>7. \A v \in Unit : x.char[v] = IF v = u THEN k ELSE w.char[v]
    BY <1>1, <2>4
  <2>8. AllFoesFit(x)
    <3>1. FoeFits(r)
      BY <1>1, <2>1 DEF FoeFits
    <3> QED
      BY <2>6, <3>1 DEF AllFoesFit, Orderly
  <2>9. FoesKnown(x)
    <3> SUFFICES ASSUME NEW d \in Creature, NEW v \in Unit
                 PROVE  d \in x.char[v].attackers <=> v \in x.npc[d].threat
      BY DEF FoesKnown
    <3>1. d \in w.char[v].attackers <=> v \in w.npc[d].threat
      BY DEF FoesKnown, Orderly
    <3>2. x.char[v].attackers = IF v = u THEN w.char[u].attackers \union {c} ELSE w.char[v].attackers
      BY <2>2, <2>7
    <3>3. x.npc[d].threat = IF d = c THEN w.npc[c].threat \union {u} ELSE w.npc[d].threat
      BY <2>1, <2>6
    <3>4. CASE d = c /\ v = u
      BY <3>2, <3>3, <3>4
    <3>5. CASE d = c /\ v # u
      BY <3>1, <3>2, <3>3, <3>5
    <3>6. CASE d # c
      BY <3>1, <3>2, <3>3, <3>6
    <3> QED
      BY <3>4, <3>5, <3>6
  <2>10. FoesThere(x, {})
    <3> SUFFICES ASSUME NEW d \in Creature, NEW v \in x.npc[d].threat
                 PROVE  x.char[v].here /\ x.char[v].alive /\ x.char[v].inCombat
      BY DEF FoesThere
    <3>1. x.npc[d] \in Npc
      BY <2>5, FrayParts
    <3>2. v \in Unit
      BY <3>1 DEF Npc
    <3>3. CASE v = u
      BY <1>3, <2>2, <2>7, <3>2, <3>3
    <3>4. CASE v # u
      <4>1. v \in w.npc[d].threat
        BY <2>1, <2>6, <3>4
      <4>2. w.char[v].here /\ w.char[v].alive /\ w.char[v].inCombat
        BY <4>1 DEF Orderly, FoesThere
      <4> QED
        BY <2>7, <3>2, <3>4, <4>2
    <3> QED
      BY <3>3, <3>4
  <2>11. CallsFit(x)
    <3> SUFFICES ASSUME NEW i \in DOMAIN w.posted PROVE CallFits(x, w.posted[i])
      BY <2>4 DEF CallsFit
    <3>1. w.posted[i].npc \in Creature /\ CallFits(w, w.posted[i])
      BY <1>1, FrayParts DEF Orderly, CallsFit, Function
    <3> QED
      BY <2>1, <2>2, <2>6, <2>7, <3>1 DEF CallFits
  <2>12. Elsewhere(w, x, c)
    <3>1. \A d \in Creature \ {c} : x.npc[d] = w.npc[d] /\ (WillChoose(w, d) => WillChoose(x, d))
      BY <2>4, <2>6 DEF WillChoose
    <3>2. \A v \in Unit : x.char[v].here = w.char[v].here /\ x.char[v].alive = w.char[v].alive
      BY <2>2, <2>7
    <3> QED
      BY <3>1, <3>2 DEF Elsewhere
  <2>13. x.npc[c] = r
    BY <2>6
  <2> QED
    BY <1>3, <2>1, <2>4, <2>5, <2>8, <2>9, <2>10, <2>11, <2>12, <2>13 DEF Orderly, x
<1> QED
  BY <1>2, <1>3

(* A function is posted. *)
LEMMA Posts ==
  ASSUME NEW w, NEW S, Orderly(w, S), NEW call \in {"choose", "idle", "assist"},
         NEW c \in Creature, NEW u \in Unit \union {NoUnit},
         call = "choose" => w.npc[c].state = "combat",
         call = "assist" => u \in Unit /\ w.char[u].here
  PROVE  /\ Orderly(Post(w, call, c, u), S)
         /\ \A d \in Creature : Elsewhere(w, Post(w, call, c, u), d) /\ (WillChoose(w, d) => WillChoose(Post(w, call, c, u), d))
         /\ Post(w, call, c, u).npc = w.npc /\ Post(w, call, c, u).char = w.char
         /\ call = "choose" => WillChoose(Post(w, call, c, u), c)
<1> DEFINE x == Post(w, call, c, u)
<1> DEFINE f == [call |-> call, npc |-> c, unit |-> u]
<1> DEFINE q == w.posted
<1>1. w \in Fray /\ q \in Seq(Function)
  BY FrayParts DEF Orderly
<1>2. f \in Function /\ f.call = call /\ f.npc = c /\ f.unit = u
  BY DEF Function
<1> HIDE DEF f
<1>3. x.posted = Append(q, f) /\ x.npc = w.npc /\ x.char = w.char /\ x = [w EXCEPT !.posted = Append(q, f)]
  BY <1>1 DEF Post, Fray, f
<1> HIDE DEF x, q
<1>4. /\ Append(q, f) \in Seq(Function) /\ DOMAIN Append(q, f) = 1 .. Len(q) + 1
      /\ DOMAIN q = 1 .. Len(q) /\ Len(q) \in Nat
      /\ \A i \in 1 .. Len(q) : Append(q, f)[i] = q[i]
      /\ Append(q, f)[Len(q) + 1] = f
  BY <1>1, <1>2
<1>5. x \in Fray
  BY <1>1, <1>3, <1>4 DEF Fray
<1>6. CallFits(x, f)
  BY <1>2, <1>3 DEF CallFits
<1>7. CallsFit(x)
  <2> SUFFICES ASSUME NEW i \in 1 .. Len(q) + 1 PROVE CallFits(x, Append(q, f)[i])
    BY <1>3, <1>4 DEF CallsFit
  <2>1. CASE i = Len(q) + 1
    BY <1>4, <1>6, <2>1
  <2>2. CASE i # Len(q) + 1
    <3>1. i \in DOMAIN q /\ Append(q, f)[i] = q[i]
      BY <1>4, <2>2
    <3>2. CallFits(w, q[i])
      BY <3>1 DEF Orderly, CallsFit, q
    <3>3. CallFits(x, q[i])
      BY <1>3, <3>2 DEF CallFits
    <3> QED
      BY <3>1, <3>3
  <2> QED
    BY <2>1, <2>2
<1>8. AllFoesFit(x) /\ FoesKnown(x) /\ FoesThere(x, S)
  BY <1>3 DEF Orderly, AllFoesFit, FoesKnown, FoesThere
<1>9. ASSUME NEW d \in Creature, WillChoose(w, d) PROVE WillChoose(x, d)
  <2>1. PICK i \in DOMAIN q : q[i].call = "choose" /\ q[i].npc = d
    BY <1>9 DEF WillChoose, q
  <2>2. i \in DOMAIN Append(q, f) /\ Append(q, f)[i] = q[i]
    BY <1>4
  <2> QED
    BY <1>3, <2>1, <2>2 DEF WillChoose
<1>10. \A d \in Creature : Elsewhere(w, x, d)
  BY <1>3, <1>9 DEF Elsewhere
<1>11. ASSUME call = "choose" PROVE WillChoose(x, c)
  <2>1. Len(q) + 1 \in DOMAIN Append(q, f)
    BY <1>4
  <2> QED
    BY <1>2, <1>3, <1>4, <1>11, <2>1 DEF WillChoose
<1> QED
  BY <1>3, <1>5, <1>7, <1>8, <1>9, <1>10, <1>11 DEF Orderly, x

(* CreatureAI::enterCombat *)
LEMMA Enters ==
  ASSUME NEW w, Orderly(w, {}), NEW c \in Creature, w.npc[c].state # "combat",
         NEW u \in Unit, w.char[u].here
  PROVE  /\ Orderly(EnterCombat(w, c, u), {}) /\ Elsewhere(w, EnterCombat(w, c, u), c)
         /\ EnterCombat(w, c, u).npc[c].state = "combat" /\ WillChoose(EnterCombat(w, c, u), c)
         /\ w.char[u].alive => u \in EnterCombat(w, c, u).npc[c].threat
<1> DEFINE r == [w.npc[c] EXCEPT !.state = "combat"]
<1> DEFINE y == SetState(w, c, "combat")
<1> DEFINE z == WithThreat(y, c, u)
<1> DEFINE p == [z.npc[c] EXCEPT !.tagged = {}]
<1> DEFINE v == [z EXCEPT !.npc[c].tagged = {}]
<1> DEFINE x == EnterCombat(w, c, u)
<1>1. w \in Fray /\ w.npc[c] \in Npc /\ w.npc \in [Creature -> Npc] /\ FoeFits(w.npc[c])
  BY FrayParts DEF Orderly, AllFoesFit
<1>2. /\ r \in Npc /\ r.state = "combat" /\ r.threat = w.npc[c].threat /\ r.victim = w.npc[c].victim
      /\ FoeFits(r)
  BY <1>1 DEF Npc, FoeFits
<1>3. y = WithNpc(w, c, r)
  BY <1>1 DEF SetState, WithNpc, Fray
<1> HIDE DEF r, y
<1>4. Orderly(y, {}) /\ Elsewhere(w, y, c) /\ y.npc[c] = r /\ y.char = w.char
  BY <1>2, <1>3, OwnChange
<1>5. y.npc[c].state = "combat" /\ y.char[u].here /\ (w.char[u].alive => y.char[u].alive)
  BY <1>2, <1>4
<1>6. /\ Orderly(z, {}) /\ Elsewhere(y, z, c) /\ z.npc[c].state = "combat"
      /\ y.char[u].alive => u \in z.npc[c].threat
  BY <1>4, <1>5, Joins
<1> HIDE DEF z
<1>7. z \in Fray /\ z.npc[c] \in Npc /\ z.npc \in [Creature -> Npc] /\ FoeFits(z.npc[c])
  BY <1>6, FrayParts DEF Orderly, AllFoesFit
<1>8. p \in Npc /\ p.state = "combat" /\ p.threat = z.npc[c].threat /\ FoeFits(p)
  BY <1>6, <1>7 DEF Npc, FoeFits
<1>9. v = WithNpc(z, c, p)
  BY <1>7 DEF WithNpc, Fray
<1> HIDE DEF p
<1>10. Orderly(v, {}) /\ Elsewhere(z, v, c) /\ v.npc[c] = p
  <2>1. Orderly(z, {}) /\ p \in Npc /\ FoeFits(p) /\ p.threat = z.npc[c].threat
        /\ (z.npc[c].state = "combat" => p.state = "combat")
    BY <1>6, <1>8
  <2>2. Orderly(WithNpc(z, c, p), {}) /\ Elsewhere(z, WithNpc(z, c, p), c) /\ WithNpc(z, c, p).npc[c] = p
    BY <2>1, OwnChange
  <2> QED
    BY <1>9, <2>2
<1>11. x = Post(v, "choose", c, NoUnit)
  BY DEF EnterCombat, y, z
<1> HIDE DEF v, x
<1>12. v.npc[c].state = "combat"
  BY <1>8, <1>10
<1>13. Orderly(x, {}) /\ Elsewhere(v, x, c) /\ x.npc = v.npc /\ WillChoose(x, c)
  BY <1>10, <1>11, <1>12, Posts
<1>14. Elsewhere(w, x, c)
  BY <1>4, <1>6, <1>10, <1>13, ElsewhereTwice
<1> QED
  BY <1>5, <1>6, <1>8, <1>10, <1>12, <1>13, <1>14 DEF x

(* The signal threatened. *)
LEMMA ThreatHeard ==
  ASSUME NEW w, Orderly(w, {}), NEW c \in Creature, NEW u \in Unit, w.char[u].here
  PROVE  /\ Orderly(Threatened(w, c, u), {}) /\ Elsewhere(w, Threatened(w, c, u), c)
         /\ w.npc[c].state \in {"prepare", "idle"} =>
              Threatened(w, c, u).npc[c].state = "combat" /\ WillChoose(Threatened(w, c, u), c)
         /\ w.npc[c].state = "combat" => Threatened(w, c, u).npc[c].state = "combat"
         /\ w.npc[c].state = "combat" /\ w.char[u].alive => u \in Threatened(w, c, u).npc[c].threat
         /\ w.npc[c].state = "combat" /\ ~w.char[u].alive => Threatened(w, c, u) = w
         /\ w.npc[c].state \notin {"prepare", "idle", "combat"} => Threatened(w, c, u) = w
<1>1. CASE w.npc[c].state \in {"prepare", "idle"}
  <2>1. Threatened(w, c, u) = EnterCombat(w, c, u)
    BY <1>1 DEF Threatened
  <2>2. w.npc[c].state # "combat"
    BY <1>1
  <2> QED
    BY <1>1, <2>1, <2>2, Enters
<1>2. CASE w.npc[c].state = "combat"
  <2>1. Threatened(w, c, u) = WithThreat(w, c, u)
    BY <1>2 DEF Threatened
  <2>2. Orderly(WithThreat(w, c, u), {}) /\ Elsewhere(w, WithThreat(w, c, u), c)
    BY <1>2, Joins
  <2>3. WithThreat(w, c, u).npc[c].state = "combat"
    BY <1>2, Joins
  <2>4. w.char[u].alive => u \in WithThreat(w, c, u).npc[c].threat
    BY <1>2, Joins
  <2>5. ~w.char[u].alive => WithThreat(w, c, u) = w
    BY DEF WithThreat
  <2> QED
    BY <1>2, <2>1, <2>2, <2>3, <2>4, <2>5
<1>3. CASE w.npc[c].state \notin {"prepare", "idle", "combat"}
  <2>1. Threatened(w, c, u) = w
    BY <1>3 DEF Threatened
  <2> QED
    BY <1>3, <2>1 DEF Elsewhere
<1> QED
  BY <1>1, <1>2, <1>3

(* Threat, and the choice that follows. *)
LEMMA Threatens ==
  ASSUME NEW w, Orderly(w, {}), NEW c \in Creature, NEW u \in Unit, w.char[u].here,
         NEW found \in Findable(Threatened(w, c, u), c), NEW again \in BOOLEAN
  PROVE  /\ Orderly(Threaten(w, c, u, found, again), {}) /\ Elsewhere(w, Threaten(w, c, u, found, again), c)
         /\ Reasoned(w, c) => Reasoned(Threaten(w, c, u, found, again), c)
         /\ w.npc[c].state \in {"prepare", "idle", "combat"} =>
              Threaten(w, c, u, found, again).npc[c].state = "combat"
         /\ w.npc[c].state \notin {"prepare", "idle", "combat"} => Threaten(w, c, u, found, again) = w
<1> DEFINE y == Threatened(w, c, u)
<1> DEFINE x == Threaten(w, c, u, found, again)
<1>1. Orderly(y, {}) /\ Elsewhere(w, y, c)
  BY ThreatHeard
<1>2. CASE w.npc[c].state = "combat" /\ w.char[u].alive
  <2>1. x = ChooseNextAction(y, c, found, again)
    BY <1>2 DEF Threaten
  <2>2. y.npc[c].state = "combat"
    BY <1>2, ThreatHeard
  <2>3. u \in y.npc[c].threat
    BY <1>2, ThreatHeard
  <2> HIDE DEF y, x
  <2>4. found \in Findable(y, c)
    BY DEF y
  <2>5. Orderly(x, {}) /\ Elsewhere(y, x, c) /\ Reasoned(x, c) /\ x.npc[c].state = "combat"
    BY <1>1, <2>1, <2>2, <2>3, <2>4, Chooses
  <2>6. Elsewhere(w, x, c)
    BY <1>1, <2>5, ElsewhereTwice
  <2> QED
    BY <1>2, <2>5, <2>6 DEF x
<1>3. CASE ~(w.npc[c].state = "combat" /\ w.char[u].alive)
  <2>1. x = y
    BY <1>3 DEF Threaten
  <2>2. CASE w.npc[c].state \in {"prepare", "idle"}
    <3>1. y.npc[c].state = "combat" /\ WillChoose(y, c)
      BY <2>2, ThreatHeard
    <3> HIDE DEF y, x
    <3> QED
      BY <1>1, <2>1, <2>2, <3>1 DEF Reasoned, x
  <2>3. CASE w.npc[c].state \notin {"prepare", "idle"}
    <3>1. y = w
      BY <1>3, <2>3, ThreatHeard
    <3> QED
      BY <1>1, <2>1, <2>3, <3>1
  <2> QED
    BY <2>2, <2>3
<1> QED
  BY <1>2, <1>3

(* The call for help. *)
LEMMA Asks ==
  ASSUME NEW w, Orderly(w, {}), NEW c \in Creature, NEW u \in Unit, w.char[u].here,
         NEW help \in Creature
  PROVE  /\ Orderly(Asked(w, c, u, help), {}) /\ Elsewhere(w, Asked(w, c, u, help), c)
         /\ Asked(w, c, u, help).npc = w.npc /\ Asked(w, c, u, help).char = w.char
         /\ Reasoned(w, c) => Reasoned(Asked(w, c, u, help), c)
<1> DEFINE x == Asked(w, c, u, help)
<1>1. CASE x = w
  BY <1>1 DEF Elsewhere
<1>2. CASE x = Post(w, "assist", help, u)
  <2>1. Orderly(x, {}) /\ Elsewhere(w, x, c) /\ x.npc = w.npc /\ x.char = w.char /\ (WillChoose(w, c) => WillChoose(x, c))
    BY <1>2, Posts
  <2> HIDE DEF x
  <2> QED
    BY <2>1 DEF Reasoned, x
<1> QED
  BY <1>1, <1>2 DEF Asked

(* The first blow decides who is entitled to the loot. *)
LEMMA Tags ==
  ASSUME NEW w, Orderly(w, {}), NEW c \in Creature, NEW u \in Unit
  PROVE  /\ Orderly(Tagged(w, c, u), {}) /\ Elsewhere(w, Tagged(w, c, u), c)
         /\ Tagged(w, c, u).npc[c].state = w.npc[c].state
         /\ Reasoned(w, c) => Reasoned(Tagged(w, c, u), c)
         /\ w.npc[c].state = "combat" => Tagged(w, c, u).npc[c].tagged # {}
<1> DEFINE x == Tagged(w, c, u)
<1>1. CASE w.npc[c].state = "combat" /\ w.npc[c].tagged = {}
  <2> DEFINE r == [w.npc[c] EXCEPT !.tagged = {u}]
  <2>1. w \in Fray /\ w.npc[c] \in Npc /\ w.npc \in [Creature -> Npc] /\ FoeFits(w.npc[c])
    BY FrayParts DEF Orderly, AllFoesFit
  <2>2. /\ r \in Npc /\ r.state = w.npc[c].state /\ r.threat = w.npc[c].threat /\ r.tagged = {u}
        /\ r.held = w.npc[c].held /\ r.moves = w.npc[c].moves /\ FoeFits(r)
    BY <2>1 DEF Npc, FoeFits
  <2>3. x = WithNpc(w, c, r)
    BY <1>1, <2>1 DEF Tagged, WithNpc, Fray
  <2> HIDE DEF r, x
  <2>4. w.npc[c].state = "combat" => r.state = "combat"
    BY <2>2
  <2>5. Orderly(x, {}) /\ Elsewhere(w, x, c) /\ x.npc[c] = r /\ x.posted = w.posted
    BY <2>2, <2>3, <2>4, OwnChange
  <2> QED
    BY <2>2, <2>5 DEF Reasoned, WillChoose, x
<1>2. CASE ~(w.npc[c].state = "combat" /\ w.npc[c].tagged = {})
  <2>1. x = w
    BY <1>2 DEF Tagged
  <2> QED
    BY <1>2, <2>1 DEF Elsewhere
<1> QED
  BY <1>1, <1>2

(* It dies. *)
LEMMA Kills ==
  ASSUME NEW w, Orderly(w, {}), NEW c \in Creature
  PROVE  /\ Orderly(Killed(w, c), {}) /\ Elsewhere(w, Killed(w, c), c)
         /\ Killed(w, c).npc[c].state = "death" /\ Killed(w, c).npc[c].tagged = w.npc[c].tagged
<1> DEFINE r == [w.npc[c] EXCEPT !.victim = NoUnit]
<1> DEFINE y == [w EXCEPT !.npc[c].victim = NoUnit]
<1> DEFINE z == SetState(y, c, "death")
<1> DEFINE p == [z.npc[c] EXCEPT !.held = {}]
<1> DEFINE x == Killed(w, c)
<1>1. w \in Fray /\ w.npc[c] \in Npc /\ w.npc \in [Creature -> Npc] /\ FoeFits(w.npc[c])
  BY FrayParts DEF Orderly, AllFoesFit
<1>2. /\ r \in Npc /\ r.state = w.npc[c].state /\ r.threat = w.npc[c].threat /\ r.tagged = w.npc[c].tagged
      /\ FoeFits(r) /\ (w.npc[c].state = "combat" => r.state = "combat")
  BY <1>1 DEF Npc, FoeFits
<1>3. y = WithNpc(w, c, r)
  BY <1>1 DEF WithNpc, Fray
<1> HIDE DEF r
<1>4. Orderly(y, {}) /\ Elsewhere(w, y, c) /\ y.npc[c] = r
  <2>1. Orderly(WithNpc(w, c, r), {}) /\ Elsewhere(w, WithNpc(w, c, r), c) /\ WithNpc(w, c, r).npc[c] = r
    BY <1>2, OwnChange
  <2> QED
    BY <1>3, <2>1
<1>5. x = [z EXCEPT !.npc[c].held = {}]
  BY DEF Killed
<1> HIDE DEF y, x
<1>6. /\ Orderly(z, {}) /\ Elsewhere(y, z, c) /\ z.npc[c].state = "death" /\ z.npc[c].threat = {}
      /\ z.npc[c].tagged = y.npc[c].tagged
  <2>1. "death" \in Peaceful
    BY DEF Peaceful
  <2> QED
    BY <1>4, <2>1, StateSet
<1> HIDE DEF z
<1>7. z \in Fray /\ z.npc[c] \in Npc /\ z.npc \in [Creature -> Npc] /\ FoeFits(z.npc[c])
  BY <1>6, FrayParts DEF Orderly, AllFoesFit
<1>8. /\ p \in Npc /\ p.state = "death" /\ p.threat = z.npc[c].threat /\ FoeFits(p)
      /\ p.tagged = w.npc[c].tagged
  BY <1>2, <1>4, <1>6, <1>7 DEF Npc, FoeFits
<1>9. x = WithNpc(z, c, p)
  BY <1>5, <1>7 DEF WithNpc, Fray
<1> HIDE DEF p
<1>10. z.npc[c].state # "combat"
  BY <1>6
<1>11. Orderly(x, {}) /\ Elsewhere(z, x, c) /\ x.npc[c] = p
  <2>1. Orderly(WithNpc(z, c, p), {}) /\ Elsewhere(z, WithNpc(z, c, p), c) /\ WithNpc(z, c, p).npc[c] = p
    <3>1. Orderly(z, {}) /\ p \in Npc /\ FoeFits(p) /\ p.threat = z.npc[c].threat
          /\ (z.npc[c].state = "combat" => p.state = "combat")
      BY <1>6, <1>8, <1>10
    <3> QED
      BY <3>1, OwnChange
  <2> QED
    BY <1>9, <2>1
<1>12. Elsewhere(w, x, c)
  BY <1>4, <1>6, <1>11, ElsewhereTwice
<1> QED
  BY <1>8, <1>11, <1>12 DEF x

(* The creature itself, as it goes home. *)
LEMMA ResetNpc ==
  ASSUME NEW w \in Fray, NEW c \in Creature, w.npc[c].state = "combat"
  PROVE  /\ Reset(w, c).npc[c] \in Npc /\ Reset(w, c).npc[c].state = "reset"
         /\ Reset(w, c).npc[c].threat = {} /\ Reset(w, c).npc[c].victim = NoUnit
         /\ ~Reset(w, c).npc[c].armed /\ Reset(w, c).npc[c].tagged = w.npc[c].tagged
<1> DEFINE m == [w.npc EXCEPT ![c].threat = {}, ![c].victim = NoUnit, ![c].armed = FALSE]
<1> DEFINE chars == Released(w, c)
<1> DEFINE queue == Expired(w.posted, c)
<1> DEFINE y == SetState(w, c, "reset")
<1>1. w.npc \in [Creature -> Npc] /\ w.npc[c] \in Npc
  BY FrayParts
<1>2. LeaveCombat(w, c) = [npc |-> m, char |-> chars, posted |-> queue]
  BY DEF LeaveCombat
<1>3. y = [LeaveCombat(w, c) EXCEPT !.npc[c].state = "reset"]
  BY DEF SetState
<1>4. /\ m \in [Creature -> Npc] /\ m[c].threat = {} /\ m[c].victim = NoUnit /\ ~m[c].armed
      /\ m[c].tagged = w.npc[c].tagged
  BY <1>1 DEF Npc
<1>5. Reset(w, c) = [y EXCEPT !.npc[c].held = {}, !.npc[c].moves = TRUE]
  BY DEF Reset
<1> HIDE DEF m, chars, queue, y
<1>6. y.npc = [m EXCEPT ![c].state = "reset"]
  BY <1>2, <1>3
<1>7. /\ y.npc[c] \in Npc /\ y.npc[c].state = "reset" /\ y.npc[c].threat = {}
      /\ y.npc[c].victim = NoUnit /\ ~y.npc[c].armed
      /\ y.npc[c].tagged = w.npc[c].tagged /\ y.npc \in [Creature -> Npc]
  BY <1>4, <1>6 DEF Npc
<1>8. y = [npc |-> y.npc, char |-> y.char, posted |-> y.posted]
  BY <1>2, <1>3
<1>9. Reset(w, c).npc[c] = [y.npc[c] EXCEPT !.held = {}, !.moves = TRUE]
  <2> DEFINE n == y.npc
  <2> DEFINE a == [y EXCEPT !.npc[c].held = {}]
  <2>1. Reset(w, c) = [a EXCEPT !.npc[c].moves = TRUE]
    BY <1>5
  <2> HIDE DEF n
  <2>2. a = [npc |-> [n EXCEPT ![c].held = {}], char |-> y.char, posted |-> y.posted]
    <3> DEFINE m0 == [n EXCEPT ![c].held = {}]
    <3>1. a = [y EXCEPT !.npc = m0]
      BY DEF n
    <3> HIDE DEF a, m0
    <3>2. a = [npc |-> m0, char |-> y.char, posted |-> y.posted]
      BY <1>8, <3>1
    <3> QED
      BY <3>2 DEF m0
  <2> HIDE DEF a
  <2>3. Reset(w, c).npc = [[n EXCEPT ![c].held = {}] EXCEPT ![c].moves = TRUE]
    BY <2>1, <2>2
  <2> QED
    BY <1>7, <2>3 DEF n, Npc
<1> QED
  BY <1>7, <1>9 DEF Npc

(* What a creature is after it has dropped u and chosen again. *)
Freed(r, u) == u \notin r.threat /\ (r.victim \in {u, NoUnit} \/ r.victim \in r.threat)
Settled(r, s) ==
  /\ r \in Npc /\ FoeFits(r) /\ r.state \in {"combat", "reset"} /\ r.threat = s.threat /\ r.tagged = s.tagged
  /\ r.state = "combat" /\ r.threat = {} /\ r.held = {} => ~r.moves

(* It drops u and chooses, or goes home. *)
LEMMA OneChooses ==
  ASSUME NEW w \in Fray, NEW c \in Creature, w.npc[c].state = "combat",
         NEW u \in Unit, Freed(w.npc[c], u), NEW found \in Findable(w, c), NEW again \in BOOLEAN
  PROVE  Settled(Choice(w, c, u, found, again).npc[c], w.npc[c])
<1> DEFINE s == w.npc[c]
<1> DEFINE y == ChooseNextAction(w, c, found, again)
<1>1. s \in Npc /\ w.npc \in [Creature -> Npc] /\ NoUnit # u
  BY FrayParts, CombatAssumption
<1>2. ASSUME NEW z, z.npc \in [Creature -> Npc], z.npc[c] \in Npc, z.npc[c].victim # u
      PROVE  VictimGone(z, c, u).npc[c] = z.npc[c]
  BY <1>2 DEF VictimGone
<1>3. CASE ~MustChoose(w, c, u)
  <2>1. Choice(w, c, u, found, again) = VictimGone(w, c, u)
    BY <1>3 DEF Choice
  <2>2. s.victim # u /\ s.threat # {}
    BY <1>3 DEF MustChoose
  <2>3. VictimGone(w, c, u).npc[c] = s
    BY <1>1, <1>2, <2>2
  <2>4. Settled(s, s)
    BY <1>1, <2>2 DEF Settled, FoeFits, Freed
  <2> QED
    BY <2>1, <2>3, <2>4
<1>4. CASE MustChoose(w, c, u)
  <2>1. Choice(w, c, u, found, again) = VictimGone(y, c, u)
    BY <1>4 DEF Choice
  <2>2. CASE ~s.moves
    <3>1. y = w
      BY <2>2 DEF ChooseNextAction
    <3>2. CASE s.victim = u
      <4>1. VictimGone(y, c, u).npc[c] = [s EXCEPT !.victim = NoUnit]
        BY <1>1, <3>1, <3>2 DEF VictimGone, Fray
      <4>2. Settled([s EXCEPT !.victim = NoUnit], s)
        BY <1>1, <2>2 DEF Settled, FoeFits, Npc
      <4> QED
        BY <2>1, <4>1, <4>2
    <3>3. CASE s.victim # u
      <4>1. VictimGone(y, c, u).npc[c] = s
        BY <1>1, <1>2, <3>1, <3>3
      <4>2. Settled(s, s)
        BY <1>1, <2>2, <3>3 DEF Settled, FoeFits, Freed
      <4> QED
        BY <2>1, <4>1, <4>2
    <3> QED
      BY <3>2, <3>3
  <2>3. CASE s.moves /\ found # NoUnit
    <3> DEFINE armed == s.armed \/ again \/ c \notin Ranged
    <3> DEFINE r == [s EXCEPT !.victim = found, !.armed = armed]
    <3>1. found \in s.threat
      BY <2>3, Found
    <3>2. armed \in BOOLEAN
      BY <1>1 DEF Npc
    <3>3. y = [w EXCEPT !.npc[c].victim = found, !.npc[c].armed = armed]
      BY <2>3 DEF ChooseNextAction
    <3> HIDE DEF armed
    <3>4. y.npc = [w.npc EXCEPT ![c] = r]
      <4> DEFINE a == [w EXCEPT !.npc[c].victim = found]
      <4> DEFINE m == [w.npc EXCEPT ![c].victim = found]
      <4>1. y = [a EXCEPT !.npc[c].armed = armed]
        BY <3>3
      <4>2. a = [w EXCEPT !.npc = m]
        OBVIOUS
      <4>3. [m EXCEPT ![c].armed = armed] = [w.npc EXCEPT ![c] = r]
        BY <1>1 DEF Npc
      <4> HIDE DEF a, m
      <4>4. a = [npc |-> m, char |-> w.char, posted |-> w.posted]
        BY <4>2 DEF Fray
      <4>5. y.npc = [m EXCEPT ![c].armed = armed]
        BY <4>1, <4>4
      <4> QED
        BY <4>3, <4>5
    <3>5. r \in Npc /\ r.victim = found /\ r.threat = s.threat /\ r.tagged = s.tagged /\ r.state = "combat"
      BY <1>1, <3>1, <3>2 DEF Npc
    <3>6. found # u
      BY <3>1 DEF Freed
    <3> HIDE DEF y, r
    <3>7. y.npc \in [Creature -> Npc] /\ y.npc[c] = r
      BY <1>1, <3>4, <3>5
    <3>8. VictimGone(y, c, u).npc[c] = r
      BY <1>2, <3>5, <3>6, <3>7
    <3>9. Settled(r, s)
      BY <3>1, <3>5 DEF Settled, FoeFits
    <3> QED
      BY <2>1, <3>8, <3>9 DEF y
  <2>4. CASE s.moves /\ found = NoUnit /\ s.held = {}
    <3>1. s.threat = {} /\ y = Reset(w, c)
      BY <2>4, Found DEF ChooseNextAction
    <3>2. /\ y.npc[c] \in Npc /\ y.npc[c].state = "reset" /\ y.npc[c].threat = {} /\ y.npc[c].victim = NoUnit
          /\ ~y.npc[c].armed /\ y.npc[c].tagged = s.tagged
      BY <3>1, ResetNpc
    <3>3. VictimGone(y, c, u) = y
      BY <1>1, <3>2 DEF VictimGone
    <3>4. Settled(y.npc[c], s)
      BY <3>1, <3>2 DEF Settled, FoeFits
    <3> QED
      BY <2>1, <3>3, <3>4
  <2>5. CASE s.moves /\ found = NoUnit /\ s.held # {}
    <3> DEFINE r == [s EXCEPT !.victim = NoUnit]
    <3>1. y = [w EXCEPT !.npc[c].victim = NoUnit]
      BY <2>5 DEF ChooseNextAction
    <3>2. y.npc = [w.npc EXCEPT ![c] = r]
      BY <1>1, <3>1 DEF Fray
    <3>3. /\ r \in Npc /\ r.victim = NoUnit /\ r.threat = s.threat /\ r.tagged = s.tagged /\ r.state = "combat"
          /\ r.held = s.held
      BY <1>1 DEF Npc
    <3> HIDE DEF y, r
    <3>4. y.npc \in [Creature -> Npc] /\ y.npc[c] = r
      BY <1>1, <3>2, <3>3
    <3>5. VictimGone(y, c, u).npc[c] = r
      BY <1>1, <1>2, <3>3, <3>4
    <3>6. Settled(r, s)
      BY <2>5, <3>3 DEF Settled, FoeFits
    <3> QED
      BY <2>1, <3>5, <3>6 DEF y
  <2> QED
    BY <2>2, <2>3, <2>4, <2>5
<1> QED
  BY <1>3, <1>4

(* Who drops u: everyone who has it on the list. *)
LEMMA Dropping ==
  ASSUME NEW w, NEW u \in Unit, Orderly(w, {u})
  PROVE  DroppedBy(w, u) = {c \in Creature : u \in w.npc[c].threat}
BY DEF DroppedBy, Orderly, AllFoesFit, FoeFits

(* removeThreat of everyone who has u on the list. *)
LEMMA Drops ==
  ASSUME NEW w, NEW u \in Unit, Orderly(w, {u})
  PROVE  /\ Dropped(w, u) \in Fray /\ FoesKnown(Dropped(w, u)) /\ FoesThere(Dropped(w, u), {})
         /\ Dropped(w, u).posted = w.posted
         /\ \A c \in Creature \ DroppedBy(w, u) : Dropped(w, u).npc[c] = w.npc[c]
         /\ \A c \in DroppedBy(w, u) :
              /\ Dropped(w, u).npc[c].state = "combat" /\ Freed(Dropped(w, u).npc[c], u)
         /\ \A c \in Creature : u \notin Dropped(w, u).npc[c].threat
         /\ \A v \in Unit : Dropped(w, u).char[v].here = w.char[v].here
<1> DEFINE C == DroppedBy(w, u)
<1> DEFINE left == w.char[u].attackers \ C
<1> DEFINE fights == w.char[u].inCombat /\ (C = {} \/ w.char[u].pvp \/ left # {})
<1> DEFINE k == [w.char[u] EXCEPT !.attackers = left, !.inCombat = fights]
<1> DEFINE n == [c \in Creature |-> IF c \in C THEN [w.npc[c] EXCEPT !.threat = @ \ {u}] ELSE w.npc[c]]
<1> DEFINE h == [w.char EXCEPT ![u] = k]
<1> DEFINE x == Dropped(w, u)
<1>1. /\ w \in Fray /\ w.npc \in [Creature -> Npc] /\ w.char \in [Unit -> Char] /\ w.posted \in Seq(Function)
      /\ \A c \in Creature : w.npc[c] \in Npc /\ FoeFits(w.npc[c])
      /\ \A v \in Unit : w.char[v] \in Char
  BY FrayParts DEF Orderly, AllFoesFit
<1>2. /\ C = {c \in Creature : u \in w.npc[c].threat}
      /\ C = {c \in Creature : w.npc[c].state = "combat" /\ u \in w.npc[c].threat}
  BY Dropping DEF DroppedBy
<1>3. left = {} /\ fights \in BOOLEAN
  <2>1. \A c \in Creature : c \in w.char[u].attackers <=> u \in w.npc[c].threat
    BY DEF Orderly, FoesKnown
  <2>2. w.char[u].attackers \subseteq Creature
    BY <1>1 DEF Char
  <2>3. w.char[u].inCombat \in BOOLEAN /\ w.char[u].pvp \in BOOLEAN
    BY <1>1 DEF Char
  <2> QED
    BY <1>2, <2>1, <2>2, <2>3
<1>4. x = [npc |-> n, char |-> h, posted |-> w.posted]
  <2> DEFINE a == [w EXCEPT !.npc = n]
  <2> DEFINE b == [a EXCEPT !.char[u].attackers = left]
  <2> DEFINE g == [w.char EXCEPT ![u].attackers = left]
  <2> DEFINE still == C = {} \/ w.char[u].pvp \/ left # {}
  <2>1. x = [b EXCEPT !.char[u].inCombat = @ /\ still]
    BY DEF Dropped
  <2> HIDE DEF left, n, k, still
  <2>2. a = [npc |-> n, char |-> w.char, posted |-> w.posted]
    BY <1>1 DEF Fray
  <2> HIDE DEF a
  <2>3. b = [npc |-> n, char |-> g, posted |-> w.posted]
    BY <2>2
  <2>4. [g EXCEPT ![u].inCombat = fights] = h
    BY <1>1 DEF k, Char
  <2> HIDE DEF b, g, h
  <2>5. x = [npc |-> n, char |-> [g EXCEPT ![u].inCombat = @ /\ still], posted |-> w.posted]
    BY <2>1, <2>3
  <2>6. g[u].inCombat = w.char[u].inCombat
    BY <1>1 DEF g, Char
  <2>7. [g EXCEPT ![u].inCombat = @ /\ still] = [g EXCEPT ![u].inCombat = fights]
    BY <2>6 DEF fights, still
  <2> QED
    BY <2>4, <2>5, <2>7
<1> HIDE DEF C, left, fights, x
<1>5. k \in Char /\ k.here = w.char[u].here /\ k.attackers = {}
  BY <1>1, <1>3 DEF Char
<1>6. \A c \in Creature \ C : n[c] = w.npc[c]
  OBVIOUS
<1>7. ASSUME NEW c \in C
      PROVE  n[c] \in Npc /\ n[c].state = "combat" /\ n[c].threat = w.npc[c].threat \ {u} /\ n[c].victim = w.npc[c].victim
  BY <1>1, <1>2 DEF Npc
<1> HIDE DEF n, k
<1>8. \A c \in Creature : n[c] \in Npc
  BY <1>1, <1>6, <1>7
<1>9. n \in [Creature -> Npc] /\ h \in [Unit -> Char]
  BY <1>1, <1>5, <1>8 DEF n
<1>10. \A v \in Unit : h[v] = IF v = u THEN k ELSE w.char[v]
  BY <1>1
<1> HIDE DEF h
<1>11. x \in Fray /\ x.npc = n /\ x.char = h /\ x.posted = w.posted
  BY <1>1, <1>4, <1>9 DEF Fray
<1>12. \A c \in Creature : n[c].threat = w.npc[c].threat \ {u}
  BY <1>2, <1>6, <1>7
<1>13. FoesKnown(x)
  <2> SUFFICES ASSUME NEW c \in Creature, NEW v \in Unit
               PROVE  c \in h[v].attackers <=> v \in n[c].threat
    BY <1>11 DEF FoesKnown
  <2>1. c \in w.char[v].attackers <=> v \in w.npc[c].threat
    BY DEF Orderly, FoesKnown
  <2>2. CASE v = u
    BY <1>5, <1>10, <1>12, <2>2
  <2>3. CASE v # u
    BY <1>10, <1>12, <2>1, <2>3
  <2> QED
    BY <2>2, <2>3
<1>14. FoesThere(x, {})
  <2> SUFFICES ASSUME NEW c \in Creature, NEW v \in n[c].threat
               PROVE  h[v].here /\ h[v].alive /\ h[v].inCombat
    BY <1>11 DEF FoesThere
  <2>1. v \in w.npc[c].threat \ {u}
    BY <1>12
  <2>2. v \in Unit
    BY <1>8 DEF Npc
  <2>3. w.char[v].here /\ w.char[v].alive /\ w.char[v].inCombat
    BY <2>1 DEF Orderly, FoesThere
  <2> QED
    BY <1>10, <2>1, <2>2, <2>3
<1>15. \A c \in C : Freed(n[c], u)
  BY <1>1, <1>2, <1>7 DEF Freed, FoeFits
<1>16. \A v \in Unit : h[v].here = w.char[v].here
  BY <1>5, <1>10
<1> QED
  BY <1>2, <1>6, <1>7, <1>11, <1>12, <1>13, <1>14, <1>15, <1>16 DEF C, x

(* Signals killed and despawned: everyone who has u on the list drops it and
   chooses anew. *)
LEMMA Forsakes ==
  ASSUME NEW w, NEW u \in Unit, Orderly(w, {u}),
         \A c \in Creature : Reasoned(w, c) /\ KillMarked(w, c),
         NEW found \in Finds(Dropped(w, u), DroppedBy(w, u)), NEW again \in BOOLEAN,
         NEW x, x = Chosen(Dropped(w, u), u, DroppedBy(w, u), found, again)
  PROVE  /\ Orderly(x, {})
         /\ \A c \in Creature : Reasoned(x, c) /\ KillMarked(x, c) /\ u \notin x.npc[c].threat
         /\ x.char[u].here = w.char[u].here
<1> DEFINE C == DroppedBy(w, u)
<1> DEFINE d == Dropped(w, u)
<1> DEFINE chosen == [c \in C |-> Choice(d, c, u, found[c], again).npc[c]]
<1> DEFINE homeward == {c \in C : chosen[c].state # "combat"}
<1> DEFINE n == [c \in Creature |-> IF c \in C THEN chosen[c] ELSE d.npc[c]]
<1> DEFINE q == w.posted
<1> DEFINE p == [i \in DOMAIN q |-> IF q[i].npc \in homeward THEN Expired(q, q[i].npc)[i] ELSE q[i]]
<1>1. /\ d \in Fray /\ FoesKnown(d) /\ FoesThere(d, {}) /\ d.posted = q
      /\ \A c \in Creature \ C : d.npc[c] = w.npc[c]
      /\ \A c \in C : d.npc[c].state = "combat" /\ Freed(d.npc[c], u)
      /\ \A c \in Creature : u \notin d.npc[c].threat
      /\ \A v \in Unit : d.char[v].here = w.char[v].here
  BY Drops
<1>2. C \subseteq Creature
  BY DEF DroppedBy
<1>3. x = [d EXCEPT !.npc = n, !.posted = p]
  BY <1>1 DEF Chosen
<1> HIDE DEF C, d
<1>4. ASSUME NEW c \in C PROVE Settled(chosen[c], d.npc[c])
  <2>1. found[c] \in Findable(d, c)
    BY <1>2 DEF Finds, C, d
  <2> QED
    BY <1>1, <1>2, <2>1, OneChooses
<1> HIDE DEF chosen
<1>5. \A c \in C : n[c] = chosen[c]
  BY <1>2
<1>6. \A c \in Creature \ C : n[c] = w.npc[c]
  BY <1>1
<1>7. /\ w \in Fray /\ q \in Seq(Function) /\ Len(q) \in Nat /\ DOMAIN q = 1 .. Len(q)
      /\ \A c \in Creature : w.npc[c] \in Npc /\ FoeFits(w.npc[c])
      /\ \A i \in DOMAIN q : q[i] \in Function
  BY FrayParts DEF Orderly, AllFoesFit
<1>8. \A c \in Creature : n[c] \in Npc /\ FoeFits(n[c]) /\ n[c].threat = d.npc[c].threat
  BY <1>1, <1>4, <1>5, <1>6, <1>7 DEF Settled
<1>9. ASSUME NEW i \in DOMAIN q
      PROVE  /\ p[i] \in Function /\ p[i].npc = q[i].npc /\ p[i].unit = q[i].unit
             /\ p[i].call = IF q[i].call = "choose" /\ q[i].npc \in homeward THEN "expired" ELSE q[i].call
  <2>1. q[i] \in Function /\ q[i].npc \in Creature
    BY <1>7 DEF Function
  <2>2. CASE q[i].npc \in homeward
    <3> DEFINE e == Expired(q, q[i].npc)
    <3>1. p[i] = e[i]
      BY <2>2
    <3>2. e \in Seq(Function) /\ DOMAIN e = DOMAIN q
      BY <1>7, <2>1, ExpiredQueue
    <3>3. e[i].npc = q[i].npc /\ e[i].unit = q[i].unit
      BY <1>7, <2>1, ExpiredQueue
    <3>4. e[i].call = IF q[i].call = "choose" THEN "expired" ELSE q[i].call
      BY <1>7, <2>1, ExpiredQueue
    <3> HIDE DEF e, p
    <3>5. e[i] \in Function
      BY <3>2
    <3> QED
      BY <2>2, <3>1, <3>3, <3>4, <3>5
  <2>3. CASE q[i].npc \notin homeward
    <3>1. p[i] = q[i]
      BY <2>3
    <3> HIDE DEF p
    <3> QED
      BY <2>1, <2>3, <3>1
  <2> QED
    BY <2>2, <2>3
<1>10. p \in Seq(Function) /\ DOMAIN p = DOMAIN q
  <2>1. p = [i \in 1 .. Len(q) |-> p[i]]
    BY <1>7
  <2>2. \A i \in 1 .. Len(q) : p[i] \in Function
    BY <1>7, <1>9
  <2> HIDE DEF p
  <2>3. [i \in 1 .. Len(q) |-> p[i]] \in Seq(Function)
    BY <1>7, <2>2
  <2>4. DOMAIN p = 1 .. Len(q)
    BY <2>1
  <2> QED
    BY <1>7, <2>1, <2>3, <2>4
<1>11. n \in [Creature -> Npc]
  BY <1>8
<1> HIDE DEF n, p, q
<1>12. x \in Fray /\ x.npc = n /\ x.char = d.char /\ x.posted = p
  BY <1>1, <1>3, <1>10, <1>11 DEF Fray
<1>13. AllFoesFit(x) /\ FoesKnown(x) /\ FoesThere(x, {})
  BY <1>1, <1>8, <1>12 DEF AllFoesFit, FoesKnown, FoesThere
<1>14. \A c \in homeward : n[c].state # "combat"
  BY <1>5
<1>15. \A c \in C \ homeward : n[c].state = "combat"
  BY <1>5
<1>16. homeward \subseteq C
  OBVIOUS
<1> HIDE DEF homeward
<1>17. CallsFit(x)
  <2> SUFFICES ASSUME NEW i \in DOMAIN q PROVE CallFits(x, p[i])
    BY <1>10, <1>12 DEF CallsFit
  <2>1. q[i].npc \in Creature
    BY <1>7 DEF Function
  <2>2. CallFits(w, q[i])
    BY DEF Orderly, CallsFit, q
  <2>3. ASSUME p[i].call = "choose" PROVE n[p[i].npc].state = "combat"
    <3>1. q[i].call = "choose" /\ q[i].npc \notin homeward /\ p[i].npc = q[i].npc
      BY <1>9, <2>3
    <3>2. CASE q[i].npc \in C
      BY <1>15, <3>1, <3>2
    <3>3. CASE q[i].npc \notin C
      BY <1>6, <2>1, <2>2, <3>1, <3>3 DEF CallFits
    <3> QED
      BY <3>2, <3>3
  <2>4. ASSUME p[i].call = "assist" PROVE p[i].unit \in Unit /\ d.char[p[i].unit].here
    <3>1. q[i].call = "assist" /\ p[i].unit = q[i].unit
      BY <1>9, <2>4
    <3> QED
      BY <1>1, <2>2, <3>1 DEF CallFits
  <2> QED
    BY <1>12, <2>3, <2>4 DEF CallFits
<1>18. ASSUME NEW c \in Creature PROVE Reasoned(x, c)
  <2>1. CASE c \in C
    <3>1. Settled(n[c], d.npc[c])
      BY <1>4, <1>5, <2>1
    <3> QED
      BY <1>12, <3>1 DEF Reasoned, Settled
  <2>2. CASE c \notin C
    <3>1. n[c] = w.npc[c]
      BY <1>6, <2>2
    <3>2. ASSUME WillChoose(w, c) PROVE WillChoose(x, c)
      <4>1. PICK i \in DOMAIN q : q[i].call = "choose" /\ q[i].npc = c
        BY <3>2 DEF WillChoose, q
      <4>2. p[i].call = "choose" /\ p[i].npc = c
        BY <1>9, <1>16, <2>2, <4>1
      <4> QED
        BY <1>10, <1>12, <4>2 DEF WillChoose
    <3> QED
      BY <1>12, <3>1, <3>2 DEF Reasoned
  <2> QED
    BY <2>1, <2>2
<1>19. ASSUME NEW c \in Creature PROVE KillMarked(x, c)
  <2>1. CASE c \in C
    BY <1>4, <1>5, <1>12, <2>1 DEF Settled, KillMarked
  <2>2. CASE c \notin C
    BY <1>6, <1>12, <2>2 DEF KillMarked
  <2> QED
    BY <2>1, <2>2
<1>20. \A c \in Creature : u \notin x.npc[c].threat
  BY <1>1, <1>8, <1>12
<1>21. x.char[u].here = w.char[u].here
  BY <1>1, <1>12
<1> QED
  BY <1>12, <1>13, <1>17, <1>18, <1>19, <1>20, <1>21 DEF Orderly

(* Everything is in order, for everyone or for all but c. *)
FightsWell(w) == Orderly(w, {}) /\ \A c \in Creature : Reasoned(w, c) /\ KillMarked(w, c)
FightsWellBut(w, c) == Orderly(w, {}) /\ \A d \in Creature \ {c} : Reasoned(w, d) /\ KillMarked(w, d)
CombatInv == FightsWell(Now) /\ dangling \in BOOLEAN

(* A step of one creature keeps the others as they are. *)
LEMMA WellElsewhere ==
  ASSUME NEW w, NEW c \in Creature, FightsWellBut(w, c), NEW x, Orderly(x, {}), Elsewhere(w, x, c)
  PROVE  /\ FightsWellBut(x, c)
         /\ Reasoned(x, c) /\ KillMarked(x, c) => FightsWell(x)
<1>1. ASSUME NEW d \in Creature \ {c} PROVE Reasoned(x, d) /\ KillMarked(x, d)
  BY DEF FightsWellBut, Elsewhere, Reasoned, KillMarked
<1> QED
  BY <1>1 DEF FightsWellBut, FightsWell

(* The same for a change of the creature itself. *)
LEMMA WellWith ==
  ASSUME NEW w, NEW c \in Creature, FightsWellBut(w, c), NEW r \in Npc, FoeFits(r),
         w.npc[c].state = "combat" => r.state = "combat", r.threat = w.npc[c].threat
  PROVE  /\ FightsWellBut(WithNpc(w, c, r), c) /\ WithNpc(w, c, r).npc[c] = r
         /\ /\ r.state = "combat" /\ r.threat = {} /\ r.held = {} /\ r.moves => WillChoose(w, c)
            /\ r.state = "death" => r.tagged # {}
            => FightsWell(WithNpc(w, c, r))
<1> DEFINE x == WithNpc(w, c, r)
<1>1. Orderly(w, {})
  BY DEF FightsWellBut
<1>2. Orderly(x, {}) /\ Elsewhere(w, x, c) /\ x.npc[c] = r /\ x.posted = w.posted
  BY <1>1, OwnChange
<1> HIDE DEF x
<1>3. FightsWellBut(x, c) /\ (Reasoned(x, c) /\ KillMarked(x, c) => FightsWell(x))
  BY <1>2, WellElsewhere
<1>4. (r.state = "combat" /\ r.threat = {} /\ r.held = {} /\ r.moves => WillChoose(w, c)) => Reasoned(x, c)
  BY <1>2 DEF Reasoned, WillChoose
<1>5. (r.state = "death" => r.tagged # {}) => KillMarked(x, c)
  BY <1>2 DEF KillMarked
<1> QED
  BY <1>2, <1>3, <1>4, <1>5 DEF x

(* And for a choice. *)
LEMMA WellChosen ==
  ASSUME NEW w, NEW c \in Creature, FightsWellBut(w, c), w.npc[c].state = "combat",
         NEW found \in Findable(w, c), NEW again \in BOOLEAN
  PROVE  FightsWell(ChooseNextAction(w, c, found, again))
<1> DEFINE x == ChooseNextAction(w, c, found, again)
<1>1. Orderly(w, {})
  BY DEF FightsWellBut
<1>2. Orderly(x, {}) /\ Elsewhere(w, x, c) /\ Reasoned(x, c) /\ x.npc[c].state \in {"combat", "reset"}
  BY <1>1, Chooses
<1> HIDE DEF x
<1>3. KillMarked(x, c)
  BY <1>2 DEF KillMarked
<1> QED
  BY <1>2, <1>3, WellElsewhere DEF x

(* The step sets the variables. *)
LEMMA FightsGoOnWell ==
  ASSUME NEW x, FightsWell(x), SetTo(x), dangling \in BOOLEAN
  PROVE  CombatInv'
<1>1. x = [npc |-> x.npc, char |-> x.char, posted |-> x.posted]
  BY DEF FightsWell, Orderly, Fray
<1>2. npc' = x.npc /\ char' = x.char /\ posted' = x.posted /\ dangling' = dangling
  BY DEF SetTo
<1>3. x = [npc |-> npc', char |-> char', posted |-> posted']
  BY <1>1, <1>2
<1>4. FightsWell([npc |-> npc', char |-> char', posted |-> posted'])
  BY <1>3
<1> QED
  BY <1>2, <1>4 DEF CombatInv, Now

(* The parts of the present state. *)
LEMMA NowOfFights == Now.npc = npc /\ Now.char = char /\ Now.posted = posted
BY DEF Now

(* What the invariant says of one creature. *)
LEMMA WellNow ==
  ASSUME CombatInv, NEW c \in Creature
  PROVE  /\ FightsWellBut(Now, c) /\ Orderly(Now, {}) /\ FightsWell(Now) /\ dangling \in BOOLEAN
         /\ npc \in [Creature -> Npc] /\ npc[c] \in Npc /\ FoeFits(npc[c]) /\ Reasoned(Now, c)
         /\ KillMarked(Now, c)
         /\ Now \in Fray
<1>1. /\ FightsWell(Now) /\ Orderly(Now, {}) /\ FightsWellBut(Now, c) /\ dangling \in BOOLEAN
      /\ Reasoned(Now, c) /\ KillMarked(Now, c)
  BY DEF CombatInv, FightsWell, FightsWellBut
<1>2. Now \in Fray /\ FoeFits(npc[c])
  BY <1>1, NowOfFights DEF Orderly, AllFoesFit
<1> QED
  BY <1>1, <1>2, NowOfFights, FrayParts

-----------------------------------------------------------------------------

(* A blow: threat, the call for help, the tag and maybe the death. *)
LEMMA DealDamageKeeps ==
  ASSUME CombatInv, NEW c \in Creature, NEW u \in Unit, NEW kills \in BOOLEAN, DealDamage(c, u, kills)
  PROVE  CombatInv'
<1>0. PICK help \in Creature, again \in BOOLEAN :
        \E found \in Findable(Threatened(Asked(Now, c, u, help), c, u), c) :
          LET hurt == Tagged(Threaten(Asked(Now, c, u, help), c, u, found, again), c, u)
          IN  SetTo(IF kills THEN Killed(hurt, c) ELSE hurt)
  BY DEF DealDamage, Helpers
<1> DEFINE a == Asked(Now, c, u, help)
<1>1. PICK found \in Findable(Threatened(a, c, u), c) :
        LET hurt == Tagged(Threaten(a, c, u, found, again), c, u)
        IN  SetTo(IF kills THEN Killed(hurt, c) ELSE hurt)
  BY <1>0
<1> DEFINE h == Threaten(a, c, u, found, again)
<1> DEFINE t == Tagged(h, c, u)
<1> DEFINE x == IF kills THEN Killed(t, c) ELSE t
<1>2. SetTo(x)
  BY <1>1
<1>3. FightsWellBut(Now, c) /\ Orderly(Now, {}) /\ Reasoned(Now, c) /\ dangling \in BOOLEAN
  BY WellNow
<1>4. Now.char[u].here /\ Now.npc[c].state \in {"prepare", "idle", "combat"}
  BY NowOfFights DEF DealDamage
<1> HIDE DEF x, t, h
<1>5. Orderly(a, {}) /\ Elsewhere(Now, a, c) /\ a.npc = Now.npc /\ a.char = Now.char /\ Reasoned(a, c)
  BY <1>3, <1>4, Asks
<1> HIDE DEF a
<1>6. found \in Findable(Threatened(a, c, u), c)
  BY DEF a
<1>7. a.char[u].here /\ a.npc[c].state \in {"prepare", "idle", "combat"}
  BY <1>4, <1>5
<1>8. Orderly(h, {}) /\ Elsewhere(a, h, c) /\ Reasoned(h, c) /\ h.npc[c].state = "combat"
  BY <1>5, <1>6, <1>7, Threatens DEF h
<1>9. /\ Orderly(t, {}) /\ Elsewhere(h, t, c) /\ Reasoned(t, c) /\ t.npc[c].state = "combat"
      /\ t.npc[c].tagged # {}
  BY <1>8, Tags DEF t
<1>10. FightsWellBut(t, c)
  BY <1>3, <1>5, <1>8, <1>9, WellElsewhere
<1>11. FightsWell(x)
  <2>1. CASE kills
    <3>1. x = Killed(t, c)
      BY <2>1 DEF x
    <3>2. Orderly(x, {}) /\ Elsewhere(t, x, c) /\ x.npc[c].state = "death" /\ x.npc[c].tagged = t.npc[c].tagged
      BY <1>9, <3>1, Kills
    <3>3. Reasoned(x, c) /\ KillMarked(x, c)
      BY <1>9, <3>2 DEF Reasoned, KillMarked
    <3> QED
      BY <1>10, <3>2, <3>3, WellElsewhere
  <2>2. CASE ~kills
    <3>1. x = t
      BY <2>2 DEF x
    <3>2. KillMarked(t, c)
      BY <1>9 DEF KillMarked
    <3>3. FightsWell(t)
      BY <1>9, <1>10, <3>2 DEF FightsWellBut, FightsWell
    <3> QED
      BY <3>1, <3>3
  <2> QED
    BY <2>1, <2>2
<1> QED
  BY <1>2, <1>3, <1>11, FightsGoOnWell

(* A heal is threat for the healer. *)
LEMMA HealThreatKeeps ==
  ASSUME CombatInv, NEW c \in Creature, NEW u \in Unit, NEW healer \in Unit, HealThreat(c, u, healer)
  PROVE  CombatInv'
<1>1. PICK found \in Findable(WithThreat(Now, c, healer), c), again \in BOOLEAN :
            SetTo(Threaten(Now, c, healer, found, again))
  BY DEF HealThreat
<1> DEFINE x == Threaten(Now, c, healer, found, again)
<1>2. FightsWellBut(Now, c) /\ Orderly(Now, {}) /\ Reasoned(Now, c) /\ dangling \in BOOLEAN
  BY WellNow
<1>3. Now.char[healer].here /\ Now.npc[c].state = "combat"
  BY NowOfFights DEF HealThreat
<1>4. found \in Findable(Threatened(Now, c, healer), c)
  BY <1>3 DEF Threatened
<1>5. Orderly(x, {}) /\ Elsewhere(Now, x, c)
  BY <1>2, <1>3, <1>4, Threatens
<1>6. Reasoned(x, c)
  BY <1>2, <1>3, <1>4, Threatens
<1>7. x.npc[c].state = "combat"
  BY <1>2, <1>3, <1>4, Threatens
<1> HIDE DEF x
<1>8. KillMarked(x, c)
  BY <1>7 DEF KillMarked
<1>9. FightsWell(x)
  BY <1>2, <1>5, <1>6, <1>8, WellElsewhere
<1> QED
  BY <1>1, <1>2, <1>9, FightsGoOnWell DEF x

(* Someone comes near. *)
LEMMA AggroKeeps ==
  ASSUME CombatInv, NEW c \in Creature, NEW u \in Unit, Aggro(c, u)
  PROVE  CombatInv'
<1> DEFINE x == EnterCombat(Now, c, u)
<1>1. FightsWellBut(Now, c) /\ Orderly(Now, {}) /\ dangling \in BOOLEAN
  BY WellNow
<1>2. SetTo(x) /\ Now.npc[c].state # "combat" /\ Now.char[u].here
  BY NowOfFights DEF Aggro
<1>3. Orderly(x, {}) /\ Elsewhere(Now, x, c) /\ x.npc[c].state = "combat" /\ WillChoose(x, c)
  BY <1>1, <1>2, Enters
<1> HIDE DEF x
<1>4. Reasoned(x, c) /\ KillMarked(x, c)
  BY <1>3 DEF Reasoned, KillMarked
<1> QED
  BY <1>1, <1>2, <1>3, <1>4, WellElsewhere, FightsGoOnWell

(* The countdown of the next action ends. *)
LEMMA NextActionKeeps ==
  ASSUME CombatInv, NEW c \in Creature, NextAction(c)
  PROVE  CombatInv'
<1> DEFINE r == [npc[c] EXCEPT !.armed = FALSE]
<1> DEFINE w == [Now EXCEPT !.npc[c].armed = FALSE]
<1>1. /\ FightsWellBut(Now, c) /\ dangling \in BOOLEAN /\ Now \in Fray
      /\ npc \in [Creature -> Npc] /\ npc[c] \in Npc /\ FoeFits(npc[c])
  BY WellNow
<1>2. PICK found \in Findable(w, c), again \in BOOLEAN : SetTo(ChooseNextAction(w, c, found, again))
  BY DEF NextAction
<1>3. npc[c].state = "combat"
  BY DEF NextAction
<1>4. r \in Npc /\ r.state = "combat" /\ r.threat = npc[c].threat /\ FoeFits(r)
  BY <1>1, <1>3 DEF Npc, FoeFits
<1>5. w = WithNpc(Now, c, r)
  BY <1>1, NowOfFights DEF WithNpc, Fray
<1> HIDE DEF w, r
<1>6. FightsWellBut(w, c) /\ w.npc[c] = r
  BY <1>1, <1>4, <1>5, NowOfFights, WellWith
<1>7. FightsWell(ChooseNextAction(w, c, found, again))
  BY <1>4, <1>6, WellChosen
<1> QED
  BY <1>1, <1>2, <1>7, FightsGoOnWell

(* The creature is ready. *)
LEMMA PreparedKeeps ==
  ASSUME CombatInv, NEW c \in Creature, Prepared(c)
  PROVE  CombatInv'
<1> DEFINE x == SetState(Now, c, "idle")
<1>1. FightsWellBut(Now, c) /\ Orderly(Now, {}) /\ dangling \in BOOLEAN
  BY WellNow
<1>2. SetTo(x) /\ "idle" \in Peaceful
  BY DEF Prepared, Peaceful
<1>3. Orderly(x, {}) /\ Elsewhere(Now, x, c) /\ x.npc[c].state = "idle"
  BY <1>1, <1>2, StateSet
<1> HIDE DEF x
<1>4. Reasoned(x, c) /\ KillMarked(x, c)
  BY <1>3 DEF Reasoned, KillMarked
<1> QED
  BY <1>1, <1>2, <1>3, <1>4, WellElsewhere, FightsGoOnWell

(* It is too far from home. *)
LEMMA LeashKeeps ==
  ASSUME CombatInv, NEW c \in Creature, Leash(c)
  PROVE  CombatInv'
<1> DEFINE x == Reset(Now, c)
<1>1. FightsWellBut(Now, c) /\ Orderly(Now, {}) /\ dangling \in BOOLEAN
  BY WellNow
<1>2. SetTo(x)
  BY DEF Leash
<1>3. Orderly(x, {}) /\ Elsewhere(Now, x, c) /\ x.npc[c].state = "reset"
  BY <1>1, GoesHome
<1> HIDE DEF x
<1>4. Reasoned(x, c) /\ KillMarked(x, c)
  BY <1>3 DEF Reasoned, KillMarked
<1> QED
  BY <1>1, <1>2, <1>3, <1>4, WellElsewhere, FightsGoOnWell

(* There is no way home. *)
LEMMA NoPathHomeKeeps ==
  ASSUME CombatInv, NEW c \in Creature, NoPathHome(c)
  PROVE  CombatInv'
<1> DEFINE x == SetState(Now, c, "stranded")
<1>1. FightsWellBut(Now, c) /\ Orderly(Now, {}) /\ dangling \in BOOLEAN
  BY WellNow
<1>2. SetTo(x) /\ "stranded" \in Peaceful
  BY DEF NoPathHome, Peaceful
<1>3. Orderly(x, {}) /\ Elsewhere(Now, x, c) /\ x.npc[c].state = "stranded"
  BY <1>1, <1>2, StateSet
<1> HIDE DEF x
<1>4. Reasoned(x, c) /\ KillMarked(x, c)
  BY <1>3 DEF Reasoned, KillMarked
<1> QED
  BY <1>1, <1>2, <1>3, <1>4, WellElsewhere, FightsGoOnWell

(* It is home. *)
LEMMA HomeReachedKeeps ==
  ASSUME CombatInv, NEW c \in Creature, HomeReached(c)
  PROVE  CombatInv'
<1> DEFINE x == Post(Now, "idle", c, NoUnit)
<1>1. FightsWell(Now) /\ Orderly(Now, {}) /\ dangling \in BOOLEAN
  BY WellNow
<1>2. SetTo(x)
  BY DEF HomeReached, OnWayHome
<1>3. /\ Orderly(x, {}) /\ x.npc = Now.npc
      /\ \A d \in Creature : Elsewhere(Now, x, d) /\ (WillChoose(Now, d) => WillChoose(x, d))
  BY <1>1, Posts
<1> HIDE DEF x
<1>4. FightsWell(x)
  BY <1>1, <1>3 DEF FightsWell, Reasoned, KillMarked
<1> QED
  BY <1>1, <1>2, <1>4, FightsGoOnWell

(* A stun, a root, fear or confusion begins. *)
LEMMA HoldOnKeeps ==
  ASSUME CombatInv, NEW c \in Creature, NEW h \in Hold, HoldOn(c, h)
  PROVE  CombatInv'
<1> DEFINE r == [npc[c] EXCEPT !.held = @ \union {h}]
<1> DEFINE w == [Now EXCEPT !.npc[c].held = @ \union {h}]
<1>1. /\ FightsWellBut(Now, c) /\ dangling \in BOOLEAN /\ Now \in Fray /\ KillMarked(Now, c)
      /\ npc \in [Creature -> Npc] /\ npc[c] \in Npc /\ FoeFits(npc[c])
  BY WellNow
<1>2. /\ r \in Npc /\ r.state = npc[c].state /\ r.threat = npc[c].threat /\ FoeFits(r)
      /\ r.tagged = npc[c].tagged
      /\ r.held # {} /\ r.victim = npc[c].victim
  BY <1>1 DEF Npc, FoeFits
<1>3. w = WithNpc(Now, c, r)
  BY <1>1, NowOfFights DEF WithNpc, Fray
<1>4. \/ npc[c].state # "combat" /\ SetTo(w)
      \/ npc[c].state = "combat" /\ \E found \in Findable(w, c), again \in BOOLEAN :
                  SetTo(ChooseNextAction(w, c, found, again))
      \/ npc[c].state = "combat" /\ SetTo([w EXCEPT !.npc[c].victim = NoUnit])
  BY DEF HoldOn
<1> HIDE DEF w, r
<1>5. npc[c].state = "combat" => r.state = "combat"
  BY <1>2
<1>6. npc[c].state = "death" => npc[c].tagged # {}
  BY <1>1, NowOfFights DEF KillMarked
<1>7. FightsWellBut(w, c) /\ w.npc[c] = r /\ FightsWell(w)
  BY <1>1, <1>2, <1>3, <1>5, <1>6, NowOfFights, WellWith
<1>8. CASE SetTo(w)
  BY <1>1, <1>7, <1>8, FightsGoOnWell
<1>9. CASE npc[c].state = "combat" /\ \E found \in Findable(w, c), again \in BOOLEAN :
            SetTo(ChooseNextAction(w, c, found, again))
  <2>1. PICK found \in Findable(w, c), again \in BOOLEAN : SetTo(ChooseNextAction(w, c, found, again))
    BY <1>9
  <2>2. FightsWell(ChooseNextAction(w, c, found, again))
    BY <1>5, <1>7, <1>9, WellChosen
  <2> QED
    BY <1>1, <2>1, <2>2, FightsGoOnWell
<1>10. CASE npc[c].state = "combat" /\ SetTo([w EXCEPT !.npc[c].victim = NoUnit])
  <2> DEFINE p == [r EXCEPT !.victim = NoUnit]
  <2> DEFINE x == [w EXCEPT !.npc[c].victim = NoUnit]
  <2>1. /\ p \in Npc /\ p.state = "combat" /\ p.threat = r.threat /\ p.held # {} /\ FoeFits(p)
    BY <1>2, <1>10 DEF Npc, FoeFits
  <2>2. w \in Fray
    BY <1>7 DEF FightsWell, Orderly
  <2>3. x = WithNpc(w, c, p)
    BY <1>7, <2>2, FrayParts DEF WithNpc, Fray
  <2> HIDE DEF p
  <2>4. FightsWell(WithNpc(w, c, p))
    BY <1>7, <2>1, WellWith
  <2> HIDE DEF x
  <2>5. FightsWell(x)
    BY <2>3, <2>4
  <2>6. SetTo(x)
    BY <1>10 DEF x
  <2> QED
    BY <1>1, <2>5, <2>6, FightsGoOnWell
<1> QED
  BY <1>4, <1>8, <1>9, <1>10

(* One of them ends. *)
LEMMA HoldOffKeeps ==
  ASSUME CombatInv, NEW c \in Creature, NEW h \in Hold, HoldOff(c, h)
  PROVE  CombatInv'
<1> DEFINE r == [npc[c] EXCEPT !.held = @ \ {h}]
<1> DEFINE w == [Now EXCEPT !.npc[c].held = @ \ {h}]
<1>1. /\ FightsWellBut(Now, c) /\ dangling \in BOOLEAN /\ Now \in Fray /\ KillMarked(Now, c)
      /\ npc \in [Creature -> Npc] /\ npc[c] \in Npc /\ FoeFits(npc[c])
  BY WellNow
<1>2. /\ r \in Npc /\ r.state = npc[c].state /\ r.threat = npc[c].threat /\ FoeFits(r)
      /\ r.tagged = npc[c].tagged
  BY <1>1 DEF Npc, FoeFits
<1>3. w = WithNpc(Now, c, r)
  BY <1>1, NowOfFights DEF WithNpc, Fray
<1>4. \/ npc[c].state # "combat" /\ SetTo(w)
      \/ npc[c].state = "combat" /\ \E found \in Findable(w, c), again \in BOOLEAN :
                  SetTo(ChooseNextAction(w, c, found, again))
  BY DEF HoldOff
<1> HIDE DEF w, r
<1>5. npc[c].state = "combat" => r.state = "combat"
  BY <1>2
<1>6. npc[c].state = "death" => npc[c].tagged # {}
  BY <1>1, NowOfFights DEF KillMarked
<1>7. FightsWellBut(w, c) /\ w.npc[c] = r /\ (npc[c].state # "combat" => FightsWell(w))
  BY <1>1, <1>2, <1>3, <1>5, <1>6, NowOfFights, WellWith
<1>8. CASE npc[c].state # "combat" /\ SetTo(w)
  BY <1>1, <1>7, <1>8, FightsGoOnWell
<1>9. CASE npc[c].state = "combat" /\ \E found \in Findable(w, c), again \in BOOLEAN :
            SetTo(ChooseNextAction(w, c, found, again))
  <2>1. PICK found \in Findable(w, c), again \in BOOLEAN : SetTo(ChooseNextAction(w, c, found, again))
    BY <1>9
  <2>2. FightsWell(ChooseNextAction(w, c, found, again))
    BY <1>5, <1>7, <1>9, WellChosen
  <2> QED
    BY <1>1, <2>1, <2>2, FightsGoOnWell
<1> QED
  BY <1>4, <1>8, <1>9

(* A trigger stops or frees the movement. *)
LEMMA SetCombatMovementKeeps ==
  ASSUME CombatInv, NEW c \in Creature, NEW mayMove \in BOOLEAN, SetCombatMovement(c, mayMove)
  PROVE  CombatInv'
<1> DEFINE r == [npc[c] EXCEPT !.moves = mayMove]
<1> DEFINE w == [Now EXCEPT !.npc[c].moves = mayMove]
<1>1. /\ FightsWellBut(Now, c) /\ dangling \in BOOLEAN /\ Now \in Fray
      /\ npc \in [Creature -> Npc] /\ npc[c] \in Npc /\ FoeFits(npc[c])
  BY WellNow
<1>2. /\ r \in Npc /\ r.state = npc[c].state /\ r.threat = npc[c].threat /\ FoeFits(r)
      /\ r.moves = mayMove /\ r.state # "death"
  BY <1>1 DEF Npc, FoeFits, SetCombatMovement
<1>3. w = WithNpc(Now, c, r)
  BY <1>1, NowOfFights DEF WithNpc, Fray
<1>4. \/ npc[c].state # "combat" /\ SetTo(w)
      \/ npc[c].state = "combat" /\ ~mayMove /\ SetTo([w EXCEPT !.npc[c].victim = NoUnit])
      \/ npc[c].state = "combat" /\ \E found \in Findable(w, c), again \in BOOLEAN :
                  SetTo(ChooseNextAction(w, c, found, again))
  BY DEF SetCombatMovement
<1> HIDE DEF w, r
<1>5. npc[c].state = "combat" => r.state = "combat"
  BY <1>2
<1>6. FightsWellBut(w, c) /\ w.npc[c] = r /\ (npc[c].state # "combat" => FightsWell(w))
  BY <1>1, <1>2, <1>3, <1>5, NowOfFights, WellWith
<1>7. CASE npc[c].state # "combat" /\ SetTo(w)
  BY <1>1, <1>6, <1>7, FightsGoOnWell
<1>8. CASE npc[c].state = "combat" /\ ~mayMove /\ SetTo([w EXCEPT !.npc[c].victim = NoUnit])
  <2> DEFINE p == [r EXCEPT !.victim = NoUnit]
  <2> DEFINE x == [w EXCEPT !.npc[c].victim = NoUnit]
  <2>1. /\ p \in Npc /\ p.state = "combat" /\ p.threat = r.threat /\ ~p.moves /\ FoeFits(p)
    BY <1>2, <1>8 DEF Npc, FoeFits
  <2>2. w \in Fray
    BY <1>6 DEF FightsWellBut, Orderly
  <2>3. x = WithNpc(w, c, p)
    BY <1>6, <2>2, FrayParts DEF WithNpc, Fray
  <2> HIDE DEF p
  <2>4. FightsWell(WithNpc(w, c, p))
    BY <1>6, <2>1, WellWith
  <2> HIDE DEF x
  <2>5. FightsWell(x)
    BY <2>3, <2>4
  <2>6. SetTo(x)
    BY <1>8 DEF x
  <2> QED
    BY <1>1, <2>5, <2>6, FightsGoOnWell
<1>9. CASE npc[c].state = "combat" /\ \E found \in Findable(w, c), again \in BOOLEAN :
            SetTo(ChooseNextAction(w, c, found, again))
  <2>1. PICK found \in Findable(w, c), again \in BOOLEAN : SetTo(ChooseNextAction(w, c, found, again))
    BY <1>9
  <2>2. FightsWell(ChooseNextAction(w, c, found, again))
    BY <1>5, <1>6, <1>9, WellChosen
  <2> QED
    BY <1>1, <2>1, <2>2, FightsGoOnWell
<1> QED
  BY <1>4, <1>7, <1>8, <1>9

(* A creature spawns. *)
LEMMA SpawnKeeps ==
  ASSUME CombatInv, NEW c \in Creature, Spawn(c)
  PROVE  CombatInv'
<1> DEFINE r == [NotThere EXCEPT !.state = "prepare"]
<1> DEFINE x == [Now EXCEPT !.npc[c] = r]
<1>1. FightsWellBut(Now, c) /\ dangling \in BOOLEAN /\ Now \in Fray /\ FoeFits(npc[c])
  BY WellNow
<1>2. npc[c].state = "none" /\ SetTo(x)
  BY DEF Spawn
<1>3. npc[c].threat = {}
  BY <1>1, <1>2 DEF FoeFits
<1>4. r \in Npc /\ r.state = "prepare" /\ r.threat = {} /\ FoeFits(r)
  BY DEF Npc, NotThere, FoeFits
<1>5. x = WithNpc(Now, c, r)
  BY <1>1, NowOfFights DEF WithNpc, Fray
<1> HIDE DEF x, r
<1>6. FightsWell(WithNpc(Now, c, r))
  BY <1>1, <1>2, <1>3, <1>4, NowOfFights, WellWith
<1> QED
  BY <1>1, <1>2, <1>5, <1>6, FightsGoOnWell

(* A creature is removed; its posted functions dangle. *)
LEMMA CreatureDespawnsKeeps ==
  ASSUME CombatInv, NEW c \in Creature, CreatureDespawns(c)
  PROVE  CombatInv'
<1> DEFINE y == SetState(Now, c, "none")
<1> DEFINE z == [y EXCEPT !.npc[c] = NotThere]
<1> DEFINE q == z.posted
<1> DEFINE p == [i \in DOMAIN q |-> IF q[i].call # "expired" /\ q[i].npc = c THEN [q[i] EXCEPT !.call = "dangling"] ELSE q[i]]
<1> DEFINE x == [z EXCEPT !.posted = p]
<1>1. FightsWellBut(Now, c) /\ Orderly(Now, {}) /\ dangling \in BOOLEAN
  BY WellNow
<1>2. SetTo(x) /\ "none" \in Peaceful
  BY DEF CreatureDespawns, Orphaned, Peaceful
<1> HIDE DEF y
<1>3. /\ Orderly(y, {}) /\ Elsewhere(Now, y, c) /\ y.npc[c].state = "none" /\ y.npc[c].threat = {}
  BY <1>1, <1>2, StateSet DEF y
<1>4. FightsWellBut(y, c)
  BY <1>1, <1>3, WellElsewhere
<1>5. NotThere \in Npc /\ NotThere.state = "none" /\ NotThere.threat = {} /\ FoeFits(NotThere)
  BY DEF NotThere, Npc, FoeFits
<1>6. z = WithNpc(y, c, NotThere)
  BY <1>3 DEF WithNpc, Fray, Orderly
<1> HIDE DEF z
<1>7. FightsWell(z) /\ z.npc[c] = NotThere
  <2>1. /\ y.npc[c].state # "combat" /\ NotThere.threat = y.npc[c].threat
        /\ NotThere.state # "combat" /\ NotThere.state # "death"
    BY <1>3, <1>5
  <2>2. FightsWell(WithNpc(y, c, NotThere)) /\ WithNpc(y, c, NotThere).npc[c] = NotThere
    BY <1>4, <1>5, <2>1, WellWith
  <2> QED
    BY <1>6, <2>2
<1>8. /\ z \in Fray /\ q \in Seq(Function) /\ Len(q) \in Nat /\ DOMAIN q = 1 .. Len(q)
      /\ \A i \in DOMAIN q : q[i] \in Function
  BY <1>7, FrayParts DEF FightsWell, Orderly
<1> HIDE DEF q
<1>9. ASSUME NEW i \in DOMAIN q
      PROVE  /\ p[i] \in Function /\ p[i].npc = q[i].npc /\ p[i].unit = q[i].unit
             /\ p[i].call \in {q[i].call, "dangling"} /\ (q[i].npc # c => p[i].call = q[i].call)
  <2>1. q[i] \in Function
    BY <1>8
  <2>2. /\ [q[i] EXCEPT !.call = "dangling"] \in Function
        /\ [q[i] EXCEPT !.call = "dangling"].npc = q[i].npc
        /\ [q[i] EXCEPT !.call = "dangling"].unit = q[i].unit
        /\ [q[i] EXCEPT !.call = "dangling"].call = "dangling"
    BY <2>1 DEF Function
  <2>3. CASE q[i].call # "expired" /\ q[i].npc = c
    <3>1. p[i] = [q[i] EXCEPT !.call = "dangling"]
      BY <2>3
    <3> HIDE DEF p
    <3> QED
      BY <2>2, <2>3, <3>1
  <2>4. CASE ~(q[i].call # "expired" /\ q[i].npc = c)
    <3>1. p[i] = q[i]
      BY <2>4
    <3> HIDE DEF p
    <3> QED
      BY <2>1, <3>1
  <2> QED
    BY <2>3, <2>4
<1>10. p \in Seq(Function) /\ DOMAIN p = DOMAIN q
  <2>1. p = [i \in 1 .. Len(q) |-> p[i]]
    BY <1>8
  <2>2. \A i \in 1 .. Len(q) : p[i] \in Function
    BY <1>8, <1>9
  <2> HIDE DEF p
  <2>3. [i \in 1 .. Len(q) |-> p[i]] \in Seq(Function)
    BY <1>8, <2>2
  <2>4. DOMAIN p = 1 .. Len(q)
    BY <2>1
  <2> QED
    BY <1>8, <2>1, <2>3, <2>4
<1> HIDE DEF p
<1>11. x \in Fray /\ x.npc = z.npc /\ x.char = z.char /\ x.posted = p
  BY <1>8, <1>10 DEF Fray
<1> HIDE DEF x
<1>12. AllFoesFit(x) /\ FoesKnown(x) /\ FoesThere(x, {})
  BY <1>7, <1>11 DEF AllFoesFit, FoesKnown, FoesThere, FightsWell, Orderly
<1>13. CallsFit(x)
  <2> SUFFICES ASSUME NEW i \in DOMAIN q PROVE CallFits(x, p[i])
    BY <1>10, <1>11 DEF CallsFit
  <2>1. CallFits(z, q[i])
    BY <1>7 DEF FightsWell, Orderly, CallsFit, q
  <2> QED
    BY <1>9, <1>11, <2>1 DEF CallFits
<1>14. ASSUME NEW d \in Creature PROVE Reasoned(x, d) /\ KillMarked(x, d)
  <2>1. Reasoned(z, d) /\ KillMarked(z, d)
    BY <1>7 DEF FightsWell
  <2>2. CASE d = c
    BY <1>5, <1>7, <1>11, <2>2 DEF Reasoned, KillMarked
  <2>3. CASE d # c
    <3>1. ASSUME WillChoose(z, d) PROVE WillChoose(x, d)
      <4>1. PICK i \in DOMAIN q : q[i].call = "choose" /\ q[i].npc = d
        BY <3>1 DEF WillChoose, q
      <4>2. p[i].call = "choose" /\ p[i].npc = d
        BY <1>9, <2>3, <4>1
      <4> QED
        BY <1>10, <1>11, <4>2 DEF WillChoose
    <3> QED
      BY <1>11, <2>1, <3>1 DEF Reasoned, KillMarked
  <2> QED
    BY <2>2, <2>3
<1>15. FightsWell(x)
  BY <1>11, <1>12, <1>13, <1>14 DEF FightsWell, Orderly
<1> QED
  BY <1>1, <1>2, <1>15, FightsGoOnWell

(* The characters change, but nobody's attackers. *)
LEMMA CharsChange ==
  ASSUME NEW w, FightsWell(w), NEW S, NEW h \in [Unit -> Char],
         \A u \in Unit : h[u].attackers = w.char[u].attackers /\ (w.char[u].here => h[u].here),
         \A u \in Unit \ S : (\E c \in Creature : u \in w.npc[c].threat) => h[u].alive /\ h[u].inCombat
  PROVE  /\ Orderly([w EXCEPT !.char = h], S)
         /\ \A c \in Creature : Reasoned([w EXCEPT !.char = h], c) /\ KillMarked([w EXCEPT !.char = h], c)
<1> DEFINE x == [w EXCEPT !.char = h]
<1>1. Orderly(w, {}) /\ w \in Fray /\ \A c \in Creature : Reasoned(w, c) /\ KillMarked(w, c) /\ w.npc[c] \in Npc
  BY FrayParts DEF FightsWell, Orderly
<1>2. x \in Fray /\ x.npc = w.npc /\ x.char = h /\ x.posted = w.posted
  BY <1>1 DEF Fray
<1> HIDE DEF x
<1>3. AllFoesFit(x) /\ FoesKnown(x)
  BY <1>1, <1>2 DEF AllFoesFit, FoesKnown, Orderly
<1>4. FoesThere(x, S)
  <2> SUFFICES ASSUME NEW c \in Creature, NEW u \in w.npc[c].threat \ S
               PROVE  h[u].here /\ h[u].alive /\ h[u].inCombat
    BY <1>2 DEF FoesThere
  <2>1. u \in Unit
    BY <1>1 DEF Npc
  <2>2. w.char[u].here
    BY <1>1 DEF Orderly, FoesThere
  <2> QED
    BY <2>1, <2>2
<1>5. CallsFit(x)
  <2> SUFFICES ASSUME NEW i \in DOMAIN w.posted PROVE CallFits(x, w.posted[i])
    BY <1>2 DEF CallsFit
  <2>1. CallFits(w, w.posted[i])
    BY <1>1 DEF Orderly, CallsFit
  <2> QED
    BY <1>2, <2>1 DEF CallFits
<1>6. \A c \in Creature : Reasoned(x, c) /\ KillMarked(x, c)
  BY <1>1, <1>2 DEF Reasoned, KillMarked, WillChoose
<1> QED
  BY <1>2, <1>3, <1>4, <1>5, <1>6 DEF Orderly, x

(* One character changes. *)
LEMMA CharChange ==
  ASSUME CombatInv, NEW u \in Unit, NEW k \in Char, k.attackers = char[u].attackers, char[u].here => k.here,
         (\E c \in Creature : u \in npc[c].threat) => k.alive /\ k.inCombat,
         SetTo([Now EXCEPT !.char = [char EXCEPT ![u] = k]])
  PROVE  CombatInv'
<1> DEFINE h == [char EXCEPT ![u] = k]
<1>1. FightsWell(Now) /\ Orderly(Now, {}) /\ dangling \in BOOLEAN
  BY DEF CombatInv, FightsWell
<1>2. char \in [Unit -> Char] /\ \A v \in Unit : char[v] \in Char
  BY <1>1, FrayParts, NowOfFights DEF Orderly
<1>3. h \in [Unit -> Char] /\ \A v \in Unit : h[v] = IF v = u THEN k ELSE char[v]
  BY <1>2
<1> HIDE DEF h
<1>4. \A v \in Unit : h[v].attackers = Now.char[v].attackers /\ (Now.char[v].here => h[v].here)
  BY <1>3, NowOfFights
<1>5. \A v \in Unit \ {} : (\E c \in Creature : v \in Now.npc[c].threat) => h[v].alive /\ h[v].inCombat
  <2> SUFFICES ASSUME NEW v \in Unit, NEW c \in Creature, v \in Now.npc[c].threat
               PROVE  h[v].alive /\ h[v].inCombat
    OBVIOUS
  <2>1. Now.char[v].alive /\ Now.char[v].inCombat
    BY <1>1 DEF Orderly, FoesThere
  <2> QED
    BY <1>3, <2>1, NowOfFights
<1>6. FightsWell([Now EXCEPT !.char = h])
  BY <1>1, <1>3, <1>4, <1>5, CharsChange DEF FightsWell
<1> QED
  BY <1>1, <1>6, FightsGoOnWell DEF h

(* Who is away or dead is on nobody's list, and has no attackers if nobody
   has it on the list. *)
LEMMA CharFacts ==
  ASSUME CombatInv, NEW u \in Unit
  PROVE  /\ char[u] \in Char /\ char \in [Unit -> Char] /\ Now \in Fray
         /\ (\E c \in Creature : u \in npc[c].threat) =>
              char[u].here /\ char[u].alive /\ char[u].inCombat /\ char[u].attackers # {}
         /\ (\A c \in Creature : u \notin npc[c].threat) => char[u].attackers = {}
<1>1. Orderly(Now, {})
  BY DEF CombatInv, FightsWell
<1>2. char[u] \in Char /\ char \in [Unit -> Char] /\ Now \in Fray
  BY <1>1, FrayParts, NowOfFights DEF Orderly
<1>3. \A c \in Creature : c \in char[u].attackers <=> u \in npc[c].threat
  BY <1>1, NowOfFights DEF Orderly, FoesKnown
<1>4. \A c \in Creature : u \in npc[c].threat => char[u].here /\ char[u].alive /\ char[u].inCombat
  BY <1>1, NowOfFights DEF Orderly, FoesThere
<1>5. char[u].attackers \subseteq Creature
  BY <1>2 DEF Char
<1> QED
  BY <1>2, <1>3, <1>4, <1>5

(* A character enters the world. *)
LEMMA CharacterEntersKeeps ==
  ASSUME CombatInv, NEW u \in Unit, NEW alive \in BOOLEAN, CharacterEnters(u, alive)
  PROVE  CombatInv'
<1> DEFINE k == [Away EXCEPT !.here = TRUE, !.alive = alive]
<1>1. k \in Char /\ k.here /\ k.attackers = {}
  BY DEF Away, Char
<1>2. ~char[u].here /\ SetTo([Now EXCEPT !.char[u] = k])
  BY DEF CharacterEnters
<1> HIDE DEF k
<1>3. [Now EXCEPT !.char[u] = k] = [Now EXCEPT !.char = [char EXCEPT ![u] = k]]
  BY NowOfFights
<1>4. (\A c \in Creature : u \notin npc[c].threat) /\ char[u].attackers = {}
  BY <1>2, CharFacts
<1> QED
  BY <1>1, <1>2, <1>3, <1>4, CharChange

(* A character is revived. *)
LEMMA ReviveKeeps ==
  ASSUME CombatInv, NEW u \in Unit, Revive(u)
  PROVE  CombatInv'
<1> DEFINE k == [char[u] EXCEPT !.alive = TRUE]
<1>1. char[u] \in Char /\ char \in [Unit -> Char] /\ Now \in Fray
  BY CharFacts
<1>2. k \in Char /\ k.here = char[u].here /\ k.attackers = char[u].attackers
  BY <1>1 DEF Char
<1>3. ~char[u].alive /\ SetTo([Now EXCEPT !.char[u].alive = TRUE])
  BY DEF Revive
<1>4. [Now EXCEPT !.char[u].alive = TRUE] = [Now EXCEPT !.char = [char EXCEPT ![u] = k]]
  BY NowOfFights
<1> HIDE DEF k
<1>5. \A c \in Creature : u \notin npc[c].threat
  BY <1>3, CharFacts
<1> QED
  BY <1>2, <1>3, <1>4, <1>5, CharChange

(* A fight of characters is over. *)
LEMMA DuelOverKeeps ==
  ASSUME CombatInv, NEW u \in Unit, DuelOver(u)
  PROVE  CombatInv'
<1> DEFINE k == [char[u] EXCEPT !.pvp = FALSE]
<1>1. /\ char[u] \in Char /\ char \in [Unit -> Char] /\ Now \in Fray
      /\ (\E c \in Creature : u \in npc[c].threat) => char[u].alive /\ char[u].inCombat
  BY CharFacts
<1>2. /\ k \in Char /\ k.here = char[u].here /\ k.attackers = char[u].attackers /\ k.alive = char[u].alive
      /\ k.inCombat = char[u].inCombat
  BY <1>1 DEF Char
<1>3. SetTo([Now EXCEPT !.char[u].pvp = FALSE])
  BY DEF DuelOver
<1>4. [Now EXCEPT !.char[u].pvp = FALSE] = [Now EXCEPT !.char = [char EXCEPT ![u] = k]]
  BY NowOfFights
<1> HIDE DEF k
<1> QED
  BY <1>1, <1>2, <1>3, <1>4, CharChange

(* A character is out of combat. *)
LEMMA RegenerateKeeps ==
  ASSUME CombatInv, NEW u \in Unit, Regenerate(u)
  PROVE  CombatInv'
<1> DEFINE k == [char[u] EXCEPT !.inCombat = FALSE]
<1>1. char[u] \in Char /\ char \in [Unit -> Char] /\ Now \in Fray
  BY CharFacts
<1>2. k \in Char /\ k.here = char[u].here /\ k.attackers = char[u].attackers
  BY <1>1 DEF Char
<1>3. char[u].attackers = {} /\ SetTo([Now EXCEPT !.char[u].inCombat = FALSE])
  BY DEF Regenerate
<1>4. [Now EXCEPT !.char[u].inCombat = FALSE] = [Now EXCEPT !.char = [char EXCEPT ![u] = k]]
  BY NowOfFights
<1> HIDE DEF k
<1>5. \A c \in Creature : u \notin npc[c].threat
  BY <1>3, CharFacts
<1> QED
  BY <1>2, <1>3, <1>4, <1>5, CharChange

(* Two characters fight. *)
LEMMA DuelKeeps ==
  ASSUME CombatInv, NEW u \in Unit, NEW v \in Unit, Duel(u, v)
  PROVE  CombatInv'
<1> DEFINE h == [x \in Unit |-> IF x \in {u, v} THEN [char[x] EXCEPT !.inCombat = TRUE, !.pvp = TRUE] ELSE char[x]]
<1>1. FightsWell(Now) /\ Orderly(Now, {}) /\ dangling \in BOOLEAN /\ \A x \in Unit : char[x] \in Char
  BY CharFacts DEF CombatInv, FightsWell
<1>2. SetTo([Now EXCEPT !.char = h])
  BY NowOfFights DEF Duel
<1>3. ASSUME NEW x \in Unit
      PROVE  /\ h[x] \in Char /\ h[x].here = char[x].here /\ h[x].alive = char[x].alive
             /\ h[x].attackers = char[x].attackers /\ (char[x].inCombat => h[x].inCombat)
  <2>1. CASE x \in {u, v}
    <3>1. h[x] = [char[x] EXCEPT !.inCombat = TRUE, !.pvp = TRUE]
      BY <2>1
    <3> HIDE DEF h
    <3> QED
      BY <1>1, <3>1 DEF Char
  <2>2. CASE x \notin {u, v}
    BY <1>1, <2>2
  <2> QED
    BY <2>1, <2>2
<1>4. h \in [Unit -> Char]
  BY <1>3
<1> HIDE DEF h
<1>5. \A x \in Unit : h[x].attackers = Now.char[x].attackers /\ (Now.char[x].here => h[x].here)
  BY <1>3, NowOfFights
<1>6. \A x \in Unit \ {} : (\E c \in Creature : x \in Now.npc[c].threat) => h[x].alive /\ h[x].inCombat
  BY <1>3, CharFacts, NowOfFights
<1>7. FightsWell([Now EXCEPT !.char = h])
  BY <1>1, <1>4, <1>5, <1>6, CharsChange DEF FightsWell
<1> QED
  BY <1>1, <1>2, <1>7, FightsGoOnWell

(* A character dies, and everyone drops it. *)
LEMMA CharacterDiesKeeps ==
  ASSUME CombatInv, NEW u \in Unit, CharacterDies(u)
  PROVE  CombatInv'
<1> DEFINE w == [Now EXCEPT !.char[u].alive = FALSE, !.char[u].inCombat = FALSE]
<1> DEFINE k == [char[u] EXCEPT !.alive = FALSE, !.inCombat = FALSE]
<1> DEFINE h == [char EXCEPT ![u] = k]
<1>1. FightsWell(Now) /\ Orderly(Now, {}) /\ dangling \in BOOLEAN /\ char[u] \in Char /\ char \in [Unit -> Char]
  BY CharFacts DEF CombatInv, FightsWell
<1>2. Forsake(w, u)
  BY DEF CharacterDies
<1>3. w = [Now EXCEPT !.char = h]
  <2> DEFINE g == [char EXCEPT ![u].alive = FALSE]
  <2> DEFINE a == [Now EXCEPT !.char[u].alive = FALSE]
  <2>1. w = [a EXCEPT !.char[u].inCombat = FALSE]
    OBVIOUS
  <2>2. a = [npc |-> npc, char |-> g, posted |-> posted]
    <3>1. a = [Now EXCEPT !.char = [Now.char EXCEPT ![u].alive = FALSE]]
      OBVIOUS
    <3>2. a = [Now EXCEPT !.char = g]
      BY <3>1, NowOfFights
    <3> HIDE DEF a, g
    <3> QED
      BY <3>2 DEF Now
  <2>3. [g EXCEPT ![u].inCombat = FALSE] = h
    BY <1>1 DEF Char
  <2> HIDE DEF a, g, h, w
  <2>4. w = [npc |-> npc, char |-> [g EXCEPT ![u].inCombat = FALSE], posted |-> posted]
    BY <2>1, <2>2
  <2>5. [Now EXCEPT !.char = h] = [npc |-> npc, char |-> h, posted |-> posted]
    BY DEF Now
  <2> QED
    BY <2>3, <2>4, <2>5
<1>4. k \in Char /\ k.here = char[u].here /\ k.attackers = char[u].attackers
  BY <1>1 DEF Char
<1> HIDE DEF k, w
<1>5. h \in [Unit -> Char] /\ \A v \in Unit : h[v] = IF v = u THEN k ELSE char[v]
  BY <1>1, <1>4
<1> HIDE DEF h
<1>6. \A v \in Unit : h[v].attackers = Now.char[v].attackers /\ (Now.char[v].here => h[v].here)
  BY <1>4, <1>5, NowOfFights
<1>7. \A v \in Unit \ {u} : (\E c \in Creature : v \in Now.npc[c].threat) => h[v].alive /\ h[v].inCombat
  BY <1>5, CharFacts, NowOfFights
<1>8. Orderly(w, {u}) /\ \A c \in Creature : Reasoned(w, c) /\ KillMarked(w, c)
  BY <1>1, <1>3, <1>5, <1>6, <1>7, CharsChange
<1>9. PICK found \in Finds(Dropped(w, u), DroppedBy(w, u)), again \in BOOLEAN :
        SetTo(Chosen(Dropped(w, u), u, DroppedBy(w, u), found, again))
  BY <1>2 DEF Forsake
<1> DEFINE x == Chosen(Dropped(w, u), u, DroppedBy(w, u), found, again)
<1>10. Orderly(x, {}) /\ \A c \in Creature : Reasoned(x, c) /\ KillMarked(x, c)
  BY <1>8, Forsakes
<1> QED
  BY <1>1, <1>9, <1>10, FightsGoOnWell DEF FightsWell

(* A character leaves, and everyone drops it; calls for help against it dangle. *)
LEMMA CharacterLeavesKeeps ==
  ASSUME CombatInv, NEW u \in Unit, CharacterLeaves(u)
  PROVE  CombatInv'
<1>1. PICK found \in Finds(Dropped(Now, u), DroppedBy(Now, u)), again \in BOOLEAN :
        LET alone == Chosen(Dropped(Now, u), u, DroppedBy(Now, u), found, again)
        IN  SetTo(Orphaned([alone EXCEPT !.char[u] = Away], LAMBDA f : f.call = "assist" /\ f.unit = u))
  BY DEF CharacterLeaves
<1> DEFINE a == Chosen(Dropped(Now, u), u, DroppedBy(Now, u), found, again)
<1> DEFINE z == [a EXCEPT !.char[u] = Away]
<1> DEFINE h == [a.char EXCEPT ![u] = Away]
<1> DEFINE q == a.posted
<1> DEFINE p == [i \in DOMAIN q |-> IF q[i].call = "assist" /\ q[i].unit = u THEN [q[i] EXCEPT !.call = "dangling"] ELSE q[i]]
<1> DEFINE x == [npc |-> a.npc, char |-> h, posted |-> p]
<1>2. FightsWell(Now) /\ Orderly(Now, {}) /\ dangling \in BOOLEAN
  BY DEF CombatInv, FightsWell
<1>3. Orderly(Now, {u}) /\ \A c \in Creature : Reasoned(Now, c) /\ KillMarked(Now, c)
  BY <1>2 DEF FightsWell, Orderly, FoesThere
<1>4. Orderly(a, {}) /\ \A c \in Creature : Reasoned(a, c) /\ KillMarked(a, c) /\ u \notin a.npc[c].threat
  BY <1>3, Forsakes
<1>5. SetTo([z EXCEPT !.posted = [i \in DOMAIN @ |-> IF @[i].call = "assist" /\ @[i].unit = u THEN [@[i] EXCEPT !.call = "dangling"] ELSE @[i]]])
  BY <1>1 DEF Orphaned
<1> HIDE DEF a
<1>6. /\ a \in Fray /\ a.npc \in [Creature -> Npc] /\ a.char \in [Unit -> Char]
      /\ \A v \in Unit : a.char[v] \in Char
      /\ q \in Seq(Function) /\ Len(q) \in Nat /\ DOMAIN q = 1 .. Len(q)
      /\ \A i \in DOMAIN q : q[i] \in Function
  BY <1>4, FrayParts DEF Orderly
<1>7. z = [npc |-> a.npc, char |-> h, posted |-> q]
  BY <1>6 DEF Fray
<1>8. SetTo(x)
  <2> HIDE DEF z, h, q
  <2>1. z.posted = q
    BY <1>7
  <2>2. SetTo([z EXCEPT !.posted = p])
    BY <1>5, <2>1
  <2> HIDE DEF p
  <2>3. [z EXCEPT !.posted = p] = x
    BY <1>7
  <2> QED
    BY <2>2, <2>3
<1>9. Away \in Char /\ Away.attackers = {}
  BY DEF Away, Char
<1>10. h \in [Unit -> Char] /\ \A v \in Unit : h[v] = IF v = u THEN Away ELSE a.char[v]
  BY <1>6, <1>9
<1> HIDE DEF q, h, z
<1>11. ASSUME NEW i \in DOMAIN q
       PROVE  /\ p[i] \in Function /\ p[i].npc = q[i].npc /\ p[i].unit = q[i].unit
              /\ q[i].call # "assist" => p[i].call = q[i].call
              /\ q[i].call = "assist" /\ q[i].unit = u => p[i].call = "dangling"
              /\ q[i].call = "assist" /\ q[i].unit # u => p[i].call = q[i].call
  <2>1. q[i] \in Function
    BY <1>6
  <2>2. /\ [q[i] EXCEPT !.call = "dangling"] \in Function
        /\ [q[i] EXCEPT !.call = "dangling"].npc = q[i].npc
        /\ [q[i] EXCEPT !.call = "dangling"].unit = q[i].unit
        /\ [q[i] EXCEPT !.call = "dangling"].call = "dangling"
    BY <2>1 DEF Function
  <2>3. CASE q[i].call = "assist" /\ q[i].unit = u
    <3>1. p[i] = [q[i] EXCEPT !.call = "dangling"]
      BY <2>3
    <3> HIDE DEF p
    <3> QED
      BY <2>2, <2>3, <3>1
  <2>4. CASE ~(q[i].call = "assist" /\ q[i].unit = u)
    <3>1. p[i] = q[i]
      BY <2>4
    <3> HIDE DEF p
    <3> QED
      BY <2>1, <2>4, <3>1
  <2> QED
    BY <2>3, <2>4
<1>12. p \in Seq(Function) /\ DOMAIN p = DOMAIN q
  <2>1. p = [i \in 1 .. Len(q) |-> p[i]]
    BY <1>6
  <2>2. \A i \in 1 .. Len(q) : p[i] \in Function
    BY <1>6, <1>11
  <2> HIDE DEF p
  <2>3. [i \in 1 .. Len(q) |-> p[i]] \in Seq(Function)
    BY <1>6, <2>2
  <2>4. DOMAIN p = 1 .. Len(q)
    BY <2>1
  <2> QED
    BY <1>6, <2>1, <2>3, <2>4
<1> HIDE DEF p
<1>13. x \in Fray /\ x.npc = a.npc /\ x.char = h /\ x.posted = p
  BY <1>6, <1>10, <1>12 DEF Fray
<1> HIDE DEF x
<1>14. AllFoesFit(x)
  BY <1>4, <1>13 DEF AllFoesFit, Orderly
<1>15. FoesKnown(x)
  <2> SUFFICES ASSUME NEW c \in Creature, NEW v \in Unit
               PROVE  c \in h[v].attackers <=> v \in a.npc[c].threat
    BY <1>13 DEF FoesKnown
  <2>1. c \in a.char[v].attackers <=> v \in a.npc[c].threat
    BY <1>4 DEF Orderly, FoesKnown
  <2> QED
    BY <1>4, <1>9, <1>10, <2>1
<1>16. FoesThere(x, {})
  <2> SUFFICES ASSUME NEW c \in Creature, NEW v \in a.npc[c].threat
               PROVE  h[v].here /\ h[v].alive /\ h[v].inCombat
    BY <1>13 DEF FoesThere
  <2>1. a.npc[c] \in Npc
    BY <1>6
  <2>2. v \in Unit /\ v # u
    BY <1>4, <2>1 DEF Npc
  <2>3. a.char[v].here /\ a.char[v].alive /\ a.char[v].inCombat
    BY <1>4 DEF Orderly, FoesThere
  <2> QED
    BY <1>10, <2>2, <2>3
<1>17. CallsFit(x)
  <2> SUFFICES ASSUME NEW i \in DOMAIN q PROVE CallFits(x, p[i])
    BY <1>12, <1>13 DEF CallsFit
  <2>1. CallFits(a, q[i])
    BY <1>4 DEF Orderly, CallsFit, q
  <2>2. ASSUME p[i].call = "choose" PROVE a.npc[p[i].npc].state = "combat"
    <3>1. q[i].call = "choose" /\ p[i].npc = q[i].npc
      BY <1>11, <2>2
    <3> QED
      BY <2>1, <3>1 DEF CallFits
  <2>3. ASSUME p[i].call = "assist" PROVE p[i].unit \in Unit /\ h[p[i].unit].here
    <3>1. q[i].call = "assist" /\ q[i].unit # u /\ p[i].unit = q[i].unit
      BY <1>11, <2>3
    <3> QED
      BY <1>10, <2>1, <3>1 DEF CallFits
  <2> QED
    BY <1>13, <2>2, <2>3 DEF CallFits
<1>18. ASSUME NEW c \in Creature PROVE Reasoned(x, c) /\ KillMarked(x, c)
  <2>1. ASSUME WillChoose(a, c) PROVE WillChoose(x, c)
    <3>1. PICK i \in DOMAIN q : q[i].call = "choose" /\ q[i].npc = c
      BY <2>1 DEF WillChoose, q
    <3>2. p[i].call = "choose" /\ p[i].npc = c
      BY <1>11, <3>1
    <3> QED
      BY <1>12, <1>13, <3>2 DEF WillChoose
  <2> QED
    BY <1>4, <1>13, <2>1 DEF Reasoned, KillMarked
<1>19. FightsWell(x)
  BY <1>13, <1>14, <1>15, <1>16, <1>17, <1>18 DEF FightsWell, Orderly
<1>20. SetTo(x)
  BY <1>8 DEF x
<1> QED
  BY <1>2, <1>19, <1>20, FightsGoOnWell

(* A posted function runs. *)
LEMMA RunPostedKeeps ==
  ASSUME CombatInv, RunPosted
  PROVE  CombatInv'
<1> DEFINE f == Head(posted)
<1> DEFINE w == [Now EXCEPT !.posted = Tail(@)]
<1> DEFINE q == posted
<1>1. FightsWell(Now) /\ Orderly(Now, {}) /\ dangling \in BOOLEAN /\ Now \in Fray
  BY DEF CombatInv, FightsWell, Orderly
<1>2. q \in Seq(Function) /\ q # <<>> /\ Len(q) \in Nat
  BY <1>1, FrayParts, NowOfFights DEF RunPosted
<1>3. /\ Tail(q) \in Seq(Function) /\ Len(q) \in Nat \ {0} /\ DOMAIN q = 1 .. Len(q)
      /\ DOMAIN Tail(q) = 1 .. Len(q) - 1 /\ \A i \in 1 .. Len(q) - 1 : Tail(q)[i] = q[i + 1]
      /\ f = q[1] /\ f \in Function
  BY <1>2
<1>4. f.npc \in Creature /\ CallFits(Now, f)
  <2>1. 1 \in DOMAIN Now.posted /\ Now.posted[1] = f
    BY <1>3, NowOfFights
  <2> HIDE DEF f
  <2> QED
    BY <1>1, <1>3, <2>1 DEF Orderly, CallsFit, Function
<1>5. w = [npc |-> npc, char |-> char, posted |-> Tail(q)]
  <2> DEFINE t == Tail(Now.posted)
  <2>1. w = [Now EXCEPT !.posted = t]
    OBVIOUS
  <2>2. t = Tail(q)
    BY NowOfFights
  <2> HIDE DEF t, w
  <2>3. w = [npc |-> npc, char |-> char, posted |-> t]
    BY <2>1 DEF Now
  <2> QED
    BY <2>2, <2>3
<1>6. w.npc = npc /\ w.char = char /\ w.posted = Tail(q)
  BY <1>5
<1>7. w \in Fray
  BY <1>1, <1>3, <1>5, NowOfFights, FrayParts DEF Fray
<1> HIDE DEF w, f
<1>8. Orderly(w, {})
  <2>1. AllFoesFit(w) /\ FoesKnown(w) /\ FoesThere(w, {})
    BY <1>1, <1>6, NowOfFights DEF Orderly, AllFoesFit, FoesKnown, FoesThere
  <2>2. CallsFit(w)
    <3> SUFFICES ASSUME NEW i \in 1 .. Len(q) - 1 PROVE CallFits(w, Tail(q)[i])
      BY <1>3, <1>6 DEF CallsFit
    <3>1. i + 1 \in DOMAIN q /\ Tail(q)[i] = q[i + 1]
      BY <1>3
    <3>2. CallFits(Now, q[i + 1])
      BY <1>1, <3>1, NowOfFights DEF Orderly, CallsFit
    <3> QED
      BY <1>6, <3>1, <3>2, NowOfFights DEF CallFits
  <2> QED
    BY <1>7, <2>1, <2>2 DEF Orderly
<1>9. ASSUME NEW d \in Creature, f.call # "choose" \/ d # f.npc
      PROVE  Reasoned(w, d) /\ KillMarked(w, d)
  <2>1. Reasoned(Now, d) /\ KillMarked(Now, d)
    BY <1>1 DEF FightsWell
  <2>2. ASSUME WillChoose(Now, d) PROVE WillChoose(w, d)
    <3>1. PICK i \in DOMAIN q : q[i].call = "choose" /\ q[i].npc = d
      BY <2>2, NowOfFights DEF WillChoose
    <3>2. i # 1
      BY <1>3, <1>9, <3>1
    <3>3. i - 1 \in 1 .. Len(q) - 1 /\ Tail(q)[i - 1] = q[i]
      BY <1>3, <3>2
    <3>4. i - 1 \in DOMAIN Tail(q) /\ Tail(q)[i - 1].call = "choose" /\ Tail(q)[i - 1].npc = d
      BY <1>3, <3>1, <3>3
    <3> QED
      BY <1>6, <3>4 DEF WillChoose
  <2> QED
    BY <1>6, <2>1, <2>2, NowOfFights DEF Reasoned, KillMarked
<1>10. FightsWellBut(w, f.npc) /\ (f.call # "choose" => FightsWell(w))
  BY <1>4, <1>8, <1>9 DEF FightsWellBut, FightsWell
<1>11. CASE f.call = "expired" /\ SetTo(w)
  BY <1>1, <1>10, <1>11, FightsGoOnWell
<1>12. CASE f.call = "dangling" /\ dangling' = TRUE /\ posted' = Tail(posted) /\ UNCHANGED <<npc, char>>
  <2>1. FightsWell(w)
    BY <1>10, <1>12
  <2>2. w = [npc |-> npc', char |-> char', posted |-> posted']
    BY <1>5, <1>12
  <2> QED
    BY <1>12, <2>1, <2>2 DEF CombatInv, Now
<1>13. CASE f.call = "idle" /\ SetTo(SetState(w, f.npc, "idle"))
  <2> DEFINE x == SetState(w, f.npc, "idle")
  <2>1. "idle" \in Peaceful
    BY DEF Peaceful
  <2>2. Orderly(x, {}) /\ Elsewhere(w, x, f.npc) /\ x.npc[f.npc].state = "idle"
    BY <1>4, <1>8, <2>1, StateSet
  <2>3. SetTo(x)
    BY <1>13
  <2> HIDE DEF x
  <2>4. Reasoned(x, f.npc) /\ KillMarked(x, f.npc)
    BY <2>2 DEF Reasoned, KillMarked
  <2>5. FightsWell(x)
    BY <1>4, <1>10, <2>2, <2>4, WellElsewhere
  <2> QED
    BY <1>1, <2>3, <2>5, FightsGoOnWell
<1>14. CASE /\ f.call = "choose"
            /\ \E found \in Findable(w, f.npc), again \in BOOLEAN :
                        SetTo(ChooseNextAction(w, f.npc, found, again))
  <2>1. PICK found \in Findable(w, f.npc), again \in BOOLEAN : SetTo(ChooseNextAction(w, f.npc, found, again))
    BY <1>14
  <2>2. w.npc[f.npc].state = "combat"
    BY <1>4, <1>6, <1>14, NowOfFights DEF CallFits
  <2>3. FightsWell(ChooseNextAction(w, f.npc, found, again))
    BY <1>4, <1>10, <2>2, WellChosen
  <2> QED
    BY <1>1, <2>1, <2>3, FightsGoOnWell
<1>15. CASE /\ f.call = "assist"
            /\ \E found \in Findable(Threatened(w, f.npc, f.unit), f.npc), again \in BOOLEAN :
                 SetTo(Threaten(w, f.npc, f.unit, found, again))
  <2>1. PICK found \in Findable(Threatened(w, f.npc, f.unit), f.npc), again \in BOOLEAN :
          SetTo(Threaten(w, f.npc, f.unit, found, again))
    BY <1>15
  <2> DEFINE x == Threaten(w, f.npc, f.unit, found, again)
  <2>2. f.unit \in Unit /\ w.char[f.unit].here
    BY <1>4, <1>6, <1>15, NowOfFights DEF CallFits
  <2>3. FightsWell(w) /\ Reasoned(w, f.npc) /\ KillMarked(w, f.npc)
    BY <1>4, <1>10, <1>15 DEF FightsWell
  <2>4. Orderly(x, {}) /\ Elsewhere(w, x, f.npc)
    BY <1>4, <1>8, <2>2, Threatens
  <2>5. Reasoned(x, f.npc)
    BY <1>4, <1>8, <2>2, <2>3, Threatens
  <2>6. w.npc[f.npc].state \in {"prepare", "idle", "combat"} => x.npc[f.npc].state = "combat"
    BY <1>4, <1>8, <2>2, Threatens
  <2>7. w.npc[f.npc].state \notin {"prepare", "idle", "combat"} => x = w
    BY <1>4, <1>8, <2>2, Threatens
  <2>8. SetTo(x)
    BY <2>1
  <2> HIDE DEF x
  <2>9. KillMarked(x, f.npc)
    <3>1. CASE w.npc[f.npc].state \in {"prepare", "idle", "combat"}
      <4>1. x.npc[f.npc].state # "death"
        BY <2>6, <3>1
      <4> QED
        BY <4>1 DEF KillMarked
    <3>2. CASE w.npc[f.npc].state \notin {"prepare", "idle", "combat"}
      BY <2>3, <2>7, <3>2
    <3> QED
      BY <3>1, <3>2
  <2>10. FightsWell(x)
    BY <1>4, <1>10, <2>4, <2>5, <2>9, WellElsewhere
  <2> QED
    BY <1>1, <2>8, <2>10, FightsGoOnWell
<1> QED
  BY <1>11, <1>12, <1>13, <1>14, <1>15 DEF RunPosted, w, f

-----------------------------------------------------------------------------

(* Nobody is there. *)
LEMMA CombatStarts == CombatInit => CombatInv
<1> SUFFICES ASSUME CombatInit PROVE CombatInv
  OBVIOUS
<1>1. NotThere \in Npc /\ NotThere.state = "none" /\ NotThere.threat = {} /\ FoeFits(NotThere)
  BY DEF NotThere, Npc, FoeFits
<1>2. Away \in Char /\ Away.attackers = {}
  BY DEF Away, Char
<1>3. npc \in [Creature -> Npc] /\ char \in [Unit -> Char] /\ posted = <<>> /\ dangling \in BOOLEAN
  BY <1>1, <1>2 DEF CombatInit
<1>4. posted \in Seq(Function) /\ DOMAIN posted = {}
  BY <1>3
<1>5. Now \in Fray
  BY <1>3, <1>4 DEF Now, Fray
<1>6. (\A c \in Creature : npc[c] = NotThere) /\ \A u \in Unit : char[u] = Away
  BY DEF CombatInit
<1>7. AllFoesFit(Now)
  BY <1>1, <1>6, NowOfFights DEF AllFoesFit
<1>8. FoesKnown(Now)
  BY <1>1, <1>2, <1>6, NowOfFights DEF FoesKnown
<1>9. FoesThere(Now, {})
  BY <1>1, <1>6, NowOfFights DEF FoesThere
<1>10. CallsFit(Now)
  BY <1>4, NowOfFights DEF CallsFit
<1>11. \A c \in Creature : Reasoned(Now, c) /\ KillMarked(Now, c)
  BY <1>1, <1>6, NowOfFights DEF Reasoned, KillMarked
<1> QED
  BY <1>3, <1>5, <1>7, <1>8, <1>9, <1>10, <1>11 DEF CombatInv, FightsWell, Orderly

(* Attackers and enemies agree, everyone who fights has a reason to and every
   kill is someone's, beside what a posted function may rely on when it runs:
   the invariant of fights that every handler keeps. *)
THEOREM CombatSound == CombatSpec => []CombatInv
<1>1. CombatInit => CombatInv
  BY CombatStarts
<1>2. CombatInv /\ [CombatNext]_combatVars => CombatInv'
  <2> SUFFICES ASSUME CombatInv, [CombatNext]_combatVars PROVE CombatInv'
    OBVIOUS
  <2>1. CASE Fighting
    BY <2>1, DealDamageKeeps, HealThreatKeeps, AggroKeeps, NextActionKeeps, LeashKeeps, HoldOnKeeps,
       HoldOffKeeps, SetCombatMovementKeeps DEF Fighting
  <2>2. CASE Life
    BY <2>2, SpawnKeeps, CreatureDespawnsKeeps, PreparedKeeps, HomeReachedKeeps, NoPathHomeKeeps, CharacterEntersKeeps,
       CharacterLeavesKeeps, CharacterDiesKeeps, ReviveKeeps, DuelOverKeeps, RegenerateKeeps, DuelKeeps DEF Life
  <2>3. CASE RunPosted
    BY <2>3, RunPostedKeeps
  <2>4. CASE UNCHANGED combatVars
    <3>1. Now' = Now /\ dangling' = dangling
      BY <2>4 DEF combatVars, Now
    <3>2. FightsWell(Now')
      BY <3>1 DEF CombatInv
    <3> QED
      BY <3>1, <3>2 DEF CombatInv, Now
  <2> QED
    BY <2>1, <2>2, <2>3, <2>4 DEF CombatNext
<1> QED
  BY <1>1, <1>2, PTL DEF CombatSpec

(* The types of a fight. *)
THEOREM CombatTypeCorrect == CombatSpec => []CombatTypeOK
<1>1. CombatInv => CombatTypeOK
  <2> SUFFICES ASSUME CombatInv PROVE CombatTypeOK
    OBVIOUS
  <2>1. Orderly(Now, {}) /\ dangling \in BOOLEAN /\ Now \in Fray
    BY DEF CombatInv, FightsWell, Orderly
  <2>2. npc \in [Creature -> Npc] /\ char \in [Unit -> Char] /\ posted \in Seq(Function)
    BY <2>1, FrayParts, NowOfFights
  <2>3. \A c \in Creature : npc[c].armed => npc[c].state = "combat"
    BY <2>1, NowOfFights DEF Orderly, AllFoesFit, FoeFits
  <2> QED
    BY <2>1, <2>2, <2>3 DEF CombatTypeOK
<1> QED
  BY <1>1, CombatSound, PTL

(* Creatures and characters know of the same fights, however the signals of
   deaths, leaves and posted choices fall (addAttackingUnit, onVictimKilled). *)
THEOREM FoesAgree == CombatSpec => []EnemiesAgree
<1>1. CombatInv => EnemiesAgree
  <2> SUFFICES ASSUME CombatInv PROVE EnemiesAgree
    OBVIOUS
  <2>1. Orderly(Now, {})
    BY DEF CombatInv, FightsWell
  <2>2. AttackersAgree
    BY <2>1, NowOfFights DEF Orderly, FoesKnown, AttackersAgree
  <2>3. \A c \in Creature : FoeFits(npc[c]) /\ \A u \in npc[c].threat : char[u].here /\ char[u].alive /\ char[u].inCombat
    BY <2>1, NowOfFights DEF Orderly, AllFoesFit, FoesThere
  <2>4. VictimIsEnemy
    BY <2>3 DEF VictimIsEnemy, FoeFits
  <2> QED
    BY <2>2, <2>4 DEF EnemiesAgree
<1> QED
  BY <1>1, CombatSound, PTL

(* No creature fights on without an enemy or a choice to come, and each that
   was killed is someone's to loot (chooseNextAction, onDamage). *)
THEOREM FightsGoOn == CombatSpec => []FightsKept
<1>1. CombatInv => FightsKept
  BY NowOfFights DEF CombatInv, FightsWell, Reasoned, WillChoose, KillMarked, FightsKept, FightHasReason, KillIsTagged
<1> QED
  BY <1>1, CombatSound, PTL

-----------------------------------------------------------------------------
(* All of it.  A behaviour of MCWorldNode is one of each of its parts: a step
   of one part leaves the variables of the others alone, and what keeps a part
   small for TLC only leaves steps out. *)

THEOREM PartsOfNode == WorldNodeSpec => Spec /\ CombatSpec /\ LootSpec /\ SpawnSpec
<1>1. WorldNodeInit => Init /\ CombatInit /\ LootInit /\ SpawnInit
  BY DEF WorldNodeInit
<1>2. [WorldNodeNext]_nodeVars => [Next]_vars
  BY DEF WorldNodeNext, OthersStay, nodeVars
<1>3. [WorldNodeNext]_nodeVars => [CombatNext]_combatVars
  BY DEF WorldNodeNext, OthersStay, nodeVars
<1>4. [WorldNodeNext]_nodeVars => [LootNext]_lootVars
  BY DEF WorldNodeNext, OthersStay, nodeVars
<1>5. [WorldNodeNext]_nodeVars => [SpawnNext]_spawner
  BY DEF WorldNodeNext, OthersStay, nodeVars
<1> QED
  BY <1>1, <1>2, <1>3, <1>4, <1>5, PTL DEF WorldNodeSpec, Spec, CombatSpec, LootSpec, SpawnSpec

(* The types of the transfer, of creatures in combat, of loot and of spawn
   points. *)
THEOREM NodeTypeCorrect == WorldNodeSpec => []NodeTypeOK
<1>1. TypeOK /\ CombatTypeOK /\ LootTypeOK /\ SpawnTypeOK => NodeTypeOK
  BY DEF NodeTypeOK
<1> QED
  BY <1>1, PartsOfNode, TypeCorrect, CombatTypeCorrect, LootTypeCorrect, SpawnTypeCorrect, PTL

(* What was shown of each part holds of a behaviour of the node: the safety
   invariants the runs check, and that the transfer is one journey. *)
THEOREM NodeSound ==
  WorldNodeSpec =>
    /\ IsOneJourney
    /\ [](/\ WhereaboutsAgree /\ ProgressKept /\ EnemiesAgree /\ FightsKept
          /\ LootShown /\ HandedOutOnce /\ SpawnersKept)
BY PartsOfNode, JourneyIsOne, WhereaboutsKnown, ProgressIsKept, FoesAgree, FightsGoOn,
   LootIsShown, NothingTwice, SpawnersAreKept, PTL
=============================================================================
