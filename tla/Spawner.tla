------------------------------ MODULE Spawner ------------------------------
(***************************************************************************)
(* The spawn points of a world instance: WorldObjectSpawner keeps a number *)
(* of objects there, CreatureSpawner a number of creatures, which triggers *)
(* may switch off and on.  Each has one countdown for the next respawn.    *)
(***************************************************************************)
EXTENDS Naturals

CONSTANTS
  Spawner,        \* spawn points
  ObjectSpawner,  \* those of objects
  MaxCount        \* [Spawner -> Nat], how many a spawn point keeps

ASSUME SpawnerAssumption ==
  /\ ObjectSpawner \subseteq Spawner
  /\ MaxCount \in [Spawner -> Nat \ {0}]

CreatureSpawner == Spawner \ ObjectSpawner

\* m_currentlySpawned, the countdown, m_active and m_respawn of each
VARIABLES
  spawner

\* Members of a spawn point
SpawnRecord == [spawned : Nat, countdown : BOOLEAN, active : BOOLEAN, respawn : BOOLEAN]

(* Types. *)
SpawnTypeOK == spawner \in [Spawner -> SpawnRecord]

Fresh(s, active, respawn) ==
  [spawned |-> IF active THEN MaxCount[s] ELSE 0, countdown |-> FALSE, active |-> active, respawn |-> respawn]
SpawnInit ==
  \E active \in [Spawner -> BOOLEAN], respawn \in [Spawner -> BOOLEAN] :
    /\ \A s \in ObjectSpawner : active[s] /\ respawn[s]
    /\ spawner = [s \in Spawner |-> Fresh(s, active[s], respawn[s])]

-----------------------------------------------------------------------------

\* setRespawnTimer
WithRespawnTimer(s, r) == IF r.spawned >= MaxCount[s] THEN r ELSE [r EXCEPT !.countdown = TRUE]

\* onSpawnTime
Respawned(s, r) == WithRespawnTimer(s, [r EXCEPT !.spawned = @ + 1, !.countdown = FALSE])

\* onRemoval
Removed(s, r) == WithRespawnTimer(s, [r EXCEPT !.spawned = @ - 1])

\* It fills up whatever is left.
SwitchedFull(s, r, active) ==
  IF r.active = active THEN r
  ELSE IF active THEN [r EXCEPT !.spawned = @ + MaxCount[s], !.active = active]
  ELSE [r EXCEPT !.countdown = FALSE, !.active = active]
\* setState of the creatures' spawner
Switched(s, r, active) ==
  IF r.active = active THEN r
  ELSE IF active /\ r.spawned = 0 THEN [r EXCEPT !.spawned = MaxCount[s], !.active = active]
  ELSE [r EXCEPT !.countdown = FALSE, !.active = active]

\* setRespawn of the creatures' spawner
RespawnSet(s, r, enabled) ==
  IF r.respawn = enabled THEN r
  ELSE IF enabled THEN [WithRespawnTimer(s, r) EXCEPT !.respawn = enabled]
  ELSE [r EXCEPT !.countdown = FALSE, !.respawn = enabled]

OnSpawnTime(s) ==
  /\ spawner[s].countdown
  /\ spawner' = [spawner EXCEPT ![s] = Respawned(s, @)]

\* A creature or object of the spawn point is removed from its world.
OnRemoval(s) ==
  /\ spawner[s].spawned > 0
  /\ spawner' = [spawner EXCEPT ![s] = Removed(s, @)]

\* Triggers switch creatures only.
SetSpawnState(s, active) ==
  /\ s \in CreatureSpawner
  /\ spawner' = [spawner EXCEPT ![s] = Switched(s, @, active)]

SetRespawnState(s, enabled) ==
  /\ s \in CreatureSpawner
  /\ spawner' = [spawner EXCEPT ![s] = RespawnSet(s, @, enabled)]

SpawnNext ==
  \E s \in Spawner :
    \/ OnSpawnTime(s) \/ OnRemoval(s)
    \/ \E on \in BOOLEAN : SetSpawnState(s, on) \/ SetRespawnState(s, on)

SpawnSpec == SpawnInit /\ [][SpawnNext]_spawner

-----------------------------------------------------------------------------
(* Properties. *)

(* A spawn point of objects never holds too many, which spawnOne ASSERTs, and
   while it holds too few its countdown runs. *)
ObjectsKept ==
  \A s \in ObjectSpawner :
    /\ spawner[s].spawned <= MaxCount[s]
    /\ spawner[s].countdown <=> spawner[s].spawned < MaxCount[s]

(* A spawn point of creatures that triggers switch off and on while its
   countdown runs may hold one too many ("Maximum number of creatures to
   spawn", CreatureSpawner), and never more. *)
AtMostOneTooMany ==
  \A s \in CreatureSpawner :
    /\ spawner[s].spawned <= MaxCount[s] + 1
    /\ spawner[s].countdown => spawner[s].spawned <= MaxCount[s]

(* A spawn point that is switched on and may respawn does not stay empty:
   whatever the triggers did before, its countdown runs (setState and
   setRespawn, which both cancel it). *)
EmptyIsRefilled ==
  \A s \in Spawner :
    spawner[s].active /\ spawner[s].respawn /\ spawner[s].spawned = 0 => spawner[s].countdown

(* Counter, countdown and the two switches of a spawn point fit together,
   whatever triggers do between a removal and the end of its countdown. *)
SpawnersKept == ObjectsKept /\ AtMostOneTooMany /\ EmptyIsRefilled
=============================================================================
