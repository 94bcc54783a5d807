----------------------------- MODULE MCWorldNode -----------------------------
(***************************************************************************)
(* The parts of a world node for TLC.  They share no state that is         *)
(* modelled, so that one run takes each part by itself: `part' says which  *)
(* one moves, the others stay as they started.                             *)
(***************************************************************************)
EXTENDS WorldTransfer, CreatureCombat, Loot, Spawner, TLC

CONSTANTS
  c1, c2, u1, u2,       \* creatures and characters in combat
  p1, p2, corpse, chest, box,  \* characters and sources of loot
  objects, creatures    \* spawn points

VARIABLE part
nodeVars == <<part, vars, combatVars, lootVars, spawner>>

MCMayHold == corpse :> {1, 2} @@ chest :> {1, 2} @@ box :> {1}
MCOwnerOf == box :> p1
MCMaxCount == objects :> 2 @@ creatures :> 2

\* Two combats are looked at: a pack of creatures against one character, and
\* one creature held in every way against two characters.
Pack == \A u \in Unit \ {u1} : ~char'[u].here
PackHold == \A c \in Creature : npc'[c].held \subseteq {"Stunned"}
Siege == \A c \in Creature \ {c1} : npc'[c].state = "none"
\* One source of loot exists at a time, beside a box that was removed under an
\* open dialog.
OneSource == Cardinality({s \in Source : loot'[s].there}) <= 1

WorldNodeInit ==
  /\ part \in {"transfer", "pack", "siege", "loot", "spawner"}
  /\ Init /\ CombatInit /\ LootInit /\ SpawnInit
  /\ part # "spawner" => \A s \in Spawner : spawner[s].active /\ spawner[s].respawn

OthersStay(p) ==
  /\ p # "transfer" => UNCHANGED vars
  /\ p \notin {"pack", "siege"} => UNCHANGED combatVars
  /\ p # "loot" => UNCHANGED lootVars
  /\ p # "spawner" => UNCHANGED spawner

WorldNodeNext ==
  /\ UNCHANGED part
  /\ \/ part = "transfer" /\ Next
     \/ part = "pack" /\ CombatNext /\ Pack /\ PackHold
     \/ part = "siege" /\ CombatNext /\ Siege
     \/ part = "loot" /\ LootNext /\ OneSource
     \/ part = "spawner" /\ SpawnNext
  /\ OthersStay(part)

\* The fairness of WorldTransfer's FairSpec, CombatFairness.
WorldNodeFairness ==
  /\ \A n \in Node :
       /\ WF_vars(part = "transfer" /\ RealmHandles(n))
       /\ WF_vars(part = "transfer" /\ NodeHandles(n))
  /\ WF_combatVars(part \in {"pack", "siege"} /\ ~dangling /\ RunPosted)
  /\ \A c \in Creature : WF_combatVars(part \in {"pack", "siege"} /\ ~dangling /\ HomeReached(c))

\* The types of the five parts.
NodeTypeOK == TypeOK /\ CombatTypeOK /\ LootTypeOK /\ SpawnTypeOK

WorldNodeSpec == WorldNodeInit /\ [][WorldNodeNext]_nodeVars /\ WorldNodeFairness
=============================================================================
