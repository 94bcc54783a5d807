----------------------------- MODULE MCRestarts -----------------------------
(* What a character keeps over a restart or a login: its group, and its log *)
(* of quests.  They share no state, so that one run takes PlayerGroup and   *)
(* Quests one at a time.                                                    *)
EXTENDS PlayerGroupHistory, Quests, TLC

CONSTANT Wolf  \* a creature's entry
VARIABLE part
keptVars == <<part, historyVars, questVars>>

\* Quest 1 starts with item 2 and asks for it, for two of item 1 and for an
\* exploration; quest 2 is offered by item 2, asks for one of item 1 and a kill,
\* and is rewarded with item 2.
MCWants == (1 :> (1 :> 2 @@ 2 :> 1)) @@ (2 :> (1 :> 1 @@ 2 :> 0))
MCPrey == (1 :> NoCreature) @@ (2 :> Wolf)
MCKills == (1 :> 0) @@ (2 :> 1)
MCSourceItem == (1 :> 2) @@ (2 :> 0)
MCPrize == (1 :> 0) @@ (2 :> 2)
MCGiver == (1 :> 0) @@ (2 :> 2)
MCPrevious == (1 :> 0) @@ (2 :> 0)

\* Bounds: one character at a time is leaving its node or between two; one quest
\* at a time is on its way to the database or could not be written, which
\* happens to quest 2; the inventory changes once before it is saved again.
OneGoes ==
  Cardinality({c \in Char : left'[c] \/ session'[c] \in {"leaving", "moving", "lost"}}) <= 1
OneUnwritten == Cardinality(stored'.due \union stored'.failed) <= 1 /\ stored'.failed \subseteq {2}
OneUnsaved == pack' # pack /\ savedPack # pack => savedPack' = pack'

RestartsInit == part \in {"group", "quests"} /\ HistoryInit /\ QuestInit

RestartsNext ==
  /\ UNCHANGED part
  /\ \/ part = "group" /\ HistoryNext /\ OneGoes /\ UNCHANGED questVars
     \/ part = "quests" /\ QuestNext /\ OneUnwritten /\ OneUnsaved /\ UNCHANGED historyVars

\* No action and no property of the run depends on the cache of needed items.
WithoutNeeded == <<part, historyVars, [quests EXCEPT !.needed = {}], pack, savedPack, stored>>

RestartsSpec == RestartsInit /\ [][RestartsNext]_keptVars
=============================================================================
