-------------------------------- MODULE Loot --------------------------------
(***************************************************************************)
(* Loot of dead creatures, chests and items one can open, and the loot     *)
(* dialogs of the players: several may look at the same loot, whoever      *)
(* takes the last of it closes every dialog and removes its source, all    *)
(* inside of one signal (LootInstance::cleared).                           *)
(*                                                                         *)
(* A loot instance is rolled at random from what its source may hold.      *)
(* Shared items exist once for every recipient.                            *)
(***************************************************************************)
EXTENDS Naturals, FiniteSets

CONSTANTS
  Looter,              \* characters
  Corpse, Chest, Box,  \* sources of loot: dead creatures, objects, items
  NoSource,            \* no dialog is open
  LootSlot, SharedSlot,  \* slots of a loot instance, those of party-shared items
  MayHold,             \* [Source -> SUBSET LootSlot], what may be rolled
  Golds,               \* amounts of money a loot may hold
  OwnerOf              \* [Box -> Looter], who carries the box

Source == Corpse \union Chest \union Box

ASSUME LootAssumption ==
  /\ Corpse \intersect Chest = {} /\ Corpse \intersect Box = {} /\ Chest \intersect Box = {}
  /\ NoSource \notin Source
  /\ SharedSlot \subseteq LootSlot /\ MayHold \in [Source -> SUBSET LootSlot]
  /\ Golds \subseteq Nat /\ 0 \in Golds
  /\ OwnerOf \in [Box -> Looter]

VARIABLES
  loot,    \* by source: the object and its LootInstance
  dialog,  \* by character: m_loot and m_lootSource
  inWorld, \* the characters in the world instance
  given,   \* history: what a corpse or chest handed out since it came into being
  fault    \* the server divided by zero, or read an object that is gone

lootVars == <<loot, dialog, inWorld, given, fault>>

LootRecord ==
  [there : BOOLEAN, gold : Golds, items : SUBSET LootSlot, looted : SUBSET LootSlot,
   shares : [SharedSlot -> SUBSET Looter], recipients : SUBSET Looter,
   tagged : SUBSET Looter, lootable : BOOLEAN]
NoLoot == [there |-> FALSE, gold |-> 0, items |-> {}, looted |-> {},
           shares |-> [i \in SharedSlot |-> {}], recipients |-> {}, tagged |-> {}, lootable |-> FALSE]
Nothing == [items |-> {}, gold |-> FALSE, twice |-> FALSE]

(* Types. *)
LootTypeOK ==
  /\ loot \in [Source -> LootRecord] /\ dialog \in [Looter -> Source \union {NoSource}]
  /\ inWorld \subseteq Looter
  /\ given \in [Corpse \union Chest -> [items : SUBSET LootSlot, gold : BOOLEAN, twice : BOOLEAN]]
  /\ fault \in {"none", "division", "dangling"}
  /\ \A s \in Source : loot[s].looted \subseteq loot[s].items

LootInit ==
  /\ loot = [s \in Source |-> NoLoot] /\ dialog = [p \in Looter |-> NoSource]
  /\ inWorld = Looter /\ given = [s \in Corpse \union Chest |-> Nothing] /\ fault = "none"

-----------------------------------------------------------------------------
(* LootInstance. *)

Rolled(items, gold, recipients) ==
  [NoLoot EXCEPT !.there = TRUE, !.items = items, !.gold = gold, !.recipients = recipients]

\* isEmpty: a shared item is there while a recipient has not had it.
EmptyLoot(r) ==
  /\ r.gold = 0
  /\ \A i \in r.items \ r.looted : i \in SharedSlot /\ r.recipients \subseteq r.shares[i]

\* Only shared items are counted.
ItemUnmarked(r, i, p) == IF i \in SharedSlot THEN [r EXCEPT !.shares[i] = @ \union {p}] ELSE r
\* takeItem
ItemTaken(r, i, p) ==
  IF i \in SharedSlot THEN [r EXCEPT !.shares[i] = @ \union {p}]
  ELSE [r EXCEPT !.looted = @ \union {i}]
\* takeGold
GoldTaken(r) == [r EXCEPT !.gold = 0]

Closed(D) == [p \in Looter |-> IF p \in D THEN NoSource ELSE dialog[p]]
Viewers(s) == {p \in Looter : dialog[p] = s}

\* cleared: a corpse is no longer lootable, a chest leaves the world and a box
\* the inventory; every dialog is closed.
Cleared(s, r) == IF s \in Corpse THEN [r EXCEPT !.lootable = FALSE] ELSE NoLoot
\* Only who takes the last of it closes the dialog.
LeftToOne(s, r, p) ==
  /\ loot' = [loot EXCEPT ![s] = IF EmptyLoot(r) THEN Cleared(s, r) ELSE r]
  /\ dialog' = Closed(IF EmptyLoot(r) THEN {p} ELSE {})
\* Taking something clears the loot if it was the last.
Left(s, r, p) ==
  /\ loot' = [loot EXCEPT ![s] = IF EmptyLoot(r) THEN Cleared(s, r) ELSE r]
  /\ dialog' = Closed(IF EmptyLoot(r) THEN Viewers(s) ELSE {})

-----------------------------------------------------------------------------
(* The sources come and go. *)

\* Whoever tagged the creature and is in the world receives a share.
CreatureDies(c, T) ==
  /\ ~loot[c].there /\ T # {}
  /\ \E items \in SUBSET MayHold[c], gold \in Golds :
       LET r == Rolled(items, gold, T \intersect inWorld)
       IN  loot' = [loot EXCEPT ![c] =
                      IF EmptyLoot(r) THEN [NoLoot EXCEPT !.there = TRUE, !.tagged = T]
                      ELSE [r EXCEPT !.tagged = T, !.lootable = TRUE]]
  /\ given' = [given EXCEPT ![c] = Nothing]
  /\ UNCHANGED <<dialog, inWorld, fault>>

\* removeGameObject fires despawned.
Despawn(s) ==
  /\ s \in Corpse \union Chest /\ loot[s].there
  /\ loot' = [loot EXCEPT ![s] = NoLoot] /\ given' = [given EXCEPT ![s] = Nothing]
  /\ dialog' = Closed(Viewers(s))
  /\ UNCHANGED <<inWorld, fault>>

\* generateObjectLoot knows no recipients and no money.
ChestSpawns(h) ==
  /\ ~loot[h].there
  /\ \E items \in SUBSET MayHold[h] : loot' = [loot EXCEPT ![h] = Rolled(items, 0, {})]
  /\ given' = [given EXCEPT ![h] = Nothing]
  /\ UNCHANGED <<dialog, inWorld, fault>>

\* GameItem::generateLoot.  A new box is not the one a dialog still shows.
ReceiveBox(b) ==
  /\ ~loot[b].there /\ Viewers(b) = {} /\ OwnerOf[b] \in inWorld
  /\ \E items \in SUBSET MayHold[b], gold \in Golds : loot' = [loot EXCEPT ![b] = Rolled(items, gold, {})]
  /\ UNCHANGED <<dialog, inWorld, given, fault>>

\* Inventory::removeItem fires no despawned, and the dialog keeps the loot.
RemoveBox(b) ==
  /\ loot[b].there /\ OwnerOf[b] \in inWorld
  /\ loot' = [loot EXCEPT ![b] = IF Viewers(b) = {} THEN NoLoot ELSE [@ EXCEPT !.there = FALSE]]
  /\ UNCHANGED <<dialog, inWorld, given, fault>>

-----------------------------------------------------------------------------
(* The players. *)

MayOpen(p, s) ==
  CASE s \in Corpse -> loot[s].tagged # {}
    [] s \in Box -> OwnerOf[s] = p
    [] OTHER -> TRUE

\* handleLoot, spellEffectOpenLock and handleOpenItem; nobody asks whether the
\* character is a recipient.
OpenLootDialog(p, s) ==
  /\ p \in inWorld /\ loot[s].there /\ MayOpen(p, s) /\ ~EmptyLoot(loot[s])
  /\ dialog' = [dialog EXCEPT ![p] = s]
  /\ UNCHANGED <<loot, inWorld, given, fault>>

\* handleAutoStoreLootItem, with room for the item.
AutoStoreLootItem(p, i) ==
  LET s == dialog[p]
      r == loot[s]
  IN  /\ s # NoSource /\ i \in r.items \ r.looted
      /\ given' = IF s \in Box \/ i \in SharedSlot THEN given
                  ELSE [given EXCEPT ![s].items = @ \union {i}, ![s].twice = @ \/ i \in given[s].items]
      /\ Left(s, ItemTaken(r, i, p), p)
      /\ UNCHANGED <<inWorld, fault>>

\* The recipients in the world share a creature's money.
Sharers(s) == loot[s].tagged \intersect inWorld
LootMoney(p) ==
  LET s == dialog[p]
      r == loot[s]
  IN  /\ s # NoSource /\ r.gold > 0
      /\ \/ /\ ~r.there \/ (s \in Corpse /\ Sharers(s) = {})
            /\ fault' = IF r.there THEN "division" ELSE "dangling"
            /\ UNCHANGED <<loot, dialog, inWorld, given>>
         \/ /\ r.there /\ (s \in Corpse => Sharers(s) # {})
            /\ given' = IF s \in Box THEN given
                        ELSE [given EXCEPT ![s].gold = TRUE, ![s].twice = @ \/ given[s].gold]
            /\ Left(s, GoldTaken(r), p)
            /\ UNCHANGED <<inWorld, fault>>

LootRelease(p) ==
  /\ dialog[p] # NoSource
  /\ IF loot[dialog[p]].there
     THEN dialog' = Closed({p}) /\ UNCHANGED fault
     ELSE fault' = "dangling" /\ UNCHANGED dialog
  /\ UNCHANGED <<loot, inWorld, given>>

\* A player that is removed closes nothing; the boxes it carries go with it.
LeaveWorld(p) ==
  /\ p \in inWorld
  /\ inWorld' = inWorld \ {p} /\ dialog' = [dialog EXCEPT ![p] = NoSource]
  /\ UNCHANGED <<loot, given, fault>>

\* Its items are made anew, with what they hold.
EnterWorld(p) ==
  /\ p \notin inWorld /\ inWorld' = inWorld \union {p}
  /\ \E items \in [Box -> SUBSET LootSlot], gold \in [Box -> Golds] :
       /\ \A b \in Box : items[b] \subseteq MayHold[b]
       /\ loot' = [s \in Source |-> IF s \in Box /\ loot[s].there /\ OwnerOf[s] = p
                                    THEN Rolled(items[s], gold[s], {}) ELSE loot[s]]
  /\ UNCHANGED <<dialog, given, fault>>

-----------------------------------------------------------------------------

LootNext ==
  /\ fault = "none"
  /\ \/ \E c \in Corpse, T \in SUBSET Looter : CreatureDies(c, T)
     \/ \E s \in Source : Despawn(s)
     \/ \E h \in Chest : ChestSpawns(h)
     \/ \E b \in Box : ReceiveBox(b) \/ RemoveBox(b)
     \/ \E p \in Looter :
          \/ \E s \in Source : OpenLootDialog(p, s)
          \/ \E i \in LootSlot : AutoStoreLootItem(p, i)
          \/ LootMoney(p) \/ LootRelease(p) \/ LeaveWorld(p) \/ EnterWorld(p)

LootSpec == LootInit /\ [][LootNext]_lootVars

-----------------------------------------------------------------------------
(* Properties. *)

(* A dialog shows loot that is not empty, of a source that still exists: who
   takes the last of it, or removes its source, closes the dialogs of all
   others.  Only an item a player removes while looking into it is gone
   before its dialog (closeLootDialog, m_lootSource). *)
DialogShowsLoot ==
  \A p \in Looter :
    dialog[p] # NoSource =>
      /\ p \in inWorld /\ ~EmptyLoot(loot[dialog[p]])
      /\ loot[dialog[p]].there \/ dialog[p] \in Box

(* A corpse is marked lootable exactly while it holds something: the mark is
   removed by the signal and never by who opens or closes a dialog
   (CreatureAIDeathState::onEnter). *)
LootableAgrees ==
  \A c \in Corpse : loot[c].lootable <=> loot[c].there /\ ~EmptyLoot(loot[c])

(* What players see of loot, the dialog and the mark, follows what is left of
   it through the signals of LootInstance. *)
LootShown == DialogShowsLoot /\ LootableAgrees

(* However many players look at it, an item that is not shared, and the money,
   are handed out once while a corpse or a chest lasts (takeItem,
   takeGold). *)
HandedOutOnce == \A s \in Corpse \union Chest : ~given[s].twice
=============================================================================
