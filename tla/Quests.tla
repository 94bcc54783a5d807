------------------------------- MODULE Quests -------------------------------
(***************************************************************************)
(* Quests of one character: the status data GameCharacter::m_quests, the   *)
(* quest log in the fields the client sees, the cache of needed items, the *)
(* inventory the requirements are counted in, and what the realm stores.   *)
(*                                                                         *)
(* A quest asks for kills of one kind of creature, for items, and maybe    *)
(* for an exploration.  With every change of a quest the node sends it to  *)
(* the realm, which writes it later, or fails to; the inventory goes there *)
(* only when the character is saved.  The node may crash, or its link to   *)
(* the realm break, before what it has sent has arrived.                   *)
(***************************************************************************)
EXTENDS Integers, FiniteSets, Places

CONSTANTS
  Quest,               \* ids of the quests
  Item, CreatureEntry, \* entry ids of items and of creatures
  NoCreature,          \* a quest without one
  Wants,               \* [Quest -> [Item -> Nat]], requirements by item
  Prey, Kills,         \* creature to kill, and how often
  CastOn,              \* quests whose creature may be hit by the quest's spell as well
  Exploration, StayAlive,  \* quests with that flag
  QuestItems,          \* items of item class Quest
  SourceItem, Prize,   \* item a quest starts with, item it is rewarded with
  Giver,               \* item that offers a quest
  Previous,            \* quest that must be rewarded before, 0 if none
  LogSize,             \* MaxQuestsOnLog
  PackSize, MaxStack,  \* slots of the inventory, size of a stack
  MaxDrift             \* bound: the cache of needed items

NoItem == 0

ASSUME QuestAssumption ==
  /\ Quest \subseteq Nat \ {0} /\ IsFiniteSet(Quest)
  /\ Item \subseteq Nat \ {0} /\ NoCreature \notin CreatureEntry
  /\ Wants \in [Quest -> [Item -> Nat]]
  /\ Prey \in [Quest -> CreatureEntry \union {NoCreature}] /\ Kills \in [Quest -> Nat]
  /\ CastOn \subseteq Quest /\ Exploration \subseteq Quest /\ StayAlive \subseteq Quest
  /\ QuestItems \subseteq Item
  /\ Giver \in [Quest -> Item \union {NoItem}]
  /\ SourceItem \in [Quest -> Item \union {NoItem}] /\ Prize \in [Quest -> Item \union {NoItem}]
  /\ Previous \in [Quest -> Quest \union {0}]
  /\ LogSize \in Nat /\ PackSize \in Nat /\ MaxStack \in Nat \ {0} /\ MaxDrift \in Nat

NoQuest == 0
LogSlot == 1 .. LogSize
Slot == 1 .. PackSize
Status == {"Available", "Incomplete", "Complete", "Failed", "Rewarded"}
Logged == {"Incomplete", "Complete", "Failed"}

Data == [status : Status, explored : BOOLEAN, kills : Nat]
NoQuestData == [status |-> "Available", explored |-> FALSE, kills |-> 0]
\* One entry of the log: its state is the status it shows.
Entry == [quest : Quest \union {NoQuest}, state : Logged \union {"None"}, kills : Nat]
NoEntry == [quest |-> NoQuest, state |-> "None", kills |-> 0]
Stack == [item : Item \union {NoItem}, count : Nat]
Empty == [item |-> NoItem, count |-> 0]

VARIABLES
  quests,   \* the character: data (m_quests), log, needed (m_requiredQuestItems), and
            \* told: what its node has last sent of each quest
  pack,     \* the inventory, by slot
  savedPack, \* the inventory in the database
  stored    \* the realm: rows (the table character_quests), due: quests of which a message
            \* is on its way; history: failed: those the last message of which could not be
            \* written, overfull: the last login has found more quests than the log can show

questVars == <<quests, pack, savedPack, stored>>

(* Types. *)
QuestTypeOK ==
  /\ quests \in [data : [Quest -> Data], log : [LogSlot -> Entry], needed : [Item -> Int],
                 told : [Quest -> Data]]
  /\ stored \in [rows : [Quest -> Data], due : SUBSET Quest, failed : SUBSET Quest, overfull : BOOLEAN]
  /\ pack \in [Slot -> Stack] /\ savedPack \in [Slot -> Stack]
  /\ \A s \in Slot : pack[s].count <= MaxStack /\ (pack[s].count = 0 <=> pack[s].item = NoItem)

QuestInit ==
  /\ quests = [data |-> [q \in Quest |-> NoQuestData], log |-> [s \in LogSlot |-> NoEntry],
               needed |-> [i \in Item |-> 0], told |-> [q \in Quest |-> NoQuestData]]
  /\ stored = [rows |-> [q \in Quest |-> NoQuestData], due |-> {}, failed |-> {}, overfull |-> FALSE]
  /\ pack = [s \in Slot |-> Empty] /\ savedPack = pack

-----------------------------------------------------------------------------
(* The inventory. *)

SlotsWith(p, i) == {s \in Slot : p[s].item = i}
CountIn(p, S) == Cardinality({u \in S \X (1 .. MaxStack) : u[2] <= p[u[1]].count})
ItemCount(p, i) == CountIn(p, SlotsWith(p, i))
Clamp(n, low, high) == IF n < low THEN low ELSE IF n > high THEN high ELSE n

\* createItems fills up stacks first, then empty slots, each in order.
Room(p, i, s) ==
  IF p[s].item = i THEN MaxStack - p[s].count ELSE IF p[s] = Empty THEN MaxStack ELSE 0
RoomBefore(p, i, s) ==
  {t \in Slot : (p[t].item = p[s].item /\ t < s) \/ (p[s] = Empty /\ p[t].item = i)}
RoomFor(p, i, S) == Cardinality({u \in S \X (1 .. MaxStack) : u[2] <= Room(p, i, u[1])})
CanCreate(p, i, n) == n <= RoomFor(p, i, Slot)
Created(p, i, n) ==
  LET given == [s \in Slot |-> Clamp(n - RoomFor(p, i, RoomBefore(p, i, s)), 0, Room(p, i, s))]
  IN  [s \in Slot |-> IF given[s] > 0 THEN [item |-> i, count |-> p[s].count + given[s]] ELSE p[s]]

\* canStoreItems looks no further once there is one item of the kind.
CanStore(p, i, n) == ItemCount(p, i) = 0 \/ MaxStack = 1 => n <= MaxStack * Cardinality(SlotsWith(p, NoItem))

(* removeItems for n[i] of each of some items: it empties whole slots in order and
   takes the rest from a stack. *)
TakenFrom(p, n) ==
  [s \in Slot |->
     IF p[s].item \notin DOMAIN n THEN 0
     ELSE Clamp(n[p[s].item] - CountIn(p, {t \in SlotsWith(p, p[s].item) : t < s}), 0, p[s].count)]
Without(p, taken) ==
  [s \in Slot |-> IF taken[s] = p[s].count THEN Empty ELSE [p[s] EXCEPT !.count = @ - taken[s]]]
LeftEmpty(p, taken) ==
  [s \in Slot |-> IF taken[s] = p[s].count THEN Empty ELSE p[s]]

-----------------------------------------------------------------------------
(* What a change of the inventory or a deed does to the quests.            *)

Wanting(i) == {q \in Quest : Wants[q][i] > 0}
InLog(j, q) == \E s \in LogSlot : j.log[s].quest = q
WithStatus(j, st) == {q \in Quest : InLog(j, q) /\ j.data[q].status = st}

\* fulfillsQuestRequirements
Fulfilled(data, p, q) ==
  /\ q \in Exploration => data[q].explored
  /\ data[q].kills >= Kills[q]
  /\ \A i \in Item : ItemCount(p, i) >= Wants[q][i]

\* questDataChanged sends the quest to the realm.
Saved(j, Q) == [j EXCEPT !.told = [q \in Quest |-> IF q \in Q THEN j.data[q] ELSE @[q]]]

\* The status in m_quests and the flags of the log are set together.
Marked(j, Q, st) ==
  [j EXCEPT !.data = [q \in Quest |-> IF q \in Q THEN [@[q] EXCEPT !.status = st] ELSE @[q]],
            !.log = [s \in LogSlot |-> IF @[s].quest \in Q THEN [@[s] EXCEPT !.state = st] ELSE @[s]]]

\* Every item of Q's quests is needed n times more (or less).
NeededMore(j, Q, n) ==
  [j EXCEPT !.needed = [i \in Item |-> @[i] + n * Cardinality(Q \intersect Wanting(i))]]

\* onQuestItemAddedCredit
AddedCredit(j, p, i) ==
  LET enough == {q \in WithStatus(j, "Incomplete") \intersect Wanting(i) : ItemCount(p, i) >= Wants[q][i]}
      done == {q \in enough : Fulfilled(j.data, p, q)}
  IN  Saved(Marked([j EXCEPT !.needed[i] = @ - Cardinality(enough)], done, "Complete"), done)

(* onQuestItemRemovedCredit, one item after the other: a quest is incomplete
   from the first item of which there is not enough any more. *)
RemovedCredit(j, p, items) ==
  LET lacking(i) == {q \in WithStatus(j, "Complete") \intersect Wanting(i) : ItemCount(p, i) < Wants[q][i]}
      lackingBefore(i) == UNION {lacking(k) : k \in {k \in items : k < i}}
      missing == UNION {lacking(i) : i \in items}
      needing == [j EXCEPT !.needed = [i \in Item |->
                    IF i \in items THEN @[i] + Cardinality(lacking(i) \ lackingBefore(i)) ELSE @[i]]]
  IN  Saved(Marked(needing, missing, "Incomplete"), missing)

\* createItems and removeItems with their credit: a stack that only gets
\* smaller is none.
Creation(j, p, i, n) ==
  [j |-> AddedCredit(j, Created(p, i, n), i), p |-> Created(p, i, n)]
Removal(j, p, n) ==
  LET taken == TakenFrom(p, n)
  IN  [j |-> RemovedCredit(j, LeftEmpty(p, taken),
                           {i \in DOMAIN n : \E s \in SlotsWith(p, i) : taken[s] = p[s].count}),
       p |-> Without(p, taken)]
RemovalOfAll(j, p, items) == Removal(j, p, [i \in items |-> ItemCount(p, i)])

WantedBy(q) == {i \in Item : Wants[q][i] > 0}

-----------------------------------------------------------------------------
(* Accepting a quest. *)

Available(j, q) ==
  /\ j.data[q].status = "Available"
  /\ Previous[q] # 0 => j.data[Previous[q]].status = "Rewarded"
FreeEntries(j, q) == {s \in LogSlot : j.log[s].quest \in {NoQuest, q}}
LogFull == \A s \in LogSlot : quests.log[s].quest # NoQuest
CanAccept(j, p, q) ==
  Available(j, q) /\ FreeEntries(j, q) # {} /\ (SourceItem[q] = NoItem \/ CanCreate(p, SourceItem[q], 1))

\* acceptQuest, when nothing is in its way.
Accepted(j, p, q) ==
  LET given == IF SourceItem[q] = NoItem THEN [j |-> j, p |-> p] ELSE Creation(j, p, SourceItem[q], 1)
      started == [given.j EXCEPT !.data[q].status = "Incomplete",
                                 !.log[Nth(FreeEntries(j, q), 1)] = [quest |-> q, state |-> "Incomplete", kills |-> 0]]
      begun == IF Fulfilled(started.data, given.p, q) THEN Marked(started, {q}, "Complete")
               ELSE NeededMore(started, {q}, 1)
  IN  [j |-> Saved(begun, {q}), p |-> given.p]

(* What a handler sends is on its way.  Only the last message of a quest
   matters: that an earlier one is written first is a step before this one, that
   it is not, a message that comes to nothing. *)
News == {q \in Quest : quests'.told[q] # quests.told[q]}
Send == stored' = [stored EXCEPT !.due = @ \union News, !.failed = @ \ News]

Become(r) == quests' = r.j /\ pack' = r.p /\ Send /\ UNCHANGED savedPack

AcceptQuest(q) ==
  /\ ~LogFull /\ CanAccept(quests, pack, q)
  /\ Become(Accepted(quests, pack, q))

\* handleQuestgiverAcceptQuest with an item in slot s: it is removed first and
\* made again if the quest cannot be accepted.
AcceptFromItem(q, s) ==
  /\ ~LogFull /\ Giver[q] # NoItem /\ pack[s].item = Giver[q]
  /\ LET p == [pack EXCEPT ![s] = Empty]
         j == RemovedCredit(quests, p, {Giver[q]})
     IN  Become(CASE CanAccept(j, p, q) -> Accepted(j, p, q)
                  [] ~CanAccept(j, p, q) /\ CanCreate(p, Giver[q], pack[s].count) ->
                       Creation(j, p, Giver[q], pack[s].count)
                  [] OTHER -> [j |-> j, p |-> p])

-----------------------------------------------------------------------------
(* Abandoning, completing, failing. *)

\* Only its flags are cleared.
ClearedFlags(j, q) ==
  [j EXCEPT !.log = [s \in LogSlot |-> IF @[s].quest = q THEN [@[s] EXCEPT !.state = "None"] ELSE @[s]]]
ClearedEntry(j, q) ==
  [j EXCEPT !.log = [s \in LogSlot |-> IF @[s].quest = q THEN NoEntry ELSE @[s]]]

\* What was explored stays explored.
AbandonQuest(q) ==
  /\ InLog(quests, q)
  /\ LET reset == [quests EXCEPT !.data[q] = [@ EXCEPT !.status = "Available", !.kills = 0]]
         start == IF SourceItem[q] = NoItem THEN [j |-> reset, p |-> pack] ELSE RemovalOfAll(reset, pack, {SourceItem[q]})
         end == RemovalOfAll(start.j, start.p, WantedBy(q) \intersect QuestItems)
     IN  Become([j |-> Saved(ClearedEntry(NeededMore(end.j, {q}, -1), q), {q}), p |-> end.p])

OneMore(counter) == [counter EXCEPT !.kills = @ + 1]
CountedUp(j, Q) ==
  [j EXCEPT !.data = [q \in Quest |-> IF q \in Q THEN OneMore(@[q]) ELSE @[q]],
            !.log = [s \in LogSlot |-> IF @[s].quest \in Q THEN OneMore(@[s]) ELSE @[s]]]
Uncounted(j) == {q \in Quest : \E s \in LogSlot : j.log[s].quest = q /\ j.log[s].kills < Kills[q]}

\* By a spell or a trigger.
CompleteQuest(q) ==
  /\ q \in WithStatus(quests, "Incomplete")
  /\ LET explored == [quests EXCEPT !.data[q].explored = @ \/ q \in Exploration]
         counted == CountedUp(explored, {q} \intersect Uncounted(quests))
     IN  quests' = Saved(Marked(counted, {q}, "Complete"), {q})
  /\ Send /\ UNCHANGED <<pack, savedPack>>

\* onKilled fails every quest one must stay alive for.
CharacterKilled ==
  LET failed == StayAlive \intersect (WithStatus(quests, "Incomplete") \union WithStatus(quests, "Complete"))
      unneeded == [quests EXCEPT !.needed = [i \in Item |->
                     @[i] - Cardinality({q \in failed \intersect Wanting(i) : ItemCount(pack, i) < Wants[q][i]})]]
  IN  /\ quests' = Saved(Marked(unneeded, failed, "Failed"), failed)
      /\ Send /\ UNCHANGED <<pack, savedPack>>

-----------------------------------------------------------------------------
(* Credit for deeds. *)

KillCredit(c) ==
  LET counted == {q \in WithStatus(quests, "Incomplete") \intersect Uncounted(quests) : Prey[q] = c}
      j == CountedUp(quests, counted)
      done == {q \in counted : Fulfilled(j.data, pack, q)}
  IN  /\ quests' = Saved(Marked(NeededMore(j, done, -1), done, "Complete"), counted)
      /\ Send /\ UNCHANGED <<pack, savedPack>>

SpellCastCredit(c) ==
  LET counted == {q \in CastOn \intersect WithStatus(quests, "Incomplete") \intersect Uncounted(quests) : Prey[q] = c}
      j == CountedUp(quests, counted)
      done == {q \in counted : Fulfilled(j.data, pack, q)}
  IN  /\ quests' = Saved(Marked(j, done, "Complete"), counted)
      /\ Send /\ UNCHANGED <<pack, savedPack>>

\* onQuestExploration(questId) does not ask which quest it is.
ExplorationCredit ==
  LET found == {q \in Exploration \intersect WithStatus(quests, "Incomplete") : ~quests.data[q].explored}
      j == [quests EXCEPT !.data = [q \in Quest |-> IF q \in found THEN [@[q] EXCEPT !.explored = TRUE] ELSE @[q]]]
      done == {q \in found : Fulfilled(j.data, pack, q)}
  IN  /\ quests' = Saved(Marked(j, done, "Complete"), found)
      /\ Send /\ UNCHANGED <<pack, savedPack>>

-----------------------------------------------------------------------------
(* The reward. *)

\* It takes all of an item, however many were asked for.
CollectedAll(r, q) ==
  LET all == RemovalOfAll(r.j, r.p, WantedBy(q)) IN [j |-> all.j, p |-> all.p, ok |-> TRUE]
\* removeItems for every requirement; what was removed before one fails is gone.
Collected(r, q) ==
  LET had == {i \in WantedBy(q) : \A k \in WantedBy(q) : k <= i => ItemCount(r.p, k) >= Wants[q][k]}
      taken == Removal(r.j, r.p, [i \in had |-> Wants[q][i]])
  IN  [j |-> taken.j, p |-> taken.p, ok |-> had = WantedBy(q)]

RewardQuest(q) ==
  /\ quests.data[q].status = "Complete"
  /\ Prize[q] # NoItem => CanStore(pack, Prize[q], 1)
  /\ LET taken == Collected([j |-> quests, p |-> pack], q)
         room == Prize[q] = NoItem \/ CanCreate(taken.p, Prize[q], 1)
         given == IF Prize[q] = NoItem THEN taken ELSE Creation(taken.j, taken.p, Prize[q], 1)
         counted == NeededMore(given.j, {q}, -1)
         cleaned == IF SourceItem[q] = NoItem THEN [j |-> counted, p |-> given.p]
                    ELSE RemovalOfAll(counted, given.p, {SourceItem[q]})
         rewarded == [ClearedEntry(cleaned.j, q) EXCEPT !.data[q].status = "Rewarded"]
     IN  CASE ~taken.ok \/ ~room -> Become(taken)
           [] OTHER -> Become([j |-> Saved(rewarded, {q}), p |-> cleaned.p])

-----------------------------------------------------------------------------
(* Items come and go for other reasons. *)

Loot(i) ==
  /\ CanCreate(pack, i, 1)
  /\ Become(Creation(quests, pack, i, 1))

\* addItem: a traded or mailed stack goes to the first empty slot, without credit.
Receive(i, n) ==
  /\ SlotsWith(pack, NoItem) # {}
  /\ pack' = [pack EXCEPT ![Nth(SlotsWith(pack, NoItem), 1)] = [item |-> i, count |-> n]]
  /\ UNCHANGED <<quests, savedPack, stored>>

\* removeItem
Destroy(s, n) ==
  /\ n \in 1 .. pack[s].count
  /\ pack' = Without(pack, [t \in Slot |-> IF t = s THEN n ELSE 0])
  /\ quests' = RemovedCredit(quests, pack', {pack[s].item})
  /\ Send /\ UNCHANGED savedPack

-----------------------------------------------------------------------------
(* Saving and loading. *)

\* handleQuestUpdate: a message arrives and is written, or cannot be written,
\* which is only logged.
HandleQuestUpdate(q, written) ==
  /\ q \in stored.due
  /\ stored' = [stored EXCEPT !.due = @ \ {q},
                              !.rows[q] = IF written THEN quests.told[q] ELSE @,
                              !.failed = IF written THEN @ ELSE @ \union {q}]
  /\ UNCHANGED <<quests, pack, savedPack>>

\* What is sent before the character itself arrives before it.
SaveInventory ==
  /\ stored.due = {}
  /\ savedPack' = pack
  /\ UNCHANGED <<quests, pack, stored>>

LoadedLog(rows) ==
  LET logged == {q \in Quest : rows[q].status \in Logged}
      at(s) == Nth(logged, s)
  IN  [s \in LogSlot |->
         IF s <= Cardinality(logged)
         THEN [quest |-> at(s), state |-> rows[at(s)].status, kills |-> rows[at(s)].kills]
         ELSE NoEntry]

(* operator>> counts the needed items; then the inventory is filled by slot, and
   each slot gives credit to the quests that are not complete by then. *)
Loaded(rows, p) ==
  LET fresh == [data |-> rows, log |-> LoadedLog(rows), needed |-> [i \in Item |-> 0], told |-> rows]
      counted == NeededMore(fresh, {q \in Quest : rows[q].status = "Incomplete"}, 1)
      upTo(s) == [t \in Slot |-> IF t <= s THEN p[t] ELSE Empty]
      enough(s) == {q \in WithStatus(fresh, "Incomplete") :
                      p[s] # Empty /\ Wants[q][p[s].item] > 0 /\ ItemCount(upTo(s), p[s].item) >= Wants[q][p[s].item]}
      doneAt(s) == {q \in enough(s) : Fulfilled(rows, upTo(s), q)}
      doneBefore(s) == UNION {doneAt(t) : t \in {t \in Slot : t < s}}
      credits(i) == {u \in Slot \X Quest : p[u[1]].item = i /\ u[2] \in enough(u[1]) \ doneBefore(u[1])}
      done == UNION {doneAt(s) : s \in Slot}
      unneeded == [counted EXCEPT !.needed = [i \in Item |-> @[i] - Cardinality(credits(i))]]
  IN  Saved(Marked(unneeded, done, "Complete"), done)

\* A login, of which the node sends back what it finds to be complete.
Login(p) ==
  /\ pack' = p /\ savedPack' = p
  /\ quests' = Loaded(stored.rows, p)
  /\ stored' = [stored EXCEPT !.due = {q \in Quest : quests'.told[q] # stored.rows[q]}, !.failed = {},
                              !.overfull = Cardinality({q \in Quest : stored.rows[q].status \in Logged}) > LogSize]

\* After a logout everything has arrived.
Relog == stored.due = {} /\ Login(pack)

\* The node crashes, or its link to the realm breaks: what is on its way is lost.
NodeCrash == Login(savedPack)

-----------------------------------------------------------------------------

Deeds ==
  \/ \E c \in CreatureEntry : KillCredit(c) \/ SpellCastCredit(c)
  \/ ExplorationCredit \/ CharacterKilled
Possessions ==
  \/ \E i \in Item : Loot(i) \/ Receive(i, 1)
  \/ \E s \in Slot, n \in 1 .. MaxStack : Destroy(s, n)
Dealings ==
  \E q \in Quest :
    \/ AcceptQuest(q) \/ AbandonQuest(q) \/ CompleteQuest(q) \/ RewardQuest(q)
    \/ \E s \in Slot : AcceptFromItem(q, s)

QuestNext ==
  /\ \/ Deeds \/ Possessions \/ Dealings \/ SaveInventory \/ Relog \/ NodeCrash
     \/ \E q \in Quest, written \in BOOLEAN : HandleQuestUpdate(q, written)
  /\ \A i \in Item : quests'.needed[i] \in -MaxDrift .. MaxDrift
QuestSpec == QuestInit /\ [][QuestNext]_questVars

-----------------------------------------------------------------------------
(* Properties. *)

(* The log the client sees and the status data the server decides with are
   kept apart, by a dozen handlers: a quest has one entry while it is
   incomplete, complete or failed, none otherwise, and the entry shows its
   status and its kills; also after a login or a crash.  (A login may find more
   quests than the log can show, after messages or writes were lost.) *)
LogAgrees ==
  /\ \A q \in Quest :
       LET entries == Cardinality({s \in LogSlot : quests.log[s].quest = q})
       IN  IF quests.data[q].status \in Logged THEN entries = 1 \/ (entries = 0 /\ stored.overfull)
                                               ELSE entries = 0
  /\ \A s \in LogSlot : quests.log[s].quest # NoQuest =>
       /\ quests.log[s].state = quests.data[quests.log[s].quest].status
       /\ quests.log[s].kills = quests.data[quests.log[s].quest].kills

(* Progress the database does not have is on its way there, or could not be
   written and was not sent again: nothing else is lost when a node crashes or
   its link breaks (questDataChanged, handleQuestUpdate). *)
ProgressStored ==
  \A q \in Quest : quests.data[q] # stored.rows[q] => q \in stored.due \union stored.failed

(* The quests the client sees, those the server decides with and those in the
   database are the same, but for what is on its way or was not written, in
   stacks and fields of the right size (questDataChanged, setQuestData). *)
QuestsAgree == QuestTypeOK /\ LogAgrees /\ ProgressStored

(* A quest is rewarded once, from complete, and takes its items and
   nothing else of them, however they are spread over stacks (rewardQuest).
   Only a login with a row that does not know of the reward takes it back. *)
RewardedForItems ==
  [][\A q \in Quest :
       /\ quests.data[q].status = "Rewarded" /\ quests'.data[q].status # "Rewarded" =>
            stored.rows[q].status # "Rewarded" /\ q \in stored.due \union stored.failed
       /\ quests'.data[q].status = "Rewarded" /\ quests.data[q].status # "Rewarded" =>
            /\ quests.data[q].status = "Complete"
            /\ \A i \in Item \ {SourceItem[q], Prize[q]} :
                 ItemCount(pack', i) = ItemCount(pack, i) - Wants[q][i]]_questVars

(* A reward that is refused, because a requirement is missing by now or there is
   no room for the prize, keeps what it has taken: as much of an item as the
   quest asks for and all it asks for of those before, or none of it; nothing
   else, and nothing is given. *)
RefusedReward ==
  [][\A q \in Quest :
       RewardQuest(q) /\ quests'.data[q].status # "Rewarded" =>
         \A i \in Item :
           \/ ItemCount(pack', i) = ItemCount(pack, i)
           \/ i \in WantedBy(q) /\ \A k \in WantedBy(q) : k <= i => ItemCount(pack', k) = ItemCount(pack, k) - Wants[q][k]]_pack

(* The item that offers a quest is not lost when the quest cannot be accepted
   ("this may NEVER EVER happen", handleQuestgiverAcceptQuest). *)
GiverKept ==
  [][\A q \in Quest, s \in Slot :
       AcceptFromItem(q, s) /\ ~InLog(quests', q)
         => \A i \in Item : ItemCount(pack', i) = ItemCount(pack, i)]_pack

(* What quests do to a character's items: a reward takes what is asked for, a
   refused one at most that, a refused offer nothing. *)
QuestItemsKept == RewardedForItems /\ RefusedReward /\ GiverKept

(* needsQuestItem "determines if the player needs a specific item for a
   quest": loot shows quest items only to who needs them. *)
NeededWhenMissing ==
  \A i \in Item :
    (\E q \in WithStatus(quests, "Incomplete") : ItemCount(pack, i) < Wants[q][i]) => quests.needed[i] > 0
=============================================================================
