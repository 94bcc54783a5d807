# A verification project for wow-pp

wow-pp is a game server emulator of three cooperating processes (`login_server`, `realm_server`, `world_server`), a library
of game rules the world server runs (`src/src/shared/game`), and tools around them. This directory holds TLA+ models of
the parts of the servers where the order of events matters, the TLC configurations that check them, and proofs for the
TLA+ proof system. Paths below are relative to the repository (`src/` here is the root of the checkout, so the servers are
under `src/src/servers`).

## 1. The system

### 1.1 Processes and how they talk

    client --auth protocol--> login_server <--login/realm--> realm_server <--realm/world--> world_server
       \---------------- game protocol ---------------------->|                               (one or more nodes)
                                                       login, realm: MySQL

Every process is a single `boost::asio` event loop: handlers run to completion one at a time, so inside one process the
atomic step is one handler (one packet, one timer, one posted function, one lost connection). Between the processes there
are TCP connections: FIFO per direction, lost as a whole, reopened by a timer on the connecting side. There is no
transaction across two processes and no acknowledgement in most of the exchanges; the hard behaviour is there. The MySQL
statements are executed inside the handler, each one committed by itself, except for the few requests the realm gives to a
database thread, whose answers are posted to the event loop.

### 1.2 Components, their state and what makes them correct

| Component | State | Operations | What makes it correct | Module |
|---|---|---|---|---|
| Login server: `login/player.cpp` | `m_accountId`, SRP values, `m_loginChallenge`, `m_session`, timeout | challenge, proof, reconnect, realm list | a session exists only for who proved the password; a timed out or closed connection does nothing more | `RealmLogin` |
| Login server: `login/realm.cpp` | `m_authed`, name, realm id, online flag in the database | login of a realm, player login, keep alive | one Realm per realm; the flag in the database does not hide one that is there | `RealmLogin` |
| Realm: `login_connector.cpp` | connection, `m_loginRequests` | request, success, failure, reconnect | every request is answered or withdrawn | `RealmLogin` |
| Realm: `player.cpp`, `player_handlers.cpp` | account, character, world node, instance, transfer | login, logout, transfer, ... | what the node believes about a character follows what the realm believes | `WorldTransfer`, `RealmLogin` |
| Realm: `player_group.cpp` | members, invitations, leader, type; tables `group`, `group_members` | invite, accept, decline, leave, remove, disband, convert | leader is a member; memory, table, node and player agree; ids are fresh | `PlayerGroup` |
| Realm: `world.cpp`, `world_manager.cpp` | nodes, instances, maps | character enters, leaves, data, teleport | a character is on at most one node; a lost node releases its characters | `WorldTransfer` |
| Realm: `player_social.cpp` | contacts with flags | add, remove, ignore, load, save | list, table and node agree | `Social` |
| World: `realm_connector.cpp`, `player.cpp` | characters on the node, logout countdown | login, logout, teleport, leave | a character leaves the node once, and is saved | `WorldTransfer` |
| World: `trade_data.cpp`, `player_trade_handlers.cpp` | two trade sessions, gold, items, accepted flags | set item, set gold, accept, cancel | what is exchanged is what both accepted; nothing is created or lost | `Trade` |
| World: `game/game_character.cpp`, quest handlers | status, log fields, needed items, rows | accept, abandon, progress, reward | log, status and rows agree; a reward takes its price once | `Quests` |
| World: `game/single_cast_state.cpp`, `spell_cast.cpp`, `game_unit.cpp` | current cast, its timer, swing timer, queued strike, missiles | cast, cancel, interrupt, attack, stop | nothing waits for a timer that does not run; nothing takes effect that was called off | `Casting` |
| World: `game/aura_container.cpp`, `aura_spell_slot.cpp`, `aura_effect*.cpp` | list of auras, fields, stun, root, shape, tracked targets | add, overwrite, stack, expire, break, dispel | fields and state follow the list | `Auras` |
| World: `game/creature_ai*.cpp` | AI state, threat, victim, attackers, combat flag | threaten, choose, evade, die, respawn | both ends of a fight know of it; fights end | `CreatureCombat` |
| World: `game/loot_instance.cpp`, loot handlers | loot, recipients, dialogs | open, take, release | dialogs show loot that is there; nothing is handed out twice | `Loot` |
| World: `game/creature_spawner.cpp`, `world_object_spawner.cpp` | count, countdown, switches | spawn, remove, switch | never too many, never empty for good | `Spawner` |
| Shared: `game_protocol/game_crypted_connection.h`, `game_crypt.cpp` | socket, buffers, `m_decryptedUntil`, key stream of the headers | receive, decrypt, parse with Pass/Block/Disconnect, send, close | packets and replies keep their order; the listener hears of the end once | `CryptedConnection` |
| Shared: `common/timer_queue.cpp`, `countdown.cpp` | ordered queue, one deadline per countdown | add event, set end, cancel | fires once, never after cancel, never early | `TimerQueue` |
| Shared: `network/connection.h`, `wowpp_protocol` | buffers, parsing, closing and sending flags | receive, parse, send, close | everything sent before close leaves | |
| Mail and chat, rules of spells and fights, visibility, movement; I/O, formats, static data, tools, vendored code | | | section 7 | |

### 1.3 What is hard here

* **Order of handlers.** Inside a process every handler is atomic, but each takes effect in a state that other handlers
  prepared: an invitation answered after the group changed, an item sold while it lies on the trade table, a countdown set
  again while its old event is still queued, a packet handled while a database answer is out, a strike cast now that
  lands after a stun.
* **Signals inside of signals.** `simple::signal` calls every listener at once, and listeners remove what they listen to: a
  death closes a fight, which chooses a new victim, which may start the way home; the last item taken closes every dialog
  and removes the chest; an aura overwrites another inside of its own application.
* **Posted functions.** `Universe::post` delays what would be wrong at once. The function runs later, in whatever state
  there is then, some with raw references.
* **Two processes, no acknowledgement.** Realm and node each keep a record of where a character is, and tell each other by
  messages that cross. Links break, are noticed by each end in its own time and come back; a node or the realm may restart.
* **Memory beside tables.** Group, contact and quest tables are written statement by statement beside the objects, some
  of them by another thread; a restart or a login reads them.
* **Caches beside state.** `m_freeSlots`, `m_itemCounter`, `m_delayCount`, `m_timerTime`, `m_decryptedUntil`, the lootable
  flag, the aura fields, the attackers of a unit: each has to follow another piece of state on every path.
* **Pointers that outlive or are outlived.** `m_worldNode`, `m_group`, `m_tradeData`, `m_socket`, `m_listener`,
  `m_lootSource`, the victim of a creature, the tracked target of a spell.

PROJECT.json lists these hazards one by one, at their lines, with the properties that would catch them going wrong.

## 2. Plan

In the order of importance; all of the first twelve are done.

1. `PlayerGroup`: groups in memory, in the tables, in the players and on the nodes, with restarts of the realm.
2. `Trade`: sessions and exchange, on top of the part of `Inventory` they use.
3. `TimerQueue` and `CountdownContract`: the classes every timeout of the servers rests on, with the abstract contract of
   `countdown.h` and the refinement.
4. `WorldTransfer` and `CharacterJourney`: login, logout and transfer of a character between realm and nodes, and the
   journey of one character that they implement as long as nothing is cut off.
5. `CryptedConnection`: the connection to a client and its listener.
6. `RealmLogin`: players and realms of the login server, the realm's connector and its requests, over links that break.
7. `Social`: contacts in memory, in the table, at the node, with a database thread.
8. `CreatureCombat`: creatures, their threat and the characters they fight.
9. `Quests`: the quests of a character, the items they ask for, and crashes of the node.
10. `Loot`, `Spawner`: what a death leaves behind, and what comes after.
11. `Casting`: casts, channels, strikes, missiles and the auto attack of a unit.
12. `Auras`: the auras of units and what follows from them.
13. *Next:* the plain `Connection`, whose `close` may wait for a write; auras over logins; leaving the world with casts and
    auras under way.

Every invariant and action property the runs check is a theorem (section 6). What is left to TLC is liveness.

The modules do not share state: a group does not care how a connection parses, and where one module needs another it
abstracts it to the events it sees (`PlayerGroup` and `WorldTransfer` both contain the life of a session, in the detail
each needs; `Casting` has stuns as events, `Auras` says when they come). `TimerQueue` is composed with `CountdownContract`
by refinement, and `WorldTransfer` with `CharacterJourney`; timeouts elsewhere are actions that may happen at any time,
which the contract justifies for safety.

## 3. The modules

`map` in PROJECT.json names the lines behind every definition. Constants that are only bounds are marked `bound:` in the
modules. In the modules where one handler calls many functions the state is threaded through operators as one record
(`CombatNow`, `CastingNow`, `AurasNow`), in the order of the calls, and set at the end: a handler is one step.

### 3.1 PlayerGroup (`realm/player_group.cpp`, handlers of the realm's `Player`, `mysql_database.cpp`)

State: the fields of each `PlayerGroup` object (`leader`, `members`, `assistants`, `invited`, `raid`), `registered`
(`GroupsById`), the id generator; per character its session and `m_group`; the group id its node knows, or knew when it
removed the character (`worldGroup`, `left`); the tables `group`, `group_members` and `character.last_group`. Actions: one
per handler (`GroupInvite`, `GroupAccept`, `GroupDecline`, `GroupUninvite`, `GroupLeave`, `GroupSetLeader`,
`GroupRaidConvert`, `GroupAssistentLeader`), per step of a session's life that touches groups (`PlayerLogin`,
`WorldInstanceEntered`, `ConnectionLost`, `DisconnectIdle`, `Destroyed`, `HandleLeft`, `MoveWorldPortAck`), the node's
`SaveCharacter` and `WorldLeave`, and `RealmRestart`. `HandleLeft` has the three reasons to leave a node: a logout, a
disconnect, and the move to another node, after which the session is "moving" until `MoveWorldPortAck` sends the realm's
copy of the character on; that copy has the group id which the first node has sent back, whatever the realm decided since.
A client lost while it moves is destroyed at once, or, if the instance it has left still has a node, "lost": waited for at
a node that has nothing to send, until the realm restarts (`WorldTransferLost` is about that). `Destroyed` may be followed
by the node's data, of which `handleCharacterData` saves a temporary copy; the two are one step here, so that a login
between them is left out. `KeepObjects` is the reference count of the objects. A group object that left `GroupsById` lives
on in the `m_group` of players who were only invited; the model keeps it, too.

`RemoveStatementFails`: the statement of `removeGroupMember` (mysql_database.cpp:1632) has no AND between its two
conditions. With TRUE every removal from a group of three or more ends the realm with an uncaught exception after the
memory, and possibly the leader's row, were changed; with FALSE the function does what its interface says. The theorems
hold for both. `Restarts` has TRUE but only two characters, so that no removal leaves a group behind and none throws; with
three characters the run would not end in time, and `Characters` has FALSE. A throwing removal is covered by the proofs only.

Seen in the code and kept in the model: a leader has no row in `group_members`, so a leader who handed over the lead is lost
by a restart, and so are the type, assistants and invitations; a decline disbands a group of one although other
invitations to it are pending, whose holders keep the object; a character may be a member of one group and point to another.
No property contradicts any of this.

`PlayerGroupHistory` adds history variables for `WorldAgrees`, the promise that the node of a member knows its group. There
are two exceptions to it, both divergences of the code, and the property speaks of all other characters:

* `askedAgain`: a member whose session ends without a logout may come back without its group (`m_group` is null, since
  `last_group` was never saved), so that the leader can invite it to the group it is a member of. If somebody else fills
  the group first, `addMember` uses up the invitation and returns `PartyFull`; the character is in the group by pointer and
  by membership, and its node is never told.
* `missed`: a character that joins a group after its node has let it go, and before the realm knows, is told of at a node that
  drops the message. If the reason it left was a move, what the first node has sent back overwrites the group id in
  the realm's copy (world.cpp:403), and `handleMoveWorldPortAck` gives the next node the old one.
  The same happens to one that loses its group in that time; the promise is about members only.

That no order of logins, moves, lost sessions and removals makes a third exception is what the theorem `NodesKnowGroups`
shows.

### 3.2 Trade (`world/trade_data.cpp`, `player_trade_handlers.cpp`, `player.cpp`, `game/inventory.cpp`)

State: `session` (`m_tradeData`), the `TradeData` objects with both offers and acceptances, per player an inventory (`at`:
slots; `free`: `m_freeSlots`; `count`: `m_itemCounter`) and money. Actions: one per trade handler, and the inventory
operations that can come between (`GainItem`, `DestroyItem`, `SellItem`, `MoveItem`, `BuySpell`), each with what it does
to the two counters. `fault` says what stopped the process: an `ASSERT` of the exchange, or freed memory. `agreed` is
history: what lay on the table when a side accepted. Amounts wrap at `Word` (2^32), counters at `Counter` (2^16):
`performTrade` adds to `Coinage` without a check (trade_data.cpp:123), so a purse too full for what it gets loses all but
the rest, and `PaidAsAgreed` says that nothing else is lost. `SlotOutOfTable` is the failing `ASSERT` of `setItem` for a
trade slot that no table has; the handlers take it from the packet unchecked. `ZeroedHeap`: whether the memory of a new
`TradeData`, which its constructor does not initialise, is zero. `AssertStops`: debug or release build. Stacks are single
items, bags are left out, a trade slot that is never exchanged (the seventh) is not distinguished.

`free` drifts: `removeItem` raises it for equipment and buyback slots, too. `MaxFree` bounds the drift.

The loops of `removeItems` and `addItems` are written in closed form, so that they can be reasoned about for any number of
items: what is found of an offer (`Present`), what the limits allow of it (`Allowed`: the limit counts the same entry in the
slots up to this one), what of that finds a free slot (`Fitting`: an initial part, because nothing fits once the pack or the
counter is exhausted), and the slots it goes to (the nth item to the nth empty slot; `Places!Rank`, `Places!Nth`). A release
build that leaves the function at the failed `ASSERT` has treated the items before it (`Reached`).

### 3.3 TimerQueue, CountdownContract (`common/timer_queue.cpp`, `countdown.cpp`, `clock.cpp`)

State: the clock, per countdown `m_running`, `m_delayCount`, `m_end`; the queue, `m_timerTime`, the pending wait of the
asio timer and the number of expired waits whose handler has not run (a wait that has already expired cannot be
cancelled). `TimerQueue::update` is taken apart: `Update` reads the time, `RunEvent` takes one event and may call `ended`,
inside which the program sets, cancels or destroys countdowns, `CallbackReturns`, `UpdateReturns`. Time passes all the
while. `CountdownContract` is what `countdown.h` promises: `ended` once per end that was set, not before it, never for one
that was replaced or cancelled. `Contract == INSTANCE CountdownContract WITH deadline <- ...` is the refinement mapping: a
countdown's deadline is `m_end` while it is alive and running.

### 3.4 WorldTransfer (`realm/player.cpp`, `player_handlers.cpp`, `world.cpp`; `world/realm_connector.cpp`, `player.cpp`)

State: the realm's `Player` of one account as a record of its fields (`m_characterId`, `m_gameCharacter`, `m_worldNode`,
the connection to `onConnectionLost` of a World object, `m_instanceId`, `m_transfer`), the character's row, per node the
World object, the node's own copies of the character and the messages in both directions. Actions: the client's packets
(`Client`), one handler per message on either side, the node's own events (`OnLogout`, `OnTeleport`, `Play`), and the loss
and return of a link. `saved` and `newest` are numbers: how often the character has changed. `mishaps` counts sessions that
ended while nobody waited for the node, and lost links: each may leave a copy behind.

`HandleCharacterData` and a logout's `HandleWorldInstanceLeft` are not enabled when they would use a null
`m_gameCharacter`; the steps up to there are in the model. `Dangling` is an `m_worldNode` whose World object is gone, between
the acknowledgement of a transfer and the entry; no action uses it.

`CharacterJourney` is what realm and nodes promise of the character: one of it, at home, sent to a node, playing there or
leaving it, with data that change only while it plays. `Journey == INSTANCE CharacterJourney WITH stage <- Stage, at <- Place,
data <- Carried` is the refinement mapping: it looks for a log-in on its way, a copy in a node, a farewell on its way, in this
order, and takes the data from there; who comes home has the data in the row. After a mishap the stage is "lost" and nothing
is promised any more; what still holds then is in `OneCopy`.

### 3.5 CryptedConnection (`game_protocol/game_crypted_connection.h`, `game_crypt.cpp`, `realm/player.cpp`)

State: what the client sent and got, the socket, the read and the write under way, `m_received` as cells that are cipher,
plain text or garbage, `m_decryptedUntil`, `key` (how many headers have been decrypted), `m_isParsingIncomingData`,
`m_isClosedOnParsing`, `m_sending`, `m_sendBuffer`, the listener and the Player behind it, and the Player's requests to the
database. A header decrypted with the key stream of another becomes garbage, and a garbage header may announce any length.
`parsePackets` takes a step per packet; the handler of a packet may answer, block on the database, or refuse.
`crashed` is the step in which `flush` would use a null `m_socket`: the connection was closed while parsing, the write
before it has completed, and more data waits. Nothing happens afterwards, and the properties hold up to it.

`connection.h:39` says of Block "Stop packet processing for this connection."; the code only leaves the loop, and data that
arrives later is parsed while the answer is out. The model does what the code does. Some answers of the database never
resume parsing (player.cpp:333); a packet that waits behind them is handled when the client sends more.

### 3.6 RealmLogin (`login/player.cpp`, `login/realm.cpp`, `realm/login_connector.cpp`, `realm/player.cpp`)

State: the login server's clients (`lobby`), the session key stored with each account, the column `online`; the keys the
clients hold; every connection between realm and login server in the order they were made, with both queues, whether it is
cut, and what each end knows of it (`link`); the realm's `m_connection`, `m_loginRequests` and reconnection timer; its
clients (`gate`). Actions: challenge, proof and reconnection of a client (`Lobby`), authentication at the realm (`Gate`), a
link is cut, noticed by one end or timed out (`Links`, `RealmSideLost`), the realm connects again (`TryConnect`,
`Connects`), and one message is handled (`RealmHandles`, `LoginHandles`). A session key is a number; SRP6 is "who proved the
password has a new key". The realm may be back over a new connection while the login server still believes in the old one.

Kept in the model: a request that was pending when its link was lost stays in `m_loginRequests` and locks its account out
(`orphaned` remembers it); the 30 second timeout of a silent realm closes the connection without the flag in the database;
a realm that is refused (its name is listed, its password or id is wrong, the database fails) may send an id that
nothing has set (`OtherIds`); `Session` never notes a realm, because
`tryEnterRealm` has no caller.

### 3.7 Social (`realm/player_social.cpp`, `player_handlers.cpp`, `mysql_database.cpp`)

State: the character and how far it is in a world, `m_contacts`, the table `character_social`, the node's ignore list, the
requests to the database thread and the answers posted to the event loop, each with whether the Player who asked is alive.
Actions: entering, leaving and teleporting (`Travel`), the packets that add and delete friends and ignored characters
(`ClientPacket`), a step of the database thread, the handling of an answer. `torn` marks contacts that were touched while
a write of them was under way: the handlers do not wait for it, and list and table may then differ for good. The properties
speak of what was done one after the other.

### 3.8 Quests (`game/game_character.cpp`, `world/player_quest_handlers.cpp`, `realm/mysql_database.cpp`)

State: per quest the status data, the log fields the client sees, the cache of needed items, and what the node has last
told the realm (`told`); at the realm the rows, and which quests have a message on its way (`stored.due`); the inventory
by slots with stacks, and the inventory that was saved last. `stored.failed` and `stored.overfull` are history.
Actions: `Deeds` (kills, spells, explorations, death), `Possessions` (items found, lost, moved in stacks), `Dealings`
(accept, accept from an item, abandon, complete, reward), `HandleQuestUpdate`, `SaveInventory`, `Relog`, `NodeCrash`.

With every change of a quest the node sends it to the realm (`Saved`). The realm writes the row when the message arrives, or
only logs that it could not (world.cpp:496-514): `HandleQuestUpdate` does either. `NodeCrash` stands for a broken link
as well: what is on its way is lost, and the character comes back with the rows there are and the inventory of
the last save. An older message about the same quest that still arrives before the crash is a step before the newer change;
several of one handler about one quest count as the last. `ProgressStored` says that
nothing else is lost: a quest whose row is behind has a message on its way, or its last one could not be written. After lost
messages a login may find more quests than the log can show, which then have no entry (`overfull`); the run has as many
quests as fields, so that the theorem alone covers this.

A refused reward keeps what it has taken: `rewardQuest` removes one wanted item after the other and returns when one is missing
or the prize cannot be made (game_character.cpp:681-710). `RefusedReward` bounds that: in the order of the requirements, of each
item all the quest asks for or none, and of nothing else.

`NeededWhenMissing` states what `needsQuestItem` promises and is checked by no run: the cache drifts by what is gained and
lost while a quest is complete, rewarded or restored. No action and no other property reads the cache, so the run leaves
it out of its states (the VIEW `WithoutNeeded`), and `MaxDrift` is out of reach there. The loops over slots are in closed
form, so that they can be reasoned about: what is taken from a slot or put into it is what is left of the number after the
slots before it (`TakenFrom`, `Created`).

### 3.9 CreatureCombat (`game/creature_ai*.cpp`, `game_unit.cpp`, `game_creature.cpp`)

State: per creature its AI state (idle, prepare, combat, reset, death; "stranded" is reset without a way home), threat
list, victim, what holds it, whether it may move, who has a right to its loot; per character whether it is there, alive,
in combat, and by whom it is attacked; the functions posted to the universe in their order. Actions: aggro, blows and
deaths on both sides, holds and their ends, the way home, help for neighbours (`Fighting`), respawn, despawn, logout,
login, revival (`Life`), `RunPosted`. Amounts of threat and positions are choices, and so is whether `moveTo` finds a path
home: `NoPathHome` may happen as long as the creature is on its way, and since nobody asks what `moveTo` returns and no
timer tries again, the creature is then stranded until it is attacked, called for help or removed. `dangling` is a posted
function that refers to an object which is gone. A posted choice holds its state by a weak pointer only: when the state
has gone it stays in the queue as "expired", runs and does nothing (`MaxPosted` counts it too). When a character dies or
leaves, every creature that fights it takes it off the list (`Dropped`) and chooses for itself (`Chosen`): one that goes
home has nobody left on its list, so the choices do not disturb each other.

### 3.10 Loot and Spawner (`game/loot_instance.cpp`, `world/player_handlers.cpp`, `player.cpp`; `game/creature_spawner.cpp`, `world_object_spawner.cpp`)

Loot: per source (corpse, chest, opened item) the object and its `LootInstance`, per player the dialog. `cleared` is
threaded: it closes every dialog, and removes a chest or an item. `given` is history: what a corpse or a chest handed out.
`fault`: the server divided by zero (money without recipients), or used a source that is gone. Spawner: per spawn point the
number of its objects, its countdown and the two switches. `Switched` and `RespawnSet` cancel the countdown as `setState`
and `setRespawn` do.

### 3.11 Casting (`game/single_cast_state.cpp`, `spell_cast.cpp`, `no_cast_state.cpp`, `game_unit.cpp`)

State: the `SingleCastState` objects by number, each with its target, timer, what it listens to, whether it has been paid,
what the client was told and whether a missile flies; the unit with its current cast, victim, swing timer, paused attack,
queued strike and channel field; the possible targets. Actions: cast, cancel, attack and stop packets; the ends of the cast
timer, of the swing timer and of a missile's flight; movement, damage, interruption, stun, fear, death; targets that die,
leave, revive. A strike is cast at once and stays as the callback of the next swing, a missile flies on after its cast.

Kept in the model: a cast that finds its reagents or its item gone returns without ending, so the paused attack never goes
on (`paused = "forgotten"`); a chest in use leaves its cast unfinished without a timer; `TargetDead` tells a queued strike
that it failed but keeps its callback; a cast that ends after `attackStop` may start the attack again.

### 3.12 Auras (`game/aura_container.cpp`, `aura_spell_slot.cpp`, `aura_effect.cpp`, `aura_effects.cpp`)

State: per unit the list of auras (spell, caster, slot, charges, stacks, whether it listens to damage yet), the fields with
the spell of each slot, stun, root, shape, alive; `m_trackAuraTargets` per caster and mechanic; the posted removals of shape
passives. Actions: `ApplyAura`, which is `addAura` with everything it overwrites, pushes out and ends on another unit; the
ends of auras (`AuraEnds`, `SpellEnds`, `DispelMechanic`, `RemoveProcCharges`, `TakenDamage`), death and revival, and the
posted functions (`Connects`, `PassiveLeaves`). Spells are records of flags (`Entry`).

`fault` stops the model where the program is wrong in itself. "unapplied": `applyEffects` counts an aura as applied, and fills
its field, only after all effects ran; a first tick that kills (StartPeriodicAtApply) removes the aura before, which the
ASSERT of aura_spell_slot.cpp:116 refuses, and a release build leaves the field filled. "dangling": a spell that breaks by
damage posts a function with a raw `this` (aura_effect.cpp:1096), which may run after the aura has gone; the one for
`aurainterruptflags` beside it holds a weak pointer. `AurasAgree` speaks of the states before.

Seen beside it: the posted removal of a shape's passive spell is by spell id, so that recasting the same shape may remove
the passive of the new one; two single-target spells of the same mechanic erase each other's record, and one without a
mechanic strips all auras without one from the former target. The instance has one such spell, with a mechanic. What the
code takes for granted of its spells is `SpellsApart`: of a family (same base id) all or none are curses, a single-target
spell is not passive, and the single-target spells of one mechanic are one family. `OneOfACaster` and `OneTarget` need it; with
two single-target spells of one mechanic and different base ids on one unit, the end of the first erases the caster's
record while the second is still there. The other conjuncts of `AurasAgree` hold for any spells.

## 4. The runs

A part that shares no state with another is checked beside it in the same run: a variable `part` of the MC module (for
`MCCharacters` of `Characters`, which it gives its spells) says which of them moves, the others stay in their initial
states, so that the behaviours are those of the parts, one at a time. Where a property has several named conjuncts, the
run checks the conjunction (for example `RaidsAgree` is `Consistent` and `GroupFitsItsType`).

| Run (module) | Part and bounds | Shows |
|---|---|---|
| `Characters` (`MCCharacters`) | *group*: 3 characters in the world, one of them away or leaving at a time, no moves between nodes (`NobodyMoves`), 1 group id, sizes 2 and 3, 2 invitations or logins | `RaidsAgree`: three members are the least for which a removal keeps the group, and a group of two plus an invited third is full before it becomes a raid |
| | *casting*: 2 targets of which one is lost at a time, one spell each of bolt, channel, strike and unlocking, 3 casts at a time, one hold | `CastsAgree`: a missile in flight, a queued strike and a cast with a timer at once |
| | *shapes*, *stuns*, *hexes*: one unit with two shapes, a passive, stacks and a stun (3 auras); two units, of which one stuns the other in two ways, or that both stun each other with a single-target spell (2 auras each) | `AurasAgree`: two stuns end in either order; a shape replaces another; a single-target spell moves |
| `Restarts` (`MCRestarts`) | *group*: 2 characters, 2 ids, 1 restart, 4 invitations or logins, failing removals, one character at a time leaving its node or between two (`OneGoes`) | `TypeOK`, `Consistent`, `FreshIds`, `WorldAgrees` from the empty system (a member that is invited again matters with three characters only, see 3.1; a group joined during a move, with two): two ids let an old object outlive its group while a new one is founded |
| | *quests*: 2 quests that share an item, one of which wants two kinds, a log of 2, 2 slots with stacks of 2; one quest at a time under way to the database or not written, which happens to one of the two only (`OneUnwritten`), one change of the inventory between two saves (`OneUnsaved`) | `QuestsAgree`, `QuestItemsKept`: a full pack, a price spread over stacks, a giver that is the price's neighbour, a reward refused after its first item was taken, a crash between a change, its message and its row |
| `Trade` (`MCTrade`) | two casts: 2 players with 2 items (one limited), one slot of each kind, 2 trade slots, drift 1; 3 players, 3 trades, gold 0 or 1, purses of up to 2 at a width of 3 | `InventoriesAgree`, `SessionsAgree`, `AcceptedAsShown`, `ExchangedAsAgreed`: every move of the items between offer and exchange; a third player is needed to be left behind; a full purse that gets a coin wraps; a trade with oneself is among the behaviours |
| `TimerQueue` (`TimerQueue`) | 2 countdowns, delays up to 2, each set or cancelled twice, no wrap within the horizon | `OneLiveEntry`, `TimerCoversQueue`, `KeepsContract` (refinement), `EveryEndComes` |
| `WorldNode` (`MCWorldNode`) | *transfer*: 2 nodes, 2 sessions, 1 change, 2 moves, 2 mishaps | `WhereaboutsAgree`, `ProgressKept`, `IsOneJourney` (refinement), `EnterEnds`: two nodes for a transfer, two mishaps for a lost link behind a lost session |
| | *pack*: 2 creatures against 1 character, stuns; *siege*: 1 creature against 2, stuns and roots; 2 posted functions beside the ways home | `EnemiesAgree`, `FightsKept`, `EvadeEnds`: help for a neighbour needs two creatures, the choice of a new victim two characters |
| | *loot*: 2 players, 2 slots (one shared), money, a corpse, a chest, a box, one source there at a time | `LootShown`, `HandedOutOnce`: two dialogs of one source; a box removed under its dialog while another source is there |
| | *spawner*: a point of 2 objects, a point of 2 creatures | `SpawnersKept`: one is left while the other is waited for |
| `Servers` (`MCServers`) | *login*: 1 client, 2 keys, 2 links, 1 connection to the login server, 2 to the realm | `RealmListed`, `PendingIsAsked`, `RequestsEnd`: the old link is noticed after the new one stands; two connections at the realm ask for one account |
| | *social*: 1 character, 1 contact, 2 requests under way | `ContactsAgree`: two requests for one contact, answers after the character has left |
| | *crypted*: headers of 2 cells, bodies of 0 or 1, 3 packets in any pieces, 2 replies | `ToldOnce`, `HandledInOrder`, `RepliesInOrder`, `EndIsTold`: a header may be split, may arrive with or behind a packet, and a third packet follows the second error |
| `TradeAsserts`, `TradeUninitialised` (`MCTrade`) | 2 players with items; memory not zero | violations of `ExchangeSafe` and `AcceptedAsShown` |
| `TimerQueueWrap` (`TimerQueue`) | 1 countdown, a horizon beyond one period | violation of `EveryEndComes` |
| `WorldTransferLost` (`WorldTransfer`) | as *transfer* with 1 mishap | violation of `LostClientEnds` |
| `CryptedConnectionHeader` (`CryptedConnection`) | as *crypted* | violation of `HeaderDecryptedOnce` |
| `SocialIgnoreLost` (`Social`) | as *social* | violation of `RemovedIsNeither` |

The passing runs also check the types of every part (`CharactersTypeOK`, `NodeTypeOK`, `ServersTypeOK`, `TypeOK`).
`CHECK_DEADLOCK FALSE` everywhere: the bounds let every model come to rest, and so may the servers when nobody does
anything. Some parts start a few steps into the behaviour (`MCPlayerGroup!InitInWorld`: everybody is in the world;
`MCTrade!ItemsInit`: one player carries an item); the modules' own `Init` reaches those states. Players, trades and targets
are symmetric in `Trade` and `Characters`, whose properties are all safety properties.

Every property of a passing run has a mutant in PROJECT.json: a small change of a definition, as a bug in that code would
be, which TLC finds to violate the property under the same configuration. Examples: the full check asks `>` instead of
`>=`; a moved item stays on the table; `cancel` forgets to count; an aura is misapplied while it is still in the list; the
character's data is sent behind the message that it left; a failed parse keeps the old offset.

### 4.1 Where code and comments disagree

The six violation runs; PROJECT.json quotes the lines.

* `TradeAsserts`: `performTrade` relies on checks that do not see destroyed items nor the drift of `m_freeSlots`.
* `TradeUninitialised`: `TradeData` does not initialise its flags.
* `TimerQueueWrap`: the clock keeps 32 bits on Linux.
* `WorldTransferLost`: a client lost during a transfer is waited for at the node it has left.
* `CryptedConnectionHeader`: `m_decryptedUntil` is reset when the packet before a decrypted header is erased.
* `SocialIgnoreLost`: a contact who is both friend and ignored is loaded as a friend only, and deleting the friend deletes
  the ignore.

### 4.2 Known divergences

What the code does, where no property can hold or none is promised. The first four are the hazards without a property.

* Declining disbands a group of one although other invitations to it are pending (player_group.cpp:272); `disband` resets only
  players in the world, the others keep the object and may accept into a group that is gone.
* A connection closed while parsing resets `m_socket`; the handler of a write that completes then uses it when more data waits
  (game_crypted_connection.h:190, `crashed`).
* Block only leaves the loop of `parsePackets`; packets that arrive later are parsed while the answer of the database is out,
  and some answers never resume parsing (game_crypted_connection.h:282, player.cpp:333).
* The cache of needed items (game_character.h:921) is counted down when a quest is completed and again when it is rewarded or
  abandoned; each item found beyond the number asked for counts it down again; loading counts items that are already there,
  and a quest that fails counts only those that are missing. The cache decides which objects and loot are shown.
* A member that was invited again to its own, now full, group belongs to it without its node knowing (player_group.cpp:154),
  and so does one that joined while it moved from one node to the next (world.cpp:403, player.cpp:812; section 3.1).
* A quest whose row could not be written is not sent again, and a refused reward keeps the items it took (section 3.8).
* A creature that finds no path home stays in the reset state where it stands (creature_ai_reset_state.cpp, section 3.9).
* A raid that a restart loads is a normal group again (player_group.cpp:39) and may have more members than that type allows.
* A former leader has no row in `group_members` (mysql_database.cpp:1614) and is lost by a restart.
* A request to the login server that was pending when the link was lost is never removed (login_connector.cpp:138); a realm
  that stays silent is closed without the flag in the database (login/realm.cpp:53); `tryEnterRealm` has no caller
  (login/realm.cpp:230), so two realms may use one session.
* Looting money without a recipient divides by zero (world/player_handlers.cpp:461); the dialog of an opened item outlives the
  item (player.cpp:1543).
* A creatures' spawn point may hold one too many (creature_spawner.cpp:159).
* The divergences of casts and auras are in sections 3.11 and 3.12.

## 5. Fairness

* `TimerQueue!FairSpec`: `WF(Tick)`, time passes; `WF(EventLoop)`, `io_service::run` goes on and `ended` handlers return.
  Nothing is assumed of the program. `EveryEndComes` needs both.
* `WorldTransfer!FairSpec`: `WF` of the handlers of realm and nodes for each link: a message that has arrived on a link that
  stands is handled. A link that is lost need not return, clients and the game need not do anything. `EnterEnds` therefore
  allows a mishap as an end.
* `CryptedConnection!FairSpec`: `WF(EventLoop)` and `WF(System)`: the event loop runs, and the socket hands over what has
  arrived. Completion of a write is not assumed. `EndIsTold` says that a client that goes is noticed.
* `RealmLogin!LoginFairness`: messages are handled, the realm notices a lost link and an attempt to connect ends. Clients, the
  network and the login server's own notice of a loss are not assumed. `RequestsEnd` says that nobody waits for an answer
  the login server owes.
* `CreatureCombat!CombatFairness`: posted functions run, and a creature that is on its way home with a path arrives
  (`UnitMover` has a countdown to its target). That there is a path is not assumed: `NoPathHome` is always possible, and
  `EvadeEnds` says that evading ends or strands. It promises nothing once a posted function has lost its object
  (`dangling`).

The MC modules state the same fairness for the part that moves.

## 6. Proofs

All theorems hold for every value of the constants that satisfies the modules' assumptions.

* **CharactersProofs**, for three modules that share no state, and for the run `Characters`.
  *PlayerGroup*: `TypeCorrect`; `GroupsMatchTables` (`Consistent`, the conjunction `LeaderIsMember /\ RowsMatchGroups /\
  RestartAddsNobody`). The conjunction is inductive beside the types, none of its parts alone is: a restart restores
  leaders from rows and members from rows, so memory is right after it only because the tables were right before.
  `IdsStayFresh` (`FreshIds`) beside the types: every step but a new group only takes ids away, and a restart puts the
  generator behind every row. `NodesKnowGroups` (`WorldAgrees`) from `NodesTold`, which speaks of players on their way to
  a node as well (`Told`), of what `m_group` can be at the character list (`IdlePointer`: what the last login restored, so
  that a login which restores nothing finds only a pointer to a group that is gone), and needs `FreshIds`, so that such a
  pointer never names a new group. Moves between nodes are among the steps: a session that moves has the id its first node
  sent back, which is its group's unless the character is one of the two exceptions of section 3.1. `GroupsFit`
  (`GroupFitsItsType`) for as long as the realm runs (`MaxRestarts = 0`), with `NormalMax <= RaidMax`;
  `GroupsAndRaidsAgree` (`RaidsAgree`, the conjunction the run checks) under the same two conditions.
  *Auras*: `AurasSound`, the inductive invariant `AurasInv`; from it `AurasTypeCorrect`, `UnitsFollowAuras` and
  `CastersKeepOneAura` (`AurasAgree`), for any units, spells and fields and without a bound on auras other than
  `MaxAuras`. The invariant says of each unit by itself that its fields, stun, root, shape and passive spells fit its list
  (`Fit`), and that what a caster remembers is there (`Remembered`); the converse (`Found`) and that auras of one family
  have no rivals (`NoRivals`, which counts curses as one family, as `shouldOverwriteAura` does) only under `SpellsApart`.
  That the dead keep only what survives death (`Mortal`) is a part of its own, because it is broken and mended inside of
  an application whose first tick kills. The list that remains when auras end has the others, each once and in order
  (`Thinned`, from lemmas on `Rank` and `Nth`), from which `RemovedFit` follows; a new aura comes down to a removal
  elsewhere and a change of its unit (`GrownHolds`). `UnitsFollowAuras` needs no `SpellsApart`; that the spells of the run
  meet it is an assumption TLC evaluates (`MCSpellsApart`).
  *Casting*: `CastingSound`, the inductive invariant `CastingInv`; from it `CastingTypeCorrect` and `CastsFit`
  (`CastsAgree`), for any spells of any kinds, without the bound on holds that the run has. Handlers call each other in
  the middle of their work, so there is a lemma for each operator of the model: it keeps what the casts and the unit promise
  (`Good`), and it makes no cast and starts none (`Comes`), which lets the lemmas be chained. The promises are stronger than
  the property: a cast that hears of swings is a strike that was told nothing, who swings has a victim and nothing holds it,
  only a cast with a cast time is unfinished with a timer. Where a cast is about to finish less than that holds (`Mid`: its
  timer has run out and it still bars others), and every branch of `onCastFinished` but the one for missing goods
  reports the cast and wakes the swing that waits for it; that one is why `paused` knows the value "forgotten".
  *The run*: `PartsOfCharacters`, `CharactersTypeCorrect` (`CharactersTypeOK`) and `CharactersSound`, see below.
* **TradeProofs**: `Agreement` (`SessionsAgree`) and `NoBaitAndSwitch` (`AcceptedAsShown`, for zeroed memory) from the
  invariant `SInv`: the records have their shape, sessions agree and, on zeroed memory, acceptances are as shown. Nothing
  is assumed of items or inventories; what happens to them cannot disturb the sessions. `TypeCorrect` (`TypeOK`),
  `InventoriesStaySound` (`InventoriesAgree`) and `ItemsExchanged` (`ExchangedAsAgreed`) from `TInv`, for any items,
  slots, offers and limits. Each inventory is `Kept`: its counter promises at least the empty slots of the pack, and the
  counter and the held slots together are bounded, which is why no addition wraps as long as the counter is wide enough
  for `MaxFree` and the slots (`CountersWide`); this holds of a release build too, whatever fails half way. That nothing
  lies in two places (`Once`) and what is not made yet lies nowhere needs `AssertStops`: a release build that goes on
  after a failed `removeItems` gives the item to the other side all the same. With it, an exchange that succeeds is four
  steps on the two inventories, and each is one of two kinds: an offer that is all there goes and nothing else
  (`Without`), an offer that lies nowhere comes (`Gets`). For `ItemsExchanged`, a trade whose items still lie in the two
  packs frees as many slots as it takes (`OfferFrees`), so the room check is enough and all of it fits (`RoomForAll`). It
  assumes zeroed memory (otherwise one acceptance may close a trade, even one with oneself). Nothing is assumed of the
  money: the theorem says what is in a purse that was too full, as `PaidAsAgreed` does.
* **TimerQueueProofs**: `TypeCorrect`; `LiveEntry` (`OneLiveEntry`) from `LiveEntries`: the entry of a running countdown is
  queued, no number in the queue is larger than `m_delayCount`, and one with the current number is for the current end;
  `TimerCovers` (`TimerCoversQueue`) from `Covered`, which says in every phase of `update` which wait or posted handler will
  see the first event; `ContractKept`, the refinement, step by step. The last two assume `NoWrap`: the horizon is
  shorter than one period of the clock. Without it they are false (`TimerQueueWrap`).
* **WorldTransferProofs**: `TypeCorrect`; `EnteredNodeStays` (`EnteredNodeIsConnected`, a part of `WhereaboutsAgree`). The
  invariant adds the types of the messages. The step that matters is the loss of a link: every player that has entered
  watches that very World object. `ProgressIsKept` (`ProgressKept`) from `StageInv`: without a mishap the character is at
  home, sent to a node, playing in it or leaving it, and each stage says what is on its way and who has the latest data,
  so that the data sent behind the last move cannot be overtaken by the farewell. `WhereaboutsKnown` (`WhereaboutsAgree`:
  nodes and realm agree, and there is one copy and one more per mishap at most) from `Budget`: every copy in a node,
  log-in or farewell on its way and transfer that is asked for is a token, and a step that makes one uses up another, or a
  mishap; the bound on the tokens is inductive, the number of copies alone is not. `JourneyIsOne` (`IsOneJourney`), the
  refinement: `Seen` says what the abstract specification sees of each stage of `StageInv`, `Located` what a copy, a
  log-in or a farewell at one node says of the whole; with both before and after a step it is enough to know of a handler
  that it leaves log-ins where they are, or that a node that lets the character go says so.
* **CryptedConnectionProofs**: `TypeCorrect`, with both offsets inside `m_received`; `ToldOnlyOnce` (`ToldOnce`), with the
  strengthening `SocketKept`: a socket that is closed, or will be, belongs to no Player; `RepliesKeepOrder`
  (`RepliesInOrder`), which needs `SocketKept` again, so that no Player sends into a null socket, and `WriteFits`: packets wait
  only behind a write; `PacketsKeepOrder` (`HandledInOrder`) from `InStep`: what is left of `m_received`, what a read brought
  and what is on the wire are, one behind the other, the packets the listener has not got yet, down to the last the client
  sent. The lemmas are about runs of packets of any length: what is left when cells are appended, or a packet is taken off,
  is a run again. How a header is deciphered plays no part: one that cannot be read makes junk, which the property excepts.
* **ServersProofs**, for two modules that share no state, and for the run `Servers`.
  *RealmLogin*: `LoginSound`, the inductive invariant `LoginInv`; from it `LoginTypeCorrect` and `RealmIsListed`
  (`RealmListed`). An answer of success carries a key, so the invariant must know that a session exists only with a key in
  the account's row (`KeysHeld`), across challenges that are repeated and clients that go. That only one Realm is listed
  rests on the check for a name at login, and on `online` being written by whoever is removed from the list.
  `RequestsAreFollowed` (`PendingIsAsked`) from `RequestsOK`: a pending account has one question or one answer on the
  current link, or its question was lost with a link, which makes it orphaned.
  *Social*: `SocialSound`, the inductive invariant `SocialInv`; from it `SocialTypeCorrect` and `ListIsFollowed`
  (`ContactsAgree`). The list, the table and the node differ while statements wait for the database thread, so the invariant
  speaks of them: `RowsOrderly`, one write of a row at a time and no insertion beside a row; `ListKnown`, what is in the queue
  makes the table say what the list says; `NodeHears`, the node ignores nobody else; `DeletedFirst`, a deletion and the new
  entry after it keep their order. A list that was torn by a load between two writes is excepted, as in the property.
  *The run*: `PartsOfServers`, `ServersTypeCorrect` (`ServersTypeOK`) and `ServersSound`, see below.
* **QuestsProofs**: `QuestTypeCorrect`, `QuestsStayTrue` (`QuestsAgree`) and `ItemsAreForQuests` (`QuestItemsKept`), for
  any quests, requirements, items, slots and fields of the log, with messages that are lost and writes that fail. The
  invariant `QInv` says that the log shows the accepted quests, each once and with its status and kills (`Shows`; after a
  login that found more than the log can hold, some may be `Hidden`), that quests nobody has accepted have no kills
  (`Untouched`: otherwise a quest that is accepted again would count more than its fresh entry shows), that stacks are
  neither empty nor too large, and of the database (`StoredOK`) that a row is what the realm was told last but for what is
  under way or was not written, and that no row has a reward the character does not have. Handlers break the two halves
  one after the other, so the lemmas are about `Good(j, X, Y, W)`: the log may be behind for the quests of X, what the
  realm was told for those of Y, and those of W may be hidden. A handler that leaves nothing untold then keeps the
  database's half, whatever it sent (`SendKeeps`). Credit that a removal or a gain gives on the way leaves accepted quests
  accepted (`Credited`), so that a handler still finds the entry it is about to clear. How many items there are is counted
  by units, a stack of n being n of them: what is taken or made is an initial part of them in the order of the slots
  (`OneAfterTheOther`), so as many go or come as were asked for (`TakenCounts`, `CreatedCounts`), which is what a reward's
  price, the part of it that a refused reward keeps (`TakenInOrder`) and a giver that is put back come down to.
  `PartsOfRestarts` is for the run.
* **WorldNodeProofs**, for three modules that share no state, and for the run `WorldNode`.
  *Spawner*: `SpawnPointsKept`, the inductive invariant `SpawnInv`; from it `SpawnTypeCorrect` and `SpawnersAreKept`
  (`SpawnersKept`). A point of creatures holds one too many at most, because its countdown may still run when it has
  been filled up, and is never set while it is full: `Kept` says both, for each spawn point by itself.
  *Loot*: `LootSound`, the inductive invariant `LootInv`; from it `LootTypeCorrect`, `LootIsShown` (`LootShown`) and
  `NothingTwice` (`HandedOutOnce`). A dialog is as it should be (`Shown`) because the step that empties or removes a source is
  the one that closes the dialogs; what was handed out is marked in the loot (`MarkedAs`), so that a second hand finds it taken.
  *CreatureCombat*: `CombatSound`, the inductive invariant `CombatInv`; from it `CombatTypeCorrect`, `FoesAgree`
  (`EnemiesAgree`) and `FightsGoOn` (`FightsKept`), for any creatures, characters and posted functions. `Orderly` is what
  every helper keeps: a creature that does not fight has no enemy and no countdown (`FoeFits`), both lists agree
  (`FoesKnown`), who is on a list is there, alive and in combat (`FoesThere`), and what is posted will find whom it asks
  for (`CallsFit`); the property alone is not inductive, because a call for help puts its unit on a list, and a blow may
  only come from someone who is there. `Reasoned` is broken in the middle of a handler, so each handler keeps it for all
  creatures but its own (`FightsWellBut`) and restores it at its end; `Elsewhere` says that what one creature decides
  leaves the others and their posted choices alone. When a character goes (`Forsake`) it is off the lists before anyone
  has chosen, and still a victim; that state between has an invariant of its own.
  *The run*: `PartsOfNode`, `NodeTypeCorrect` (`NodeTypeOK`) and `NodeSound`, see below.

*The runs.* A run that takes several modules one part at a time has a specification of its own (`ServersSpec`,
`WorldNodeSpec`, `CharactersSpec`, `RestartsSpec`). `PartsOfServers`, `PartsOfNode`, `PartsOfCharacters` and
`PartsOfRestarts` show that each of its behaviours is a behaviour of every module in it: the initial states are initial
states, and a step of another part is a stutter. So what is proved of a module holds in the run: `ServersTypeCorrect`,
`NodeTypeCorrect` and `CharactersTypeCorrect` are the type invariants of all parts together, `ServersSound`, `NodeSound`
and `CharactersSound` all safety invariants of the run. What keeps a part small for TLC (`Pack`, `OneSource`, `TwoAuras`,
...) only leaves steps out. `Characters` starts its groups with every character in the world (`RaidsInWorldAgree` does the
same), and needs `SpellsGiven`: the spells it names have data and there is a unit.

Only model-checked: the five liveness properties (`EveryEndComes`, `EnterEnds`, `EvadeEnds`, `RequestsEnd`, `EndIsTold`).
They hold under weak fairness, whose proof needs ENABLED, which the provers used do not reason about. All other properties
of the passing runs, 35 of 40, are theorems.

## 7. Not modelled

### 7.1 Of the modelled parts

* PlayerGroup: loot settings, ready checks, status updates and other packets without state.
* Trade: bags, stacks and enchantments, distance checks.
* WorldTransfer: one character per account, one map and one instance per node, a teleport is an event of the node's, both
  ends see the loss of a link before it comes back (the node waits before it connects again); a malformed packet on the link
  between realm and node, which drops the World object without `onConnectionLost`, and a restart of the realm.
* CryptedConnection: the packets before the session key is known (headers are not encrypted), and several answers to one
  packet. A connection that is refused while its parsing is resumed has no `m_socket` when `beginReceive` starts the next
  read (game_crypted_connection.h:213, 287, 328): `BeginReceive` lets that read start and find the end. A header with a
  size below 4 underflows (game_incoming_packet.cpp:51); headers here announce the length of their packet.
* RealmLogin: the arithmetic of SRP6, tutorial data, malformed packets between the two servers.
* Social: notes, the online status that is sent along, the limit of the list.
* Quests: requirements of objects, source items in the log, time limits, money and experience, choices among rewards, daily
  quests.
* CreatureCombat: amounts of threat, positions, friendly factions, pets and summons, auras on a creature that evades.
  `EvadeEnds` promises nothing after a reference has been left dangling.
* Loot: rolling, the open flag of a chest, whether the looter is alive, group loot methods, skinning. An opened item's loot is
  rolled anew at each login (game_item.cpp:114), and an item shared by all may be taken again by who has it
  (player_handlers.cpp:71). `FightsKept` and `LootShown` ask that there are recipients and that dialogs show what is there, not
  that the recipients are the right ones.
* Casting: amounts, distances and cooldowns, effects on the target other than its death, items that move while they are used,
  procs (one that channels would set the channel field of the cast in progress), leaving the world with a missile in
  flight. Confused is as feared, although `triggerNextAutoAttack` asks for stunned and feared only (game_unit.cpp:2689). The
  countdown of a channeled missile's cast goes on in the code when the cast is no longer current; here it ends with it.
* Auras: amounts and periodic effects but for the first tick, what procs cast, immunities, absorbed damage, area auras and
  the ground effects that hold them (`game_dyn_object.cpp`), auras of items, storing and restoring, leaving the world.
  Every aura that is not passive gets a visible slot; `HiddenClientSide` (aura_container.cpp:42) does not exist here. Stacks are
  counted; that `addStack` takes the modifier off and applies it again (aura_spell_slot.cpp:349-371) is an amount.

### 7.2 Parts without a model

* *Mail* is unfinished in the code: mails live in the realm's session of a player and are stored nowhere, attached items stay
  with the sender, the coins are checked on the node and taken later, the counter of unread mails goes down at every mark.
  There is no agreed state that a model could compare. *Chat* is routing without state.
* *Rules of spells and fights* (`spell_effects.cpp`, `attack_table.cpp`, most of `game_unit.cpp` and `game_character.cpp`):
  amounts computed from static data. *Visibility and movement*: geometry. What they decide enters the models as a choice.
* *The plain `Connection`* differs from `CryptedConnection` in `close` and in having no encryption; the links between the
  servers are modelled above it.
* *I/O and conversion*: protocol readers and writers, SQL, HTTP, static data, updater and launcher; tools (editor,
  extractors, patchers: half of the lines of the checkout); vendored code.

### 7.3 Hazards without a property

Four hazards of PROJECT.json have none, with the reason there: what goes wrong does happen, is in the model, and nothing in
the repository says what should happen instead. They are the first four of section 4.2.

## 8. Running

    tlc -workers 2 -config Characters.cfg MCCharacters     # the run's module, as in the table of section 4
    tlc -workers 2 -config TimerQueue.cfg TimerQueue
    tlapm TradeProofs.tla

Runs take from seconds to two minutes, the proofs of a module from one to twelve.
