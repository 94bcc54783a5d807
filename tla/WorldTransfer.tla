--------------------------- MODULE WorldTransfer ---------------------------
(***************************************************************************)
(* A character between the realm and the world nodes: the Player object of *)
(* the realm, the World objects that stand for the links to the nodes, the *)
(* nodes' own players, and the messages on the way in both directions.     *)
(*                                                                         *)
(* One account with one character: the login server's answer goes to the   *)
(* first Player with the account's name, so an account has at most one     *)
(* authenticated Player.  Every node hosts one map, in one instance that   *)
(* is created by the first character who enters.  A handler is one step.   *)
(***************************************************************************)
EXTENDS Naturals, Sequences, SequencesExt, FiniteSets

CONSTANTS
  Node,          \* the world nodes; a node stands for its map and instance, too
  StartMap,      \* where the character is when the model starts
  MaxSessions,   \* bound: Player objects the account gets
  MaxProgress,   \* bound: how often the character changes
  MaxMoves,      \* bound: teleports and packets for the nodes
  MaxMishaps     \* bound: see mishaps below

CONSTANTS NoNode, Dangling, NoData

ASSUME WorldTransferAssumption ==
  /\ StartMap \in Node
  /\ NoNode \notin Node /\ Dangling \notin Node /\ NoNode # Dangling
  /\ NoData \notin Nat
  /\ {MaxSessions, MaxProgress, MaxMoves, MaxMishaps} \subseteq Nat

VARIABLES
  player,    \* realm::Player of the account
  saved,     \* the character's row in the database
  world,     \* realm::World of each node: is there a link, is the instance known
  node,      \* world::Player objects of the character, oldest first; does the instance exist
  toNode, toRealm,  \* messages on the way
  newest,    \* history: the character's latest state
  mishaps,   \* history: sessions that ended without the node being waited for, links lost
  sessions, moves

link == <<toNode, toRealm>>
bounds == <<sessions, moves>>
vars == <<player, saved, world, node, toNode, toRealm, newest, mishaps, sessions, moves>>

NoPlayer ==
  [session |-> "none",     \* none; open; lost: m_connection has reported connectionLost
   character |-> FALSE,    \* m_characterId # 0
   data |-> NoData,        \* m_gameCharacter
   worldNode |-> NoNode,   \* m_worldNode, Dangling when its World object is gone
   watch |-> "none", watched |-> NoNode,  \* m_worldDisconnected: handler and World
   instance |-> NoNode,    \* m_instanceId
   transfer |-> NoNode,    \* m_transferMap and m_transfer
   newWorld |-> FALSE]     \* the client has been sent SMSG_NEW_WORLD

Init ==
  /\ player = NoPlayer
  /\ saved = [map |-> StartMap, data |-> 0]
  /\ world = [n \in Node |-> [connected |-> TRUE, instance |-> FALSE]]
  /\ node = [n \in Node |-> [copies |-> <<>>, instance |-> FALSE]]
  /\ toNode = [n \in Node |-> <<>>]
  /\ toRealm = [n \in Node |-> <<>>]
  /\ newest = 0
  /\ mishaps = 0
  /\ sessions = 0
  /\ moves = 0

CharacterLogIn(data) == [type |-> "CharacterLogIn", data |-> data]
LeaveWorldInstance(reason) == [type |-> "LeaveWorldInstance", reason |-> reason]
ClientProxyPacket(packet) == [type |-> "ClientProxyPacket", packet |-> packet]
WorldInstanceEntered == [type |-> "WorldInstanceEntered"]
CharacterData(data) == [type |-> "CharacterData", data |-> data]
WorldInstanceLeft(reason) == [type |-> "WorldInstanceLeft", reason |-> reason]
TeleportRequest(map) == [type |-> "TeleportRequest", map |-> map]

SendToNode(n, message) == toNode' = [toNode EXCEPT ![n] = Append(@, message)]
SendToRealm(n, messages) == toRealm' = [toRealm EXCEPT ![n] = @ \o messages]

\* WorldManager: a node without a link has no World object.
WorldByMapId(map) == IF world[map].connected THEN map ELSE NoNode
WorldByInstanceId(instance) ==
  IF instance # NoNode /\ world[instance].instance THEN instance ELSE NoNode

Mishap(happens) ==
  /\ happens => mishaps < MaxMishaps
  /\ mishaps' = IF happens THEN mishaps + 1 ELSE mishaps

Move == moves < MaxMoves /\ moves' = moves + 1

-----------------------------------------------------------------------------
(* The realm: sessions. *)

LoginSucceeded ==
  /\ player = NoPlayer
  /\ sessions < MaxSessions
  /\ sessions' = sessions + 1
  /\ player' = [NoPlayer EXCEPT !.session = "open"]
  /\ UNCHANGED <<saved, world, node, link, newest, mishaps, moves>>

NotLoggedInAnyNode(p) == p.worldNode = NoNode
NotLoggedIn(p) == ~p.character /\ p.worldNode = NoNode
TransferPending(p) == p.character /\ p.worldNode = NoNode

\* The login that finds no node only answers CharLoginNoWorld.
HandlePlayerLogin ==
  LET n == WorldByMapId(saved.map)
  IN /\ player.session = "open" /\ NotLoggedIn(player)
     /\ n # NoNode
     /\ player' = [player EXCEPT !.character = TRUE, !.data = saved.data,
                                 !.watch = "login", !.watched = n]
     /\ SendToNode(n, CharacterLogIn(saved.data))
     /\ UNCHANGED <<saved, world, node, toRealm, newest, mishaps, bounds>>

\* A character that may be on a node, and nobody will wait for it.
LeavesCopy(p) == p.data # NoData

ConnectionLost ==
  LET n == WorldByInstanceId(player.instance)
  IN /\ player.session = "open"
     /\ IF player.data # NoData /\ n # NoNode
        THEN /\ player' = [player EXCEPT !.session = "lost"]
             /\ SendToNode(n, LeaveWorldInstance("Disconnect"))
             /\ Mishap(FALSE)
        ELSE /\ player' = NoPlayer
             /\ Mishap(LeavesCopy(player))
             /\ UNCHANGED toNode
     /\ UNCHANGED <<saved, world, node, toRealm, newest, bounds>>

\* A packet that is malformed, not valid in this state, or refused by its handler.
ConnectionMalformedPacket ==
  /\ player.session = "open"
  /\ player.worldNode # Dangling
  /\ IF player.worldNode # NoNode /\ player.character
     THEN SendToNode(player.worldNode, LeaveWorldInstance("Disconnect"))
     ELSE UNCHANGED toNode
  /\ player' = NoPlayer
  /\ Mishap(LeavesCopy(player))
  /\ UNCHANGED <<saved, world, node, toRealm, newest, bounds>>

\* What the realm does not handle itself goes to the node of m_instanceId.
RedirectPacket(packet) ==
  LET n == WorldByInstanceId(player.instance)
  IN /\ player.session = "open"
     /\ player.data # NoData
     /\ n # NoNode
     /\ SendToNode(n, ClientProxyPacket(packet))
     /\ Move
     /\ UNCHANGED <<player, saved, world, node, toRealm, newest, mishaps, sessions>>

\* The web interface moves a player: initializeTransfer with shouldLeaveNode.
WebTeleport(map) ==
  LET n == WorldByInstanceId(player.instance)
  IN /\ player.data # NoData
     /\ n # NoNode
     /\ player' = [player EXCEPT !.transfer = map]
     /\ SendToNode(n, LeaveWorldInstance("Teleport"))
     /\ Move
     /\ UNCHANGED <<saved, world, node, toRealm, newest, mishaps, sessions>>

\* The client acknowledges SMSG_NEW_WORLD; m_gameCharacter is used unasked.
HandleMoveWorldPortAck ==
  LET n == WorldByMapId(player.transfer)
  IN /\ player.session = "open" /\ player.newWorld
     /\ TransferPending(player)
     /\ player.transfer # NoNode
     /\ player.data # NoData
     /\ IF n = NoNode
        THEN /\ player' = [player EXCEPT !.newWorld = FALSE]
             /\ UNCHANGED toNode
        ELSE /\ player' = [player EXCEPT !.worldNode = n, !.transfer = NoNode,
                                         !.newWorld = FALSE]
             /\ SendToNode(n, CharacterLogIn(player.data))
     /\ UNCHANGED <<saved, world, node, toRealm, newest, mishaps, bounds>>

-----------------------------------------------------------------------------
(* The realm: messages of the nodes. *)

RealmReceives(n, type) ==
  /\ world[n].connected
  /\ toRealm[n] # <<>> /\ Head(toRealm[n]).type = type
  /\ toRealm' = [toRealm EXCEPT ![n] = Tail(@)]

PlayerAfterFirstEntered(p, n) ==
  IF p.instance = NoNode
  THEN [p EXCEPT !.worldNode = n, !.instance = n, !.watch = "entered", !.watched = n]
  ELSE p
PlayerAfterEntered(p, n) ==
  [p EXCEPT !.worldNode = n, !.instance = n, !.watch = "entered", !.watched = n]

\* worldInstanceEntered asserts m_gameCharacter.
HandleWorldInstanceEntered(n) ==
  /\ RealmReceives(n, "WorldInstanceEntered")
  /\ world' = [world EXCEPT ![n].instance = TRUE]
  /\ IF player.character
     THEN /\ player.data # NoData
          /\ player' = PlayerAfterEntered(player, n)
     ELSE UNCHANGED player
  /\ UNCHANGED <<saved, node, toNode, newest, mishaps, bounds>>

\* The realm's copy is what the next node gets, the row what the next login gets.
HandleCharacterData(n) ==
  LET data == Head(toRealm[n]).data
  IN /\ RealmReceives(n, "CharacterData")
     /\ saved' = [map |-> n, data |-> data]
     /\ IF player.character
        THEN /\ player.data # NoData
             /\ player' = [player EXCEPT !.data = data]
        ELSE UNCHANGED player
     /\ UNCHANGED <<world, node, toNode, newest, mishaps, bounds>>

HandleTeleportRequest(n) ==
  /\ RealmReceives(n, "TeleportRequest")
  /\ player' = IF player.character
               THEN [player EXCEPT !.transfer = Head(toRealm[n]).map]
               ELSE player
  /\ UNCHANGED <<saved, world, node, toNode, newest, mishaps, bounds>>

WithoutNode(p) == [p EXCEPT !.worldNode = NoNode, !.watch = "none", !.watched = NoNode]

LoggedOut(p) == [p EXCEPT !.character = FALSE, !.data = NoData, !.instance = NoNode,
                       !.newWorld = FALSE]

PlayerAfterLeft(p, reason) ==
  CASE reason = "Logout" -> LoggedOut(WithoutNode(p))
    [] reason = "Teleport" -> [WithoutNode(p) EXCEPT !.newWorld = p.transfer # NoNode]
    [] reason = "Disconnect" -> NoPlayer

\* A logout reads the guid of m_gameCharacter.
HandleWorldInstanceLeft(n) ==
  LET reason == Head(toRealm[n]).reason
  IN /\ RealmReceives(n, "WorldInstanceLeft")
     /\ IF player.character
        THEN /\ reason = "Logout" => player.data # NoData
             /\ player' = PlayerAfterLeft(player, reason)
        ELSE UNCHANGED player
     /\ UNCHANGED <<saved, world, node, toNode, newest, mishaps, bounds>>

-----------------------------------------------------------------------------
(* The nodes. *)

NodeReceives(n, type) ==
  /\ world[n].connected
  /\ toNode[n] # <<>> /\ Head(toNode[n]).type = type
  /\ toNode' = [toNode EXCEPT ![n] = Tail(@)]

Copies(n) == node[n].copies

\* The node does not ask whether the character is there already.
HandleCharacterLogin(n) ==
  /\ NodeReceives(n, "CharacterLogIn")
  /\ node' = [node EXCEPT ![n] =
                [copies |-> Append(@.copies, [data |-> Head(toNode[n]).data, logout |-> FALSE]),
                 instance |-> TRUE]]
  /\ SendToRealm(n, <<WorldInstanceEntered>>)
  /\ UNCHANGED <<player, saved, world, newest, mishaps, bounds>>

LeftUnsaved(copy, reason) == <<WorldInstanceLeft(reason)>>
LeftThenSaved(copy, reason) == <<WorldInstanceLeft(reason), CharacterData(copy.data)>>
\* removeGameObject saves the character (onDespawn) before the realm is told.
LastWords(copy, reason) == <<CharacterData(copy.data), WorldInstanceLeft(reason)>>

RemoveCopy(n, i) == node' = [node EXCEPT ![n].copies = RemoveAt(@, i)]

HandleLeaveWorldInstance(n) ==
  /\ NodeReceives(n, "LeaveWorldInstance")
  /\ IF Copies(n) = <<>>
     THEN UNCHANGED <<node, toRealm>>
     ELSE /\ RemoveCopy(n, 1)
          /\ SendToRealm(n, LastWords(Copies(n)[1], Head(toNode[n]).reason))
  /\ UNCHANGED <<player, saved, world, newest, mishaps, bounds>>

\* A client's packet reaches the oldest player of the character: logoutRequest
\* starts the countdown, cancelLogoutRequest stops it, a movement that is not
\* valid gets the player kicked.
HandleProxyPacket(n) ==
  LET packet == Head(toNode[n]).packet
  IN /\ NodeReceives(n, "ClientProxyPacket")
     /\ CASE Copies(n) = <<>> -> UNCHANGED <<node, toRealm>>
          [] Copies(n) # <<>> /\ packet \in {"LogoutRequest", "LogoutCancel"} ->
               /\ node' = [node EXCEPT ![n].copies[1].logout = packet = "LogoutRequest"]
               /\ UNCHANGED toRealm
          [] Copies(n) # <<>> /\ packet = "InvalidMovement" ->
               /\ RemoveCopy(n, 1)
               /\ SendToRealm(n, LastWords(Copies(n)[1], "Disconnect"))
     /\ UNCHANGED <<player, saved, world, newest, mishaps, bounds>>

OnLogout(n, i) ==
  /\ world[n].connected
  /\ Copies(n)[i].logout
  /\ RemoveCopy(n, i)
  /\ SendToRealm(n, LastWords(Copies(n)[i], "Logout"))
  /\ UNCHANGED <<player, saved, world, toNode, newest, mishaps, bounds>>

OnTeleport(n, map) ==
  /\ world[n].connected
  /\ Copies(n) # <<>>
  /\ map # n
  /\ Move
  /\ RemoveCopy(n, 1)
  /\ SendToRealm(n, <<TeleportRequest(map)>> \o LastWords(Copies(n)[1], "Teleport"))
  /\ UNCHANGED <<player, saved, world, toNode, newest, mishaps, sessions>>

\* The character changes; a new level is saved at once.
Play(n, levels) ==
  /\ world[n].connected
  /\ Copies(n) # <<>>
  /\ newest < MaxProgress
  /\ newest' = newest + 1
  /\ node' = [node EXCEPT ![n].copies[1].data = newest + 1]
  /\ SendToRealm(n, IF levels THEN <<CharacterData(newest + 1)>> ELSE <<>>)
  /\ UNCHANGED <<player, saved, world, toNode, mishaps, bounds>>

-----------------------------------------------------------------------------
(* The link between the realm and a node. *)

\* The handlers of onConnectionLost; m_worldNode is not told otherwise.
PlayerAfterNodeLost(p, n) ==
  CASE p.watched = n /\ p.watch = "entered" -> NoPlayer
    [] p.watched = n /\ p.watch = "login" ->
         [WithoutNode(p) EXCEPT !.data = NoData, !.instance = NoNode]
    [] p.watched # n /\ p.worldNode = n -> [p EXCEPT !.worldNode = Dangling]
    [] OTHER -> p

NodeStopped == [copies |-> <<>>, instance |-> FALSE]

\* The node goes on without a link, or it is the node that stopped.
LinkLost(n) ==
  /\ world[n].connected
  /\ Mishap(TRUE)
  /\ world' = [world EXCEPT ![n] = [connected |-> FALSE, instance |-> FALSE]]
  /\ player' = PlayerAfterNodeLost(player, n)
  /\ toNode' = [toNode EXCEPT ![n] = <<>>]
  /\ toRealm' = [toRealm EXCEPT ![n] = <<>>]
  /\ node' \in {node, [node EXCEPT ![n] = NodeStopped]}
  /\ UNCHANGED <<saved, newest, bounds>>

\* Whatever a character does sends a packet, and m_connection is null.
SendsWithoutLink(n) ==
  /\ ~world[n].connected
  /\ Copies(n) # <<>>
  /\ node' = [node EXCEPT ![n] = NodeStopped]
  /\ UNCHANGED <<player, saved, world, link, newest, mishaps, bounds>>

\* The list of instances the node sends with its login is empty.
Reconnect(n) ==
  /\ ~world[n].connected
  /\ world' = [world EXCEPT ![n].connected = TRUE]
  /\ UNCHANGED <<player, saved, node, link, newest, mishaps, bounds>>

-----------------------------------------------------------------------------

RealmHandles(n) ==
  \/ HandleWorldInstanceEntered(n)
  \/ HandleCharacterData(n)
  \/ HandleTeleportRequest(n)
  \/ HandleWorldInstanceLeft(n)

NodeHandles(n) ==
  \/ HandleCharacterLogin(n)
  \/ HandleLeaveWorldInstance(n)
  \/ HandleProxyPacket(n)

Client ==
  \/ LoginSucceeded
  \/ HandlePlayerLogin
  \/ ConnectionLost
  \/ ConnectionMalformedPacket
  \/ \E packet \in {"LogoutRequest", "LogoutCancel", "InvalidMovement"} : RedirectPacket(packet)
  \/ \E map \in Node : WebTeleport(map)
  \/ HandleMoveWorldPortAck

Next ==
  \/ Client
  \/ \E n \in Node :
       \/ RealmHandles(n)
       \/ NodeHandles(n)
       \/ \E i \in DOMAIN Copies(n) : OnLogout(n, i)
       \/ \E map \in Node : OnTeleport(n, map)
       \/ \E levels \in BOOLEAN : Play(n, levels)
       \/ LinkLost(n)
       \/ SendsWithoutLink(n)
       \/ Reconnect(n)

Spec == Init /\ [][Next]_vars

(* Both processes handle what arrives; nothing is assumed of clients, the
   game or the network. *)
FairSpec ==
  /\ Spec
  /\ \A n \in Node : WF_vars(RealmHandles(n)) /\ WF_vars(NodeHandles(n))

-----------------------------------------------------------------------------
(* Properties. *)

TypeOK ==
  /\ player \in [session : {"none", "open", "lost"}, character : BOOLEAN,
                 data : Nat \union {NoData}, worldNode : Node \union {NoNode, Dangling},
                 watch : {"none", "login", "entered"}, watched : Node \union {NoNode},
                 instance : Node \union {NoNode}, transfer : Node \union {NoNode},
                 newWorld : BOOLEAN]
  /\ player.session = "none" => player = NoPlayer
  /\ player.data # NoData => player.character
  /\ player.watch = "none" <=> player.watched = NoNode
  /\ saved \in [map : Node, data : Nat]
  /\ world \in [Node -> [connected : BOOLEAN, instance : BOOLEAN]]
  /\ node \in [Node -> [copies : Seq([data : Nat, logout : BOOLEAN]), instance : BOOLEAN]]
  /\ newest \in Nat /\ mishaps \in Nat

(* A player who is in the world of a node refers to a World object that
   exists, of the node whose loss destroys the player. *)
EnteredNodeIsConnected ==
  player.watch = "entered" =>
    /\ player.worldNode \in Node
    /\ player.worldNode = player.watched
    /\ world[player.worldNode].connected

InFlight(type, n) == \E i \in DOMAIN toRealm[n] : toRealm[n][i].type = type
LogInsTo(n) == {i \in DOMAIN toNode[n] : toNode[n][i].type = "CharacterLogIn"}
Quiet == \A n \in Node : toNode[n] = <<>> /\ toRealm[n] = <<>>

\* The copies of the character in the nodes, and the log-ins that will make one.
Whereabouts ==
  UNION {({<<"in", n>>} \X DOMAIN Copies(n)) \union ({<<"to", n>>} \X LogInsTo(n)) : n \in Node}

(* The character is in the worlds, or on the way to one, once; each session
   that ends while a node has or gets the character and each lost link leaves
   at most one more. *)
OneCopy == Cardinality(Whereabouts) <= 1 + mishaps

(* Whoever gets the character next, by login or transfer, gets what was played
   last, as long as no session or link was cut off. *)
ProgressKept ==
  mishaps = 0 =>
    /\ \A n \in Node : \A i \in LogInsTo(n) : toNode[n][i].data = newest
    /\ (\A n \in Node : Copies(n) = <<>> /\ ~InFlight("CharacterData", n)) =>
          saved.data = newest /\ player.data \in {NoData, newest}

(* When nothing is on the way, realm and nodes agree where the character is. *)
NodesAgree ==
  Quiet /\ mishaps = 0 =>
    \A n \in Node :
      Len(Copies(n)) = IF player.watch = "entered" /\ player.worldNode = n THEN 1 ELSE 0

(* Realm and nodes know where the character is, and it is in one place. *)
WhereaboutsAgree == OneCopy /\ NodesAgree /\ EnteredNodeIsConnected

(* The journey of the character, as long as nothing was cut off: which node
   has it, or gets it, or has said that it left, and with what data. *)
On(s) ==
  CASE s = "sent" -> {n \in Node : LogInsTo(n) # {}}
    [] s = "playing" -> {n \in Node : Copies(n) # <<>>}
    [] s = "leaving" -> {n \in Node : InFlight("WorldInstanceLeft", n)}
Stage ==
  IF mishaps > 0 THEN "lost"
  ELSE IF On("sent") # {} THEN "sent"
  ELSE IF On("playing") # {} THEN "playing"
  ELSE IF On("leaving") # {} THEN "leaving"
  ELSE "home"
Place == IF Stage \in {"lost", "home"} THEN NoNode ELSE CHOOSE n \in On(Stage) : TRUE
\* What the realm will have at the farewell: the data sent before it, or the row.
LastData(queue) ==
  LET i == Len(queue) - 1
  IN IF i > 0 /\ queue[i].type = "CharacterData" THEN queue[i].data ELSE saved.data
Carried ==
  CASE Stage = "lost" -> 0
    [] Stage = "home" -> saved.data
    [] Stage = "sent" -> toNode[Place][CHOOSE i \in LogInsTo(Place) : TRUE].data
    [] Stage = "playing" -> Copies(Place)[1].data
    [] Stage = "leaving" -> LastData(toRealm[Place])

Journey == INSTANCE CharacterJourney WITH stage <- Stage, at <- Place, data <- Carried

(* The realm and the nodes, with their messages that cross, carry the character
   about as if there were one of it that is in one place at a time. *)
IsOneJourney == Journey!Spec

Entering ==
  \/ player.watch = "login"
  \/ player.watch = "none" /\ player.worldNode \in Node

(* Every login that found a node and every acknowledged transfer ends in a
   world, or with the player's end. *)
EnterEnds == Entering ~> (~Entering \/ mishaps > 0)

(* player.cpp, connectionLost: "This world node needs to send the character's
   new data back to us, so that we can save it": the wait has an end. *)
LostClientEnds == player.session = "lost" ~> player.session # "lost"
=============================================================================
