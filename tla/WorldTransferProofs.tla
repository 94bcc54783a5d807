------------------------ MODULE WorldTransferProofs ------------------------
(***************************************************************************)
(* What holds of a character between the realm and the nodes, for any      *)
(* number of nodes, sessions, moves and lost links.                        *)
(*                                                                         *)
(* Inv: the types, and that a player in a world refers to a World object   *)
(* that exists.  It needs the types of the messages only so far as the     *)
(* player's record is built from them; it is inductive beside TypeOK       *)
(* because a World object handles messages only while it is connected.     *)
(*                                                                         *)
(* StageInv: as long as nothing was cut off, the character is at home,     *)
(* sent to a node, playing in it or leaving it, and each stage says who    *)
(* has its latest data.  ProgressKept and NodesAgree follow from it.       *)
(*                                                                         *)
(* Budget: the copies, the log-ins and the farewells on the way, and the   *)
(* transfer the client has been asked for, are paid for by the Player with *)
(* a character and by the mishaps.  OneCopy follows from it.               *)
(***************************************************************************)
EXTENDS WorldTransfer, SequenceTheorems, FiniteSetTheorems, TLAPS

Reason == {"Logout", "Teleport", "Disconnect"}
Packet == {"LogoutRequest", "LogoutCancel", "InvalidMovement"}
Copy == [data : Nat, logout : BOOLEAN]

MessageToNode ==
  [type : {"CharacterLogIn"}, data : Nat]
    \union [type : {"LeaveWorldInstance"}, reason : Reason]
    \union [type : {"ClientProxyPacket"}, packet : Packet]

MessageToRealm ==
  [type : {"WorldInstanceEntered"}]
    \union [type : {"CharacterData"}, data : Nat]
    \union [type : {"WorldInstanceLeft"}, reason : Reason]
    \union [type : {"TeleportRequest"}, map : Node]

MessagesOK ==
  /\ toNode \in [Node -> Seq(MessageToNode)]
  /\ toRealm \in [Node -> Seq(MessageToRealm)]

Inv == TypeOK /\ MessagesOK /\ EnteredNodeIsConnected

PlayerOK(p) ==
  /\ p \in [session : {"none", "open", "lost"}, character : BOOLEAN,
            data : Nat \union {NoData}, worldNode : Node \union {NoNode, Dangling},
            watch : {"none", "login", "entered"}, watched : Node \union {NoNode},
            instance : Node \union {NoNode}, transfer : Node \union {NoNode},
            newWorld : BOOLEAN]
  /\ p.session = "none" => p = NoPlayer
  /\ p.data # NoData => p.character
  /\ p.watch = "none" <=> p.watched = NoNode

RestOK ==
  /\ saved \in [map : Node, data : Nat]
  /\ world \in [Node -> [connected : BOOLEAN, instance : BOOLEAN]]
  /\ node \in [Node -> [copies : Seq([data : Nat, logout : BOOLEAN]), instance : BOOLEAN]]
  /\ newest \in Nat /\ mishaps \in Nat

USE WorldTransferAssumption

-----------------------------------------------------------------------------
(* Sequences and messages. *)

(* Removing an element leaves a sequence of the same elements (RemoveCopy). *)
LEMMA RemoveAtType ==
  ASSUME NEW S, NEW s \in Seq(S), NEW i \in 1 .. Len(s)
  PROVE  RemoveAt(s, i) \in Seq(S)
<1>1. SubSeq(s, 1, i - 1) \in Seq(S)
  BY SubSeqProperties
<1>2. SubSeq(s, i + 1, Len(s)) \in Seq(S)
  BY SubSeqProperties
<1> QED
  BY <1>1, <1>2, ConcatProperties DEF RemoveAt

(* What the node's handlers put on the way is made of messages. *)
LEMMA LastWordsType ==
  ASSUME NEW copy \in Copy, NEW reason \in Reason
  PROVE  LastWords(copy, reason) \in Seq(MessageToRealm)
<1>1. CharacterData(copy.data) \in MessageToRealm
  BY DEF CharacterData, MessageToRealm, Copy
<1>2. WorldInstanceLeft(reason) \in MessageToRealm
  BY DEF WorldInstanceLeft, MessageToRealm
<1> QED
  BY <1>1, <1>2 DEF LastWords

(* A message sent to a node keeps the types of what is on the way. *)
LEMMA SendToNodeType ==
  ASSUME MessagesOK, NEW n \in Node, NEW message \in MessageToNode,
         SendToNode(n, message)
  PROVE  toNode' \in [Node -> Seq(MessageToNode)]
BY DEF MessagesOK, SendToNode

(* Messages sent to the realm keep the types of what is on the way. *)
LEMMA SendToRealmType ==
  ASSUME MessagesOK, NEW n \in Node, NEW messages \in Seq(MessageToRealm),
         SendToRealm(n, messages)
  PROVE  toRealm' \in [Node -> Seq(MessageToRealm)]
BY ConcatProperties DEF MessagesOK, SendToRealm

(* What a node receives is a message, and the rest stays on the way. *)
LEMMA NodeReceivesType ==
  ASSUME MessagesOK, NEW n \in Node, NEW type, NodeReceives(n, type)
  PROVE  /\ Head(toNode[n]) \in MessageToNode
         /\ Head(toNode[n]).type = type
         /\ toNode' \in [Node -> Seq(MessageToNode)]
BY HeadTailProperties DEF MessagesOK, NodeReceives

(* The same for the realm. *)
LEMMA RealmReceivesType ==
  ASSUME MessagesOK, NEW n \in Node, NEW type, RealmReceives(n, type)
  PROVE  /\ Head(toRealm[n]) \in MessageToRealm
         /\ Head(toRealm[n]).type = type
         /\ toRealm' \in [Node -> Seq(MessageToRealm)]
BY HeadTailProperties DEF MessagesOK, RealmReceives

(* The data of a character that logs in and of one that is saved are states of it. *)
LEMMA CharacterLogInType ==
  ASSUME NEW data \in Nat
  PROVE  CharacterLogIn(data) \in MessageToNode
BY DEF CharacterLogIn, MessageToNode

(* A node may be asked to let a character go for any reason. *)
LEMMA LeaveType ==
  ASSUME NEW reason \in Reason
  PROVE  LeaveWorldInstance(reason) \in MessageToNode
BY DEF LeaveWorldInstance, MessageToNode

(* A node whose list of copies changes is a node. *)
LEMMA NodeCopies ==
  ASSUME TypeOK, NEW n \in Node, NEW i, NEW field, NEW value,
         [node[n].copies EXCEPT ![i][field] = value] \in Seq([data : Nat, logout : BOOLEAN])
  PROVE  [node EXCEPT ![n].copies[i][field] = value]
           \in [Node -> [copies : Seq([data : Nat, logout : BOOLEAN]), instance : BOOLEAN]]
BY DEF TypeOK

(* A removed copy leaves a node of the same type. *)
LEMMA RemoveCopyType ==
  ASSUME TypeOK, NEW n \in Node, NEW i \in 1 .. Len(Copies(n)), RemoveCopy(n, i)
  PROVE  node' \in [Node -> [copies : Seq([data : Nat, logout : BOOLEAN]), instance : BOOLEAN]]
<1>1. RemoveAt(node[n].copies, i) \in Seq([data : Nat, logout : BOOLEAN])
  BY RemoveAtType DEF TypeOK, Copies
<1> QED
  BY <1>1 DEF TypeOK, RemoveCopy

-----------------------------------------------------------------------------
(* The Player object. *)

(* The type invariant speaks of the player and of the rest. *)
LEMMA Parts ==
  /\ TypeOK => PlayerOK(player) /\ RestOK
  /\ PlayerOK(player') /\ RestOK' => TypeOK'
BY DEF TypeOK, PlayerOK, RestOK

(* The absent player has the types and watches nothing. *)
LEMMA NoPlayerOK == PlayerOK(NoPlayer) /\ NoPlayer.watch = "none"
BY DEF PlayerOK, NoPlayer

(* Whoever has a session, a character or a node is not the absent player. *)
LEMMA PlayerThere ==
  ASSUME NEW p, PlayerOK(p),
         p.session = "open" \/ p.character \/ p.data # NoData \/ p.worldNode # NoNode
           \/ p.watched # NoNode
  PROVE  p.session \in {"open", "lost"}
BY DEF PlayerOK, NoPlayer

(* A player who is there may change these fields in these ways. *)
LEMMA PlayerChanges ==
  ASSUME NEW p, PlayerOK(p), p.session \in {"open", "lost"}
  PROVE  /\ PlayerOK([p EXCEPT !.session = "lost"])
         /\ PlayerOK([p EXCEPT !.newWorld = FALSE])
         /\ PlayerOK([p EXCEPT !.worldNode = Dangling])
         /\ PlayerOK([WithoutNode(p) EXCEPT !.data = NoData, !.instance = NoNode])
<1>1. PlayerOK([p EXCEPT !.session = "lost"])
  BY DEF PlayerOK
<1>2. PlayerOK([p EXCEPT !.newWorld = FALSE])
  BY DEF PlayerOK
<1>3. PlayerOK([p EXCEPT !.worldNode = Dangling])
  BY DEF PlayerOK
<1>4. PlayerOK([WithoutNode(p) EXCEPT !.data = NoData, !.instance = NoNode])
  BY DEF PlayerOK, WithoutNode
<1> QED
  BY <1>1, <1>2, <1>3, <1>4

(* A player may be told where to go next. *)
LEMMA PlayerTransfers ==
  ASSUME NEW p, PlayerOK(p), p.session \in {"open", "lost"}, NEW map \in Node \union {NoNode}
  PROVE  PlayerOK([p EXCEPT !.transfer = map])
BY DEF PlayerOK

(* A player with a character may get its new data. *)
LEMMA PlayerSaved ==
  ASSUME NEW p, PlayerOK(p), p.session \in {"open", "lost"}, p.character, NEW data \in Nat
  PROVE  PlayerOK([p EXCEPT !.data = data])
BY DEF PlayerOK

(* A player may be on the way to a node, and in its world. *)
LEMMA PlayerEnters ==
  ASSUME NEW p, PlayerOK(p), p.session \in {"open", "lost"}, NEW n \in Node
  PROVE  /\ PlayerOK([p EXCEPT !.worldNode = n, !.transfer = NoNode, !.newWorld = FALSE])
         /\ PlayerOK(PlayerAfterEntered(p, n))
         /\ PlayerAfterEntered(p, n).worldNode = n
         /\ PlayerAfterEntered(p, n).watched = n
<1>1. PlayerOK([p EXCEPT !.worldNode = n, !.transfer = NoNode, !.newWorld = FALSE])
  BY DEF PlayerOK
<1>2. PlayerOK(PlayerAfterEntered(p, n))
  BY DEF PlayerOK, PlayerAfterEntered
<1>3. PlayerAfterEntered(p, n).worldNode = n /\ PlayerAfterEntered(p, n).watched = n
  BY DEF PlayerOK, PlayerAfterEntered
<1> QED
  BY <1>1, <1>2, <1>3

(* Whatever the reason to leave was, the player watches no World afterwards. *)
LEMMA PlayerLeaves ==
  ASSUME NEW p, PlayerOK(p), p.session \in {"open", "lost"}, NEW reason \in Reason
  PROVE  /\ PlayerOK(PlayerAfterLeft(p, reason))
         /\ PlayerAfterLeft(p, reason).watch = "none"
<1> DEFINE q == WithoutNode(p)
<1>1. PlayerOK(q) /\ q.session \in {"open", "lost"} /\ q.watch = "none"
  BY DEF PlayerOK, WithoutNode
<1> HIDE DEF q
<1>2. PlayerOK(LoggedOut(q)) /\ LoggedOut(q).watch = "none"
  BY <1>1 DEF PlayerOK, LoggedOut
<1>3. /\ PlayerOK([q EXCEPT !.newWorld = p.transfer # NoNode])
      /\ [q EXCEPT !.newWorld = p.transfer # NoNode].watch = "none"
  <2>1. \A b \in BOOLEAN : /\ PlayerOK([q EXCEPT !.newWorld = b])
                          /\ [q EXCEPT !.newWorld = b].watch = "none"
    BY <1>1 DEF PlayerOK
  <2> QED
    BY <2>1
<1>4. CASE reason = "Logout"
  BY <1>2, <1>4 DEF PlayerAfterLeft, q
<1>5. CASE reason = "Teleport"
  BY <1>3, <1>5 DEF PlayerAfterLeft, q
<1>6. CASE reason = "Disconnect"
  BY <1>6, NoPlayerOK DEF PlayerAfterLeft
<1> QED
  BY <1>4, <1>5, <1>6 DEF Reason

-----------------------------------------------------------------------------
(* The realm's sessions. *)

(* A session starts as a Player without a character. *)
LEMMA LoginSucceededInv ==
  ASSUME Inv, LoginSucceeded
  PROVE  Inv'
BY DEF Inv, TypeOK, MessagesOK, EnteredNodeIsConnected, LoginSucceeded, NoPlayer, link

(* A character logs in: nobody's World object is referred to yet. *)
LEMMA HandlePlayerLoginInv ==
  ASSUME Inv, HandlePlayerLogin
  PROVE  Inv'
<1> DEFINE n == WorldByMapId(saved.map)
<1>1. n \in Node /\ saved.data \in Nat
  BY DEF Inv, TypeOK, HandlePlayerLogin, WorldByMapId
<1>2. MessagesOK'
  BY <1>1, CharacterLogInType, SendToNodeType DEF Inv, MessagesOK, HandlePlayerLogin
<1>3. TypeOK' /\ EnteredNodeIsConnected'
  BY <1>1 DEF Inv, TypeOK, EnteredNodeIsConnected, HandlePlayerLogin, bounds
<1> QED
  BY <1>2, <1>3 DEF Inv

(* The client is lost: the player stays, or ends. *)
LEMMA ConnectionLostInv ==
  ASSUME Inv, ConnectionLost
  PROVE  Inv'
<1> DEFINE n == WorldByInstanceId(player.instance)
<1>1. n # NoNode => n \in Node
  BY DEF Inv, TypeOK, WorldByInstanceId
<1>2. MessagesOK'
  BY <1>1, LeaveType, SendToNodeType DEF Inv, MessagesOK, ConnectionLost, Reason
<1>3. PlayerOK(player) /\ RestOK'
  BY Parts DEF Inv, RestOK, ConnectionLost, Mishap, bounds
<1>4. player' = [player EXCEPT !.session = "lost"] \/ player' = NoPlayer
  BY DEF ConnectionLost
<1>5. TypeOK'
  BY <1>3, <1>4, Parts, NoPlayerOK, PlayerThere, PlayerChanges DEF ConnectionLost
<1>6. EnteredNodeIsConnected'
  BY <1>3, <1>4 DEF Inv, PlayerOK, NoPlayer, EnteredNodeIsConnected, ConnectionLost
<1> QED
  BY <1>2, <1>5, <1>6 DEF Inv

(* A malformed packet ends the player. *)
LEMMA MalformedInv ==
  ASSUME Inv, ConnectionMalformedPacket
  PROVE  Inv'
<1>1. player.worldNode # NoNode => player.worldNode \in Node
  BY DEF Inv, TypeOK, ConnectionMalformedPacket
<1>2. MessagesOK'
  BY <1>1, LeaveType, SendToNodeType DEF Inv, MessagesOK, ConnectionMalformedPacket, Reason
<1>3. TypeOK' /\ EnteredNodeIsConnected'
  BY DEF Inv, TypeOK, EnteredNodeIsConnected, ConnectionMalformedPacket, Mishap, NoPlayer, bounds
<1> QED
  BY <1>2, <1>3 DEF Inv

(* A packet for the node changes nothing in the realm. *)
LEMMA RedirectPacketInv ==
  ASSUME Inv, NEW packet \in Packet, RedirectPacket(packet)
  PROVE  Inv'
<1> DEFINE n == WorldByInstanceId(player.instance)
<1>1. n \in Node
  BY DEF Inv, TypeOK, WorldByInstanceId, RedirectPacket
<1>2. ClientProxyPacket(packet) \in MessageToNode
  BY DEF ClientProxyPacket, MessageToNode
<1>3. MessagesOK'
  BY <1>1, <1>2, SendToNodeType DEF Inv, MessagesOK, RedirectPacket
<1>4. TypeOK' /\ EnteredNodeIsConnected'
  BY DEF Inv, TypeOK, EnteredNodeIsConnected, RedirectPacket
<1> QED
  BY <1>3, <1>4 DEF Inv

(* The web interface only notes where the player shall go. *)
LEMMA WebTeleportInv ==
  ASSUME Inv, NEW map \in Node, WebTeleport(map)
  PROVE  Inv'
<1> DEFINE n == WorldByInstanceId(player.instance)
<1>1. n \in Node
  BY DEF Inv, TypeOK, WorldByInstanceId, WebTeleport
<1>2. MessagesOK'
  BY <1>1, LeaveType, SendToNodeType DEF Inv, MessagesOK, WebTeleport, Reason
<1>3. PlayerOK(player) /\ RestOK'
  BY Parts DEF Inv, RestOK, WebTeleport
<1>4. player' = [player EXCEPT !.transfer = map]
  BY DEF WebTeleport
<1>5. TypeOK'
  BY <1>3, <1>4, Parts, PlayerThere, PlayerTransfers DEF WebTeleport
<1>6. EnteredNodeIsConnected'
  BY <1>3, <1>4 DEF Inv, PlayerOK, EnteredNodeIsConnected, WebTeleport
<1> QED
  BY <1>2, <1>5, <1>6 DEF Inv

(* The acknowledged transfer: m_worldNode was null, so no entered player changes. *)
LEMMA PortAckInv ==
  ASSUME Inv, HandleMoveWorldPortAck
  PROVE  Inv'
<1> DEFINE n == WorldByMapId(player.transfer)
<1>1. (n # NoNode => n \in Node) /\ player.data \in Nat
  BY DEF Inv, TypeOK, WorldByMapId, HandleMoveWorldPortAck
<1>2. MessagesOK'
  BY <1>1, CharacterLogInType, SendToNodeType DEF Inv, MessagesOK, HandleMoveWorldPortAck
<1>3. player.watch # "entered"
  BY DEF Inv, EnteredNodeIsConnected, HandleMoveWorldPortAck, TransferPending
<1>4. PlayerOK(player) /\ RestOK'
  BY Parts DEF Inv, RestOK, HandleMoveWorldPortAck, bounds
<1>5. \/ player' = [player EXCEPT !.newWorld = FALSE]
      \/ player' = [player EXCEPT !.worldNode = n, !.transfer = NoNode, !.newWorld = FALSE]
            /\ n \in Node
  BY <1>1 DEF HandleMoveWorldPortAck
<1>6. TypeOK'
  <2>1. player.session \in {"open", "lost"}
    BY DEF HandleMoveWorldPortAck
  <2>2. PlayerOK([player EXCEPT !.newWorld = FALSE])
    BY <1>4, <2>1, PlayerChanges
  <2>3. n \in Node =>
          PlayerOK([player EXCEPT !.worldNode = n, !.transfer = NoNode, !.newWorld = FALSE])
    BY <1>4, <2>1, PlayerEnters
  <2>4. PlayerOK(player')
    BY <1>5, <2>2, <2>3
  <2> QED
    BY <1>4, <2>4, Parts
<1>7. EnteredNodeIsConnected'
  BY <1>3, <1>4, <1>5 DEF PlayerOK, EnteredNodeIsConnected
<1> QED
  BY <1>2, <1>6, <1>7 DEF Inv

-----------------------------------------------------------------------------
(* The realm's worlds. *)

(* The World that handles the entry is the one the player refers to from now on. *)
LEMMA EnteredInv ==
  ASSUME Inv, NEW n \in Node, HandleWorldInstanceEntered(n)
  PROVE  Inv'
<1>1. world[n].connected
  BY DEF HandleWorldInstanceEntered, RealmReceives
<1>2. MessagesOK'
  BY RealmReceivesType DEF Inv, MessagesOK, HandleWorldInstanceEntered
<1>3. world' \in [Node -> [connected : BOOLEAN, instance : BOOLEAN]]
      /\ \A m \in Node : world'[m].connected = world[m].connected
  BY DEF Inv, TypeOK, HandleWorldInstanceEntered
<1>4. PlayerOK(player) /\ RestOK'
  BY <1>3, Parts DEF Inv, RestOK, HandleWorldInstanceEntered, bounds
<1>5. \/ player.character /\ player' = PlayerAfterEntered(player, n)
      \/ player' = player
  BY DEF HandleWorldInstanceEntered
<1>6. TypeOK'
  <2>1. CASE player.character /\ player' = PlayerAfterEntered(player, n)
    <3>1. player.session \in {"open", "lost"}
      BY <1>4, <2>1, PlayerThere
    <3>2. PlayerOK(player')
      BY <1>4, <2>1, <3>1, PlayerEnters
    <3> QED
      BY <1>4, <3>2, Parts
  <2> QED
    BY <1>4, <1>5, <2>1, Parts
<1>7. EnteredNodeIsConnected'
  <2>1. CASE player.character /\ player' = PlayerAfterEntered(player, n)
    <3>1. player.session \in {"open", "lost"}
      BY <1>4, <2>1, PlayerThere
    <3>2. player'.worldNode = n /\ player'.watched = n
      BY <1>4, <2>1, <3>1, PlayerEnters
    <3> QED
      BY <1>1, <1>3, <3>2 DEF EnteredNodeIsConnected
  <2>2. CASE player' = player
    BY <1>3, <2>2 DEF Inv, EnteredNodeIsConnected
  <2> QED
    BY <1>5, <2>1, <2>2
<1> QED
  BY <1>2, <1>6, <1>7 DEF Inv

(* Data that is saved moves nobody. *)
LEMMA CharacterDataInv ==
  ASSUME Inv, NEW n \in Node, HandleCharacterData(n)
  PROVE  Inv'
<1> DEFINE message == Head(toRealm[n])
<1>1. message \in MessageToRealm /\ message.type = "CharacterData" /\ MessagesOK'
  BY RealmReceivesType DEF Inv, MessagesOK, HandleCharacterData
<1>2. message.data \in Nat
  BY <1>1 DEF MessageToRealm
<1>3. PlayerOK(player) /\ RestOK'
  BY <1>2, Parts DEF Inv, RestOK, HandleCharacterData, bounds
<1>4. \/ player.character /\ player' = [player EXCEPT !.data = message.data]
      \/ player' = player
  BY DEF HandleCharacterData
<1>5. TypeOK'
  BY <1>2, <1>3, <1>4, Parts, PlayerThere, PlayerSaved
<1>6. EnteredNodeIsConnected'
  BY <1>3, <1>4 DEF Inv, PlayerOK, EnteredNodeIsConnected, HandleCharacterData
<1> QED
  BY <1>1, <1>5, <1>6 DEF Inv

(* Nor does a teleport that is announced. *)
LEMMA TeleportRequestInv ==
  ASSUME Inv, NEW n \in Node, HandleTeleportRequest(n)
  PROVE  Inv'
<1> DEFINE message == Head(toRealm[n])
<1>1. message \in MessageToRealm /\ message.type = "TeleportRequest" /\ MessagesOK'
  BY RealmReceivesType DEF Inv, MessagesOK, HandleTeleportRequest
<1>2. message.map \in Node
  BY <1>1 DEF MessageToRealm
<1>3. PlayerOK(player) /\ RestOK'
  BY Parts DEF Inv, RestOK, HandleTeleportRequest, bounds
<1>4. \/ player.character /\ player' = [player EXCEPT !.transfer = message.map]
      \/ player' = player
  BY DEF HandleTeleportRequest
<1>5. TypeOK'
  BY <1>2, <1>3, <1>4, Parts, PlayerThere, PlayerTransfers
<1>6. EnteredNodeIsConnected'
  BY <1>3, <1>4 DEF Inv, PlayerOK, EnteredNodeIsConnected, HandleTeleportRequest
<1> QED
  BY <1>1, <1>5, <1>6 DEF Inv

(* Whoever has left no longer refers to a World. *)
LEMMA LeftInv ==
  ASSUME Inv, NEW n \in Node, HandleWorldInstanceLeft(n)
  PROVE  Inv'
<1> DEFINE message == Head(toRealm[n])
<1>1. message \in MessageToRealm /\ message.type = "WorldInstanceLeft" /\ MessagesOK'
  BY RealmReceivesType DEF Inv, MessagesOK, HandleWorldInstanceLeft
<1>2. message.reason \in Reason
  BY <1>1 DEF MessageToRealm
<1>3. PlayerOK(player) /\ RestOK'
  BY Parts DEF Inv, RestOK, HandleWorldInstanceLeft, bounds
<1>4. CASE ~player.character
  <2>1. player' = player /\ UNCHANGED world
    BY <1>4 DEF HandleWorldInstanceLeft
  <2> QED
    BY <1>1, <1>3, <2>1, Parts DEF Inv, EnteredNodeIsConnected
<1>5. CASE player.character
  <2>1. player' = PlayerAfterLeft(player, message.reason)
    BY <1>5 DEF HandleWorldInstanceLeft
  <2>2. PlayerOK(player') /\ player'.watch = "none"
    BY <1>2, <1>3, <1>5, <2>1, PlayerThere, PlayerLeaves
  <2> QED
    BY <1>1, <1>3, <2>2, Parts DEF Inv, EnteredNodeIsConnected
<1> QED
  BY <1>4, <1>5

-----------------------------------------------------------------------------
(* The nodes: the realm's side does not change. *)

(* What the realm's side does not take part in leaves it as it was. *)
LEMMA NodeSide ==
  ASSUME Inv, UNCHANGED <<player, saved, world>>, newest' \in Nat, mishaps' \in Nat, MessagesOK',
         node' \in [Node -> [copies : Seq([data : Nat, logout : BOOLEAN]), instance : BOOLEAN]]
  PROVE  Inv'
<1>1. RestOK'
  BY Parts DEF Inv, RestOK
<1> QED
  BY <1>1, Parts DEF Inv, EnteredNodeIsConnected

(* A copy that is in a node's list is one. *)
LEMMA CopyType ==
  ASSUME TypeOK, NEW n \in Node, NEW i \in 1 .. Len(Copies(n))
  PROVE  Copies(n)[i] \in Copy
BY ElementOfSeq DEF TypeOK, Copies, Copy

(* A list of copies that is not empty has a first one. *)
LEMMA FirstCopy ==
  ASSUME TypeOK, NEW n \in Node, Copies(n) # <<>>
  PROVE  1 \in 1 .. Len(Copies(n))
BY DEF TypeOK, Copies

(* A character that enters a node. *)
LEMMA CharacterLoginInv ==
  ASSUME Inv, NEW n \in Node, HandleCharacterLogin(n)
  PROVE  Inv'
<1> DEFINE message == Head(toNode[n])
<1>1. message \in MessageToNode /\ message.type = "CharacterLogIn"
      /\ toNode' \in [Node -> Seq(MessageToNode)]
  BY NodeReceivesType DEF Inv, HandleCharacterLogin
<1>2. message.data \in Nat
  BY <1>1 DEF MessageToNode
<1>3. <<WorldInstanceEntered>> \in Seq(MessageToRealm)
  BY DEF WorldInstanceEntered, MessageToRealm
<1>4. MessagesOK'
  BY <1>1, <1>3, SendToRealmType DEF Inv, MessagesOK, HandleCharacterLogin
<1>5. node' \in [Node -> [copies : Seq([data : Nat, logout : BOOLEAN]), instance : BOOLEAN]]
  BY <1>2 DEF Inv, TypeOK, HandleCharacterLogin
<1> QED
  BY <1>4, <1>5, NodeSide DEF Inv, TypeOK, HandleCharacterLogin

(* A character that is sent away by the realm. *)
LEMMA LeaveInv ==
  ASSUME Inv, NEW n \in Node, HandleLeaveWorldInstance(n)
  PROVE  Inv'
<1> DEFINE message == Head(toNode[n])
<1>1. message \in MessageToNode /\ message.type = "LeaveWorldInstance"
      /\ toNode' \in [Node -> Seq(MessageToNode)]
  BY NodeReceivesType DEF Inv, HandleLeaveWorldInstance
<1>2. message.reason \in Reason
  BY <1>1 DEF MessageToNode
<1>3. CASE Copies(n) = <<>>
  BY <1>1, <1>3, NodeSide DEF Inv, TypeOK, MessagesOK, HandleLeaveWorldInstance
<1>4. CASE Copies(n) # <<>>
  <2>1. RemoveCopy(n, 1) /\ SendToRealm(n, LastWords(Copies(n)[1], message.reason))
    BY <1>4 DEF HandleLeaveWorldInstance
  <2>2. 1 \in 1 .. Len(Copies(n)) /\ Copies(n)[1] \in Copy
    BY <1>4, CopyType, FirstCopy DEF Inv
  <2>3. MessagesOK'
    BY <1>1, <1>2, <2>1, <2>2, LastWordsType, SendToRealmType DEF Inv, MessagesOK
  <2> QED
    BY <2>1, <2>2, <2>3, RemoveCopyType, NodeSide DEF Inv, TypeOK, HandleLeaveWorldInstance
<1> QED
  BY <1>3, <1>4

(* A packet for the oldest copy. *)
LEMMA ProxyPacketInv ==
  ASSUME Inv, NEW n \in Node, HandleProxyPacket(n)
  PROVE  Inv'
<1> DEFINE message == Head(toNode[n])
<1>1. message \in MessageToNode /\ message.type = "ClientProxyPacket"
      /\ toNode' \in [Node -> Seq(MessageToNode)]
  BY NodeReceivesType DEF Inv, HandleProxyPacket
<1>2. message.packet \in Packet
  BY <1>1 DEF MessageToNode
<1>3. CASE Copies(n) = <<>>
  BY <1>1, <1>3, NodeSide DEF Inv, TypeOK, MessagesOK, HandleProxyPacket
<1>4. CASE Copies(n) # <<>>
  <2>1. 1 \in 1 .. Len(Copies(n)) /\ Copies(n)[1] \in Copy
    BY <1>4, CopyType, FirstCopy DEF Inv
  <2>2. CASE message.packet \in {"LogoutRequest", "LogoutCancel"}
    <3>1. node' = [node EXCEPT ![n].copies[1].logout = message.packet = "LogoutRequest"]
          /\ UNCHANGED toRealm
      BY <1>4, <2>2 DEF HandleProxyPacket
    <3>2. [node[n].copies EXCEPT ![1].logout = message.packet = "LogoutRequest"]
             \in Seq([data : Nat, logout : BOOLEAN])
      BY <2>1, ExceptSeq DEF Inv, TypeOK, Copies, Copy
    <3>3. node' \in [Node -> [copies : Seq([data : Nat, logout : BOOLEAN]), instance : BOOLEAN]]
      BY <3>1, <3>2, NodeCopies DEF Inv
    <3> QED
      BY <1>1, <3>1, <3>3, NodeSide DEF Inv, TypeOK, MessagesOK, HandleProxyPacket
  <2>3. CASE message.packet = "InvalidMovement"
    <3>1. RemoveCopy(n, 1) /\ SendToRealm(n, LastWords(Copies(n)[1], "Disconnect"))
      BY <1>4, <2>3 DEF HandleProxyPacket
    <3>2. MessagesOK'
      BY <1>1, <2>1, <3>1, LastWordsType, SendToRealmType DEF Inv, MessagesOK, Reason
    <3> QED
      BY <2>1, <3>1, <3>2, RemoveCopyType, NodeSide DEF Inv, TypeOK, HandleProxyPacket
  <2> QED
    BY <1>2, <2>2, <2>3 DEF Packet
<1> QED
  BY <1>3, <1>4

(* A logout that has run its time. *)
LEMMA OnLogoutInv ==
  ASSUME Inv, NEW n \in Node, NEW i \in DOMAIN Copies(n), OnLogout(n, i)
  PROVE  Inv'
<1>1. i \in 1 .. Len(Copies(n)) /\ Copies(n)[i] \in Copy
  <2>1. DOMAIN Copies(n) = 1 .. Len(Copies(n))
    BY DEF Inv, TypeOK, Copies
  <2> QED
    BY <2>1, CopyType DEF Inv
<1>2. MessagesOK'
  BY <1>1, LastWordsType, SendToRealmType DEF Inv, MessagesOK, OnLogout, Reason
<1> QED
  BY <1>1, <1>2, RemoveCopyType, NodeSide DEF Inv, TypeOK, OnLogout, bounds

(* A teleport to another map. *)
LEMMA OnTeleportInv ==
  ASSUME Inv, NEW n \in Node, NEW map \in Node, OnTeleport(n, map)
  PROVE  Inv'
<1>1. 1 \in 1 .. Len(Copies(n)) /\ Copies(n)[1] \in Copy
  BY CopyType, FirstCopy DEF Inv, OnTeleport
<1>2. <<TeleportRequest(map)>> \in Seq(MessageToRealm)
  BY DEF TeleportRequest, MessageToRealm
<1>3. <<TeleportRequest(map)>> \o LastWords(Copies(n)[1], "Teleport") \in Seq(MessageToRealm)
  BY <1>1, <1>2, LastWordsType, ConcatProperties DEF Reason
<1>4. MessagesOK'
  BY <1>3, SendToRealmType DEF Inv, MessagesOK, OnTeleport
<1> QED
  BY <1>1, <1>4, RemoveCopyType, NodeSide DEF Inv, TypeOK, OnTeleport

(* A character that changes. *)
LEMMA PlayInv ==
  ASSUME Inv, NEW n \in Node, NEW levels \in BOOLEAN, Play(n, levels)
  PROVE  Inv'
<1>0. Copies(n) # <<>> /\ newest + 1 \in Nat
  BY DEF Inv, TypeOK, Play
<1>1. 1 \in 1 .. Len(Copies(n)) /\ Copies(n)[1] \in Copy /\ newest + 1 \in Nat
  BY <1>0, CopyType, FirstCopy DEF Inv
<1>2. [node[n].copies EXCEPT ![1].data = newest + 1] \in Seq([data : Nat, logout : BOOLEAN])
  BY <1>1, ExceptSeq DEF Inv, TypeOK, Copies, Copy
<1>3. node' \in [Node -> [copies : Seq([data : Nat, logout : BOOLEAN]), instance : BOOLEAN]]
  BY <1>2, NodeCopies DEF Inv, Play
<1>4. CharacterData(newest + 1) \in MessageToRealm
  BY <1>1 DEF CharacterData, MessageToRealm
<1>5. (IF levels THEN <<CharacterData(newest + 1)>> ELSE <<>>) \in Seq(MessageToRealm)
  BY <1>4
<1>6. MessagesOK'
  BY <1>5, SendToRealmType DEF Inv, MessagesOK, Play
<1> QED
  BY <1>1, <1>3, <1>6, NodeSide DEF Inv, TypeOK, Play

-----------------------------------------------------------------------------
(* The links. *)

(* The handlers of onConnectionLost leave nobody in a world of the lost node. *)
LEMMA PlayerUnlinked ==
  ASSUME NEW p, PlayerOK(p), NEW n \in Node, NEW q, q = PlayerAfterNodeLost(p, n),
         p.watch = "entered" => p.worldNode \in Node /\ p.worldNode = p.watched
  PROVE  /\ PlayerOK(q)
         /\ q.watch = "entered" => q = p /\ p.worldNode # n
<1>1. CASE p.watched = n /\ p.watch = "entered"
  BY <1>1, NoPlayerOK DEF PlayerAfterNodeLost
<1>2. CASE p.watched = n /\ p.watch = "login"
  <2>1. q = [WithoutNode(p) EXCEPT !.data = NoData, !.instance = NoNode]
    BY <1>2 DEF PlayerAfterNodeLost
  <2>2. p.session \in {"open", "lost"}
    BY <1>2, PlayerThere
  <2>3. q.watch # "entered"
    BY <2>1 DEF WithoutNode, PlayerOK
  <2> QED
    BY <2>1, <2>2, <2>3, PlayerChanges
<1>3. CASE p.watched # n /\ p.worldNode = n
  <2>1. q = [p EXCEPT !.worldNode = Dangling]
    BY <1>3 DEF PlayerAfterNodeLost
  <2>2. p.session \in {"open", "lost"} /\ p.watch # "entered"
    BY <1>3, PlayerThere
  <2>3. q.watch # "entered"
    BY <2>1, <2>2 DEF PlayerOK
  <2> QED
    BY <2>1, <2>2, <2>3, PlayerChanges
<1>4. CASE ~(p.watched = n /\ p.watch \in {"entered", "login"}) /\ ~(p.watched # n /\ p.worldNode = n)
  <2>1. q = p
    BY <1>4 DEF PlayerAfterNodeLost
  <2> QED
    BY <1>4, <2>1 DEF PlayerOK
<1> QED
  BY <1>1, <1>2, <1>3, <1>4

(* A stopped node has no copies. *)
LEMMA NodeStoppedType ==
  ASSUME TypeOK, NEW n \in Node
  PROVE  [node EXCEPT ![n] = NodeStopped]
           \in [Node -> [copies : Seq([data : Nat, logout : BOOLEAN]), instance : BOOLEAN]]
BY DEF TypeOK, NodeStopped

(* A lost link ends whoever is in the node's world; the others refer to another World. *)
LEMMA LinkLostInv ==
  ASSUME Inv, NEW n \in Node, LinkLost(n)
  PROVE  Inv'
<1>1. PlayerOK(player) /\ RestOK
  BY Parts DEF Inv
<1>2. PlayerOK(player') /\ (player'.watch = "entered" => player' = player /\ player.worldNode # n)
  BY <1>1, PlayerUnlinked DEF Inv, EnteredNodeIsConnected, LinkLost
<1>3. /\ world' \in [Node -> [connected : BOOLEAN, instance : BOOLEAN]]
      /\ \A m \in Node \ {n} : world'[m] = world[m]
  BY <1>1 DEF RestOK, LinkLost
<1>4. RestOK'
  <2>1. node' = node \/ node' = [node EXCEPT ![n] = NodeStopped]
    BY DEF LinkLost
  <2>2. mishaps' \in Nat
    BY <1>1 DEF RestOK, LinkLost, Mishap
  <2>3. node' \in [Node -> [copies : Seq([data : Nat, logout : BOOLEAN]), instance : BOOLEAN]]
    BY <1>1, <2>1, NodeStoppedType DEF Inv, RestOK
  <2>4. saved' = saved /\ newest' = newest
    BY DEF LinkLost
  <2> QED
    BY <1>1, <1>3, <2>2, <2>3, <2>4 DEF RestOK
<1>5. MessagesOK'
  BY DEF Inv, MessagesOK, LinkLost
<1>6. EnteredNodeIsConnected'
  BY <1>2, <1>3 DEF Inv, EnteredNodeIsConnected
<1> QED
  BY <1>2, <1>4, <1>5, <1>6, Parts DEF Inv

(* The end of a node without a link is no matter of the realm's. *)
LEMMA SendsWithoutLinkInv ==
  ASSUME Inv, NEW n \in Node, SendsWithoutLink(n)
  PROVE  Inv'
<1>1. MessagesOK' /\ newest \in Nat /\ mishaps \in Nat
  BY DEF Inv, TypeOK, MessagesOK, SendsWithoutLink, link
<1> QED
  BY <1>1, NodeStoppedType, NodeSide DEF Inv, SendsWithoutLink

(* A new link makes no World go away. *)
LEMMA ReconnectInv ==
  ASSUME Inv, NEW n \in Node, Reconnect(n)
  PROVE  Inv'
<1>1. /\ world' \in [Node -> [connected : BOOLEAN, instance : BOOLEAN]]
      /\ \A m \in Node : world[m].connected => world'[m].connected
  BY DEF Inv, TypeOK, Reconnect
<1>2. TypeOK'
  BY <1>1 DEF Inv, TypeOK, Reconnect
<1>3. MessagesOK' /\ EnteredNodeIsConnected'
  BY <1>1 DEF Inv, MessagesOK, EnteredNodeIsConnected, Reconnect, link
<1> QED
  BY <1>2, <1>3 DEF Inv

-----------------------------------------------------------------------------
(* The specification. *)

(* Nobody is in a world at first. *)
LEMMA InitInv == Init => Inv
BY DEF Init, Inv, TypeOK, MessagesOK, EnteredNodeIsConnected, NoPlayer

(* Every step keeps the invariant. *)
LEMMA StepInv == Inv /\ [Next]_vars => Inv'
<1> SUFFICES ASSUME Inv, [Next]_vars PROVE Inv'
  OBVIOUS
<1>1. CASE Client
  BY <1>1, LoginSucceededInv, HandlePlayerLoginInv, ConnectionLostInv, MalformedInv,
     RedirectPacketInv, WebTeleportInv, PortAckInv DEF Client, Packet
<1>2. CASE \E n \in Node : RealmHandles(n)
  BY <1>2, EnteredInv, CharacterDataInv, TeleportRequestInv, LeftInv DEF RealmHandles
<1>3. CASE \E n \in Node : NodeHandles(n)
  BY <1>3, CharacterLoginInv, LeaveInv, ProxyPacketInv DEF NodeHandles
<1>4. CASE \E n \in Node : \/ \E i \in DOMAIN Copies(n) : OnLogout(n, i)
                           \/ \E map \in Node : OnTeleport(n, map)
                           \/ \E levels \in BOOLEAN : Play(n, levels)
  BY <1>4, OnLogoutInv, OnTeleportInv, PlayInv
<1>5. CASE \E n \in Node : LinkLost(n) \/ SendsWithoutLink(n) \/ Reconnect(n)
  BY <1>5, LinkLostInv, SendsWithoutLinkInv, ReconnectInv
<1>6. CASE UNCHANGED vars
  BY <1>6 DEF vars, Inv, TypeOK, MessagesOK, EnteredNodeIsConnected
<1> QED
  BY <1>1, <1>2, <1>3, <1>4, <1>5, <1>6 DEF Next

(* The variables keep their types, and the fields of the Player object fit. *)
THEOREM TypeCorrect == Spec => []TypeOK
<1>1. Inv => TypeOK
  BY DEF Inv
<1> QED
  BY <1>1, InitInv, StepInv, PTL DEF Spec

(* A player in a world refers to the World object of a live link, whose loss
   ends the player (worldInstanceEntered, worldNodeDisconnected). *)
THEOREM EnteredNodeStays == Spec => []EnteredNodeIsConnected
<1>1. Inv => EnteredNodeIsConnected
  BY DEF Inv
<1> QED
  BY <1>1, InitInv, StepInv, PTL DEF Spec

-----------------------------------------------------------------------------
(* Where the character is, as long as nothing was cut off. *)

NoLogIn(queue) == \A i \in DOMAIN queue : queue[i].type # "CharacterLogIn"

\* The one log-in on the way carries the character's latest state.
OneLogIn(queue) ==
  \E i \in DOMAIN queue :
    /\ queue[i] = CharacterLogIn(newest)
    /\ \A j \in DOMAIN queue : j # i => queue[j].type # "CharacterLogIn"

Absent(n) == Copies(n) = <<>> /\ toRealm[n] = <<>>
NobodyBut(n) == \A m \in Node : m # n => Absent(m) /\ NoLogIn(toNode[m])
Stored == saved.data = newest

Home ==
  /\ \A n \in Node : Absent(n) /\ NoLogIn(toNode[n])
  /\ Stored /\ player.data \in {NoData, newest}
  /\ player.watch = "none" /\ (player.newWorld => player.data # NoData)

Sent(n) ==
  /\ NobodyBut(n) /\ Absent(n) /\ OneLogIn(toNode[n])
  /\ Stored /\ player.data = newest
  /\ player.watch # "entered" /\ ~player.newWorld

\* The realm knows where the character is, or the first it hears will tell it.
Arrived(n) ==
  \/ player.watch = "entered" /\ player.worldNode = n
  \/ toRealm[n] # <<>> /\ toRealm[n][1].type = "WorldInstanceEntered"

Playing(n) ==
  /\ NobodyBut(n) /\ NoLogIn(toNode[n])
  /\ Len(Copies(n)) = 1 /\ Copies(n)[1].data = newest
  /\ \A i \in 1 .. Len(toRealm[n]) : toRealm[n][i].type \in {"WorldInstanceEntered", "CharacterData"}
  /\ Arrived(n)
  /\ player.data # NoData /\ ~player.newWorld

\* The last thing the realm will hear is that the character has left; before
\* that, it gets the latest state, or has it already.
Farewell(queue) ==
  /\ Len(queue) # 0 /\ queue[Len(queue)].type = "WorldInstanceLeft"
  /\ \A i \in 1 .. Len(queue) - 1 : queue[i].type # "WorldInstanceLeft"
  /\ Len(queue) > 1 => queue[Len(queue) - 1] = CharacterData(newest)

Leaving(n) ==
  /\ NobodyBut(n) /\ NoLogIn(toNode[n])
  /\ Copies(n) = <<>> /\ Farewell(toRealm[n])
  /\ Len(toRealm[n]) = 1 => Stored /\ player.data = newest
  /\ player.data # NoData /\ ~player.newWorld

OnePlace ==
  /\ \A n \in Node : world[n].connected
  /\ Home \/ \E n \in Node : Sent(n) \/ Playing(n) \/ Leaving(n)

StageInv == mishaps = 0 => OnePlace

-----------------------------------------------------------------------------
(* What the state of one node says of the whole. *)

(* The character that is in a node is nowhere else. *)
LEMMA HasCopy ==
  ASSUME OnePlace, NEW n \in Node, Copies(n) # <<>>
  PROVE  Playing(n)
<1>1. \A m \in Node : m # n => ~(Sent(m) \/ Playing(m) \/ Leaving(m))
  BY DEF Sent, Playing, Leaving, NobodyBut, Absent
<1>2. ~Home /\ ~Sent(n) /\ ~Leaving(n)
  BY DEF Home, Sent, Leaving, Absent
<1> QED
  BY <1>1, <1>2 DEF OnePlace

(* A node that has something to say is the one the character is or was in. *)
LEMMA HasMail ==
  ASSUME OnePlace, NEW n \in Node, toRealm[n] # <<>>
  PROVE  Playing(n) \/ Leaving(n)
<1>1. \A m \in Node : m # n => ~(Sent(m) \/ Playing(m) \/ Leaving(m))
  BY DEF Sent, Playing, Leaving, NobodyBut, Absent
<1>2. ~Home /\ ~Sent(n)
  BY DEF Home, Sent, Absent
<1> QED
  BY <1>1, <1>2 DEF OnePlace

(* A log-in goes to the node the character is on the way to. *)
LEMMA HasLogIn ==
  ASSUME OnePlace, NEW n \in Node, ~NoLogIn(toNode[n])
  PROVE  Sent(n)
<1>1. \A m \in Node : m # n => ~(Sent(m) \/ Playing(m) \/ Leaving(m))
  BY DEF Sent, Playing, Leaving, NobodyBut
<1>2. ~Home /\ ~Playing(n) /\ ~Leaving(n)
  BY DEF Home, Playing, Leaving
<1> QED
  BY <1>1, <1>2 DEF OnePlace

(* A Player without a character knows of no other place than the database. *)
LEMMA HasNoData ==
  ASSUME Inv, OnePlace, player.data = NoData \/ player.newWorld
  PROVE  Home
<1>1. newest # NoData
  BY DEF Inv, TypeOK
<1> QED
  BY <1>1 DEF OnePlace, Sent, Playing, Leaving

-----------------------------------------------------------------------------
(* Messages for a node that do not make a copy. *)

\* The log-ins on the way are the same.
SameLogIns ==
  \A n \in Node : /\ NoLogIn(toNode[n]) => NoLogIn(toNode'[n])
                  /\ OneLogIn(toNode[n]) => OneLogIn(toNode[n])'

(* Another message is sent. *)
LEMMA SendsOther ==
  ASSUME MessagesOK, NEW n \in Node, NEW message \in MessageToNode,
         message.type # "CharacterLogIn", SendToNode(n, message), newest' = newest
  PROVE  SameLogIns
<1> SUFFICES ASSUME NEW m \in Node
             PROVE  /\ NoLogIn(toNode[m]) => NoLogIn(toNode'[m])
                    /\ OneLogIn(toNode[m]) => OneLogIn(toNode[m])'
  BY DEF SameLogIns
<1> DEFINE q == toNode[m]
<1>1. q \in Seq(MessageToNode) /\ toNode[n] \in Seq(MessageToNode)
  BY DEF MessagesOK
<1>2. CASE m # n
  BY <1>2 DEF MessagesOK, SendToNode, OneLogIn
<1>3. CASE m = n
  <2>1. toNode'[m] = Append(q, message)
    BY <1>3 DEF MessagesOK, SendToNode
  <2>2. /\ DOMAIN q = 1 .. Len(q) /\ Len(q) \in Nat
        /\ DOMAIN Append(q, message) = 1 .. Len(q) + 1
        /\ \A i \in 1 .. Len(q) : Append(q, message)[i] = q[i]
        /\ Append(q, message)[Len(q) + 1] = message
    BY <1>1
  <2> HIDE DEF q
  <2>3. NoLogIn(q) => NoLogIn(Append(q, message))
    BY <2>2 DEF NoLogIn
  <2>4. ASSUME OneLogIn(q) PROVE OneLogIn(toNode[m])'
    <3>1. PICK i \in DOMAIN q : /\ q[i] = CharacterLogIn(newest)
                                /\ \A j \in DOMAIN q : j # i => q[j].type # "CharacterLogIn"
      BY <2>4 DEF OneLogIn
    <3>2. i \in DOMAIN toNode'[m] /\ toNode'[m][i] = CharacterLogIn(newest)
      BY <2>1, <2>2, <3>1
    <3>3. \A j \in DOMAIN toNode'[m] : j # i => toNode'[m][j].type # "CharacterLogIn"
      BY <2>1, <2>2, <3>1
    <3> QED
      BY <3>2, <3>3 DEF OneLogIn, CharacterLogIn
  <2> QED
    BY <2>1, <2>3, <2>4 DEF q
<1> QED
  BY <1>2, <1>3

(* Another message is received. *)
LEMMA ReceivesOther ==
  ASSUME MessagesOK, NEW n \in Node, NEW type, type # "CharacterLogIn",
         NodeReceives(n, type), newest' = newest
  PROVE  SameLogIns
<1> SUFFICES ASSUME NEW m \in Node
             PROVE  /\ NoLogIn(toNode[m]) => NoLogIn(toNode'[m])
                    /\ OneLogIn(toNode[m]) => OneLogIn(toNode[m])'
  BY DEF SameLogIns
<1> DEFINE q == toNode[m]
<1>1. q \in Seq(MessageToNode)
  BY DEF MessagesOK
<1>2. CASE m # n
  BY <1>2 DEF MessagesOK, NodeReceives, OneLogIn
<1>3. CASE m = n
  <2>1. toNode'[m] = Tail(q) /\ q # <<>> /\ q[1].type # "CharacterLogIn"
    BY <1>1, <1>3 DEF MessagesOK, NodeReceives
  <2>2. /\ DOMAIN q = 1 .. Len(q) /\ Len(q) \in Nat /\ Len(q) # 0
        /\ DOMAIN Tail(q) = 1 .. Len(q) - 1
        /\ \A i \in 1 .. Len(q) - 1 : Tail(q)[i] = q[i + 1]
    BY <1>1, <2>1
  <2> HIDE DEF q
  <2>3. NoLogIn(q) => NoLogIn(Tail(q))
    BY <2>2 DEF NoLogIn
  <2>4. ASSUME OneLogIn(q) PROVE OneLogIn(toNode[m])'
    <3>1. PICK i \in DOMAIN q : /\ q[i] = CharacterLogIn(newest)
                                /\ \A j \in DOMAIN q : j # i => q[j].type # "CharacterLogIn"
      BY <2>4 DEF OneLogIn
    <3>2. i # 1
      BY <2>1, <3>1 DEF CharacterLogIn
    <3>3. i - 1 \in DOMAIN toNode'[m] /\ toNode'[m][i - 1] = CharacterLogIn(newest)
      BY <2>1, <2>2, <3>1, <3>2
    <3>4. \A j \in DOMAIN toNode'[m] : j # i - 1 => toNode'[m][j].type # "CharacterLogIn"
      BY <2>1, <2>2, <3>1, <3>2
    <3> QED
      BY <3>3, <3>4 DEF OneLogIn, CharacterLogIn
  <2> QED
    BY <2>1, <2>3, <2>4 DEF q
<1> QED
  BY <1>2, <1>3

(* As long as nothing else changes, the character stays where it is. *)
LEMMA StaysThere ==
  ASSUME OnePlace, SameLogIns, UNCHANGED <<saved, world, node, toRealm, newest>>,
         player'.data = player.data, player'.watch = player.watch,
         player'.worldNode = player.worldNode, player'.newWorld = player.newWorld
  PROVE  OnePlace'
<1>1. \A n \in Node : Absent(n) => Absent(n)'
  BY DEF Absent, Copies
<1>2. \A n \in Node : NoLogIn(toNode[n]) => NoLogIn(toNode[n])'
  BY DEF SameLogIns, NoLogIn
<1>3. \A n \in Node : NobodyBut(n) => NobodyBut(n)'
  BY <1>1, <1>2 DEF NobodyBut
<1>4. Home => Home'
  BY <1>1, <1>2 DEF Home, Stored
<1>5. \A n \in Node : Sent(n) => Sent(n)'
  BY <1>1, <1>3 DEF Sent, Stored, SameLogIns
<1>6. \A n \in Node : Playing(n) => Playing(n)'
  BY <1>2, <1>3 DEF Playing, Arrived, Copies
<1>7. \A n \in Node : Leaving(n) => Leaving(n)'
  BY <1>2, <1>3 DEF Leaving, Farewell, Stored, Copies
<1> QED
  BY <1>4, <1>5, <1>6, <1>7 DEF OnePlace

-----------------------------------------------------------------------------
(* The realm's sessions keep the character in one place. *)

(* A new Player has no character. *)
LEMMA LoginSucceededPlace ==
  ASSUME Inv, OnePlace, LoginSucceeded
  PROVE  OnePlace'
<1>1. Home
  BY HasNoData DEF LoginSucceeded, NoPlayer
<1> QED
  BY <1>1 DEF OnePlace, Home, Absent, Copies, Stored, LoginSucceeded, NoPlayer, link

(* A Player that ends without a character leaves it where it is stored. *)
LEMMA PlayerEndsPlace ==
  ASSUME Inv, OnePlace, SameLogIns, UNCHANGED <<saved, world, node, toRealm, newest>>,
         player.data = NoData, player' = NoPlayer
  PROVE  OnePlace'
<1>1. Home
  BY HasNoData
<1>2. \A n \in Node : NoLogIn(toNode[n]) => NoLogIn(toNode[n])'
  BY DEF SameLogIns, NoLogIn
<1> QED
  BY <1>1, <1>2 DEF OnePlace, Home, Absent, Copies, Stored, NoPlayer

(* What is not sent leaves the log-ins alone. *)
LEMMA SendsNothing ==
  ASSUME UNCHANGED <<toNode, newest>>
  PROVE  SameLogIns
BY DEF SameLogIns, OneLogIn

(* A log-in to a node that has none, of a character that is nowhere. *)
LEMMA LogsIn ==
  ASSUME Inv, Home, \A n \in Node : world[n].connected,
         NEW n \in Node, SendToNode(n, CharacterLogIn(newest)),
         UNCHANGED <<saved, world, node, toRealm, newest>>,
         player'.data = newest, player'.watch # "entered", ~player'.newWorld
  PROVE  OnePlace'
<1> DEFINE q == toNode[n]
<1>1. q \in Seq(MessageToNode) /\ NoLogIn(q)
  BY DEF Inv, MessagesOK, Home
<1>2. toNode'[n] = Append(q, CharacterLogIn(newest))
  BY DEF Inv, MessagesOK, SendToNode
<1>3. /\ DOMAIN q = 1 .. Len(q) /\ Len(q) \in Nat
      /\ DOMAIN Append(q, CharacterLogIn(newest)) = 1 .. Len(q) + 1
      /\ \A i \in 1 .. Len(q) : Append(q, CharacterLogIn(newest))[i] = q[i]
      /\ Append(q, CharacterLogIn(newest))[Len(q) + 1] = CharacterLogIn(newest)
  BY <1>1
<1> HIDE DEF q
<1>4. OneLogIn(toNode[n])'
  <2>1. Len(q) + 1 \in DOMAIN toNode'[n] /\ toNode'[n][Len(q) + 1] = CharacterLogIn(newest)
    BY <1>2, <1>3
  <2>2. \A j \in DOMAIN toNode'[n] : j # Len(q) + 1 => toNode'[n][j].type # "CharacterLogIn"
    BY <1>1, <1>2, <1>3 DEF NoLogIn
  <2> QED
    BY <2>1, <2>2 DEF OneLogIn, CharacterLogIn
<1>5. NobodyBut(n)'
  BY DEF NobodyBut, Home, Absent, Copies, Inv, MessagesOK, SendToNode
<1>6. Sent(n)'
  BY <1>4, <1>5 DEF Sent, Home, Absent, Copies, Stored
<1> QED
  BY <1>6 DEF OnePlace

(* The character that is stored logs in. *)
LEMMA HandlePlayerLoginPlace ==
  ASSUME Inv, OnePlace, HandlePlayerLogin
  PROVE  OnePlace'
<1> DEFINE n == WorldByMapId(saved.map)
<1>1. n \in Node
  BY DEF Inv, TypeOK, HandlePlayerLogin, WorldByMapId
<1>2. player.data = NoData
  BY DEF Inv, TypeOK, HandlePlayerLogin, NotLoggedIn
<1>3. Home /\ ~player.newWorld
  BY <1>2, HasNoData DEF Home
<1>4. saved.data = newest
  BY <1>3 DEF Home, Stored
<1>5. /\ player'.data = newest /\ player'.watch # "entered" /\ ~player'.newWorld
  BY <1>2, <1>3, <1>4 DEF Inv, TypeOK, HandlePlayerLogin
<1>6. SendToNode(n, CharacterLogIn(newest)) /\ UNCHANGED <<saved, world, node, toRealm, newest>>
  BY <1>4 DEF HandlePlayerLogin
<1> HIDE DEF n
<1> QED
  BY <1>1, <1>3, <1>5, <1>6, LogsIn DEF OnePlace

(* A client that is lost while nobody has to be waited for. *)
LEMMA ConnectionLostPlace ==
  ASSUME Inv, OnePlace, ConnectionLost, mishaps' = mishaps
  PROVE  OnePlace'
<1> DEFINE n == WorldByInstanceId(player.instance)
<1>1. mishaps \in Nat /\ UNCHANGED <<saved, world, node, toRealm, newest>>
  BY DEF Inv, TypeOK, ConnectionLost
<1>2. CASE player.data # NoData /\ n # NoNode
  <2>1. n \in Node
    BY <1>2 DEF Inv, TypeOK, WorldByInstanceId
  <2>2. SendToNode(n, LeaveWorldInstance("Disconnect")) /\ player' = [player EXCEPT !.session = "lost"]
    BY <1>2 DEF ConnectionLost
  <2>3. SameLogIns
    BY <1>1, <2>1, <2>2, LeaveType, SendsOther DEF Inv, LeaveWorldInstance, Reason
  <2>4. /\ player'.data = player.data /\ player'.watch = player.watch
        /\ player'.worldNode = player.worldNode /\ player'.newWorld = player.newWorld
    BY <2>2 DEF Inv, TypeOK
  <2> QED
    BY <1>1, <2>3, <2>4, StaysThere
<1>3. CASE ~(player.data # NoData /\ n # NoNode)
  <2>1. player' = NoPlayer /\ Mishap(LeavesCopy(player)) /\ UNCHANGED toNode
    BY <1>3 DEF ConnectionLost
  <2>2. player.data = NoData
    BY <1>1, <2>1 DEF Mishap, LeavesCopy
  <2> QED
    BY <1>1, <2>1, <2>2, SendsNothing, PlayerEndsPlace
<1> QED
  BY <1>2, <1>3

(* A Player that is destroyed without a character. *)
LEMMA MalformedPlace ==
  ASSUME Inv, OnePlace, ConnectionMalformedPacket, mishaps' = mishaps
  PROVE  OnePlace'
<1>1. mishaps \in Nat /\ UNCHANGED <<saved, world, node, toRealm, newest>>
  BY DEF Inv, TypeOK, ConnectionMalformedPacket
<1>2. player.data = NoData /\ player' = NoPlayer
  BY <1>1 DEF ConnectionMalformedPacket, Mishap, LeavesCopy
<1>3. SameLogIns
  <2>1. CASE UNCHANGED toNode
    BY <1>1, <2>1, SendsNothing
  <2>2. CASE /\ SendToNode(player.worldNode, LeaveWorldInstance("Disconnect"))
             /\ player.worldNode # NoNode
    <3>1. player.worldNode \in Node
      BY <2>2 DEF Inv, TypeOK, ConnectionMalformedPacket
    <3> QED
      BY <1>1, <2>2, <3>1, LeaveType, SendsOther DEF Inv, LeaveWorldInstance, Reason
  <2> QED
    BY <2>1, <2>2 DEF ConnectionMalformedPacket
<1> QED
  BY <1>1, <1>2, <1>3, PlayerEndsPlace

(* Packets for the node. *)
LEMMA RedirectPacketPlace ==
  ASSUME Inv, OnePlace, NEW packet \in Packet, RedirectPacket(packet)
  PROVE  OnePlace'
<1> DEFINE n == WorldByInstanceId(player.instance)
<1>1. n \in Node
  BY DEF Inv, TypeOK, WorldByInstanceId, RedirectPacket
<1>2. ClientProxyPacket(packet) \in MessageToNode /\ ClientProxyPacket(packet).type # "CharacterLogIn"
  BY DEF ClientProxyPacket, MessageToNode
<1>3. SendToNode(n, ClientProxyPacket(packet))
      /\ UNCHANGED <<player, saved, world, node, toRealm, newest>>
  BY DEF RedirectPacket
<1> HIDE DEF n
<1>4. SameLogIns
  BY <1>1, <1>2, <1>3, SendsOther DEF Inv
<1> QED
  BY <1>3, <1>4, StaysThere

(* The web interface asks the node to let the character go. *)
LEMMA WebTeleportPlace ==
  ASSUME Inv, OnePlace, NEW map \in Node, WebTeleport(map)
  PROVE  OnePlace'
<1> DEFINE n == WorldByInstanceId(player.instance)
<1>1. n \in Node
  BY DEF Inv, TypeOK, WorldByInstanceId, WebTeleport
<1>2. /\ LeaveWorldInstance("Teleport") \in MessageToNode
      /\ LeaveWorldInstance("Teleport").type # "CharacterLogIn"
  BY LeaveType DEF LeaveWorldInstance, Reason
<1>3. /\ SendToNode(n, LeaveWorldInstance("Teleport"))
      /\ UNCHANGED <<saved, world, node, toRealm, newest>>
      /\ player' = [player EXCEPT !.transfer = map]
  BY DEF WebTeleport
<1> HIDE DEF n
<1>4. SameLogIns
  BY <1>1, <1>2, <1>3, SendsOther DEF Inv
<1>5. /\ player'.data = player.data /\ player'.watch = player.watch
      /\ player'.worldNode = player.worldNode /\ player'.newWorld = player.newWorld
  BY <1>3 DEF Inv, TypeOK
<1> QED
  BY <1>3, <1>4, <1>5, StaysThere

(* The transfer that is acknowledged sends the realm's copy, which is the latest. *)
LEMMA PortAckPlace ==
  ASSUME Inv, OnePlace, HandleMoveWorldPortAck
  PROVE  OnePlace'
<1> DEFINE n == WorldByMapId(player.transfer)
<1>1. (n # NoNode => n \in Node) /\ UNCHANGED <<saved, world, node, toRealm, newest>>
  BY DEF Inv, TypeOK, WorldByMapId, HandleMoveWorldPortAck
<1>2. Home
  BY HasNoData DEF HandleMoveWorldPortAck
<1>3. player.data = newest /\ player.watch = "none"
  BY <1>2 DEF Home, HandleMoveWorldPortAck
<1>4. CASE n = NoNode
  <2>1. player' = [player EXCEPT !.newWorld = FALSE] /\ UNCHANGED toNode
    BY <1>4 DEF HandleMoveWorldPortAck
  <2>2. player'.data = player.data /\ player'.watch = player.watch
    BY <2>1 DEF Inv, TypeOK
  <2>3. Home'
    BY <1>1, <1>2, <2>1, <2>2 DEF Home, Absent, Copies, Stored
  <2> QED
    BY <1>1, <2>3 DEF OnePlace
<1>5. CASE n # NoNode
  <2>1. /\ player' = [player EXCEPT !.worldNode = n, !.transfer = NoNode, !.newWorld = FALSE]
        /\ SendToNode(n, CharacterLogIn(newest))
    BY <1>3, <1>5 DEF HandleMoveWorldPortAck
  <2>2. player'.data = newest /\ player'.watch # "entered" /\ ~player'.newWorld
    BY <1>3, <2>1 DEF Inv, TypeOK
  <2> HIDE DEF n
  <2> QED
    BY <1>1, <1>2, <1>5, <2>1, <2>2, LogsIn DEF OnePlace
<1> QED
  BY <1>4, <1>5

-----------------------------------------------------------------------------
(* What the realm hears of its nodes. *)

(* What is heard is the first message of its queue. *)
LEMMA Heard ==
  ASSUME MessagesOK, NEW n \in Node, NEW type, RealmReceives(n, type)
  PROVE  /\ toRealm[n] # <<>> /\ Len(toRealm[n]) \in Nat \ {0}
         /\ toRealm[n] \in Seq(MessageToRealm)
         /\ toRealm[n][1] = Head(toRealm[n]) /\ toRealm[n][1].type = type
         /\ Len(toRealm'[n]) = Len(toRealm[n]) - 1
         /\ \A i \in 1 .. Len(toRealm[n]) - 1 : toRealm'[n][i] = toRealm[n][i + 1]
         /\ \A m \in Node : m # n => toRealm'[m] = toRealm[m]
BY DEF MessagesOK, RealmReceives

(* What is left of the messages of a node the character stays in. *)
LEMMA GreetingGoesOn ==
  ASSUME MessagesOK, NEW n \in Node, NEW type, RealmReceives(n, type), NEW S,
         \A i \in 1 .. Len(toRealm[n]) : toRealm[n][i].type \in S
  PROVE  \A i \in 1 .. Len(toRealm'[n]) : toRealm'[n][i].type \in S
<1> DEFINE q == toRealm[n]  r == toRealm'[n]
<1>1. /\ Len(q) \in Nat \ {0} /\ Len(r) = Len(q) - 1
      /\ \A i \in 1 .. Len(q) - 1 : r[i] = q[i + 1]
  BY Heard
<1>2. \A i \in 1 .. Len(q) : q[i].type \in S
  OBVIOUS
<1> HIDE DEF q, r
<1>3. \A i \in 1 .. Len(r) : r[i].type \in S
  BY <1>1, <1>2
<1> QED
  BY <1>3 DEF r

(* The other nodes do not notice. *)
LEMMA OthersNotice ==
  ASSUME NEW n \in Node, NobodyBut(n), node' = node, toNode' = toNode,
         \A m \in Node : m # n => toRealm'[m] = toRealm[m]
  PROVE  NobodyBut(n)'
BY DEF NobodyBut, Absent, Copies

(* The rest of a farewell is one as long as the character has not left. *)
LEMMA FarewellGoesOn ==
  ASSUME MessagesOK, NEW n \in Node, NEW type, RealmReceives(n, type), newest' = newest,
         Farewell(toRealm[n]), type # "WorldInstanceLeft"
  PROVE  /\ Farewell(toRealm[n])'
         /\ Len(toRealm[n]) > 1
         /\ Len(toRealm'[n]) = 1 => toRealm[n][1] = CharacterData(newest)
<1> DEFINE q == toRealm[n]  r == toRealm'[n]
<1>1. /\ Len(q) \in Nat \ {0} /\ q[1].type = type /\ Len(r) = Len(q) - 1
      /\ \A i \in 1 .. Len(q) - 1 : r[i] = q[i + 1]
  BY Heard
<1>2. /\ q[Len(q)].type = "WorldInstanceLeft"
      /\ \A i \in 1 .. Len(q) - 1 : q[i].type # "WorldInstanceLeft"
      /\ Len(q) > 1 => q[Len(q) - 1] = CharacterData(newest)
  BY DEF Farewell
<1> HIDE DEF q, r
<1>3. Len(q) > 1
  BY <1>1, <1>2
<1>4. Len(r) # 0 /\ r[Len(r)].type = "WorldInstanceLeft"
  <2>1. Len(r) \in 1 .. Len(q) - 1 /\ Len(r) + 1 = Len(q)
    BY <1>1, <1>3
  <2> QED
    BY <1>1, <1>2, <2>1
<1>5. \A i \in 1 .. Len(r) - 1 : r[i].type # "WorldInstanceLeft"
  BY <1>1, <1>2
<1>6. Len(r) > 1 => r[Len(r) - 1] = CharacterData(newest)
  BY <1>1, <1>2
<1>7. Len(r) = 1 => q[1] = CharacterData(newest)
  <2>1. PICK k \in Nat : Len(q) = k
    BY <1>1
  <2>2. Len(r) = 1 => k - 1 = 1
    BY <1>1, <2>1
  <2>3. k - 1 = 1 => k = 2
    OBVIOUS
  <2> QED
    BY <1>2, <2>1, <2>2, <2>3
<1>8. Farewell(toRealm[n])'
  BY <1>4, <1>5, <1>6 DEF Farewell, r, CharacterData
<1> QED
  BY <1>3, <1>7, <1>8 DEF q, r

(* Anything but the data and the farewell itself leaves the character on its way out. *)
LEMMA LeavingGoesOn ==
  ASSUME Inv, NEW n \in Node, Leaving(n), NEW type, RealmReceives(n, type),
         type \notin {"CharacterData", "WorldInstanceLeft"},
         UNCHANGED <<saved, node, toNode, newest>>,
         player'.data = player.data, player'.newWorld = player.newWorld
  PROVE  Leaving(n)'
<1>1. Farewell(toRealm[n])' /\ (Len(toRealm'[n]) = 1 => toRealm[n][1] = CharacterData(newest))
  BY FarewellGoesOn DEF Inv, Leaving
<1>2. toRealm[n][1].type = type /\ NobodyBut(n)'
  BY Heard, OthersNotice DEF Inv, Leaving
<1>3. Len(toRealm'[n]) # 1
  BY <1>1, <1>2 DEF CharacterData
<1> QED
  BY <1>1, <1>2, <1>3 DEF Leaving, Copies

(* The realm learns that the character is in the world. *)
LEMMA EnteredPlace ==
  ASSUME Inv, OnePlace, NEW n \in Node, HandleWorldInstanceEntered(n)
  PROVE  OnePlace'
<1>1. RealmReceives(n, "WorldInstanceEntered") /\ UNCHANGED <<saved, node, toNode, newest>>
      /\ \A m \in Node : world'[m].connected
  BY DEF HandleWorldInstanceEntered, OnePlace, Inv, TypeOK
<1>2. player.data # NoData => player.character
  BY DEF Inv, TypeOK
<1>3. /\ player' = PlayerAfterEntered(player, n) \/ (player' = player /\ ~player.character)
      /\ player'.data = player.data /\ player'.newWorld = player.newWorld
  <2>1. \/ player' = PlayerAfterEntered(player, n)
        \/ (player' = player /\ ~player.character)
    BY DEF HandleWorldInstanceEntered
  <2>2. player'.data = player.data /\ player'.newWorld = player.newWorld
    BY <2>1 DEF Inv, TypeOK, PlayerAfterEntered
  <2> QED
    BY <2>1, <2>2
<1>4. CASE Playing(n)
  <2>1. player'.watch = "entered" /\ player'.worldNode = n
    BY <1>2, <1>3, <1>4 DEF Inv, TypeOK, Playing, PlayerAfterEntered
  <2>2. \A i \in 1 .. Len(toRealm'[n]) :
           toRealm'[n][i].type \in {"WorldInstanceEntered", "CharacterData"}
    BY <1>1, <1>4, GreetingGoesOn DEF Inv, Playing
  <2>3. NobodyBut(n)'
    BY <1>1, <1>4, Heard, OthersNotice DEF Inv, Playing
  <2>4. Playing(n)'
    BY <1>1, <1>3, <1>4, <2>1, <2>2, <2>3 DEF Playing, Arrived, Copies
  <2> QED
    BY <1>1, <2>4 DEF OnePlace
<1>5. CASE Leaving(n)
  BY <1>1, <1>3, <1>5, LeavingGoesOn DEF OnePlace
<1> QED
  BY <1>1, <1>4, <1>5, Heard, HasMail DEF Inv

(* A teleport is announced, on the way out. *)
LEMMA TeleportRequestPlace ==
  ASSUME Inv, OnePlace, NEW n \in Node, HandleTeleportRequest(n)
  PROVE  OnePlace'
<1>1. RealmReceives(n, "TeleportRequest") /\ UNCHANGED <<saved, world, node, toNode, newest>>
  BY DEF HandleTeleportRequest
<1>2. player'.data = player.data /\ player'.newWorld = player.newWorld
  BY DEF HandleTeleportRequest, Inv, TypeOK
<1>3. /\ toRealm[n] # <<>> /\ Len(toRealm[n]) \in Nat \ {0}
      /\ toRealm[n][1].type = "TeleportRequest"
  BY <1>1, Heard DEF Inv
<1>4. ~Playing(n)
  BY <1>3 DEF Playing
<1>5. Leaving(n)
  BY <1>3, <1>4, HasMail
<1> QED
  BY <1>1, <1>2, <1>5, LeavingGoesOn DEF OnePlace

(* The realm gets the character's data, at the end the latest. *)
LEMMA CharacterDataPlace ==
  ASSUME Inv, OnePlace, NEW n \in Node, HandleCharacterData(n)
  PROVE  OnePlace'
<1> DEFINE message == Head(toRealm[n])
<1>1. RealmReceives(n, "CharacterData") /\ UNCHANGED <<world, node, toNode, newest>>
  BY DEF HandleCharacterData
<1>2. message.data \in Nat /\ message = toRealm[n][1] /\ message.type = "CharacterData"
  BY <1>1, RealmReceivesType, Heard DEF Inv, MessageToRealm
<1>3. player.data # NoData => player.character
  BY DEF Inv, TypeOK
<1>4. saved'.data = message.data
  BY DEF HandleCharacterData
<1>5. player.data # NoData =>
        /\ player'.data = message.data /\ player'.watch = player.watch
        /\ player'.worldNode = player.worldNode /\ player'.newWorld = player.newWorld
  BY <1>3 DEF HandleCharacterData, Inv, TypeOK
<1>6. CASE Playing(n)
  <2>1. player'.data # NoData
    BY <1>2, <1>5, <1>6 DEF Playing
  <2>2. \A i \in 1 .. Len(toRealm'[n]) :
           toRealm'[n][i].type \in {"WorldInstanceEntered", "CharacterData"}
    BY <1>1, <1>6, GreetingGoesOn DEF Inv, Playing
  <2>3. NobodyBut(n)'
    BY <1>1, <1>6, Heard, OthersNotice DEF Inv, Playing
  <2>4. Arrived(n)'
    BY <1>2, <1>5, <1>6 DEF Playing, Arrived
  <2>5. Playing(n)'
    BY <1>1, <1>5, <1>6, <2>1, <2>2, <2>3, <2>4 DEF Playing, Copies
  <2> QED
    BY <1>1, <2>5 DEF OnePlace
<1>7. CASE Leaving(n)
  <2>1. Farewell(toRealm[n])' /\ (Len(toRealm'[n]) = 1 => toRealm[n][1] = CharacterData(newest))
    BY <1>1, <1>7, FarewellGoesOn DEF Inv, Leaving
  <2>2. NobodyBut(n)'
    BY <1>1, <1>7, Heard, OthersNotice DEF Inv, Leaving
  <2>3. Len(toRealm'[n]) = 1 => saved'.data = newest /\ player'.data = newest
    BY <1>2, <1>4, <1>5, <1>7, <2>1 DEF Leaving, CharacterData
  <2>4. player'.data # NoData /\ ~player'.newWorld
    BY <1>2, <1>5, <1>7 DEF Leaving
  <2>5. Leaving(n)'
    BY <1>1, <1>7, <2>1, <2>2, <2>3, <2>4 DEF Leaving, Copies, Stored
  <2> QED
    BY <1>1, <2>5 DEF OnePlace
<1> QED
  BY <1>1, <1>6, <1>7, Heard, HasMail DEF Inv

(* The realm learns that the character has left: it is where it was stored. *)
LEMMA LeftPlace ==
  ASSUME Inv, OnePlace, NEW n \in Node, HandleWorldInstanceLeft(n)
  PROVE  OnePlace'
<1> DEFINE message == Head(toRealm[n])
<1>1. RealmReceives(n, "WorldInstanceLeft") /\ UNCHANGED <<saved, world, node, toNode, newest>>
  BY DEF HandleWorldInstanceLeft
<1>2. message \in MessageToRealm /\ message.type = "WorldInstanceLeft"
  BY <1>1, RealmReceivesType DEF Inv
<1>3. /\ toRealm[n] # <<>> /\ Len(toRealm[n]) \in Nat \ {0}
      /\ toRealm[n][1].type = "WorldInstanceLeft"
      /\ toRealm[n] \in Seq(MessageToRealm)
      /\ \A m \in Node : m # n => toRealm'[m] = toRealm[m]
      /\ toRealm'[n] = Tail(toRealm[n])
  BY <1>1, Heard DEF Inv, MessagesOK, RealmReceives
<1>4. Leaving(n)
  BY <1>3, HasMail DEF Playing
<1>5. Len(toRealm[n]) = 1
  <2>1. \A i \in 1 .. Len(toRealm[n]) - 1 : toRealm[n][i].type # "WorldInstanceLeft"
    BY <1>4 DEF Leaving, Farewell
  <2>2. PICK k \in Nat \ {0} : Len(toRealm[n]) = k
    BY <1>3
  <2>3. ~(1 \in 1 .. k - 1)
    BY <1>3, <2>1, <2>2
  <2> QED
    BY <2>2, <2>3
<1>6. toRealm'[n] = <<>>
  <2>1. Tail(toRealm[n]) \in Seq(MessageToRealm) /\ Len(Tail(toRealm[n])) = 0
    BY <1>3, <1>5, HeadTailProperties
  <2> QED
    BY <1>3, <2>1, EmptySeq
<1>7. saved.data = newest /\ player.data = newest /\ player.character
  BY <1>4, <1>5 DEF Leaving, Stored, Inv, TypeOK
<1>8. player' = PlayerAfterLeft(player, message.reason) /\ message.reason \in Reason
  BY <1>2, <1>7 DEF HandleWorldInstanceLeft, MessageToRealm
<1>9. /\ player'.data \in {NoData, newest} /\ player'.watch = "none"
      /\ player'.newWorld => player'.data # NoData
  <2>1. PlayerOK(player) /\ player.session \in {"open", "lost"}
    BY <1>7, Parts, PlayerThere DEF Inv
  <2>2. player'.watch = "none"
    BY <1>8, <2>1, PlayerLeaves
  <2>3. /\ player'.data \in {NoData, player.data}
        /\ player'.newWorld => player'.data = player.data
    <3>1. CASE message.reason = "Teleport"
      BY <1>8, <2>1, <3>1 DEF PlayerAfterLeft, WithoutNode, PlayerOK
    <3>2. CASE message.reason = "Logout"
      BY <1>8, <2>1, <3>2 DEF PlayerAfterLeft, LoggedOut, WithoutNode, PlayerOK
    <3>3. CASE message.reason = "Disconnect"
      BY <1>8, <3>3 DEF PlayerAfterLeft, NoPlayer
    <3> QED
      BY <1>8, <3>1, <3>2, <3>3 DEF Reason
  <2> QED
    BY <1>4, <1>7, <2>2, <2>3 DEF Leaving
<1>10. Home'
  <2>1. \A m \in Node : Absent(m)' /\ NoLogIn(toNode[m])'
    BY <1>1, <1>3, <1>4, <1>6 DEF Absent, Copies, Leaving, NobodyBut
  <2> QED
    BY <1>1, <1>7, <1>9, <2>1 DEF Home, Stored
<1> QED
  BY <1>1, <1>10 DEF OnePlace

-----------------------------------------------------------------------------
(* What the nodes do. *)

(* Appended messages come last, and leave the first what it was. *)
LEMMA Appended ==
  ASSUME MessagesOK, NEW n \in Node, NEW messages \in Seq(MessageToRealm),
         SendToRealm(n, messages)
  PROVE  /\ toRealm[n] \in Seq(MessageToRealm) /\ Len(toRealm[n]) \in Nat /\ Len(messages) \in Nat
         /\ Len(toRealm'[n]) = Len(toRealm[n]) + Len(messages)
         /\ \A i \in 1 .. Len(toRealm[n]) : toRealm'[n][i] = toRealm[n][i]
         /\ \A i \in 1 .. Len(messages) : toRealm'[n][Len(toRealm[n]) + i] = messages[i]
         /\ \A m \in Node : m # n => toRealm'[m] = toRealm[m]
<1> DEFINE q == toRealm[n]
<1>1. q \in Seq(MessageToRealm) /\ toRealm'[n] = q \o messages
      /\ \A m \in Node : m # n => toRealm'[m] = toRealm[m]
  BY DEF MessagesOK, SendToRealm
<1> HIDE DEF q
<1>2. /\ Len(q \o messages) = Len(q) + Len(messages) /\ Len(q) \in Nat /\ Len(messages) \in Nat
      /\ \A i \in 1 .. Len(q) + Len(messages) :
           (q \o messages)[i] = IF i <= Len(q) THEN q[i] ELSE messages[i - Len(q)]
  BY <1>1, ConcatProperties
<1>3. \A i \in 1 .. Len(q) : (q \o messages)[i] = q[i]
  BY <1>2
<1>4. \A i \in 1 .. Len(messages) : (q \o messages)[Len(q) + i] = messages[i]
  <2> SUFFICES ASSUME NEW i \in 1 .. Len(messages) PROVE (q \o messages)[Len(q) + i] = messages[i]
    OBVIOUS
  <2>1. Len(q) + i \in 1 .. Len(q) + Len(messages) /\ ~(Len(q) + i <= Len(q))
        /\ (Len(q) + i) - Len(q) = i
    BY <1>2
  <2> QED
    BY <1>2, <2>1
<1> QED
  BY <1>1, <1>2, <1>3, <1>4 DEF q

(* A node that lets the character go says so last, right after its data. *)
LEMMA NodeLetsGo ==
  ASSUME Inv, OnePlace, NEW n \in Node, Playing(n), RemoveCopy(n, 1),
         NEW before \in Seq(MessageToRealm), NEW reason \in Reason,
         \A i \in 1 .. Len(before) : before[i].type # "WorldInstanceLeft",
         SendToRealm(n, before \o LastWords(Copies(n)[1], reason)),
         SameLogIns, UNCHANGED <<player, saved, world, newest>>
  PROVE  OnePlace'
<1> DEFINE q == toRealm[n]  last == LastWords(Copies(n)[1], reason)
           words == before \o last  k == Len(q) + Len(before)
<1>1. /\ Len(Copies(n)) = 1 /\ Copies(n)[1].data = newest /\ Copies(n)[1] \in Copy
      /\ Copies(n) \in Seq(Copy)
  BY CopyType DEF Inv, TypeOK, Copies, Copy, Playing
<1>2. last \in Seq(MessageToRealm) /\ last = <<CharacterData(newest), WorldInstanceLeft(reason)>>
  BY <1>1, LastWordsType DEF LastWords
<1>3. Len(last) = 2 /\ last[1] = CharacterData(newest) /\ last[2] = WorldInstanceLeft(reason)
  BY <1>2
<1> HIDE DEF last
<1>4. /\ words \in Seq(MessageToRealm) /\ Len(before) \in Nat /\ Len(words) = Len(before) + 2
      /\ \A i \in 1 .. Len(before) + 2 :
           words[i] = IF i <= Len(before) THEN before[i] ELSE last[i - Len(before)]
  BY <1>2, <1>3, ConcatProperties
<1>5. /\ \A i \in 1 .. Len(before) : words[i].type # "WorldInstanceLeft"
      /\ words[Len(before) + 1] = CharacterData(newest)
      /\ words[Len(before) + 2] = WorldInstanceLeft(reason)
  BY <1>3, <1>4
<1>6. SendToRealm(n, words)
  BY DEF last
<1> HIDE DEF words
<1>7. /\ Len(q) \in Nat /\ Len(toRealm'[n]) = Len(q) + (Len(before) + 2)
      /\ \A i \in 1 .. Len(q) : toRealm'[n][i] = q[i]
      /\ \A i \in 1 .. Len(before) + 2 : toRealm'[n][Len(q) + i] = words[i]
      /\ \A m \in Node : m # n => toRealm'[m] = toRealm[m]
  <2>1. /\ Len(q) \in Nat /\ Len(toRealm'[n]) = Len(q) + Len(words)
        /\ \A i \in 1 .. Len(q) : toRealm'[n][i] = q[i]
        /\ \A i \in 1 .. Len(words) : toRealm'[n][Len(q) + i] = words[i]
        /\ \A m \in Node : m # n => toRealm'[m] = toRealm[m]
    BY <1>4, <1>6, Appended DEF Inv
  <2> HIDE DEF q
  <2> QED
    BY <1>4, <2>1
<1>8. \A i \in 1 .. Len(q) : q[i].type # "WorldInstanceLeft"
  BY DEF Playing
<1> HIDE DEF q
<1>9. /\ k \in Nat /\ Len(toRealm'[n]) = k + 2
      /\ toRealm'[n][k + 1] = CharacterData(newest)
      /\ toRealm'[n][k + 2] = WorldInstanceLeft(reason)
  <2>1. k \in Nat /\ Len(toRealm'[n]) = k + 2
    BY <1>4, <1>7
  <2>2. /\ Len(before) + 1 \in 1 .. Len(before) + 2 /\ Len(before) + 2 \in 1 .. Len(before) + 2
        /\ Len(q) + (Len(before) + 1) = k + 1 /\ Len(q) + (Len(before) + 2) = k + 2
    BY <1>4, <1>7
  <2> QED
    BY <1>5, <1>7, <2>1, <2>2
<1>10. \A i \in 1 .. k + 1 : toRealm'[n][i].type # "WorldInstanceLeft"
  <2> SUFFICES ASSUME NEW i \in 1 .. k + 1 PROVE toRealm'[n][i].type # "WorldInstanceLeft"
    OBVIOUS
  <2>1. CASE i \in 1 .. Len(q)
    BY <1>7, <1>8, <2>1
  <2>2. CASE i = k + 1
    BY <1>9, <2>2 DEF CharacterData
  <2>3. CASE i \notin 1 .. Len(q) /\ i # k + 1
    <3>1. i - Len(q) \in 1 .. Len(before) /\ i - Len(q) \in 1 .. Len(before) + 2
          /\ Len(q) + (i - Len(q)) = i
      BY <1>4, <1>7, <2>3
    <3> QED
      BY <1>5, <1>7, <3>1
  <2> QED
    BY <2>1, <2>2, <2>3
<1>11. Farewell(toRealm[n])'
  <2> HIDE DEF k
  <2>1. Len(toRealm'[n]) # 0 /\ Len(toRealm'[n]) - 1 = k + 1
    BY <1>9
  <2> QED
    BY <1>9, <1>10, <2>1 DEF Farewell, WorldInstanceLeft, CharacterData
<1>12. Copies(n)' = <<>> /\ \A m \in Node : m # n => Copies(m)' = Copies(m)
  <2>1. RemoveAt(Copies(n), 1) = <<>>
    BY <1>1 DEF RemoveAt
  <2> QED
    BY <2>1 DEF Inv, TypeOK, RemoveCopy, Copies
<1>13. NobodyBut(n)' /\ NoLogIn(toNode[n])'
  BY <1>7, <1>12 DEF Playing, NobodyBut, Absent, SameLogIns, NoLogIn
<1>14. Len(toRealm'[n]) # 1
  BY <1>9
<1>15. Leaving(n)'
  BY <1>11, <1>12, <1>13, <1>14 DEF Leaving, Playing
<1> QED
  BY <1>15 DEF OnePlace

(* The same without a word before. *)
LEMMA NodeJustLetsGo ==
  ASSUME Inv, OnePlace, NEW n \in Node, Playing(n), RemoveCopy(n, 1), NEW reason \in Reason,
         SendToRealm(n, LastWords(Copies(n)[1], reason)),
         SameLogIns, UNCHANGED <<player, saved, world, newest>>
  PROVE  OnePlace'
<1>1. Copies(n)[1] \in Copy
  BY CopyType DEF Inv, Playing
<1>2. LastWords(Copies(n)[1], reason) \in Seq(MessageToRealm)
  BY <1>1, LastWordsType
<1>3. <<>> \o LastWords(Copies(n)[1], reason) = LastWords(Copies(n)[1], reason)
  BY <1>2, ConcatEmptySeq
<1>4. <<>> \in Seq(MessageToRealm) /\ \A i \in 1 .. Len(<<>>) : <<>>[i].type # "WorldInstanceLeft"
  OBVIOUS
<1> QED
  BY <1>3, <1>4, NodeLetsGo

(* The log-in arrives: from now on the character is in the node. *)
LEMMA CharacterLoginPlace ==
  ASSUME Inv, OnePlace, NEW n \in Node, HandleCharacterLogin(n)
  PROVE  OnePlace'
<1> DEFINE q == toNode[n]
<1>1. /\ q \in Seq(MessageToNode) /\ q # <<>> /\ q[1] = Head(q) /\ q[1].type = "CharacterLogIn"
      /\ toNode' = [toNode EXCEPT ![n] = Tail(q)]
      /\ DOMAIN q = 1 .. Len(q) /\ Len(q) \in Nat \ {0}
      /\ DOMAIN Tail(q) = 1 .. Len(q) - 1
      /\ \A i \in 1 .. Len(q) - 1 : Tail(q)[i] = q[i + 1]
  BY DEF Inv, MessagesOK, HandleCharacterLogin, NodeReceives
<1>2. Sent(n)
  BY <1>1, HasLogIn DEF NoLogIn
<1>3. q[1] = CharacterLogIn(newest) /\ \A j \in DOMAIN q : j # 1 => q[j].type # "CharacterLogIn"
  <2>1. PICK i \in DOMAIN q : /\ q[i] = CharacterLogIn(newest)
                              /\ \A j \in DOMAIN q : j # i => q[j].type # "CharacterLogIn"
    BY <1>2 DEF Sent, OneLogIn
  <2> QED
    BY <1>1, <2>1
<1>4. NoLogIn(Tail(q))
  <2> HIDE DEF q
  <2> QED
    BY <1>1, <1>3 DEF NoLogIn
<1>5. toNode'[n] = Tail(q) /\ \A m \in Node : m # n => toNode'[m] = toNode[m]
  BY <1>1 DEF Inv, MessagesOK
<1>6. /\ Copies(n)' = <<[data |-> newest, logout |-> FALSE]>>
      /\ \A m \in Node : m # n => Copies(m)' = Copies(m)
  <2>1. /\ Copies(n)' = Append(Copies(n), [data |-> q[1].data, logout |-> FALSE])
        /\ \A m \in Node : m # n => Copies(m)' = Copies(m)
    BY <1>1 DEF Inv, TypeOK, Copies, HandleCharacterLogin
  <2>2. Copies(n) = <<>> /\ q[1].data = newest
    BY <1>2, <1>3 DEF Sent, Absent, CharacterLogIn
  <2> QED
    BY <2>1, <2>2
<1>7. /\ toRealm'[n] = <<WorldInstanceEntered>>
      /\ \A m \in Node : m # n => toRealm'[m] = toRealm[m]
  <2>1. toRealm[n] = <<>>
    BY <1>2 DEF Sent, Absent
  <2>2. toRealm'[n] = <<>> \o <<WorldInstanceEntered>>
        /\ \A m \in Node : m # n => toRealm'[m] = toRealm[m]
    BY <2>1 DEF Inv, MessagesOK, HandleCharacterLogin, SendToRealm
  <2> QED
    BY <2>2
<1>8. NobodyBut(n)'
  BY <1>2, <1>5, <1>6, <1>7 DEF Sent, NobodyBut, Absent
<1>9. Len(Copies(n)') = 1 /\ Copies(n)'[1].data = newest
  BY <1>6
<1>10. /\ \A i \in 1 .. Len(toRealm'[n]) :
             toRealm'[n][i].type \in {"WorldInstanceEntered", "CharacterData"}
       /\ toRealm'[n] # <<>> /\ toRealm'[n][1].type = "WorldInstanceEntered"
  BY <1>7 DEF WorldInstanceEntered
<1>11. player.data # NoData /\ ~player.newWorld /\ UNCHANGED <<player, newest, world>>
  BY <1>2 DEF Sent, Inv, TypeOK, HandleCharacterLogin
<1>12. Arrived(n)'
  BY <1>10 DEF Arrived
<1> HIDE DEF q
<1>13. Playing(n)'
  BY <1>4, <1>5, <1>8, <1>9, <1>10, <1>11, <1>12 DEF Playing
<1> QED
  BY <1>11, <1>13 DEF OnePlace

(* The realm sends the character away. *)
LEMMA LeavePlace ==
  ASSUME Inv, OnePlace, NEW n \in Node, HandleLeaveWorldInstance(n)
  PROVE  OnePlace'
<1>1. NodeReceives(n, "LeaveWorldInstance") /\ UNCHANGED <<player, saved, world, newest>>
  BY DEF HandleLeaveWorldInstance
<1>2. Head(toNode[n]).reason \in Reason
  BY <1>1, NodeReceivesType DEF Inv, MessageToNode
<1>3. SameLogIns
  BY <1>1, ReceivesOther DEF Inv
<1>4. CASE Copies(n) = <<>>
  <2>1. UNCHANGED <<node, toRealm>>
    BY <1>4 DEF HandleLeaveWorldInstance
  <2> QED
    BY <1>1, <1>3, <2>1, StaysThere
<1>5. CASE Copies(n) # <<>>
  <2>1. /\ RemoveCopy(n, 1)
        /\ SendToRealm(n, LastWords(Copies(n)[1], Head(toNode[n]).reason))
    BY <1>5 DEF HandleLeaveWorldInstance
  <2> QED
    BY <1>1, <1>2, <1>3, <1>5, <2>1, HasCopy, NodeJustLetsGo
<1> QED
  BY <1>4, <1>5

(* A copy whose data is the latest, and the messages it adds, if any. *)
LEMMA PlaysOn ==
  ASSUME Inv, OnePlace, NEW n \in Node, Playing(n), SameLogIns \/ toNode' = toNode,
         Len(Copies(n)') = 1, Copies(n)'[1].data = newest',
         \A m \in Node : m # n => Copies(m)' = Copies(m),
         NEW messages \in Seq(MessageToRealm), SendToRealm(n, messages),
         \A i \in 1 .. Len(messages) : messages[i].type = "CharacterData",
         UNCHANGED <<player, world>>
  PROVE  OnePlace'
<1>1. NobodyBut(n)'
  <2>1. \A m \in Node : m # n => toRealm'[m] = toRealm[m]
    BY Appended DEF Inv
  <2>2. \A m \in Node : NoLogIn(toNode[m]) => NoLogIn(toNode[m])'
    BY DEF SameLogIns, NoLogIn
  <2> QED
    BY <2>1, <2>2 DEF Playing, NobodyBut, Absent
<1>2. NoLogIn(toNode[n])'
  BY DEF Playing, SameLogIns, NoLogIn
<1> DEFINE q == toRealm[n]  r == toRealm'[n]
<1>3. /\ Len(q) \in Nat /\ Len(messages) \in Nat /\ Len(r) = Len(q) + Len(messages)
      /\ \A i \in 1 .. Len(q) : r[i] = q[i]
      /\ \A i \in 1 .. Len(messages) : r[Len(q) + i] = messages[i]
      /\ q \in Seq(MessageToRealm)
  BY Appended DEF Inv
<1>4. \A i \in 1 .. Len(q) : q[i].type \in {"WorldInstanceEntered", "CharacterData"}
  BY DEF Playing
<1>5. \A i \in 1 .. Len(r) : r[i].type \in {"WorldInstanceEntered", "CharacterData"}
  <2> HIDE DEF q, r
  <2> SUFFICES ASSUME NEW i \in 1 .. Len(r)
               PROVE  r[i].type \in {"WorldInstanceEntered", "CharacterData"}
    OBVIOUS
  <2>1. CASE i \in 1 .. Len(q)
    BY <1>3, <1>4, <2>1
  <2>2. CASE i \notin 1 .. Len(q)
    <3>1. i - Len(q) \in 1 .. Len(messages) /\ Len(q) + (i - Len(q)) = i
      BY <1>3, <2>2
    <3> QED
      BY <1>3, <3>1
  <2> QED
    BY <2>1, <2>2
<1>6. Arrived(n)'
  <2>1. CASE player.watch = "entered" /\ player.worldNode = n
    BY <2>1 DEF Arrived
  <2>2. CASE q # <<>> /\ q[1].type = "WorldInstanceEntered"
    <3>1. 1 \in 1 .. Len(q) /\ Len(r) # 0
      BY <1>3, <2>2
    <3>2. r # <<>> /\ r[1].type = "WorldInstanceEntered"
      BY <1>3, <2>2, <3>1
    <3> QED
      BY <3>2 DEF Arrived
  <2> QED
    BY <2>1, <2>2 DEF Playing, Arrived
<1>7. Playing(n)'
  BY <1>1, <1>2, <1>5, <1>6 DEF Playing
<1> QED
  BY <1>7 DEF OnePlace

(* A client's packet. *)
LEMMA ProxyPacketPlace ==
  ASSUME Inv, OnePlace, NEW n \in Node, HandleProxyPacket(n)
  PROVE  OnePlace'
<1> DEFINE packet == Head(toNode[n]).packet
<1>1. NodeReceives(n, "ClientProxyPacket") /\ UNCHANGED <<player, saved, world, newest>>
  BY DEF HandleProxyPacket
<1>2. packet \in Packet
  BY <1>1, NodeReceivesType DEF Inv, MessageToNode
<1>3. SameLogIns
  BY <1>1, ReceivesOther DEF Inv
<1>4. CASE Copies(n) = <<>>
  <2>1. UNCHANGED <<node, toRealm>>
    BY <1>4 DEF HandleProxyPacket
  <2> QED
    BY <1>1, <1>3, <2>1, StaysThere
<1>5. CASE Copies(n) # <<>> /\ packet = "InvalidMovement"
  <2>1. /\ RemoveCopy(n, 1)
        /\ SendToRealm(n, LastWords(Copies(n)[1], "Disconnect"))
    BY <1>5 DEF HandleProxyPacket
  <2>2. "Disconnect" \in Reason
    BY DEF Reason
  <2> QED
    BY <1>1, <1>3, <1>5, <2>1, <2>2, HasCopy, NodeJustLetsGo
<1>6. CASE Copies(n) # <<>> /\ packet \in {"LogoutRequest", "LogoutCancel"}
  <2>1. node' = [node EXCEPT ![n].copies[1].logout = packet = "LogoutRequest"]
        /\ UNCHANGED toRealm
    BY <1>6 DEF HandleProxyPacket
  <2>2. Playing(n) /\ Copies(n) \in Seq(Copy) /\ Len(Copies(n)) = 1 /\ Copies(n)[1] \in Copy
    <3>1. Playing(n)
      BY <1>6, HasCopy
    <3>2. Copies(n) \in Seq(Copy)
      BY DEF Inv, TypeOK, Copies, Copy
    <3>3. Len(Copies(n)) = 1
      BY <3>1 DEF Playing
    <3> QED
      BY <1>6, <3>1, <3>2, <3>3, FirstCopy, CopyType DEF Inv
  <2>3. /\ Copies(n)' = [Copies(n) EXCEPT ![1].logout = packet = "LogoutRequest"]
        /\ \A m \in Node : m # n => Copies(m)' = Copies(m)
    BY <2>1 DEF Inv, TypeOK, Copies
  <2>4. Len(Copies(n)') = 1 /\ Copies(n)'[1].data = newest
    <3>1. [Copies(n)[1] EXCEPT !.logout = packet = "LogoutRequest"] \in Copy
      BY <2>2 DEF Copy
    <3>2. /\ Len(Copies(n)') = 1
          /\ Copies(n)'[1] = [Copies(n)[1] EXCEPT !.logout = packet = "LogoutRequest"]
      BY <2>2, <2>3, <3>1, ExceptSeq
    <3> QED
      BY <2>2, <3>2 DEF Playing, Copy
  <2>5. <<>> \in Seq(MessageToRealm) /\ SendToRealm(n, <<>>)
        /\ \A i \in 1 .. Len(<<>>) : <<>>[i].type = "CharacterData"
    <3>1. toRealm[n] \o <<>> = toRealm[n]
      BY ConcatEmptySeq DEF Inv, MessagesOK
    <3> QED
      BY <2>1, <3>1 DEF Inv, MessagesOK, SendToRealm
  <2> QED
    BY <1>1, <1>3, <2>2, <2>3, <2>4, <2>5, PlaysOn
<1> QED
  BY <1>2, <1>4, <1>5, <1>6 DEF Packet

(* The logout of the only copy. *)
LEMMA OnLogoutPlace ==
  ASSUME Inv, OnePlace, NEW n \in Node, NEW i \in DOMAIN Copies(n), OnLogout(n, i)
  PROVE  OnePlace'
<1>1. Copies(n) # <<>> /\ DOMAIN Copies(n) = 1 .. Len(Copies(n))
  BY DEF Inv, TypeOK, Copies
<1>2. Playing(n) /\ i = 1
  <2>1. Playing(n)
    BY <1>1, HasCopy
  <2>2. Len(Copies(n)) = 1
    BY <2>1 DEF Playing
  <2> QED
    BY <1>1, <2>1, <2>2
<1>3. RemoveCopy(n, 1) /\ SendToRealm(n, LastWords(Copies(n)[1], "Logout")) /\ "Logout" \in Reason
      /\ UNCHANGED <<player, saved, world, toNode, newest>>
  BY <1>2 DEF OnLogout, Reason
<1> QED
  BY <1>2, <1>3, SendsNothing, NodeJustLetsGo

(* A teleport to another map is announced first. *)
LEMMA OnTeleportPlace ==
  ASSUME Inv, OnePlace, NEW n \in Node, NEW map \in Node, OnTeleport(n, map)
  PROVE  OnePlace'
<1>1. Playing(n)
  BY HasCopy DEF OnTeleport
<1>2. RemoveCopy(n, 1) /\ "Teleport" \in Reason
      /\ SendToRealm(n, <<TeleportRequest(map)>> \o LastWords(Copies(n)[1], "Teleport"))
      /\ UNCHANGED <<player, saved, world, toNode, newest>>
  BY DEF OnTeleport, Reason
<1>3. <<TeleportRequest(map)>> \in Seq(MessageToRealm)
      /\ \A i \in 1 .. Len(<<TeleportRequest(map)>>) :
            <<TeleportRequest(map)>>[i].type # "WorldInstanceLeft"
  BY DEF TeleportRequest, MessageToRealm
<1> QED
  BY <1>1, <1>2, <1>3, SendsNothing, NodeLetsGo

(* The character changes where it is. *)
LEMMA PlayPlace ==
  ASSUME Inv, OnePlace, NEW n \in Node, NEW levels \in BOOLEAN, Play(n, levels)
  PROVE  OnePlace'
<1>1. Playing(n)
  BY HasCopy DEF Play
<1>2. Copies(n) \in Seq(Copy) /\ Len(Copies(n)) = 1 /\ Copies(n)[1] \in Copy /\ newest + 1 \in Nat
  BY <1>1, CopyType DEF Inv, TypeOK, Copies, Copy, Playing
<1>3. /\ Copies(n)' = [Copies(n) EXCEPT ![1].data = newest + 1]
      /\ \A m \in Node : m # n => Copies(m)' = Copies(m)
      /\ newest' = newest + 1
      /\ UNCHANGED <<player, world, toNode>>
  BY DEF Inv, TypeOK, Copies, Play
<1>4. Len(Copies(n)') = 1 /\ Copies(n)'[1].data = newest + 1
  <2>1. [Copies(n)[1] EXCEPT !.data = newest + 1] \in Copy
    BY <1>2 DEF Copy
  <2>2. /\ Len(Copies(n)') = 1
        /\ Copies(n)'[1] = [Copies(n)[1] EXCEPT !.data = newest + 1]
    BY <1>2, <1>3, <2>1, ExceptSeq
  <2> QED
    BY <1>2, <2>2 DEF Copy
<1> DEFINE messages == IF levels THEN <<CharacterData(newest + 1)>> ELSE <<>>
<1>5. /\ messages \in Seq(MessageToRealm) /\ SendToRealm(n, messages)
      /\ \A i \in 1 .. Len(messages) : messages[i].type = "CharacterData"
  <2>1. CharacterData(newest + 1) \in MessageToRealm
    BY <1>2 DEF CharacterData, MessageToRealm
  <2>2. SendToRealm(n, messages)
    BY DEF Play
  <2> QED
    BY <2>1, <2>2 DEF CharacterData
<1> HIDE DEF messages
<1> QED
  BY <1>1, <1>3, <1>4, <1>5, PlaysOn

-----------------------------------------------------------------------------
(* The invariant, and what it says of the character. *)

(* As long as nothing was cut off, nothing has been. *)
LEMMA MishapsRemain ==
  ASSUME Inv, [Next]_vars
  PROVE  mishaps' \in {mishaps, mishaps + 1}
BY DEF Next, Client, RealmHandles, NodeHandles, vars, LoginSucceeded, HandlePlayerLogin,
   ConnectionLost, ConnectionMalformedPacket, RedirectPacket, WebTeleport, HandleMoveWorldPortAck,
   HandleWorldInstanceEntered, HandleCharacterData, HandleTeleportRequest, HandleWorldInstanceLeft,
   HandleCharacterLogin, HandleLeaveWorldInstance, HandleProxyPacket, OnLogout, OnTeleport, Play,
   LinkLost, SendsWithoutLink, Reconnect, Mishap

(* The character starts at home. *)
LEMMA InitStage == Init => StageInv
BY DEF Init, StageInv, OnePlace, Home, Absent, Copies, NoLogIn, Stored, NoPlayer

(* Every step keeps the character in one place. *)
LEMMA StepStage == Inv /\ StageInv /\ [Next]_vars => StageInv'
<1> SUFFICES ASSUME Inv, StageInv, [Next]_vars, mishaps' = 0 PROVE OnePlace'
  BY DEF StageInv
<1>1. mishaps \in Nat /\ mishaps' = mishaps
  BY MishapsRemain DEF Inv, TypeOK
<1>2. OnePlace
  BY <1>1 DEF StageInv
<1>3. CASE Client
  BY <1>1, <1>2, <1>3, LoginSucceededPlace, HandlePlayerLoginPlace, ConnectionLostPlace,
     MalformedPlace, RedirectPacketPlace, WebTeleportPlace, PortAckPlace DEF Client, Packet
<1>4. CASE \E n \in Node : RealmHandles(n)
  BY <1>2, <1>4, EnteredPlace, CharacterDataPlace, TeleportRequestPlace, LeftPlace DEF RealmHandles
<1>5. CASE \E n \in Node : NodeHandles(n)
  BY <1>2, <1>5, CharacterLoginPlace, LeavePlace, ProxyPacketPlace DEF NodeHandles
<1>6. CASE \E n \in Node : \/ \E i \in DOMAIN Copies(n) : OnLogout(n, i)
                           \/ \E map \in Node : OnTeleport(n, map)
                           \/ \E levels \in BOOLEAN : Play(n, levels)
  BY <1>2, <1>6, OnLogoutPlace, OnTeleportPlace, PlayPlace
<1>7. ~(\E n \in Node : LinkLost(n) \/ SendsWithoutLink(n) \/ Reconnect(n))
  BY <1>1, <1>2 DEF LinkLost, SendsWithoutLink, Reconnect, Mishap, OnePlace
<1>8. CASE UNCHANGED vars
  <2>1. player'.data = player.data /\ player'.watch = player.watch
        /\ player'.worldNode = player.worldNode /\ player'.newWorld = player.newWorld
        /\ UNCHANGED <<toNode, saved, world, node, toRealm, newest>>
    BY <1>8 DEF vars
  <2> QED
    BY <1>2, <2>1, SendsNothing, StaysThere
<1> QED
  BY <1>3, <1>4, <1>5, <1>6, <1>7, <1>8 DEF Next

(* The stage has what the next node or login gets. *)
LEMMA StageKeepsProgress == Inv /\ StageInv => ProgressKept
<1> SUFFICES ASSUME Inv, OnePlace
             PROVE  /\ \A n \in Node : \A i \in LogInsTo(n) : toNode[n][i].data = newest
                    /\ (\A n \in Node : Copies(n) = <<>> /\ ~InFlight("CharacterData", n)) =>
                          saved.data = newest /\ player.data \in {NoData, newest}
  BY DEF StageInv, ProgressKept
<1>1. ASSUME NEW n \in Node, NEW i \in LogInsTo(n) PROVE toNode[n][i].data = newest
  <2>1. i \in DOMAIN toNode[n] /\ toNode[n][i].type = "CharacterLogIn"
    BY DEF LogInsTo
  <2>2. Sent(n)
    BY <2>1, HasLogIn DEF NoLogIn
  <2> QED
    BY <2>1, <2>2 DEF Sent, OneLogIn, CharacterLogIn
<1>2. ASSUME \A n \in Node : Copies(n) = <<>> /\ ~InFlight("CharacterData", n)
      PROVE  saved.data = newest /\ player.data \in {NoData, newest}
  <2>1. \A n \in Node : ~Playing(n)
    BY <1>2 DEF Playing, Inv, TypeOK, Copies
  <2>2. ASSUME NEW n \in Node, Leaving(n) PROVE Len(toRealm[n]) = 1
    <3>1. toRealm[n] \in Seq(MessageToRealm) /\ Len(toRealm[n]) \in Nat
          /\ DOMAIN toRealm[n] = 1 .. Len(toRealm[n])
      BY DEF Inv, MessagesOK
    <3>2. Len(toRealm[n]) # 0
          /\ (Len(toRealm[n]) > 1 => toRealm[n][Len(toRealm[n]) - 1] = CharacterData(newest))
      BY <2>2 DEF Leaving, Farewell
    <3>3. ASSUME Len(toRealm[n]) > 1 PROVE FALSE
      <4>1. Len(toRealm[n]) - 1 \in DOMAIN toRealm[n]
        BY <3>1, <3>3
      <4>2. toRealm[n][Len(toRealm[n]) - 1].type = "CharacterData"
        BY <3>2, <3>3 DEF CharacterData
      <4> QED
        BY <1>2, <4>1, <4>2 DEF InFlight
    <3>4. PICK k \in Nat : Len(toRealm[n]) = k
      BY <3>1
    <3>5. k # 0 /\ ~(k > 1)
      BY <3>2, <3>3, <3>4
    <3> QED
      BY <3>4, <3>5
  <2>3. \A n \in Node : Leaving(n) => Stored /\ player.data = newest
    BY <2>2 DEF Leaving
  <2> QED
    BY <2>1, <2>3 DEF OnePlace, Home, Sent, Stored
<1> QED
  BY <1>1, <1>2

(* The stage is what realm and nodes agree on. *)
LEMMA StageAgrees == Inv /\ StageInv => NodesAgree
<1> SUFFICES ASSUME Inv, OnePlace, Quiet, NEW n \in Node
             PROVE  Len(Copies(n)) =
                      IF player.watch = "entered" /\ player.worldNode = n THEN 1 ELSE 0
  BY DEF StageInv, NodesAgree
<1>1. \A m \in Node : ~Sent(m) /\ ~Leaving(m)
  BY DEF Quiet, Sent, OneLogIn, Leaving, Farewell
<1>2. CASE Home
  BY <1>2 DEF Home, Absent
<1>3. ASSUME NEW m \in Node, Playing(m)
      PROVE  Len(Copies(n)) = IF player.watch = "entered" /\ player.worldNode = n THEN 1 ELSE 0
  <2>1. player.watch = "entered" /\ player.worldNode = m
    BY <1>3 DEF Playing, Arrived, Quiet
  <2>2. m # n => Copies(n) = <<>>
    BY <1>3 DEF Playing, NobodyBut, Absent
  <2> QED
    BY <1>3, <2>1, <2>2 DEF Playing
<1> QED
  BY <1>1, <1>2, <1>3 DEF OnePlace

(* Whoever gets the character next, by login or transfer, gets what was played
   last, as long as no session or link was cut off (onDespawn saves before
   worldInstanceLeft is sent, player.cpp). *)
THEOREM ProgressIsKept == Spec => []ProgressKept
<1> QED
  BY InitInv, StepInv, InitStage, StepStage, StageKeepsProgress, PTL DEF Spec

-----------------------------------------------------------------------------
(* How many of one kind there are in a queue. *)

Positions(queue, type) == {i \in DOMAIN queue : queue[i].type = type}

(* Moved positions are as many. *)
LEMMA Shifted ==
  ASSUME NEW P \in SUBSET Int, IsFiniteSet(P), NEW c \in Int,
         NEW Q \in SUBSET Int, \A i \in P : i + c \in Q, \A i \in Q : i - c \in P
  PROVE  IsFiniteSet(Q) /\ Cardinality(Q) = Cardinality(P)
<1> DEFINE f == [i \in P |-> i + c]
<1>1. f \in Bijection(P, Q)
  <2>1. f \in [P -> Q]
    OBVIOUS
  <2>2. \A i, j \in P : f[i] = f[j] => i = j
    <3>1. \A i, j \in Int : i + c = j + c => i = j
      OBVIOUS
    <3> QED
      BY <3>1
  <2>3. \A x \in Q : \E i \in P : f[i] = x
    <3>1. \A x \in Q : x - c \in P /\ (x - c) + c = x
      OBVIOUS
    <3> QED
      BY <3>1
  <2> HIDE DEF f
  <2> QED
    BY <2>1, <2>2, <2>3 DEF Bijection, Injection, Surjection, IsInjective
<1> QED
  BY <1>1, FS_Bijection DEF ExistsBijection

(* There are only so many. *)
LEMMA PositionsFinite ==
  ASSUME NEW S, NEW q \in Seq(S), NEW type
  PROVE  /\ Positions(q, type) \in SUBSET Nat /\ IsFiniteSet(Positions(q, type))
         /\ Cardinality(Positions(q, type)) \in Nat
<1>1. Len(q) \in Nat /\ Positions(q, type) \subseteq 1 .. Len(q)
  BY DEF Positions
<1>2. IsFiniteSet(1 .. Len(q))
  BY <1>1, FS_Interval
<1> QED
  BY <1>1, <1>2, FS_Subset, FS_CardinalityType

(* Those of a queue and of what is appended to it. *)
LEMMA PositionsConcat ==
  ASSUME NEW S, NEW q \in Seq(S), NEW r \in Seq(S), NEW type
  PROVE  Cardinality(Positions(q \o r, type))
           = Cardinality(Positions(q, type)) + Cardinality(Positions(r, type))
<1> DEFINE P == Positions(q, type)  R == Positions(r, type)
           M == {i + Len(q) : i \in R}
<1>1. /\ Len(q) \in Nat /\ Len(r) \in Nat
      /\ DOMAIN q = 1 .. Len(q) /\ DOMAIN r = 1 .. Len(r)
  OBVIOUS
<1>2. /\ q \o r \in Seq(S) /\ DOMAIN (q \o r) = 1 .. Len(q) + Len(r)
      /\ \A i \in 1 .. Len(q) + Len(r) :
           (q \o r)[i] = IF i <= Len(q) THEN q[i] ELSE r[i - Len(q)]
  BY ConcatProperties
<1>3. /\ P \in SUBSET Int /\ IsFiniteSet(P) /\ Cardinality(P) \in Nat
      /\ R \in SUBSET Int /\ IsFiniteSet(R) /\ Cardinality(R) \in Nat
  BY PositionsFinite
<1>4. IsFiniteSet(M) /\ Cardinality(M) = Cardinality(R)
  <2>1. R \in SUBSET Int /\ IsFiniteSet(R) /\ Len(q) \in Int /\ M \in SUBSET Int
    BY <1>1, <1>3
  <2>2. (\A i \in R : i + Len(q) \in M) /\ (\A i \in M : i - Len(q) \in R)
    <3> HIDE DEF R
    <3> QED
      BY <2>1
  <2> HIDE DEF R, M
  <2> QED
    BY <2>1, <2>2, Shifted
<1>5. P \cap M = {}
  BY <1>1 DEF Positions
<1>6. Positions(q \o r, type) = P \cup M
  <2>1. ASSUME NEW i \in Positions(q \o r, type) PROVE i \in P \cup M
    <3>1. i \in 1 .. Len(q) + Len(r) /\ (q \o r)[i].type = type
      BY <1>2 DEF Positions
    <3>2. CASE i <= Len(q)
      BY <1>1, <1>2, <3>1, <3>2 DEF Positions
    <3>3. CASE ~(i <= Len(q))
      <4>1. i - Len(q) \in R
        BY <1>1, <1>2, <3>1, <3>3 DEF Positions
      <4>2. (i - Len(q)) + Len(q) = i
        BY <1>1, <3>1
      <4> QED
        BY <4>1, <4>2
    <3> QED
      BY <3>2, <3>3
  <2>2. ASSUME NEW i \in P PROVE i \in Positions(q \o r, type)
    BY <1>1, <1>2 DEF Positions
  <2>3. ASSUME NEW i \in R PROVE i + Len(q) \in Positions(q \o r, type)
    <3>1. /\ i + Len(q) \in 1 .. Len(q) + Len(r) /\ ~(i + Len(q) <= Len(q))
          /\ (i + Len(q)) - Len(q) = i /\ r[i].type = type
      BY <1>1 DEF Positions
    <3> QED
      BY <1>2, <3>1 DEF Positions
  <2> QED
    BY <2>1, <2>2, <2>3
<1> HIDE DEF P, R, M
<1>7. Cardinality(P \cup M) = Cardinality(P) + Cardinality(M) - Cardinality(P \cap M)
  BY <1>3, <1>4, FS_Union
<1> QED
  <2>1. Cardinality(P \cap M) = 0
    BY <1>5, FS_EmptySet
  <2>2. Cardinality(P \cup M) = Cardinality(P) + Cardinality(R)
    BY <1>3, <1>4, <1>7, <2>1
  <2> QED
    BY <1>6, <2>2 DEF P, R

(* One message counts for itself. *)
LEMMA PositionsOne ==
  ASSUME NEW message, NEW type
  PROVE  Cardinality(Positions(<<message>>, type)) = IF message.type = type THEN 1 ELSE 0
<1>1. Positions(<<message>>, type) = IF message.type = type THEN {1} ELSE {}
  BY DEF Positions
<1> QED
  BY <1>1, FS_EmptySet, FS_Singleton

(* The first message is no longer there. *)
LEMMA PositionsTail ==
  ASSUME NEW S, NEW q \in Seq(S), q # <<>>, NEW type
  PROVE  Cardinality(Positions(Tail(q), type))
           = Cardinality(Positions(q, type)) - (IF Head(q).type = type THEN 1 ELSE 0)
<1>1. Head(q) \in S /\ Tail(q) \in Seq(S) /\ q = <<Head(q)>> \o Tail(q)
  <2>1. Head(q) \in S /\ Tail(q) \in Seq(S) /\ Len(Tail(q)) = Len(q) - 1
        /\ \A i \in 1 .. Len(Tail(q)) : Tail(q)[i] = q[i + 1]
    BY HeadTailProperties
  <2>2. <<Head(q)>> \in Seq(S) /\ Len(<<Head(q)>>) = 1 /\ <<Head(q)>>[1] = Head(q)
    BY <2>1
  <2>3. /\ <<Head(q)>> \o Tail(q) \in Seq(S)
        /\ Len(<<Head(q)>> \o Tail(q)) = 1 + (Len(q) - 1)
        /\ \A i \in 1 .. 1 + (Len(q) - 1) :
             (<<Head(q)>> \o Tail(q))[i] = IF i <= 1 THEN <<Head(q)>>[i] ELSE Tail(q)[i - 1]
    BY <2>1, <2>2, ConcatProperties
  <2>4. Len(q) \in Nat \ {0} /\ q[1] = Head(q)
    OBVIOUS
  <2>5. \A i \in 1 .. Len(q) : q[i] = (<<Head(q)>> \o Tail(q))[i]
    <3> SUFFICES ASSUME NEW i \in 1 .. Len(q) PROVE q[i] = (<<Head(q)>> \o Tail(q))[i]
      OBVIOUS
    <3>1. CASE i = 1
      BY <2>2, <2>3, <2>4, <3>1
    <3>2. CASE i # 1
      <4>1. i - 1 \in 1 .. Len(Tail(q)) /\ (i - 1) + 1 = i /\ ~(i <= 1)
        BY <2>1, <2>4, <3>2
      <4> QED
        BY <2>1, <2>3, <2>4, <4>1
    <3> QED
      BY <3>1, <3>2
  <2> QED
    BY <2>1, <2>3, <2>4, <2>5, SeqEqual
<1>2. <<Head(q)>> \in Seq(S)
  BY <1>1
<1>3. Cardinality(Positions(q, type))
        = Cardinality(Positions(<<Head(q)>>, type)) + Cardinality(Positions(Tail(q), type))
  BY <1>1, <1>2, PositionsConcat
<1>4. Cardinality(Positions(Tail(q), type)) \in Nat
  BY <1>1, PositionsFinite
<1> QED
  BY <1>3, <1>4, PositionsOne

-----------------------------------------------------------------------------
(* The places where the character is, gets or has just left. *)

\* Those of a node with these copies and these messages to it and from it.
Marks(n, copies, to, from) ==
  ({<<"in", n>>} \X DOMAIN copies)
    \union ({<<"to", n>>} \X Positions(to, "CharacterLogIn"))
    \union ({<<"from", n>>} \X Positions(from, "WorldInstanceLeft"))
Number(copies, to, from) ==
  Len(copies) + Cardinality(Positions(to, "CharacterLogIn"))
    + Cardinality(Positions(from, "WorldInstanceLeft"))

At(n) == Marks(n, Copies(n), toNode[n], toRealm[n])
NumberAt(n) == Number(Copies(n), toNode[n], toRealm[n])
Tokens == UNION {At(n) : n \in Node}

Flag(b) == IF b THEN 1 ELSE 0

(* Each session that is cut off and each lost link allows for one place more; a
   Player with a character allows for one, which the client may be asked to
   go to. *)
Budget ==
  /\ IsFiniteSet(Tokens)
  /\ Cardinality(Tokens) + Flag(player.newWorld) <= mishaps + Flag(player.data # NoData)

(* Marked elements are as many. *)
LEMMA Marked ==
  ASSUME NEW x, NEW P, IsFiniteSet(P)
  PROVE  IsFiniteSet({x} \X P) /\ Cardinality({x} \X P) = Cardinality(P)
<1>1. IsFiniteSet({x}) /\ Cardinality({x}) = 1 /\ Cardinality(P) \in Nat
  BY FS_Singleton, FS_CardinalityType
<1>2. IsFiniteSet({x} \X P) /\ Cardinality({x} \X P) = Cardinality({x}) * Cardinality(P)
  BY <1>1, FS_Product
<1> QED
  BY <1>1, <1>2

(* Two sets without a common element. *)
LEMMA Disjoint ==
  ASSUME NEW P, NEW Q, IsFiniteSet(P), IsFiniteSet(Q), P \cap Q = {}
  PROVE  IsFiniteSet(P \cup Q) /\ Cardinality(P \cup Q) = Cardinality(P) + Cardinality(Q)
<1>1. /\ IsFiniteSet(P \cup Q)
      /\ Cardinality(P \cup Q) = Cardinality(P) + Cardinality(Q) - Cardinality(P \cap Q)
  BY FS_Union
<1>2. Cardinality(P) \in Nat /\ Cardinality(Q) \in Nat /\ Cardinality(P \cap Q) = 0
  BY FS_CardinalityType, FS_EmptySet
<1> QED
  BY <1>1, <1>2

(* The tokens of one node. *)
LEMMA MarksCounted ==
  ASSUME NEW n, NEW S, NEW copies \in Seq(S), NEW to \in Seq(MessageToNode),
         NEW from \in Seq(MessageToRealm)
  PROVE  /\ IsFiniteSet(Marks(n, copies, to, from))
         /\ Cardinality(Marks(n, copies, to, from)) = Number(copies, to, from)
         /\ Number(copies, to, from) \in Nat
<1> DEFINE I == {<<"in", n>>} \X DOMAIN copies
           T == {<<"to", n>>} \X Positions(to, "CharacterLogIn")
           F == {<<"from", n>>} \X Positions(from, "WorldInstanceLeft")
<1>1. /\ IsFiniteSet(DOMAIN copies) /\ Cardinality(DOMAIN copies) = Len(copies)
      /\ Len(copies) \in Nat
  <2>1. Len(copies) \in Nat /\ DOMAIN copies = 1 .. Len(copies)
    OBVIOUS
  <2>2. IsFiniteSet(1 .. Len(copies))
        /\ Cardinality(1 .. Len(copies)) = IF 1 > Len(copies) THEN 0 ELSE Len(copies) - 1 + 1
    <3>1. 1 \in Int /\ Len(copies) \in Int
      BY <2>1
    <3> QED
      BY <3>1, FS_Interval
  <2> QED
    BY <2>1, <2>2
<1>2. /\ IsFiniteSet(Positions(to, "CharacterLogIn"))
      /\ Cardinality(Positions(to, "CharacterLogIn")) \in Nat
  BY PositionsFinite
<1>3. /\ IsFiniteSet(Positions(from, "WorldInstanceLeft"))
      /\ Cardinality(Positions(from, "WorldInstanceLeft")) \in Nat
  BY PositionsFinite
<1>4. IsFiniteSet(I) /\ Cardinality(I) = Len(copies)
  BY <1>1, Marked
<1>5. IsFiniteSet(T) /\ Cardinality(T) = Cardinality(Positions(to, "CharacterLogIn"))
  BY <1>2, Marked
<1>6. IsFiniteSet(F) /\ Cardinality(F) = Cardinality(Positions(from, "WorldInstanceLeft"))
  BY <1>3, Marked
<1>7. I \cap T = {} /\ (I \cup T) \cap F = {}
  OBVIOUS
<1>8. Marks(n, copies, to, from) = (I \cup T) \cup F
  BY DEF Marks
<1> HIDE DEF I, T, F
<1>9. IsFiniteSet(I \cup T) /\ Cardinality(I \cup T) = Cardinality(I) + Cardinality(T)
  BY <1>4, <1>5, <1>7, Disjoint
<1>10. IsFiniteSet((I \cup T) \cup F)
       /\ Cardinality((I \cup T) \cup F) = Cardinality(I \cup T) + Cardinality(F)
  BY <1>6, <1>7, <1>9, Disjoint
<1> QED
  BY <1>1, <1>2, <1>3, <1>4, <1>5, <1>6, <1>8, <1>9, <1>10 DEF Number

(* A step at one node changes the number by what changes there. *)
LEMMA TokensMove ==
  ASSUME Inv, Inv', NEW n \in Node, IsFiniteSet(Tokens),
         \A m \in Node : m # n => At(m)' = At(m)
  PROVE  /\ IsFiniteSet(Tokens') /\ Cardinality(Tokens) \in Nat
         /\ NumberAt(n) \in Nat /\ NumberAt(n)' \in Nat
         /\ Cardinality(Tokens') = Cardinality(Tokens) - NumberAt(n) + NumberAt(n)'
<1> DEFINE Elsewhere == UNION {At(m) : m \in Node \ {n}}
<1>1. Tokens = Elsewhere \cup At(n)
  BY DEF Tokens
<1>2. Tokens' = Elsewhere \cup At(n)'
  BY DEF Tokens
<1>3. Elsewhere \cap At(n) = {} /\ Elsewhere \cap At(n)' = {}
  BY DEF At, Marks
<1>4. IsFiniteSet(At(n)) /\ Cardinality(At(n)) = NumberAt(n) /\ NumberAt(n) \in Nat
  <2>1. /\ Copies(n) \in Seq([data : Nat, logout : BOOLEAN])
        /\ toNode[n] \in Seq(MessageToNode) /\ toRealm[n] \in Seq(MessageToRealm)
    BY DEF Inv, TypeOK, MessagesOK, Copies
  <2> QED
    BY <2>1, MarksCounted DEF At, NumberAt
<1>5. IsFiniteSet(At(n)') /\ Cardinality(At(n)') = NumberAt(n)' /\ NumberAt(n)' \in Nat
  <2>1. /\ Copies(n)' \in Seq([data : Nat, logout : BOOLEAN])
        /\ toNode'[n] \in Seq(MessageToNode) /\ toRealm'[n] \in Seq(MessageToRealm)
    BY DEF Inv, TypeOK, MessagesOK, Copies
  <2> QED
    BY <2>1, MarksCounted DEF At, NumberAt
<1> HIDE DEF Elsewhere
<1>6. IsFiniteSet(Elsewhere) /\ Cardinality(Elsewhere) \in Nat
  BY <1>1, FS_Subset, FS_CardinalityType
<1>7. Cardinality(Tokens) = Cardinality(Elsewhere) + NumberAt(n)
  BY <1>1, <1>3, <1>4, <1>6, Disjoint
<1>8. IsFiniteSet(Tokens') /\ Cardinality(Tokens') = Cardinality(Elsewhere) + NumberAt(n)'
  BY <1>2, <1>3, <1>5, <1>6, Disjoint
<1> QED
  BY <1>4, <1>5, <1>6, <1>7, <1>8

ToCount(n) == Cardinality(Positions(toNode[n], "CharacterLogIn"))
FromCount(n) == Cardinality(Positions(toRealm[n], "WorldInstanceLeft"))

(* The number at a node, by what it is made of. *)
LEMMA Counts ==
  ASSUME Inv, NEW n \in Node
  PROVE  /\ NumberAt(n) = Len(Copies(n)) + ToCount(n) + FromCount(n)
         /\ Len(Copies(n)) \in Nat /\ ToCount(n) \in Nat /\ FromCount(n) \in Nat
<1>1. Len(Copies(n)) \in Nat
  BY DEF Inv, TypeOK, Copies
<1>2. ToCount(n) \in Nat /\ FromCount(n) \in Nat
  BY PositionsFinite DEF Inv, MessagesOK, ToCount, FromCount
<1> QED
  BY <1>1, <1>2 DEF NumberAt, Number, ToCount, FromCount

(* A message to a node. *)
LEMMA SendCounts ==
  ASSUME Inv, NEW n \in Node, NEW message \in MessageToNode, SendToNode(n, message)
  PROVE  /\ ToCount(n)' = ToCount(n) + (IF message.type = "CharacterLogIn" THEN 1 ELSE 0)
         /\ \A m \in Node : m # n => toNode'[m] = toNode[m]
<1> DEFINE q == toNode[n]
<1>1. q \in Seq(MessageToNode) /\ toNode'[n] = Append(q, message)
      /\ \A m \in Node : m # n => toNode'[m] = toNode[m]
  BY DEF Inv, MessagesOK, SendToNode
<1>2. Append(q, message) = q \o <<message>> /\ <<message>> \in Seq(MessageToNode)
  BY <1>1, AppendIsConcat
<1> HIDE DEF q
<1>3. Cardinality(Positions(q \o <<message>>, "CharacterLogIn"))
        = Cardinality(Positions(q, "CharacterLogIn"))
            + Cardinality(Positions(<<message>>, "CharacterLogIn"))
  BY <1>1, <1>2, PositionsConcat
<1> QED
  BY <1>1, <1>2, <1>3, PositionsOne DEF ToCount, q

(* A message that a node receives. *)
LEMMA ReceiveCounts ==
  ASSUME Inv, NEW n \in Node, NEW type, NodeReceives(n, type)
  PROVE  /\ ToCount(n)' = ToCount(n) - (IF type = "CharacterLogIn" THEN 1 ELSE 0)
         /\ \A m \in Node : m # n => toNode'[m] = toNode[m]
<1>1. /\ toNode[n] \in Seq(MessageToNode) /\ toNode[n] # <<>> /\ Head(toNode[n]).type = type
      /\ toNode'[n] = Tail(toNode[n])
      /\ \A m \in Node : m # n => toNode'[m] = toNode[m]
  BY DEF Inv, MessagesOK, NodeReceives
<1> QED
  BY <1>1, PositionsTail DEF ToCount

(* A message that the realm receives. *)
LEMMA HeardCounts ==
  ASSUME Inv, NEW n \in Node, NEW type, RealmReceives(n, type)
  PROVE  /\ FromCount(n)' = FromCount(n) - (IF type = "WorldInstanceLeft" THEN 1 ELSE 0)
         /\ \A m \in Node : m # n => toRealm'[m] = toRealm[m]
<1>1. /\ toRealm[n] \in Seq(MessageToRealm) /\ toRealm[n] # <<>> /\ Head(toRealm[n]).type = type
      /\ toRealm'[n] = Tail(toRealm[n])
      /\ \A m \in Node : m # n => toRealm'[m] = toRealm[m]
  BY DEF Inv, MessagesOK, RealmReceives
<1> QED
  BY <1>1, PositionsTail DEF FromCount

(* Messages to the realm. *)
LEMMA SaidCounts ==
  ASSUME Inv, NEW n \in Node, NEW messages \in Seq(MessageToRealm), SendToRealm(n, messages)
  PROVE  /\ FromCount(n)' = FromCount(n) + Cardinality(Positions(messages, "WorldInstanceLeft"))
         /\ \A m \in Node : m # n => toRealm'[m] = toRealm[m]
<1>1. /\ toRealm[n] \in Seq(MessageToRealm) /\ toRealm'[n] = toRealm[n] \o messages
      /\ \A m \in Node : m # n => toRealm'[m] = toRealm[m]
  BY DEF Inv, MessagesOK, SendToRealm
<1> QED
  BY <1>1, PositionsConcat DEF FromCount

(* The last words hold one farewell. *)
LEMMA LastWordsCount ==
  ASSUME NEW copy, NEW reason
  PROVE  Cardinality(Positions(LastWords(copy, reason), "WorldInstanceLeft")) = 1
<1>1. Positions(LastWords(copy, reason), "WorldInstanceLeft") = {2}
  BY DEF Positions, LastWords, CharacterData, WorldInstanceLeft
<1> QED
  BY <1>1, FS_Singleton

(* A removed copy is one less. *)
LEMMA RemoveCounts ==
  ASSUME Inv, NEW n \in Node, NEW i \in 1 .. Len(Copies(n)), RemoveCopy(n, i)
  PROVE  /\ Len(Copies(n)') = Len(Copies(n)) - 1
         /\ \A m \in Node : m # n => Copies(m)' = Copies(m)
<1> DEFINE q == Copies(n)
<1>1. q \in Seq(Copy) /\ Len(q) \in Nat
  BY DEF Inv, TypeOK, Copies, Copy
<1>2. /\ Copies(n)' = RemoveAt(q, i)
      /\ \A m \in Node : m # n => Copies(m)' = Copies(m)
  BY DEF Inv, TypeOK, Copies, RemoveCopy
<1> HIDE DEF q
<1>3. i \in 1 .. Len(q) /\ i - 1 \in Int /\ i + 1 \in Int
  BY <1>1 DEF q
<1>4. SubSeq(q, 1, i - 1) \in Seq(Copy) /\ Len(SubSeq(q, 1, i - 1)) = i - 1
  <2>1. \A j \in 1 .. i - 1 : q[j] \in Copy
    BY <1>1, <1>3
  <2>2. Len(SubSeq(q, 1, i - 1)) = IF 1 <= i - 1 THEN (i - 1) - 1 + 1 ELSE 0
    BY <1>3, <2>1, SubSeqProperties
  <2>3. SubSeq(q, 1, i - 1) \in Seq(Copy)
    BY <1>3, <2>1, SubSeqProperties
  <2> QED
    BY <1>1, <1>3, <2>2, <2>3
<1>5. SubSeq(q, i + 1, Len(q)) \in Seq(Copy) /\ Len(SubSeq(q, i + 1, Len(q))) = Len(q) - i
  <2>1. \A j \in i + 1 .. Len(q) : q[j] \in Copy
    BY <1>1, <1>3
  <2>2. Len(SubSeq(q, i + 1, Len(q))) = IF i + 1 <= Len(q) THEN Len(q) - (i + 1) + 1 ELSE 0
    BY <1>1, <1>3, <2>1, SubSeqProperties
  <2>3. SubSeq(q, i + 1, Len(q)) \in Seq(Copy)
    BY <1>1, <1>3, <2>1, SubSeqProperties
  <2> QED
    BY <1>1, <1>3, <2>2, <2>3
<1>6. Len(RemoveAt(q, i)) = (i - 1) + (Len(q) - i)
  <2> DEFINE a == SubSeq(q, 1, i - 1)  b == SubSeq(q, i + 1, Len(q))
  <2>1. RemoveAt(q, i) = a \o b /\ a \in Seq(Copy) /\ b \in Seq(Copy)
        /\ Len(a) = i - 1 /\ Len(b) = Len(q) - i
    BY <1>4, <1>5 DEF RemoveAt
  <2> HIDE DEF a, b
  <2> QED
    <3>1. Len(a \o b) = Len(a) + Len(b)
      BY <2>1, ConcatProperties
    <3> QED
      BY <2>1, <3>1
<1>7. Len(RemoveAt(q, i)) = Len(q) - 1
  BY <1>1, <1>3, <1>6
<1> QED
  BY <1>2, <1>7 DEF q

-----------------------------------------------------------------------------
(* Steps within the budget. *)

(* What may change at one node, on the realm's side and in the history. *)
LEMMA BudgetStep ==
  ASSUME Inv, Inv', Budget, NEW n \in Node,
         \A m \in Node : m # n => /\ Copies(m)' = Copies(m)
                                 /\ toNode'[m] = toNode[m] /\ toRealm'[m] = toRealm[m],
         NumberAt(n)' + Flag(player'.newWorld) + mishaps + Flag(player.data # NoData)
           <= NumberAt(n) + Flag(player.newWorld) + mishaps' + Flag(player'.data # NoData)
  PROVE  Budget'
<1>1. \A m \in Node : m # n => At(m)' = At(m)
  BY DEF At
<1>2. /\ IsFiniteSet(Tokens') /\ Cardinality(Tokens) \in Nat
      /\ NumberAt(n) \in Nat /\ NumberAt(n)' \in Nat
      /\ Cardinality(Tokens') = Cardinality(Tokens) - NumberAt(n) + NumberAt(n)'
  BY <1>1, TokensMove DEF Budget
<1>3. /\ Flag(player.newWorld) \in Nat /\ Flag(player'.newWorld) \in Nat
      /\ Flag(player.data # NoData) \in Nat /\ Flag(player'.data # NoData) \in Nat
      /\ mishaps \in Nat /\ mishaps' \in Nat
  BY DEF Flag, Inv, TypeOK
<1>4. Cardinality(Tokens) + Flag(player.newWorld) <= mishaps + Flag(player.data # NoData)
  BY DEF Budget
<1>5. Cardinality(Tokens') + Flag(player'.newWorld) <= mishaps' + Flag(player'.data # NoData)
  BY <1>2, <1>3, <1>4
<1> QED
  BY <1>2, <1>5 DEF Budget

(* A step the realm's side takes no part in. *)
LEMMA NodeBudget ==
  ASSUME Inv, Inv', Budget, NEW n \in Node, UNCHANGED <<player, mishaps>>,
         \A m \in Node : m # n => Copies(m)' = Copies(m),
         \A m \in Node : m # n => toNode'[m] = toNode[m],
         \A m \in Node : m # n => toRealm'[m] = toRealm[m],
         Len(Copies(n)') + ToCount(n)' + FromCount(n)'
           <= Len(Copies(n)) + ToCount(n) + FromCount(n)
  PROVE  Budget'
<1>1. NumberAt(n) = Len(Copies(n)) + ToCount(n) + FromCount(n) /\ NumberAt(n) \in Nat
  BY Counts
<1>2. NumberAt(n)' = Len(Copies(n)') + ToCount(n)' + FromCount(n)'
  BY DEF NumberAt, Number, ToCount, FromCount, Copies
<1>3. NumberAt(n)' \in Nat
  <2>1. /\ Copies(n)' \in Seq([data : Nat, logout : BOOLEAN])
        /\ toNode'[n] \in Seq(MessageToNode) /\ toRealm'[n] \in Seq(MessageToRealm)
    BY DEF Inv, TypeOK, MessagesOK, Copies
  <2> QED
    BY <2>1, MarksCounted DEF NumberAt
<1>4. Flag(player.newWorld) \in Nat /\ Flag(player.data # NoData) \in Nat /\ mishaps \in Nat
  BY DEF Flag, Inv, TypeOK
<1> QED
  BY <1>1, <1>2, <1>3, <1>4, BudgetStep

(* A step that moves nothing at any node. *)
LEMMA PlayerBudget ==
  ASSUME Inv, Inv', Budget, UNCHANGED <<node, toRealm>>, NEW n \in Node,
         \A m \in Node : m # n => toNode'[m] = toNode[m],
         ToCount(n)' + Flag(player'.newWorld) + mishaps + Flag(player.data # NoData)
           <= ToCount(n) + Flag(player.newWorld) + mishaps' + Flag(player'.data # NoData)
  PROVE  Budget'
<1>1. NumberAt(n) = Len(Copies(n)) + ToCount(n) + FromCount(n)
      /\ Len(Copies(n)) \in Nat /\ ToCount(n) \in Nat /\ FromCount(n) \in Nat
  BY Counts
<1>2. NumberAt(n)' = Len(Copies(n)) + ToCount(n)' + FromCount(n)
  BY DEF NumberAt, Number, ToCount, FromCount, Copies
<1>3. ToCount(n)' \in Nat
  BY PositionsFinite DEF Inv, MessagesOK, ToCount
<1>4. /\ Flag(player.newWorld) \in Nat /\ Flag(player'.newWorld) \in Nat
      /\ Flag(player.data # NoData) \in Nat /\ Flag(player'.data # NoData) \in Nat
      /\ mishaps \in Nat /\ mishaps' \in Nat
  BY DEF Flag, Inv, TypeOK
<1>5. \A m \in Node : Copies(m)' = Copies(m) /\ toRealm'[m] = toRealm[m]
  BY DEF Copies
<1>6. NumberAt(n)' + Flag(player'.newWorld) + mishaps + Flag(player.data # NoData)
           <= NumberAt(n) + Flag(player.newWorld) + mishaps' + Flag(player'.data # NoData)
  <2>1. ToCount(n)' + Flag(player'.newWorld) + mishaps + Flag(player.data # NoData)
           <= ToCount(n) + Flag(player.newWorld) + mishaps' + Flag(player'.data # NoData)
    OBVIOUS
  <2>2. PICK l \in Nat, f \in Nat, t \in Nat, u \in Nat :
          l = Len(Copies(n)) /\ f = FromCount(n) /\ t = ToCount(n) /\ u = ToCount(n)'
    BY <1>1, <1>3
  <2>3. PICK a \in Nat, b \in Nat, c \in Nat, d \in Nat, x \in Nat, y \in Nat :
          /\ a = Flag(player'.newWorld) /\ b = Flag(player.data # NoData)
          /\ c = Flag(player.newWorld) /\ d = Flag(player'.data # NoData)
          /\ x = mishaps /\ y = mishaps'
    BY <1>4
  <2>4. u + a + x + b <= t + c + y + d
    BY <2>1, <2>2, <2>3
  <2>5. (l + u + f) + a + x + b <= (l + t + f) + c + y + d
    BY <2>4
  <2> QED
    BY <1>1, <1>2, <2>2, <2>3, <2>5
<1> QED
  BY <1>5, <1>6, BudgetStep

-----------------------------------------------------------------------------
(* The realm's sessions keep the budget. *)

(* A session adds no place; it ends at the cost of a mishap, if at all. *)
LEMMA SessionBudget ==
  ASSUME Inv, Inv', Budget,
         LoginSucceeded \/ ConnectionLost \/ ConnectionMalformedPacket
           \/ (\E packet \in Packet : RedirectPacket(packet)) \/ (\E map \in Node : WebTeleport(map))
  PROVE  Budget'
<1>1. UNCHANGED <<node, toRealm>> /\ mishaps \in Nat
  BY DEF LoginSucceeded, ConnectionLost, ConnectionMalformedPacket, RedirectPacket, WebTeleport,
         link, Inv, TypeOK
<1>2. \E n \in Node : /\ ToCount(n)' = ToCount(n)
                      /\ \A m \in Node : m # n => toNode'[m] = toNode[m]
  <2>1. CASE UNCHANGED toNode
    BY <2>1 DEF ToCount
  <2>2. ASSUME NEW n \in Node, NEW message \in MessageToNode, SendToNode(n, message),
               message.type # "CharacterLogIn"
        PROVE  \E k \in Node : /\ ToCount(k)' = ToCount(k)
                               /\ \A m \in Node : m # k => toNode'[m] = toNode[m]
    <3>1. ToCount(n) \in Nat
      BY Counts
    <3>2. ToCount(n)' = ToCount(n) + 0 /\ \A m \in Node : m # n => toNode'[m] = toNode[m]
      BY <2>2, SendCounts
    <3> QED
      BY <3>1, <3>2
  <2>3. CASE LoginSucceeded
    BY <2>1, <2>3 DEF LoginSucceeded, link
  <2>4. CASE ConnectionLost
    <3>1. \/ UNCHANGED toNode
          \/ /\ WorldByInstanceId(player.instance) \in Node
             /\ SendToNode(WorldByInstanceId(player.instance), LeaveWorldInstance("Disconnect"))
      BY <2>4 DEF ConnectionLost, Inv, TypeOK, WorldByInstanceId
    <3> QED
      BY <2>1, <2>2, <3>1, LeaveType DEF LeaveWorldInstance, Reason
  <2>5. CASE ConnectionMalformedPacket
    <3>1. \/ UNCHANGED toNode
          \/ player.worldNode \in Node /\ SendToNode(player.worldNode, LeaveWorldInstance("Disconnect"))
      BY <2>5 DEF ConnectionMalformedPacket, Inv, TypeOK
    <3> QED
      BY <2>1, <2>2, <3>1, LeaveType DEF LeaveWorldInstance, Reason
  <2>6. ASSUME NEW packet \in Packet, RedirectPacket(packet)
        PROVE  \E k \in Node : /\ ToCount(k)' = ToCount(k)
                               /\ \A m \in Node : m # k => toNode'[m] = toNode[m]
    <3>1. /\ WorldByInstanceId(player.instance) \in Node
          /\ SendToNode(WorldByInstanceId(player.instance), ClientProxyPacket(packet))
      BY <2>6 DEF RedirectPacket, Inv, TypeOK, WorldByInstanceId
    <3>2. ClientProxyPacket(packet) \in MessageToNode
          /\ ClientProxyPacket(packet).type # "CharacterLogIn"
      BY DEF ClientProxyPacket, MessageToNode
    <3> QED
      BY <2>2, <3>1, <3>2
  <2>7. ASSUME NEW map \in Node, WebTeleport(map)
        PROVE  \E k \in Node : /\ ToCount(k)' = ToCount(k)
                               /\ \A m \in Node : m # k => toNode'[m] = toNode[m]
    <3>1. /\ WorldByInstanceId(player.instance) \in Node
          /\ SendToNode(WorldByInstanceId(player.instance), LeaveWorldInstance("Teleport"))
      BY <2>7 DEF WebTeleport, Inv, TypeOK, WorldByInstanceId
    <3> QED
      BY <2>2, <3>1, LeaveType DEF LeaveWorldInstance, Reason
  <2> QED
    BY <2>3, <2>4, <2>5, <2>6, <2>7
<1>3. /\ Flag(player'.newWorld) <= Flag(player.newWorld)
      /\ mishaps + Flag(player.data # NoData) <= mishaps' + Flag(player'.data # NoData)
  <2>1. CASE LoginSucceeded
    BY <1>1, <2>1 DEF LoginSucceeded, NoPlayer, Flag
  <2>2. CASE \/ \E packet \in Packet : RedirectPacket(packet)
             \/ \E map \in Node : WebTeleport(map)
    <3>1. player'.newWorld = player.newWorld /\ player'.data = player.data /\ mishaps' = mishaps
      BY <2>2 DEF RedirectPacket, WebTeleport, Inv, TypeOK
    <3> QED
      BY <1>1, <3>1 DEF Flag
  <2>3. CASE /\ player' = [player EXCEPT !.session = "lost"]
             /\ Mishap(FALSE)
    <3>1. player'.newWorld = player.newWorld /\ player'.data = player.data /\ mishaps' = mishaps
      BY <2>3 DEF Mishap, Inv, TypeOK
    <3> QED
      BY <1>1, <3>1 DEF Flag
  <2>4. CASE player' = NoPlayer /\ Mishap(LeavesCopy(player))
    BY <1>1, <2>4 DEF Mishap, LeavesCopy, NoPlayer, Flag
  <2> QED
    BY <2>1, <2>2, <2>3, <2>4 DEF ConnectionLost, ConnectionMalformedPacket
<1>4. PICK n \in Node : /\ ToCount(n)' = ToCount(n)
                        /\ \A m \in Node : m # n => toNode'[m] = toNode[m]
  BY <1>2
<1>5. ToCount(n) \in Nat
  BY Counts
<1>6. /\ Flag(player.newWorld) \in Nat /\ Flag(player'.newWorld) \in Nat
      /\ Flag(player.data # NoData) \in Nat /\ Flag(player'.data # NoData) \in Nat
      /\ mishaps' \in Nat
  BY DEF Flag, Inv, TypeOK
<1>7. ToCount(n)' + Flag(player'.newWorld) + mishaps + Flag(player.data # NoData)
           <= ToCount(n) + Flag(player.newWorld) + mishaps' + Flag(player'.data # NoData)
  BY <1>1, <1>3, <1>4, <1>5, <1>6
<1> QED
  BY <1>1, <1>4, <1>7, PlayerBudget

(* A log-in makes a place for a Player that gets a character, or that has been
   asked to go there. *)
LEMMA LogInBudget ==
  ASSUME Inv, Inv', Budget, HandlePlayerLogin \/ HandleMoveWorldPortAck
  PROVE  Budget'
<1>1. UNCHANGED <<node, toRealm, mishaps>> /\ mishaps \in Nat
  BY DEF HandlePlayerLogin, HandleMoveWorldPortAck, Inv, TypeOK
<1>2. \A data \in Nat : CharacterLogIn(data).type = "CharacterLogIn"
  BY DEF CharacterLogIn
<1>3. ASSUME NEW n \in Node, ToCount(n)' = ToCount(n) + 1,
             \A m \in Node : m # n => toNode'[m] = toNode[m],
             1 + Flag(player'.newWorld) + Flag(player.data # NoData)
               <= Flag(player.newWorld) + Flag(player'.data # NoData)
      PROVE  Budget'
  <2>1. ToCount(n) \in Nat
    BY Counts
  <2>2. /\ Flag(player.newWorld) \in Nat /\ Flag(player'.newWorld) \in Nat
        /\ Flag(player.data # NoData) \in Nat /\ Flag(player'.data # NoData) \in Nat
    BY DEF Flag
  <2>3. ToCount(n)' + Flag(player'.newWorld) + mishaps + Flag(player.data # NoData)
           <= ToCount(n) + Flag(player.newWorld) + mishaps' + Flag(player'.data # NoData)
    BY <1>1, <1>3, <2>1, <2>2
  <2> QED
    BY <1>1, <1>3, <2>3, PlayerBudget
<1>4. CASE HandlePlayerLogin
  <2>1. WorldByMapId(saved.map) \in Node /\ CharacterLogIn(saved.data) \in MessageToNode
        /\ saved.data \in Nat
    BY <1>4, CharacterLogInType DEF Inv, TypeOK, HandlePlayerLogin, WorldByMapId
  <2>2. SendToNode(WorldByMapId(saved.map), CharacterLogIn(saved.data))
    BY <1>4 DEF HandlePlayerLogin
  <2>3. /\ player.data = NoData /\ player'.data # NoData
        /\ player'.newWorld = player.newWorld
    BY <1>4, <2>1 DEF Inv, TypeOK, HandlePlayerLogin, NotLoggedIn
  <2>4. 1 + Flag(player'.newWorld) + Flag(player.data # NoData)
          <= Flag(player.newWorld) + Flag(player'.data # NoData)
    BY <2>3 DEF Flag
  <2> QED
    BY <1>2, <1>3, <2>1, <2>2, <2>4, SendCounts
<1>5. CASE HandleMoveWorldPortAck /\ WorldByMapId(player.transfer) # NoNode
  <2>1. WorldByMapId(player.transfer) \in Node /\ CharacterLogIn(player.data) \in MessageToNode
        /\ player.data \in Nat
    BY <1>5, CharacterLogInType DEF Inv, TypeOK, HandleMoveWorldPortAck, WorldByMapId
  <2>2. SendToNode(WorldByMapId(player.transfer), CharacterLogIn(player.data))
    BY <1>5 DEF HandleMoveWorldPortAck
  <2>3. player'.data = player.data /\ ~player'.newWorld /\ player.newWorld
    BY <1>5 DEF Inv, TypeOK, HandleMoveWorldPortAck
  <2>4. 1 + Flag(player'.newWorld) + Flag(player.data # NoData)
          <= Flag(player.newWorld) + Flag(player'.data # NoData)
    BY <2>3 DEF Flag
  <2> QED
    BY <1>2, <1>3, <2>1, <2>2, <2>4, SendCounts
<1>6. CASE HandleMoveWorldPortAck /\ WorldByMapId(player.transfer) = NoNode
  <2>1. player'.data = player.data /\ ~player'.newWorld /\ UNCHANGED toNode
    BY <1>6 DEF Inv, TypeOK, HandleMoveWorldPortAck
  <2>2. ToCount(StartMap)' = ToCount(StartMap) /\ ToCount(StartMap) \in Nat
    BY <2>1, Counts DEF ToCount
  <2>3. /\ Flag(player.newWorld) \in Nat /\ Flag(player'.newWorld) = 0
        /\ Flag(player.data # NoData) \in Nat
        /\ Flag(player'.data # NoData) = Flag(player.data # NoData)
    BY <2>1 DEF Flag
  <2>4. ToCount(StartMap)' + Flag(player'.newWorld) + mishaps + Flag(player.data # NoData)
      <= ToCount(StartMap) + Flag(player.newWorld) + mishaps' + Flag(player'.data # NoData)
    BY <1>1, <2>2, <2>3
  <2> QED
    BY <1>1, <2>1, <2>4, PlayerBudget
<1> QED
  BY <1>4, <1>5, <1>6

-----------------------------------------------------------------------------
(* What the realm hears keeps the budget. *)

(* What a message from a node may change. *)
LEMMA HeardBudget ==
  ASSUME Inv, Inv', Budget, NEW n \in Node, NEW type, RealmReceives(n, type),
         UNCHANGED <<node, toNode, mishaps>>,
         Flag(player'.newWorld) + Flag(player.data # NoData)
           <= Flag(player.newWorld) + Flag(player'.data # NoData)
                + (IF type = "WorldInstanceLeft" THEN 1 ELSE 0)
  PROVE  Budget'
<1> DEFINE left == IF type = "WorldInstanceLeft" THEN 1 ELSE 0
<1>1. FromCount(n)' = FromCount(n) - left /\ \A m \in Node : m # n => toRealm'[m] = toRealm[m]
  BY HeardCounts
<1>2. NumberAt(n) = Len(Copies(n)) + ToCount(n) + FromCount(n)
      /\ Len(Copies(n)) \in Nat /\ ToCount(n) \in Nat /\ FromCount(n) \in Nat
  BY Counts
<1>3. NumberAt(n)' = Len(Copies(n)) + ToCount(n) + FromCount(n)'
  BY DEF NumberAt, Number, ToCount, FromCount, Copies
<1>4. /\ Flag(player.newWorld) \in Nat /\ Flag(player'.newWorld) \in Nat
      /\ Flag(player.data # NoData) \in Nat /\ Flag(player'.data # NoData) \in Nat
      /\ mishaps \in Nat /\ mishaps' = mishaps /\ left \in Nat
  BY DEF Flag, Inv, TypeOK
<1>5. Flag(player'.newWorld) + Flag(player.data # NoData)
        <= Flag(player.newWorld) + Flag(player'.data # NoData) + left
  OBVIOUS
<1> HIDE DEF left
<1>6. NumberAt(n)' + Flag(player'.newWorld) + mishaps + Flag(player.data # NoData)
           <= NumberAt(n) + Flag(player.newWorld) + mishaps' + Flag(player'.data # NoData)
  <2>1. PICK l \in Nat, t \in Nat, f \in Nat :
          l = Len(Copies(n)) /\ t = ToCount(n) /\ f = FromCount(n)
    BY <1>2
  <2>2. PICK a \in Nat, b \in Nat, c \in Nat, d \in Nat, x \in Nat :
          /\ a = Flag(player'.newWorld) /\ b = Flag(player.data # NoData)
          /\ c = Flag(player.newWorld) /\ d = Flag(player'.data # NoData)
          /\ x = mishaps /\ x = mishaps'
    BY <1>4
  <2>3. a + b <= c + d + left /\ left \in Nat
    BY <1>4, <1>5, <2>2
  <2>4. NumberAt(n) = l + t + f /\ NumberAt(n)' = l + t + (f - left)
    BY <1>1, <1>2, <1>3, <2>1
  <2>5. l + t + (f - left) + a + x + b <= l + t + f + c + x + d
    BY <2>3
  <2> QED
    BY <2>2, <2>4, <2>5
<1> QED
  BY <1>1, <1>6, BudgetStep DEF Copies

(* The realm's handlers. *)
LEMMA RealmBudget ==
  ASSUME Inv, Inv', Budget, NEW n \in Node, RealmHandles(n)
  PROVE  Budget'
<1>1. UNCHANGED <<node, toNode, mishaps>>
  BY DEF RealmHandles, HandleWorldInstanceEntered, HandleCharacterData, HandleTeleportRequest,
         HandleWorldInstanceLeft
<1>2. ASSUME NEW type, RealmReceives(n, type), player'.newWorld = player.newWorld,
             player.data # NoData => player'.data # NoData
      PROVE  Budget'
  <2>1. Flag(player'.newWorld) + Flag(player.data # NoData)
           <= Flag(player.newWorld) + Flag(player'.data # NoData)
                + (IF type = "WorldInstanceLeft" THEN 1 ELSE 0)
    BY <1>2 DEF Flag
  <2> QED
    BY <1>1, <1>2, <2>1, HeardBudget
<1>3. CASE HandleWorldInstanceEntered(n)
  <2>1. player'.newWorld = player.newWorld /\ player'.data = player.data
    <3>1. player' = PlayerAfterEntered(player, n) \/ player' = player
      BY <1>3 DEF HandleWorldInstanceEntered
    <3> QED
      BY <3>1 DEF PlayerAfterEntered, Inv, TypeOK
  <2> QED
    BY <1>2, <1>3, <2>1 DEF HandleWorldInstanceEntered
<1>4. CASE HandleTeleportRequest(n)
  <2>1. player'.newWorld = player.newWorld /\ player'.data = player.data
    BY <1>4 DEF HandleTeleportRequest, Inv, TypeOK
  <2> QED
    BY <1>2, <1>4, <2>1 DEF HandleTeleportRequest
<1>5. CASE HandleCharacterData(n)
  <2>1. Head(toRealm[n]).data \in Nat
    BY <1>5, RealmReceivesType DEF HandleCharacterData, Inv, MessageToRealm
  <2>2. player'.newWorld = player.newWorld /\ (player.data # NoData => player'.data # NoData)
    BY <1>5, <2>1 DEF HandleCharacterData, Inv, TypeOK
  <2> QED
    BY <1>2, <1>5, <2>2 DEF HandleCharacterData
<1>6. CASE HandleWorldInstanceLeft(n)
  <2> DEFINE reason == Head(toRealm[n]).reason
  <2>1. RealmReceives(n, "WorldInstanceLeft") /\ reason \in Reason
    BY <1>6, RealmReceivesType DEF HandleWorldInstanceLeft, Inv, MessageToRealm
  <2>2. Flag(player'.newWorld) + Flag(player.data # NoData)
           <= Flag(player.newWorld) + Flag(player'.data # NoData) + 1
    <3>1. CASE ~player.character
      BY <1>6, <3>1 DEF HandleWorldInstanceLeft, Flag
    <3>2. CASE player.character /\ reason = "Logout"
      <4>1. ~player'.newWorld
        BY <1>6, <3>2 DEF HandleWorldInstanceLeft, PlayerAfterLeft, LoggedOut, WithoutNode,
                          Inv, TypeOK
      <4> QED
        BY <4>1 DEF Flag
    <3>3. CASE player.character /\ reason = "Disconnect"
      <4>1. ~player'.newWorld
        BY <1>6, <3>3 DEF HandleWorldInstanceLeft, PlayerAfterLeft, NoPlayer
      <4> QED
        BY <4>1 DEF Flag
    <3>4. CASE player.character /\ reason = "Teleport"
      <4>1. player'.data = player.data
        BY <1>6, <3>4 DEF HandleWorldInstanceLeft, PlayerAfterLeft, WithoutNode, Inv, TypeOK
      <4> QED
        BY <4>1 DEF Flag
    <3> QED
      BY <2>1, <3>1, <3>2, <3>3, <3>4 DEF Reason
  <2>3. Flag(player'.newWorld) + Flag(player.data # NoData)
           <= Flag(player.newWorld) + Flag(player'.data # NoData)
                + (IF "WorldInstanceLeft" = "WorldInstanceLeft" THEN 1 ELSE 0)
    BY <2>2
  <2> QED
    BY <1>1, <2>1, <2>3, HeardBudget
<1> QED
  BY <1>3, <1>4, <1>5, <1>6 DEF RealmHandles

-----------------------------------------------------------------------------
(* The nodes and the links keep the budget. *)

(* A copy that leaves is one that has left. *)
LEMMA LetsGoBudget ==
  ASSUME Inv, Inv', Budget, NEW n \in Node, NEW i \in 1 .. Len(Copies(n)), RemoveCopy(n, i),
         NEW before \in Seq(MessageToRealm), NEW reason \in Reason,
         Cardinality(Positions(before, "WorldInstanceLeft")) = 0,
         SendToRealm(n, before \o LastWords(Copies(n)[i], reason)),
         ToCount(n)' = ToCount(n), \A m \in Node : m # n => toNode'[m] = toNode[m],
         UNCHANGED <<player, mishaps>>
  PROVE  Budget'
<1>1. LastWords(Copies(n)[i], reason) \in Seq(MessageToRealm)
  BY CopyType, LastWordsType DEF Inv
<1>2. before \o LastWords(Copies(n)[i], reason) \in Seq(MessageToRealm)
  BY <1>1, ConcatProperties
<1>3. Cardinality(Positions(before \o LastWords(Copies(n)[i], reason), "WorldInstanceLeft")) = 0 + 1
  BY <1>1, LastWordsCount, PositionsConcat
<1>4. /\ FromCount(n)' = FromCount(n) + 1
      /\ \A m \in Node : m # n => toRealm'[m] = toRealm[m]
  <2> DEFINE words == before \o LastWords(Copies(n)[i], reason)
  <2>1. words \in Seq(MessageToRealm) /\ SendToRealm(n, words)
        /\ Cardinality(Positions(words, "WorldInstanceLeft")) = 1
    BY <1>2, <1>3
  <2> HIDE DEF words
  <2> QED
    BY <2>1, SaidCounts
<1>5. /\ Len(Copies(n)') = Len(Copies(n)) - 1
      /\ \A m \in Node : m # n => Copies(m)' = Copies(m)
  BY RemoveCounts
<1>6. Len(Copies(n)) \in Nat /\ ToCount(n) \in Nat /\ FromCount(n) \in Nat
  BY Counts
<1>7. Len(Copies(n)') + ToCount(n)' + FromCount(n)'
        <= Len(Copies(n)) + ToCount(n) + FromCount(n)
  BY <1>4, <1>5, <1>6
<1> QED
  BY <1>4, <1>5, <1>7, NodeBudget

(* Nothing is said before. *)
LEMMA JustLetsGoBudget ==
  ASSUME Inv, Inv', Budget, NEW n \in Node, NEW i \in 1 .. Len(Copies(n)), RemoveCopy(n, i),
         NEW reason \in Reason, SendToRealm(n, LastWords(Copies(n)[i], reason)),
         ToCount(n)' = ToCount(n), \A m \in Node : m # n => toNode'[m] = toNode[m],
         UNCHANGED <<player, mishaps>>
  PROVE  Budget'
<1>1. LastWords(Copies(n)[i], reason) \in Seq(MessageToRealm)
  BY CopyType, LastWordsType DEF Inv
<1>2. <<>> \o LastWords(Copies(n)[i], reason) = LastWords(Copies(n)[i], reason)
  BY <1>1, ConcatEmptySeq
<1>3. <<>> \in Seq(MessageToRealm) /\ Cardinality(Positions(<<>>, "WorldInstanceLeft")) = 0
  <2>1. Positions(<<>>, "WorldInstanceLeft") = {}
    BY DEF Positions
  <2>2. Cardinality(Positions(<<>>, "WorldInstanceLeft")) = 0
    BY <2>1, FS_EmptySet
  <2> QED
    BY <2>2, EmptySeq
<1> QED
  BY <1>2, <1>3, LetsGoBudget

(* The first copy of a node that has one. *)
LEMMA NodeHandlesBudget ==
  ASSUME Inv, Inv', Budget, NEW n \in Node, NodeHandles(n)
  PROVE  Budget'
<1>1. UNCHANGED <<player, mishaps>>
  BY DEF NodeHandles, HandleCharacterLogin, HandleLeaveWorldInstance, HandleProxyPacket
<1>2. Len(Copies(n)) \in Nat /\ ToCount(n) \in Nat /\ FromCount(n) \in Nat
  BY Counts
<1>3. ASSUME NEW type, NodeReceives(n, type), type # "CharacterLogIn"
      PROVE  ToCount(n)' = ToCount(n) /\ \A m \in Node : m # n => toNode'[m] = toNode[m]
  <2>1. ToCount(n)' = ToCount(n) - 0 /\ \A m \in Node : m # n => toNode'[m] = toNode[m]
    BY <1>3, ReceiveCounts
  <2> QED
    BY <1>2, <2>1
<1>4. ASSUME ToCount(n)' = ToCount(n), \A m \in Node : m # n => toNode'[m] = toNode[m],
             UNCHANGED toRealm, \A m \in Node : m # n => Copies(m)' = Copies(m),
             Len(Copies(n)') = Len(Copies(n))
      PROVE  Budget'
  <2>1. FromCount(n)' = FromCount(n)
    BY <1>4 DEF FromCount
  <2>2. Len(Copies(n)') + ToCount(n)' + FromCount(n)' <= Len(Copies(n)) + ToCount(n) + FromCount(n)
    BY <1>2, <1>4, <2>1
  <2> QED
    BY <1>1, <1>4, <2>2, NodeBudget
<1>5. CASE HandleCharacterLogin(n)
  <2>1. ToCount(n)' = ToCount(n) - 1 /\ \A m \in Node : m # n => toNode'[m] = toNode[m]
    BY <1>5, ReceiveCounts DEF HandleCharacterLogin
  <2>2. /\ Copies(n)' = Append(Copies(n), [data |-> Head(toNode[n]).data, logout |-> FALSE])
        /\ \A m \in Node : m # n => Copies(m)' = Copies(m)
    BY <1>5 DEF HandleCharacterLogin, Inv, TypeOK, Copies
  <2>3. Len(Copies(n)') = Len(Copies(n)) + 1
    BY <2>2 DEF Inv, TypeOK, Copies
  <2>4. <<WorldInstanceEntered>> \in Seq(MessageToRealm) /\ SendToRealm(n, <<WorldInstanceEntered>>)
        /\ Cardinality(Positions(<<WorldInstanceEntered>>, "WorldInstanceLeft")) = 0
    BY <1>5, PositionsOne DEF HandleCharacterLogin, WorldInstanceEntered, MessageToRealm
  <2>5. FromCount(n)' = FromCount(n) + 0 /\ \A m \in Node : m # n => toRealm'[m] = toRealm[m]
    BY <2>4, SaidCounts
  <2>6. Len(Copies(n)') + ToCount(n)' + FromCount(n)' <= Len(Copies(n)) + ToCount(n) + FromCount(n)
    BY <1>2, <2>1, <2>3, <2>5
  <2> QED
    BY <1>1, <2>1, <2>2, <2>5, <2>6, NodeBudget
<1>6. CASE HandleLeaveWorldInstance(n)
  <2>1. NodeReceives(n, "LeaveWorldInstance")
    BY <1>6 DEF HandleLeaveWorldInstance
  <2>2. Head(toNode[n]).reason \in Reason
    BY <2>1, NodeReceivesType DEF Inv, MessageToNode
  <2>3. CASE Copies(n) = <<>>
    BY <1>3, <1>4, <1>6, <2>1, <2>3 DEF HandleLeaveWorldInstance, Copies
  <2>4. CASE Copies(n) # <<>>
    <3>1. /\ RemoveCopy(n, 1) /\ 1 \in 1 .. Len(Copies(n))
          /\ SendToRealm(n, LastWords(Copies(n)[1], Head(toNode[n]).reason))
      BY <1>6, <2>4, FirstCopy DEF HandleLeaveWorldInstance, Inv
    <3> QED
      BY <1>1, <1>3, <2>1, <2>2, <3>1, JustLetsGoBudget
  <2> QED
    BY <2>3, <2>4
<1>7. CASE HandleProxyPacket(n)
  <2> DEFINE packet == Head(toNode[n]).packet
  <2>1. NodeReceives(n, "ClientProxyPacket")
    BY <1>7 DEF HandleProxyPacket
  <2>2. packet \in Packet
    BY <2>1, NodeReceivesType DEF Inv, MessageToNode
  <2>3. CASE Copies(n) = <<>>
    BY <1>3, <1>4, <1>7, <2>1, <2>3 DEF HandleProxyPacket, Copies
  <2>4. CASE Copies(n) # <<>> /\ packet = "InvalidMovement"
    <3>1. /\ RemoveCopy(n, 1) /\ 1 \in 1 .. Len(Copies(n)) /\ "Disconnect" \in Reason
          /\ SendToRealm(n, LastWords(Copies(n)[1], "Disconnect"))
      BY <1>7, <2>4, FirstCopy DEF HandleProxyPacket, Inv, Reason
    <3> QED
      BY <1>1, <1>3, <2>1, <3>1, JustLetsGoBudget
  <2>5. CASE Copies(n) # <<>> /\ packet \in {"LogoutRequest", "LogoutCancel"}
    <3>1. node' = [node EXCEPT ![n].copies[1].logout = packet = "LogoutRequest"]
          /\ UNCHANGED toRealm
      BY <1>7, <2>5 DEF HandleProxyPacket
    <3>2. /\ Copies(n)' = [Copies(n) EXCEPT ![1].logout = packet = "LogoutRequest"]
          /\ \A m \in Node : m # n => Copies(m)' = Copies(m)
      BY <3>1 DEF Inv, TypeOK, Copies
    <3>3. Len(Copies(n)') = Len(Copies(n))
      BY <3>2 DEF Inv, TypeOK, Copies
    <3> QED
      BY <1>3, <1>4, <2>1, <3>1, <3>2, <3>3
  <2> QED
    BY <2>2, <2>3, <2>4, <2>5 DEF Packet
<1> QED
  BY <1>5, <1>6, <1>7 DEF NodeHandles

(* What the world does by itself. *)
LEMMA WorldBudget ==
  ASSUME Inv, Inv', Budget, NEW n \in Node,
         \/ \E i \in DOMAIN Copies(n) : OnLogout(n, i)
         \/ \E map \in Node : OnTeleport(n, map)
         \/ \E levels \in BOOLEAN : Play(n, levels)
  PROVE  Budget'
<1>1. UNCHANGED <<player, toNode, mishaps>> /\ ToCount(n)' = ToCount(n)
  BY DEF OnLogout, OnTeleport, Play, ToCount, bounds
<1>2. ASSUME NEW i \in DOMAIN Copies(n), OnLogout(n, i) PROVE Budget'
  <2>1. i \in 1 .. Len(Copies(n)) /\ "Logout" \in Reason
    <3>1. Copies(n) \in Seq([data : Nat, logout : BOOLEAN])
      BY DEF Inv, TypeOK, Copies
    <3>2. DOMAIN Copies(n) = 1 .. Len(Copies(n))
      BY <3>1
    <3> QED
      BY <3>2 DEF Reason
  <2> QED
    BY <1>1, <1>2, <2>1, JustLetsGoBudget DEF OnLogout
<1>3. ASSUME NEW map \in Node, OnTeleport(n, map) PROVE Budget'
  <2>1. 1 \in 1 .. Len(Copies(n)) /\ "Teleport" \in Reason
    BY <1>3, FirstCopy DEF Inv, OnTeleport, Reason
  <2>2. <<TeleportRequest(map)>> \in Seq(MessageToRealm)
        /\ Cardinality(Positions(<<TeleportRequest(map)>>, "WorldInstanceLeft")) = 0
    BY PositionsOne DEF TeleportRequest, MessageToRealm
  <2> QED
    BY <1>1, <1>3, <2>1, <2>2, LetsGoBudget DEF OnTeleport
<1>4. ASSUME NEW levels \in BOOLEAN, Play(n, levels) PROVE Budget'
  <2>1. Len(Copies(n)) \in Nat /\ ToCount(n) \in Nat /\ FromCount(n) \in Nat /\ newest + 1 \in Nat
    BY Counts DEF Inv, TypeOK
  <2>2. /\ Copies(n)' = [Copies(n) EXCEPT ![1].data = newest + 1]
        /\ \A m \in Node : m # n => Copies(m)' = Copies(m)
    BY <1>4 DEF Inv, TypeOK, Copies, Play
  <2>3. Len(Copies(n)') = Len(Copies(n))
    BY <2>2 DEF Inv, TypeOK, Copies
  <2> DEFINE messages == IF levels THEN <<CharacterData(newest + 1)>> ELSE <<>>
  <2>4. messages \in Seq(MessageToRealm) /\ SendToRealm(n, messages)
        /\ Cardinality(Positions(messages, "WorldInstanceLeft")) = 0
    <3>1. CharacterData(newest + 1) \in MessageToRealm
      BY <2>1 DEF CharacterData, MessageToRealm
    <3>2. SendToRealm(n, messages)
      BY <1>4 DEF Play
    <3>3. Positions(messages, "WorldInstanceLeft") = {}
      BY DEF Positions, CharacterData
    <3>4. messages \in Seq(MessageToRealm)
      BY <3>1
    <3> HIDE DEF messages
    <3> QED
      BY <3>2, <3>3, <3>4, FS_EmptySet
  <2> HIDE DEF messages
  <2>5. FromCount(n)' = FromCount(n) + 0 /\ \A m \in Node : m # n => toRealm'[m] = toRealm[m]
    BY <2>4, SaidCounts
  <2>6. Len(Copies(n)') + ToCount(n)' + FromCount(n)' <= Len(Copies(n)) + ToCount(n) + FromCount(n)
    BY <1>1, <2>1, <2>3, <2>5
  <2> QED
    BY <1>1, <2>2, <2>5, <2>6, NodeBudget
<1> QED
  BY <1>2, <1>3, <1>4

(* A node that stops has no copies; a lost link may leave those of a node that
   goes on, at the cost of a mishap. *)
LEMMA LinkBudget ==
  ASSUME Inv, Inv', Budget, NEW n \in Node,
         LinkLost(n) \/ SendsWithoutLink(n) \/ Reconnect(n)
  PROVE  Budget'
<1>1. Len(Copies(n)) \in Nat /\ ToCount(n) \in Nat /\ FromCount(n) \in Nat
      /\ NumberAt(n) = Len(Copies(n)) + ToCount(n) + FromCount(n)
  BY Counts
<1>2. /\ Len(Copies(n)') \in {0, Len(Copies(n))}
      /\ \A m \in Node : m # n => Copies(m)' = Copies(m)
  <2>1. node' = node \/ node' = [node EXCEPT ![n] = NodeStopped]
    BY DEF LinkLost, SendsWithoutLink, Reconnect
  <2>2. node' = node => \A m \in Node : Copies(m)' = Copies(m)
    BY DEF Copies
  <2>3. node' = [node EXCEPT ![n] = NodeStopped] =>
          /\ Copies(n)' = <<>>
          /\ \A m \in Node : m # n => Copies(m)' = Copies(m)
    BY DEF Inv, TypeOK, Copies, NodeStopped
  <2>4. Len(<<>>) = 0
    OBVIOUS
  <2> QED
    BY <2>1, <2>2, <2>3, <2>4
<1>3. CASE SendsWithoutLink(n) \/ Reconnect(n)
  <2>1. UNCHANGED <<player, toNode, toRealm, mishaps>>
    BY <1>3 DEF SendsWithoutLink, Reconnect, link
  <2>2. ToCount(n)' = ToCount(n) /\ FromCount(n)' = FromCount(n)
    BY <2>1 DEF ToCount, FromCount
  <2>3. Len(Copies(n)') + ToCount(n)' + FromCount(n)' <= Len(Copies(n)) + ToCount(n) + FromCount(n)
    BY <1>1, <1>2, <2>2
  <2> QED
    BY <1>2, <2>1, <2>3, NodeBudget
<1>4. CASE LinkLost(n)
  <2>1. /\ toNode' = [toNode EXCEPT ![n] = <<>>] /\ toRealm' = [toRealm EXCEPT ![n] = <<>>]
        /\ mishaps' = mishaps + 1 /\ player' = PlayerAfterNodeLost(player, n)
    BY <1>4 DEF LinkLost, Mishap
  <2>2. /\ toNode'[n] = <<>> /\ toRealm'[n] = <<>>
        /\ \A m \in Node : m # n => toNode'[m] = toNode[m] /\ toRealm'[m] = toRealm[m]
    BY <2>1 DEF Inv, MessagesOK
  <2>3. ToCount(n)' = 0 /\ FromCount(n)' = 0
    <3>1. \A type : Positions(<<>>, type) = {}
      BY DEF Positions
    <3> QED
      BY <2>2, <3>1, FS_EmptySet DEF ToCount, FromCount
  <2>4. NumberAt(n)' = Len(Copies(n)') + ToCount(n)' + FromCount(n)'
    BY DEF NumberAt, Number, ToCount, FromCount, Copies
  <2>5. NumberAt(n)' \in Nat /\ NumberAt(n)' <= NumberAt(n)
    BY <1>1, <1>2, <2>3, <2>4
  <2>6. player'.newWorld => player.newWorld
    BY <2>1 DEF PlayerAfterNodeLost, NoPlayer, WithoutNode, Inv, TypeOK
  <2>7. /\ Flag(player'.newWorld) <= Flag(player.newWorld)
        /\ Flag(player.data # NoData) <= 1 + Flag(player'.data # NoData)
        /\ Flag(player.newWorld) \in Nat /\ Flag(player'.newWorld) \in Nat
        /\ Flag(player.data # NoData) \in Nat /\ Flag(player'.data # NoData) \in Nat
    BY <2>6 DEF Flag
  <2>8. mishaps \in Nat /\ mishaps' = mishaps + 1 /\ NumberAt(n) \in Nat
    <3>1. NumberAt(n) \in Nat
      BY <1>1
    <3> QED
      BY <2>1, <3>1 DEF Inv, TypeOK
  <2>9. NumberAt(n)' + Flag(player'.newWorld) + mishaps + Flag(player.data # NoData)
           <= NumberAt(n) + Flag(player.newWorld) + mishaps' + Flag(player'.data # NoData)
    BY <2>5, <2>7, <2>8
  <2> QED
    BY <1>2, <2>2, <2>9, BudgetStep
<1> QED
  BY <1>3, <1>4

-----------------------------------------------------------------------------
(* Realm and nodes agree. *)

(* Nobody is anywhere at first. *)
LEMMA InitBudget == Init => Budget
<1> SUFFICES ASSUME Init PROVE Budget
  OBVIOUS
<1>1. \A n \in Node : At(n) = {}
  BY DEF Init, At, Marks, Positions, Copies
<1>2. Tokens = {}
  BY <1>1 DEF Tokens
<1>3. mishaps = 0 /\ Flag(player.newWorld) = 0 /\ Flag(player.data # NoData) = 0
  BY DEF Init, NoPlayer, Flag
<1> QED
  BY <1>2, <1>3, FS_EmptySet DEF Budget

(* Every step keeps the budget. *)
LEMMA StepBudget == Inv /\ Budget /\ [Next]_vars => Budget'
<1> SUFFICES ASSUME Inv, Budget, [Next]_vars PROVE Budget'
  OBVIOUS
<1>1. Inv'
  BY StepInv
<1>2. CASE Client
  BY <1>1, <1>2, SessionBudget, LogInBudget DEF Client, Packet
<1>3. CASE \E n \in Node : RealmHandles(n)
  BY <1>1, <1>3, RealmBudget
<1>4. CASE \E n \in Node : NodeHandles(n)
  BY <1>1, <1>4, NodeHandlesBudget
<1>5. CASE \E n \in Node : \/ \E i \in DOMAIN Copies(n) : OnLogout(n, i)
                           \/ \E map \in Node : OnTeleport(n, map)
                           \/ \E levels \in BOOLEAN : Play(n, levels)
  BY <1>1, <1>5, WorldBudget
<1>6. CASE \E n \in Node : LinkLost(n) \/ SendsWithoutLink(n) \/ Reconnect(n)
  BY <1>1, <1>6, LinkBudget
<1>7. CASE UNCHANGED vars
  <2>1. Tokens' = Tokens
    BY <1>7 DEF vars, Tokens, At, Copies
  <2> QED
    BY <1>7, <2>1 DEF vars, Budget
<1> QED
  BY <1>2, <1>3, <1>4, <1>5, <1>6, <1>7 DEF Next

(* The budget bounds the places. *)
LEMMA BudgetBounds == Inv /\ Budget => OneCopy
<1> SUFFICES ASSUME Inv, Budget PROVE OneCopy
  OBVIOUS
<1>1. Whereabouts \subseteq Tokens
  BY DEF Whereabouts, Tokens, At, Marks, LogInsTo, Positions
<1>2. Cardinality(Whereabouts) <= Cardinality(Tokens) /\ IsFiniteSet(Whereabouts)
  BY <1>1, FS_Subset DEF Budget
<1>3. Cardinality(Whereabouts) \in Nat /\ Cardinality(Tokens) \in Nat
  BY <1>2, FS_CardinalityType DEF Budget
<1>4. /\ Flag(player.newWorld) \in {0, 1} /\ Flag(player.data # NoData) \in {0, 1}
      /\ mishaps \in Nat
  BY DEF Flag, Inv, TypeOK
<1>5. Cardinality(Tokens) + Flag(player.newWorld) <= mishaps + Flag(player.data # NoData)
  BY DEF Budget
<1> QED
  BY <1>2, <1>3, <1>4, <1>5 DEF OneCopy

(* The character is in one place, but for the places that sessions and links
   that were cut off have left behind; and as long as none was, realm and nodes
   agree where it is when nothing is on the way (worldInstanceEntered,
   worldInstanceLeft). *)
THEOREM WhereaboutsKnown == Spec => []WhereaboutsAgree
<1>1. Inv /\ StageInv /\ Budget => WhereaboutsAgree
  BY BudgetBounds, StageAgrees DEF Inv, WhereaboutsAgree
<1> QED
  BY <1>1, InitInv, StepInv, InitStage, StepStage, InitBudget, StepBudget, PTL DEF Spec

-----------------------------------------------------------------------------
(* The journey: where the character is, as CharacterJourney sees it. *)

\* What a node has or says places the character.
Located ==
  \A n \in Node : /\ Copies(n) # <<>> => Playing(n)
                  /\ toRealm[n] # <<>> => Playing(n) \/ Leaving(n)
                  /\ ~NoLogIn(toNode[n]) => Sent(n)

\* What the stages look like from the abstract specification.
Looks(s, n) == Stage = s /\ Place = n /\ Carried = newest
Seen ==
  /\ Home => Looks("home", NoNode)
  /\ \A n \in Node : /\ Sent(n) => Looks("sent", n)
                     /\ Playing(n) => Looks("playing", n)
                     /\ Leaving(n) => Looks("leaving", n)

Followed == mishaps = 0 => OnePlace /\ Located /\ Seen

(* What is in the queues and the nodes is what On lists. *)
LEMMA OnLists ==
  ASSUME Inv, NEW n \in Node
  PROVE  /\ n \in On("sent") <=> ~NoLogIn(toNode[n])
         /\ n \in On("playing") <=> Copies(n) # <<>>
         /\ n \in On("leaving") <=> InFlight("WorldInstanceLeft", n)
         /\ toRealm[n] = <<>> => n \notin On("leaving")
<1>1. On("sent") = {m \in Node : LogInsTo(m) # {}}
  BY DEF On
<1>2. On("playing") = {m \in Node : Copies(m) # <<>>}
  BY DEF On
<1>3. On("leaving") = {m \in Node : InFlight("WorldInstanceLeft", m)}
  BY DEF On
<1>4. LogInsTo(n) # {} <=> ~NoLogIn(toNode[n])
  BY DEF LogInsTo, NoLogIn
<1>5. toRealm[n] = <<>> => ~InFlight("WorldInstanceLeft", n)
  BY DEF InFlight
<1> QED
  BY <1>1, <1>2, <1>3, <1>4, <1>5

(* A node that is the only one of its kind is the one chosen. *)
LEMMA OnlyOne ==
  ASSUME NEW s, NEW n \in Node, n \in On(s), \A m \in Node : m # n => m \notin On(s),
         On(s) \subseteq Node
  PROVE  (CHOOSE m \in On(s) : TRUE) = n
OBVIOUS

(* On lists nodes. *)
LEMMA OnNodes ==
  ASSUME NEW s \in {"sent", "playing", "leaving"}
  PROVE  On(s) \subseteq Node
BY DEF On

(* The character at home. *)
LEMMA HomeSeen ==
  ASSUME Inv, mishaps = 0, Home
  PROVE  Looks("home", NoNode)
<1>1. \A n \in Node : n \notin On("sent") /\ n \notin On("playing") /\ n \notin On("leaving")
  BY OnLists DEF Home, Absent
<1>2. On("sent") = {} /\ On("playing") = {} /\ On("leaving") = {}
  BY <1>1, OnNodes
<1>3. Stage = "home"
  BY <1>2 DEF Stage
<1>4. Place = NoNode
  BY <1>3 DEF Place
<1>5. Carried = saved.data
  BY <1>3 DEF Carried
<1> QED
  BY <1>3, <1>4, <1>5 DEF Looks, Home, Stored

(* The character on its way to a node. *)
LEMMA SentSeen ==
  ASSUME Inv, mishaps = 0, NEW n \in Node, Sent(n)
  PROVE  Looks("sent", n)
<1>1. PICK i \in DOMAIN toNode[n] :
        /\ toNode[n][i] = CharacterLogIn(newest)
        /\ \A j \in DOMAIN toNode[n] : j # i => toNode[n][j].type # "CharacterLogIn"
  BY DEF Sent, OneLogIn
<1>2. toNode[n][i].type = "CharacterLogIn" /\ toNode[n][i].data = newest
  BY <1>1 DEF CharacterLogIn
<1>3. n \in On("sent") /\ \A m \in Node : m # n => m \notin On("sent")
  BY <1>2, OnLists DEF Sent, NobodyBut, NoLogIn
<1>4. Stage = "sent"
  BY <1>3 DEF Stage
<1>5. Place = n
  BY <1>3, <1>4, OnNodes, OnlyOne DEF Place
<1>6. LogInsTo(n) = {i}
  BY <1>1, <1>2 DEF LogInsTo
<1>7. Carried = toNode[n][CHOOSE j \in LogInsTo(n) : TRUE].data
  BY <1>4, <1>5 DEF Carried
<1>8. (CHOOSE j \in LogInsTo(n) : TRUE) = i
  BY <1>6
<1> QED
  BY <1>2, <1>4, <1>5, <1>7, <1>8 DEF Looks

(* A node in which the character plays has a copy. *)
LEMMA PlayingHere ==
  ASSUME NEW n \in Node, Playing(n)
  PROVE  Copies(n) # <<>>
<1>1. Len(Copies(n)) = 1
  BY DEF Playing
<1>2. Len(<<>>) = 0
  OBVIOUS
<1> QED
  BY ONLY <1>1, <1>2

(* The character in a node. *)
LEMMA PlayingSeen ==
  ASSUME Inv, mishaps = 0, NEW n \in Node, Playing(n)
  PROVE  Looks("playing", n)
<1>1. \A m \in Node : m \notin On("sent")
  BY OnLists DEF Playing, NobodyBut
<1>2. Copies(n) # <<>> /\ Copies(n)[1].data = newest
  BY PlayingHere DEF Playing
<1>3. n \in On("playing") /\ \A m \in Node : m # n => m \notin On("playing")
  BY <1>2, OnLists DEF Playing, NobodyBut, Absent
<1>4. Stage = "playing"
  BY <1>1, <1>3, OnNodes DEF Stage
<1>5. Place = n
  BY <1>3, <1>4, OnNodes, OnlyOne DEF Place
<1>6. Carried = Copies(n)[1].data
  BY <1>4, <1>5 DEF Carried
<1> QED
  BY <1>2, <1>4, <1>5, <1>6 DEF Looks

(* The character on its way out: its data are before the farewell, or stored. *)
LEMMA LeavingSeen ==
  ASSUME Inv, mishaps = 0, NEW n \in Node, Leaving(n)
  PROVE  Looks("leaving", n)
<1> DEFINE q == toRealm[n]
<1>1. \A m \in Node : m \notin On("sent") /\ m \notin On("playing")
  BY OnLists DEF Leaving, NobodyBut, Absent
<1>2. q \in Seq(MessageToRealm) /\ Farewell(q)
  BY DEF Inv, MessagesOK, Leaving
<1>3. InFlight("WorldInstanceLeft", n)
  <2>1. Len(q) \in DOMAIN q /\ q[Len(q)].type = "WorldInstanceLeft"
    BY <1>2 DEF Farewell
  <2> QED
    BY <2>1 DEF InFlight
<1>4. n \in On("leaving") /\ \A m \in Node : m # n => m \notin On("leaving")
  BY <1>3, OnLists DEF Leaving, NobodyBut, Absent
<1>5. Stage = "leaving"
  BY <1>1, <1>4, OnNodes DEF Stage
<1>6. Place = n
  BY <1>4, <1>5, OnNodes, OnlyOne DEF Place
<1>7. Carried = LastData(q)
  BY <1>5, <1>6 DEF Carried
<1>8. LastData(q) = newest
  <2>1. CASE Len(q) > 1
    BY <1>2, <2>1 DEF LastData, Farewell, CharacterData
  <2>2. CASE ~(Len(q) > 1)
    <3>1. Len(q) = 1
      <4>1. Len(q) \in Nat /\ Len(q) # 0
        BY <1>2 DEF Farewell
      <4>2. PICK k \in Nat : Len(q) = k
        BY <4>1
      <4>3. k # 0 /\ ~(k > 1)
        BY <2>2, <4>1, <4>2
      <4>4. k = 1
        BY ONLY <4>3, k \in Nat
      <4> QED
        BY <4>2, <4>4
    <3> QED
      BY <2>2, <3>1 DEF LastData, Leaving, Stored
  <2> QED
    BY <2>1, <2>2
<1> QED
  BY <1>5, <1>6, <1>7, <1>8 DEF Looks

(* As long as nothing was cut off, the abstract specification sees the stage. *)
LEMMA StageFollowed == Inv /\ StageInv => Followed
<1> SUFFICES ASSUME Inv, mishaps = 0, OnePlace PROVE Located /\ Seen
  BY DEF StageInv, Followed
<1>1. Located
  BY HasCopy, HasMail, HasLogIn DEF Located
<1>2. Seen
  BY HomeSeen, SentSeen, PlayingSeen, LeavingSeen DEF Seen
<1> QED
  BY <1>1, <1>2

-----------------------------------------------------------------------------
(* The journey: its steps. *)

(* The stages before and after a step say what step of the journey it is. *)
LEMMA JourneyStages ==
  ASSUME Seen, Seen', newest' = newest
  PROVE  /\ Home /\ Home' => UNCHANGED Journey!vars
         /\ \A n \in Node :
              /\ Home /\ Sent(n)' => Journey!SentTo(n)
              /\ Sent(n) /\ Sent(n)' => UNCHANGED Journey!vars
              /\ Sent(n) /\ Playing(n)' => Journey!Arrives
              /\ Playing(n) /\ Playing(n)' => UNCHANGED Journey!vars
              /\ Playing(n) /\ Leaving(n)' => Journey!Leaves
              /\ Leaving(n) /\ Leaving(n)' => UNCHANGED Journey!vars
              /\ Leaving(n) /\ Home' => Journey!ComesHome
<1>1. /\ Home => Looks("home", NoNode)
      /\ Home' => Looks("home", NoNode)'
      /\ \A n \in Node : /\ Sent(n) => Looks("sent", n)
                         /\ Playing(n) => Looks("playing", n)
                         /\ Leaving(n) => Looks("leaving", n)
                         /\ Sent(n)' => Looks("sent", n)'
                         /\ Playing(n)' => Looks("playing", n)'
                         /\ Leaving(n)' => Looks("leaving", n)'
  BY DEF Seen
<1>2. \A s, n : Looks(s, n) /\ Looks(s, n)' => UNCHANGED Journey!vars
  BY DEF Looks, Journey!vars
<1>3. \A n : Looks("home", NoNode) /\ Looks("sent", n)' => Journey!SentTo(n)
  BY DEF Looks, Journey!SentTo
<1>4. \A n : Looks("sent", n) /\ Looks("playing", n)' => Journey!Arrives
  BY DEF Looks, Journey!Arrives
<1>5. \A n : Looks("playing", n) /\ Looks("leaving", n)' => Journey!Leaves
  BY DEF Looks, Journey!Leaves
<1>6. \A n : Looks("leaving", n) /\ Looks("home", NoNode)' => Journey!ComesHome
  BY DEF Looks, Journey!ComesHome
<1> HIDE DEF Looks
<1> QED
  BY <1>1, <1>2, <1>3, <1>4, <1>5, <1>6

\* A step of the journey that changes nothing of the character.
Travels ==
  \/ UNCHANGED Journey!vars
  \/ \E n \in Node : Journey!SentTo(n)
  \/ Journey!Arrives
  \/ Journey!Leaves
  \/ Journey!ComesHome

\* The log-ins on the way stay there.
LogInsStay == \A n \in Node : ~NoLogIn(toNode[n]) => ~NoLogIn(toNode'[n])

(* A message that is sent leaves the ones before it. *)
LEMMA SendingKeepsLogIns ==
  ASSUME Inv, NEW n \in Node, NEW message, SendToNode(n, message)
  PROVE  LogInsStay
<1> SUFFICES ASSUME NEW m \in Node, ~NoLogIn(toNode[m]) PROVE ~NoLogIn(toNode'[m])
  BY DEF LogInsStay
<1> DEFINE q == toNode[m]
<1>1. toNode'[m] = q \/ toNode'[m] = Append(q, message)
  BY DEF Inv, MessagesOK, SendToNode
<1>2. q \in Seq(MessageToNode)
  BY DEF Inv, MessagesOK
<1>3. PICK i \in DOMAIN q : q[i].type = "CharacterLogIn"
  BY DEF NoLogIn
<1> HIDE DEF q
<1>4. i \in DOMAIN Append(q, message) /\ Append(q, message)[i] = q[i]
  BY <1>2
<1> QED
  BY <1>1, <1>3, <1>4 DEF NoLogIn

(* So does the receipt of another message. *)
LEMMA ReceivingKeepsLogIns ==
  ASSUME Inv, NEW n \in Node, NEW type, type # "CharacterLogIn", NodeReceives(n, type)
  PROVE  LogInsStay
<1> SUFFICES ASSUME NEW m \in Node, ~NoLogIn(toNode[m]) PROVE ~NoLogIn(toNode'[m])
  BY DEF LogInsStay
<1> DEFINE q == toNode[m]
<1>1. CASE m # n
  BY <1>1 DEF Inv, MessagesOK, NodeReceives
<1>2. CASE m = n
  <2>1. q \in Seq(MessageToNode) /\ q # <<>> /\ q[1].type = type /\ toNode'[m] = Tail(q)
    BY <1>2 DEF Inv, MessagesOK, NodeReceives
  <2>2. PICK i \in DOMAIN q : q[i].type = "CharacterLogIn"
    BY DEF NoLogIn
  <2> HIDE DEF q
  <2>3. i - 1 \in DOMAIN Tail(q) /\ Tail(q)[i - 1] = q[i]
    <3>1. i # 1 /\ i \in 1 .. Len(q) /\ Len(q) \in Nat
      BY <2>1, <2>2
    <3>2. i - 1 \in 1 .. Len(q) - 1 /\ (i - 1) + 1 = i
      BY <3>1
    <3> QED
      BY <2>1, <3>2, HeadTailProperties
  <2> QED
    BY <2>1, <2>2, <2>3 DEF NoLogIn
<1> QED
  BY <1>1, <1>2

(* As long as the nodes and what they say stay the same, the character at most
   sets out for a node. *)
LEMMA SetsOut ==
  ASSUME OnePlace, OnePlace', Located', Seen, Seen', LogInsStay \/ Home,
         UNCHANGED <<node, toRealm, newest>>
  PROVE  Travels
<1>1. \A n \in Node : Copies(n)' = Copies(n) /\ toRealm'[n] = toRealm[n]
  BY DEF Copies
<1>2. CASE Home
  <2>1. \A n \in Node : ~Playing(n)' /\ ~Leaving(n)'
    BY <1>1, <1>2 DEF Home, Absent, Playing, Leaving, Farewell
  <2> QED
    BY <1>2, <2>1, JourneyStages DEF OnePlace, Travels
<1>3. ASSUME NEW n \in Node, Sent(n), ~Home PROVE Travels
  <2>1. ~NoLogIn(toNode[n])
    BY <1>3 DEF Sent, OneLogIn, NoLogIn, CharacterLogIn
  <2>2. Sent(n)'
    BY <1>3, <2>1 DEF LogInsStay, Located, NoLogIn
  <2> QED
    BY <1>3, <2>2, JourneyStages DEF Travels
<1>4. ASSUME NEW n \in Node, Playing(n) PROVE Travels
  <2>1. Copies(n)' # <<>>
    BY <1>1, <1>4, PlayingHere
  <2>2. Playing(n)'
    BY <2>1 DEF Located
  <2> QED
    BY <1>4, <2>2, JourneyStages DEF Travels
<1>5. ASSUME NEW n \in Node, Leaving(n) PROVE Travels
  <2>1. Copies(n)' = <<>> /\ toRealm'[n] # <<>>
    BY <1>1, <1>5 DEF Leaving, Farewell
  <2>2. Leaving(n)'
    BY <2>1 DEF Located, Playing
  <2> QED
    BY <1>5, <2>2, JourneyStages DEF Travels
<1> QED
  BY <1>2, <1>3, <1>4, <1>5 DEF OnePlace

(* As the realm hears of a node, the character stays in it or comes home. *)
LEMMA RealmHearsOf ==
  ASSUME Inv, OnePlace, OnePlace', Located', Seen, Seen', NEW n \in Node, NEW type,
         RealmReceives(n, type), UNCHANGED <<node, toNode, newest>>
  PROVE  Travels
<1>1. toRealm[n] # <<>> /\ \A m \in Node : m # n => toRealm'[m] = toRealm[m]
  BY Heard DEF Inv
<1>2. \A m \in Node : Copies(m)' = Copies(m)
  BY DEF Copies
<1>3. CASE Playing(n)
  <2>1. Copies(n)' # <<>>
    BY <1>2, <1>3, PlayingHere
  <2>2. Playing(n)'
    BY <2>1 DEF Located
  <2> QED
    BY <1>3, <2>2, JourneyStages DEF Travels
<1>4. CASE Leaving(n)
  <2>1. \A m \in Node : Copies(m) = <<>> /\ NoLogIn(toNode[m])
    BY <1>4 DEF Leaving, NobodyBut, Absent
  <2>2. \A m \in Node : ~Playing(m)' /\ ~Sent(m)'
    BY <1>2, <2>1 DEF Playing, Sent, OneLogIn, NoLogIn, CharacterLogIn
  <2>3. \A m \in Node : m # n => ~Leaving(m)'
    BY <1>1, <1>4 DEF Leaving, NobodyBut, Absent, Farewell
  <2> QED
    BY <1>4, <2>2, <2>3, JourneyStages DEF OnePlace, Travels
<1> QED
  BY <1>1, <1>3, <1>4, HasMail

(* The node that has the character keeps it, or says something. *)
LEMMA NodeKeepsOrTells ==
  ASSUME OnePlace, Located', Seen, Seen', NEW n \in Node, Copies(n) # <<>>, newest' = newest,
         Copies(n)' # <<>> \/ toRealm'[n] # <<>>
  PROVE  Travels
<1>1. Playing(n)
  BY HasCopy
<1>2. Playing(n)' \/ Leaving(n)'
  BY DEF Located
<1> QED
  BY <1>1, <1>2, JourneyStages DEF Travels

(* What is said is not nothing. *)
LEMMA Tells ==
  ASSUME Inv, NEW n \in Node, NEW messages \in Seq(MessageToRealm), messages # <<>>,
         SendToRealm(n, messages)
  PROVE  toRealm'[n] # <<>>
<1>1. Len(messages) \in Nat /\ Len(messages) # 0
  BY EmptySeq
<1>2. Len(toRealm'[n]) = Len(toRealm[n]) + Len(messages) /\ Len(toRealm[n]) \in Nat
  BY Appended DEF Inv
<1>3. \A j, k \in Nat : k # 0 => j + k # 0
  OBVIOUS
<1>4. Len(toRealm'[n]) # 0
  BY <1>1, <1>2, <1>3
<1>5. Len(<<>>) = 0
  OBVIOUS
<1> QED
  BY ONLY <1>4, <1>5

(* The last words alone. *)
LEMMA JustTells ==
  ASSUME Inv, NEW n \in Node, NEW copy \in Copy, NEW reason \in Reason,
         SendToRealm(n, LastWords(copy, reason))
  PROVE  toRealm'[n] # <<>>
<1>1. LastWords(copy, reason) \in Seq(MessageToRealm) /\ LastWords(copy, reason) # <<>>
  BY LastWordsType DEF LastWords
<1> QED
  BY <1>1, Tells

(* The log-in makes the one copy. *)
LEMMA LoginTravels ==
  ASSUME Inv, OnePlace, Located', Seen, Seen', NEW n \in Node, HandleCharacterLogin(n)
  PROVE  Travels
<1>1. NodeReceives(n, "CharacterLogIn") /\ newest' = newest
  BY DEF HandleCharacterLogin
<1>2. toNode[n] \in Seq(MessageToNode) /\ toNode[n] # <<>>
      /\ toNode[n][1].type = "CharacterLogIn"
  BY <1>1 DEF Inv, MessagesOK, NodeReceives
<1>3. 1 \in DOMAIN toNode[n]
  BY <1>2
<1>4. Sent(n)
  BY <1>2, <1>3, HasLogIn DEF NoLogIn
<1>5. Copies(n)' # <<>>
  <2>1. Copies(n)' = Append(Copies(n), [data |-> Head(toNode[n]).data, logout |-> FALSE])
    BY DEF HandleCharacterLogin, Copies, Inv, TypeOK
  <2>2. Copies(n) = <<>>
    BY <1>4 DEF Sent, Absent
  <2> QED
    BY <2>1, <2>2
<1>6. Playing(n)'
  BY <1>5 DEF Located
<1> QED
  BY <1>1, <1>4, <1>6, JourneyStages DEF Travels

(* The realm sends the character away. *)
LEMMA LeaveTravels ==
  ASSUME Inv, OnePlace, OnePlace', Located', Seen, Seen',
         NEW n \in Node, HandleLeaveWorldInstance(n)
  PROVE  Travels
<1>1. NodeReceives(n, "LeaveWorldInstance") /\ newest' = newest
  BY DEF HandleLeaveWorldInstance
<1>2. Head(toNode[n]).reason \in Reason /\ LogInsStay
  BY <1>1, NodeReceivesType, ReceivingKeepsLogIns DEF Inv, MessageToNode
<1>3. CASE Copies(n) = <<>>
  BY <1>1, <1>2, <1>3, SetsOut DEF HandleLeaveWorldInstance
<1>4. CASE Copies(n) # <<>>
  <2>1. SendToRealm(n, LastWords(Copies(n)[1], Head(toNode[n]).reason))
    BY <1>4 DEF HandleLeaveWorldInstance
  <2>2. Copies(n)[1] \in Copy
    BY <1>4, FirstCopy, CopyType DEF Inv
  <2>3. toRealm'[n] # <<>>
    BY <1>2, <2>1, <2>2, JustTells
  <2> QED
    BY <1>1, <1>4, <2>3, NodeKeepsOrTells
<1> QED
  BY <1>3, <1>4

(* A client's packet. *)
LEMMA PacketTravels ==
  ASSUME Inv, OnePlace, OnePlace', Located', Seen, Seen', NEW n \in Node, HandleProxyPacket(n)
  PROVE  Travels
<1> DEFINE packet == Head(toNode[n]).packet
<1>1. NodeReceives(n, "ClientProxyPacket") /\ newest' = newest
  BY DEF HandleProxyPacket
<1>2. packet \in Packet /\ LogInsStay
  BY <1>1, NodeReceivesType, ReceivingKeepsLogIns DEF Inv, MessageToNode
<1>3. CASE Copies(n) = <<>>
  BY <1>1, <1>2, <1>3, SetsOut DEF HandleProxyPacket
<1>4. CASE Copies(n) # <<>> /\ packet = "InvalidMovement"
  <2>1. SendToRealm(n, LastWords(Copies(n)[1], "Disconnect")) /\ "Disconnect" \in Reason
    BY <1>4 DEF HandleProxyPacket, Reason
  <2>2. Copies(n)[1] \in Copy
    BY <1>4, FirstCopy, CopyType DEF Inv
  <2>3. toRealm'[n] # <<>>
    BY <2>1, <2>2, JustTells
  <2> QED
    BY <1>1, <1>4, <2>3, NodeKeepsOrTells
<1>5. CASE Copies(n) # <<>> /\ packet \in {"LogoutRequest", "LogoutCancel"}
  <2>1. Copies(n)' = [Copies(n) EXCEPT ![1].logout = packet = "LogoutRequest"]
    <3>1. node' = [node EXCEPT ![n].copies[1].logout = packet = "LogoutRequest"]
      BY <1>5 DEF HandleProxyPacket
    <3> QED
      BY <3>1 DEF Copies, Inv, TypeOK
  <2>2. Copies(n) \in Seq(Copy) /\ Copies(n)[1] \in Copy
    BY <1>5, FirstCopy, CopyType DEF Inv, TypeOK, Copies, Copy
  <2>3. DOMAIN Copies(n)' = DOMAIN Copies(n) /\ 1 \in DOMAIN Copies(n)
    BY <1>5, <2>1, <2>2
  <2>4. Copies(n)' # <<>>
    BY <2>3
  <2> QED
    BY <1>1, <1>5, <2>4, NodeKeepsOrTells
<1> QED
  BY <1>2, <1>3, <1>4, <1>5 DEF Packet

(* The countdown of the logout and the teleport end the stay. *)
LEMMA DepartureTravels ==
  ASSUME Inv, OnePlace, Located', Seen, Seen', NEW n \in Node,
         \/ \E i \in DOMAIN Copies(n) : OnLogout(n, i)
         \/ \E map \in Node : OnTeleport(n, map)
  PROVE  Travels
<1>1. newest' = newest /\ Copies(n) # <<>>
  <2>1. \A i \in DOMAIN Copies(n) : Copies(n) # <<>>
    OBVIOUS
  <2> QED
    BY <2>1 DEF OnLogout, OnTeleport
<1>2. CASE \E i \in DOMAIN Copies(n) : OnLogout(n, i)
  <2>1. PICK i \in DOMAIN Copies(n) : OnLogout(n, i)
    BY <1>2
  <2>2. Copies(n)[i] \in Copy /\ "Logout" \in Reason
    BY CopyType DEF Inv, TypeOK, Copies, Copy, Reason
  <2>3. SendToRealm(n, LastWords(Copies(n)[i], "Logout"))
    BY <2>1 DEF OnLogout
  <2>4. toRealm'[n] # <<>>
    BY <2>2, <2>3, JustTells
  <2> QED
    BY <1>1, <2>4, NodeKeepsOrTells
<1>3. CASE \E map \in Node : OnTeleport(n, map)
  <2>1. PICK map \in Node : OnTeleport(n, map)
    BY <1>3
  <2> DEFINE last == LastWords(Copies(n)[1], "Teleport")
  <2>2. Copies(n)[1] \in Copy /\ "Teleport" \in Reason
    BY <1>1, FirstCopy, CopyType DEF Inv, Reason
  <2>3. last \in Seq(MessageToRealm)
    BY <2>2, LastWordsType
  <2>4. <<TeleportRequest(map)>> \in Seq(MessageToRealm) /\ Len(<<TeleportRequest(map)>>) = 1
    BY DEF TeleportRequest, MessageToRealm
  <2>5. SendToRealm(n, <<TeleportRequest(map)>> \o last)
    BY <2>1 DEF OnTeleport
  <2> HIDE DEF last
  <2>6. /\ <<TeleportRequest(map)>> \o last \in Seq(MessageToRealm)
        /\ <<TeleportRequest(map)>> \o last # <<>>
    BY <2>3, <2>4
  <2>7. toRealm'[n] # <<>>
    BY <2>5, <2>6, Tells
  <2> QED
    BY <1>1, <2>7, NodeKeepsOrTells
<1> QED
  BY <1>2, <1>3

(* What clients, the realm's sessions and the web interface do. *)
LEMMA ClientTravels ==
  ASSUME Inv, OnePlace, OnePlace', Located', Seen, Seen', Client
  PROVE  Travels
<1>1. UNCHANGED <<node, toRealm, newest>>
  BY DEF Client, LoginSucceeded, HandlePlayerLogin, ConnectionLost, ConnectionMalformedPacket,
         RedirectPacket, WebTeleport, HandleMoveWorldPortAck, link
<1>2. LogInsStay
  <2>1. CASE UNCHANGED toNode
    BY <2>1 DEF LogInsStay
  <2>2. ASSUME NEW n \in Node, NEW message, SendToNode(n, message) PROVE LogInsStay
    BY <2>2, SendingKeepsLogIns
  <2>3. UNCHANGED toNode \/ \E n \in Node, message \in MessageToNode : SendToNode(n, message)
    <3>1. CASE LoginSucceeded
      BY <3>1 DEF LoginSucceeded, link
    <3>2. CASE HandlePlayerLogin
      BY <3>2, CharacterLogInType DEF HandlePlayerLogin, WorldByMapId, Inv, TypeOK
    <3>3. CASE ConnectionLost
      BY <3>3, LeaveType DEF ConnectionLost, WorldByInstanceId, Inv, TypeOK, Reason
    <3>4. CASE ConnectionMalformedPacket
      BY <3>4, LeaveType DEF ConnectionMalformedPacket, Inv, TypeOK, Reason
    <3>5. ASSUME NEW packet \in Packet, RedirectPacket(packet)
          PROVE  \E n \in Node, message \in MessageToNode : SendToNode(n, message)
      <4>1. ClientProxyPacket(packet) \in MessageToNode
        BY DEF ClientProxyPacket, MessageToNode
      <4> QED
        BY <3>5, <4>1 DEF RedirectPacket, WorldByInstanceId, Inv, TypeOK
    <3>6. ASSUME NEW map \in Node, WebTeleport(map)
          PROVE  \E n \in Node, message \in MessageToNode : SendToNode(n, message)
      BY <3>6, LeaveType DEF WebTeleport, WorldByInstanceId, Inv, TypeOK, Reason
    <3>7. CASE HandleMoveWorldPortAck
      <4>1. player.data \in Nat
        BY <3>7 DEF HandleMoveWorldPortAck, Inv, TypeOK
      <4> QED
        BY <3>7, <4>1, CharacterLogInType DEF HandleMoveWorldPortAck, WorldByMapId, Inv, TypeOK
    <3> QED
      BY <3>1, <3>2, <3>3, <3>4, <3>5, <3>6, <3>7 DEF Client, Packet
  <2> QED
    BY <2>1, <2>2, <2>3
<1> QED
  BY <1>1, <1>2, SetsOut

(* The realm's handlers. *)
LEMMA RealmTravels ==
  ASSUME Inv, OnePlace, OnePlace', Located', Seen, Seen', NEW n \in Node, RealmHandles(n)
  PROVE  Travels
<1>1. UNCHANGED <<node, toNode, newest>> /\ \E type : RealmReceives(n, type)
  BY DEF RealmHandles, HandleWorldInstanceEntered, HandleCharacterData, HandleTeleportRequest,
         HandleWorldInstanceLeft
<1> QED
  BY <1>1, RealmHearsOf

(* The character changes only where it plays. *)
LEMMA PlayIsPlay ==
  ASSUME Inv, OnePlace, Located', Seen, Seen', NEW n \in Node, NEW levels \in BOOLEAN,
         Play(n, levels)
  PROVE  Journey!Plays
<1>1. Playing(n) /\ newest' = newest + 1
  BY HasCopy DEF Play
<1>2. Copies(n)' = [Copies(n) EXCEPT ![1].data = newest + 1]
  BY DEF Play, Copies, Inv, TypeOK
<1>3. Copies(n) \in Seq(Copy) /\ Copies(n) # <<>>
  BY <1>1, PlayingHere DEF Inv, TypeOK, Copies, Copy
<1>4. DOMAIN Copies(n)' = DOMAIN Copies(n) /\ 1 \in DOMAIN Copies(n)
  BY <1>2, <1>3
<1>5. Copies(n)' # <<>>
  BY <1>4
<1>6. Looks("playing", n) /\ Looks("playing", n)'
  BY <1>1, <1>5 DEF Located, Seen
<1> QED
  BY <1>1, <1>6 DEF Looks, Journey!Plays

(* Every step is one of the journey, or leaves it where it is. *)
LEMMA JourneyStep ==
  Inv /\ Followed /\ Inv' /\ Followed' /\ [Next]_vars => [Journey!Next]_(Journey!vars)
<1> SUFFICES ASSUME Inv, Followed, Inv', Followed', [Next]_vars
             PROVE  [Journey!Next]_(Journey!vars)
  OBVIOUS
<1>1. mishaps \in Nat /\ mishaps' \in {mishaps, mishaps + 1}
  BY MishapsRemain DEF Inv, TypeOK
<1>2. CASE mishaps' # 0
  <2>1. mishaps' > 0
    BY <1>1, <1>2
  <2>2. Stage' = "lost"
    BY <2>1 DEF Stage
  <2>3. Place' = NoNode /\ Carried' = 0
    BY <2>2 DEF Place, Carried
  <2>4. Journey!CutOff
    BY <2>2, <2>3 DEF Journey!CutOff
  <2> QED
    BY <2>4 DEF Journey!Next
<1>3. CASE mishaps' = 0
  <2>1. mishaps = 0 /\ mishaps' = mishaps
    BY <1>1, <1>3
  <2>2. OnePlace /\ OnePlace' /\ Located /\ Located' /\ Seen /\ Seen'
    BY <1>3, <2>1 DEF Followed
  <2>3. Travels => Journey!Next \/ UNCHANGED Journey!vars
    BY DEF Travels, Journey!Next
  <2> HIDE DEF Travels
  <2>4. CASE Client
    BY <2>2, <2>3, <2>4, ClientTravels
  <2>5. ASSUME NEW n \in Node, RealmHandles(n) PROVE Travels
    BY <2>2, <2>5, RealmTravels
  <2>6. ASSUME NEW n \in Node, NodeHandles(n) PROVE Travels
    BY <2>2, <2>6, LoginTravels, LeaveTravels, PacketTravels DEF NodeHandles
  <2>7. ASSUME NEW n \in Node, \/ \E i \in DOMAIN Copies(n) : OnLogout(n, i)
                               \/ \E map \in Node : OnTeleport(n, map)
        PROVE  Travels
    BY <2>2, <2>7, DepartureTravels
  <2>8. ASSUME NEW n \in Node, NEW levels \in BOOLEAN, Play(n, levels) PROVE Journey!Next
    BY <2>2, <2>8, PlayIsPlay DEF Journey!Next
  <2>9. ~(\E n \in Node : LinkLost(n) \/ SendsWithoutLink(n) \/ Reconnect(n))
    BY <2>1, <2>2 DEF LinkLost, SendsWithoutLink, Reconnect, Mishap, OnePlace
  <2>10. CASE UNCHANGED vars
    <3>1. LogInsStay /\ UNCHANGED <<node, toRealm, newest>>
      BY <2>10 DEF vars, LogInsStay
    <3>2. Travels
      BY <2>2, <3>1, SetsOut
    <3> QED
      BY <2>3, <3>2
  <2> QED
    BY <2>3, <2>4, <2>5, <2>6, <2>7, <2>8, <2>9, <2>10 DEF Next
<1> QED
  BY <1>2, <1>3

(* The journey starts at home. *)
LEMMA JourneyInit == Init => Journey!Init
<1> SUFFICES ASSUME Init PROVE Journey!Init
  OBVIOUS
<1>1. Inv /\ Home /\ mishaps = 0 /\ newest = 0
  <2>1. Inv
    BY InitInv
  <2>2. mishaps = 0 /\ newest = 0
    BY DEF Init
  <2>3. Home
    BY DEF Init, Home, Absent, Copies, NoLogIn, Stored, NoPlayer
  <2> QED
    BY <2>1, <2>2, <2>3
<1>2. Looks("home", NoNode)
  BY <1>1, HomeSeen
<1> QED
  BY <1>1, <1>2 DEF Looks, Journey!Init

(* The realm, the nodes and their messages in both directions implement the
   journey: as long as no session and no link is cut off there is one character,
   in one place at a time, which goes to a node only from the database, comes
   back only from a node, and arrives with the data it left with
   (worldInstanceEntered, characterData and worldInstanceLeft, player.cpp). *)
THEOREM JourneyIsOne == Spec => IsOneJourney
<1> SUFFICES Spec => Journey!Spec
  BY DEF IsOneJourney
<1> QED
  BY InitInv, StepInv, InitStage, StepStage, StageFollowed, JourneyInit, JourneyStep, PTL
     DEF Spec, Journey!Spec
=============================================================================
