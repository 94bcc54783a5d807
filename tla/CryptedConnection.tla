------------------------- MODULE CryptedConnection -------------------------
(***************************************************************************)
(* The realm's connection to a game client: CryptedConnection between the  *)
(* socket's operations, which complete on their own, and its listener, the *)
(* realm's Player, which answers packets, waits for the database, outlives *)
(* the client while a node saves the character, and may go at any time.    *)
(*                                                                         *)
(* The bytes of a packet are cells: HeaderLength cells of the encrypted    *)
(* header (6 bytes in the code) and a body, which is not encrypted.  The   *)
(* client is logged in, so every packet has an encrypted header.           *)
(* A handler of the event loop is one step, but parsePackets takes a step  *)
(* per packet, during which the operations of the socket go on.            *)
(***************************************************************************)
EXTENDS Naturals, Sequences, SequencesExt

CONSTANTS
  HeaderLength,  \* Crypt::CryptedReceiveLength, in cells
  BodyLengths,   \* the lengths of bodies
  MaxPackets,    \* bound: packets of the client
  MaxReplies     \* bound: packets for the client

ASSUME CryptedConnectionAssumption ==
  /\ HeaderLength \in Nat \ {0}
  /\ BodyLengths \subseteq Nat
  /\ {MaxPackets, MaxReplies} \subseteq Nat

VARIABLES
  client,          \* the client's side of the connection is open
  sent,            \* how many packets the client has sent
  wire,            \* cells on the way to the server
  peer,            \* packets the client has got
  socket,          \* m_socket: open, closed or null
  reading,         \* m_isReceiving: an async_read_some is under way
  receiving,       \* m_receiving, when that read has completed
  received,        \* m_received
  decryptedUntil,  \* m_decryptedUntil
  key,             \* headers decrypted so far (m_crypt)
  parsing,         \* m_isParsingIncomingData
  parsedUntil,     \* parsedUntil, while parsing
  closedOnParsing, \* m_isClosedOnParsing
  write,           \* the async_write: none, pending, done or failed
  sending,         \* m_sending
  sendBuffer,      \* m_sendBuffer
  replies,         \* how many packets the Player has sent
  listener,        \* m_listener is set
  player,          \* the Player: here; lost, without client; gone
  requests,        \* requests of the Player to the database
  handled,         \* history: packets given to the listener
  told,            \* history: ends the listener was told of
  crashed          \* a null m_socket was used: the process ends

peerSide == <<client, sent, wire>>
reader == <<reading, receiving, received, decryptedUntil, key, parsing, parsedUntil>>
writer == <<peer, write, sending, sendBuffer, replies>>
ends == <<socket, closedOnParsing, listener, player, told>>
vars == <<peerSide, reader, writer, ends, requests, handled, crashed>>

Init ==
  /\ client = TRUE /\ sent = 0 /\ wire = <<>> /\ peer = <<>>
  /\ socket = "open" /\ closedOnParsing = FALSE
  /\ reading = TRUE /\ receiving = <<>> /\ received = <<>>
  /\ decryptedUntil = 0 /\ key = 0
  /\ parsing = FALSE /\ parsedUntil = 0
  /\ write = "none" /\ sending = <<>> /\ sendBuffer = <<>> /\ replies = 0
  /\ listener = TRUE /\ player = "here" /\ requests = 0
  /\ handled = <<>> /\ told = <<>>
  /\ crashed = FALSE

Junk == 0

Cell(packet, length, i) ==
  [packet |-> packet, length |-> length, offset |-> i,
   text |-> IF i <= HeaderLength THEN "cipher" ELSE "plain"]
Cells(packet, length) == [i \in 1 .. length |-> Cell(packet, length, i)]

-----------------------------------------------------------------------------
(* The client and the operations of the socket. *)

ClientSends(body) ==
  /\ client /\ ~crashed
  /\ sent < MaxPackets
  /\ sent' = sent + 1
  /\ wire' = wire \o Cells(sent + 1, HeaderLength + body)
  /\ UNCHANGED <<client, reader, writer, ends, requests, handled, crashed>>

\* What is on the way arrives, or is lost with a reset.
ClientGoes ==
  /\ client /\ ~crashed
  /\ client' = FALSE
  /\ wire' \in {wire, <<>>}
  /\ UNCHANGED <<sent, reader, writer, ends, requests, handled, crashed>>

ReadCompletes(size) ==
  /\ reading /\ receiving = <<>> /\ socket = "open" /\ ~crashed
  /\ receiving' = SubSeq(wire, 1, size)
  /\ wire' = SubSeq(wire, size + 1, Len(wire))
  /\ UNCHANGED <<client, sent, reading, received, decryptedUntil, key, parsing, parsedUntil,
                 writer, ends, requests, handled, crashed>>

WriteCompletes ==
  /\ write = "pending" /\ socket = "open" /\ client /\ ~crashed
  /\ write' = "done"
  /\ peer' = peer \o sending
  /\ UNCHANGED <<sending, sendBuffer, replies, peerSide, reader, ends, requests, handled, crashed>>

-----------------------------------------------------------------------------
(* Sending. *)

FlushAnyway(buffer, current) ==
  /\ sending' = buffer
  /\ sendBuffer' = <<>>
  /\ write' = "pending"
  /\ UNCHANGED crashed
\* flush, with m_sendBuffer = buffer and m_sending = current; beginSend uses
\* m_socket unasked.
Flush(buffer, current) ==
  \/ /\ current # <<>>
     /\ sendBuffer' = buffer
     /\ UNCHANGED <<sending, write, crashed>>
  \/ /\ current = <<>> /\ buffer = <<>>
     /\ sending' = <<>>
     /\ write' = "none"
     /\ UNCHANGED <<sendBuffer, crashed>>
  \/ /\ current = <<>> /\ buffer # <<>> /\ socket # "null"
     /\ sending' = buffer
     /\ sendBuffer' = <<>>
     /\ write' = "pending"
     /\ UNCHANGED crashed
  \/ /\ current = <<>> /\ buffer # <<>> /\ socket = "null"
     /\ crashed' = TRUE
     /\ UNCHANGED <<sending, sendBuffer, write>>

\* sendSinglePacket and Player::sendPacket.
SendReply ==
  /\ replies < MaxReplies
  /\ replies' = replies + 1
  /\ Flush(Append(sendBuffer, replies + 1), sending)
  /\ UNCHANGED peer

MaySend(sends) == IF sends THEN SendReply ELSE UNCHANGED <<writer, crashed>>

\* The Player sends a packet on another occasion than a packet of the client.
Send ==
  /\ player # "gone" /\ ~parsing /\ ~crashed
  /\ SendReply
  /\ UNCHANGED <<peerSide, reader, ends, requests, handled>>

-----------------------------------------------------------------------------
(* The end of the connection. *)

ToldAndStays(stays) ==
  /\ told' = IF listener THEN Append(told, "lost") ELSE told
  /\ player' = IF ~listener THEN player ELSE IF stays THEN "lost" ELSE "gone"
  /\ listener' = (listener /\ stays)
  /\ IF listener /\ ~stays
     THEN closedOnParsing' = TRUE /\ socket' = "closed"
     ELSE UNCHANGED <<closedOnParsing, socket>>
\* disconnected: Player::connectionLost waits for the node, or destroys the
\* Player, which closes the connection.
Disconnected(stays) ==
  /\ told' = IF listener THEN Append(told, "lost") ELSE told
  /\ player' = IF ~listener THEN player ELSE IF stays THEN "lost" ELSE "gone"
  /\ listener' = FALSE
  /\ IF listener /\ ~stays
     THEN closedOnParsing' = TRUE /\ socket' = "closed"
     ELSE UNCHANGED <<closedOnParsing, socket>>

\* Player::destroy outside of parsePackets: resetListener, close.
DestroyPlayer ==
  /\ player' = "gone"
  /\ listener' = FALSE
  /\ closedOnParsing' = TRUE
  /\ socket' = "closed"
  /\ UNCHANGED told

Destroy ==
  /\ player # "gone" /\ ~parsing /\ ~crashed
  /\ DestroyPlayer
  /\ UNCHANGED <<peerSide, reader, writer, requests, handled, crashed>>

\* sent(error): m_sending is not cleared; a part may have arrived.
SentFails(arrived, stays) ==
  /\ write = "pending" /\ (socket # "open" \/ ~client) /\ ~parsing /\ ~crashed
  /\ write' = "failed"
  /\ peer' = peer \o SubSeq(sending, 1, arrived)
  /\ Disconnected(stays)
  /\ UNCHANGED <<sending, sendBuffer, replies, peerSide, reader, requests, handled, crashed>>

\* sent: m_sending.clear(), flush.
Sent ==
  /\ write = "done" /\ ~parsing /\ ~crashed
  /\ Flush(sendBuffer, <<>>)
  /\ UNCHANGED <<peer, replies, peerSide, reader, ends, requests, handled>>

-----------------------------------------------------------------------------
(* Receiving. *)

\* received with size 0: the end of the stream, or an error.
ReceivedNothing(stays) ==
  /\ reading /\ receiving = <<>> /\ ~parsing /\ ~crashed
  /\ socket # "open" \/ (~client /\ wire = <<>>)
  /\ reading' = FALSE
  /\ Disconnected(stays)
  /\ UNCHANGED <<receiving, received, decryptedUntil, key, parsing, parsedUntil,
                 peerSide, writer, requests, handled, crashed>>

Received ==
  /\ reading /\ receiving # <<>> /\ ~parsing /\ ~crashed
  /\ reading' = FALSE
  /\ received' = received \o receiving
  /\ receiving' = <<>>
  /\ parsing' = TRUE
  /\ parsedUntil' = 0
  /\ UNCHANGED <<decryptedUntil, key, peerSide, writer, ends, requests, handled, crashed>>

\* The answer to a Block: the Player replies and resumes parsing; some answers
\* (no such character) do neither, and a Player that is gone is not called.
DatabaseAnswers(resumes, sends) ==
  /\ requests > 0 /\ ~parsing /\ ~crashed
  /\ requests' = requests - 1
  /\ IF player # "gone" /\ resumes
     THEN /\ MaySend(sends)
          /\ parsing' = TRUE
          /\ parsedUntil' = 0
     ELSE UNCHANGED <<writer, crashed, parsing, parsedUntil>>
  /\ UNCHANGED <<reading, receiving, received, decryptedUntil, key, peerSide, ends, handled>>

\* The list of characters could not be read.
DatabaseFails ==
  /\ requests > 0 /\ player # "gone" /\ ~parsing /\ ~crashed
  /\ requests' = requests - 1
  /\ DestroyPlayer
  /\ UNCHANGED <<peerSide, reader, writer, handled, crashed>>

-----------------------------------------------------------------------------
(* Parsing. *)

Available == Len(received) - parsedUntil

\* decryptReceive continues where the last header ended.
KeyFits ==
  \A i \in 1 .. HeaderLength :
    LET cell == received[parsedUntil + i]
    IN cell.packet = key + 1 /\ cell.offset = i /\ cell.text = "cipher"

\* A header that is complete and was not decrypted when it was incomplete.
Decrypts == decryptedUntil <= parsedUntil /\ Available >= HeaderLength

Deciphered ==
  IF Decrypts
  THEN [i \in DOMAIN received |->
          IF i \in parsedUntil + 1 .. parsedUntil + HeaderLength
          THEN [received[i] EXCEPT !.text = IF KeyFits THEN "plain" ELSE "garbage"]
          ELSE received[i]]
  ELSE received

DecryptedUntil == IF Decrypts THEN parsedUntil + HeaderLength ELSE decryptedUntil
NextKey == IF Decrypts THEN key + 1 ELSE key

Readable(buffer) ==
  \A i \in 1 .. HeaderLength :
    buffer[parsedUntil + i].text = "plain" /\ buffer[parsedUntil + i].offset = i

\* IncomingPacket::start: the lengths a packet at parsedUntil may have; 0: incomplete.
Lengths(buffer) ==
  IF Available < HeaderLength THEN {0}
  ELSE IF Readable(buffer)
       THEN {IF buffer[parsedUntil + 1].length <= Available
             THEN buffer[parsedUntil + 1].length ELSE 0}
       ELSE {0} \union (HeaderLength .. Available)

Packet(buffer) == IF Readable(buffer) THEN buffer[parsedUntil + 1].packet ELSE Junk

\* m_decryptedUntil is an offset in m_received, whose first bytes are erased.
UntilAfterErase(until) == IF until > 0 THEN 0 ELSE DecryptedUntil

ReceiveWhenResumed == UNCHANGED reading
BeginReceive == reading' = TRUE

\* The rest of parsePackets, behind the last packet.
ParsingEnds(buffer, until) ==
  /\ parsing' = FALSE
  /\ parsedUntil' = 0
  /\ IF closedOnParsing
     THEN /\ closedOnParsing' = FALSE
          /\ socket' = "null"
          /\ received' = buffer
          /\ decryptedUntil' = DecryptedUntil
          /\ UNCHANGED reading
     ELSE /\ BeginReceive
          /\ received' = SubSeq(buffer, until + 1, Len(buffer))
          /\ decryptedUntil' = UntilAfterErase(until)
          /\ UNCHANGED <<closedOnParsing, socket>>
  /\ UNCHANGED <<listener, player, told>>

PassOn(buffer, until) ==
  /\ received' = buffer
  /\ parsedUntil' = until
  /\ decryptedUntil' = DecryptedUntil
  /\ UNCHANGED <<parsing, reading, ends>>

\* PacketParseResult::Disconnect: connectionMalformedPacket destroys the Player,
\* which closes the connection that is parsing.
DisconnectsPlayer(buffer) ==
  /\ socket' = "null"
  /\ told' = Append(told, "malformed")
  /\ player' = "gone"
  /\ listener' = FALSE
  /\ closedOnParsing' = FALSE
  /\ received' = buffer
  /\ parsing' = FALSE
  /\ parsedUntil' = 0
  /\ decryptedUntil' = DecryptedUntil
  /\ UNCHANGED reading

BlockedUntilAgain(length) == parsedUntil
\* A packet that blocks counts as parsed, like every other.
BlockedUntil(length) == parsedUntil + length

\* An incomplete packet, or one that has nobody to be given to.
ParseRest(length) ==
  /\ parsing /\ ~crashed
  /\ length \in Lengths(Deciphered)
  /\ length = 0 \/ ~listener
  /\ ParsingEnds(Deciphered, parsedUntil + length)
  /\ key' = NextKey
  /\ UNCHANGED <<receiving, peerSide, writer, requests, handled, crashed>>

\* connectionPacketReceived may send an answer.
ParsePacket(length, result, sends) ==
  /\ parsing /\ ~crashed
  /\ length \in Lengths(Deciphered) \ {0}
  /\ listener
  /\ handled' = Append(handled, Packet(Deciphered))
  /\ MaySend(sends)
  /\ CASE result = "Pass" -> PassOn(Deciphered, parsedUntil + length) /\ UNCHANGED requests
       [] result = "Block" -> /\ ParsingEnds(Deciphered, BlockedUntil(length))
                              /\ requests' = requests + 1
       [] result = "Disconnect" -> DisconnectsPlayer(Deciphered) /\ UNCHANGED requests
  /\ key' = NextKey
  /\ UNCHANGED <<receiving, peerSide>>

-----------------------------------------------------------------------------

Results == {"Pass", "Block", "Disconnect"}

EventLoop ==
  \/ Received
  \/ Sent
  \/ \E stays \in BOOLEAN : ReceivedNothing(stays)
  \/ \E arrived \in 0 .. Len(sending), stays \in BOOLEAN : SentFails(arrived, stays)
  \/ \E length \in 0 .. Len(received) :
       \/ ParseRest(length)
       \/ \E result \in Results, sends \in BOOLEAN : ParsePacket(length, result, sends)

System == \E size \in 1 .. Len(wire) : ReadCompletes(size)

Next ==
  \/ EventLoop
  \/ System
  \/ \E body \in BodyLengths : ClientSends(body)
  \/ ClientGoes
  \/ WriteCompletes
  \/ Send
  \/ Destroy
  \/ DatabaseFails
  \/ \E resumes \in BOOLEAN, sends \in BOOLEAN : DatabaseAnswers(resumes, sends)

Spec == Init /\ [][Next]_vars

(* The event loop runs and the socket passes on what arrives; nothing is
   assumed of the client, the Player or the database. *)
FairSpec == Spec /\ WF_vars(EventLoop) /\ WF_vars(System)

-----------------------------------------------------------------------------
(* Properties. *)

CellSet == [packet : Nat, length : Nat, offset : Nat, text : {"cipher", "plain", "garbage"}]

TypeOK ==
  /\ client \in BOOLEAN /\ reading \in BOOLEAN /\ parsing \in BOOLEAN
  /\ closedOnParsing \in BOOLEAN /\ listener \in BOOLEAN /\ crashed \in BOOLEAN
  /\ sent \in Nat /\ replies \in Nat /\ requests \in Nat /\ key \in Nat
  /\ wire \in Seq(CellSet) /\ receiving \in Seq(CellSet) /\ received \in Seq(CellSet)
  /\ peer \in Seq(Nat) /\ sending \in Seq(Nat) /\ sendBuffer \in Seq(Nat)
  /\ handled \in Seq(Nat)
  /\ decryptedUntil \in 0 .. Len(received)
  /\ parsedUntil \in 0 .. Len(received)
  /\ socket \in {"open", "closed", "null"}
  /\ write \in {"none", "pending", "done", "failed"}
  /\ player \in {"here", "lost", "gone"}
  /\ told \in Seq({"lost", "malformed"})

(* A Player hears of the end of its connection at most once, and is the
   listener only while it is alive and has heard nothing. *)
ToldOnce ==
  /\ Len(told) <= 1
  /\ listener => told = <<>> /\ player = "here"

Upto(n) == [i \in 1 .. n |-> i]
Garbled == \E i \in DOMAIN received : received[i].text = "garbage"
JunkUpto(i) == \E j \in 1 .. i : handled[j] = Junk

(* Up to the first header that went wrong the listener gets the client's
   packets in their order, each one once. *)
HandledInOrder == \A i \in DOMAIN handled : JunkUpto(i) \/ handled[i] = i

(* The client gets the Player's packets in their order, none twice, and none
   is missing unless a write failed. *)
RepliesInOrder ==
  /\ IsPrefix(peer, Upto(replies))
  /\ write # "failed" =>
       peer \o (IF write = "pending" THEN sending ELSE <<>>) \o sendBuffer = Upto(replies)

(* A client that goes is noticed. *)
EndIsTold == ~client ~> ~listener

(* parsePackets: "This will prevent double-decryption of the header (which
   would produce invalid packet sizes)". *)
HeaderDecryptedOnce == ~Garbled
=============================================================================
