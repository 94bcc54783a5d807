---------------------- MODULE CryptedConnectionProofs ----------------------
(***************************************************************************)
(* The types of CryptedConnection; that the Player hears of the end of its *)
(* connection once and is no listener afterwards; that its replies arrive  *)
(* in their order and completely; and that it gets the client's packets in *)
(* their order.  All for headers and bodies of any length, any number of   *)
(* packets and replies, and any pieces in which they arrive.               *)
(***************************************************************************)
EXTENDS CryptedConnection, SequenceTheorems, TLAPS

(* A socket that is closed, or about to be, belongs to no Player: so no Player
   ever sends without a socket. *)
SocketKept == socket # "open" \/ closedOnParsing => player = "gone"

(* Packets wait in m_sendBuffer only behind a write. *)
WriteFits ==
  /\ write = "none" => sending = <<>> /\ sendBuffer = <<>>
  /\ write # "none" => sending # <<>>

USE CryptedConnectionAssumption

-----------------------------------------------------------------------------
(* Types. *)

(* What Flush does to the sender's variables keeps their types. *)
LEMMA FlushType ==
  ASSUME TypeOK, NEW buffer \in Seq(Nat), NEW current \in Seq(Nat), Flush(buffer, current)
  PROVE  /\ sending' \in Seq(Nat) /\ sendBuffer' \in Seq(Nat)
         /\ write' \in {"none", "pending", "done", "failed"}
         /\ crashed' \in BOOLEAN
BY DEF TypeOK, Flush

(* A packet of the Player keeps the types. *)
LEMMA SendReplyType ==
  ASSUME TypeOK, SendReply
  PROVE  /\ peer' \in Seq(Nat) /\ sending' \in Seq(Nat) /\ sendBuffer' \in Seq(Nat)
         /\ write' \in {"none", "pending", "done", "failed"}
         /\ replies' \in Nat
         /\ crashed' \in BOOLEAN
<1>1. replies + 1 \in Nat /\ Append(sendBuffer, replies + 1) \in Seq(Nat) /\ sending \in Seq(Nat)
  BY DEF TypeOK
<1>2. Flush(Append(sendBuffer, replies + 1), sending)
  BY DEF SendReply
<1>3. sending' \in Seq(Nat) /\ sendBuffer' \in Seq(Nat) /\ crashed' \in BOOLEAN
      /\ write' \in {"none", "pending", "done", "failed"}
  BY <1>1, <1>2, FlushType
<1> QED
  BY <1>1, <1>3 DEF TypeOK, SendReply

(* So does a handler that may send one. *)
LEMMA MaySendType ==
  ASSUME TypeOK, NEW sends, MaySend(sends)
  PROVE  /\ peer' \in Seq(Nat) /\ sending' \in Seq(Nat) /\ sendBuffer' \in Seq(Nat)
         /\ write' \in {"none", "pending", "done", "failed"}
         /\ replies' \in Nat
         /\ crashed' \in BOOLEAN
BY SendReplyType DEF MaySend, TypeOK, writer

(* A packet of the client is made of cells. *)
LEMMA CellsType ==
  ASSUME NEW packet \in Nat, NEW length \in Nat
  PROVE  Cells(packet, length) \in Seq(CellSet)
<1>1. \A i \in 1 .. length : Cell(packet, length, i) \in CellSet
  BY DEF Cell, CellSet
<1> QED
  BY <1>1 DEF Cells

(* Decryption changes cells, not their number. *)
LEMMA DecipheredType ==
  ASSUME TypeOK
  PROVE  Deciphered \in Seq(CellSet) /\ Len(Deciphered) = Len(received)
<1>1. received \in Seq(CellSet) /\ DOMAIN received = 1 .. Len(received) /\ Len(received) \in Nat
  BY DEF TypeOK
<1>2. \A i \in DOMAIN received : received[i] \in CellSet
  BY <1>1, ElementOfSeq
<1>3. \A cell \in CellSet, text \in {"plain", "garbage"} : [cell EXCEPT !.text = text] \in CellSet
  BY DEF CellSet
<1>4. CASE Decrypts
  <2>1. \A i \in DOMAIN received :
          [received[i] EXCEPT !.text = IF KeyFits THEN "plain" ELSE "garbage"] \in CellSet
    BY <1>2, <1>3
  <2>2. Deciphered = [i \in 1 .. Len(received) |->
                        IF i \in parsedUntil + 1 .. parsedUntil + HeaderLength
                        THEN [received[i] EXCEPT !.text = IF KeyFits THEN "plain" ELSE "garbage"]
                        ELSE received[i]]
    BY <1>1, <1>4 DEF Deciphered
  <2> QED
    BY <1>1, <1>2, <2>1, <2>2
<1> QED
  BY <1>1, <1>4 DEF Deciphered

(* The offsets stay within m_received. *)
LEMMA OffsetsFit ==
  ASSUME TypeOK
  PROVE  /\ DecryptedUntil \in 0 .. Len(received)
         /\ \A length \in Lengths(Deciphered) :
              length \in Nat /\ parsedUntil + length \in 0 .. Len(received)
<1>1. /\ Len(received) \in Nat /\ parsedUntil \in 0 .. Len(received)
      /\ decryptedUntil \in 0 .. Len(received) /\ HeaderLength \in Nat \ {0}
  BY DEF TypeOK
<1>2. DecryptedUntil \in 0 .. Len(received)
  BY <1>1 DEF DecryptedUntil, Decrypts, Available
<1>3. ASSUME NEW length \in Lengths(Deciphered)
      PROVE  length \in Nat /\ parsedUntil + length \in 0 .. Len(received)
  <2>1. Available \in Nat /\ Available = Len(received) - parsedUntil
    BY <1>1 DEF Available
  <2>2. length \in 0 .. Available
    <3>1. CASE Available < HeaderLength
      BY <2>1, <3>1 DEF Lengths
    <3>2. CASE Available >= HeaderLength
      <4>1. parsedUntil + 1 \in 1 .. Len(Deciphered)
        BY <1>1, <2>1, <3>2, DecipheredType
      <4>2. Deciphered[parsedUntil + 1].length \in Nat
        <5>1. Deciphered[parsedUntil + 1] \in CellSet
          BY <4>1, DecipheredType, ElementOfSeq
        <5> QED
          BY <5>1 DEF CellSet
      <4> QED
        BY <1>1, <2>1, <3>2, <4>2 DEF Lengths
    <3> QED
      BY <1>1, <2>1, <3>1, <3>2
  <2> QED
    BY <1>1, <2>1, <2>2
<1> QED
  BY <1>2, <1>3

(* The end of parsePackets keeps the buffer and its offsets right. *)
LEMMA ParsingEndsType ==
  ASSUME TypeOK, NEW until \in 0 .. Len(received), ParsingEnds(Deciphered, until)
  PROVE  /\ parsing' \in BOOLEAN /\ reading' \in BOOLEAN
         /\ closedOnParsing' \in BOOLEAN /\ listener' \in BOOLEAN
         /\ received' \in Seq(CellSet)
         /\ decryptedUntil' \in 0 .. Len(received')
         /\ parsedUntil' \in 0 .. Len(received')
         /\ socket' \in {"open", "closed", "null"}
         /\ player' \in {"here", "lost", "gone"}
         /\ told' \in Seq({"lost", "malformed"})
<1>1. Deciphered \in Seq(CellSet) /\ Len(Deciphered) = Len(received) /\ Len(received) \in Nat
  BY DecipheredType DEF TypeOK
<1>2. DecryptedUntil \in 0 .. Len(received)
  BY OffsetsFit
<1>3. SubSeq(Deciphered, until + 1, Len(Deciphered)) \in Seq(CellSet)
      /\ Len(SubSeq(Deciphered, until + 1, Len(Deciphered))) = Len(received) - until
  BY <1>1, SubSeqProperties
<1>4. CASE closedOnParsing
  <2>1. /\ received' = Deciphered /\ decryptedUntil' = DecryptedUntil /\ parsedUntil' = 0
        /\ parsing' = FALSE /\ closedOnParsing' = FALSE /\ socket' = "null"
        /\ UNCHANGED <<reading, listener, player, told>>
    BY <1>4 DEF ParsingEnds
  <2>2. received' \in Seq(CellSet) /\ Len(received') = Len(received)
    BY <1>1, <2>1
  <2>3. decryptedUntil' \in 0 .. Len(received') /\ parsedUntil' \in 0 .. Len(received')
    BY <1>1, <1>2, <2>1, <2>2
  <2> QED
    BY <2>1, <2>2, <2>3 DEF TypeOK
<1>5. CASE ~closedOnParsing
  <2>1. /\ received' = SubSeq(Deciphered, until + 1, Len(Deciphered))
        /\ decryptedUntil' = UntilAfterErase(until) /\ parsedUntil' = 0
    BY <1>5 DEF ParsingEnds
  <2>2. received' \in Seq(CellSet) /\ Len(received') = Len(received) - until
    BY <1>3, <2>1
  <2>3. decryptedUntil' \in 0 .. Len(received') /\ parsedUntil' \in 0 .. Len(received')
    BY <1>1, <1>2, <2>1, <2>2 DEF UntilAfterErase
  <2> QED
    BY <1>5, <2>2, <2>3 DEF TypeOK, ParsingEnds, BeginReceive
<1> QED
  BY <1>4, <1>5 DEF TypeOK

(* The end of the connection keeps the types. *)
LEMMA DisconnectedType ==
  ASSUME TypeOK, NEW stays \in BOOLEAN, Disconnected(stays)
  PROVE  /\ closedOnParsing' \in BOOLEAN /\ listener' \in BOOLEAN
         /\ socket' \in {"open", "closed", "null"}
         /\ player' \in {"here", "lost", "gone"}
         /\ told' \in Seq({"lost", "malformed"})
<1>1. CASE listener
  <2>1. Append(told, "lost") \in Seq({"lost", "malformed"})
    BY DEF TypeOK
  <2> QED
    BY <1>1, <2>1 DEF TypeOK, Disconnected
<1>2. CASE ~listener
  BY <1>2 DEF TypeOK, Disconnected
<1> QED
  BY <1>1, <1>2

-----------------------------------------------------------------------------
(* Every step keeps the types. *)

(* A packet is appended to the cells on the way. *)
LEMMA ClientSendsType ==
  ASSUME TypeOK, NEW body \in BodyLengths, ClientSends(body)
  PROVE  TypeOK'
<1>1. sent + 1 \in Nat /\ HeaderLength + body \in Nat
  BY DEF TypeOK
<1>2. wire' \in Seq(CellSet)
  BY <1>1, CellsType, ConcatProperties DEF TypeOK, ClientSends
<1> QED
  BY <1>1, <1>2 DEF TypeOK, ClientSends, reader, writer, ends

(* A read takes cells off the wire. *)
LEMMA ReadCompletesType ==
  ASSUME TypeOK, NEW size \in 1 .. Len(wire), ReadCompletes(size)
  PROVE  TypeOK'
<1>1. SubSeq(wire, 1, size) \in Seq(CellSet) /\ SubSeq(wire, size + 1, Len(wire)) \in Seq(CellSet)
  BY SubSeqProperties DEF TypeOK
<1> QED
  BY <1>1 DEF TypeOK, ReadCompletes, writer, ends

(* A write hands its packets to the client. *)
LEMMA WriteCompletesType ==
  ASSUME TypeOK, WriteCompletes
  PROVE  TypeOK'
<1>1. peer' \in Seq(Nat)
  BY ConcatProperties DEF TypeOK, WriteCompletes
<1> QED
  BY <1>1 DEF TypeOK, WriteCompletes, peerSide, reader, ends

(* sent and flush keep the types. *)
LEMMA SentType ==
  ASSUME TypeOK, Sent
  PROVE  TypeOK'
<1>1. /\ sending' \in Seq(Nat) /\ sendBuffer' \in Seq(Nat) /\ crashed' \in BOOLEAN
      /\ write' \in {"none", "pending", "done", "failed"}
  <2>1. sendBuffer \in Seq(Nat) /\ <<>> \in Seq(Nat) /\ Flush(sendBuffer, <<>>)
    BY DEF TypeOK, Sent
  <2> QED
    BY <2>1, FlushType
<1> QED
  BY <1>1 DEF TypeOK, Sent, peerSide, reader, ends

(* A failed write keeps the types. *)
LEMMA SentFailsType ==
  ASSUME TypeOK, NEW arrived \in 0 .. Len(sending), NEW stays \in BOOLEAN, SentFails(arrived, stays)
  PROVE  TypeOK'
<1>1. SubSeq(sending, 1, arrived) \in Seq(Nat)
  <2>1. sending \in Seq(Nat) /\ arrived \in Nat /\ arrived <= Len(sending) /\ Len(sending) \in Nat
    BY DEF TypeOK
  <2> QED
    BY <2>1, SubSeqProperties
<1>2. peer' \in Seq(Nat) /\ write' \in {"none", "pending", "done", "failed"}
  BY <1>1, ConcatProperties DEF TypeOK, SentFails
<1>3. Disconnected(stays)
  BY DEF SentFails
<1> QED
  BY <1>2, <1>3, DisconnectedType DEF TypeOK, SentFails, peerSide, reader

(* The end of the stream keeps the types. *)
LEMMA ReceivedNothingType ==
  ASSUME TypeOK, NEW stays \in BOOLEAN, ReceivedNothing(stays)
  PROVE  TypeOK'
<1>1. Disconnected(stays)
  BY DEF ReceivedNothing
<1> QED
  BY <1>1, DisconnectedType DEF TypeOK, ReceivedNothing, peerSide, writer

(* What a read brought is appended to m_received. *)
LEMMA ReceivedType ==
  ASSUME TypeOK, Received
  PROVE  TypeOK'
<1>1. received' \in Seq(CellSet) /\ Len(received') = Len(received) + Len(receiving)
  BY ConcatProperties DEF TypeOK, Received
<1>2. decryptedUntil' \in 0 .. Len(received') /\ parsedUntil' \in 0 .. Len(received')
  BY <1>1 DEF TypeOK, Received
<1> QED
  <2>1. /\ reading' = FALSE /\ receiving' = <<>> /\ parsing' = TRUE
        /\ UNCHANGED <<key, peerSide, writer, ends, requests, handled, crashed>>
    BY DEF Received
  <2> QED
    BY <1>1, <1>2, <2>1, EmptySeq DEF TypeOK, peerSide, writer, ends

(* An answer of the database keeps the types. *)
LEMMA DatabaseAnswersType ==
  ASSUME TypeOK, NEW resumes \in BOOLEAN, NEW sends \in BOOLEAN, DatabaseAnswers(resumes, sends)
  PROVE  TypeOK'
<1>1. requests' \in Nat
  BY DEF TypeOK, DatabaseAnswers
<1>2. /\ peer' \in Seq(Nat) /\ sending' \in Seq(Nat) /\ sendBuffer' \in Seq(Nat)
      /\ write' \in {"none", "pending", "done", "failed"}
      /\ replies' \in Nat /\ crashed' \in BOOLEAN
  BY MaySendType DEF TypeOK, DatabaseAnswers, writer
<1>3. parsing' \in BOOLEAN /\ parsedUntil' \in 0 .. Len(received) /\ received' = received
  <2>1. received' = received /\ ((parsing' = TRUE /\ parsedUntil' = 0) \/ UNCHANGED <<parsing, parsedUntil>>)
    BY DEF DatabaseAnswers
  <2>2. Len(received) \in Nat /\ parsing \in BOOLEAN /\ parsedUntil \in 0 .. Len(received)
    BY DEF TypeOK
  <2>3. CASE parsing' = TRUE /\ parsedUntil' = 0
    BY <2>1, <2>2, <2>3
  <2>4. CASE UNCHANGED <<parsing, parsedUntil>>
    BY <2>1, <2>2, <2>4
  <2> QED
    BY <2>1, <2>3, <2>4
<1> QED
  BY <1>1, <1>2, <1>3 DEF TypeOK, DatabaseAnswers, peerSide, ends

(* The end of parsePackets keeps the types. *)
LEMMA ParseRestType ==
  ASSUME TypeOK, NEW length, ParseRest(length)
  PROVE  TypeOK'
<1>1. parsedUntil + length \in 0 .. Len(received)
  BY OffsetsFit DEF ParseRest
<1>2. ParsingEnds(Deciphered, parsedUntil + length)
  BY DEF ParseRest
<1>3. key' \in Nat
  BY DEF TypeOK, ParseRest, NextKey
<1> QED
  BY <1>1, <1>2, <1>3, ParsingEndsType DEF TypeOK, ParseRest, peerSide, writer

(* A packet that is handed over keeps the types, whatever the result. *)
LEMMA ParsePacketType ==
  ASSUME TypeOK, NEW length, NEW result \in Results, NEW sends \in BOOLEAN,
         ParsePacket(length, result, sends)
  PROVE  TypeOK'
<1>1. parsedUntil + length \in 0 .. Len(received) /\ DecryptedUntil \in 0 .. Len(received)
  BY OffsetsFit DEF ParsePacket
<1>2. Deciphered \in Seq(CellSet) /\ Len(Deciphered) = Len(received)
  BY DecipheredType
<1>3. handled' \in Seq(Nat) /\ key' \in Nat
  <2>1. Packet(Deciphered) \in Nat
    <3>1. CASE Readable(Deciphered)
      <4>1. Available >= HeaderLength
        <5>1. length \in Lengths(Deciphered) /\ length # 0
          BY DEF ParsePacket
        <5>2. Available < HeaderLength => Lengths(Deciphered) = {0}
          BY DEF Lengths
        <5>3. Available \in Int /\ HeaderLength \in Int
          BY DEF TypeOK, Available
        <5> QED
          BY <5>1, <5>2, <5>3
      <4>2. parsedUntil + 1 \in 1 .. Len(Deciphered)
        BY <1>2, <4>1 DEF TypeOK, Available
      <4>3. Deciphered[parsedUntil + 1] \in CellSet
        BY <1>2, <4>2, ElementOfSeq
      <4> QED
        BY <3>1, <4>3 DEF Packet, CellSet
    <3>2. CASE ~Readable(Deciphered)
      BY <3>2 DEF Packet, Junk
    <3> QED
      BY <3>1, <3>2
  <2>2. handled' = Append(handled, Packet(Deciphered)) /\ key' = NextKey
    BY DEF ParsePacket
  <2>3. handled \in Seq(Nat) /\ NextKey \in Nat
    BY DEF TypeOK, NextKey
  <2> QED
    BY <2>1, <2>2, <2>3
<1>4. /\ peer' \in Seq(Nat) /\ sending' \in Seq(Nat) /\ sendBuffer' \in Seq(Nat)
      /\ write' \in {"none", "pending", "done", "failed"}
      /\ replies' \in Nat /\ crashed' \in BOOLEAN
  BY MaySendType DEF ParsePacket
<1>5. CASE result = "Pass"
  <2>1. PassOn(Deciphered, parsedUntil + length) /\ UNCHANGED requests
    BY <1>5 DEF ParsePacket
  <2>2. received' = Deciphered /\ decryptedUntil' = DecryptedUntil /\ parsedUntil' = parsedUntil + length
    BY <2>1 DEF PassOn
  <2>3. received' \in Seq(CellSet) /\ decryptedUntil' \in 0 .. Len(received')
        /\ parsedUntil' \in 0 .. Len(received')
    BY <1>1, <1>2, <2>2
  <2> QED
    BY <1>3, <1>4, <2>1, <2>3 DEF TypeOK, ParsePacket, PassOn, peerSide, ends
<1>6. CASE result = "Block"
  <2>1. ParsingEnds(Deciphered, parsedUntil + length) /\ requests' = requests + 1
    BY <1>6 DEF ParsePacket, BlockedUntil
  <2> QED
    <3>1. requests' \in Nat
      BY <2>1 DEF TypeOK
    <3>2. UNCHANGED <<receiving, peerSide>>
      BY DEF ParsePacket
    <3>3. /\ parsing' \in BOOLEAN /\ reading' \in BOOLEAN
          /\ closedOnParsing' \in BOOLEAN /\ listener' \in BOOLEAN
          /\ received' \in Seq(CellSet)
          /\ decryptedUntil' \in 0 .. Len(received')
          /\ parsedUntil' \in 0 .. Len(received')
          /\ socket' \in {"open", "closed", "null"}
          /\ player' \in {"here", "lost", "gone"}
          /\ told' \in Seq({"lost", "malformed"})
      BY <1>1, <2>1, ParsingEndsType
    <3> QED
      BY <1>3, <1>4, <3>1, <3>2, <3>3 DEF TypeOK, peerSide
<1>7. CASE result = "Disconnect"
  <2>1. DisconnectsPlayer(Deciphered) /\ UNCHANGED requests
    BY <1>7 DEF ParsePacket
  <2>2. received' = Deciphered /\ decryptedUntil' = DecryptedUntil /\ parsedUntil' = 0
    BY <2>1 DEF DisconnectsPlayer
  <2>3. received' \in Seq(CellSet) /\ decryptedUntil' \in 0 .. Len(received')
        /\ parsedUntil' \in 0 .. Len(received')
    BY <1>1, <1>2, <2>2 DEF TypeOK
  <2>4. told' \in Seq({"lost", "malformed"})
    BY <2>1 DEF TypeOK, DisconnectsPlayer
  <2> QED
    BY <1>3, <1>4, <2>1, <2>3, <2>4 DEF TypeOK, ParsePacket, DisconnectsPlayer, peerSide
<1> QED
  BY <1>5, <1>6, <1>7 DEF Results

(* Every step keeps the types. *)
LEMMA NextType == TypeOK /\ [Next]_vars => TypeOK'
<1> SUFFICES ASSUME TypeOK, [Next]_vars PROVE TypeOK'
  OBVIOUS
<1>1. CASE EventLoop
  BY <1>1, ReceivedType, SentType, ReceivedNothingType, SentFailsType, ParseRestType,
     ParsePacketType DEF EventLoop
<1>2. CASE System
  BY <1>2, ReadCompletesType DEF System
<1>3. CASE \E body \in BodyLengths : ClientSends(body)
  BY <1>3, ClientSendsType
<1>4. CASE ClientGoes
  <2>1. wire' \in Seq(CellSet)
    BY <1>4, EmptySeq DEF TypeOK, ClientGoes
  <2>2. client' = FALSE /\ UNCHANGED <<sent, reader, writer, ends, requests, handled, crashed>>
    BY <1>4 DEF ClientGoes
  <2> QED
    BY <2>1, <2>2 DEF TypeOK, reader, writer, ends
<1>5. CASE WriteCompletes
  BY <1>5, WriteCompletesType
<1>6. CASE Send
  BY <1>6, SendReplyType DEF TypeOK, Send, peerSide, reader, ends
<1>7. CASE Destroy \/ DatabaseFails
  <2>1. requests' \in Nat
    BY <1>7 DEF TypeOK, Destroy, DatabaseFails
  <2>2. DestroyPlayer /\ UNCHANGED <<peerSide, reader, writer, handled, crashed>>
    BY <1>7 DEF Destroy, DatabaseFails
  <2> QED
    BY <2>1, <2>2 DEF TypeOK, DestroyPlayer, peerSide, reader, writer
<1>8. CASE \E resumes \in BOOLEAN, sends \in BOOLEAN : DatabaseAnswers(resumes, sends)
  BY <1>8, DatabaseAnswersType
<1>0. CASE UNCHANGED vars
  BY <1>0 DEF TypeOK, vars, peerSide, reader, writer, ends
<1> QED
  BY <1>1, <1>2, <1>3, <1>4, <1>5, <1>6, <1>7, <1>8, <1>0 DEF Next

(* The variables keep their types, and the offsets lie within m_received. *)
THEOREM TypeCorrect == Spec => []TypeOK
<1>1. Init => TypeOK
  <2>1. \A S : <<>> \in Seq(S) /\ Len(<<>>) = 0
    OBVIOUS
  <2>2. ASSUME Init PROVE received = <<>> /\ decryptedUntil = 0 /\ parsedUntil = 0
    BY <2>2 DEF Init
  <2>3. Init => decryptedUntil \in 0 .. Len(received) /\ parsedUntil \in 0 .. Len(received)
    BY <2>1, <2>2
  <2>4. \A S : <<>> \in Seq(S)
    BY EmptySeq
  <2>5. ASSUME Init
        PROVE  /\ wire \in Seq(CellSet) /\ receiving \in Seq(CellSet) /\ received \in Seq(CellSet)
               /\ peer \in Seq(Nat) /\ sending \in Seq(Nat) /\ sendBuffer \in Seq(Nat)
               /\ handled \in Seq(Nat) /\ told \in Seq({"lost", "malformed"})
    BY <2>4, <2>5 DEF Init
  <2>6. ASSUME Init
        PROVE  /\ client \in BOOLEAN /\ reading \in BOOLEAN /\ parsing \in BOOLEAN
               /\ closedOnParsing \in BOOLEAN /\ listener \in BOOLEAN /\ crashed \in BOOLEAN
               /\ sent \in Nat /\ replies \in Nat /\ requests \in Nat /\ key \in Nat
    BY <2>6 DEF Init
  <2> QED
    BY <2>3, <2>5, <2>6 DEF Init, TypeOK
<1> QED
  BY <1>1, NextType, PTL DEF Spec

-----------------------------------------------------------------------------
(* The end of the connection. *)

Ends == ToldOnce /\ SocketKept

(* Outside of parsePackets the end reaches a listener that has heard nothing. *)
LEMMA DisconnectedEnds ==
  ASSUME TypeOK, Ends, NEW stays \in BOOLEAN, Disconnected(stays)
  PROVE  Ends'
<1>1. CASE listener
  <2>1. told' = <<"lost">> /\ listener' = FALSE
    BY <1>1 DEF Ends, ToldOnce, Disconnected
  <2>2. SocketKept'
    BY <1>1 DEF Ends, ToldOnce, SocketKept, Disconnected
  <2> QED
    BY <2>1, <2>2 DEF Ends, ToldOnce
<1>2. CASE ~listener
  BY <1>2 DEF Ends, ToldOnce, SocketKept, Disconnected, TypeOK
<1> QED
  BY <1>1, <1>2

(* A Player that goes by itself resets the listener first. *)
LEMMA DestroyEnds ==
  ASSUME TypeOK, Ends, DestroyPlayer
  PROVE  Ends'
BY DEF Ends, ToldOnce, SocketKept, DestroyPlayer

(* parsePackets drops the socket only when the Player is gone. *)
LEMMA ParsingEndsEnds ==
  ASSUME TypeOK, Ends, NEW until, ParsingEnds(Deciphered, until)
  PROVE  Ends'
BY DEF TypeOK, Ends, ToldOnce, SocketKept, ParsingEnds

(* A packet that is refused is the last one the listener gets. *)
LEMMA ParsePacketEnds ==
  ASSUME TypeOK, Ends, NEW length, NEW result \in Results, NEW sends \in BOOLEAN,
         ParsePacket(length, result, sends)
  PROVE  Ends'
<1>1. CASE result = "Pass"
  BY <1>1 DEF Ends, ToldOnce, SocketKept, ParsePacket, PassOn, ends
<1>2. CASE result = "Block"
  BY <1>2, ParsingEndsEnds DEF ParsePacket
<1>3. CASE result = "Disconnect"
  <2>1. told = <<>> /\ DisconnectsPlayer(Deciphered)
    BY <1>3 DEF Ends, ToldOnce, ParsePacket
  <2>2. told' = <<"malformed">> /\ listener' = FALSE /\ player' = "gone"
    BY <2>1 DEF DisconnectsPlayer
  <2> QED
    BY <2>2 DEF Ends, ToldOnce, SocketKept
<1> QED
  BY <1>1, <1>2, <1>3 DEF Results

(* Every step keeps the Player's end told once and its socket. *)
LEMMA NextEnds == TypeOK /\ Ends /\ [Next]_vars => Ends'
<1> SUFFICES ASSUME TypeOK, Ends, [Next]_vars PROVE Ends'
  OBVIOUS
<1>1. CASE UNCHANGED ends
  BY <1>1 DEF Ends, ToldOnce, SocketKept, ends
<1>2. CASE EventLoop
  <2>1. CASE Received \/ Sent
    BY <1>1, <2>1 DEF Received, Sent
  <2>2. CASE \E stays \in BOOLEAN : ReceivedNothing(stays)
    BY <2>2, DisconnectedEnds DEF ReceivedNothing
  <2>3. CASE \E arrived \in 0 .. Len(sending), stays \in BOOLEAN : SentFails(arrived, stays)
    BY <2>3, DisconnectedEnds DEF SentFails
  <2>4. CASE \E length \in 0 .. Len(received) : ParseRest(length)
    BY <2>4, ParsingEndsEnds DEF ParseRest
  <2>5. CASE \E length \in 0 .. Len(received), result \in Results, sends \in BOOLEAN :
               ParsePacket(length, result, sends)
    BY <2>5, ParsePacketEnds
  <2> QED
    BY <1>2, <2>1, <2>2, <2>3, <2>4, <2>5 DEF EventLoop
<1>3. CASE System
  BY <1>1, <1>3 DEF System, ReadCompletes
<1>4. CASE (\E body \in BodyLengths : ClientSends(body)) \/ ClientGoes \/ WriteCompletes \/ Send
  BY <1>1, <1>4 DEF ClientSends, ClientGoes, WriteCompletes, Send
<1>5. CASE Destroy \/ DatabaseFails
  BY <1>5, DestroyEnds DEF Destroy, DatabaseFails
<1>6. CASE \E resumes \in BOOLEAN, sends \in BOOLEAN : DatabaseAnswers(resumes, sends)
  BY <1>1, <1>6 DEF DatabaseAnswers
<1>7. CASE UNCHANGED vars
  BY <1>1, <1>7 DEF vars
<1> QED
  BY <1>2, <1>3, <1>4, <1>5, <1>6, <1>7 DEF Next

(* A new connection has told nothing. *)
LEMMA InitEnds == Init => Ends
BY DEF Init, Ends, ToldOnce, SocketKept

(* The Player hears of the end of its connection at most once, and is no
   listener after that, nor when it is gone (disconnected, Player::destroy). *)
THEOREM ToldOnlyOnce == Spec => []ToldOnce
<1>1. Ends => ToldOnce
  BY DEF Ends
<1> QED
  BY <1>1, InitEnds, NextEnds, TypeCorrect, PTL DEF Spec

-----------------------------------------------------------------------------
(* The order of the replies. *)

(* The packets the Player has sent. *)
LEMMA UptoProperties ==
  ASSUME NEW n \in Nat
  PROVE  /\ Upto(n) \in Seq(Nat) /\ Len(Upto(n)) = n
         /\ \A i \in 1 .. n : Upto(n)[i] = i
BY DEF Upto

(* The elements of a sequence with one more element. *)
LEMMA AppendElements ==
  ASSUME NEW s \in Seq(Nat), NEW e \in Nat
  PROVE  /\ Append(s, e) # <<>> /\ Append(s, e)[Len(s) + 1] = e
         /\ \A j \in 1 .. Len(s) : Append(s, e)[j] = s[j]
BY AppendProperties

(* One more reply. *)
LEMMA UptoNext ==
  ASSUME NEW n \in Nat
  PROVE  Append(Upto(n), n + 1) = Upto(n + 1)
<1>1. /\ Append(Upto(n), n + 1) \in Seq(Nat) /\ Len(Append(Upto(n), n + 1)) = n + 1
      /\ Upto(n + 1) \in Seq(Nat) /\ Len(Upto(n + 1)) = n + 1
  BY UptoProperties
<1>2. ASSUME NEW i \in 1 .. n + 1 PROVE Append(Upto(n), n + 1)[i] = Upto(n + 1)[i]
  <2>1. Upto(n + 1)[i] = i /\ i \in Nat
    BY DEF Upto
  <2>0. /\ Append(Upto(n), n + 1)[n + 1] = n + 1
        /\ \A j \in 1 .. n : Append(Upto(n), n + 1)[j] = Upto(n)[j]
    <3>1. Upto(n) \in Seq(Nat) /\ Len(Upto(n)) = n /\ n + 1 \in Nat
      BY UptoProperties
    <3>2. /\ Append(Upto(n), n + 1)[Len(Upto(n)) + 1] = n + 1
          /\ \A j \in 1 .. Len(Upto(n)) : Append(Upto(n), n + 1)[j] = Upto(n)[j]
      BY <3>1, AppendElements
    <3> QED
      BY <3>1, <3>2
  <2>2. CASE i = n + 1
    BY <2>1, <2>2, <2>0
  <2>3. CASE i # n + 1
    <3>1. i \in 1 .. n /\ Upto(n)[i] = i
      BY <2>3 DEF Upto
    <3> QED
      BY <2>1, <2>0, <3>1
  <2> QED
    BY <2>2, <2>3
<1> QED
  BY <1>1, <1>2, SeqEqual

(* A prefix of the replies, element by element. *)
LEMMA PrefixOfUpto ==
  ASSUME NEW n \in Nat, NEW s \in Seq(Nat)
  PROVE  IsPrefix(s, Upto(n)) <=> Len(s) <= n /\ \A i \in 1 .. Len(s) : s[i] = i
<1>1. Len(s) \in Nat /\ Len(Upto(n)) = n
  BY UptoProperties
<1>2. \A i \in 1 .. Len(s) : s[i] \in Nat
  BY ElementOfSeq
<1>3. /\ SubSeq(s, 1, Len(s)) \in Seq(Nat) /\ Len(SubSeq(s, 1, Len(s))) = Len(s)
      /\ \A i \in 1 .. Len(s) : SubSeq(s, 1, Len(s))[i] = s[i]
  BY SubSeqFull
<1>4. ASSUME Len(s) <= n
      PROVE  /\ SubSeq(Upto(n), 1, Len(s)) \in Seq(Nat) /\ Len(SubSeq(Upto(n), 1, Len(s))) = Len(s)
             /\ \A i \in 1 .. Len(s) : SubSeq(Upto(n), 1, Len(s))[i] = i
  <2>1. \A i \in 1 .. Len(s) : Upto(n)[i] = i /\ Upto(n)[i] \in Nat
    BY <1>1, <1>4 DEF Upto
  <2>2. /\ SubSeq(Upto(n), 1, Len(s)) \in Seq(Nat)
        /\ Len(SubSeq(Upto(n), 1, Len(s))) = IF 1 <= Len(s) THEN Len(s) - 1 + 1 ELSE 0
        /\ \A i \in 1 .. Len(s) - 1 + 1 : SubSeq(Upto(n), 1, Len(s))[i] = Upto(n)[1 + i - 1]
    BY <1>1, <2>1, SubSeqProperties
  <2> QED
    BY <1>1, <2>1, <2>2
<1>5. ASSUME Len(s) <= n, \A i \in 1 .. Len(s) : s[i] = i
      PROVE  SubSeq(s, 1, Len(s)) = SubSeq(Upto(n), 1, Len(s))
  BY <1>3, <1>4, <1>5, SeqEqual
<1>6. ASSUME Len(s) <= n, SubSeq(s, 1, Len(s)) = SubSeq(Upto(n), 1, Len(s))
      PROVE  \A i \in 1 .. Len(s) : s[i] = i
  BY <1>3, <1>4, <1>6
<1> QED
  BY <1>1, <1>5, <1>6 DEF IsPrefix

(* A prefix of the replies is a prefix of more replies. *)
LEMMA PrefixOfMore ==
  ASSUME NEW n \in Nat, NEW s \in Seq(Nat), IsPrefix(s, Upto(n))
  PROVE  IsPrefix(s, Upto(n + 1))
<1>1. Len(s) \in Nat /\ Len(s) <= n /\ \A i \in 1 .. Len(s) : s[i] = i
  BY PrefixOfUpto
<1>2. n + 1 \in Nat /\ Len(s) <= n + 1
  BY <1>1
<1> QED
  BY <1>1, <1>2, PrefixOfUpto

(* What comes first of all the replies is a prefix of them. *)
LEMMA PrefixOfAll ==
  ASSUME NEW n \in Nat, NEW s \in Seq(Nat), NEW t \in Seq(Nat), s \o t = Upto(n)
  PROVE  IsPrefix(s, Upto(n))
<1>1. Len(s) \in Nat /\ Len(t) \in Nat /\ Len(s) + Len(t) = n
  BY UptoProperties, ConcatProperties
<1>2. \A i \in 1 .. Len(s) : s[i] = (s \o t)[i] /\ i \in 1 .. n
  BY <1>1, ConcatProperties
<1>3. \A i \in 1 .. n : Upto(n)[i] = i
  BY UptoProperties
<1>4. \A i \in 1 .. Len(s) : s[i] = i
  BY <1>2, <1>3
<1>5. Len(s) <= n
  BY <1>1
<1> QED
  BY <1>4, <1>5, PrefixOfUpto

(* Every reply is with the client, in the write under way or in m_sendBuffer. *)
AllAccounted ==
  peer \o (IF write = "pending" THEN sending ELSE <<>>) \o sendBuffer = Upto(replies)

Order == SocketKept /\ WriteFits /\ RepliesInOrder

(* Concatenation is associative. *)
LEMMA Associative ==
  ASSUME NEW s \in Seq(Nat), NEW t \in Seq(Nat), NEW u \in Seq(Nat)
  PROVE  s \o (t \o u) = (s \o t) \o u
<1>1. /\ s \o (t \o u) \in Seq(Nat) /\ (s \o t) \o u \in Seq(Nat)
      /\ Len(s \o (t \o u)) = Len((s \o t) \o u)
  BY ConcatProperties
<1>2. \A i \in 1 .. Len(s \o (t \o u)) : (s \o (t \o u))[i] = ((s \o t) \o u)[i]
  BY ConcatProperties
<1> QED
  BY <1>1, <1>2, SeqEqual

(* A packet that is appended comes behind all the others. *)
LEMMA BehindTheOthers ==
  ASSUME NEW s \in Seq(Nat), NEW t \in Seq(Nat), NEW n \in Nat, s \o t = Upto(n)
  PROVE  /\ Append(t, n + 1) \in Seq(Nat) /\ Append(t, n + 1) # <<>>
         /\ s \o Append(t, n + 1) = Upto(n + 1)
<1>1. n + 1 \in Nat /\ <<n + 1>> \in Seq(Nat)
  OBVIOUS
<1>2. Append(t, n + 1) = t \o <<n + 1>> /\ Append(t, n + 1) \in Seq(Nat) /\ Append(t, n + 1) # <<>>
  BY <1>1, AppendIsConcat, AppendProperties
<1>3. s \o (t \o <<n + 1>>) = (s \o t) \o <<n + 1>>
  BY <1>1, Associative
<1>4. Append(s \o t, n + 1) = (s \o t) \o <<n + 1>>
  BY <1>1, AppendIsConcat, UptoProperties
<1> QED
  BY <1>2, <1>3, <1>4, UptoNext

(* A Player that sends has a socket, and its packet goes behind the others. *)
LEMMA SendReplyOrder ==
  ASSUME TypeOK, Order, SendReply, player # "gone"
  PROVE  WriteFits' /\ RepliesInOrder'
<1> DEFINE new == replies + 1
<1> DEFINE buffer == Append(sendBuffer, new)
<1>1. /\ new \in Nat /\ buffer \in Seq(Nat)
      /\ peer \in Seq(Nat) /\ sending \in Seq(Nat) /\ sendBuffer \in Seq(Nat) /\ replies \in Nat
  BY DEF TypeOK
<1>2. socket # "null" /\ Flush(buffer, sending) /\ peer' = peer /\ replies' = new
  BY DEF Order, SocketKept, SendReply
<1>0. buffer # <<>>
  BY <1>1, AppendElements
<1>3. IsPrefix(peer', Upto(replies'))
  BY <1>1, <1>2, PrefixOfMore DEF Order, RepliesInOrder
<1>4. write # "failed" => AllAccounted
  BY DEF Order, RepliesInOrder, AllAccounted
<1>5. CASE sending # <<>>
  <2>1. sendBuffer' = buffer /\ UNCHANGED <<sending, write, crashed>>
    BY <1>2, <1>5 DEF Flush
  <2>2. WriteFits'
    BY <1>5, <2>1 DEF Order, WriteFits
  <2>3. ASSUME write # "failed" PROVE AllAccounted'
    <3> DEFINE before == peer \o (IF write = "pending" THEN sending ELSE <<>>)
    <3>1. before \in Seq(Nat) /\ before \o sendBuffer = Upto(replies)
      <4>1. (IF write = "pending" THEN sending ELSE <<>>) \in Seq(Nat)
        BY <1>1, EmptySeq
      <4> QED
        BY <1>1, <1>4, <2>3, <4>1, ConcatProperties DEF AllAccounted
    <3> HIDE DEF before
    <3>3. before \o buffer = Upto(new)
      BY <1>1, <3>1, BehindTheOthers
    <3> USE DEF before
    <3> QED
      BY <1>2, <2>1, <3>3 DEF AllAccounted
  <2> QED
    BY <1>3, <2>1, <2>2, <2>3 DEF RepliesInOrder, AllAccounted
<1>6. CASE sending = <<>>
  <2>1. write = "none" /\ sendBuffer = <<>>
    BY <1>6 DEF Order, WriteFits, TypeOK
  <2>2. sending' = buffer /\ sendBuffer' = <<>> /\ write' = "pending"
    BY <1>1, <1>2, <1>6, <1>0 DEF Flush
  <2>3. peer = Upto(replies)
    <3>1. (peer \o <<>>) \o <<>> = Upto(replies)
      BY <1>4, <2>1 DEF AllAccounted
    <3> QED
      BY <1>1, <3>1, ConcatEmptySeq
  <2>4. (peer \o buffer) \o <<>> = Upto(new)
    <3>1. peer \o sendBuffer = Upto(replies)
      BY <1>1, <2>1, <2>3, ConcatEmptySeq
    <3>2. peer \o buffer = Upto(new)
      BY <1>1, <3>1, BehindTheOthers
    <3> QED
      BY <1>1, <3>2, UptoProperties, ConcatEmptySeq
  <2>5. WriteFits'
    BY <1>0, <2>2 DEF WriteFits
  <2>6. (peer' \o sending') \o sendBuffer' = Upto(replies')
    BY <1>2, <2>2, <2>4
  <2> QED
    BY <1>3, <2>2, <2>5, <2>6 DEF RepliesInOrder
<1> QED
  BY <1>5, <1>6

(* A handler that may reply keeps the order. *)
LEMMA MaySendOrder ==
  ASSUME TypeOK, Order, NEW sends, MaySend(sends), player # "gone"
  PROVE  WriteFits' /\ RepliesInOrder'
<1>1. CASE sends
  BY <1>1, SendReplyOrder DEF MaySend
<1>2. CASE ~sends
  BY <1>2 DEF MaySend, writer, Order, WriteFits, RepliesInOrder
<1> QED
  BY <1>1, <1>2

(* What the write under way carried is with the client. *)
LEMMA WriteCompletesOrder ==
  ASSUME TypeOK, Order, WriteCompletes
  PROVE  WriteFits' /\ RepliesInOrder'
<1>1. /\ peer \in Seq(Nat) /\ sending \in Seq(Nat) /\ sendBuffer \in Seq(Nat) /\ replies \in Nat
      /\ peer \o sending \in Seq(Nat)
  BY ConcatProperties DEF TypeOK
<1>2. (peer \o sending) \o sendBuffer = Upto(replies)
  BY DEF WriteCompletes, Order, RepliesInOrder
<1>3. /\ write = "pending" /\ write' = "done" /\ peer' = peer \o sending
      /\ UNCHANGED <<sending, sendBuffer, replies>>
  BY DEF WriteCompletes
<1>4. (peer' \o <<>>) \o sendBuffer' = Upto(replies')
  BY <1>1, <1>2, <1>3, ConcatEmptySeq
<1>5. IsPrefix(peer', Upto(replies'))
  BY <1>1, <1>2, <1>3, PrefixOfAll
<1> QED
  BY <1>3, <1>4, <1>5 DEF Order, WriteFits, RepliesInOrder

(* A write that fails may have carried a part. *)
LEMMA SentFailsOrder ==
  ASSUME TypeOK, Order, NEW arrived \in 0 .. Len(sending), NEW stays \in BOOLEAN,
         SentFails(arrived, stays)
  PROVE  WriteFits' /\ RepliesInOrder'
<1> DEFINE part == SubSeq(sending, 1, arrived)
<1>1. /\ peer \in Seq(Nat) /\ sending \in Seq(Nat) /\ sendBuffer \in Seq(Nat) /\ replies \in Nat
      /\ Len(sending) \in Nat /\ arrived \in Nat /\ arrived <= Len(sending)
      /\ peer \o sending \in Seq(Nat)
  BY ConcatProperties DEF TypeOK
<1>2. IsPrefix(peer \o sending, Upto(replies))
  <2>1. (peer \o sending) \o sendBuffer = Upto(replies)
    BY DEF SentFails, Order, RepliesInOrder
  <2> QED
    BY <1>1, <2>1, PrefixOfAll
<1>3. /\ part \in Seq(Nat) /\ Len(part) = arrived
      /\ \A i \in 1 .. arrived : part[i] = sending[i]
  <2>1. \A i \in 1 .. arrived : sending[i] \in Nat
    BY <1>1, ElementOfSeq
  <2>2. /\ part \in Seq(Nat)
        /\ Len(part) = IF 1 <= arrived THEN arrived - 1 + 1 ELSE 0
        /\ \A i \in 1 .. arrived - 1 + 1 : part[i] = sending[1 + i - 1]
    BY <1>1, <2>1, SubSeqProperties
  <2> QED
    BY <1>1, <2>2
<1> HIDE DEF part
<1>4. IsPrefix(peer \o part, Upto(replies))
  <2>1. /\ Len(peer \o sending) <= replies
        /\ \A i \in 1 .. Len(peer \o sending) : (peer \o sending)[i] = i
    BY <1>1, <1>2, PrefixOfUpto
  <2>2. /\ Len(peer) \in Nat /\ Len(peer \o part) = Len(peer) + arrived
        /\ Len(peer \o sending) = Len(peer) + Len(sending)
        /\ peer \o part \in Seq(Nat)
    BY <1>1, <1>3, ConcatProperties
  <2>3. ASSUME NEW i \in 1 .. Len(peer \o part) PROVE (peer \o part)[i] = (peer \o sending)[i]
    <3>1. (peer \o part)[i] = IF i <= Len(peer) THEN peer[i] ELSE part[i - Len(peer)]
      BY <1>1, <1>3, <2>2, ConcatProperties
    <3>2. (peer \o sending)[i] = IF i <= Len(peer) THEN peer[i] ELSE sending[i - Len(peer)]
      BY <1>1, <2>2, ConcatProperties
    <3> QED
      BY <1>1, <1>3, <2>2, <3>1, <3>2
  <2>4. Len(peer \o part) <= replies /\ \A i \in 1 .. Len(peer \o part) : (peer \o part)[i] = i
    <3>1. \A i \in 1 .. Len(peer \o part) : i \in 1 .. Len(peer \o sending)
      BY <1>1, <2>2
    <3>2. Len(peer \o part) <= Len(peer \o sending)
      BY <1>1, <2>2
    <3>3. Len(peer \o part) \in Nat /\ Len(peer \o sending) \in Nat
      BY <1>1, <2>2
    <3>4. Len(peer \o part) <= replies
      BY <1>1, <2>1, <3>2, <3>3
    <3>5. \A i \in 1 .. Len(peer \o part) : (peer \o part)[i] = i
      BY <2>1, <2>3, <3>1
    <3> QED
      BY <3>4, <3>5
  <2> QED
    BY <1>1, <2>2, <2>4, PrefixOfUpto
<1>5. write = "pending" /\ write' = "failed" /\ peer' = peer \o part /\ UNCHANGED <<sending, sendBuffer, replies>>
  BY DEF SentFails, part
<1> QED
  BY <1>4, <1>5 DEF Order, WriteFits, RepliesInOrder

(* flush behind a completed write takes over all of m_sendBuffer. *)
LEMMA SentOrder ==
  ASSUME TypeOK, Order, Sent
  PROVE  WriteFits' /\ RepliesInOrder'
<1>1. /\ peer \in Seq(Nat) /\ sending \in Seq(Nat) /\ sendBuffer \in Seq(Nat) /\ replies \in Nat
      /\ peer \o sendBuffer \in Seq(Nat)
  BY ConcatProperties DEF TypeOK
<1>2. /\ write = "done" /\ peer' = peer /\ replies' = replies /\ Flush(sendBuffer, <<>>)
  BY DEF Sent
<1>3. IsPrefix(peer, Upto(replies)) /\ (peer \o <<>>) \o sendBuffer = Upto(replies)
  BY <1>2 DEF Order, RepliesInOrder
<1>4. peer \o sendBuffer = Upto(replies)
  BY <1>1, <1>3, ConcatEmptySeq
<1>5. CASE sendBuffer = <<>>
  <2>1. sending' = <<>> /\ write' = "none" /\ sendBuffer' = <<>>
    BY <1>2, <1>5 DEF Flush
  <2> QED
    BY <1>2, <1>3, <1>5, <2>1 DEF WriteFits, RepliesInOrder
<1>6. CASE sendBuffer # <<>> /\ socket # "null"
  <2>1. sending' = sendBuffer /\ write' = "pending" /\ sendBuffer' = <<>>
    BY <1>2, <1>6 DEF Flush
  <2>2. (peer \o sendBuffer) \o <<>> = Upto(replies)
    BY <1>1, <1>4, ConcatEmptySeq
  <2> QED
    BY <1>2, <1>3, <1>6, <2>1, <2>2 DEF WriteFits, RepliesInOrder
<1>7. CASE sendBuffer # <<>> /\ socket = "null"
  <2>1. UNCHANGED <<sending, sendBuffer, write>>
    BY <1>2, <1>7 DEF Flush
  <2> QED
    BY <1>2, <2>1 DEF Order, WriteFits, RepliesInOrder
<1> QED
  BY <1>5, <1>6, <1>7

(* Every step keeps the order of the replies. *)
LEMMA NextOrder == TypeOK /\ Ends /\ Order /\ [Next]_vars => WriteFits' /\ RepliesInOrder'
<1> SUFFICES ASSUME TypeOK, Ends, Order, [Next]_vars PROVE WriteFits' /\ RepliesInOrder'
  OBVIOUS
<1>1. CASE UNCHANGED writer
  BY <1>1 DEF writer, Order, WriteFits, RepliesInOrder
<1>2. CASE EventLoop
  <2>1. CASE Received \/ \E stays \in BOOLEAN : ReceivedNothing(stays)
    BY <1>1, <2>1 DEF Received, ReceivedNothing
  <2>2. CASE Sent
    BY <2>2, SentOrder
  <2>3. CASE \E arrived \in 0 .. Len(sending), stays \in BOOLEAN : SentFails(arrived, stays)
    BY <2>3, SentFailsOrder
  <2>4. CASE \E length \in 0 .. Len(received) : ParseRest(length)
    BY <1>1, <2>4 DEF ParseRest
  <2>5. CASE \E length \in 0 .. Len(received), result \in Results, sends \in BOOLEAN :
               ParsePacket(length, result, sends)
    BY <2>5, MaySendOrder DEF ParsePacket, Ends, ToldOnce
  <2> QED
    BY <1>2, <2>1, <2>2, <2>3, <2>4, <2>5 DEF EventLoop
<1>3. CASE System \/ (\E body \in BodyLengths : ClientSends(body)) \/ ClientGoes
  BY <1>1, <1>3 DEF System, ReadCompletes, ClientSends, ClientGoes
<1>4. CASE WriteCompletes
  BY <1>4, WriteCompletesOrder
<1>5. CASE Send
  BY <1>5, SendReplyOrder DEF Send
<1>6. CASE Destroy \/ DatabaseFails
  BY <1>1, <1>6 DEF Destroy, DatabaseFails
<1>7. CASE \E resumes \in BOOLEAN, sends \in BOOLEAN : DatabaseAnswers(resumes, sends)
  <2>1. PICK resumes \in BOOLEAN, sends \in BOOLEAN : DatabaseAnswers(resumes, sends)
    BY <1>7
  <2>2. CASE player # "gone" /\ resumes
    BY <2>1, <2>2, MaySendOrder DEF DatabaseAnswers
  <2>3. CASE ~(player # "gone" /\ resumes)
    BY <1>1, <2>1, <2>3 DEF DatabaseAnswers
  <2> QED
    BY <2>2, <2>3
<1>8. CASE UNCHANGED vars
  BY <1>1, <1>8 DEF vars
<1> QED
  BY <1>2, <1>3, <1>4, <1>5, <1>6, <1>7, <1>8 DEF Next

(* Nothing is sent yet. *)
LEMMA InitOrder == Init => WriteFits /\ RepliesInOrder
<1> SUFFICES ASSUME Init PROVE WriteFits /\ RepliesInOrder
  OBVIOUS
<1>1. peer = <<>> /\ sending = <<>> /\ sendBuffer = <<>> /\ write = "none" /\ replies = 0
  BY DEF Init
<1>2. <<>> \in Seq(Nat) /\ Len(<<>>) = 0
  BY EmptySeq
<1>3. Upto(0) = <<>>
  BY <1>2, UptoProperties, SeqEqual
<1>4. (<<>> \o <<>>) \o <<>> = <<>>
  BY <1>2, ConcatEmptySeq
<1>5. IsPrefix(<<>>, Upto(0))
  <2>1. \A i \in 1 .. Len(<<>>) : <<>>[i] = i
    BY <1>2
  <2>2. Len(<<>>) <= 0 /\ 0 \in Nat
    BY <1>2
  <2> QED
    BY <1>2, <2>1, <2>2, PrefixOfUpto
<1> QED
  BY <1>1, <1>3, <1>4, <1>5 DEF WriteFits, RepliesInOrder

(* The client gets the Player's packets in their order and, unless a write
   failed, none is missing: what flush moves and what handlers append meanwhile
   stays in sequence (flush, sent, Player::sendPacket). *)
THEOREM RepliesKeepOrder == Spec => []RepliesInOrder
<1>1. Init => Ends /\ WriteFits /\ RepliesInOrder
  BY InitEnds, InitOrder
<1>2. TypeOK /\ Ends /\ WriteFits /\ RepliesInOrder /\ [Next]_vars
        => (Ends /\ WriteFits /\ RepliesInOrder)'
  BY NextEnds, NextOrder DEF Ends, Order
<1> QED
  BY <1>1, <1>2, TypeCorrect, PTL DEF Spec

-----------------------------------------------------------------------------
(* The order of the packets.  The lemmas of this section are about sequences of
   cells of any length; what the constants are plays no part in most of them. *)

HIDE CryptedConnectionAssumption

(* The cells the server has not parsed yet, in the order in which they come. *)
Rest == SubSeq(received, parsedUntil + 1, Len(received))
Stream == Rest \o (receiving \o wire)

(* A sequence of cells is a run of packets, one behind the other: the cell i is
   the cell s[i].offset of its packet. *)
OffsetsIn(s) == \A i \in 1 .. Len(s) : s[i].offset \in 1 .. s[i].length
Whole(s) ==
  \A i \in 1 .. Len(s) : \A j \in 1 .. Len(s) :
    j - i + s[i].offset \in 1 .. s[i].length =>
      /\ s[j].packet = s[i].packet /\ s[j].length = s[i].length
      /\ s[j].offset = j - i + s[i].offset
Joined(s) ==
  \A i \in 1 .. Len(s) - 1 :
    s[i].offset = s[i].length => s[i + 1].offset = 1 /\ s[i + 1].packet = s[i].packet + 1
StartsWith(s, packet) == Len(s) > 0 => s[1].offset = 1 /\ s[1].packet = packet
InLine(s, packet) == OffsetsIn(s) /\ Whole(s) /\ Joined(s) /\ StartsWith(s, packet)

(* Nothing of what the client sent is missing behind it. *)
EndsWith(s, packet, last) ==
  IF Len(s) = 0 THEN packet = last + 1
  ELSE s[Len(s)].packet = last /\ s[Len(s)].offset = s[Len(s)].length

SameCell(a, b) == a.packet = b.packet /\ a.length = b.length /\ a.offset = b.offset
FirstLength(s) == s[1].length
(* t holds the cells of s from k on. *)
Copied(t, s, k) == \A i \in 1 .. Len(t) : SameCell(t[i], s[i + k])

(* A position in what is left of a run is one in the run. *)
LEMMA Shifted ==
  ASSUME NEW m \in Nat, NEW n \in Nat, NEW length \in Nat, m = n - length, NEW i \in 1 .. m
  PROVE  i + length \in 1 .. n
  OBVIOUS

(* Two of them are as far from each other. *)
LEMMA ShiftedBoth ==
  ASSUME NEW i \in Int, NEW j \in Int, NEW length \in Nat
  PROVE  (j + length) - (i + length) = j - i
  OBVIOUS

(* A packet that goes on beyond n does not end at n. *)
LEMMA NoEnd ==
  ASSUME NEW n \in Nat, NEW i \in 1 .. n, NEW j \in Nat, NEW offset \in Nat, NEW size \in Nat,
         offset \in 1 .. size, j - i + offset \in 1 .. size, j > n
  PROVE  n - i + offset \in 1 .. size /\ n - i + offset # size
  OBVIOUS

(* The cells of a sequence. *)
LEMMA CellOf ==
  ASSUME NEW s \in Seq(CellSet), NEW i \in 1 .. Len(s)
  PROVE  s[i].packet \in Nat /\ s[i].length \in Nat /\ s[i].offset \in Nat
<1>1. s[i] \in CellSet
  BY ElementOfSeq
<1> QED
  BY <1>1 DEF CellSet

(* What is true of a run is true of what comes first of it, whatever is
   encrypted. *)
LEMMA FirstOfRun ==
  ASSUME NEW s \in Seq(CellSet), NEW t \in Seq(CellSet), NEW packet \in Nat,
         Len(t) <= Len(s), Copied(t, s, 0),
         InLine(s, packet)
  PROVE  InLine(t, packet)
<1>0. PICK m \in Nat, n \in Nat : m = Len(t) /\ n = Len(s)
  OBVIOUS
<1>1. m <= n /\ \A i \in 1 .. m : i \in 1 .. n /\ t[i].packet = s[i].packet
        /\ t[i].length = s[i].length /\ t[i].offset = s[i].offset
  BY <1>0 DEF Copied, SameCell
<1>2. OffsetsIn(t)
  BY <1>0, <1>1 DEF InLine, OffsetsIn
<1>3. Whole(t)
  BY <1>0, <1>1 DEF InLine, Whole
<1>4. Joined(t)
  <2>1. \A i \in 1 .. m - 1 : i \in 1 .. m /\ i + 1 \in 1 .. m /\ i \in 1 .. n - 1
    BY <1>1
  <2> QED
    BY <1>0, <1>1, <2>1 DEF InLine, Joined
<1>5. StartsWith(t, packet)
  BY <1>0, <1>1 DEF InLine, StartsWith
<1> QED
  BY <1>2, <1>3, <1>4, <1>5 DEF InLine

(* The end of a run shows in the cells alone. *)
LEMMA EndOfRun ==
  ASSUME NEW s \in Seq(CellSet), NEW t \in Seq(CellSet), NEW packet \in Nat, NEW last \in Nat,
         Len(t) = Len(s), Copied(t, s, 0),
         EndsWith(s, packet, last)
  PROVE  EndsWith(t, packet, last)
<1>0. PICK n \in Nat : n = Len(s) /\ n = Len(t)
  OBVIOUS
<1> QED
  BY <1>0 DEF EndsWith, Copied, SameCell

(* The first packet is taken off a run. *)
LEMMA RestOfRun ==
  ASSUME NEW s \in Seq(CellSet), NEW t \in Seq(CellSet), NEW packet \in Nat, NEW length \in Nat,
         InLine(s, packet), Len(s) > 0, length = FirstLength(s), length <= Len(s),
         Len(t) = Len(s) - length, Copied(t, s, length)
  PROVE  InLine(t, packet + 1)
<1>0. PICK m \in Nat, n \in Nat : m = Len(t) /\ n = Len(s)
  OBVIOUS
<1>9. n > 0 /\ length <= n /\ m = n - length
  BY <1>0
<1>1. /\ n > 0 /\ length <= n /\ m = n - length
      /\ \A i \in 1 .. m : i + length \in 1 .. n /\ t[i].packet = s[i + length].packet
          /\ t[i].length = s[i + length].length /\ t[i].offset = s[i + length].offset
  BY <1>0 DEF Copied, SameCell
<1>2. OffsetsIn(t)
  BY <1>0, <1>1 DEF InLine, OffsetsIn
<1>3. Whole(t)
  <2> SUFFICES ASSUME NEW i \in 1 .. m, NEW j \in 1 .. m,
                      j - i + t[i].offset \in 1 .. t[i].length
               PROVE  /\ t[j].packet = t[i].packet /\ t[j].length = t[i].length
                      /\ t[j].offset = j - i + t[i].offset
    BY <1>0 DEF Whole
  <2>1. i + length \in 1 .. n /\ j + length \in 1 .. n
        /\ (j + length) - (i + length) = j - i
    <3>1. i + length \in 1 .. n
      BY <1>9, Shifted
    <3>2. j + length \in 1 .. n
      BY <1>9, Shifted
    <3>3. i \in Int /\ j \in Int
      OBVIOUS
    <3> QED
      BY <3>1, <3>2, <3>3, ShiftedBoth
  <2>2. t[i].offset = s[i + length].offset /\ t[i].length = s[i + length].length
    BY <1>1
  <2>3. (j + length) - (i + length) + s[i + length].offset \in 1 .. s[i + length].length
    BY <2>1, <2>2
  <2>4. /\ s[j + length].packet = s[i + length].packet /\ s[j + length].length = s[i + length].length
        /\ s[j + length].offset = (j + length) - (i + length) + s[i + length].offset
    BY <1>0, <2>1, <2>3 DEF InLine, Whole
  <2> QED
    BY <1>1, <2>1, <2>4
<1>4. Joined(t)
  <2> SUFFICES ASSUME NEW i \in 1 .. m - 1, t[i].offset = t[i].length
               PROVE  t[i + 1].offset = 1 /\ t[i + 1].packet = t[i].packet + 1
    BY <1>0 DEF Joined
  <2>0. i \in 1 .. m /\ i + 1 \in 1 .. m /\ i < m
    OBVIOUS
  <2>1. i + length \in 1 .. n - 1 /\ (i + length) + 1 = (i + 1) + length
    <3>1. i + length \in 1 .. n - 1
      BY <1>9
    <3>2. (i + length) + 1 = (i + 1) + length
      OBVIOUS
    <3> QED
      BY <3>1, <3>2
  <2> QED
    BY <1>0, <1>1, <2>0, <2>1 DEF InLine, Joined
<1>5. StartsWith(t, packet + 1)
  <2> SUFFICES ASSUME m > 0 PROVE t[1].offset = 1 /\ t[1].packet = packet + 1
    BY <1>0 DEF StartsWith
  <2>1. s[1].offset = 1 /\ s[1].packet = packet /\ 1 \in 1 .. n
    BY <1>0, <1>1 DEF InLine, StartsWith
  <2>2. length >= 1
    BY <1>0, <1>1, <2>1 DEF InLine, OffsetsIn, FirstLength
  <2>3. length \in 1 .. n /\ length \in 1 .. n - 1
    BY <1>1, <2>2
  <2>4. s[length].packet = packet /\ s[length].length = length /\ s[length].offset = length
    <3>1. length - 1 + s[1].offset \in 1 .. s[1].length /\ length - 1 + s[1].offset = length
          /\ s[1].length = length
      BY <2>1, <2>2 DEF FirstLength
    <3> QED
      BY <1>0, <2>1, <2>3, <3>1 DEF InLine, Whole
  <2>5. s[length + 1].offset = 1 /\ s[length + 1].packet = packet + 1
    BY <1>0, <2>3, <2>4 DEF InLine, Joined
  <2>6. 1 \in 1 .. m /\ length + 1 = 1 + length
    OBVIOUS
  <2> QED
    BY <1>1, <2>5, <2>6
<1> QED
  BY <1>2, <1>3, <1>4, <1>5 DEF InLine

(* So is its end kept. *)
LEMMA EndOfRest ==
  ASSUME NEW s \in Seq(CellSet), NEW t \in Seq(CellSet), NEW packet \in Nat, NEW length \in Nat,
         NEW last \in Nat,
         InLine(s, packet), Len(s) > 0, length = FirstLength(s), length <= Len(s),
         Len(t) = Len(s) - length, Copied(t, s, length),
         EndsWith(s, packet, last)
  PROVE  EndsWith(t, packet + 1, last)
<1>0. PICK m \in Nat, n \in Nat : m = Len(t) /\ n = Len(s)
  OBVIOUS
<1>1. n > 0 /\ m = n - length /\ s[n].packet = last /\ s[n].offset = s[n].length
  BY <1>0 DEF EndsWith
<1>2. s[1].offset = 1 /\ s[1].packet = packet /\ 1 \in 1 .. n /\ n \in 1 .. n
  BY <1>0, <1>1 DEF InLine, StartsWith
<1>3. CASE m = 0
  <2>1. n = length /\ n - 1 + s[1].offset \in 1 .. s[1].length
    BY <1>1, <1>2, <1>3 DEF FirstLength
  <2>2. s[n].packet = packet
    BY <1>0, <1>2, <2>1 DEF InLine, Whole
  <2> QED
    BY <1>0, <1>1, <1>3, <2>2 DEF EndsWith
<1>4. CASE m # 0
  <2>1. m \in 1 .. m
    BY <1>4
  <2>2. m + length = n
    BY <1>1
  <2> QED
    BY <1>0, <1>1, <1>4, <2>1, <2>2 DEF EndsWith, Copied, SameCell
<1> QED
  BY <1>3, <1>4

(* A packet is put behind a run. *)
LEMMA LongerRun ==
  ASSUME NEW s \in Seq(CellSet), NEW t \in Seq(CellSet), NEW packet \in Nat, NEW last \in Nat,
         NEW length \in Nat \ {0},
         InLine(s, packet), EndsWith(s, packet, last),
         Len(t) = Len(s) + length,
         Copied(s, t, 0), Copied(Cells(last + 1, length), t, Len(s))
  PROVE  InLine(t, packet) /\ EndsWith(t, packet, last + 1)
<1>0. PICK m \in Nat, n \in Nat : m = Len(t) /\ n = Len(s)
  OBVIOUS
<1>1. m = n + length
  BY <1>0
<1>2. \A i \in 1 .. n : t[i].packet = s[i].packet /\ t[i].length = s[i].length
                        /\ t[i].offset = s[i].offset
  BY <1>0 DEF Copied, SameCell
<1>3. \A i \in 1 .. m : i \notin 1 .. n =>
        t[i].packet = last + 1 /\ t[i].length = length /\ t[i].offset = i - n
  <2> SUFFICES ASSUME NEW i \in 1 .. m, i \notin 1 .. n
               PROVE  t[i].packet = last + 1 /\ t[i].length = length /\ t[i].offset = i - n
    OBVIOUS
  <2>1. i - n \in 1 .. length /\ n + (i - n) = i
    BY <1>1
  <2>2. SameCell(Cell(last + 1, length, i - n), t[i])
    <3>1. DOMAIN Cells(last + 1, length) = 1 .. length /\ Len(Cells(last + 1, length)) = length
      BY DEF Cells
    <3>2. Cells(last + 1, length)[i - n] = Cell(last + 1, length, i - n)
      BY <2>1 DEF Cells
    <3>3. SameCell(Cells(last + 1, length)[i - n], t[(i - n) + n])
      BY <1>0, <2>1, <3>1 DEF Copied
    <3> QED
      BY <2>1, <3>2, <3>3
  <2> QED
    BY <2>2 DEF SameCell, Cell
<1>4. \A i \in 1 .. n : s[i].length \in Nat /\ s[i].offset \in Nat /\ s[i].packet \in Nat
  BY <1>0, CellOf
<1>5. ASSUME NEW i \in 1 .. n, NEW j \in 1 .. m, j - i + s[i].offset \in 1 .. s[i].length
      PROVE  j \in 1 .. n
  <2>1. s[i].offset \in Nat /\ s[i].length \in Nat /\ s[i].offset \in 1 .. s[i].length
    BY <1>0, <1>4 DEF InLine, OffsetsIn
  <2>2. ASSUME j > n PROVE FALSE
    <3>1. n - i + s[i].offset \in 1 .. s[i].length /\ n - i + s[i].offset # s[i].length
      <4>1. j \in Nat /\ j - i + s[i].offset \in 1 .. s[i].length
        BY <1>5
      <4> QED
        BY <2>1, <2>2, <4>1, NoEnd
    <3>2. n \in 1 .. n /\ s[n].offset = s[n].length
      BY <1>0 DEF EndsWith
    <3>3. s[n].length = s[i].length /\ s[n].offset = n - i + s[i].offset
      BY <1>0, <3>1, <3>2 DEF InLine, Whole
    <3> QED
      BY <3>1, <3>2, <3>3
  <2> QED
    BY <2>2
<1>6. OffsetsIn(t)
  <2> SUFFICES ASSUME NEW i \in 1 .. m PROVE t[i].offset \in 1 .. t[i].length
    BY <1>0 DEF OffsetsIn
  <2>1. CASE i \in 1 .. n
    BY <1>0, <1>2, <2>1 DEF InLine, OffsetsIn
  <2>2. CASE i \notin 1 .. n
    BY <1>1, <1>3, <2>2
  <2> QED
    BY <2>1, <2>2
<1>7. Whole(t)
  <2> SUFFICES ASSUME NEW i \in 1 .. m, NEW j \in 1 .. m,
                      j - i + t[i].offset \in 1 .. t[i].length
               PROVE  /\ t[j].packet = t[i].packet /\ t[j].length = t[i].length
                      /\ t[j].offset = j - i + t[i].offset
    BY <1>0 DEF Whole
  <2>1. CASE i \in 1 .. n
    <3>1. j - i + s[i].offset \in 1 .. s[i].length
      BY <1>2, <2>1
    <3>2. j \in 1 .. n
      BY <1>5, <2>1, <3>1
    <3> QED
      BY <1>0, <1>2, <2>1, <3>1, <3>2 DEF InLine, Whole
  <2>2. CASE i \notin 1 .. n
    <3>0. t[i].offset = i - n /\ t[i].length = length
      BY <1>3, <2>2
    <3>1. t[i].offset = i - n /\ j - n >= 1
      BY <3>0
    <3>2. j \notin 1 .. n /\ j - i + (i - n) = j - n
      BY <3>1
    <3> QED
      BY <1>3, <2>2, <3>1, <3>2
  <2> QED
    BY <2>1, <2>2
<1>8. Joined(t)
  <2> SUFFICES ASSUME NEW i \in 1 .. m - 1, t[i].offset = t[i].length
               PROVE  t[i + 1].offset = 1 /\ t[i + 1].packet = t[i].packet + 1
    BY <1>0 DEF Joined
  <2>1. i \in 1 .. m /\ i + 1 \in 1 .. m
    OBVIOUS
  <2>2. CASE i \in 1 .. n - 1
    <3>1. i \in 1 .. n /\ i + 1 \in 1 .. n
      BY <2>2
    <3>2. s[i].offset = s[i].length
      BY <1>2, <3>1
    <3> QED
      BY <1>0, <1>2, <2>2, <3>1, <3>2 DEF InLine, Joined
  <2>3. CASE i = n
    <3>1. t[i].packet = last
      BY <1>0, <1>2, <2>3, <2>1 DEF EndsWith
    <3>2. i + 1 \notin 1 .. n /\ i + 1 - n = 1
      BY <2>3
    <3>3. t[i + 1].packet = last + 1 /\ t[i + 1].offset = i + 1 - n
      BY <1>3, <2>1, <3>2
    <3> QED
      BY <3>1, <3>2, <3>3
  <2>4. CASE i \notin 1 .. n
    BY <1>1, <1>3, <2>1, <2>4
  <2> QED
    BY <2>2, <2>3, <2>4
<1>9. StartsWith(t, packet)
  <2>1. CASE n = 0
    BY <1>0, <1>1, <1>3, <2>1 DEF StartsWith, EndsWith
  <2>2. CASE n > 0
    BY <1>0, <1>2, <2>2 DEF InLine, StartsWith
  <2> QED
    BY <2>1, <2>2
<1>10. EndsWith(t, packet, last + 1)
  <2>1. m \in 1 .. m /\ m \notin 1 .. n /\ m - n = length
    BY <1>1
  <2> QED
    BY <1>0, <1>1, <1>3, <2>1 DEF EndsWith
<1> QED
  BY <1>6, <1>7, <1>8, <1>9, <1>10 DEF InLine

(* Concatenation of cells is associative. *)
LEMMA CellsAssociative ==
  ASSUME NEW s \in Seq(CellSet), NEW t \in Seq(CellSet), NEW u \in Seq(CellSet)
  PROVE  s \o (t \o u) = (s \o t) \o u
<1>1. /\ s \o (t \o u) \in Seq(CellSet) /\ (s \o t) \o u \in Seq(CellSet)
      /\ Len(s \o (t \o u)) = Len((s \o t) \o u)
  BY ConcatProperties
<1>2. \A i \in 1 .. Len(s \o (t \o u)) : (s \o (t \o u))[i] = ((s \o t) \o u)[i]
  BY ConcatProperties
<1> QED
  BY <1>1, <1>2, SeqEqual

(* What is left of m_received. *)
LEMMA RestProperties ==
  ASSUME TypeOK
  PROVE  /\ Rest \in Seq(CellSet) /\ Len(Rest) = Len(received) - parsedUntil
         /\ \A i \in 1 .. Len(Rest) : Rest[i] = received[parsedUntil + i]
         /\ parsedUntil = 0 => Rest = received
<1>1. received \in Seq(CellSet) /\ parsedUntil \in 0 .. Len(received) /\ Len(received) \in Nat
  BY DEF TypeOK
<1>2. \A i \in parsedUntil + 1 .. Len(received) : received[i] \in CellSet
  BY <1>1, ElementOfSeq
<1>3. /\ Rest \in Seq(CellSet)
      /\ Len(Rest) = IF parsedUntil + 1 <= Len(received)
                     THEN Len(received) - (parsedUntil + 1) + 1 ELSE 0
      /\ \A i \in 1 .. Len(received) - (parsedUntil + 1) + 1 :
           Rest[i] = received[(parsedUntil + 1) + i - 1]
  BY <1>1, <1>2, SubSeqProperties DEF Rest
<1>4. Len(Rest) = Len(received) - parsedUntil
  BY <1>1, <1>3
<1>5. \A i \in 1 .. Len(Rest) : Rest[i] = received[parsedUntil + i]
  <2>1. \A i \in 1 .. Len(Rest) : i \in 1 .. Len(received) - (parsedUntil + 1) + 1
                                  /\ (parsedUntil + 1) + i - 1 = parsedUntil + i
    BY <1>1, <1>4
  <2> QED
    BY <1>3, <2>1
<1>6. ASSUME parsedUntil = 0 PROVE Rest = received
  <2>1. Len(Rest) = Len(received) /\ \A i \in 1 .. Len(Rest) : Rest[i] = received[i]
    BY <1>1, <1>4, <1>5, <1>6
  <2> QED
    BY <1>1, <1>3, <2>1, SeqEqual
<1> QED
  BY <1>3, <1>4, <1>5, <1>6

(* The cells of the two parts of a sequence. *)
LEMMA PartsOf ==
  ASSUME NEW s \in Seq(CellSet), NEW t \in Seq(CellSet)
  PROVE  /\ s \o t \in Seq(CellSet) /\ Len(s \o t) = Len(s) + Len(t)
         /\ \A i \in 1 .. Len(s) : (s \o t)[i] = s[i]
         /\ \A i \in 1 .. Len(t) : (s \o t)[Len(s) + i] = t[i]
BY ConcatProperties

(* The stream is made of cells. *)
LEMMA StreamProperties ==
  ASSUME TypeOK
  PROVE  /\ receiving \o wire \in Seq(CellSet)
         /\ Stream \in Seq(CellSet) /\ Len(Stream) = Len(Rest) + Len(receiving \o wire)
         /\ \A i \in 1 .. Len(Rest) : Stream[i] = Rest[i]
         /\ \A i \in 1 .. Len(receiving \o wire) : Stream[Len(Rest) + i] = (receiving \o wire)[i]
<1>1. receiving \in Seq(CellSet) /\ wire \in Seq(CellSet)
  BY DEF TypeOK
<1>2. receiving \o wire \in Seq(CellSet)
  BY <1>1, PartsOf
<1>3. Rest \in Seq(CellSet)
  BY RestProperties
<1> QED
  BY <1>2, <1>3, PartsOf DEF Stream

(* A cell is like itself. *)
LEMMA CopiedSelf ==
  ASSUME NEW s \in Seq(CellSet)
  PROVE  Copied(s, s, 0)
<1>1. \A i \in 1 .. Len(s) : i + 0 = i
  OBVIOUS
<1> QED
  BY <1>1 DEF Copied, SameCell

(* The cells in front are taken off; the rest of the stream stays. *)
LEMMA TakenOff ==
  ASSUME NEW rest \in Seq(CellSet), NEW new \in Seq(CellSet), NEW behind \in Seq(CellSet),
         NEW length \in Nat, Len(new) = Len(rest) - length, Copied(new, rest, length)
  PROVE  /\ Len(new \o behind) = Len(rest \o behind) - length
         /\ Copied(new \o behind, rest \o behind, length)
<1>0. PICK m \in Nat, n \in Nat, k \in Nat :
        m = Len(new) /\ n = Len(rest) /\ k = Len(behind)
  OBVIOUS
<1>1. m = n - length
  BY <1>0
<1>2. /\ Len(new \o behind) = m + k /\ Len(rest \o behind) = n + k
      /\ \A i \in 1 .. m : (new \o behind)[i] = new[i]
      /\ \A i \in 1 .. k : (new \o behind)[m + i] = behind[i]
      /\ \A i \in 1 .. n : (rest \o behind)[i] = rest[i]
      /\ \A i \in 1 .. k : (rest \o behind)[n + i] = behind[i]
  BY <1>0, PartsOf
<1>3. ASSUME NEW i \in 1 .. m + k
      PROVE  SameCell((new \o behind)[i], (rest \o behind)[i + length])
  <2>1. CASE i <= m
    <3>1. i \in 1 .. m /\ i + length \in 1 .. n
      BY <1>1, <2>1
    <3>2. SameCell(new[i], rest[i + length])
      BY <1>0, <3>1 DEF Copied
    <3> QED
      BY <1>2, <3>1, <3>2
  <2>2. CASE i > m
    <3>1. i - m \in 1 .. k /\ m + (i - m) = i /\ n + (i - m) = i + length
      BY <1>1, <2>2
    <3>2. (new \o behind)[i] = behind[i - m] /\ (rest \o behind)[i + length] = behind[i - m]
      BY <1>2, <3>1
    <3> QED
      BY <3>2 DEF SameCell
  <2>3. i <= m \/ i > m
    OBVIOUS
  <2> QED
    BY <2>1, <2>2, <2>3
<1>4. Len(new \o behind) = Len(rest \o behind) - length
  BY <1>1, <1>2
<1> QED
  BY <1>2, <1>3, <1>4 DEF Copied

(* Deciphering changes no cell's place. *)
LEMMA DecipheredCells ==
  ASSUME TypeOK, NEW i \in 1 .. Len(received)
  PROVE  SameCell(Deciphered[i], received[i])
<1>1. received \in Seq(CellSet) /\ DOMAIN received = 1 .. Len(received)
  BY DEF TypeOK
<1>2. received[i] \in CellSet
  BY <1>1, ElementOfSeq
<1>3. \A cell \in CellSet, text \in {"plain", "garbage"} :
        SameCell([cell EXCEPT !.text = text], cell)
  BY DEF SameCell, CellSet
<1>4. CASE Decrypts
  <2>1. Deciphered[i] = IF i \in parsedUntil + 1 .. parsedUntil + HeaderLength
                        THEN [received[i] EXCEPT !.text = IF KeyFits THEN "plain" ELSE "garbage"]
                        ELSE received[i]
    BY <1>1, <1>4 DEF Deciphered
  <2>2. SameCell([received[i] EXCEPT !.text = IF KeyFits THEN "plain" ELSE "garbage"], received[i])
    BY <1>2, <1>3
  <2> QED
    BY <2>1, <2>2 DEF SameCell
<1>5. CASE ~Decrypts
  BY <1>5 DEF Deciphered, SameCell
<1> QED
  BY <1>4, <1>5

(* Behind a packet of that length the buffer goes on as before, whether it was
   erased or the offset was advanced. *)
LEMMA BufferGoesOn ==
  ASSUME TypeOK, NEW length \in Nat, parsedUntil + length \in 0 .. Len(received),
         \/ received' = Deciphered /\ parsedUntil' = parsedUntil + length
         \/ /\ received' = SubSeq(Deciphered, parsedUntil + length + 1, Len(Deciphered))
            /\ parsedUntil' = 0
  PROVE  Rest' \in Seq(CellSet) /\ Len(Rest') = Len(Rest) - length /\ Copied(Rest', Rest, length)
<1> DEFINE new == SubSeq(Deciphered, parsedUntil + length + 1, Len(Deciphered))
<1>1. /\ received \in Seq(CellSet) /\ parsedUntil \in 0 .. Len(received)
      /\ Deciphered \in Seq(CellSet) /\ Len(Deciphered) = Len(received)
  BY DecipheredType DEF TypeOK
<1>0. PICK n \in Nat, from \in Nat, m \in Nat :
        n = Len(received) /\ from = parsedUntil /\ m = Len(Rest)
  <2>1. Len(received) \in Nat /\ parsedUntil \in Nat
    BY <1>1
  <2>2. Rest \in Seq(CellSet)
    BY RestProperties
  <2>3. Len(Rest) \in Nat
    BY <2>2
  <2> QED
    BY <2>1, <2>3
<1>2. n = Len(Deciphered) /\ m = n - from /\ from + length <= n
  BY <1>0, <1>1, RestProperties
<1>3. \A i \in from + length + 1 .. n : Deciphered[i] \in CellSet
  <2>1. \A i \in from + length + 1 .. n : i \in 1 .. n
    OBVIOUS
  <2> QED
    BY <1>0, <1>1, <2>1, ElementOfSeq
<1>4. /\ new \in Seq(CellSet)
      /\ Len(new) = IF from + length + 1 <= n THEN n - (from + length + 1) + 1 ELSE 0
      /\ \A i \in 1 .. n - (from + length + 1) + 1 : new[i] = Deciphered[(from + length + 1) + i - 1]
  <2>1. new = SubSeq(Deciphered, from + length + 1, n)
    BY <1>0, <1>2
  <2>2. from + length + 1 \in Int /\ n \in Int
    OBVIOUS
  <2> HIDE DEF new
  <2> QED
    BY <1>1, <1>3, <2>1, <2>2, SubSeqProperties
<1> HIDE DEF new
<1>5. Len(new) = m - length
  BY <1>2, <1>4
<1>6. ASSUME NEW i \in 1 .. Len(new) PROVE SameCell(new[i], Rest[i + length])
  <2>1. i \in 1 .. n - (from + length + 1) + 1 /\ (from + length + 1) + i - 1 = from + (i + length)
        /\ from + (i + length) \in 1 .. n /\ i + length \in 1 .. m
    BY <1>2, <1>5
  <2>2. new[i] = Deciphered[from + (i + length)]
    BY <1>4, <2>1
  <2>3. Rest[i + length] = received[from + (i + length)]
    BY <1>0, <2>1, RestProperties
  <2>4. SameCell(Deciphered[from + (i + length)], received[from + (i + length)])
    BY <1>0, <2>1, DecipheredCells
  <2> QED
    BY <2>2, <2>3, <2>4
<1>7. Rest' = new
  <2>1. CASE received' = Deciphered /\ parsedUntil' = parsedUntil + length
    BY <2>1 DEF Rest, new
  <2>2. CASE received' = new /\ parsedUntil' = 0
    <3>1. Rest' = SubSeq(new, 1, Len(new))
      BY <2>2 DEF Rest
    <3>2. /\ SubSeq(new, 1, Len(new)) \in Seq(CellSet) /\ Len(SubSeq(new, 1, Len(new))) = Len(new)
          /\ \A i \in 1 .. Len(new) : SubSeq(new, 1, Len(new))[i] = new[i]
      <4>1. Len(new) \in Nat /\ \A i \in 1 .. Len(new) : new[i] \in CellSet
        BY <1>4, ElementOfSeq
      <4>2. /\ SubSeq(new, 1, Len(new)) \in Seq(CellSet)
            /\ Len(SubSeq(new, 1, Len(new))) = IF 1 <= Len(new) THEN Len(new) - 1 + 1 ELSE 0
            /\ \A i \in 1 .. Len(new) - 1 + 1 : SubSeq(new, 1, Len(new))[i] = new[1 + i - 1]
        BY <1>4, <4>1, SubSeqProperties
      <4> QED
        BY <4>1, <4>2
    <3> QED
      BY <1>4, <3>1, <3>2, SeqEqual
  <2> QED
    BY <2>1, <2>2 DEF new
<1> QED
  BY <1>0, <1>4, <1>5, <1>6, <1>7 DEF Copied

(* What the listener got, and what is on the way to it. *)
NoJunk == \A i \in 1 .. Len(handled) : handled[i] # Junk
Awaited == Len(handled) + 1
(* Up to the first header that went wrong, the cells not parsed yet are the
   packets behind those the listener got, and all the client has sent. *)
InStep ==
  listener /\ NoJunk =>
    /\ InLine(Stream, Awaited)
    /\ client => EndsWith(Stream, Awaited, sent)
AtStart == ~parsing => parsedUntil = 0
AsSent == HandledInOrder /\ InStep /\ AtStart

(* The listener gets one more packet: the next one, or junk. *)
LEMMA OneMore ==
  ASSUME NEW packet \in Nat, TypeOK, HandledInOrder, handled' = Append(handled, packet),
         packet # Junk => (NoJunk => packet = Awaited)
  PROVE  /\ HandledInOrder'
         /\ NoJunk' => NoJunk /\ packet # Junk
         /\ Awaited' = Awaited + 1
<1>1. handled \in Seq(Nat) /\ DOMAIN handled = 1 .. Len(handled)
  BY DEF TypeOK
<1>0. PICK n \in Nat : n = Len(handled)
  <2>1. Len(handled) \in Nat
    BY <1>1
  <2> QED
    BY <2>1
<1>2. /\ Len(handled') = n + 1 /\ DOMAIN handled' = 1 .. n + 1 /\ handled'[n + 1] = packet
      /\ \A i \in 1 .. n : handled'[i] = handled[i]
  BY <1>0, <1>1, AppendProperties
<1>3. NoJunk' => NoJunk /\ packet # Junk
  <2>1. \A i \in 1 .. n : i \in 1 .. n + 1
    OBVIOUS
  <2>2. n + 1 \in 1 .. n + 1
    OBVIOUS
  <2> QED
    BY <1>0, <1>2, <2>1, <2>2 DEF NoJunk
<1>4. Awaited' = Awaited + 1
  BY <1>0, <1>2 DEF Awaited
<1>5. ASSUME NEW i \in 1 .. n + 1 PROVE JunkUpto(i)' \/ handled'[i] = i
  <2>1. CASE i \in 1 .. n
    <3>1. JunkUpto(i) \/ handled[i] = i
      BY <1>0, <1>1, <2>1 DEF HandledInOrder
    <3>2. ASSUME JunkUpto(i) PROVE JunkUpto(i)'
      <4>1. PICK j \in 1 .. i : handled[j] = Junk
        BY <3>2 DEF JunkUpto
      <4>2. j \in 1 .. n
        BY <2>1
      <4> QED
        BY <1>2, <4>1, <4>2 DEF JunkUpto
    <3> QED
      BY <1>2, <2>1, <3>1, <3>2
  <2>2. CASE i = n + 1
    <3>1. CASE NoJunk /\ packet # Junk
      BY <1>0, <1>2, <2>2, <3>1 DEF Awaited
    <3>2. CASE packet = Junk
      <4>1. i \in 1 .. i
        BY <2>2
      <4> QED
        BY <1>2, <2>2, <3>2, <4>1 DEF JunkUpto
    <3>3. CASE ~NoJunk
      <4>1. PICK j \in 1 .. n : handled[j] = Junk
        BY <1>0, <3>3 DEF NoJunk
      <4>2. j \in 1 .. i
        BY <2>2
      <4> QED
        BY <1>2, <4>1, <4>2 DEF JunkUpto
    <3> QED
      BY <3>1, <3>2, <3>3
  <2>3. i \in 1 .. n \/ i = n + 1
    OBVIOUS
  <2> QED
    BY <2>1, <2>2, <2>3
<1>6. HandledInOrder'
  BY <1>2, <1>5 DEF HandledInOrder
<1> QED
  BY <1>3, <1>4, <1>6

(* A handler that gives the listener nothing and leaves the stream as it is. *)
LEMMA StreamStays ==
  ASSUME TypeOK, HandledInOrder, InStep, UNCHANGED <<handled, sent>>,
         listener' => listener, client' => client,
         listener' => Stream' \in Seq(CellSet) /\ Len(Stream') = Len(Stream) /\ Copied(Stream', Stream, 0)
  PROVE  HandledInOrder' /\ InStep'
<1>1. HandledInOrder'
  BY DEF HandledInOrder, JunkUpto
<1>2. ASSUME listener', NoJunk'
      PROVE  InLine(Stream', Awaited') /\ (client' => EndsWith(Stream', Awaited', sent'))
  <2>1. listener /\ NoJunk /\ Awaited' = Awaited /\ Awaited \in Nat /\ sent \in Nat /\ sent' = sent
    BY <1>2 DEF NoJunk, Awaited, TypeOK
  <2>2. InLine(Stream, Awaited) /\ (client => EndsWith(Stream, Awaited, sent))
    BY <2>1 DEF InStep
  <2>3. /\ Stream \in Seq(CellSet) /\ Stream' \in Seq(CellSet) /\ Len(Stream') = Len(Stream)
        /\ Copied(Stream', Stream, 0) /\ Len(Stream) \in Nat
    BY <1>2, StreamProperties
  <2>4. Len(Stream') <= Len(Stream)
    BY <2>3
  <2>5. InLine(Stream', Awaited)
    BY <2>1, <2>2, <2>3, <2>4, FirstOfRun
  <2>6. client => EndsWith(Stream', Awaited, sent)
    BY <2>1, <2>2, <2>3, EndOfRun
  <2> QED
    BY <2>1, <2>5, <2>6
<1>3. InStep'
  BY <1>2 DEF InStep
<1> QED
  BY <1>1, <1>3

(* So do the handlers that touch neither the buffer nor what is on the way. *)
LEMMA NothingRead ==
  ASSUME TypeOK, HandledInOrder, InStep,
         UNCHANGED <<handled, sent, wire, receiving, received, parsedUntil>>,
         listener' => listener, client' => client
  PROVE  HandledInOrder' /\ InStep'
<1>1. Stream' = Stream
  BY DEF Stream, Rest
<1>2. Stream' \in Seq(CellSet) /\ Len(Stream') = Len(Stream) /\ Copied(Stream', Stream, 0)
  BY <1>1, StreamProperties, CopiedSelf
<1> QED
  BY <1>2, StreamStays

(* A packet is put behind all that is on the way. *)
LEMMA ClientSendsStream ==
  ASSUME TypeOK, TypeOK', AsSent, NEW body \in BodyLengths, ClientSends(body)
  PROVE  AsSent'
<1> DEFINE length == HeaderLength + body
<1> DEFINE cells == Cells(sent + 1, length)
<1>1. sent \in Nat /\ sent + 1 \in Nat /\ length \in Nat \ {0} /\ sent' = sent + 1 /\ client
  BY CryptedConnectionAssumption DEF TypeOK, ClientSends
<1> HIDE DEF length
<1>2. cells \in Seq(CellSet) /\ Len(cells) = length
  <2>1. cells \in Seq(CellSet)
    BY <1>1, CellsType
  <2>2. DOMAIN cells = 1 .. length
    BY DEF Cells
  <2> QED
    BY <1>1, <2>1, <2>2
<1>3. wire' = wire \o cells /\ UNCHANGED <<client, receiving, received, parsedUntil, parsing, listener, handled>>
  BY DEF ClientSends, reader, ends, length
<1> HIDE DEF cells
<1>4. Stream' = Stream \o cells
  <2>1. Rest \in Seq(CellSet) /\ Rest' = Rest
    BY <1>3, RestProperties DEF Rest
  <2>2. receiving \in Seq(CellSet) /\ wire \in Seq(CellSet) /\ receiving \o wire \in Seq(CellSet)
    BY StreamProperties DEF TypeOK
  <2>3. Stream' = Rest \o (receiving \o (wire \o cells))
    BY <1>3, <2>1 DEF Stream
  <2>4. receiving \o (wire \o cells) = (receiving \o wire) \o cells
    BY <1>2, <2>2, CellsAssociative
  <2>5. Rest \o ((receiving \o wire) \o cells) = (Rest \o (receiving \o wire)) \o cells
    BY <1>2, <2>1, <2>2, CellsAssociative
  <2> QED
    BY <2>3, <2>4, <2>5 DEF Stream
<1>5. /\ Stream \in Seq(CellSet) /\ Stream' \in Seq(CellSet) /\ Len(Stream') = Len(Stream) + length
      /\ Copied(Stream, Stream', 0) /\ Copied(cells, Stream', Len(Stream))
  <2>1. Stream \in Seq(CellSet)
    BY StreamProperties
  <2>2. /\ Stream' \in Seq(CellSet) /\ Len(Stream') = Len(Stream) + length
        /\ \A i \in 1 .. Len(Stream) : Stream'[i] = Stream[i]
        /\ \A i \in 1 .. Len(cells) : Stream'[Len(Stream) + i] = cells[i]
    BY <1>2, <1>4, <2>1, PartsOf
  <2>3. \A i \in 1 .. Len(Stream) : i + 0 = i
    OBVIOUS
  <2>4. \A i \in 1 .. Len(cells) : i + Len(Stream) = Len(Stream) + i
    BY <2>1
  <2>5. Copied(Stream, Stream', 0)
    BY <2>2, <2>3 DEF Copied, SameCell
  <2>6. Copied(cells, Stream', Len(Stream))
    BY <2>2, <2>4 DEF Copied, SameCell
  <2> QED
    BY <2>1, <2>2, <2>5, <2>6
<1>6. ASSUME listener', NoJunk'
      PROVE  InLine(Stream', Awaited') /\ EndsWith(Stream', Awaited', sent')
  <2>1. Awaited' = Awaited /\ Awaited \in Nat
    BY <1>3 DEF Awaited, TypeOK
  <2>2. InLine(Stream, Awaited) /\ EndsWith(Stream, Awaited, sent)
    BY <1>1, <1>3, <1>6 DEF AsSent, InStep, NoJunk
  <2>3. InLine(Stream', Awaited) /\ EndsWith(Stream', Awaited, sent + 1)
    BY <1>1, <1>5, <2>1, <2>2, LongerRun DEF cells
  <2> QED
    BY <1>1, <2>1, <2>3
<1>7. InStep'
  BY <1>6 DEF InStep
<1>8. HandledInOrder' /\ AtStart'
  BY <1>3 DEF AsSent, HandledInOrder, JunkUpto, AtStart
<1> QED
  BY <1>7, <1>8 DEF AsSent

(* A reset takes what is on the way with it; nothing comes behind. *)
LEMMA ClientGoesStream ==
  ASSUME TypeOK, TypeOK', AsSent, ClientGoes
  PROVE  AsSent'
<1>1. /\ client' = FALSE /\ wire' \in {wire, <<>>}
      /\ UNCHANGED <<sent, receiving, received, parsedUntil, parsing, listener, handled>>
  BY DEF ClientGoes, reader, ends
<1>2. /\ Stream \in Seq(CellSet) /\ Stream' \in Seq(CellSet) /\ Len(Stream') <= Len(Stream)
      /\ Copied(Stream', Stream, 0)
  <2>1. CASE wire' = wire
    <3>1. Stream' = Stream /\ Stream \in Seq(CellSet)
      BY <1>1, <2>1, StreamProperties DEF Stream, Rest
    <3>2. Len(Stream) <= Len(Stream)
      BY <3>1
    <3> QED
      BY <3>1, <3>2, CopiedSelf
  <2>2. CASE wire' = <<>>
    <3>1. Rest' = Rest /\ Rest \in Seq(CellSet) /\ receiving \in Seq(CellSet) /\ wire \in Seq(CellSet)
      BY <1>1, RestProperties DEF Rest, TypeOK
    <3>2. Stream' = Rest \o receiving
      <4>1. Stream' = Rest \o (receiving \o <<>>)
        BY <1>1, <2>2, <3>1 DEF Stream
      <4> QED
        BY <3>1, <4>1, ConcatEmptySeq
    <3>3. Rest \o receiving \in Seq(CellSet)
      BY <3>1, PartsOf
    <3>4. Stream = (Rest \o receiving) \o wire
      BY <3>1, CellsAssociative DEF Stream
    <3>5. /\ Stream \in Seq(CellSet) /\ Len(Stream) = Len(Rest \o receiving) + Len(wire)
          /\ \A i \in 1 .. Len(Rest \o receiving) : Stream[i] = (Rest \o receiving)[i]
      BY <3>1, <3>3, <3>4, PartsOf
    <3>6. \A i \in 1 .. Len(Rest \o receiving) : i + 0 = i
      OBVIOUS
    <3>7. Copied(Stream', Stream, 0)
      BY <3>2, <3>5, <3>6 DEF Copied, SameCell
    <3>8. Len(Stream') <= Len(Stream)
      <4>1. Len(Rest \o receiving) \in Nat /\ Len(wire) \in Nat
        BY <3>1, <3>3
      <4> QED
        BY <3>2, <3>5, <4>1
    <3> QED
      BY <3>2, <3>3, <3>5, <3>7, <3>8
  <2> QED
    BY <1>1, <2>1, <2>2
<1>3. ASSUME listener', NoJunk'
      PROVE  InLine(Stream', Awaited')
  <2>1. Awaited' = Awaited /\ Awaited \in Nat
    BY <1>1 DEF Awaited, TypeOK
  <2>2. InLine(Stream, Awaited)
    BY <1>1, <1>3 DEF AsSent, InStep, NoJunk
  <2> QED
    BY <1>2, <2>1, <2>2, FirstOfRun
<1>4. InStep'
  BY <1>1, <1>3 DEF InStep
<1>5. HandledInOrder' /\ AtStart'
  BY <1>1 DEF AsSent, HandledInOrder, JunkUpto, AtStart
<1> QED
  BY <1>4, <1>5 DEF AsSent

(* A read takes the cells in front of the others. *)
LEMMA ReadCompletesStream ==
  ASSUME TypeOK, TypeOK', AsSent, NEW size \in 1 .. Len(wire), ReadCompletes(size)
  PROVE  AsSent'
<1>1. /\ receiving = <<>> /\ receiving' = SubSeq(wire, 1, size)
      /\ wire' = SubSeq(wire, size + 1, Len(wire))
      /\ UNCHANGED <<client, sent, received, parsedUntil, parsing, listener, handled>>
  BY DEF ReadCompletes, ends
<1>2. wire \in Seq(CellSet) /\ receiving' \in Seq(CellSet) /\ wire' \in Seq(CellSet)
  BY DEF TypeOK
<1>3. receiving' \o wire' = wire
  <2>0. PICK n \in Nat : n = Len(wire)
    BY <1>2
  <2>1. size \in 1 .. n /\ \A i \in 1 .. n : wire[i] \in CellSet
    BY <1>2, <2>0, ElementOfSeq
  <2>2. /\ Len(receiving') = IF 1 <= size THEN size - 1 + 1 ELSE 0
        /\ \A i \in 1 .. size - 1 + 1 : receiving'[i] = wire[1 + i - 1]
    <3>1. \A i \in 1 .. size : wire[i] \in CellSet
      BY <2>1
    <3> QED
      BY <1>1, <1>2, <2>1, <3>1, SubSeqProperties
  <2>3. /\ Len(wire') = IF size + 1 <= n THEN n - (size + 1) + 1 ELSE 0
        /\ \A i \in 1 .. n - (size + 1) + 1 : wire'[i] = wire[(size + 1) + i - 1]
    <3>1. \A i \in size + 1 .. n : wire[i] \in CellSet
      BY <2>1
    <3> QED
      BY <1>1, <1>2, <2>0, <2>1, <3>1, SubSeqProperties
  <2>4. Len(receiving') = size /\ Len(wire') = n - size
    BY <2>1, <2>2, <2>3
  <2>5. /\ receiving' \o wire' \in Seq(CellSet) /\ Len(receiving' \o wire') = size + (n - size)
        /\ \A i \in 1 .. size : (receiving' \o wire')[i] = receiving'[i]
        /\ \A i \in 1 .. n - size : (receiving' \o wire')[size + i] = wire'[i]
    <3>1. /\ receiving' \o wire' \in Seq(CellSet)
          /\ Len(receiving' \o wire') = Len(receiving') + Len(wire')
          /\ \A i \in 1 .. Len(receiving') : (receiving' \o wire')[i] = receiving'[i]
          /\ \A i \in 1 .. Len(wire') : (receiving' \o wire')[Len(receiving') + i] = wire'[i]
      BY <1>2, PartsOf
    <3> QED
      BY <2>4, <3>1
  <2>6. ASSUME NEW i \in 1 .. n PROVE (receiving' \o wire')[i] = wire[i]
    <3>1. CASE i <= size
      <4>1. i \in 1 .. size /\ i \in 1 .. size - 1 + 1 /\ 1 + i - 1 = i
        BY <3>1
      <4> QED
        BY <2>2, <2>5, <4>1
    <3>2. CASE i > size
      <4>1. /\ i - size \in 1 .. n - size /\ i - size \in 1 .. n - (size + 1) + 1
            /\ size + (i - size) = i /\ (size + 1) + (i - size) - 1 = i
        BY <3>2
      <4> QED
        BY <2>3, <2>5, <4>1
    <3>3. i <= size \/ i > size
      OBVIOUS
    <3> QED
      BY <3>1, <3>2, <3>3
  <2>7. Len(receiving' \o wire') = n
    BY <2>1, <2>5
  <2> QED
    BY <1>2, <2>0, <2>5, <2>6, <2>7, SeqEqual
<1>4. receiving \o wire = wire
  BY <1>1, <1>2, ConcatEmptySeq
<1>5. Stream' = Stream
  BY <1>1, <1>3, <1>4 DEF Stream, Rest
<1>6. Stream' \in Seq(CellSet) /\ Len(Stream') = Len(Stream) /\ Copied(Stream', Stream, 0)
  BY <1>5, StreamProperties, CopiedSelf
<1>7. HandledInOrder' /\ InStep'
  BY <1>1, <1>6, StreamStays DEF AsSent
<1>8. AtStart'
  BY <1>1 DEF AsSent, AtStart
<1> QED
  BY <1>7, <1>8 DEF AsSent

(* What a read brought goes behind what is left. *)
LEMMA ReceivedStream ==
  ASSUME TypeOK, TypeOK', AsSent, Received
  PROVE  AsSent'
<1>1. /\ ~parsing /\ received' = received \o receiving /\ receiving' = <<>>
      /\ parsing' = TRUE /\ parsedUntil' = 0
      /\ UNCHANGED <<client, sent, wire, listener, handled>>
  BY DEF Received, peerSide, ends
<1>2. parsedUntil = 0
  BY <1>1 DEF AsSent, AtStart
<1>3. /\ received \in Seq(CellSet) /\ receiving \in Seq(CellSet) /\ wire \in Seq(CellSet)
      /\ wire' = wire
  BY <1>1 DEF TypeOK
<1>4. Rest = received
  BY <1>2, RestProperties
<1>5. Rest' = received \o receiving
  <2>1. received \o receiving \in Seq(CellSet)
    BY <1>3, PartsOf
  <2>2. Rest' = SubSeq(received \o receiving, 1, Len(received \o receiving))
    BY <1>1 DEF Rest
  <2> DEFINE all == received \o receiving
  <2> HIDE DEF all
  <2>3. all \in Seq(CellSet)
    BY <2>1 DEF all
  <2>4. SubSeq(all, 1, Len(all)) = all
    <3>1. Len(all) \in Nat /\ \A i \in 1 .. Len(all) : all[i] \in CellSet
      BY <2>3, ElementOfSeq
    <3>2. /\ SubSeq(all, 1, Len(all)) \in Seq(CellSet)
          /\ Len(SubSeq(all, 1, Len(all))) = IF 1 <= Len(all) THEN Len(all) - 1 + 1 ELSE 0
          /\ \A i \in 1 .. Len(all) - 1 + 1 : SubSeq(all, 1, Len(all))[i] = all[1 + i - 1]
      BY <2>3, <3>1, SubSeqProperties
    <3>3. Len(SubSeq(all, 1, Len(all))) = Len(all)
          /\ \A i \in 1 .. Len(SubSeq(all, 1, Len(all))) : SubSeq(all, 1, Len(all))[i] = all[i]
      BY <3>1, <3>2
    <3> QED
      BY <2>3, <3>2, <3>3, SeqEqual
  <2> QED
    BY <2>2, <2>4 DEF all
<1>6. Stream' = Stream
  <2>1. Stream' = (received \o receiving) \o (<<>> \o wire)
    BY <1>1, <1>3, <1>5 DEF Stream
  <2>2. <<>> \o wire = wire
    BY <1>3, ConcatEmptySeq
  <2>3. received \o (receiving \o wire) = (received \o receiving) \o wire
    BY <1>3, CellsAssociative
  <2> QED
    BY <1>4, <2>1, <2>2, <2>3 DEF Stream
<1>7. Stream' \in Seq(CellSet) /\ Len(Stream') = Len(Stream) /\ Copied(Stream', Stream, 0)
  BY <1>6, StreamProperties, CopiedSelf
<1>8. HandledInOrder' /\ InStep'
  BY <1>1, <1>7, StreamStays DEF AsSent
<1>9. AtStart'
  BY <1>1 DEF AtStart
<1> QED
  BY <1>8, <1>9 DEF AsSent

(* A header that can be read is that of the packet the listener waits for. *)
LEMMA NextPacket ==
  ASSUME TypeOK, AsSent, listener, NoJunk, Readable(Deciphered),
         NEW length \in Lengths(Deciphered) \ {0}
  PROVE  /\ Packet(Deciphered) = Awaited
         /\ Len(Stream) > 0 /\ length = FirstLength(Stream) /\ length <= Len(Stream)
<1>1. InLine(Stream, Awaited)
  BY DEF AsSent, InStep
<1>2. /\ HeaderLength \in Nat \ {0} /\ Len(received) \in Nat /\ parsedUntil \in Nat
      /\ Available \in Int /\ Available = Len(received) - parsedUntil
  BY CryptedConnectionAssumption DEF TypeOK, Available
<1>3. Available >= HeaderLength
  BY <1>2 DEF Lengths
<1>4. Len(Rest) = Available /\ Len(Rest) \in Nat /\ 1 \in 1 .. Len(Rest)
      /\ parsedUntil + 1 \in 1 .. Len(received)
  <2>1. Len(Rest) = Available
    BY <1>2, RestProperties
  <2>2. Available >= 1
    BY <1>2, <1>3
  <2> QED
    BY <1>2, <2>1, <2>2
<1>5. Stream[1] = received[parsedUntil + 1]
  BY <1>4, RestProperties, StreamProperties
<1>6. SameCell(Deciphered[parsedUntil + 1], Stream[1])
  BY <1>4, <1>5, DecipheredCells
<1>7. Len(Stream) > 0 /\ Available <= Len(Stream)
  <2>1. Len(Stream) = Len(Rest) + Len(receiving \o wire) /\ Len(receiving \o wire) \in Nat
    BY StreamProperties
  <2>2. Len(Rest) >= 1
    BY <1>4
  <2> QED
    BY <1>4, <2>1, <2>2
<1>8. Packet(Deciphered) = Awaited
  BY <1>1, <1>6, <1>7 DEF Packet, SameCell, InLine, StartsWith
<1>9. length = Stream[1].length /\ length <= Available
  <2>1. length \in {IF Deciphered[parsedUntil + 1].length <= Available
                    THEN Deciphered[parsedUntil + 1].length ELSE 0}
    BY <1>2, <1>3 DEF Lengths
  <2> QED
    BY <1>6, <2>1 DEF SameCell
<1>10. length <= Len(Stream)
  <2>1. Stream[1].length \in Nat
    <3>1. Stream \in Seq(CellSet) /\ 1 \in 1 .. Len(Stream)
      BY <1>7, StreamProperties
    <3> QED
      BY <3>1, CellOf
  <2>2. Len(Stream) \in Nat
    BY StreamProperties
  <2> QED
    BY <1>2, <1>7, <1>9, <2>1, <2>2
<1> QED
  BY <1>7, <1>8, <1>9, <1>10 DEF FirstLength

(* A packet of that length is taken off the stream. *)
LEMMA StreamGoesOn ==
  ASSUME TypeOK, NEW length \in Nat, parsedUntil + length \in 0 .. Len(received),
         \/ received' = Deciphered /\ parsedUntil' = parsedUntil + length
         \/ /\ received' = SubSeq(Deciphered, parsedUntil + length + 1, Len(Deciphered))
            /\ parsedUntil' = 0,
         UNCHANGED <<receiving, wire>>
  PROVE  /\ Stream' \in Seq(CellSet) /\ Len(Stream') = Len(Stream) - length
         /\ Copied(Stream', Stream, length)
<1>1. Rest' \in Seq(CellSet) /\ Len(Rest') = Len(Rest) - length /\ Copied(Rest', Rest, length)
  BY BufferGoesOn
<1>2. Rest \in Seq(CellSet) /\ receiving \o wire \in Seq(CellSet)
  BY RestProperties, StreamProperties
<1>3. Stream = Rest \o (receiving \o wire) /\ Stream' = Rest' \o (receiving \o wire)
  BY DEF Stream
<1>4. Stream' \in Seq(CellSet)
  BY <1>1, <1>2, <1>3, PartsOf
<1> QED
  BY <1>1, <1>2, <1>3, <1>4, TakenOff

(* While there is a listener its connection is not closed. *)
LEMMA ListenerHasSocket == Ends /\ listener => ~closedOnParsing
BY DEF Ends, ToldOnce, SocketKept

(* An incomplete packet stays where it is. *)
LEMMA ParseRestStream ==
  ASSUME TypeOK, TypeOK', Ends, AsSent, NEW length, ParseRest(length)
  PROVE  AsSent'
<1>1. /\ ParsingEnds(Deciphered, parsedUntil + length) /\ length \in Lengths(Deciphered)
      /\ length = 0 \/ ~listener
      /\ UNCHANGED <<receiving, client, sent, wire, handled>>
  BY DEF ParseRest, peerSide
<1>2. parsing' = FALSE /\ parsedUntil' = 0 /\ listener' = listener
  BY <1>1 DEF ParsingEnds
<1>3. ASSUME listener'
      PROVE  Stream' \in Seq(CellSet) /\ Len(Stream') = Len(Stream) /\ Copied(Stream', Stream, 0)
  <2>1. length = 0 /\ ~closedOnParsing
    BY <1>1, <1>2, <1>3, ListenerHasSocket
  <2>2. received' = SubSeq(Deciphered, parsedUntil + 0 + 1, Len(Deciphered))
    BY <1>1, <2>1 DEF ParsingEnds, TypeOK
  <2>3. 0 \in Nat /\ parsedUntil + 0 \in 0 .. Len(received)
    BY DEF TypeOK
  <2>4. /\ Stream' \in Seq(CellSet) /\ Len(Stream') = Len(Stream) - 0 /\ Copied(Stream', Stream, 0)
    BY <1>1, <1>2, <2>2, <2>3, StreamGoesOn
  <2>5. Len(Stream) \in Nat
    BY StreamProperties
  <2> QED
    BY <2>4, <2>5
<1>4. HandledInOrder' /\ InStep'
  BY <1>1, <1>2, <1>3, StreamStays DEF AsSent
<1> QED
  BY <1>2, <1>4 DEF AsSent, AtStart

(* The packet the listener gets is taken off the stream, whatever it makes of it. *)
LEMMA ParsePacketStream ==
  ASSUME TypeOK, TypeOK', Ends, AsSent, NEW length, NEW result \in Results, NEW sends \in BOOLEAN,
         ParsePacket(length, result, sends)
  PROVE  AsSent'
<1>1. /\ parsing /\ listener /\ length \in Lengths(Deciphered) \ {0}
      /\ handled' = Append(handled, Packet(Deciphered))
      /\ UNCHANGED <<receiving, client, sent, wire>>
  BY DEF ParsePacket, peerSide
<1>2. length \in Nat /\ parsedUntil + length \in 0 .. Len(received) /\ ~closedOnParsing
  BY <1>1, OffsetsFit, ListenerHasSocket
<1>3. Packet(Deciphered) \in Nat /\ (Packet(Deciphered) # Junk => Readable(Deciphered))
  <2>1. handled' \in Seq(Nat) /\ handled \in Seq(Nat)
    BY DEF TypeOK
  <2>2. handled'[Len(handled) + 1] = Packet(Deciphered) /\ Len(handled') = Len(handled) + 1
    BY <1>1, <2>1, AppendProperties
  <2>3. Len(handled) + 1 \in 1 .. Len(handled')
    BY <2>1, <2>2
  <2>4. handled'[Len(handled) + 1] \in Nat
    BY <2>1, <2>3, ElementOfSeq
  <2> QED
    BY <2>2, <2>4 DEF Packet
<1>4. Packet(Deciphered) # Junk => (NoJunk => Packet(Deciphered) = Awaited)
  BY <1>1, <1>3, NextPacket
<1>5. /\ HandledInOrder' /\ Awaited' = Awaited + 1
      /\ NoJunk' => NoJunk /\ Packet(Deciphered) # Junk
  BY <1>1, <1>3, <1>4, OneMore DEF AsSent
<1>6. ASSUME listener'
      PROVE  \/ received' = Deciphered /\ parsedUntil' = parsedUntil + length
             \/ /\ received' = SubSeq(Deciphered, parsedUntil + length + 1, Len(Deciphered))
                /\ parsedUntil' = 0
  <2>1. CASE result = "Pass"
    BY <2>1 DEF ParsePacket, PassOn
  <2>2. CASE result = "Block"
    BY <1>2, <2>2 DEF ParsePacket, ParsingEnds, BlockedUntil
  <2>3. CASE result = "Disconnect"
    BY <1>6, <2>3 DEF ParsePacket, DisconnectsPlayer
  <2> QED
    BY <2>1, <2>2, <2>3 DEF Results
<1>7. ASSUME listener', NoJunk'
      PROVE  InLine(Stream', Awaited') /\ (client' => EndsWith(Stream', Awaited', sent'))
  <2>1. /\ Stream' \in Seq(CellSet) /\ Len(Stream') = Len(Stream) - length
        /\ Copied(Stream', Stream, length) /\ Stream \in Seq(CellSet)
    BY <1>1, <1>2, <1>6, <1>7, StreamGoesOn, StreamProperties
  <2>2. NoJunk /\ Readable(Deciphered)
    BY <1>3, <1>5, <1>7
  <2>3. Len(Stream) > 0 /\ length = FirstLength(Stream) /\ length <= Len(Stream)
    BY <1>1, <2>2, NextPacket
  <2>4. /\ InLine(Stream, Awaited) /\ (client => EndsWith(Stream, Awaited, sent))
        /\ Awaited \in Nat /\ sent \in Nat
    BY <1>1, <2>2 DEF AsSent, InStep, Awaited, TypeOK
  <2>5. InLine(Stream', Awaited + 1)
    BY <1>2, <2>1, <2>3, <2>4, RestOfRun
  <2>6. client => EndsWith(Stream', Awaited + 1, sent)
    BY <1>2, <2>1, <2>3, <2>4, EndOfRest
  <2> QED
    BY <1>1, <1>5, <2>5, <2>6
<1>8. InStep'
  BY <1>7 DEF InStep
<1>9. AtStart'
  <2>1. CASE result = "Pass"
    BY <1>1, <2>1 DEF ParsePacket, PassOn, AtStart
  <2>2. CASE result = "Block"
    BY <2>2 DEF ParsePacket, ParsingEnds, AtStart
  <2>3. CASE result = "Disconnect"
    BY <2>3 DEF ParsePacket, DisconnectsPlayer, AtStart
  <2> QED
    BY <2>1, <2>2, <2>3 DEF Results
<1> QED
  BY <1>5, <1>8, <1>9 DEF AsSent

(* The other handlers leave the stream alone. *)
LEMMA OthersStream ==
  ASSUME TypeOK, AsSent, UNCHANGED <<handled, sent, wire, receiving, received>>,
         listener' => listener, client' = client,
         \/ UNCHANGED <<parsing, parsedUntil>>
         \/ ~parsing /\ parsing' = TRUE /\ parsedUntil' = 0
  PROVE  AsSent'
<1>1. parsedUntil' = parsedUntil
  BY DEF AsSent, AtStart
<1>2. HandledInOrder' /\ InStep'
  BY <1>1, NothingRead DEF AsSent
<1>3. AtStart'
  BY DEF AsSent, AtStart
<1> QED
  BY <1>2, <1>3 DEF AsSent

(* Every step keeps the packets in their order. *)
LEMMA NextStream == TypeOK /\ TypeOK' /\ Ends /\ AsSent /\ [Next]_vars => AsSent'
<1> SUFFICES ASSUME TypeOK, TypeOK', Ends, AsSent, [Next]_vars PROVE AsSent'
  OBVIOUS
<1>1. CASE EventLoop
  <2>1. CASE Received
    BY <2>1, ReceivedStream
  <2>2. CASE Sent
    BY <2>2, OthersStream DEF Sent, peerSide, reader, ends
  <2>3. CASE \E stays \in BOOLEAN : ReceivedNothing(stays)
    BY <2>3, OthersStream DEF ReceivedNothing, Disconnected, peerSide
  <2>4. CASE \E arrived \in 0 .. Len(sending), stays \in BOOLEAN : SentFails(arrived, stays)
    BY <2>4, OthersStream DEF SentFails, Disconnected, peerSide, reader
  <2>5. CASE \E length \in 0 .. Len(received) : ParseRest(length)
    BY <2>5, ParseRestStream
  <2>6. CASE \E length \in 0 .. Len(received), result \in Results, sends \in BOOLEAN :
               ParsePacket(length, result, sends)
    BY <2>6, ParsePacketStream
  <2> QED
    BY <1>1, <2>1, <2>2, <2>3, <2>4, <2>5, <2>6 DEF EventLoop
<1>2. CASE System
  BY <1>2, ReadCompletesStream DEF System
<1>3. CASE \E body \in BodyLengths : ClientSends(body)
  BY <1>3, ClientSendsStream
<1>4. CASE ClientGoes
  BY <1>4, ClientGoesStream
<1>5. CASE WriteCompletes \/ Send
  <2>1. /\ UNCHANGED <<handled, sent, wire, receiving, received>>
        /\ UNCHANGED <<listener, client, parsing, parsedUntil>>
    BY <1>5 DEF WriteCompletes, Send, peerSide, reader, ends
  <2> QED
    BY <2>1, OthersStream
<1>6. CASE Destroy \/ DatabaseFails
  BY <1>6, OthersStream DEF Destroy, DatabaseFails, DestroyPlayer, peerSide, reader
<1>7. CASE \E resumes \in BOOLEAN, sends \in BOOLEAN : DatabaseAnswers(resumes, sends)
  <2>1. PICK resumes \in BOOLEAN, sends \in BOOLEAN : DatabaseAnswers(resumes, sends)
    BY <1>7
  <2>2. UNCHANGED <<handled, sent, wire, receiving, received, listener, client>>
    BY <2>1 DEF DatabaseAnswers, peerSide, ends
  <2>3. \/ UNCHANGED <<parsing, parsedUntil>>
        \/ ~parsing /\ parsing' = TRUE /\ parsedUntil' = 0
    BY <2>1 DEF DatabaseAnswers
  <2> QED
    BY <2>2, <2>3, OthersStream
<1>8. CASE UNCHANGED vars
  BY <1>8, OthersStream DEF vars, peerSide, reader, ends
<1> QED
  BY <1>1, <1>2, <1>3, <1>4, <1>5, <1>6, <1>7, <1>8 DEF Next

(* Nothing is on the way yet, and the client's first packet is the first. *)
LEMMA InitStream == Init => AsSent
<1> SUFFICES ASSUME Init PROVE AsSent
  OBVIOUS
<1>1. /\ received = <<>> /\ receiving = <<>> /\ wire = <<>> /\ parsedUntil = 0 /\ handled = <<>>
      /\ sent = 0
  BY DEF Init
<1>2. Rest = <<>> /\ <<>> \in Seq(CellSet) /\ Len(<<>>) = 0
  BY <1>1, EmptySeq DEF Rest
<1>3. Stream = <<>>
  <2>1. <<>> \o (<<>> \o <<>>) = <<>>
    BY <1>2, ConcatEmptySeq
  <2> QED
    BY <1>1, <1>2, <2>1 DEF Stream
<1>4. InLine(Stream, Awaited)
  BY <1>2, <1>3 DEF InLine, OffsetsIn, Whole, Joined, StartsWith
<1>5. EndsWith(Stream, Awaited, sent)
  BY <1>1, <1>2, <1>3 DEF EndsWith, Awaited
<1>6. HandledInOrder /\ AtStart
  BY <1>1 DEF HandledInOrder, AtStart
<1> QED
  BY <1>4, <1>5, <1>6 DEF AsSent, InStep

(* Up to the first header that went wrong the listener gets what the client
   sent, in its order and each packet once, however the packets arrive and
   whatever the Player makes of them (parsePackets, resumeParsing). *)
THEOREM PacketsKeepOrder == Spec => []HandledInOrder
<1>1. Init => Ends /\ AsSent
  BY InitEnds, InitStream
<1>2. TypeOK /\ TypeOK' /\ Ends /\ AsSent /\ [Next]_vars => (Ends /\ AsSent)'
  BY NextEnds, NextStream
<1>3. AsSent => HandledInOrder
  BY DEF AsSent
<1> QED
  BY <1>1, <1>2, <1>3, TypeCorrect, PTL DEF Spec

=============================================================================
