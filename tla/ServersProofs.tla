---------------------------- MODULE ServersProofs ----------------------------
(***************************************************************************)
(* The realm's connection to the login server, and the friends and ignored *)
(* players.  Of RealmLogin: its types, that the login server lists one     *)
(* Realm object at most and knows it to be online, and that a pending      *)
(* request has its question or its answer under way, for any clients,      *)
(* accounts and numbers of connections.  Of Social: its types, and that    *)
(* the table and the node follow the list the player sees, for any         *)
(* characters of the account, any contacts and any number of requests      *)
(* under way.  Last, with CryptedConnectionProofs, the types of all of     *)
(* MCServers.                                                              *)
(***************************************************************************)
EXTENDS MCServers, CryptedConnectionProofs, SequenceTheorems, FiniteSetTheorems,
        WellFoundedInduction, TLAPS

(* RealmLogin *)
USE LoginAssumption

\* The links are looked at apart from the rest.
LinksOK == link \in Seq(Link) /\ Len(link) <= MaxLinks /\ RealmListed

\* Who is in has the key of a session, and so has the client of a visitor
\* who may get in without a password.
KeyHeld(v, keys) == (v.step = "in" => v.key # NoKey) /\ (v.step = "reconnecting" => keys[v.client] # NoKey)
KeysHeld == \A i \in DOMAIN lobby : KeyHeld(lobby[i], clientKey)

\* What both lists of players, keys and requests have for types.
LobbyOK ==
  /\ KeysHeld
  /\ lobby \in Seq(Visitor) /\ keyRow \in [Account -> Key \union {NoKey}]
  /\ clientKey \in [Client -> Key \union {NoKey}] /\ lastKey \in 0 .. MaxKeys
RealmOK ==
  /\ online \in BOOLEAN /\ retry \in BOOLEAN /\ mine \in 0 .. Len(link)
  /\ pending \subseteq Account /\ orphaned \subseteq Account
  /\ realmId \in {RealmId} \union OtherIds /\ gate \in Seq(Guest)
LoginInv == LinksOK /\ LobbyOK /\ RealmOK

-----------------------------------------------------------------------------
(* Sequences. *)

LEMMA WithoutType ==
  ASSUME NEW S, NEW s \in Seq(S), NEW i \in DOMAIN s
  PROVE  Without(s, i) \in Seq(S)
<1>1. i \in 1 .. Len(s)
  BY LenProperties
<1>2. SubSeq(s, 1, i - 1) \in Seq(S) /\ SubSeq(s, i + 1, Len(s)) \in Seq(S)
  BY <1>1, SubSeqProperties
<1> QED
  BY <1>2, ConcatProperties DEF Without, RemoveAt

LEMMA ReplacedType ==
  ASSUME NEW S, NEW s \in Seq(S), NEW i \in DOMAIN s, NEW x \in S
  PROVE  /\ [s EXCEPT ![i] = x] \in Seq(S) /\ Len([s EXCEPT ![i] = x]) = Len(s)
         /\ DOMAIN [s EXCEPT ![i] = x] = DOMAIN s
  BY ExceptSeq

LEMMA WithoutElements ==
  ASSUME NEW S, NEW s \in Seq(S), NEW i \in DOMAIN s, NEW n \in DOMAIN Without(s, i)
  PROVE  \E m \in DOMAIN s : Without(s, i)[n] = s[m]
<1> DEFINE a == SubSeq(s, 1, i - 1)
           b == SubSeq(s, i + 1, Len(s))
<1>1. i \in 1 .. Len(s) /\ DOMAIN s = 1 .. Len(s) /\ Len(s) \in Nat
  BY LenProperties
<1>2. a \in Seq(S) /\ Len(a) = i - 1 /\ \A m \in 1 .. i - 1 : a[m] = s[m]
  BY <1>1, SubSeqProperties
<1>3. b \in Seq(S) /\ Len(b) = Len(s) - i /\ \A m \in 1 .. Len(s) - i : b[m] = s[i + m]
  <2>1. i + 1 \in 1 .. Len(s) + 1 /\ Len(s) \in i .. Len(s) /\ i + 1 - 1 = i
    BY <1>1
  <2>2. b \in Seq(S) /\ Len(b) = Len(s) - i
    BY <1>1, <2>1, SubSeqProperties
  <2>3. \A m \in 1 .. Len(s) - i : b[m] = s[i + m]
    BY <1>1, <2>1, SubSeqProperties
  <2> QED BY <2>2, <2>3
<1>4. Without(s, i) = a \o b
  BY DEF Without, RemoveAt
<1> HIDE DEF a, b
<1>5. /\ Len(a \o b) = Len(s) - 1 /\ a \o b \in Seq(S)
      /\ \A m \in 1 .. Len(s) - 1 : (a \o b)[m] = IF m <= i - 1 THEN a[m] ELSE b[m - (i - 1)]
  <2>1. Len(a \o b) = Len(a) + Len(b) /\ a \o b \in Seq(S)
    BY <1>2, <1>3, ConcatProperties
  <2>2. \A m \in 1 .. Len(a) + Len(b) : (a \o b)[m] = IF m <= Len(a) THEN a[m] ELSE b[m - Len(a)]
    BY <1>2, <1>3, ConcatProperties
  <2> QED BY <1>1, <1>2, <1>3, <2>1, <2>2
<1>6. n \in 1 .. Len(s) - 1
  BY <1>4, <1>5, LenProperties
<1>7. CASE n <= i - 1
  BY <1>1, <1>2, <1>4, <1>5, <1>6, <1>7
<1>8. CASE ~(n <= i - 1)
  <2>1. n - (i - 1) \in 1 .. Len(s) - i /\ n + 1 \in DOMAIN s /\ i + (n - (i - 1)) = n + 1
    BY <1>1, <1>6, <1>8
  <2>2. Without(s, i)[n] = b[n - (i - 1)]
    BY <1>4, <1>5, <1>6, <1>8
  <2> QED BY <1>3, <2>1, <2>2
<1> QED BY <1>7, <1>8

(* The first of a set of places in a list is one of them. *)
LEMMA FirstOf == ASSUME NEW S, S \subseteq Nat, S # {} PROVE First(S) \in S
<1> DEFINE R == {ss \in Nat \X Nat : ss[1] < ss[2]}
<1>1. IsWellFoundedOn(R, Nat)
  BY NatLessThanWellFounded DEF OpToRel
<1>2. PICK x \in S : \A y \in S : ~ (<<y, x>> \in R)
  <2> HIDE DEF R
  <2> QED BY <1>1, WFMin
<1>3. \A y \in S : x <= y
  <2> SUFFICES ASSUME NEW y \in S, y < x PROVE FALSE
    OBVIOUS
  <2>1. <<y, x>> \in R
    OBVIOUS
  <2> QED BY <2>1, <1>2
<1> QED BY <1>3 DEF First

(* A change of one link that lists no second Realm and leaves no listed Realm
   offline. *)
LEMMA LinkChanged ==
  ASSUME LinksOK, online \in BOOLEAN, online' \in BOOLEAN, NEW k \in DOMAIN link, NEW r \in Link,
         link' = [link EXCEPT ![k] = r],
         r.login = "authed" => online' /\ \A j \in DOMAIN link : j # k => link[j].login # "authed",
         r.login # "authed" => (online' <=> online) \/ link[k].login = "authed"
  PROVE  LinksOK' /\ Len(link') = Len(link)
<1>1. link' \in Seq(Link) /\ Len(link') = Len(link) /\ DOMAIN link' = DOMAIN link
  BY ReplacedType DEF LinksOK
<1>2. link'[k] = r /\ \A j \in DOMAIN link : j # k => link'[j] = link[j]
  BY DEF LinksOK
<1>3. OneListedRealm'
  BY <1>1, <1>2 DEF LinksOK, RealmListed, OneListedRealm
<1>4. OfflineMeansGone'
  <2> SUFFICES ASSUME ~online', NEW j \in DOMAIN link, link'[j].login = "authed" PROVE FALSE
    BY <1>1 DEF OfflineMeansGone
  <2>1. j # k
    BY <1>2
  <2>2. link[j].login = "authed"
    BY <1>2, <2>1
  <2>3. link[k].login # "authed" /\ online
    BY <2>1, <2>2 DEF LinksOK, RealmListed, OneListedRealm, OfflineMeansGone
  <2> QED BY <1>2, <2>2, <2>3, <2>1
<1> QED BY <1>1, <1>3, <1>4 DEF LinksOK, RealmListed

(* A change of one link that leaves the Realm of the login server, and the
   database, alone. *)
LEMMA LinkTouched ==
  ASSUME LinksOK, online \in BOOLEAN, online' = online, NEW k \in DOMAIN link, NEW r \in Link,
         link' = [link EXCEPT ![k] = r], r.login = link[k].login
  PROVE  LinksOK' /\ Len(link') = Len(link)
  BY LinkChanged DEF LinksOK, RealmListed, OneListedRealm, OfflineMeansGone

LEMMA LinkIsLink ==
  ASSUME LinksOK, NEW k \in DOMAIN link
  PROVE  link[k] \in Link
  BY ElementOfSeq DEF LinksOK

-----------------------------------------------------------------------------
(* The lobby. *)

(* A visitor takes a step, or a client gets a key of its own. *)
LEMMA VisitorStep ==
  ASSUME LoginInv, NEW i \in DOMAIN lobby, NEW v \in Visitor, lobby' = [lobby EXCEPT ![i] = v],
         KeyHeld(v, clientKey'), clientKey' \in [Client -> Key \union {NoKey}],
         \A c \in Client : clientKey[c] # NoKey => clientKey'[c] # NoKey
  PROVE  lobby' \in Seq(Visitor) /\ KeysHeld'
<1>1. lobby' \in Seq(Visitor) /\ DOMAIN lobby' = DOMAIN lobby
  BY ReplacedType DEF LoginInv, LobbyOK
<1>2. ASSUME NEW j \in DOMAIN lobby PROVE KeyHeld(lobby'[j], clientKey')
  <2>1. lobby[j] \in Visitor /\ KeyHeld(lobby[j], clientKey)
    BY ElementOfSeq DEF LoginInv, LobbyOK, KeysHeld
  <2>2. lobby[j].client \in Client
    BY <2>1 DEF Visitor
  <2>3. KeyHeld(lobby[j], clientKey')
    BY <2>1, <2>2 DEF KeyHeld
  <2>4. lobby'[j] = IF j = i THEN v ELSE lobby[j]
    BY DEF LoginInv, LobbyOK
  <2> QED BY <2>3, <2>4
<1> QED BY <1>1, <1>2 DEF KeysHeld

LEMMA VisitorIsVisitor ==
  ASSUME LoginInv, NEW i \in DOMAIN lobby
  PROVE  /\ lobby[i] \in Visitor /\ KeyHeld(lobby[i], clientKey)
         /\ lobby[i].client \in Client /\ AccountOf[lobby[i].client] \in Account
<1>1. lobby[i] \in Visitor /\ KeyHeld(lobby[i], clientKey)
  BY ElementOfSeq DEF LoginInv, LobbyOK, KeysHeld
<1> QED BY <1>1 DEF Visitor

LEMMA LobbyKeeps == ASSUME LoginInv, Lobby PROVE LoginInv'
<1>1. ASSUME LobbyOK', UNCHANGED <<online, link, mine, retry, pending, realmId, gate, orphaned>>
      PROVE  LoginInv'
  BY <1>1 DEF LoginInv, LinksOK, RealmOK, RealmListed, OneListedRealm, OfflineMeansGone
<1>2. ASSUME NEW c \in Client, ClientConnects(c) PROVE LoginInv'
  <2> DEFINE v == [client |-> c, step |-> "greeted", key |-> NoKey]
  <2>1. v \in Visitor /\ KeyHeld(v, clientKey)
    BY DEF Visitor, KeyHeld
  <2>2. lobby' = Append(lobby, v) /\ UNCHANGED <<keyRow, online, clientKey, lastKey, link, mine, retry, pending, realmId, gate, orphaned>>
    BY <1>2 DEF ClientConnects
  <2> HIDE DEF v
  <2>3. lobby \in Seq(Visitor) /\ KeysHeld
    BY DEF LoginInv, LobbyOK
  <2>4. /\ lobby' \in Seq(Visitor) /\ Len(lobby') = Len(lobby) + 1 /\ lobby'[Len(lobby) + 1] = v
        /\ \A j \in 1 .. Len(lobby) : lobby'[j] = lobby[j]
    BY <2>1, <2>2, <2>3, AppendProperties
  <2>5. DOMAIN lobby' = 1 .. Len(lobby) + 1 /\ DOMAIN lobby = 1 .. Len(lobby) /\ Len(lobby) \in Nat
    BY <2>3, <2>4, LenProperties
  <2>6. ASSUME NEW j \in DOMAIN lobby' PROVE KeyHeld(lobby'[j], clientKey)
    BY <2>1, <2>3, <2>4, <2>5 DEF KeysHeld
  <2>7. KeysHeld'
    BY <2>2, <2>6 DEF KeysHeld
  <2> QED BY <1>1, <2>2, <2>4, <2>7 DEF LoginInv, LobbyOK
<1>5. ASSUME NEW i \in DOMAIN lobby, LogonChallenge(i) PROVE LoginInv'
  <2> DEFINE v == [lobby[i] EXCEPT !.step = "challenged"]
  <2>1. v \in Visitor /\ KeyHeld(v, clientKey)
    BY VisitorIsVisitor DEF Visitor, KeyHeld
  <2>2. lobby' = [lobby EXCEPT ![i] = v] /\ UNCHANGED <<keyRow, online, clientKey, lastKey, link, mine, retry, pending, realmId, gate, orphaned>>
    BY <1>5 DEF LogonChallenge
  <2> HIDE DEF v
  <2>3. lobby' \in Seq(Visitor) /\ KeysHeld'
    BY <2>1, <2>2, VisitorStep DEF LoginInv, LobbyOK
  <2> QED BY <1>1, <2>2, <2>3 DEF LoginInv, LobbyOK
<1>6. ASSUME NEW i \in DOMAIN lobby, LogonProof(i) PROVE LoginInv'
  <2> DEFINE v == [lobby[i] EXCEPT !.step = "in", !.key = lastKey']
  <2>1. lastKey' \in Key /\ lastKey' \in 0 .. MaxKeys /\ lastKey' # NoKey
    BY <1>6 DEF LogonProof, LoginInv, LobbyOK, Key, NoKey
  <2>3. v \in Visitor /\ v.step = "in" /\ v.key = lastKey'
    BY <2>1, VisitorIsVisitor DEF Visitor
  <2>4. lobby' = [lobby EXCEPT ![i] = v] /\ UNCHANGED <<online, link, mine, retry, pending, realmId, gate, orphaned>>
    BY <1>6 DEF LogonProof
  <2> HIDE DEF v
  <2>5. keyRow' \in [Account -> Key \union {NoKey}] /\ clientKey' \in [Client -> Key \union {NoKey}]
    BY <1>6, <2>1, VisitorIsVisitor DEF LogonProof, LoginInv, LobbyOK
  <2>6. \A c \in Client : clientKey[c] # NoKey => clientKey'[c] # NoKey
    BY <1>6, <2>1 DEF LogonProof, LoginInv, LobbyOK
  <2>7. KeyHeld(v, clientKey')
    BY <2>1, <2>3 DEF KeyHeld
  <2>8. lobby' \in Seq(Visitor) /\ KeysHeld'
    BY <2>3, <2>4, <2>5, <2>6, <2>7, VisitorStep
  <2> QED BY <1>1, <2>1, <2>4, <2>5, <2>8 DEF LobbyOK
<1>7. ASSUME NEW i \in DOMAIN lobby, ReconnectChallenge(i) PROVE LoginInv'
  <2> DEFINE v == [lobby[i] EXCEPT !.step = "reconnecting", !.key = keyRow[AccountOf[lobby[i].client]]]
  <2>1. v \in Visitor /\ v.step = "reconnecting" /\ v.client = lobby[i].client
    BY VisitorIsVisitor DEF Visitor, LoginInv, LobbyOK
  <2>2. /\ lobby' = [lobby EXCEPT ![i] = v] /\ clientKey[lobby[i].client] # NoKey
        /\ UNCHANGED <<keyRow, online, clientKey, lastKey, link, mine, retry, pending, realmId, gate, orphaned>>
    BY <1>7 DEF ReconnectChallenge
  <2> HIDE DEF v
  <2>3. KeyHeld(v, clientKey)
    BY <2>1, <2>2 DEF KeyHeld
  <2>4. lobby' \in Seq(Visitor) /\ KeysHeld'
    BY <2>1, <2>2, <2>3, VisitorStep DEF LoginInv, LobbyOK
  <2> QED BY <1>1, <2>2, <2>4 DEF LoginInv, LobbyOK
<1>8. ASSUME NEW i \in DOMAIN lobby, ReconnectProof(i) PROVE LoginInv'
  <2> DEFINE v == [lobby[i] EXCEPT !.step = "in"]
  <2>1. v \in Visitor /\ v.step = "in" /\ v.key = lobby[i].key
    BY VisitorIsVisitor DEF Visitor
  <2>2. /\ lobby' = [lobby EXCEPT ![i] = v] /\ lobby[i].step = "reconnecting" /\ lobby[i].key = clientKey[lobby[i].client]
        /\ UNCHANGED <<keyRow, online, clientKey, lastKey, link, mine, retry, pending, realmId, gate, orphaned>>
    BY <1>8 DEF ReconnectProof
  <2> HIDE DEF v
  <2>3. KeyHeld(v, clientKey)
    BY <2>1, <2>2, VisitorIsVisitor DEF KeyHeld
  <2>4. lobby' \in Seq(Visitor) /\ KeysHeld'
    BY <2>1, <2>2, <2>3, VisitorStep DEF LoginInv, LobbyOK
  <2> QED BY <1>1, <2>2, <2>4 DEF LoginInv, LobbyOK
<1>9. ASSUME NEW i \in DOMAIN lobby, VisitorGoes(i) PROVE LoginInv'
  <2>1. lobby' = Without(lobby, i) /\ UNCHANGED <<keyRow, online, clientKey, lastKey, link, mine, retry, pending, realmId, gate, orphaned>>
    BY <1>9 DEF VisitorGoes
  <2>2. lobby' \in Seq(Visitor)
    BY <2>1, WithoutType DEF LoginInv, LobbyOK
  <2>3. KeysHeld'
    BY <2>1, WithoutElements DEF LoginInv, LobbyOK, KeysHeld
  <2> QED BY <1>1, <2>1, <2>2, <2>3 DEF LoginInv, LobbyOK
<1> QED BY <1>2, <1>5, <1>6, <1>7, <1>8, <1>9 DEF Lobby

-----------------------------------------------------------------------------
(* The link. *)

(* A step that changes one link, and of the realm only what keeps its type. *)
LEMMA LinkStep ==
  ASSUME LoginInv, LinksOK', Len(link') = Len(link), UNCHANGED lobbyVars,
         mine' \in {0, mine}, online' \in BOOLEAN, retry' \in BOOLEAN,
         pending' \subseteq Account, orphaned' \subseteq Account,
         realmId' \in {RealmId} \union OtherIds, gate' \in Seq(Guest)
  PROVE  LoginInv'
<1>1. Len(link) \in Nat
  BY LenProperties DEF LoginInv, LinksOK
<1>2. LobbyOK'
  BY DEF LoginInv, LobbyOK, KeysHeld, lobbyVars
<1> QED BY <1>1, <1>2 DEF LoginInv, RealmOK

(* m_connection, when it is not null, is one of the links. *)
LEMMA MineIsLink ==
  ASSUME LoginInv, mine # 0
  PROVE  mine \in DOMAIN link /\ link[mine] \in Link
<1>1. mine \in 1 .. Len(link)
  BY LenProperties DEF LoginInv, RealmOK, LinksOK
<1>2. mine \in DOMAIN link
  BY <1>1, LenProperties DEF LoginInv, LinksOK
<1> QED BY <1>2, LinkIsLink DEF LoginInv

(* What is known of every step. *)
LEMMA Facts ==
  ASSUME LoginInv
  PROVE  /\ LinksOK /\ online \in BOOLEAN /\ retry \in BOOLEAN /\ mine \in 0 .. Len(link)
         /\ pending \subseteq Account /\ orphaned \subseteq Account
         /\ realmId \in {RealmId} \union OtherIds /\ gate \in Seq(Guest)
  BY DEF LoginInv, RealmOK

LEMMA TryConnectKeeps == ASSUME LoginInv, TryConnect PROVE LoginInv'
<1>1. /\ link' = Append(link, NewLink) /\ Len(link) < MaxLinks /\ mine' = Len(link') /\ retry' = FALSE
      /\ UNCHANGED <<online, pending, realmId, gate, orphaned, lobbyVars>>
  BY DEF TryConnect
<1>2. NewLink \in Link /\ NewLink.login = "none"
  BY EmptySeq DEF NewLink, Link
<1>3. link \in Seq(Link) /\ Len(link) \in Nat /\ DOMAIN link = 1 .. Len(link)
  BY LenProperties DEF LoginInv, LinksOK
<1>4. /\ link' \in Seq(Link) /\ Len(link') = Len(link) + 1 /\ link'[Len(link) + 1] = NewLink
      /\ \A j \in 1 .. Len(link) : link'[j] = link[j]
  BY <1>1, <1>2, <1>3, AppendProperties
<1>5. DOMAIN link' = 1 .. Len(link) + 1
  BY <1>4, LenProperties
<1>6. Len(link') <= MaxLinks
  BY <1>1, <1>3, <1>4
<1>7. \A j \in DOMAIN link' : link'[j].login = "authed" => j \in DOMAIN link /\ link[j].login = "authed"
  BY <1>2, <1>3, <1>4, <1>5
<1>8. RealmListed'
  BY <1>1, <1>7 DEF LoginInv, LinksOK, RealmListed, OneListedRealm, OfflineMeansGone
<1>9. LinksOK'
  BY <1>4, <1>6, <1>8 DEF LinksOK
<1>10. mine' \in 0 .. Len(link')
  BY <1>1, <1>3, <1>4
<1>11. LobbyOK'
  BY <1>1 DEF LoginInv, LobbyOK, KeysHeld, lobbyVars
<1>12. RealmOK'
  BY <1>1, <1>10, Facts DEF RealmOK
<1> QED BY <1>9, <1>11, <1>12 DEF LoginInv

LEMMA EstablishedKeeps == ASSUME LoginInv, Established PROVE LoginInv'
<1> DEFINE m == [type |-> "login"]
           r == [link[mine] EXCEPT !.realm = "up", !.login = "fresh", !.up = Append(@, m)]
<1>1. mine \in DOMAIN link /\ link[mine] \in Link
  BY MineIsLink DEF Established
<1>2. link' = [link EXCEPT ![mine] = r]
  BY <1>1 DEF Established
<1>3. m \in ToLoginServer /\ Append(link[mine].up, m) \in Seq(ToLoginServer)
  BY <1>1, AppendProperties DEF Link, ToLoginServer
<1>4. r \in Link
  BY <1>1, <1>3 DEF Link
<1>5. r.login = "fresh"
  BY <1>1 DEF Link
<1>6. UNCHANGED <<online, mine, retry, pending, realmId, gate, orphaned, lobbyVars>>
  BY DEF Established
<1> HIDE DEF r
<1>7. LinksOK' /\ Len(link') = Len(link)
  BY <1>1, <1>2, <1>4, <1>5, <1>6, Facts, LinkChanged
<1> QED BY <1>6, <1>7, Facts, LinkStep

LEMMA ConnectFailsKeeps == ASSUME LoginInv, ConnectFails PROVE LoginInv'
<1> DEFINE r == [link[mine] EXCEPT !.realm = "failed", !.up = <<>>]
<1>1. mine \in DOMAIN link /\ link[mine] \in Link
  BY MineIsLink DEF ConnectFails
<1>2. link' = [link EXCEPT ![mine] = r]
  BY <1>1 DEF ConnectFails
<1>3. <<>> \in Seq(ToLoginServer)
  BY EmptySeq
<1>4. r \in Link /\ r.login = link[mine].login
  BY <1>1, <1>3 DEF Link
<1>5. UNCHANGED <<online, mine, pending, realmId, gate, lobbyVars>> /\ retry' = TRUE /\ orphaned' = pending
  BY DEF ConnectFails
<1> HIDE DEF r
<1>6. LinksOK' /\ Len(link') = Len(link)
  BY <1>1, <1>2, <1>4, <1>5, Facts, LinkTouched
<1> QED BY <1>5, <1>6, Facts, LinkStep

LEMMA CutKeeps == ASSUME LoginInv, NEW k \in DOMAIN link, Cut(k) PROVE LoginInv'
<1> DEFINE r == [link[k] EXCEPT !.cut = TRUE]
<1>1. link[k] \in Link
  BY Facts, LinkIsLink
<1>2. link' = [link EXCEPT ![k] = r]
  BY DEF Cut
<1>3. r \in Link /\ r.login = link[k].login
  BY <1>1 DEF Link
<1>4. UNCHANGED <<online, mine, retry, pending, realmId, gate, orphaned, lobbyVars>>
  BY DEF Cut
<1> HIDE DEF r
<1>5. LinksOK' /\ Len(link') = Len(link)
  BY <1>2, <1>3, <1>4, Facts, LinkTouched
<1> QED BY <1>4, <1>5, Facts, LinkStep

LEMMA RealmSideLostKeeps == ASSUME LoginInv, RealmSideLost PROVE LoginInv'
<1> DEFINE r == [link[mine] EXCEPT !.realm = "gone", !.down = <<>>]
<1>1. mine \in DOMAIN link /\ link[mine] \in Link
  BY MineIsLink DEF RealmSideLost
<1>2. link' = [link EXCEPT ![mine] = r]
  BY <1>1 DEF RealmSideLost
<1>3. <<>> \in Seq(ToRealm)
  BY EmptySeq
<1>4. r \in Link /\ r.login = link[mine].login
  BY <1>1, <1>3 DEF Link
<1>5. UNCHANGED <<online, pending, realmId, gate, lobbyVars>> /\ retry' = TRUE /\ orphaned' = pending /\ mine' = 0
  BY DEF RealmSideLost
<1> HIDE DEF r
<1>6. LinksOK' /\ Len(link') = Len(link)
  BY <1>1, <1>2, <1>4, <1>5, Facts, LinkTouched
<1> QED BY <1>5, <1>6, Facts, LinkStep

(* Either end of a Realm object: it is not listed any more. *)
LEMMA LoginSideLostKeeps == ASSUME LoginInv, NEW k \in DOMAIN link, LoginSideLost(k) PROVE LoginInv'
<1> DEFINE r == [link[k] EXCEPT !.login = "gone", !.up = <<>>]
<1>1. link[k] \in Link
  BY Facts, LinkIsLink
<1>2. link' = [link EXCEPT ![k] = r]
  BY DEF LoginSideLost
<1>3. <<>> \in Seq(ToLoginServer)
  BY EmptySeq
<1>4. r \in Link /\ r.login = "gone"
  BY <1>1, <1>3 DEF Link
<1>5. UNCHANGED <<mine, retry, pending, realmId, gate, orphaned, lobbyVars>>
  BY DEF LoginSideLost
<1>6. online' \in BOOLEAN /\ ((online' <=> online) \/ link[k].login = "authed")
  BY Facts DEF LoginSideLost, OnlineWithout
<1> HIDE DEF r
<1>7. LinksOK' /\ Len(link') = Len(link)
  BY <1>2, <1>4, <1>6, Facts, LinkChanged
<1> QED BY <1>5, <1>6, <1>7, Facts, LinkStep

LEMMA LoginSideTimeoutKeeps == ASSUME LoginInv, NEW k \in DOMAIN link, LoginSideTimeout(k) PROVE LoginInv'
<1> DEFINE r == [link[k] EXCEPT !.login = "gone", !.cut = TRUE, !.up = <<>>]
<1>1. link[k] \in Link
  BY Facts, LinkIsLink
<1>2. link' = [link EXCEPT ![k] = r]
  BY DEF LoginSideTimeout
<1>3. <<>> \in Seq(ToLoginServer)
  BY EmptySeq
<1>4. r \in Link /\ r.login = "gone"
  BY <1>1, <1>3 DEF Link
<1>5. UNCHANGED <<online, mine, retry, pending, realmId, gate, orphaned, lobbyVars>>
  BY DEF LoginSideTimeout
<1> HIDE DEF r
<1>6. LinksOK' /\ Len(link') = Len(link)
  BY <1>2, <1>4, <1>5, Facts, LinkChanged
<1> QED BY <1>5, <1>6, Facts, LinkStep

-----------------------------------------------------------------------------
(* The login server's heard. *)

(* What Replied leaves of a link is a link. *)
LEMMA RepliedIsLink ==
  ASSUME LoginInv, NEW k \in DOMAIN link, link[k].up # <<>>, NEW heard \in Seq(ToRealm)
  PROVE  \E r \in Link : Replied(k, heard) = [link EXCEPT ![k] = r] /\ r.login = link[k].login
<1> DEFINE d == IF link[k].cut THEN link[k].down ELSE link[k].down \o heard
           r == [link[k] EXCEPT !.up = Tail(@), !.down = d]
<1>1. link[k] \in Link
  BY Facts, LinkIsLink
<1>2. link[k].up \in Seq(ToLoginServer) /\ link[k].down \in Seq(ToRealm)
  BY <1>1 DEF Link
<1>3. Tail(link[k].up) \in Seq(ToLoginServer)
  BY <1>2, HeadTailProperties
<1>4. d \in Seq(ToRealm)
  BY <1>2, ConcatProperties
<1>5. Replied(k, heard) = [link EXCEPT ![k] = r]
  BY Facts DEF Replied, LinksOK
<1> HIDE DEF d
<1>6. r \in Link /\ r.login = link[k].login
  BY <1>1, <1>3, <1>4 DEF Link
<1> QED BY <1>5, <1>6

LEMMA LoginHandlesKeeps == ASSUME LoginInv, NEW k \in DOMAIN link, LoginHandles(k) PROVE LoginInv'
<1>1. link[k].up # <<>> /\ link[k] \in Link /\ link[k].login \in {"fresh", "authed"}
  BY Facts, LinkIsLink DEF LoginHandles
<1>2. ASSUME NEW heard \in Seq(ToRealm), link' = Replied(k, heard),
             UNCHANGED <<online, mine, retry, pending, realmId, gate, lobbyVars>>, orphaned' \subseteq Account
      PROVE  LoginInv'
  <2>1. PICK r \in Link : Replied(k, heard) = [link EXCEPT ![k] = r] /\ r.login = link[k].login
    BY <1>1, RepliedIsLink
  <2>2. LinksOK' /\ Len(link') = Len(link)
    BY <1>2, <2>1, Facts, LinkTouched
  <2> QED BY <1>2, <2>2, Facts, LinkStep
<1>3. CASE HandleLogin(k)
  <2>1. CASE (\E id \in {RealmId} \union OtherIds : link' = Replied(k, <<[type |-> "loginResult", id |-> id]>>))
             /\ UNCHANGED online
    <3>1. PICK id \in {RealmId} \union OtherIds : link' = Replied(k, <<[type |-> "loginResult", id |-> id]>>)
      BY <2>1
    <3>2. <<[type |-> "loginResult", id |-> id]>> \in Seq(ToRealm)
      BY DEF ToRealm
    <3> QED BY <1>2, <1>3, <2>1, <3>1, <3>2, Facts DEF HandleLogin
  <2>2. CASE /\ ~AlreadyListed(k)
             /\ link' = [Replied(k, <<[type |-> "loginResult", id |-> RealmId]>>) EXCEPT ![k].login = "authed"]
             /\ online' = TRUE
    <3> DEFINE heard == <<[type |-> "loginResult", id |-> RealmId]>>
    <3>1. /\ link' = [Replied(k, heard) EXCEPT ![k].login = "authed"] /\ online' = TRUE
          /\ UNCHANGED <<mine, retry, pending, realmId, gate, orphaned, lobbyVars>>
      BY <1>3, <2>2 DEF HandleLogin
    <3>2. heard \in Seq(ToRealm)
      BY DEF ToRealm
    <3> HIDE DEF heard
    <3>3. PICK r \in Link : Replied(k, heard) = [link EXCEPT ![k] = r] /\ r.login = link[k].login
      BY <1>1, <3>2, RepliedIsLink
    <3> DEFINE q == [r EXCEPT !.login = "authed"]
    <3>4. q \in Link /\ q.login = "authed"
      BY DEF Link
    <3>5. link' = [link EXCEPT ![k] = q]
      BY <3>1, <3>3, Facts DEF LinksOK
    <3> HIDE DEF q
    <3>6. \A j \in DOMAIN link : link[j].login # "authed"
      BY <2>2 DEF AlreadyListed
    <3>7. LinksOK' /\ Len(link') = Len(link)
      BY <3>1, <3>4, <3>5, <3>6, Facts, LinkChanged
    <3> QED BY <3>1, <3>7, Facts, LinkStep
  <2> QED BY <1>3, <2>1, <2>2 DEF HandleLogin
<1>4. CASE HandlePlayerLogin(k)
  <2> DEFINE a == Head(link[k].up).account
  <2>1. Head(link[k].up) \in ToLoginServer
    BY <1>1, HeadTailProperties DEF Link
  <2>2. a \in Account
    BY <1>4, <2>1 DEF HandlePlayerLogin, ToLoginServer
  <2>3. UNCHANGED <<online, mine, retry, pending, realmId, gate, lobbyVars>>
    BY <1>4 DEF HandlePlayerLogin
  <2>4. CASE link' = Replied(k, <<>>) /\ orphaned' = orphaned \union {a}
    <3>1. <<>> \in Seq(ToRealm)
      BY EmptySeq
    <3> QED BY <1>2, <2>2, <2>3, <2>4, <3>1, Facts
  <2>5. CASE /\ SessionsOf(a) # {} /\ UNCHANGED orphaned
             /\ link' = Replied(k, <<[type |-> "success", account |-> a, key |-> lobby[First(SessionsOf(a))].key]>>)
    <3> DEFINE i == First(SessionsOf(a))
               heard == <<[type |-> "success", account |-> a, key |-> lobby[i].key]>>
    <3>1. SessionsOf(a) \subseteq Nat
      BY LenProperties DEF SessionsOf, LoginInv, LobbyOK
    <3>2. i \in SessionsOf(a)
      BY <2>5, <3>1, FirstOf
    <3>3. i \in DOMAIN lobby /\ lobby[i].step = "in"
      BY <3>2 DEF SessionsOf
    <3>4. lobby[i] \in Visitor /\ lobby[i].key # NoKey
      BY <3>3, VisitorIsVisitor DEF KeyHeld
    <3>5. lobby[i].key \in Key
      BY <3>4 DEF Visitor
    <3>6. heard \in Seq(ToRealm)
      BY <2>2, <3>5 DEF ToRealm
    <3>7. link' = Replied(k, heard)
      BY <2>5
    <3> QED BY <1>2, <2>3, <2>5, <3>6, <3>7, Facts
  <2>6. CASE link' = Replied(k, Failure(a)) /\ UNCHANGED orphaned
    <3>1. Failure(a) \in Seq(ToRealm)
      BY <2>2 DEF Failure, ToRealm
    <3> QED BY <1>2, <2>3, <2>6, <3>1, Facts
  <2> QED BY <1>4, <2>4, <2>5, <2>6 DEF HandlePlayerLogin
<1> QED BY <1>3, <1>4 DEF LoginHandles
-----------------------------------------------------------------------------
(* The players at the realm's gate. *)

LEMMA GuestIsGuest ==
  ASSUME LoginInv, NEW i \in DOMAIN gate
  PROVE  gate[i] \in Guest /\ gate[i].client \in Client /\ AccountOf[gate[i].client] \in Account
<1>1. gate[i] \in Guest
  BY Facts, ElementOfSeq
<1> QED BY <1>1 DEF Guest

LEMMA GuestsKept ==
  ASSUME LoginInv, NEW i \in DOMAIN gate
  PROVE  /\ Without(gate, i) \in Seq(Guest)
         /\ \A g \in Guest : [gate EXCEPT ![i] = g] \in Seq(Guest)
  BY Facts, WithoutType, ReplacedType

LEMMA GateStep ==
  ASSUME LoginInv, gate' \in Seq(Guest), UNCHANGED <<online, link, mine, retry, pending, realmId, orphaned, lobbyVars>>
  PROVE  LoginInv'
<1>1. LinksOK'
  BY DEF LoginInv, LinksOK, RealmListed, OneListedRealm, OfflineMeansGone
<1> QED BY <1>1, Facts, LinkStep

LEMMA GuestConnectsKeeps == ASSUME LoginInv, NEW c \in Client, GuestConnects(c) PROVE LoginInv'
<1> DEFINE g == [client |-> c, account |-> NoAccount, hash |-> NoKey, authed |-> FALSE, here |-> TRUE]
<1>1. g \in Guest
  BY DEF Guest
<1>2. gate' = Append(gate, g) /\ UNCHANGED <<online, link, mine, retry, pending, realmId, orphaned, lobbyVars>>
  BY DEF GuestConnects
<1> HIDE DEF g
<1>3. gate' \in Seq(Guest)
  BY <1>1, <1>2, Facts, AppendProperties
<1> QED BY <1>2, <1>3, GateStep

LEMMA GuestGoesKeeps == ASSUME LoginInv, NEW i \in DOMAIN gate, GuestGoes(i) PROVE LoginInv'
<1>1. UNCHANGED <<online, link, mine, retry, pending, realmId, orphaned, lobbyVars>>
  BY DEF GuestGoes
<1>2. CASE gate' = Without(gate, i)
  BY <1>1, <1>2, GuestsKept, GateStep
<1>3. CASE gate' = [gate EXCEPT ![i].here = FALSE]
  <2> DEFINE g == [gate[i] EXCEPT !.here = FALSE]
  <2>1. g \in Guest
    BY GuestIsGuest DEF Guest
  <2>2. gate' = [gate EXCEPT ![i] = g]
    BY <1>3
  <2> HIDE DEF g
  <2> QED BY <1>1, <2>1, <2>2, GuestsKept, GateStep
<1> QED BY <1>2, <1>3 DEF GuestGoes

LEMMA NodeAnswersKeeps == ASSUME LoginInv, NEW i \in DOMAIN gate, NodeAnswers(i) PROVE LoginInv'
  BY GuestsKept, GateStep DEF NodeAnswers

(* The question of a player goes into the link, or is lost. *)
LEMMA AskedKeeps ==
  ASSUME LoginInv, mine # 0, NEW a \in Account, Asked(a), UNCHANGED online
  PROVE  LinksOK' /\ Len(link') = Len(link) /\ orphaned' \subseteq Account
<1>1. mine \in DOMAIN link /\ link[mine] \in Link
  BY MineIsLink
<1>2. CASE UNCHANGED link
  <2>1. orphaned' = orphaned \/ orphaned' = orphaned \union {a}
    BY <1>2 DEF Asked
  <2>2. LinksOK'
    BY <1>2 DEF LoginInv, LinksOK, RealmListed, OneListedRealm, OfflineMeansGone
  <2> QED BY <1>2, <2>1, <2>2, Facts
<1>3. CASE link[mine].realm \in {"connecting", "up"} /\ ~link[mine].cut
  <2> DEFINE m == [type |-> "playerLogin", account |-> a]
             r == [link[mine] EXCEPT !.up = Append(@, m)]
  <2>1. link' = [link EXCEPT ![mine] = r] /\ orphaned' = orphaned
    BY <1>1, <1>3 DEF Asked
  <2>2. Append(link[mine].up, m) \in Seq(ToLoginServer)
    BY <1>1, AppendProperties DEF Link, ToLoginServer
  <2>3. r \in Link /\ r.login = link[mine].login
    BY <1>1, <2>2 DEF Link
  <2> HIDE DEF r
  <2>4. LinksOK' /\ Len(link') = Len(link)
    BY <1>1, <2>1, <2>3, Facts, LinkTouched
  <2> QED BY <2>1, <2>4, Facts
<1> QED BY <1>2, <1>3 DEF Asked

LEMMA AuthSessionKeeps == ASSUME LoginInv, NEW i \in DOMAIN gate, AuthSession(i) PROVE LoginInv'
<1> DEFINE a == AccountOf[gate[i].client]
<1>1. UNCHANGED <<online, mine, retry, realmId, lobbyVars>>
  BY DEF AuthSession
<1>2. CASE mine = 0 \/ a \in pending
  <2>1. gate' = Without(gate, i) /\ UNCHANGED <<link, pending, orphaned>>
    BY <1>2 DEF AuthSession
  <2> QED BY <1>1, <2>1, GuestsKept, GateStep
<1>3. CASE ~(mine = 0 \/ a \in pending)
  <2> DEFINE g == [gate[i] EXCEPT !.account = a, !.hash = clientKey[gate[i].client]]
  <2>1. gate' = [gate EXCEPT ![i] = g] /\ pending' = pending \union {a} /\ Asked(a)
    BY <1>3 DEF AuthSession
  <2>2. a \in Account /\ clientKey[gate[i].client] \in Key \union {NoKey}
    BY GuestIsGuest DEF LoginInv, LobbyOK
  <2>3. g \in Guest
    BY <2>2, GuestIsGuest DEF Guest
  <2> HIDE DEF g
  <2>4. gate' \in Seq(Guest)
    BY <2>1, <2>3, GuestsKept
  <2>5. LinksOK' /\ Len(link') = Len(link) /\ orphaned' \subseteq Account
    BY <1>1, <1>3, <2>1, <2>2, AskedKeeps
  <2> QED BY <1>1, <2>1, <2>2, <2>4, <2>5, Facts, LinkStep
<1> QED BY <1>2, <1>3

-----------------------------------------------------------------------------
(* The login server's heard at the realm. *)

LEMMA NamedIsGuest ==
  ASSUME LoginInv, NEW a, NamedLike(a) # {}
  PROVE  First(NamedLike(a)) \in DOMAIN gate
<1>1. NamedLike(a) \subseteq Nat
  BY Facts, LenProperties DEF NamedLike
<1> QED BY <1>1, FirstOf DEF NamedLike

(* An answer changes what it says it changes, with its type. *)
LEMMA AnswerTaken ==
  ASSUME LoginInv, mine # 0, link[mine].down # <<>>, HandleLoginResult \/ HandleSuccess \/ HandleFailure
  PROVE  /\ pending' \subseteq Account /\ orphaned' \subseteq Account
         /\ realmId' \in {RealmId} \union OtherIds /\ gate' \in Seq(Guest)
<1>1. Head(link[mine].down) \in ToRealm
  BY MineIsLink, HeadTailProperties DEF Link
<1>2. CASE HandleLoginResult
  <2>1. Head(link[mine].down).id \in {RealmId} \union OtherIds
    BY <1>1, <1>2 DEF HandleLoginResult, ToRealm
  <2> QED BY <1>2, <2>1, Facts DEF HandleLoginResult
<1> DEFINE a == Head(link[mine].down).account
<1>3. CASE HandleSuccess
  <2>1. pending' = pending \ {a} /\ orphaned' = orphaned \ {a} /\ UNCHANGED realmId
    BY <1>3 DEF HandleSuccess, RequestsWithout
  <2>2. CASE gate' = gate
    BY <2>1, <2>2, Facts
  <2>3. CASE NamedLike(a) # {} /\ gate' = [gate EXCEPT ![First(NamedLike(a))].authed = TRUE]
    <3> DEFINE i == First(NamedLike(a))
               g == [gate[i] EXCEPT !.authed = TRUE]
    <3>1. i \in DOMAIN gate
      BY <2>3, NamedIsGuest
    <3>2. g \in Guest
      BY <3>1, GuestIsGuest DEF Guest
    <3>3. gate' = [gate EXCEPT ![i] = g]
      BY <2>3, <3>1
    <3> HIDE DEF g, i
    <3> QED BY <2>1, <3>1, <3>2, <3>3, GuestsKept, Facts
  <2> QED BY <1>3, <2>2, <2>3 DEF HandleSuccess
<1>4. CASE HandleFailure
  <2>1. pending' = pending \ {a} /\ orphaned' = orphaned \ {a} /\ UNCHANGED realmId
    BY <1>4 DEF HandleFailure, RequestsWithout
  <2>2. gate' = IF NamedLike(a) = {} THEN gate ELSE Without(gate, First(NamedLike(a)))
    BY <1>4 DEF HandleFailure
  <2> QED BY <2>1, <2>2, NamedIsGuest, GuestsKept, Facts
<1> QED BY <1>2, <1>3, <1>4

LEMMA RealmHandlesKeeps == ASSUME LoginInv, RealmHandles PROVE LoginInv'
<1> DEFINE r == [link[mine] EXCEPT !.down = Tail(@)]
<1>1. mine # 0 /\ link[mine].down # <<>> /\ UNCHANGED <<online, mine, retry, lobbyVars>>
  BY DEF RealmHandles
<1>2. mine \in DOMAIN link /\ link[mine] \in Link
  BY <1>1, MineIsLink
<1>3. link' = [link EXCEPT ![mine] = r]
  BY <1>2 DEF RealmHandles
<1>4. Tail(link[mine].down) \in Seq(ToRealm)
  BY <1>1, <1>2, HeadTailProperties DEF Link
<1>5. r \in Link /\ r.login = link[mine].login
  BY <1>2, <1>4 DEF Link
<1> HIDE DEF r
<1>6. LinksOK' /\ Len(link') = Len(link)
  BY <1>1, <1>2, <1>3, <1>5, Facts, LinkTouched
<1>7. /\ pending' \subseteq Account /\ orphaned' \subseteq Account
      /\ realmId' \in {RealmId} \union OtherIds /\ gate' \in Seq(Guest)
  BY <1>1, AnswerTaken DEF RealmHandles
<1> QED BY <1>1, <1>6, <1>7, Facts, LinkStep

-----------------------------------------------------------------------------
(* Theorems. *)

LEMMA LoginStarts == ASSUME LoginInit PROVE LoginInv
<1>1. NewLink \in Link /\ NewLink.login = "none"
  BY EmptySeq DEF NewLink, Link
<1>2. link = <<NewLink>> /\ link \in Seq(Link) /\ Len(link) = 1 /\ DOMAIN link = {1} /\ link[1] = NewLink
  BY <1>1 DEF LoginInit
<1>3. LinksOK
  BY <1>1, <1>2 DEF LinksOK, RealmListed, OneListedRealm, OfflineMeansGone
<1>4. lobby = <<>> /\ gate = <<>> /\ lobby \in Seq(Visitor) /\ gate \in Seq(Guest) /\ DOMAIN lobby = {}
  BY EmptySeq DEF LoginInit
<1>5. LobbyOK
  BY <1>4 DEF LoginInit, LobbyOK, KeysHeld
<1>6. mine \in 0 .. Len(link)
  BY <1>2 DEF LoginInit
<1>7. online \in BOOLEAN /\ retry \in BOOLEAN
  BY DEF LoginInit
<1>8. pending \subseteq Account /\ orphaned \subseteq Account /\ realmId \in {RealmId} \union OtherIds
  BY DEF LoginInit
<1>9. RealmOK
  BY <1>4, <1>6, <1>7, <1>8 DEF RealmOK
<1> QED BY <1>3, <1>5, <1>9 DEF LoginInv

LEMMA LoginStays == ASSUME LoginInv, UNCHANGED loginVars PROVE LoginInv'
<1>1. UNCHANGED lobbyVars /\ UNCHANGED <<online, link, mine, retry, pending, realmId, gate, orphaned>>
  BY DEF loginVars, lobbyVars
<1> QED BY <1>1, GateStep, Facts

LEMMA LoginStepKeeps == ASSUME LoginInv, LoginNext PROVE LoginInv'
<1>1. CASE Lobby
  BY <1>1, LobbyKeeps
<1>2. CASE Gate
  BY <1>2, GuestConnectsKeeps, AuthSessionKeeps, GuestGoesKeeps, NodeAnswersKeeps DEF Gate
<1>3. CASE Links
  BY <1>3, CutKeeps, LoginSideLostKeeps, LoginSideTimeoutKeeps DEF Links
<1>4. CASE TryConnect \/ Connects
  BY <1>4, TryConnectKeeps, EstablishedKeeps, ConnectFailsKeeps DEF Connects
<1>5. CASE RealmSideLost \/ RealmHandles
  BY <1>5, RealmSideLostKeeps, RealmHandlesKeeps
<1>6. CASE \E k \in DOMAIN link : LoginHandles(k)
  BY <1>6, LoginHandlesKeeps
<1> QED BY <1>1, <1>2, <1>3, <1>4, <1>5, <1>6 DEF LoginNext

(* The invariant of the login: types, one listed Realm which the database
   knows to be online, and no session without a key. *)
THEOREM LoginSound == LoginSpec => []LoginInv
<1>1. LoginInit => LoginInv
  BY LoginStarts
<1>2. LoginInv /\ [LoginNext]_loginVars => LoginInv'
  BY LoginStepKeeps, LoginStays
<1> QED BY <1>1, <1>2, PTL DEF LoginSpec

(* Every value has its type; an answer of success carries the key of a session. *)
THEOREM LoginTypeCorrect == LoginSpec => []LoginTypeOK
<1>1. LoginInv => LoginTypeOK
  BY DEF LoginInv, LinksOK, LobbyOK, RealmOK, LoginTypeOK
<1> QED BY <1>1, LoginSound, PTL

(* The login server never lists two Realm objects for one realm, and the
   database calls the realm offline only while none is listed
   (Realm::handleLogin, connectionLost). *)
THEOREM RealmIsListed == LoginSpec => []RealmListed
<1>1. LoginInv => RealmListed
  BY DEF LoginInv, LinksOK
<1> QED BY <1>1, LoginSound, PTL

-----------------------------------------------------------------------------
(* The requests that go over the link in use. *)

\* Where a queue holds a message of the kind M.
Places(s, M) == {n \in DOMAIN s : s[n] \in M}
Alone(S) == \E n \in S : S = {n}
Asks(a) == {[type |-> "playerLogin", account |-> a]}
Answers(a) == [type : {"success"}, account : {a}, key : Key] \union [type : {"failure"}, account : {a}]

\* Nothing of a is under way on a link, or one message is.
Silent(l, a) == Places(l.up, Asks(a)) = {} /\ Places(l.down, Answers(a)) = {}
Busy(l, a) ==
  \/ Alone(Places(l.up, Asks(a))) /\ Places(l.down, Answers(a)) = {}
  \/ Places(l.up, Asks(a)) = {} /\ Alone(Places(l.down, Answers(a)))

\* Who asked and was not forgotten is under way, until the link breaks.
Followed(l, a, asked, lost) ==
  /\ a \in asked \ lost => Busy(l, a) \/ (l.cut /\ Silent(l, a))
  /\ a \notin asked \ lost => Silent(l, a)
EndOK(l) ==
  /\ l.realm # "gone"
  /\ l.realm # "up" => l.login = "none" /\ ~l.cut /\ l.down = <<>>
  /\ l.realm = "failed" => l.up = <<>>

\* Links the realm has given up carry questions of forgotten requests only.
RequestsOK ==
  /\ orphaned \subseteq pending
  /\ mine = 0 => pending \subseteq orphaned
  /\ retry => mine = 0 \/ link[mine].realm = "failed"
  /\ mine # 0 => EndOK(link[mine]) /\ \A a \in Account : Followed(link[mine], a, pending, orphaned)
  /\ \A k \in DOMAIN link \ {mine}, a \in Account : Places(link[k].up, Asks(a)) # {} => a \in orphaned

-----------------------------------------------------------------------------
(* Queues: what is put at the end and taken from the front. *)

LEMMA PlacesEmpty == \A M : Places(<<>>, M) = {}
  BY DEF Places

LEMMA PlacesAppend ==
  ASSUME NEW S, NEW s \in Seq(S), NEW x \in S, NEW M
  PROVE  /\ x \notin M => Places(Append(s, x), M) = Places(s, M)
         /\ x \in M /\ Places(s, M) = {} => Alone(Places(Append(s, x), M))
<1>1. DOMAIN s = 1 .. Len(s) /\ Len(s) \in Nat
  BY LenProperties
<1>2. /\ Append(s, x) \in Seq(S) /\ Len(Append(s, x)) = Len(s) + 1
      /\ \A i \in 1 .. Len(s) : Append(s, x)[i] = s[i] 
      /\ Append(s, x)[Len(s) + 1] = x
  BY AppendProperties
<1>3. DOMAIN Append(s, x) = 1 .. Len(s) + 1
  BY <1>2, LenProperties
<1>4. ASSUME x \notin M PROVE Places(Append(s, x), M) = Places(s, M)
  BY <1>1, <1>2, <1>3, <1>4 DEF Places
<1>5. ASSUME x \in M, Places(s, M) = {} PROVE Places(Append(s, x), M) = {Len(s) + 1}
  BY <1>1, <1>2, <1>3, <1>5 DEF Places
<1> QED BY <1>4, <1>5 DEF Alone

LEMMA PlacesTail ==
  ASSUME NEW S, NEW s \in Seq(S), s # <<>>, NEW M
  PROVE  /\ Places(s, M) = {} => Places(Tail(s), M) = {}
         /\ Head(s) \notin M /\ Alone(Places(s, M)) => Alone(Places(Tail(s), M))
         /\ Head(s) \in M => Places(s, M) # {}
         /\ Head(s) \in M /\ Alone(Places(s, M)) => Places(Tail(s), M) = {}
<1>1. DOMAIN s = 1 .. Len(s) /\ Len(s) \in Nat /\ Len(s) # 0
  BY LenProperties, EmptySeq
<1>2. /\ Tail(s) \in Seq(S) /\ Len(Tail(s)) = Len(s) - 1 
      /\ \A i \in 1 .. Len(s) - 1 : Tail(s)[i] = s[i + 1]
      /\ Head(s) = s[1]
  BY <1>1, HeadTailProperties
<1>3. DOMAIN Tail(s) = 1 .. Len(s) - 1
  BY <1>1, <1>2, LenProperties
<1>4. \A n \in 1 .. Len(s) - 1 : n \in Places(Tail(s), M) <=> n + 1 \in Places(s, M)
  BY <1>1, <1>2, <1>3 DEF Places
<1>5. Places(s, M) \subseteq 1 .. Len(s) /\ Places(Tail(s), M) \subseteq 1 .. Len(s) - 1
  BY <1>1, <1>3 DEF Places
<1>6. 1 \in Places(s, M) <=> Head(s) \in M
  BY <1>1, <1>2 DEF Places
<1>7. ASSUME Places(s, M) = {} PROVE Places(Tail(s), M) = {}
  BY <1>1, <1>4, <1>5, <1>7
<1>8. ASSUME Head(s) \notin M, NEW n \in Places(s, M), Places(s, M) = {n}
      PROVE  Places(Tail(s), M) = {n - 1}
  <2>1. n # 1 /\ n \in 1 .. Len(s)
    BY <1>5, <1>6, <1>8
  <2>2. n - 1 \in 1 .. Len(s) - 1 /\ (n - 1) + 1 = n
    BY <1>1, <2>1
  <2>3. n - 1 \in Places(Tail(s), M)
    BY <1>4, <2>2
  <2>4. \A m \in Places(Tail(s), M) : m = n - 1
    BY <1>1, <1>4, <1>5, <1>8, <2>1
  <2> QED BY <2>3, <2>4
<1>9. ASSUME Head(s) \in M, Alone(Places(s, M)) PROVE Places(Tail(s), M) = {}
  <2>1. Places(s, M) = {1}
    BY <1>6, <1>9 DEF Alone
  <2> QED BY <1>1, <1>4, <1>5, <2>1
<1>10. ASSUME Head(s) \notin M, Alone(Places(s, M)) PROVE Alone(Places(Tail(s), M))
  BY <1>8, <1>10 DEF Alone
<1> QED BY <1>6, <1>7, <1>9, <1>10

(* Whose question, whose answer. *)
LEMMA AsksOf == ASSUME NEW a, NEW b, [type |-> "playerLogin", account |-> a] \in Asks(b) PROVE a = b
  BY DEF Asks
LEMMA LoginIsNoQuestion == \A a : [type |-> "login"] \notin Asks(a)
  BY DEF Asks
LEMMA AnswersOf ==
  ASSUME NEW x \in ToRealm, NEW a
  PROVE  x \in Answers(a) <=> x.type \in {"success", "failure"} /\ x.account = a
  BY DEF Answers, ToRealm

-----------------------------------------------------------------------------
(* What steps do to the link in use. *)

LEMMA LinkParts ==
  ASSUME NEW l \in Link
  PROVE  l.up \in Seq(ToLoginServer) /\ l.down \in Seq(ToRealm) /\ l.cut \in BOOLEAN
  BY DEF Link

\* A link of nothing but silence.
LEMMA SilentLink ==
  ASSUME NEW l, l.up = <<>>, l.down = <<>>
  PROVE  \A a : Silent(l, a)
  BY PlacesEmpty DEF Silent

(* The invariant after a step that changes one link. *)
LEMMA OneLinkMoves ==
  ASSUME LoginInv, RequestsOK, NEW k \in DOMAIN link, NEW r,
         link' = [link EXCEPT ![k] = r],
         mine' = mine, orphaned' \subseteq pending',
         \/ k = mine /\ r.realm = "failed"
         \/ retry' = retry /\ (link[k].realm = "failed" => r.realm = "failed"),
         k = mine => /\ EndOK(r) /\ orphaned \subseteq orphaned'
                     /\ \A a \in Account : Followed(r, a, pending', orphaned'),
         k # mine => /\ UNCHANGED <<pending, orphaned>>
                     /\ \A a \in Account : Places(r.up, Asks(a)) # {} => Places(link[k].up, Asks(a)) # {}
  PROVE  RequestsOK'
<1>1. DOMAIN link' = DOMAIN link /\ link'[k] = r /\ \A j \in DOMAIN link : j # k => link'[j] = link[j]
  BY Facts DEF LinksOK
<1>2. (mine # 0 => mine \in DOMAIN link) /\ (mine = 0 => k # mine)
  BY Facts, MineIsLink, LenProperties DEF LinksOK
<1>3. retry' => mine' = 0 \/ link'[mine'].realm = "failed"
  BY <1>1, <1>2 DEF RequestsOK
<1>4. ASSUME mine' # 0
      PROVE  EndOK(link'[mine']) /\ \A a \in Account : Followed(link'[mine'], a, pending', orphaned')
  <2>1. CASE k = mine
    BY <1>1, <2>1
  <2>2. CASE k # mine
    BY <1>1, <1>2, <1>4, <2>2 DEF RequestsOK
  <2> QED BY <2>1, <2>2
<1>5. ASSUME NEW j \in DOMAIN link' \ {mine'}, NEW a \in Account, Places(link'[j].up, Asks(a)) # {}
      PROVE  a \in orphaned'
  <2>1. Places(link[j].up, Asks(a)) # {}
    BY <1>1, <1>5
  <2> QED BY <1>1, <1>5, <2>1 DEF RequestsOK
<1>6. mine' = 0 => pending' \subseteq orphaned'
  BY <1>2 DEF RequestsOK
<1> QED BY <1>3, <1>4, <1>5, <1>6 DEF RequestsOK

(* A step that does not concern the requests. *)
LEMMA RequestsUntouched ==
  ASSUME RequestsOK, UNCHANGED <<link, mine, retry, pending, orphaned>>
  PROVE  RequestsOK'
  BY DEF RequestsOK

LEMMA LobbyGateRequests == 
  ASSUME RequestsOK, Lobby \/ (\E c \in Client : GuestConnects(c)) 
                       \/ (\E i \in DOMAIN gate : GuestGoes(i) \/ NodeAnswers(i))
  PROVE RequestsOK'
<1>1. UNCHANGED <<link, mine, retry, pending, orphaned>>
  BY DEF Lobby, ClientConnects, VisitorGoes, LogonChallenge, LogonProof, ReconnectChallenge, ReconnectProof,
         GuestConnects, GuestGoes, NodeAnswers
<1> QED BY <1>1, RequestsUntouched

(* What is under way stays under way when no message of a is touched. *)
LEMMA FollowedSame ==
  ASSUME NEW l, NEW r, NEW a, NEW A, NEW O, Followed(l, a, A, O), l.cut => r.cut,
         Places(r.up, Asks(a)) = Places(l.up, Asks(a)), Places(r.down, Answers(a)) = Places(l.down, Answers(a))
  PROVE  Followed(r, a, A, O)
  BY DEF Followed, Busy, Silent

\* The login server gives the link up.
LEMMA FollowedCut ==
  ASSUME NEW l, NEW r, NEW a, NEW A, NEW O, Followed(l, a, A, O), r.cut, r.up = <<>>, r.down = l.down
  PROVE  Followed(r, a, A, O)
  BY PlacesEmpty DEF Followed, Busy, Silent

\* The login server takes the login of the realm.
LEMMA FollowedLogin ==
  ASSUME NEW l \in Link, NEW r, NEW a, NEW A, NEW O, Followed(l, a, A, O), l.up # <<>>,
         Head(l.up).type = "login", r.cut = l.cut, r.up = Tail(l.up), NEW x \in ToRealm, x.type = "loginResult",
         r.down = l.down \/ r.down = Append(l.down, x)
  PROVE  Followed(r, a, A, O)
<1>1. l.up \in Seq(ToLoginServer) /\ l.down \in Seq(ToRealm)
  BY LinkParts
<1>2. Head(l.up) \notin Asks(a) /\ x \notin Answers(a)
  BY AnswersOf DEF Asks
<1>3. Places(r.down, Answers(a)) = Places(l.down, Answers(a))
  <2>1. Places(Append(l.down, x), Answers(a)) = Places(l.down, Answers(a))
    BY <1>1, <1>2, PlacesAppend
  <2>2. CASE r.down = l.down
    BY <2>2
  <2>3. CASE r.down = Append(l.down, x)
    BY <2>1, <2>3
  <2> QED BY <2>2, <2>3
<1>4. /\ Places(l.up, Asks(a)) = {} => Places(r.up, Asks(a)) = {}
      /\ Alone(Places(l.up, Asks(a))) => Alone(Places(r.up, Asks(a)))
  BY <1>1, <1>2, PlacesTail
<1> QED BY <1>3, <1>4 DEF Followed, Busy, Silent

\* The login server takes a question and heard it, or forgets it.
LEMMA FollowedAnswer ==
  ASSUME NEW l \in Link, NEW r, NEW a, NEW A, NEW O, NEW P, l.up # <<>>,
         Head(l.up) = [type |-> "playerLogin", account |-> a], r.cut = l.cut, r.up = Tail(l.up), O \subseteq P,
         \/ r.down = l.down /\ (l.cut \/ a \in P)
         \/ \E x \in ToRealm : x \in Answers(a) /\ r.down = Append(l.down, x) /\ a \notin P,
         P \ {a} \subseteq O,
         NEW b, Followed(l, a, A, O), Followed(l, b, A, O)
  PROVE  Followed(r, b, A, P) /\ a \in A
<1>1. l.up \in Seq(ToLoginServer) /\ l.down \in Seq(ToRealm)
  BY LinkParts
<1>2. Head(l.up) \in Asks(a) /\ (a # b => Head(l.up) \notin Asks(b))
  BY DEF Asks
<1>3. Places(l.up, Asks(a)) # {}
  BY <1>1, <1>2, PlacesTail
<1>4. a \in A \ O /\ Alone(Places(l.up, Asks(a))) /\ Places(l.down, Answers(a)) = {}
  BY <1>3 DEF Followed, Busy, Silent
<1>5. Places(r.up, Asks(a)) = {}
  BY <1>1, <1>2, <1>4, PlacesTail
<1>6. CASE a = b
  <2>1. CASE r.down = l.down /\ (l.cut \/ a \in P)
    BY <1>4, <1>5, <1>6, <2>1 DEF Followed, Silent
  <2>2. CASE \E x \in ToRealm : x \in Answers(a) /\ r.down = Append(l.down, x) /\ a \notin P
    <3>1. Alone(Places(r.down, Answers(a)))
      BY <1>1, <1>4, <2>2, PlacesAppend
    <3> QED BY <1>4, <1>5, <1>6, <2>2, <3>1 DEF Followed, Busy
  <2> QED BY <2>1, <2>2
<1>7. CASE a # b
  <2>1. /\ Places(l.up, Asks(b)) = {} => Places(r.up, Asks(b)) = {}
        /\ Alone(Places(l.up, Asks(b))) => Alone(Places(r.up, Asks(b)))
    BY <1>1, <1>2, <1>7, PlacesTail
  <2>2. \A x \in ToRealm : x \in Answers(a) => x \notin Answers(b)
    BY <1>7, AnswersOf
  <2>3. \A x \in ToRealm : x \in Answers(a) => Places(Append(l.down, x), Answers(b)) = Places(l.down, Answers(b))
    BY <1>1, <2>2, PlacesAppend
  <2>4. Places(r.down, Answers(b)) = Places(l.down, Answers(b))
    <3>1. CASE r.down = l.down
      BY <3>1
    <3>2. ASSUME NEW x \in ToRealm, x \in Answers(a), r.down = Append(l.down, x)
          PROVE  Places(r.down, Answers(b)) = Places(l.down, Answers(b))
      BY <2>3, <3>2
    <3> QED BY <3>1, <3>2
  <2>5. b \in A \ P <=> b \in A \ O
    BY <1>7
  <2>6. Silent(l, b) => Silent(r, b)
    BY <2>1, <2>4 DEF Silent
  <2>7. Busy(l, b) => Busy(r, b)
    BY <2>1, <2>4 DEF Busy
  <2>8. l.cut => r.cut
    OBVIOUS
  <2>9. b \in A \ O => Busy(r, b) \/ (r.cut /\ Silent(r, b))
    BY <2>6, <2>7, <2>8 DEF Followed
  <2>10. b \notin A \ O => Silent(r, b)
    BY <2>6 DEF Followed
  <2> QED BY <1>4, <2>5, <2>9, <2>10 DEF Followed
<1> QED BY <1>4, <1>6, <1>7

\* The realm takes an answer.
LEMMA FollowedTaken ==
  ASSUME NEW l \in Link, NEW r, NEW a, NEW A, NEW O, l.down # <<>>, r.cut = l.cut, r.up = l.up,
         r.down = Tail(l.down), Followed(l, a, A, O)
  PROVE  /\ Head(l.down) \notin Answers(a) => Followed(r, a, A, O)
         /\ Head(l.down) \in Answers(a) => a \in A \ O /\ Silent(r, a)
<1>1. l.down \in Seq(ToRealm)
  BY LinkParts
<1>2. ASSUME Head(l.down) \notin Answers(a) PROVE Followed(r, a, A, O)
  <2>1. /\ Places(l.down, Answers(a)) = {} => Places(r.down, Answers(a)) = {}
        /\ Alone(Places(l.down, Answers(a))) => Alone(Places(r.down, Answers(a)))
    BY <1>1, <1>2, PlacesTail
  <2> QED BY <2>1 DEF Followed, Busy, Silent
<1>3. ASSUME Head(l.down) \in Answers(a) PROVE a \in A \ O /\ Silent(r, a)
  <2>1. Places(l.down, Answers(a)) # {} 
    BY <1>1, <1>3, PlacesTail
  <2>2. a \in A \ O /\ Places(l.up, Asks(a)) = {} /\ Alone(Places(l.down, Answers(a)))
    BY <2>1 DEF Followed, Busy, Silent
  <2>3. Places(r.down, Answers(a)) = {}
    BY <1>1, <1>3, <2>2, PlacesTail
  <2> QED BY <2>2, <2>3 DEF Silent
<1> QED BY <1>2, <1>3

-----------------------------------------------------------------------------
LEMMA InUse ==
  ASSUME RequestsOK, mine # 0
  PROVE  EndOK(link[mine]) /\ \A a \in Account : Followed(link[mine], a, pending, orphaned)
  BY DEF RequestsOK

LEMMA EstablishedRequests == ASSUME LoginInv, RequestsOK, Established PROVE RequestsOK'
<1> DEFINE m == [type |-> "login"]
           r == [link[mine] EXCEPT !.realm = "up", !.login = "fresh", !.up = Append(@, m)]
<1>1. mine # 0 /\ mine \in DOMAIN link /\ link[mine] \in Link /\ link[mine].realm = "connecting"
  BY MineIsLink DEF Established
<1>2. link' = [link EXCEPT ![mine] = r] /\ UNCHANGED <<mine, retry, pending, orphaned>>
  BY <1>1 DEF Established
<1>3. r.realm = "up" /\ r.cut = link[mine].cut /\ r.up = Append(link[mine].up, m) /\ r.down = link[mine].down
  BY <1>1 DEF Link
<1> HIDE DEF r
<1>4. ASSUME NEW a \in Account PROVE Followed(r, a, pending, orphaned)
  <2>1. m \in ToLoginServer /\ m \notin Asks(a)
    BY DEF ToLoginServer, Asks
  <2>2. Places(r.up, Asks(a)) = Places(link[mine].up, Asks(a))
    BY <1>1, <1>3, <2>1, LinkParts, PlacesAppend
  <2> QED BY <1>1, <1>3, <2>2, InUse, FollowedSame
<1>5. EndOK(r)
  BY <1>3 DEF EndOK
<1>6. orphaned' \subseteq pending'
  BY <1>2 DEF RequestsOK
<1> QED BY <1>1, <1>2, <1>4, <1>5, <1>6, OneLinkMoves

LEMMA ConnectFailsRequests == ASSUME LoginInv, RequestsOK, ConnectFails PROVE RequestsOK'
<1> DEFINE r == [link[mine] EXCEPT !.realm = "failed", !.up = <<>>]
<1>1. mine # 0 /\ mine \in DOMAIN link /\ link[mine] \in Link /\ link[mine].realm = "connecting"
  BY MineIsLink DEF ConnectFails
<1>2. link' = [link EXCEPT ![mine] = r] /\ orphaned' = pending /\ UNCHANGED <<mine, pending>>
  BY <1>1 DEF ConnectFails
<1>3. /\ r.realm = "failed" /\ r.cut = link[mine].cut /\ r.up = <<>> /\ r.down = link[mine].down
      /\ r.login = link[mine].login
  BY <1>1 DEF Link
<1> HIDE DEF r
<1>4. EndOK(link[mine])
  BY <1>1, InUse
<1>5. EndOK(r) /\ r.down = <<>>
  BY <1>1, <1>3, <1>4 DEF EndOK
<1>6. \A a \in Account : Followed(r, a, pending', orphaned')
  BY <1>2, <1>3, <1>5, SilentLink DEF Followed
<1>7. orphaned \subseteq orphaned'
  BY <1>2 DEF RequestsOK
<1> QED BY <1>1, <1>2, <1>3, <1>5, <1>6, <1>7, OneLinkMoves

LEMMA CutRequests == ASSUME LoginInv, RequestsOK, NEW k \in DOMAIN link, Cut(k) PROVE RequestsOK'
<1> DEFINE r == [link[k] EXCEPT !.cut = TRUE]
<1>1. link[k] \in Link /\ link[k].realm = "up"
  BY Facts, LinkIsLink DEF Cut
<1>2. link' = [link EXCEPT ![k] = r] /\ UNCHANGED <<mine, retry, pending, orphaned>>
  BY DEF Cut
<1>3. r.realm = "up" /\ r.cut /\ r.up = link[k].up /\ r.down = link[k].down
  BY <1>1 DEF Link
<1> HIDE DEF r
<1>4. k = mine => mine # 0
  BY Facts, LenProperties DEF LinksOK
<1>5. ASSUME k = mine PROVE EndOK(r) /\ \A a \in Account : Followed(r, a, pending, orphaned)
  BY <1>3, <1>4, <1>5, InUse, FollowedSame DEF EndOK
<1>6. orphaned' \subseteq pending'
  BY <1>2 DEF RequestsOK
<1> QED BY <1>1, <1>2, <1>3, <1>5, <1>6, OneLinkMoves

(* The login server gives up a link. *)
LEMMA LoginSideRequests ==
  ASSUME LoginInv, RequestsOK, NEW k \in DOMAIN link, LoginSideLost(k) \/ LoginSideTimeout(k)
  PROVE  RequestsOK'
<1>1. link[k] \in Link /\ link[k].login \in {"fresh", "authed"}
  BY Facts, LinkIsLink DEF LoginSideLost, LoginSideTimeout
<1>2. PICK r : /\ link' = [link EXCEPT ![k] = r] /\ r.realm = link[k].realm /\ r.cut
               /\ r.up = <<>> /\ r.down = link[k].down
  <2>1. CASE LoginSideLost(k)
    <3> DEFINE q == [link[k] EXCEPT !.login = "gone", !.up = <<>>]
    <3>1. link' = [link EXCEPT ![k] = q] /\ link[k].cut
      BY <2>1 DEF LoginSideLost
    <3>2. q.realm = link[k].realm /\ q.cut /\ q.up = <<>> /\ q.down = link[k].down
      BY <1>1, <3>1 DEF Link
    <3> HIDE DEF q
    <3> QED BY <3>1, <3>2
  <2>2. CASE LoginSideTimeout(k)
    <3> DEFINE q == [link[k] EXCEPT !.login = "gone", !.cut = TRUE, !.up = <<>>]
    <3>1. link' = [link EXCEPT ![k] = q]
      BY <2>2 DEF LoginSideTimeout
    <3>2. q.realm = link[k].realm /\ q.cut /\ q.up = <<>> /\ q.down = link[k].down
      BY <1>1, <3>1 DEF Link
    <3> HIDE DEF q
    <3> QED BY <3>1, <3>2
  <2> QED BY <2>1, <2>2
<1>3. UNCHANGED <<mine, retry, pending, orphaned>>
  BY DEF LoginSideLost, LoginSideTimeout
<1>4. k = mine => mine # 0
  BY Facts, LenProperties DEF LinksOK
<1>5. ASSUME k = mine PROVE EndOK(r) /\ \A a \in Account : Followed(r, a, pending, orphaned)
  <2>1. EndOK(link[mine]) /\ link[mine].realm = "up"
    BY <1>1, <1>4, <1>5, InUse DEF EndOK
  <2> QED BY <1>2, <1>4, <1>5, <2>1, InUse, FollowedCut DEF EndOK
<1>6. orphaned' \subseteq pending'
  BY <1>3 DEF RequestsOK
<1>7. \A a \in Account : Places(r.up, Asks(a)) = {}
  BY <1>2, PlacesEmpty
<1> QED BY <1>2, <1>3, <1>5, <1>6, <1>7, OneLinkMoves

(* The login server takes the login of the realm, or a question. *)
LEMMA LoginHandlesRequests ==
  ASSUME LoginInv, RequestsOK, NEW k \in DOMAIN link, LoginHandles(k)
  PROVE  RequestsOK'
<1> DEFINE l == link[k]
           h == Head(link[k].up)
<1>1. l \in Link /\ l.login \in {"fresh", "authed"} /\ l.up # <<>>
  BY Facts, LinkIsLink DEF LoginHandles
<1>2. l.up \in Seq(ToLoginServer) /\ l.down \in Seq(ToRealm) /\ h \in ToLoginServer
  BY <1>1, LinkParts, HeadTailProperties
<1>3. k = mine => mine # 0
  BY Facts, LenProperties DEF LinksOK
<1>4. \A a \in Account : Places(Tail(l.up), Asks(a)) # {} => Places(l.up, Asks(a)) # {}
  BY <1>1, <1>2, PlacesTail
<1>5. k = mine => l.realm = "up"
  BY <1>1, <1>3, InUse DEF EndOK
<1>6. \A x \in ToRealm : l.down \o <<x>> = Append(l.down, x)
  BY <1>2, AppendIsConcat
<1>7. l.down \o <<>> = l.down
  BY <1>2, ConcatEmptySeq
<1>8. CASE HandleLogin(k)
  <2>1. h.type = "login" /\ UNCHANGED <<mine, retry, pending, orphaned>>
    BY <1>8 DEF HandleLogin
  <2>2. PICK r : /\ link' = [link EXCEPT ![k] = r] /\ r.realm = l.realm /\ r.cut = l.cut /\ r.up = Tail(l.up)
                 /\ \E x \in ToRealm : x.type = "loginResult" /\ (r.down = l.down \/ r.down = Append(l.down, x))
    <3>1. PICK x \in ToRealm : /\ x.type = "loginResult"
                               /\ \/ link' = Replied(k, <<x>>)
                                  \/ link' = [Replied(k, <<x>>) EXCEPT ![k].login = "authed"]
      <4>1. \A id \in {RealmId} \union OtherIds :
              [type |-> "loginResult", id |-> id] \in ToRealm /\ [type |-> "loginResult", id |-> id].type = "loginResult"
        BY DEF ToRealm
      <4>2. \E id \in {RealmId} \union OtherIds :
              \/ link' = Replied(k, <<[type |-> "loginResult", id |-> id]>>)
              \/ link' = [Replied(k, <<[type |-> "loginResult", id |-> id]>>) EXCEPT ![k].login = "authed"]
        BY <1>8 DEF HandleLogin
      <4> QED BY <4>1, <4>2
    <3> DEFINE d == IF l.cut THEN l.down ELSE l.down \o <<x>>
               r == [l EXCEPT !.up = Tail(@), !.down = d]
               q == [r EXCEPT !.login = "authed"]
    <3>2. Replied(k, <<x>>) = [link EXCEPT ![k] = r]
      BY Facts DEF Replied, LinksOK
    <3>3. link' = [link EXCEPT ![k] = r] \/ link' = [link EXCEPT ![k] = q]
      BY <3>1, <3>2, Facts DEF LinksOK
    <3>4. d = l.down \/ d = Append(l.down, x)
      BY <1>6
    <3> HIDE DEF d
    <3>5. /\ r.realm = l.realm /\ r.cut = l.cut /\ r.up = Tail(l.up) /\ r.down = d
          /\ q.realm = l.realm /\ q.cut = l.cut /\ q.up = Tail(l.up) /\ q.down = d
      BY <1>1 DEF Link
    <3> HIDE DEF r, q, l
    <3> HIDE DEF d
    <3>6. PICK p : /\ link' = [link EXCEPT ![k] = p]
                   /\ p.realm = l.realm /\ p.cut = l.cut /\ p.up = Tail(l.up) /\ p.down = d
      BY <3>3, <3>5
    <3>7. p.down = l.down \/ p.down = Append(l.down, x)
      BY <3>4, <3>6
    <3> HIDE DEF l
    <3> QED BY <3>1, <3>6, <3>7
  <2>3. ASSUME k = mine PROVE EndOK(r) /\ \A a \in Account : Followed(r, a, pending', orphaned')
    <3>1. EndOK(r)
      BY <1>5, <2>2, <2>3 DEF EndOK
    <3>2. \A a \in Account : Followed(l, a, pending, orphaned)
      BY <1>3, <2>3, InUse
    <3> HIDE DEF l, h
    <3>3. \A a \in Account : Followed(r, a, pending, orphaned)
      BY <1>1, <2>1, <2>2, <3>2, FollowedLogin DEF h, l
    <3> QED BY <2>1, <3>1, <3>3
  <2>4. orphaned' \subseteq pending' /\ orphaned \subseteq orphaned'
    BY <2>1 DEF RequestsOK
  <2> QED BY <1>4, <2>1, <2>2, <2>3, <2>4, OneLinkMoves
<1>9. CASE HandlePlayerLogin(k)
  <2> DEFINE a == h.account
  <2>1. h = [type |-> "playerLogin", account |-> a] /\ a \in Account
    BY <1>2, <1>9 DEF HandlePlayerLogin, ToLoginServer
  <2>2. UNCHANGED <<mine, retry, pending>>
    BY <1>9 DEF HandlePlayerLogin
  <2>8. Places(l.up, Asks(a)) # {}
    <3>1. h \in Asks(a)
      BY <2>1 DEF Asks
    <3> HIDE DEF a, l
    <3> QED BY <1>1, <1>2, <3>1, PlacesTail DEF l
  <2>3. \/ link' = Replied(k, <<>>) /\ orphaned' = orphaned \union {a}
        \/ (\E x \in ToRealm : x \in Answers(a) /\ link' = Replied(k, <<x>>)) /\ orphaned' = orphaned
    <3>1. CASE link[k].login = "fresh"
      BY <1>9, <3>1 DEF HandlePlayerLogin
    <3>2. CASE link[k].login = "authed" /\ SessionsOf(a) # {}
      <4> DEFINE i == First(SessionsOf(a))
                 x == [type |-> "success", account |-> a, key |-> lobby[i].key]
      <4>1. SessionsOf(a) \subseteq Nat
        BY LenProperties DEF SessionsOf, LoginInv, LobbyOK
      <4>2. i \in SessionsOf(a)
        BY <3>2, <4>1, FirstOf
      <4>3. i \in DOMAIN lobby /\ lobby[i].step = "in"
        BY <4>2 DEF SessionsOf
      <4>4. lobby[i] \in Visitor /\ lobby[i].key # NoKey
        BY <4>3, VisitorIsVisitor DEF KeyHeld
      <4>5. lobby[i].key \in Key
        BY <4>4 DEF Visitor
      <4>6. x \in ToRealm /\ x \in Answers(a)
        BY <2>1, <4>5 DEF ToRealm, Answers
      <4>7. link' = Replied(k, <<x>>) /\ orphaned' = orphaned
        BY <1>9, <3>2 DEF HandlePlayerLogin
      <4> QED BY <4>6, <4>7
    <3>3. CASE link[k].login = "authed" /\ SessionsOf(a) = {}
      <4> DEFINE x == [type |-> "failure", account |-> a]
      <4>1. x \in ToRealm /\ x \in Answers(a)
        BY <2>1 DEF ToRealm, Answers
      <4>2. link' = Replied(k, <<x>>) /\ orphaned' = orphaned
        BY <1>9, <3>3 DEF HandlePlayerLogin, Failure
      <4> QED BY <4>1, <4>2
    <3> QED BY <1>1, <3>1, <3>2, <3>3
  <2>4. PICK r : /\ link' = [link EXCEPT ![k] = r]
                 /\ r.realm = l.realm /\ r.login = l.login /\ r.cut = l.cut /\ r.up = Tail(l.up)
                 /\ \/ r.down = l.down /\ (l.cut \/ a \in orphaned') /\ orphaned' \subseteq orphaned \union {a}
                    \/ /\ \E x \in ToRealm : x \in Answers(a) /\ r.down = Append(l.down, x)
                       /\ orphaned' = orphaned
                 /\ orphaned \subseteq orphaned'
    <3>1. ASSUME NEW heard, link' = Replied(k, heard)
          PROVE  \E r : /\ link' = [link EXCEPT ![k] = r]
                        /\ r.realm = l.realm /\ r.login = l.login /\ r.cut = l.cut /\ r.up = Tail(l.up)
                        /\ r.down = IF l.cut THEN l.down ELSE l.down \o heard
      <4> DEFINE d == IF l.cut THEN l.down ELSE l.down \o heard
                 r == [l EXCEPT !.up = Tail(@), !.down = d]
      <4>1. link' = [link EXCEPT ![k] = r]
        BY <3>1, Facts DEF Replied, LinksOK
      <4> HIDE DEF d
      <4>2. r.realm = l.realm /\ r.login = l.login /\ r.cut = l.cut /\ r.up = Tail(l.up) /\ r.down = d
        BY <1>1 DEF Link
      <4> HIDE DEF r
      <4> QED BY <4>1, <4>2 DEF d
    <3>2. CASE link' = Replied(k, <<>>) /\ orphaned' = orphaned \union {a}
      <4>1. PICK r : /\ link' = [link EXCEPT ![k] = r]
                     /\ r.realm = l.realm /\ r.login = l.login /\ r.cut = l.cut /\ r.up = Tail(l.up)
                     /\ r.down = IF l.cut THEN l.down ELSE l.down \o <<>>
        BY <3>1, <3>2
      <4>2. r.down = l.down
        BY <1>7, <4>1
      <4>3. a \in orphaned' /\ orphaned' \subseteq orphaned \union {a} /\ orphaned \subseteq orphaned'
        BY <3>2
      <4> HIDE DEF l, a
      <4> QED BY <4>1, <4>2, <4>3
    <3>3. ASSUME NEW x \in ToRealm, x \in Answers(a), link' = Replied(k, <<x>>), orphaned' = orphaned
          PROVE  \E r : /\ link' = [link EXCEPT ![k] = r]
                 /\ r.realm = l.realm /\ r.login = l.login /\ r.cut = l.cut /\ r.up = Tail(l.up)
                 /\ \/ r.down = l.down /\ (l.cut \/ a \in orphaned') /\ orphaned' \subseteq orphaned \union {a}
                    \/ /\ \E y \in ToRealm : y \in Answers(a) /\ r.down = Append(l.down, y)
                       /\ orphaned' = orphaned
                 /\ orphaned \subseteq orphaned'
      <4>1. PICK r : /\ link' = [link EXCEPT ![k] = r]
                     /\ r.realm = l.realm /\ r.login = l.login /\ r.cut = l.cut /\ r.up = Tail(l.up)
                     /\ r.down = IF l.cut THEN l.down ELSE l.down \o <<x>>
        BY <3>1, <3>3
      <4>2. \/ r.down = l.down /\ l.cut
            \/ r.down = Append(l.down, x)
        BY <1>6, <4>1
      <4>3. orphaned' \subseteq orphaned \union {a} /\ orphaned \subseteq orphaned'
        BY <3>3
      <4> HIDE DEF l, a
      <4> QED BY <3>3, <4>1, <4>2, <4>3
    <3> QED BY <2>3, <3>2, <3>3
  <2>5. ASSUME k = mine
        PROVE  EndOK(r) /\ orphaned' \subseteq pending /\ \A b \in Account : Followed(r, b, pending, orphaned')
    <3>1. EndOK(r)
      BY <1>5, <2>4, <2>5 DEF EndOK
    <3>2. \A b \in Account : Followed(l, b, pending, orphaned)
      BY <1>3, <2>5, InUse
    <3>3. ASSUME NEW b \in Account PROVE Followed(r, b, pending, orphaned') /\ a \in pending
      <4>1. Followed(l, a, pending, orphaned) /\ Followed(l, b, pending, orphaned)
        BY <2>1, <3>2
      <4>2. a \notin orphaned
        BY <2>8, <4>1 DEF Followed, Silent
      <4>3. orphaned' \ {a} \subseteq orphaned
        BY <2>4
      <4>4. \/ r.down = l.down /\ (l.cut \/ a \in orphaned')
            \/ \E x \in ToRealm : x \in Answers(a) /\ r.down = Append(l.down, x) /\ a \notin orphaned'
        BY <2>4, <4>2
      <4> HIDE DEF l, h, a
      <4> QED BY <1>1, <2>1, <2>4, <4>1, <4>3, <4>4, FollowedAnswer DEF h, l
    <3>4. orphaned' \subseteq pending
      BY <2>1, <2>4, <3>3 DEF RequestsOK
    <3> QED BY <3>1, <3>3, <3>4
  <2>6. ASSUME k # mine PROVE orphaned' = orphaned
    <3>1. a \in orphaned
      BY <2>1, <2>6, <2>8 DEF RequestsOK
    <3> QED BY <2>4, <3>1
  <2>7. orphaned' \subseteq pending'
    BY <2>2, <2>5, <2>6 DEF RequestsOK
  <2> HIDE DEF a, h
  <2> QED BY <1>4, <2>2, <2>4, <2>5, <2>6, <2>7, OneLinkMoves
<1> QED BY <1>8, <1>9 DEF LoginHandles

-----------------------------------------------------------------------------
(* Steps of the realm. *)

LEMMA TryConnectRequests == ASSUME LoginInv, RequestsOK, TryConnect PROVE RequestsOK'
<1>1. /\ link' = Append(link, NewLink) /\ mine' = Len(link') /\ retry' = FALSE /\ retry
      /\ UNCHANGED <<pending, orphaned>>
  BY DEF TryConnect
<1>2. link \in Seq(Link) /\ Len(link) \in Nat /\ DOMAIN link = 1 .. Len(link) /\ NewLink \in Link
  BY LenProperties, EmptySeq DEF LoginInv, LinksOK, NewLink, Link
<1>3. /\ link' \in Seq(Link) /\ Len(link') = Len(link) + 1 /\ link'[Len(link) + 1] = NewLink
      /\ \A j \in 1 .. Len(link) : link'[j] = link[j]
  BY <1>1, <1>2, AppendProperties
<1>4. DOMAIN link' = 1 .. Len(link) + 1
  BY <1>3, LenProperties
<1>5. pending \subseteq orphaned
  <2>1. CASE mine = 0
    BY <2>1 DEF RequestsOK
  <2>2. CASE mine # 0
    <3>1. link[mine].realm = "failed" /\ EndOK(link[mine]) /\ \A a \in Account : Followed(link[mine], a, pending, orphaned)
      BY <1>1, <2>2 DEF RequestsOK
    <3>2. link[mine].up = <<>> /\ link[mine].down = <<>> /\ ~link[mine].cut
      BY <3>1 DEF EndOK
    <3>3. \A a : Silent(link[mine], a) /\ ~Busy(link[mine], a)
      BY <3>2, PlacesEmpty DEF Silent, Busy, Alone
    <3>4. \A a \in Account : a \notin pending \ orphaned
      BY <3>1, <3>2, <3>3 DEF Followed
    <3> QED BY <3>4, Facts
  <2> QED BY <2>1, <2>2
<1>6. EndOK(NewLink) /\ \A a \in Account : Followed(NewLink, a, pending', orphaned')
  <2>1. NewLink.up = <<>> /\ NewLink.down = <<>> /\ EndOK(NewLink)
    BY DEF NewLink, EndOK
  <2> QED BY <1>1, <1>5, <2>1, SilentLink DEF Followed
<1>7. mine' \in DOMAIN link' /\ link'[mine'] = NewLink
  BY <1>1, <1>2, <1>3, <1>4
<1>8. ASSUME NEW j \in DOMAIN link' \ {mine'}, NEW a \in Account, Places(link'[j].up, Asks(a)) # {}
      PROVE  a \in orphaned'
  <2>1. j \in DOMAIN link /\ link'[j] = link[j]
    BY <1>1, <1>2, <1>3, <1>4, <1>8
  <2>2. CASE j = mine
    <3>1. mine # 0 /\ link[mine].realm = "failed" /\ EndOK(link[mine])
      BY <1>1, <1>2, <2>1, <2>2 DEF RequestsOK
    <3>2. Places(link[j].up, Asks(a)) = {}
      BY <2>2, <3>1, PlacesEmpty DEF EndOK
    <3> QED BY <1>8, <2>1, <3>2
  <2>3. CASE j # mine
    BY <1>1, <1>8, <2>1, <2>3 DEF RequestsOK
  <2> QED BY <2>2, <2>3
<1>9. orphaned' \subseteq pending' /\ (mine' = 0 => pending' \subseteq orphaned') /\ ~retry'
  BY <1>1, <1>5 DEF RequestsOK
<1> QED BY <1>6, <1>7, <1>8, <1>9 DEF RequestsOK

LEMMA RealmSideLostRequests == ASSUME LoginInv, RequestsOK, RealmSideLost PROVE RequestsOK'
<1> DEFINE r == [link[mine] EXCEPT !.realm = "gone", !.down = <<>>]
<1>1. mine # 0 /\ mine \in DOMAIN link /\ link[mine] \in Link
  BY MineIsLink DEF RealmSideLost
<1>2. link' = [link EXCEPT ![mine] = r] /\ mine' = 0 /\ orphaned' = pending /\ UNCHANGED pending
  BY DEF RealmSideLost
<1>3. r.up = link[mine].up
  BY <1>1 DEF Link
<1> HIDE DEF r
<1>4. DOMAIN link' = DOMAIN link /\ \A j \in DOMAIN link : link'[j].up = link[j].up
  BY <1>1, <1>2, <1>3, Facts DEF LinksOK
<1>5. ASSUME NEW j \in DOMAIN link, NEW a \in Account, Places(link[j].up, Asks(a)) # {}
      PROVE  a \in pending
  <2>1. CASE j = mine
    <3>1. Followed(link[mine], a, pending, orphaned) /\ ~Silent(link[mine], a)
      BY <1>1, <1>5, <2>1, InUse DEF Silent
    <3> QED BY <3>1 DEF Followed
  <2>2. CASE j # mine
    BY <1>5, <2>2 DEF RequestsOK
  <2> QED BY <2>1, <2>2
<1> QED BY <1>2, <1>4, <1>5 DEF RequestsOK

LEMMA AuthSessionRequests ==
  ASSUME LoginInv, RequestsOK, NEW i \in DOMAIN gate, AuthSession(i)
  PROVE  RequestsOK'
<1> DEFINE a == AccountOf[gate[i].client]
           l == link[mine]
<1>1. UNCHANGED <<mine, retry>> /\ a \in Account
  BY GuestIsGuest DEF AuthSession
<1>2. CASE mine = 0 \/ a \in pending
  <2>1. UNCHANGED <<link, pending, orphaned>>
    BY <1>2 DEF AuthSession
  <2> QED BY <1>1, <2>1, RequestsUntouched
<1>3. CASE ~(mine = 0 \/ a \in pending)
  <2>1. pending' = pending \union {a} /\ Asked(a)
    BY <1>3 DEF AuthSession
  <2>2. mine # 0 /\ mine \in DOMAIN link /\ l \in Link /\ EndOK(l)
        /\ \A b \in Account : Followed(l, b, pending, orphaned)
    BY <1>3, MineIsLink, InUse
  <2>3. a \notin orphaned /\ orphaned \subseteq pending
    BY <1>3 DEF RequestsOK
  <2>4. Silent(l, a)
    BY <1>1, <1>3, <2>2 DEF Followed
  <2>5. ASSUME NEW r, link' = [link EXCEPT ![mine] = r], r.realm = l.realm, EndOK(r), orphaned \subseteq orphaned',
               orphaned' \subseteq orphaned \union {a}, \A b \in Account : Followed(r, b, pending', orphaned')
        PROVE  RequestsOK'
    <3>1. orphaned' \subseteq pending'
      BY <2>1, <2>3, <2>5
    <3> QED BY <1>1, <2>2, <2>5, <3>1, OneLinkMoves
  <2>6. CASE l.realm \in {"connecting", "up"} /\ ~l.cut
    <3> DEFINE m == [type |-> "playerLogin", account |-> a]
               r == [l EXCEPT !.up = Append(@, m)]
    <3>1. link' = [link EXCEPT ![mine] = r] /\ orphaned' = orphaned
      BY <2>1, <2>2, <2>6 DEF Asked
    <3>2. r.realm = l.realm /\ r.login = l.login /\ r.cut = l.cut /\ r.down = l.down /\ r.up = Append(l.up, m)
      BY <2>2 DEF Link
    <3> HIDE DEF r
    <3>3. EndOK(r)
      BY <2>2, <2>6, <3>2 DEF EndOK
    <3>4. m \in ToLoginServer /\ m \in Asks(a) /\ \A b : m \in Asks(b) => b = a
      BY <1>1 DEF ToLoginServer, Asks
    <3> HIDE DEF m
    <3>5. ASSUME NEW b \in Account PROVE Followed(r, b, pending', orphaned')
      <4>1. CASE b = a
        <5>1. Busy(r, a)
          <6>1. Alone(Places(r.up, Asks(a)))
            BY <2>2, <2>4, <3>2, <3>4, LinkParts, PlacesAppend DEF Silent
          <6> QED BY <2>4, <3>2, <6>1 DEF Silent, Busy
        <5>2. a \in pending' \ orphaned'
          BY <2>1, <2>3, <3>1
        <5> QED BY <4>1, <5>1, <5>2 DEF Followed
      <4>2. CASE b # a
        <5>1. Places(r.up, Asks(b)) = Places(l.up, Asks(b))
          BY <2>2, <3>2, <3>4, <4>2, LinkParts, PlacesAppend
        <5>2. Followed(r, b, pending, orphaned)
          BY <2>2, <3>2, <5>1, FollowedSame
        <5>3. b \in pending' \ orphaned' <=> b \in pending \ orphaned
          BY <2>1, <3>1, <4>2
        <5> QED BY <5>2, <5>3 DEF Followed
      <4> QED BY <4>1, <4>2
    <3> QED BY <2>5, <3>1, <3>2, <3>3, <3>5
  <2>7. CASE ~(l.realm \in {"connecting", "up"} /\ ~l.cut)
    <3>1. link' = link /\ (orphaned' = orphaned \union {a} \/ (orphaned' = orphaned /\ l.cut))
      <4>1. CASE l.realm = "failed"
        BY <2>1, <4>1 DEF Asked
      <4>2. CASE l.realm # "failed"
        <5>1. l.realm \in {"connecting", "up"} /\ l.cut
          BY <2>2, <2>7, <4>2 DEF EndOK, Link
        <5>2. UNCHANGED <<link, orphaned>>
          BY <2>1, <5>1 DEF Asked
        <5> QED BY <5>1, <5>2
      <4> QED BY <4>1, <4>2
    <3>2. link' = [link EXCEPT ![mine] = l]
      BY <3>1, Facts DEF LinksOK
    <3>3. ASSUME NEW b \in Account PROVE Followed(l, b, pending', orphaned')
      <4>1. CASE b = a
        <5>1. a \in orphaned' \/ l.cut
          BY <3>1
        <5> QED BY <2>4, <4>1, <5>1 DEF Followed
      <4>2. CASE b # a
        <5>1. b \in pending' \ orphaned' <=> b \in pending \ orphaned
          BY <2>1, <3>1, <4>2
        <5> QED BY <2>2, <5>1 DEF Followed
      <4> QED BY <4>1, <4>2
    <3>4. orphaned \subseteq orphaned' /\ orphaned' \subseteq orphaned \union {a}
      BY <3>1
    <3> HIDE DEF l
    <3> QED BY <2>2, <2>5, <3>2, <3>3, <3>4
  <2> QED BY <2>6, <2>7
<1> QED BY <1>2, <1>3

LEMMA RealmHandlesRequests == ASSUME LoginInv, RequestsOK, RealmHandles PROVE RequestsOK'
<1> DEFINE l == link[mine]
           h == Head(link[mine].down)
           r == [link[mine] EXCEPT !.down = Tail(@)]
<1>1. mine # 0 /\ l.realm = "up" /\ l.down # <<>> /\ UNCHANGED <<mine, retry>>
  BY DEF RealmHandles
<1>2. mine \in DOMAIN link /\ l \in Link /\ EndOK(l) /\ \A a \in Account : Followed(l, a, pending, orphaned)
  BY <1>1, MineIsLink, InUse
<1>3. link' = [link EXCEPT ![mine] = r]
  BY <1>2 DEF RealmHandles
<1>4. r.realm = "up" /\ r.cut = l.cut /\ r.up = l.up /\ r.down = Tail(l.down)
  BY <1>1, <1>2 DEF Link
<1> HIDE DEF r
<1>5. h \in ToRealm
  BY <1>1, <1>2, LinkParts, HeadTailProperties
<1>6. EndOK(r)
  BY <1>4 DEF EndOK
<1>7. CASE HandleLoginResult
  <2>1. h.type = "loginResult" /\ UNCHANGED <<pending, orphaned>>
    BY <1>7 DEF HandleLoginResult
  <2>2. \A a : h \notin Answers(a)
    BY <1>5, <2>1, AnswersOf
  <2>3. orphaned' \subseteq pending' /\ orphaned \subseteq orphaned'
    BY <2>1 DEF RequestsOK
  <2> HIDE DEF l
  <2>4. \A a \in Account : Followed(r, a, pending', orphaned')
    BY <1>1, <1>2, <1>4, <2>1, <2>2, FollowedTaken DEF l
  <2> QED BY <1>1, <1>2, <1>3, <1>4, <1>6, <2>1, <2>3, <2>4, OneLinkMoves DEF l
<1>8. CASE HandleSuccess \/ HandleFailure
  <2> DEFINE a == h.account
  <2>1. h.type \in {"success", "failure"} /\ pending' = pending \ {a} /\ orphaned' = orphaned \ {a}
    BY <1>8 DEF HandleSuccess, HandleFailure, RequestsWithout
  <2>2. a \in Account
    BY <1>5, <2>1 DEF ToRealm
  <2>3. h \in Answers(a) /\ \A b : b # a => h \notin Answers(b)
    BY <1>5, <2>1, AnswersOf
  <2> HIDE DEF a, h, l
  <2>4. a \in pending \ orphaned /\ Silent(r, a)
    BY <1>1, <1>2, <1>4, <2>2, <2>3, FollowedTaken DEF l, h
  <2>5. ASSUME NEW b \in Account PROVE Followed(r, b, pending', orphaned')
    <3>1. CASE b = a
      BY <2>1, <2>4, <3>1 DEF Followed
    <3>2. CASE b # a
      <4>1. Followed(r, b, pending, orphaned)
        BY <1>1, <1>2, <1>4, <2>3, <3>2, FollowedTaken DEF l, h
      <4>2. b \in pending' \ orphaned' <=> b \in pending \ orphaned
        BY <2>1, <3>2
      <4> QED BY <4>1, <4>2 DEF Followed
    <3> QED BY <3>1, <3>2
  <2>6. orphaned' \subseteq pending' /\ orphaned \subseteq orphaned'
    BY <2>1, <2>4 DEF RequestsOK
  <2> QED BY <1>1, <1>2, <1>3, <1>4, <1>6, <2>5, <2>6, OneLinkMoves DEF l
<1> QED BY <1>7, <1>8 DEF RealmHandles

LEMMA RequestsStep == ASSUME LoginInv, RequestsOK, LoginNext PROVE RequestsOK'
<1>1. CASE Lobby
  BY <1>1, LobbyGateRequests
<1>2. CASE Gate
  BY <1>2, LobbyGateRequests, AuthSessionRequests DEF Gate
<1>3. CASE Links
  BY <1>3, CutRequests, LoginSideRequests DEF Links
<1>4. CASE TryConnect \/ Connects
  BY <1>4, TryConnectRequests, EstablishedRequests, ConnectFailsRequests DEF Connects
<1>5. CASE RealmSideLost \/ RealmHandles
  BY <1>5, RealmSideLostRequests, RealmHandlesRequests
<1>6. CASE \E k \in DOMAIN link : LoginHandles(k)
  BY <1>6, LoginHandlesRequests
<1> QED BY <1>1, <1>2, <1>3, <1>4, <1>5, <1>6 DEF LoginNext

LEMMA RequestsStart == ASSUME LoginInit PROVE RequestsOK
<1>1. link = <<NewLink>> /\ mine = 1 /\ pending = {} /\ orphaned = {} /\ ~retry
  BY DEF LoginInit
<1>2. DOMAIN link = {1} /\ link[1] = NewLink
  BY <1>1
<1>3. NewLink.up = <<>> /\ NewLink.down = <<>> /\ EndOK(NewLink)
  BY DEF NewLink, EndOK
<1>4. \A a \in Account : Followed(NewLink, a, pending, orphaned)
  BY <1>1, <1>3, SilentLink DEF Followed
<1> QED BY <1>1, <1>2, <1>3, <1>4 DEF RequestsOK

LEMMA RequestsAreAsked == ASSUME LoginInv, RequestsOK PROVE PendingIsAsked
<1> SUFFICES ASSUME mine # 0, ~link[mine].cut, NEW a \in Account, a \notin orphaned
             PROVE  UnderWay(a) = IF a \in pending THEN 1 ELSE 0
  BY DEF PendingIsAsked
<1> DEFINE l == link[mine]
<1>1. l \in Link /\ Followed(l, a, pending, orphaned)
  BY MineIsLink, InUse
<1>2. QuestionsOf(a) = Places(l.up, Asks(a))
  BY DEF QuestionsOf, Places, Asks
<1>3. AnswersTo(a) = Places(l.down, Answers(a))
  <2>1. \A n \in DOMAIN l.down : l.down[n] \in ToRealm
    BY <1>1, LinkParts, ElementOfSeq, LenProperties
  <2> QED BY <2>1, AnswersOf DEF AnswersTo, Places
<1>4. \A S : (S = {} => Cardinality(S) = 0) /\ (Alone(S) => Cardinality(S) = 1)
  BY FS_EmptySet, FS_Singleton DEF Alone
<1>5. CASE a \in pending
  <2>1. Busy(l, a)
    BY <1>1, <1>5 DEF Followed
  <2> HIDE DEF l
  <2>2. UnderWay(a) = 1
    BY <1>2, <1>3, <1>4, <2>1 DEF Busy, UnderWay
  <2> QED BY <1>5, <2>2
<1>6. CASE a \notin pending
  <2>1. Silent(l, a)
    BY <1>1, <1>6 DEF Followed
  <2> HIDE DEF l
  <2>2. UnderWay(a) = 0
    BY <1>2, <1>3, <1>4, <2>1 DEF Silent, UnderWay
  <2> QED BY <1>6, <2>2
<1> QED BY <1>5, <1>6

(* On a working link a request is pending exactly while its question or its
   answer is under way, and only one of them (LoginConnector::playerLoginRequest,
   Realm::handlePlayerLogin): for any accounts, and however often the link
   breaks and is made again. *)
THEOREM RequestsAreFollowed == LoginSpec => []PendingIsAsked
<1>1. LoginInit => LoginInv /\ RequestsOK
  BY LoginStarts, RequestsStart
<1>2. (LoginInv /\ RequestsOK) /\ [LoginNext]_loginVars => (LoginInv /\ RequestsOK)'
  <2>1. ASSUME LoginInv, RequestsOK, UNCHANGED loginVars PROVE LoginInv' /\ RequestsOK'
    BY <2>1, LoginStays, RequestsUntouched DEF loginVars
  <2> QED BY <2>1, LoginStepKeeps, RequestsStep
<1>3. LoginInv /\ RequestsOK => PendingIsAsked
  BY RequestsAreAsked
<1> QED BY <1>1, <1>2, <1>3, PTL DEF LoginSpec

HIDE LoginAssumption

-----------------------------------------------------------------------------
(* Social *)
USE SocialAssumption

\* How the table calls c in the list of o.
Stored(R, o, c) == {f \in (SUBSET Flag) \ {{}} : RowFor(o, c, f) \in R}

\* A write of the entry of c that waits for the database thread, and one whose
\* answer waits for the event loop.
WriteOf(t, c) == t.op # "find" /\ t.contact = c
WrittenOf(a, c) == a.op = "written" /\ a.contact = c
NoWrite(w, c) == \A n \in DOMAIN w : ~WriteOf(w[n], c)
NoWritten(a, c) == \A n \in DOMAIN a : ~WrittenOf(a[n], c)

\* A write of the row of o and c.
RowWrite(t, o, c) == t.op \in {"insert", "update"} /\ t.owner = o /\ t.contact = c

\* Whoever has c in the list: S, the rows, is one at most; there is one write
\* of it, and none to be inserted beside another.
Orderly(w, S, o, c) ==
  /\ \A m, n \in DOMAIN w : RowWrite(w[m], o, c) /\ RowWrite(w[n], o, c) => m = n
  /\ \A n \in DOMAIN w : RowWrite(w[n], o, c) /\ w[n].op = "insert" => S = {}
  /\ \A f, g \in S : f = g

\* The list says f, the table S.
Match(S, f) == S = {f} \ {{}} \/ (f = {"Friend"} /\ S = {Flag})
\* When t is done, the table, which says S, will say what the list of o says, f.
Pending(t, S, f, o) ==
  \/ t.op = "delete" /\ f = {}
  \/ t.op = "insert" /\ t.owner = o /\ t.alive /\ f = {"Ignored"} /\ S = {}
  \/ t.op = "update" /\ t.owner = o /\ t.alive /\ f = Flag /\ S # {} /\ \A g, h \in S : g = h

\* The character in the world is o and is shown f of c: one write at most is
\* under way, and it is one that o has asked for, or the removal of c.
Known(w, a, S, f, o, c) ==
  /\ \A m, n \in DOMAIN w : WriteOf(w[m], c) /\ WriteOf(w[n], c) => m = n
  /\ \A m, n \in DOMAIN a : WrittenOf(a[m], c) /\ WrittenOf(a[n], c) => m = n
  /\ NoWrite(w, c) \/ NoWritten(a, c)
  /\ NoWrite(w, c) => Match(S, f)
  /\ \A n \in DOMAIN w : WriteOf(w[n], c) => Pending(w[n], S, f, o)
  /\ \A n \in DOMAIN a : WrittenOf(a[n], c) => a[n].ok /\ a[n].alive /\ "Ignored" \in f

\* The node ignores nobody else, and in the world it ignores c when no write
\* is under way.
Heard(p, w, a, N, f, c) ==
  /\ c \in N => "Ignored" \in f
  /\ p = "in" /\ NoWrite(w, c) /\ NoWritten(a, c) /\ "Ignored" \in f => c \in N

RowsOrderly ==
  \A o \in Own, c \in Contact : <<o, c>> \notin torn => Orderly(work, Stored(rows, o, c), o, c)
ListKnown ==
  place # "out" =>
    \A c \in Contact : <<who, c>> \notin torn =>
      Known(work, answers, Stored(rows, who, c), contacts[c], who, c)
NodeHears ==
  /\ ~HasNode => node = {}
  /\ HasNode => \A c \in Contact \ deleted : <<who, c>> \notin torn =>
       Heard(place, work, answers, node, contacts[c], c)
DeletedFirst == \A n \in DOMAIN work : work[n].op = "delete" => work[n].contact \in deleted

SocialInv == SocialTypeOK /\ DeletedFirst /\ RowsOrderly /\ ListKnown /\ NodeHears

-----------------------------------------------------------------------------
(* Sequences. *)

LEMMA Appended ==
  ASSUME NEW S, NEW s \in Seq(S), NEW t \in S
  PROVE  /\ Append(s, t) \in Seq(S) /\ Append(s, t)[Len(s) + 1] = t
         /\ DOMAIN Append(s, t) = DOMAIN s \union {Len(s) + 1} /\ Len(s) + 1 \notin DOMAIN s
         /\ \A n \in DOMAIN s : Append(s, t)[n] = s[n]
<1>1. DOMAIN s = 1 .. Len(s) /\ Len(s) \in Nat
  BY LenProperties
<1>2. PICK k \in Nat : Len(s) = k
  BY <1>1
<1>3. DOMAIN Append(s, t) = 1 .. k + 1
  BY <1>2, AppendProperties, LenProperties
<1> QED
  BY <1>1, <1>2, <1>3, AppendProperties

LEMMA Tailed ==
  ASSUME NEW S, NEW s \in Seq(S), s # <<>>
  PROVE  /\ Tail(s) \in Seq(S) /\ Head(s) \in S /\ 1 \in DOMAIN s /\ s[1] = Head(s)
         /\ \A n \in DOMAIN Tail(s) : n \in Nat /\ n + 1 \in DOMAIN s /\ n + 1 # 1 /\ Tail(s)[n] = s[n + 1]
         /\ \A n \in DOMAIN s : n # 1 => n - 1 \in DOMAIN Tail(s) /\ Tail(s)[n - 1] = s[n]
<1>1. DOMAIN s = 1 .. Len(s) /\ Len(s) \in Nat
  BY LenProperties
<1>2. PICK k \in Nat : Len(s) = k
  BY <1>1
<1>3. k > 0
  BY <1>2, EmptySeq
<1>4. Tail(s) \in Seq(S) /\ Len(Tail(s)) = k - 1 /\ Head(s) = s[1] /\ Head(s) \in S
  BY <1>2, HeadTailProperties
<1>5. DOMAIN Tail(s) = 1 .. k - 1
  BY <1>4, LenProperties
<1>6. \A n \in 1 .. k - 1 : Tail(s)[n] = s[n + 1]
  BY <1>2, <1>3, HeadTailProperties
<1>7. \A n \in 1 .. k : n # 1 => n - 1 \in 1 .. k - 1 /\ (n - 1) + 1 = n
  OBVIOUS
<1> QED
  BY <1>1, <1>2, <1>3, <1>4, <1>5, <1>6, <1>7

LEMMA NoWriteAppended ==
  ASSUME NEW w \in Seq(Task), NEW t \in Task, NEW c
  PROVE  NoWrite(Append(w, t), c) <=> NoWrite(w, c) /\ ~WriteOf(t, c)
  BY Appended DEF NoWrite

LEMMA NoWrittenAppended ==
  ASSUME NEW a \in Seq(Answer), NEW t \in Answer, NEW c
  PROVE  NoWritten(Append(a, t), c) <=> NoWritten(a, c) /\ ~WrittenOf(t, c)
  BY Appended DEF NoWritten

LEMMA NoWriteTail ==
  ASSUME NEW w \in Seq(Task), w # <<>>, NEW c
  PROVE  NoWrite(w, c) <=> NoWrite(Tail(w), c) /\ ~WriteOf(Head(w), c)
<1>1. ASSUME NEW n \in DOMAIN w, ~WriteOf(Head(w), c), NoWrite(Tail(w), c) PROVE ~WriteOf(w[n], c)
  <2>1. CASE n = 1
    BY <1>1, <2>1, Tailed
  <2>2. CASE n # 1
    BY <1>1, <2>2, Tailed DEF NoWrite
  <2> QED
    BY <2>1, <2>2
<1> QED
  BY <1>1, Tailed DEF NoWrite

LEMMA NoWrittenTail ==
  ASSUME NEW a \in Seq(Answer), a # <<>>, NEW c
  PROVE  NoWritten(a, c) <=> NoWritten(Tail(a), c) /\ ~WrittenOf(Head(a), c)
<1>1. ASSUME NEW n \in DOMAIN a, ~WrittenOf(Head(a), c), NoWritten(Tail(a), c) PROVE ~WrittenOf(a[n], c)
  <2>1. CASE n = 1
    BY <1>1, <2>1, Tailed
  <2>2. CASE n # 1
    BY <1>1, <2>2, Tailed DEF NoWritten
  <2> QED
    BY <2>1, <2>2
<1> QED
  BY <1>1, Tailed DEF NoWritten

-----------------------------------------------------------------------------
(* What is known of a contact, as requests and answers come and go. *)

LEMMA KnownQuiet ==
  ASSUME NEW w \in Seq(Task), NEW a \in Seq(Answer), NEW S, NEW f, NEW o, NEW c,
         NoWrite(w, c), NoWritten(a, c), Match(S, f)
  PROVE  Known(w, a, S, f, o, c)
  BY DEF Known, NoWrite, NoWritten

LEMMA KnownUnrelated ==
  ASSUME NEW w \in Seq(Task), NEW a \in Seq(Answer), NEW S, NEW f, NEW o, NEW c, NEW t \in Task,
         Known(w, a, S, f, o, c), ~WriteOf(t, c)
  PROVE  Known(Append(w, t), a, S, f, o, c)
<1>1. \A n \in DOMAIN Append(w, t) : WriteOf(Append(w, t)[n], c) => n \in DOMAIN w /\ Append(w, t)[n] = w[n]
  BY Appended
<1> QED
  BY <1>1, NoWriteAppended DEF Known

LEMMA KnownAsked ==
  ASSUME NEW w \in Seq(Task), NEW a \in Seq(Answer), NEW S, NEW f, NEW o, NEW c, NEW t \in Task,
         NoWrite(w, c), NoWritten(a, c), WriteOf(t, c), Pending(t, S, f, o)
  PROVE  Known(Append(w, t), a, S, f, o, c)
<1>1. \A n \in DOMAIN Append(w, t) : WriteOf(Append(w, t)[n], c) => n = Len(w) + 1 /\ Append(w, t)[n] = t
  BY Appended DEF NoWrite
<1> QED
  BY <1>1, NoWriteAppended DEF Known, NoWritten

LEMMA KnownFound ==
  ASSUME NEW w \in Seq(Task), NEW a \in Seq(Answer), NEW S, NEW f, NEW o, NEW c, NEW t \in Answer,
         Known(w, a, S, f, o, c), ~WrittenOf(t, c)
  PROVE  Known(w, Append(a, t), S, f, o, c)
<1>1. \A n \in DOMAIN Append(a, t) : WrittenOf(Append(a, t)[n], c) => n \in DOMAIN a /\ Append(a, t)[n] = a[n]
  BY Appended
<1> QED
  BY <1>1, NoWrittenAppended DEF Known

LEMMA KnownWritten ==
  ASSUME NEW w \in Seq(Task), NEW a \in Seq(Answer), NEW S, NEW f, NEW o, NEW c, NEW t \in Answer,
         NoWrite(w, c), NoWritten(a, c), Match(S, f), t.ok, t.alive, "Ignored" \in f
  PROVE  Known(w, Append(a, t), S, f, o, c)
<1>1. \A n \in DOMAIN Append(a, t) : WrittenOf(Append(a, t)[n], c) => n = Len(a) + 1 /\ Append(a, t)[n] = t
  BY Appended DEF NoWritten
<1> QED
  BY <1>1 DEF Known, NoWrite

LEMMA KnownNext ==
  ASSUME NEW w \in Seq(Task), w # <<>>, NEW a \in Seq(Answer), NEW S, NEW f, NEW o, NEW c,
         Known(w, a, S, f, o, c)
  PROVE  /\ ~WriteOf(Head(w), c) => Known(Tail(w), a, S, f, o, c)
         /\ WriteOf(Head(w), c) => NoWrite(Tail(w), c) /\ NoWritten(a, c) /\ Pending(Head(w), S, f, o)
<1>1. \A n \in DOMAIN Tail(w) : n \in Nat /\ n + 1 \in DOMAIN w /\ n + 1 # 1 /\ Tail(w)[n] = w[n + 1]
  BY Tailed
<1>2. 1 \in DOMAIN w /\ w[1] = Head(w)
  BY Tailed
<1>3. ASSUME ~WriteOf(Head(w), c) PROVE Known(Tail(w), a, S, f, o, c)
  <2>1. ASSUME NEW m \in DOMAIN Tail(w), NEW n \in DOMAIN Tail(w), WriteOf(Tail(w)[m], c), WriteOf(Tail(w)[n], c)
        PROVE  m = n
    <3>1. m + 1 = n + 1
      BY <1>1, <2>1 DEF Known
    <3> QED
      BY <1>1, <3>1
  <2>2. \A n \in DOMAIN Tail(w) : WriteOf(Tail(w)[n], c) => Pending(Tail(w)[n], S, f, o)
    BY <1>1 DEF Known
  <2> QED
    BY <1>3, <2>1, <2>2, NoWriteTail DEF Known
<1>4. ASSUME WriteOf(Head(w), c) PROVE NoWrite(Tail(w), c) /\ NoWritten(a, c) /\ Pending(Head(w), S, f, o)
  <2>1. \A n \in DOMAIN w : WriteOf(w[n], c) => n = 1
    BY <1>2, <1>4 DEF Known
  <2>2. NoWrite(Tail(w), c)
    BY <1>1, <2>1 DEF NoWrite
  <2>3. ~NoWrite(w, c)
    BY <1>2, <1>4 DEF NoWrite
  <2> QED
    BY <1>2, <1>4, <2>2, <2>3 DEF Known
<1> QED
  BY <1>3, <1>4

LEMMA KnownAnswered ==
  ASSUME NEW w \in Seq(Task), NEW a \in Seq(Answer), a # <<>>, NEW S, NEW f, NEW o, NEW c,
         Known(w, a, S, f, o, c)
  PROVE  /\ Known(w, Tail(a), S, f, o, c)
         /\ WrittenOf(Head(a), c) => NoWrite(w, c) /\ Head(a).ok /\ Head(a).alive /\ "Ignored" \in f
<1>1. \A n \in DOMAIN Tail(a) : n \in Nat /\ n + 1 \in DOMAIN a /\ Tail(a)[n] = a[n + 1]
  BY Tailed
<1>2. 1 \in DOMAIN a /\ a[1] = Head(a)
  BY Tailed
<1>3. ASSUME NEW m \in DOMAIN Tail(a), NEW n \in DOMAIN Tail(a), WrittenOf(Tail(a)[m], c), WrittenOf(Tail(a)[n], c)
      PROVE  m = n
  <2>1. m + 1 = n + 1
    BY <1>1, <1>3 DEF Known
  <2> QED
    BY <1>1, <2>1
<1>4. \A n \in DOMAIN Tail(a) : WrittenOf(Tail(a)[n], c) => Tail(a)[n].ok /\ Tail(a)[n].alive /\ "Ignored" \in f
  BY <1>1 DEF Known
<1>5. NoWritten(a, c) => NoWritten(Tail(a), c)
  BY NoWrittenTail
<1>6. WrittenOf(Head(a), c) => NoWrite(w, c) /\ Head(a).ok /\ Head(a).alive /\ "Ignored" \in f
  BY <1>2 DEF Known, NoWritten
<1> QED
  BY <1>3, <1>4, <1>5, <1>6 DEF Known

LEMMA OrderlyAsked ==
  ASSUME NEW w \in Seq(Task), NEW S, NEW o, NEW c, NEW t \in Task, Orderly(w, S, o, c), ~RowWrite(t, o, c)
  PROVE  Orderly(Append(w, t), S, o, c)
<1>1. \A n \in DOMAIN Append(w, t) : RowWrite(Append(w, t)[n], o, c) => n \in DOMAIN w /\ Append(w, t)[n] = w[n]
  BY Appended
<1> QED
  BY <1>1 DEF Orderly

LEMMA OrderlyWrite ==
  ASSUME NEW w \in Seq(Task), NEW S, NEW o, NEW c, NEW t \in Task, Orderly(w, S, o, c),
         NoWrite(w, c), t.op = "insert" => S = {}
  PROVE  Orderly(Append(w, t), S, o, c)
<1>1. \A n \in DOMAIN w : ~RowWrite(w[n], o, c)
  BY DEF NoWrite, WriteOf, RowWrite
<1>2. \A n \in DOMAIN Append(w, t) : RowWrite(Append(w, t)[n], o, c) => n = Len(w) + 1 /\ Append(w, t)[n] = t
  BY <1>1, Appended
<1> QED
  BY <1>2 DEF Orderly

LEMMA OrderlyNext ==
  ASSUME NEW w \in Seq(Task), w # <<>>, NEW S, NEW o, NEW c, Orderly(w, S, o, c)
  PROVE  /\ Orderly(Tail(w), S, o, c)
         /\ RowWrite(Head(w), o, c) => \A n \in DOMAIN Tail(w) : ~RowWrite(Tail(w)[n], o, c)
         /\ RowWrite(Head(w), o, c) /\ Head(w).op = "insert" => S = {}
<1>1. \A n \in DOMAIN Tail(w) : n \in Nat /\ n + 1 \in DOMAIN w /\ n + 1 # 1 /\ Tail(w)[n] = w[n + 1]
  BY Tailed
<1>2. 1 \in DOMAIN w /\ w[1] = Head(w)
  BY Tailed
<1>3. ASSUME NEW m \in DOMAIN Tail(w), NEW n \in DOMAIN Tail(w), RowWrite(Tail(w)[m], o, c), RowWrite(Tail(w)[n], o, c)
      PROVE  m = n
  <2>1. m + 1 = n + 1
    BY <1>1, <1>3 DEF Orderly
  <2> QED
    BY <1>1, <2>1
<1>4. \A n \in DOMAIN Tail(w) : RowWrite(Tail(w)[n], o, c) /\ Tail(w)[n].op = "insert" => S = {}
  BY <1>1 DEF Orderly
<1>5. RowWrite(Head(w), o, c) => \A n \in DOMAIN Tail(w) : ~RowWrite(Tail(w)[n], o, c)
  BY <1>1, <1>2 DEF Orderly
<1>6. RowWrite(Head(w), o, c) /\ Head(w).op = "insert" => S = {}
  BY <1>2 DEF Orderly
<1> QED
  BY <1>3, <1>4, <1>5, <1>6 DEF Orderly

(* Another table S2 with fewer rows, or with one row and no write of it. *)
LEMMA OrderlyFewer ==
  ASSUME NEW w, NEW S, NEW S2, NEW o, NEW c, Orderly(w, S, o, c), S2 \subseteq S
  PROVE  Orderly(w, S2, o, c)
  BY DEF Orderly

LEMMA OrderlyQuiet ==
  ASSUME NEW w, NEW S, NEW o, NEW c, \A n \in DOMAIN w : ~RowWrite(w[n], o, c), \A f, g \in S : f = g
  PROVE  Orderly(w, S, o, c)
  BY DEF Orderly
-----------------------------------------------------------------------------
(* The table. *)

LEMMA RowForIsRow ==
  ASSUME NEW o \in Own \union {NoOne}, NEW c \in Contact, NEW f \in (SUBSET Flag) \ {{}}
  PROVE  RowFor(o, c, f) \in Row
  BY DEF RowFor, Row

LEMMA RowParts ==
  ASSUME NEW r \in Row
  PROVE  r = RowFor(r.owner, r.contact, r.flags) /\ r.flags \in (SUBSET Flag) \ {{}}
  BY DEF RowFor, Row

LEMMA RowForParts ==
  ASSUME NEW o, NEW c, NEW f
  PROVE  RowFor(o, c, f).owner = o /\ RowFor(o, c, f).contact = c /\ RowFor(o, c, f).flags = f
  BY DEF RowFor

LEMMA StoredInserted ==
  ASSUME NEW R, NEW o, NEW c, NEW f \in (SUBSET Flag) \ {{}}
  PROVE  Stored(R \union {RowFor(o, c, f)}, o, c) = Stored(R, o, c) \union {f}
<1>1. \A g : RowFor(o, c, g) = RowFor(o, c, f) <=> g = f
  BY RowForParts
<1> QED
  BY <1>1 DEF Stored

LEMMA StoredBeside ==
  ASSUME NEW R, NEW o, NEW c, NEW f, NEW p, NEW d, p # o \/ d # c
  PROVE  Stored(R \union {RowFor(o, c, f)}, p, d) = Stored(R, p, d)
<1>1. \A g : RowFor(p, d, g) # RowFor(o, c, f)
  BY RowForParts
<1> QED
  BY <1>1 DEF Stored

LEMMA StoredRows ==
  ASSUME rows \subseteq Row, NEW o, NEW c
  PROVE  /\ {r.flags : r \in RowsOf(o, c)} = Stored(rows, o, c)
         /\ RowsOf(o, c) = {RowFor(o, c, f) : f \in Stored(rows, o, c)}
<1>1. \A r \in RowsOf(o, c) : r.flags \in Stored(rows, o, c) /\ r = RowFor(o, c, r.flags)
  BY RowParts DEF RowsOf, Stored
<1>2. \A f \in Stored(rows, o, c) : RowFor(o, c, f) \in RowsOf(o, c) /\ RowFor(o, c, f).flags = f
  BY RowForParts DEF RowsOf, Stored
<1> QED
  BY <1>1, <1>2

LEMMA StoredRemoved ==
  ASSUME NEW o, NEW c
  PROVE  /\ Stored(Removed(o, c), o, c) = {}
         /\ \A p, d : p # o \/ d # c => Stored(Removed(o, c), p, d) = Stored(rows, p, d)
<1>1. \A p, d, g : RowFor(p, d, g) \in RowsOf(o, c) <=> p = o /\ d = c /\ RowFor(p, d, g) \in rows
  BY RowForParts DEF RowsOf
<1> QED
  BY <1>1 DEF Stored, Removed

LEMMA UpdateOfOne ==
  ASSUME rows \subseteq Row, NEW o, NEW c, \A f, g \in Stored(rows, o, c) : f = g
  PROVE  ~UpdateFails(o, c)
<1>1. CASE Stored(rows, o, c) = {}
  <2>1. RowsOf(o, c) = {}
    BY <1>1, StoredRows
  <2> QED
    BY <2>1, FS_EmptySet DEF UpdateFails
<1>2. CASE Stored(rows, o, c) # {}
  <2>1. PICK f : f \in Stored(rows, o, c)
    BY <1>2
  <2>2. RowsOf(o, c) = {RowFor(o, c, f)}
    BY <2>1, StoredRows
  <2>3. Cardinality({RowFor(o, c, f)}) = 1
    BY FS_Singleton
  <2> QED
    BY <2>2, <2>3 DEF UpdateFails
<1> QED
  BY <1>1, <1>2

LEMMA StoredUpdated ==
  ASSUME rows \subseteq Row, NEW o, NEW c, NEW f \in (SUBSET Flag) \ {{}}
  PROVE  /\ \A p, d : p # o \/ d # c => Stored(Updated(o, c, f), p, d) = Stored(rows, p, d)
         /\ (\A g, h \in Stored(rows, o, c) : g = h) =>
              Stored(Updated(o, c, f), o, c) = IF Stored(rows, o, c) = {} THEN {} ELSE {f}
<1>1. CASE UpdateFails(o, c) \/ RowsOf(o, c) = {}
  <2>1. Updated(o, c, f) = rows
    BY <1>1 DEF Updated
  <2>2. (\A g, h \in Stored(rows, o, c) : g = h) => RowsOf(o, c) = {}
    BY <1>1, UpdateOfOne
  <2>3. RowsOf(o, c) = {} => Stored(rows, o, c) = {}
    BY StoredRows
  <2> QED
    BY <2>1, <2>2, <2>3
<1>2. CASE ~(UpdateFails(o, c) \/ RowsOf(o, c) = {})
  <2>1. Updated(o, c, f) = Removed(o, c) \union {RowFor(o, c, f)}
    BY <1>2 DEF Updated, Removed
  <2>2. Stored(rows, o, c) # {}
    BY <1>2, StoredRows
  <2> DEFINE R == Removed(o, c)
  <2>3. /\ Stored(R, o, c) = {}
        /\ \A p, d : p # o \/ d # c => Stored(R, p, d) = Stored(rows, p, d)
    BY StoredRemoved
  <2> HIDE DEF R
  <2>4. Stored(R \union {RowFor(o, c, f)}, o, c) = Stored(R, o, c) \union {f}
    BY StoredInserted
  <2>5. ASSUME NEW p, NEW d, p # o \/ d # c
        PROVE  Stored(R \union {RowFor(o, c, f)}, p, d) = Stored(R, p, d)
    BY <2>5, StoredBeside
  <2>6. Updated(o, c, f) = R \union {RowFor(o, c, f)}
    BY <2>1 DEF R
  <2>7. Stored(Updated(o, c, f), o, c) = {f}
    BY <2>3, <2>4, <2>6
  <2>8. ASSUME NEW p, NEW d, p # o \/ d # c
        PROVE  Stored(Updated(o, c, f), p, d) = Stored(rows, p, d)
    BY <2>3, <2>5, <2>6, <2>8
  <2> QED
    BY <2>2, <2>7, <2>8
<1> QED
  BY <1>1, <1>2

LEMMA UpdatedRows ==
  ASSUME rows \subseteq Row, NEW o \in Own \union {NoOne}, NEW c \in Contact, NEW f \in (SUBSET Flag) \ {{}}
  PROVE  Updated(o, c, f) \subseteq Row /\ Removed(o, c) \subseteq Row /\ Inserted(o, c, f) \subseteq Row
  BY RowForIsRow DEF Updated, Removed, Inserted, RowsOf

(* What WritesOf says of the entry of c. *)
LEMMA QuietContact ==
  ASSUME NEW c
  PROVE  WritesOf(c) = {} <=> NoWrite(work, c) /\ NoWritten(answers, c)
  BY DEF WritesOf, NoWrite, NoWritten, WriteOf, WrittenOf

LEMMA TornQuiet ==
  ASSUME NEW o, NEW c
  PROVE  /\ torn \subseteq TornBy(o, c)
         /\ <<o, c>> \notin TornBy(o, c) => NoWrite(work, c) /\ NoWritten(answers, c)
<1>1. WritesOf(c) # {} => <<o, c>> \in TornBy(o, c)
  BY DEF TornBy
<1> QED
  BY <1>1, QuietContact DEF TornBy

LEMMA TornType ==
  ASSUME SocialTypeOK, NEW c \in Contact
  PROVE  TornBy(who, c) \subseteq (Own \union {NoOne}) \X Contact
  BY DEF SocialTypeOK, TornBy


-----------------------------------------------------------------------------
(* The first state, and going in and out of the worlds. *)

LEMMA SocialStarts == ASSUME SocialInit PROVE SocialInv
<1> USE DEF SocialInit
<1>1. work = <<>> /\ answers = <<>> /\ <<>> \in Seq(Task) /\ <<>> \in Seq(Answer)
  BY EmptySeq
<1>2. DOMAIN work = {}
  BY <1>1
<1>3. SocialTypeOK
  BY <1>1 DEF SocialTypeOK, Nobody
<1>4. \A o, c : Stored(rows, o, c) = {}
  BY DEF Stored
<1>5. RowsOrderly
  BY <1>2, <1>4 DEF RowsOrderly, Orderly
<1>6. DeletedFirst /\ ListKnown /\ NodeHears
  BY <1>2 DEF DeletedFirst, ListKnown, NodeHears, HasNode
<1> QED
  BY <1>3, <1>5, <1>6 DEF SocialInv

LEMMA SocialStays == ASSUME SocialInv, UNCHANGED socialVars PROVE SocialInv'
  BY DEF SocialInv, socialVars, SocialTypeOK, DeletedFirst, RowsOrderly, ListKnown, NodeHears, HasNode

(* Each entry of a list of flags, whatever the table calls the contact. *)
LEMMA LoadedType == ASSUME NEW f PROVE LoadedFlags(f) \subseteq Flag
  BY DEF LoadedFlags, Flag

LEMMA LoadedMatches ==
  ASSUME rows \subseteq Row, NEW o, NEW c, \A f, g \in Stored(rows, o, c) : f = g
  PROVE  Match(Stored(rows, o, c), UNION {LoadedFlags(r.flags) : r \in RowsOf(o, c)})
<1> DEFINE L == UNION {LoadedFlags(r.flags) : r \in RowsOf(o, c)}
<1>1. L = UNION {LoadedFlags(f) : f \in Stored(rows, o, c)}
  <2>1. {r.flags : r \in RowsOf(o, c)} = Stored(rows, o, c)
    BY StoredRows
  <2> QED
    BY <2>1
<1>2. CASE Stored(rows, o, c) = {}
  BY <1>1, <1>2 DEF Match
<1>3. CASE Stored(rows, o, c) # {}
  <2>1. PICK f : Stored(rows, o, c) = {f}
    BY <1>3
  <2>2. f \in (SUBSET Flag) \ {{}}
    BY <2>1 DEF Stored
  <2>3. L = LoadedFlags(f)
    BY <1>1, <2>1
  <2>4. f = {"Friend"} \/ f = {"Ignored"} \/ f = Flag
    BY <2>2 DEF Flag
  <2>5. \/ LoadedFlags(f) = {"Friend"} /\ f \in {{"Friend"}, Flag}
        \/ LoadedFlags(f) = {"Ignored"} /\ f = {"Ignored"}
    BY <2>4 DEF LoadedFlags, Flag
  <2>6. {{"Friend"}} \ {{}} = {{"Friend"}} /\ {{"Ignored"}} \ {{}} = {{"Ignored"}}
    OBVIOUS
  <2> HIDE DEF L
  <2> QED
    BY <2>1, <2>3, <2>5, <2>6 DEF Match, L
<1> QED
  BY <1>2, <1>3

LEMMA PlayerLoginKeeps == ASSUME SocialInv, NEW x \in Own, PlayerLogin(x) PROVE SocialInv'
<1> USE DEF PlayerLogin
<1>1. SocialTypeOK
  BY DEF SocialInv
<1>2. \A c \in Contact : contacts'[c] = UNION {LoadedFlags(r.flags) : r \in RowsOf(x, c)}
  OBVIOUS
<1>3. contacts' \in [Contact -> SUBSET Flag]
  BY LoadedType
<1>4. SocialTypeOK'
  BY <1>1, <1>3 DEF SocialTypeOK
<1>5. DeletedFirst'
  BY DEF SocialInv, DeletedFirst
<1>6. RowsOrderly'
  BY DEF SocialInv, RowsOrderly
<1>7. ASSUME NEW c \in Contact, <<x, c>> \notin torn'
      PROVE  Known(work, answers, Stored(rows, x, c), contacts'[c], x, c)
  <2>1. WritesOf(c) = {} /\ <<x, c>> \notin torn
    BY <1>7
  <2>2. NoWrite(work, c) /\ NoWritten(answers, c)
    BY <2>1, QuietContact
  <2>3. \A f, g \in Stored(rows, x, c) : f = g
    BY <2>1 DEF SocialInv, RowsOrderly, Orderly
  <2>4. Match(Stored(rows, x, c), contacts'[c])
    BY <1>1, <1>2, <2>3, LoadedMatches DEF SocialTypeOK
  <2> QED
    BY <1>1, <2>2, <2>4, KnownQuiet DEF SocialTypeOK
<1>8. ListKnown'
  BY <1>7 DEF ListKnown
<1>9. NodeHears'
  BY DEF SocialInv, NodeHears, HasNode
<1> QED
  BY <1>4, <1>5, <1>6, <1>8, <1>9 DEF SocialInv

LEMMA WorldInstanceEnteredKeeps == ASSUME SocialInv, WorldInstanceEntered PROVE SocialInv'
<1> USE DEF WorldInstanceEntered
<1>1. SocialTypeOK'
  BY DEF SocialInv, SocialTypeOK, Ignored
<1>2. DeletedFirst' /\ RowsOrderly' /\ ListKnown'
  BY DEF SocialInv, DeletedFirst, RowsOrderly, ListKnown
<1>3. ASSUME NEW c \in Contact \ deleted, <<who, c>> \notin torn
      PROVE  Heard("in", work, answers, node', contacts[c], c)
  <2>1. c \in node => "Ignored" \in contacts[c]
    <3>1. CASE place = "entering"
      BY <3>1 DEF SocialInv, NodeHears, HasNode
    <3>2. CASE place = "arriving"
      BY <1>3, <3>2 DEF SocialInv, NodeHears, HasNode, Heard
    <3> QED
      BY <3>1, <3>2
  <2> QED
    BY <1>3, <2>1 DEF Heard, Ignored
<1>4. NodeHears'
  BY <1>3 DEF NodeHears, HasNode
<1> QED
  BY <1>1, <1>2, <1>4 DEF SocialInv

LEMMA LeavingKeeps ==
  ASSUME SocialInv, LeftForLogout \/ LeftForTeleport \/ MoveWorldPortAck
  PROVE  SocialInv'
<1> USE DEF LeftForLogout, LeftForTeleport, MoveWorldPortAck
<1>1. SocialTypeOK'
  BY DEF SocialInv, SocialTypeOK, Nobody
<1>2. DeletedFirst' /\ RowsOrderly'
  BY DEF SocialInv, DeletedFirst, RowsOrderly
<1>3. ListKnown'
  BY DEF SocialInv, ListKnown
<1>4. NodeHears'
  <2>1. CASE LeftForLogout \/ LeftForTeleport
    BY <2>1 DEF NodeHears, HasNode
  <2>2. CASE MoveWorldPortAck
    <3>1. node' = {} /\ place' = "arriving"
      BY <2>2 DEF SocialInv, NodeHears, HasNode
    <3> QED
      BY <3>1 DEF NodeHears, Heard, HasNode
  <2> QED
    BY <2>1, <2>2
<1> QED
  BY <1>1, <1>2, <1>3, <1>4 DEF SocialInv

LEMMA OrphanTask ==
  ASSUME NEW t \in Task, t.op # "delete"
  PROVE  /\ [t EXCEPT !.alive = FALSE] \in Task
         /\ [t EXCEPT !.alive = FALSE].op = t.op
         /\ [t EXCEPT !.alive = FALSE].contact = t.contact
         /\ t.op \in {"insert", "update"} => [t EXCEPT !.alive = FALSE].owner = t.owner
<1>1. CASE t.op = "find"
  <2>1. t \in [op : {"find"}, use : Flag, contact : Contact, alive : BOOLEAN]
    BY <1>1 DEF Task
  <2> QED
    BY <1>1, <2>1 DEF Task
<1>2. CASE t.op \in {"insert", "update"}
  <2>1. t \in [op : {"insert", "update"}, owner : Own \union {NoOne}, contact : Contact, alive : BOOLEAN]
    BY <1>2 DEF Task
  <2> QED
    BY <1>2, <2>1 DEF Task
<1> QED
  BY <1>1, <1>2 DEF Task

LEMMA OrphanAnswer ==
  ASSUME NEW t \in Answer
  PROVE  t.op # "delete" /\ [t EXCEPT !.alive = FALSE] \in Answer
<1>1. CASE t.op = "found"
  <2>1. t \in [op : {"found"}, use : Flag, contact : Contact, alive : BOOLEAN]
    BY <1>1 DEF Answer
  <2> QED
    BY <1>1, <2>1 DEF Answer
<1>2. CASE t.op = "written"
  <2>1. t \in [op : {"written"}, ok : BOOLEAN, contact : Contact, alive : BOOLEAN]
    BY <1>2 DEF Answer
  <2> QED
    BY <1>2, <2>1 DEF Answer
<1> QED
  BY <1>1, <1>2 DEF Answer

LEMMA OrphanSeq ==
  ASSUME NEW S, NEW s \in Seq(S), \A n \in DOMAIN s : Orphan(s)[n] \in S
  PROVE  Orphan(s) \in Seq(S)
<1>1. DOMAIN s = 1 .. Len(s) /\ Len(s) \in Nat
  BY LenProperties
<1>2. Orphan(s) \in [1 .. Len(s) -> S]
  <2>1. DOMAIN Orphan(s) = DOMAIN s /\ Orphan(s) = [n \in DOMAIN s |-> Orphan(s)[n]]
    BY DEF Orphan
  <2> QED
    BY <1>1, <2>1
<1> QED
  BY <1>1, <1>2, IsASeq

LEMMA ClientLostKeeps == ASSUME SocialInv, ClientLost PROVE SocialInv'
<1> USE DEF ClientLost
<1>1. SocialTypeOK
  BY DEF SocialInv
<1>2. work \in Seq(Task) /\ answers \in Seq(Answer)
  BY <1>1 DEF SocialTypeOK
<1>3. \A n \in DOMAIN work : work[n] \in Task
  BY <1>2, ElementOfSeq, LenProperties
<1>4. \A n \in DOMAIN answers : answers[n] \in Answer
  BY <1>2, ElementOfSeq, LenProperties
<1>5. \A n \in DOMAIN work :
        /\ Orphan(work)[n] \in Task /\ Orphan(work)[n].op = work[n].op
        /\ Orphan(work)[n].contact = work[n].contact
        /\ work[n].op \in {"insert", "update"} => Orphan(work)[n].owner = work[n].owner
  BY <1>3, OrphanTask DEF Orphan
<1>6. \A n \in DOMAIN answers : Orphan(answers)[n] \in Answer
  BY <1>4, OrphanAnswer DEF Orphan
<1>7. work' \in Seq(Task) /\ answers' \in Seq(Answer)
  BY <1>2, <1>5, <1>6, OrphanSeq
<1>8. DOMAIN work' = DOMAIN work
  BY DEF Orphan
<1>9. SocialTypeOK'
  BY <1>1, <1>7 DEF SocialTypeOK, Nobody
<1>10. DeletedFirst'
  BY <1>5, <1>8 DEF SocialInv, DeletedFirst
<1>11. ASSUME NEW o \in Own, NEW c \in Contact, <<o, c>> \notin torn
       PROVE  Orderly(work', Stored(rows, o, c), o, c)
  <2>1. Orderly(work, Stored(rows, o, c), o, c)
    BY <1>11 DEF SocialInv, RowsOrderly
  <2>2. \A n \in DOMAIN work : RowWrite(work'[n], o, c) => RowWrite(work[n], o, c) /\ work'[n].op = work[n].op
    BY <1>5 DEF RowWrite
  <2> QED
    BY <1>8, <2>1, <2>2 DEF Orderly
<1>12. RowsOrderly'
  BY <1>11 DEF RowsOrderly
<1>13. ListKnown' /\ NodeHears'
  BY DEF ListKnown, NodeHears, HasNode
<1> QED
  BY <1>9, <1>10, <1>12, <1>13 DEF SocialInv


-----------------------------------------------------------------------------
(* The packets of the client. *)

LEMMA InTheWorld ==
  ASSUME SocialInv, HasNode
  PROVE  /\ who \in Own /\ place # "out" /\ rows \subseteq Row /\ contacts \in [Contact -> SUBSET Flag]
         /\ work \in Seq(Task) /\ answers \in Seq(Answer)
  BY DEF SocialInv, SocialTypeOK, HasNode

(* What a settled contact is known as. *)
LEMMA SettledContact ==
  ASSUME SocialInv, place # "out", NEW c \in Contact, <<who, c>> \notin TornBy(who, c)
  PROVE  /\ who \in Own /\ <<who, c>> \notin torn /\ NoWrite(work, c) /\ NoWritten(answers, c)
         /\ Match(Stored(rows, who, c), contacts[c])
         /\ \A f, g \in Stored(rows, who, c) : f = g
<1>1. <<who, c>> \notin torn /\ NoWrite(work, c) /\ NoWritten(answers, c)
  BY TornQuiet
<1>2. who \in Own
  BY DEF SocialInv, SocialTypeOK
<1>3. Known(work, answers, Stored(rows, who, c), contacts[c], who, c)
  BY <1>1 DEF SocialInv, ListKnown
<1>4. Orderly(work, Stored(rows, who, c), who, c)
  BY <1>1, <1>2 DEF SocialInv, RowsOrderly
<1> QED
  BY <1>1, <1>2, <1>3, <1>4 DEF Known, Orderly

LEMMA NotAWriteOfQuiet ==
  ASSUME NEW w, NEW o, NEW c, NoWrite(w, c)
  PROVE  \A n \in DOMAIN w : ~RowWrite(w[n], o, c)
  BY DEF NoWrite, WriteOf, RowWrite

LEMMA AskForKeeps == ASSUME SocialInv, NEW use \in Flag, NEW c \in Contact, AskFor(use, c) PROVE SocialInv'
<1> DEFINE t == [op |-> "find", use |-> use, contact |-> c, alive |-> TRUE]
<1>1. t \in Task /\ work' = Append(work, t) /\ t.op = "find"
  BY DEF AskFor, Task
<1> HIDE DEF t
<1> USE DEF AskFor
<1>2. SocialTypeOK /\ work \in Seq(Task) /\ answers \in Seq(Answer)
  BY DEF SocialInv, SocialTypeOK
<1>3. SocialTypeOK'
  BY <1>1, <1>2, Appended DEF SocialTypeOK
<1>4. DeletedFirst'
  BY <1>1, <1>2, Appended DEF SocialInv, DeletedFirst
<1>5. \A d : ~WriteOf(t, d) /\ \A o : ~RowWrite(t, o, d)
  BY <1>1 DEF WriteOf, RowWrite
<1>6. RowsOrderly'
  BY <1>1, <1>2, <1>5, OrderlyAsked DEF SocialInv, RowsOrderly
<1>7. ListKnown'
  BY <1>1, <1>2, <1>5, KnownUnrelated DEF SocialInv, ListKnown
<1>8. \A d : NoWrite(work', d) <=> NoWrite(work, d)
  BY <1>1, <1>2, <1>5, NoWriteAppended
<1>9. NodeHears'
  BY <1>8 DEF SocialInv, NodeHears, Heard, HasNode
<1> QED
  BY <1>3, <1>4, <1>6, <1>7, <1>9 DEF SocialInv

LEMMA FlagTaken ==
  ASSUME SocialInv, HasNode, NEW c \in Contact, NEW flag \in Flag, contacts[c] # {},
         contacts' = [contacts EXCEPT ![c] = @ \ {flag}], rows' = RowsWithout(c, flag),
         torn' = TornBy(who, c), work' = work, answers' = answers, who' = who
  PROVE  /\ rows' \subseteq Row /\ contacts' \in [Contact -> SUBSET Flag] /\ RowsOrderly'
         /\ torn \subseteq torn' /\ torn' \subseteq (Own \union {NoOne}) \X Contact
         /\ \A d \in Contact : <<who, d>> \notin torn' =>
              Known(work, answers, Stored(rows', who, d), contacts'[d], who, d)
<1> DEFINE f == contacts[c] \ {flag}
<1>1. /\ who \in Own /\ place # "out" /\ rows \subseteq Row /\ contacts \in [Contact -> SUBSET Flag]
      /\ work \in Seq(Task) /\ answers \in Seq(Answer) /\ SocialTypeOK
  BY InTheWorld DEF SocialInv
<1>2. contacts' \in [Contact -> SUBSET Flag] /\ contacts'[c] = f /\ \A d \in Contact \ {c} : contacts'[d] = contacts[d]
  BY <1>1
<1>3. f \in SUBSET Flag
  BY <1>1
<1>4. rows' = IF f = {} THEN Removed(who, c) ELSE Updated(who, c, f)
  BY DEF RowsWithout
<1> HIDE DEF f
<1>5. rows' \subseteq Row
  <2>1. CASE f = {}
    BY <1>1, <1>4, <2>1 DEF Removed
  <2>2. CASE f # {}
    BY <1>1, <1>3, <1>4, <2>2, UpdatedRows
  <2> QED
    BY <2>1, <2>2
<1>6. ASSUME NEW p, NEW d, p # who \/ d # c
      PROVE  Stored(rows', p, d) = Stored(rows, p, d)
  <2>1. CASE f = {}
    BY <1>4, <1>6, <2>1, StoredRemoved
  <2>2. CASE f # {}
    BY <1>1, <1>3, <1>4, <1>6, <2>2, StoredUpdated
  <2> QED
    BY <2>1, <2>2
<1>7. torn \subseteq torn' /\ torn' \subseteq (Own \union {NoOne}) \X Contact
  BY <1>1, TornQuiet, TornType
<1>8. ASSUME <<who, c>> \notin torn'
      PROVE  /\ NoWrite(work, c) /\ NoWritten(answers, c)
             /\ Stored(rows', who, c) = {f} \ {{}}
  <2>1. /\ NoWrite(work, c) /\ NoWritten(answers, c) /\ Match(Stored(rows, who, c), contacts[c])
        /\ \A g, h \in Stored(rows, who, c) : g = h
    BY <1>1, <1>8, SettledContact
  <2>2. CASE f = {}
    BY <1>4, <2>1, <2>2, StoredRemoved
  <2>3. CASE f # {}
    <3>1. Stored(rows, who, c) # {}
      BY <2>1 DEF Match
    <3>2. Stored(rows', who, c) = {f}
      BY <1>1, <1>3, <1>4, <2>1, <2>3, <3>1, StoredUpdated
    <3> QED
      BY <2>1, <2>3, <3>2
  <2> QED
    BY <2>1, <2>2, <2>3
<1>9. ASSUME NEW o \in Own, NEW d \in Contact, <<o, d>> \notin torn'
      PROVE  Orderly(work, Stored(rows', o, d), o, d)
  <2>1. CASE o = who /\ d = c
    BY <1>8, <1>9, <2>1, NotAWriteOfQuiet, OrderlyQuiet
  <2>2. CASE o # who \/ d # c
    BY <1>6, <1>7, <1>9, <2>2 DEF SocialInv, RowsOrderly
  <2> QED
    BY <2>1, <2>2
<1>10. ASSUME NEW d \in Contact, <<who, d>> \notin torn'
       PROVE  Known(work, answers, Stored(rows', who, d), contacts'[d], who, d)
  <2>1. CASE d = c
    BY <1>1, <1>2, <1>8, <1>10, <2>1, KnownQuiet DEF Match
  <2>2. CASE d # c
    BY <1>1, <1>2, <1>6, <1>7, <1>10, <2>2 DEF SocialInv, ListKnown
  <2> QED
    BY <2>1, <2>2
<1> QED
  BY <1>2, <1>5, <1>7, <1>9, <1>10 DEF RowsOrderly

LEMMA DeleteFriendKeeps == ASSUME SocialInv, NEW c \in Contact, DeleteFriend(c) PROVE SocialInv'
<1> USE DEF DeleteFriend
<1>1. /\ rows' \subseteq Row /\ contacts' \in [Contact -> SUBSET Flag] /\ RowsOrderly'
      /\ torn \subseteq torn' /\ torn' \subseteq (Own \union {NoOne}) \X Contact
      /\ \A d \in Contact : <<who, d>> \notin torn' =>
           Known(work, answers, Stored(rows', who, d), contacts'[d], who, d)
  BY FlagTaken DEF Flag
<1>2. SocialTypeOK' /\ ListKnown' /\ DeletedFirst'
  BY <1>1 DEF SocialInv, SocialTypeOK, ListKnown, DeletedFirst
<1>3. \A d \in Contact : "Ignored" \in contacts'[d] <=> "Ignored" \in contacts[d]
  BY InTheWorld
<1>4. NodeHears'
  BY <1>1, <1>3 DEF SocialInv, NodeHears, Heard, HasNode
<1> QED
  BY <1>1, <1>2, <1>4 DEF SocialInv

LEMMA DeleteIgnoreKeeps == ASSUME SocialInv, NEW c \in Contact, DeleteIgnore(c) PROVE SocialInv'
<1> USE DEF DeleteIgnore
<1>1. /\ rows' \subseteq Row /\ contacts' \in [Contact -> SUBSET Flag] /\ RowsOrderly'
      /\ torn \subseteq torn' /\ torn' \subseteq (Own \union {NoOne}) \X Contact
      /\ \A d \in Contact : <<who, d>> \notin torn' =>
           Known(work, answers, Stored(rows', who, d), contacts'[d], who, d)
  BY FlagTaken DEF Flag
<1>2. SocialTypeOK' /\ ListKnown' /\ DeletedFirst'
  BY <1>1 DEF SocialInv, SocialTypeOK, ListKnown, DeletedFirst, NodeWithout
<1>3. /\ "Ignored" \notin contacts'[c] /\ c \notin node'
      /\ \A d \in Contact \ {c} : contacts'[d] = contacts[d] /\ (d \in node' <=> d \in node)
  BY InTheWorld DEF NodeWithout
<1>4. NodeHears'
  BY <1>1, <1>3 DEF SocialInv, NodeHears, Heard, HasNode
<1> QED
  BY <1>1, <1>2, <1>4 DEF SocialInv

LEMMA ContactDeletedKeeps == ASSUME SocialInv, NEW c \in Contact, ContactDeleted(c) PROVE SocialInv'
<1> DEFINE t == [op |-> "delete", contact |-> c]
<1>1. t \in Task /\ work' = Append(work, t) /\ t.op = "delete" /\ t.contact = c
  BY DEF ContactDeleted, Task
<1> HIDE DEF t
<1> USE DEF ContactDeleted
<1>2. SocialTypeOK /\ work \in Seq(Task) /\ answers \in Seq(Answer) /\ contacts \in [Contact -> SUBSET Flag]
  BY DEF SocialInv, SocialTypeOK
<1>3. contacts'[c] = {} /\ \A d \in Contact \ {c} : contacts'[d] = contacts[d]
  BY <1>2
<1>4. torn \subseteq torn' /\ torn' \subseteq (Own \union {NoOne}) \X Contact
  BY <1>2, TornQuiet, TornType
<1>5. SocialTypeOK'
  BY <1>1, <1>2, <1>4, Appended DEF SocialTypeOK
<1>6. DeletedFirst'
  BY <1>1, <1>2, Appended DEF SocialInv, DeletedFirst
<1>7. (\A d : d # c => ~WriteOf(t, d)) /\ WriteOf(t, c) /\ \A o, d : ~RowWrite(t, o, d)
  BY <1>1 DEF WriteOf, RowWrite
<1>8. RowsOrderly'
  BY <1>1, <1>2, <1>4, <1>7, OrderlyAsked DEF SocialInv, RowsOrderly
<1>9. ASSUME place # "out", NEW d \in Contact, <<who, d>> \notin torn'
      PROVE  Known(work', answers, Stored(rows, who, d), contacts'[d], who, d)
  <2>1. CASE d = c
    <3>1. NoWrite(work, c) /\ NoWritten(answers, c)
      BY <1>9, <2>1, TornQuiet
    <3>2. Pending(t, Stored(rows, who, c), {}, who)
      BY <1>1 DEF Pending
    <3> QED
      BY <1>1, <1>2, <1>3, <1>7, <2>1, <3>1, <3>2, KnownAsked
  <2>2. CASE d # c
    BY <1>1, <1>2, <1>3, <1>4, <1>7, <1>9, <2>2, KnownUnrelated DEF SocialInv, ListKnown
  <2> QED
    BY <2>1, <2>2
<1>10. ListKnown'
  BY <1>9 DEF ListKnown
<1>11. \A d : d # c => (NoWrite(work', d) <=> NoWrite(work, d))
  BY <1>1, <1>2, <1>7, NoWriteAppended
<1>12. NodeHears'
  BY <1>3, <1>4, <1>11 DEF SocialInv, NodeHears, Heard, HasNode
<1> QED
  BY <1>5, <1>6, <1>8, <1>10, <1>12 DEF SocialInv


-----------------------------------------------------------------------------
(* The database thread. *)

LEMMA TaskParts ==
  ASSUME NEW t \in Task
  PROVE  /\ t.contact \in Contact
         /\ t.op = "find" => t.use \in Flag /\ t.alive \in BOOLEAN
         /\ t.op \in {"insert", "update"} => t.owner \in Own \union {NoOne} /\ t.alive \in BOOLEAN
  BY DEF Task

LEMMA NextTask ==
  ASSUME SocialInv, work # <<>>
  PROVE  /\ work \in Seq(Task) /\ answers \in Seq(Answer) /\ Tail(work) \in Seq(Task) /\ Head(work) \in Task
         /\ rows \subseteq Row
         /\ \A n \in DOMAIN Tail(work) : Tail(work)[n].op = "delete" => Tail(work)[n].contact \in deleted
         /\ Head(work).op = "delete" => Head(work).contact \in deleted
         /\ \A o \in Own, c \in Contact : <<o, c>> \notin torn => Orderly(Tail(work), Stored(rows, o, c), o, c)
<1>1. work \in Seq(Task) /\ answers \in Seq(Answer) /\ rows \subseteq Row
  BY DEF SocialInv, SocialTypeOK
<1>2. Tail(work) \in Seq(Task) /\ Head(work) \in Task
  BY <1>1, Tailed
<1>3. \A n \in DOMAIN Tail(work) : n + 1 \in DOMAIN work /\ Tail(work)[n] = work[n + 1]
  BY <1>1, Tailed
<1>4. 1 \in DOMAIN work /\ work[1] = Head(work)
  BY <1>1, Tailed
<1>5. \A n \in DOMAIN Tail(work) : Tail(work)[n].op = "delete" => Tail(work)[n].contact \in deleted
  BY <1>3 DEF SocialInv, DeletedFirst
<1>6. Head(work).op = "delete" => Head(work).contact \in deleted
  BY <1>4 DEF SocialInv, DeletedFirst
<1>7. \A o \in Own, c \in Contact : <<o, c>> \notin torn => Orderly(Tail(work), Stored(rows, o, c), o, c)
  BY <1>1, OrderlyNext DEF SocialInv, RowsOrderly
<1> QED
  BY <1>1, <1>2, <1>5, <1>6, <1>7

LEMMA FindKeeps ==
  ASSUME SocialInv, work # <<>>, work' = Tail(work), Find(Head(work)),
         UNCHANGED <<who, place, contacts, node, deleted, nodeCrashed, torn>>
  PROVE  SocialInv'
<1> DEFINE t == Head(work)
           x == [op |-> "found", use |-> t.use, contact |-> t.contact, alive |-> t.alive]
<1>1. t \in Task /\ t.op = "find" /\ answers' = Append(answers, x) /\ rows' = rows
  BY NextTask DEF Find
<1>2. x \in Answer /\ x.op = "found"
  BY <1>1, TaskParts DEF Answer
<1>3. \A c : ~WriteOf(t, c) /\ ~WrittenOf(x, c)
  BY <1>1, <1>2 DEF WriteOf, WrittenOf
<1> HIDE DEF t, x
<1>4. SocialTypeOK'
  BY <1>1, <1>2, NextTask, Appended DEF SocialInv, SocialTypeOK
<1>5. DeletedFirst' /\ RowsOrderly'
  BY <1>1, NextTask DEF DeletedFirst, RowsOrderly
<1>6. ASSUME place # "out", NEW c \in Contact, <<who, c>> \notin torn
      PROVE  Known(work', answers', Stored(rows, who, c), contacts[c], who, c)
  <2>1. Known(work, answers, Stored(rows, who, c), contacts[c], who, c)
    BY <1>6 DEF SocialInv, ListKnown
  <2>2. Known(work', answers, Stored(rows, who, c), contacts[c], who, c)
    BY <1>3, <2>1, NextTask, KnownNext DEF t
  <2> QED
    BY <1>1, <1>2, <1>3, <2>2, NextTask, KnownFound
<1>7. ListKnown'
  BY <1>1, <1>6 DEF ListKnown
<1>8. \A c : /\ NoWrite(work', c) => NoWrite(work, c)
             /\ NoWritten(answers', c) => NoWritten(answers, c)
  BY <1>1, <1>2, <1>3, NextTask, NoWriteTail, NoWrittenAppended DEF t
<1>9. NodeHears'
  BY <1>8 DEF SocialInv, NodeHears, Heard, HasNode
<1> QED
  BY <1>4, <1>5, <1>7, <1>9 DEF SocialInv

(* A write changes the row of its owner and contact and no other. *)
LEMMA WriteStored ==
  ASSUME rows \subseteq Row, NEW t \in Task, Write(t)
  PROVE  /\ rows' \subseteq Row
         /\ \A p, d : p # t.owner \/ d # t.contact => Stored(rows', p, d) = Stored(rows, p, d)
         /\ (\A g, h \in Stored(rows, t.owner, t.contact) : g = h) =>
              Stored(rows', t.owner, t.contact) =
                IF t.op = "insert" THEN Stored(rows, t.owner, t.contact) \union {{"Ignored"}}
                ELSE IF Stored(rows, t.owner, t.contact) = {} THEN {} ELSE {Flag}
<1>1. t.op \in {"insert", "update"} /\ t.owner \in Own \union {NoOne} /\ t.contact \in Contact
  BY TaskParts DEF Write
<1>2. {"Ignored"} \in (SUBSET Flag) \ {{}} /\ Flag \in (SUBSET Flag) \ {{}}
  BY DEF Flag
<1>3. CASE t.op = "insert"
  <2>1. rows' = rows \union {RowFor(t.owner, t.contact, {"Ignored"})}
    BY <1>3 DEF Write, Inserted
  <2>2. rows' \subseteq Row
    BY <1>1, <1>2, <2>1, RowForIsRow
  <2>3. ASSUME NEW p, NEW d, p # t.owner \/ d # t.contact
        PROVE  Stored(rows', p, d) = Stored(rows, p, d)
    BY <2>1, <2>3, StoredBeside
  <2>4. Stored(rows', t.owner, t.contact) = Stored(rows, t.owner, t.contact) \union {{"Ignored"}}
    <3> DEFINE f == {"Ignored"}
    <3>1. f \in (SUBSET Flag) \ {{}} /\ rows' = rows \union {RowFor(t.owner, t.contact, f)}
      BY <1>2, <2>1
    <3> HIDE DEF f
    <3>2. Stored(rows', t.owner, t.contact) = Stored(rows, t.owner, t.contact) \union {f}
      BY <3>1, StoredInserted
    <3> QED
      BY <3>2 DEF f
  <2> QED
    BY <1>3, <2>2, <2>3, <2>4
<1>4. CASE t.op = "update"
  <2>1. rows' = Updated(t.owner, t.contact, Flag)
    BY <1>4 DEF Write
  <2>2. rows' \subseteq Row
    BY <1>1, <1>2, <2>1, UpdatedRows
  <2>3. ASSUME NEW p, NEW d, p # t.owner \/ d # t.contact
        PROVE  Stored(rows', p, d) = Stored(rows, p, d)
    BY <1>2, <2>1, <2>3, StoredUpdated
  <2>4. (\A g, h \in Stored(rows, t.owner, t.contact) : g = h) =>
          Stored(rows', t.owner, t.contact) = IF Stored(rows, t.owner, t.contact) = {} THEN {} ELSE {Flag}
    BY <1>2, <2>1, StoredUpdated
  <2> QED
    BY <1>4, <2>2, <2>3, <2>4
<1> QED
  BY <1>1, <1>3, <1>4

LEMMA WriteKeeps ==
  ASSUME SocialInv, work # <<>>, work' = Tail(work), Write(Head(work)),
         UNCHANGED <<who, place, contacts, node, deleted, nodeCrashed, torn>>
  PROVE  SocialInv'
<1> DEFINE t == Head(work)
           fails == IF t.op = "insert" THEN InsertFails(t.owner, t.contact, {"Ignored"})
                    ELSE UpdateFails(t.owner, t.contact)
           x == [op |-> "written", ok |-> ~fails, contact |-> t.contact, alive |-> t.alive]
<1>1. t \in Task /\ t.op \in {"insert", "update"} /\ answers' = Append(answers, x) /\ Write(t) /\ rows \subseteq Row
  BY NextTask DEF Write
<1>2. t.owner \in Own \union {NoOne} /\ t.contact \in Contact /\ t.alive \in BOOLEAN
  BY <1>1, TaskParts
<1>3. fails \in BOOLEAN
  <2>1. CASE t.op = "insert"
    BY <2>1 DEF InsertFails
  <2>2. CASE t.op # "insert"
    BY <2>2 DEF UpdateFails
  <2> QED
    BY <2>1, <2>2
<1> HIDE DEF fails
<1>4. x \in Answer /\ x.op = "written" /\ x.contact = t.contact /\ x.ok = ~fails /\ x.alive = t.alive
  BY <1>2, <1>3 DEF Answer
<1> HIDE DEF x
<1>5. work = work /\ t = Head(work) /\ work' = Tail(work)
  OBVIOUS
<1> HIDE DEF t
<1>6. /\ rows' \subseteq Row
      /\ \A p, d : p # t.owner \/ d # t.contact => Stored(rows', p, d) = Stored(rows, p, d)
  BY <1>1, WriteStored
<1>7. (\A g, h \in Stored(rows, t.owner, t.contact) : g = h) =>
        Stored(rows', t.owner, t.contact) =
          IF t.op = "insert" THEN Stored(rows, t.owner, t.contact) \union {{"Ignored"}}
          ELSE IF Stored(rows, t.owner, t.contact) = {} THEN {} ELSE {Flag}
  BY <1>1, WriteStored
<1>8. /\ work \in Seq(Task) /\ answers \in Seq(Answer) /\ work' \in Seq(Task)
      /\ \A o \in Own, c \in Contact : <<o, c>> \notin torn => Orderly(work', Stored(rows, o, c), o, c)
      /\ DeletedFirst'
  BY NextTask DEF DeletedFirst
<1>9. SocialTypeOK'
  BY <1>1, <1>4, <1>6, <1>8, Appended DEF SocialInv, SocialTypeOK
<1>10. ASSUME NEW o \in Own, NEW c \in Contact, <<o, c>> \notin torn
       PROVE  Orderly(work', Stored(rows', o, c), o, c)
  <2>1. CASE o = t.owner /\ c = t.contact
    <3>1. RowWrite(t, o, c)
      BY <1>1, <2>1 DEF RowWrite
    <3>2. Orderly(work, Stored(rows, o, c), o, c)
      BY <1>10 DEF SocialInv, RowsOrderly
    <3>3. /\ \A n \in DOMAIN work' : ~RowWrite(work'[n], o, c)
          /\ t.op = "insert" => Stored(rows, o, c) = {}
      BY <1>5, <1>8, <3>1, <3>2, OrderlyNext
    <3>4. \A g, h \in Stored(rows, o, c) : g = h
      BY <3>2 DEF Orderly
    <3>5. \A g, h \in Stored(rows', o, c) : g = h
      BY <1>7, <2>1, <3>3, <3>4
    <3> QED
      BY <3>3, <3>5, OrderlyQuiet
  <2>2. CASE o # t.owner \/ c # t.contact
    BY <1>6, <1>8, <1>10, <2>2
  <2> QED
    BY <2>1, <2>2
<1>11. RowsOrderly'
  BY <1>10 DEF RowsOrderly
<1>12. ASSUME place # "out", NEW c \in Contact, <<who, c>> \notin torn
       PROVE  Known(work', answers', Stored(rows', who, c), contacts[c], who, c)
  <2>1. Known(work, answers, Stored(rows, who, c), contacts[c], who, c)
    BY <1>12 DEF SocialInv, ListKnown
  <2>2. CASE c = t.contact
    <3>1. WriteOf(t, c)
      BY <1>1, <2>2 DEF WriteOf
    <3>2. NoWrite(work', c) /\ NoWritten(answers, c) /\ Pending(t, Stored(rows, who, c), contacts[c], who)
      BY <1>5, <1>8, <2>1, <3>1, KnownNext
    <3>3. t.owner = who /\ t.alive /\ \A g, h \in Stored(rows, who, c) : g = h
      BY <1>1, <3>2 DEF Pending
    <3>4. CASE t.op = "insert"
      <4>1. contacts[c] = {"Ignored"} /\ Stored(rows, who, c) = {}
        BY <3>2, <3>4 DEF Pending
      <4>2. Stored(rows', who, c) = {{"Ignored"}}
        BY <1>7, <2>2, <3>3, <3>4, <4>1
      <4>3. RowFor(who, c, {"Ignored"}) \notin rows
        BY <4>1 DEF Stored, Flag
      <4>4. ~fails
        BY <2>2, <3>3, <3>4, <4>3 DEF fails, InsertFails
      <4>5. Match(Stored(rows', who, c), contacts[c])
        BY <4>1, <4>2 DEF Match
      <4> QED
        BY <1>1, <1>4, <1>8, <3>2, <3>3, <4>1, <4>4, <4>5, KnownWritten
    <3>5. CASE t.op = "update"
      <4>1. contacts[c] = Flag /\ Stored(rows, who, c) # {}
        BY <3>2, <3>5 DEF Pending
      <4>2. Stored(rows', who, c) = {Flag}
        BY <1>7, <2>2, <3>3, <3>5, <4>1
      <4>3. ~fails
        BY <1>1, <2>2, <3>3, <3>5, UpdateOfOne DEF fails
      <4>4. Match(Stored(rows', who, c), contacts[c]) /\ "Ignored" \in contacts[c]
        BY <4>1, <4>2 DEF Match, Flag
      <4> QED
        BY <1>1, <1>4, <1>8, <3>2, <3>3, <4>3, <4>4, KnownWritten
    <3> QED
      BY <1>1, <3>4, <3>5
  <2>3. CASE c # t.contact
    <3>1. ~WriteOf(t, c) /\ ~WrittenOf(x, c)
      BY <1>4, <2>3 DEF WriteOf, WrittenOf
    <3>2. Known(work', answers, Stored(rows, who, c), contacts[c], who, c)
      BY <1>5, <1>8, <2>1, <3>1, KnownNext
    <3>3. Known(work', answers', Stored(rows, who, c), contacts[c], who, c)
      BY <1>1, <1>4, <1>8, <3>1, <3>2, KnownFound
    <3> QED
      BY <1>6, <2>3, <3>3
  <2> QED
    BY <2>2, <2>3
<1>13. ListKnown'
  BY <1>12 DEF ListKnown
<1>14. ASSUME NEW c, NoWrite(work', c), NoWritten(answers', c) PROVE NoWrite(work, c) /\ NoWritten(answers, c)
  <2>1. NoWritten(answers, c) /\ ~WrittenOf(x, c)
    BY <1>1, <1>4, <1>8, <1>14, NoWrittenAppended
  <2>2. ~WriteOf(t, c)
    BY <1>4, <2>1 DEF WriteOf, WrittenOf
  <2> QED
    BY <1>5, <1>8, <1>14, <2>1, <2>2, NoWriteTail
<1>15. NodeHears'
  BY <1>14 DEF SocialInv, NodeHears, Heard, HasNode
<1> QED
  BY <1>8, <1>9, <1>11, <1>13, <1>15 DEF SocialInv

LEMMA DeleteContactKeeps ==
  ASSUME SocialInv, work # <<>>, work' = Tail(work), DeleteContact(Head(work)),
         UNCHANGED <<who, place, contacts, node, deleted, nodeCrashed, torn>>
  PROVE  SocialInv'
<1> DEFINE t == Head(work)
<1>1. /\ t \in Task /\ t.op = "delete" /\ answers' = answers /\ rows' = {r \in rows : r.contact # t.contact}
      /\ t.contact \in deleted
  BY NextTask DEF DeleteContact
<1>2. t = Head(work) /\ work' = Tail(work)
  OBVIOUS
<1> HIDE DEF t
<1>3. /\ work \in Seq(Task) /\ answers \in Seq(Answer) /\ work' \in Seq(Task)
      /\ \A o \in Own, c \in Contact : <<o, c>> \notin torn => Orderly(work', Stored(rows, o, c), o, c)
      /\ DeletedFirst'
  BY NextTask DEF DeletedFirst
<1>4. SocialTypeOK'
  BY <1>1, <1>3 DEF SocialInv, SocialTypeOK
<1>5. /\ \A o : Stored(rows', o, t.contact) = {}
      /\ \A o, d : d # t.contact => Stored(rows', o, d) = Stored(rows, o, d)
  <2>1. \A o, d : Stored(rows', o, d) = IF d = t.contact THEN {} ELSE Stored(rows, o, d)
    <3>1. \A o, d, f : RowFor(o, d, f) \in rows' <=> RowFor(o, d, f) \in rows /\ d # t.contact
      BY <1>1, RowForParts
    <3> QED
      BY <3>1 DEF Stored
  <2> QED
    BY <1>1, <2>1
<1>6. \A o, c : Stored(rows', o, c) \subseteq Stored(rows, o, c)
  BY <1>5
<1>7. RowsOrderly'
  BY <1>3, <1>6, OrderlyFewer DEF RowsOrderly
<1>8. ASSUME place # "out", NEW c \in Contact, <<who, c>> \notin torn
      PROVE  Known(work', answers, Stored(rows', who, c), contacts[c], who, c)
  <2>1. Known(work, answers, Stored(rows, who, c), contacts[c], who, c)
    BY <1>8 DEF SocialInv, ListKnown
  <2>2. CASE c = t.contact
    <3>1. WriteOf(t, c)
      BY <1>1, <2>2 DEF WriteOf
    <3>2. NoWrite(work', c) /\ NoWritten(answers, c) /\ Pending(t, Stored(rows, who, c), contacts[c], who)
      BY <1>2, <1>3, <2>1, <3>1, KnownNext
    <3>3. Match(Stored(rows', who, c), contacts[c])
      BY <1>1, <1>5, <2>2, <3>2 DEF Pending, Match
    <3> QED
      BY <1>3, <3>2, <3>3, KnownQuiet
  <2>3. CASE c # t.contact
    <3>1. ~WriteOf(t, c)
      BY <2>3 DEF WriteOf
    <3>2. Known(work', answers, Stored(rows, who, c), contacts[c], who, c)
      BY <1>2, <1>3, <2>1, <3>1, KnownNext
    <3> QED
      BY <1>5, <2>3, <3>2
  <2> QED
    BY <2>2, <2>3
<1>9. ListKnown'
  BY <1>1, <1>8 DEF ListKnown
<1>10. \A c : c # t.contact /\ NoWrite(work', c) => NoWrite(work, c)
  BY <1>2, <1>3, NoWriteTail DEF WriteOf
<1>11. NodeHears'
  BY <1>1, <1>10 DEF SocialInv, NodeHears, Heard, HasNode
<1> QED
  BY <1>3, <1>4, <1>7, <1>9, <1>11 DEF SocialInv

LEMMA DatabaseThreadKeeps == ASSUME SocialInv, DatabaseThread PROVE SocialInv'
  BY FindKeeps, WriteKeeps, DeleteContactKeeps DEF DatabaseThread


-----------------------------------------------------------------------------
(* Answers. *)

LEMMA AnswerParts ==
  ASSUME NEW a \in Answer
  PROVE  /\ a.contact \in Contact /\ a.alive \in BOOLEAN /\ a.op \in {"found", "written"}
         /\ a.op = "found" => a.use \in Flag
         /\ a.op = "written" => a.ok \in BOOLEAN
  BY DEF Answer

\* What HandleAnswer does beside the handler.
Answered == answers # <<>> /\ answers' = Tail(answers) /\ UNCHANGED <<who, place, deleted>>

LEMMA NextAnswer ==
  ASSUME SocialInv, Answered
  PROVE  /\ SocialTypeOK /\ work \in Seq(Task) /\ answers \in Seq(Answer) /\ answers' \in Seq(Answer)
         /\ Head(answers) \in Answer
         /\ \A c : NoWritten(answers, c) <=> NoWritten(answers', c) /\ ~WrittenOf(Head(answers), c)
<1>1. SocialTypeOK /\ work \in Seq(Task) /\ answers \in Seq(Answer)
  BY DEF SocialInv, SocialTypeOK
<1> QED
  BY <1>1, Tailed, NoWrittenTail DEF Answered

LEMMA AnswerKnown ==
  ASSUME SocialInv, Answered, place # "out", NEW c \in Contact, <<who, c>> \notin torn
  PROVE  /\ Known(work, answers', Stored(rows, who, c), contacts[c], who, c)
         /\ WrittenOf(Head(answers), c) => Head(answers).ok /\ Head(answers).alive /\ "Ignored" \in contacts[c]
<1>1. Known(work, answers, Stored(rows, who, c), contacts[c], who, c)
  BY DEF SocialInv, ListKnown
<1> QED
  BY <1>1, NextAnswer, KnownAnswered DEF Answered

(* Nothing but the answer goes, which was not heard or changes nothing. *)
LEMMA AnswerOnly ==
  ASSUME SocialInv, Answered, UNCHANGED <<contacts, rows, work, torn, node>>, nodeCrashed' \in BOOLEAN,
         \/ Head(answers).op = "found" \/ ~Head(answers).alive \/ ~HasNode
         \/ ~Head(answers).ok
  PROVE  SocialInv'
<1>1. SocialTypeOK'
  BY NextAnswer DEF SocialTypeOK, Answered
<1>2. DeletedFirst' /\ RowsOrderly'
  BY DEF SocialInv, DeletedFirst, RowsOrderly, Answered
<1>3. ListKnown'
  BY AnswerKnown DEF ListKnown, Answered
<1>4. ASSUME HasNode, NEW c \in Contact, <<who, c>> \notin torn PROVE ~WrittenOf(Head(answers), c)
  BY <1>4, AnswerKnown DEF WrittenOf, HasNode
<1>5. NodeHears'
  BY <1>4, NextAnswer DEF SocialInv, NodeHears, Heard, HasNode, Answered
<1> QED
  BY <1>1, <1>2, <1>3, <1>5 DEF SocialInv

LEMMA IgnoreWrittenKeeps == ASSUME SocialInv, Answered, IgnoreWritten(Head(answers)) PROVE SocialInv'
<1> DEFINE a == Head(answers)
<1>1. a \in Answer /\ a.op = "written" /\ a.alive /\ a.ok \in BOOLEAN /\ a.contact \in Contact
  BY NextAnswer, AnswerParts DEF IgnoreWritten
<1>2. nodeCrashed' \in BOOLEAN /\ UNCHANGED <<contacts, rows, work, torn>>
  BY <1>1 DEF IgnoreWritten, HasNode
<1>3. CASE ~a.ok \/ ~HasNode
  <2>1. node' = node
    BY <1>3 DEF IgnoreWritten
  <2> QED
    BY <1>2, <1>3, <2>1, AnswerOnly
<1>4. CASE a.ok /\ HasNode
  <2>1. node' = node \union {a.contact}
    BY <1>4 DEF IgnoreWritten
  <2> HIDE DEF a
  <2>2. SocialTypeOK'
    BY <1>1, <1>2, <2>1, NextAnswer DEF SocialTypeOK, Answered
  <2>3. DeletedFirst' /\ RowsOrderly'
    BY <1>2 DEF SocialInv, DeletedFirst, RowsOrderly, Answered
  <2>4. ListKnown'
    BY <1>2, AnswerKnown DEF ListKnown, Answered
  <2>5. ASSUME NEW c \in Contact \ deleted, <<who, c>> \notin torn
        PROVE  Heard(place, work, answers', node', contacts[c], c)
    <3>1. place # "out" /\ Heard(place, work, answers, node, contacts[c], c)
      BY <1>4, <2>5 DEF SocialInv, NodeHears, HasNode
    <3>2. CASE c = a.contact
      <4>1. "Ignored" \in contacts[c]
        BY <1>1, <2>5, <3>1, <3>2, AnswerKnown DEF WrittenOf, a
      <4> QED
        BY <2>1, <3>2, <4>1 DEF Heard
    <3>3. CASE c # a.contact
      <4>1. NoWritten(answers', c) => NoWritten(answers, c)
        BY <3>3, NextAnswer DEF WrittenOf, a
      <4> QED
        BY <2>1, <3>1, <3>3, <4>1 DEF Heard
    <3> QED
      BY <3>2, <3>3
  <2>6. NodeHears'
    BY <1>2, <1>4, <2>5 DEF NodeHears, HasNode, Answered
  <2> QED
    BY <2>2, <2>3, <2>4, <2>6 DEF SocialInv
<1> QED
  BY <1>3, <1>4

(* handleAddFriendRequest, for somebody new. *)
LEMMA FriendAdded ==
  ASSUME SocialInv, Answered, NEW c \in Contact, who # NoOne, "Friend" \notin contacts[c],
         contacts' = [contacts EXCEPT ![c] = @ \union {"Friend"}],
         rows' = IF "Ignored" \in contacts[c] THEN Updated(who, c, Flag) ELSE Inserted(who, c, {"Friend"}),
         torn' = TornBy(who, c), Head(answers).op = "found", UNCHANGED <<node, work, nodeCrashed>>
  PROVE  SocialInv'
<1>1. /\ who \in Own /\ place # "out" /\ rows \subseteq Row /\ contacts \in [Contact -> SUBSET Flag]
      /\ work \in Seq(Task) /\ answers \in Seq(Answer) /\ answers' \in Seq(Answer) /\ SocialTypeOK
  BY NextAnswer DEF SocialTypeOK
<1>2. {"Friend"} \in (SUBSET Flag) \ {{}} /\ Flag \in (SUBSET Flag) \ {{}}
  BY DEF Flag
<1>3. contacts' \in [Contact -> SUBSET Flag]
  BY <1>1, <1>2
<1>4. contacts'[c] = contacts[c] \union {"Friend"} /\ \A d \in Contact \ {c} : contacts'[d] = contacts[d]
  BY <1>1
<1>5. rows' \subseteq Row
  BY <1>1, <1>2, UpdatedRows
<1>6. ASSUME NEW p, NEW d, p # who \/ d # c
      PROVE  Stored(rows', p, d) = Stored(rows, p, d)
  <2>1. CASE "Ignored" \in contacts[c]
    BY <1>1, <1>2, <1>6, <2>1, StoredUpdated
  <2>2. CASE "Ignored" \notin contacts[c]
    BY <1>6, <2>2, StoredBeside DEF Inserted
  <2> QED
    BY <2>1, <2>2
<1>7. torn \subseteq torn' /\ torn' \subseteq (Own \union {NoOne}) \X Contact
  BY <1>1, TornQuiet, TornType
<1>8. ASSUME <<who, c>> \notin torn'
      PROVE  /\ NoWrite(work, c) /\ NoWritten(answers, c)
             /\ Stored(rows', who, c) = {contacts'[c]} /\ contacts'[c] # {}
  <2>1. /\ NoWrite(work, c) /\ NoWritten(answers, c) /\ Match(Stored(rows, who, c), contacts[c])
        /\ \A g, h \in Stored(rows, who, c) : g = h
    BY <1>1, <1>8, SettledContact
  <2>2. CASE "Ignored" \in contacts[c]
    <3>1. contacts[c] = {"Ignored"} /\ contacts'[c] = Flag
      BY <1>1, <1>4, <2>2 DEF Flag
    <3>2. Stored(rows, who, c) # {}
      BY <2>1, <3>1 DEF Match
    <3>3. Stored(Updated(who, c, Flag), who, c) = {Flag}
      BY <1>1, <1>2, <2>1, <3>2, StoredUpdated
    <3> QED
      BY <1>2, <2>1, <2>2, <3>1, <3>3
  <2>3. CASE "Ignored" \notin contacts[c]
    <3>1. contacts[c] = {} /\ contacts'[c] = {"Friend"}
      BY <1>1, <1>4, <2>3 DEF Flag
    <3>2. Stored(rows, who, c) = {}
      BY <2>1, <3>1 DEF Match
    <3>3. Stored(Inserted(who, c, {"Friend"}), who, c) = {{"Friend"}}
      <4> DEFINE f == {"Friend"}
      <4>1. f \in (SUBSET Flag) \ {{}} /\ Inserted(who, c, f) = rows \union {RowFor(who, c, f)}
        BY <1>2 DEF Inserted
      <4> HIDE DEF f
      <4>2. Stored(Inserted(who, c, f), who, c) = Stored(rows, who, c) \union {f}
        BY <4>1, StoredInserted
      <4> QED
        BY <3>2, <4>2 DEF f
    <3> QED
      BY <1>2, <2>1, <2>3, <3>1, <3>3
  <2> QED
    BY <2>2, <2>3
<1>9. ASSUME NEW o \in Own, NEW d \in Contact, <<o, d>> \notin torn'
      PROVE  Orderly(work, Stored(rows', o, d), o, d)
  <2>1. CASE o = who /\ d = c
    BY <1>8, <1>9, <2>1, NotAWriteOfQuiet, OrderlyQuiet
  <2>2. CASE o # who \/ d # c
    BY <1>6, <1>7, <1>9, <2>2 DEF SocialInv, RowsOrderly
  <2> QED
    BY <2>1, <2>2
<1>10. ASSUME NEW d \in Contact, <<who, d>> \notin torn'
       PROVE  Known(work, answers', Stored(rows', who, d), contacts'[d], who, d)
  <2>1. CASE d = c
    <3>1. NoWritten(answers', c)
      BY <1>8, <1>10, <2>1, NextAnswer
    <3> QED
      BY <1>1, <1>8, <1>10, <2>1, <3>1, KnownQuiet DEF Match
  <2>2. CASE d # c
    BY <1>1, <1>4, <1>6, <1>7, <1>10, <2>2, AnswerKnown
  <2> QED
    BY <2>1, <2>2
<1>11. SocialTypeOK' /\ DeletedFirst' /\ RowsOrderly' /\ ListKnown'
  <2>1. SocialTypeOK'
    BY <1>1, <1>3, <1>5, <1>7 DEF SocialTypeOK, Answered
  <2>2. DeletedFirst'
    BY DEF SocialInv, DeletedFirst, Answered
  <2>3. RowsOrderly'
    BY <1>9 DEF RowsOrderly
  <2>4. ListKnown'
    BY <1>10 DEF ListKnown, Answered
  <2> QED
    BY <2>1, <2>2, <2>3, <2>4
<1>12. \A d \in Contact : "Ignored" \in contacts'[d] <=> "Ignored" \in contacts[d]
  BY <1>4
<1>13. \A d : NoWritten(answers', d) => NoWritten(answers, d)
  BY NextAnswer DEF WrittenOf
<1>14. NodeHears'
  BY <1>7, <1>12, <1>13 DEF SocialInv, NodeHears, Heard, HasNode, Answered
<1> QED
  BY <1>11, <1>14 DEF SocialInv

LEMMA FoundFriendKeeps == ASSUME SocialInv, Answered, FoundFriend(Head(answers)) PROVE SocialInv'
<1> DEFINE a == Head(answers)
           c == a.contact
           new == c \notin Enemy /\ "Friend" \notin contacts[c]
<1>1. a \in Answer /\ c \in Contact /\ a.op = "found" /\ nodeCrashed \in BOOLEAN
  BY NextAnswer, AnswerParts DEF FoundFriend, SocialTypeOK
<1>2. CASE who = NoOne
  BY <1>1, <1>2, AnswerOnly DEF FoundFriend
<1>3. CASE who # NoOne /\ ~new
  BY <1>1, <1>3, AnswerOnly DEF FoundFriend
<1>4. CASE who # NoOne /\ new
  <2>1. /\ contacts' = [contacts EXCEPT ![c] = @ \union {"Friend"}]
        /\ rows' = IF "Ignored" \in contacts[c] THEN Updated(who, c, Flag) ELSE Inserted(who, c, {"Friend"})
        /\ torn' = TornBy(who, c) /\ UNCHANGED <<node, work, nodeCrashed>>
    BY <1>4 DEF FoundFriend
  <2> QED
    BY <1>1, <1>4, <2>1, FriendAdded
<1> QED
  BY <1>2, <1>3, <1>4

(* handleAddIgnoreRequest, for somebody who is not ignored yet. *)
LEMMA IgnoreAsked ==
  ASSUME SocialInv, Answered, NEW c \in Contact, NEW t, "Ignored" \notin contacts[c],
         t = [op |-> IF "Friend" \in contacts[c] THEN "update" ELSE "insert",
              owner |-> who, contact |-> c, alive |-> TRUE],
         contacts' = [contacts EXCEPT ![c] = @ \union {"Ignored"}], work' = Append(work, t),
         torn' = TornBy(who, c), Head(answers).op = "found", UNCHANGED <<node, rows, nodeCrashed>>
  PROVE  SocialInv'
<1>1. /\ rows \subseteq Row /\ contacts \in [Contact -> SUBSET Flag]
      /\ work \in Seq(Task) /\ answers \in Seq(Answer) /\ answers' \in Seq(Answer) /\ SocialTypeOK
  BY NextAnswer DEF SocialTypeOK
<1>2. /\ t \in Task /\ t.op = (IF "Friend" \in contacts[c] THEN "update" ELSE "insert")
      /\ t.owner = who /\ t.contact = c /\ t.alive
  BY <1>1 DEF SocialTypeOK, Task
<1>3. work' \in Seq(Task)
  BY <1>1, <1>2, Appended
<1>4. contacts' \in [Contact -> SUBSET Flag]
  BY <1>1 DEF Flag
<1>5. contacts'[c] = contacts[c] \union {"Ignored"} /\ \A d \in Contact \ {c} : contacts'[d] = contacts[d]
  BY <1>1
<1>6. torn \subseteq torn' /\ torn' \subseteq (Own \union {NoOne}) \X Contact
  BY <1>1, TornQuiet, TornType
<1>7. SocialTypeOK'
  BY <1>1, <1>3, <1>4, <1>6 DEF SocialTypeOK, Answered
<1>8. DeletedFirst'
  BY <1>1, <1>2, Appended DEF SocialInv, DeletedFirst, Answered
<1>9. WriteOf(t, c) /\ \A d : d # c => ~WriteOf(t, d)
  BY <1>2 DEF WriteOf
<1>10. ASSUME place # "out", <<who, c>> \notin torn'
       PROVE  /\ NoWrite(work, c) /\ NoWritten(answers, c) /\ who \in Own /\ <<who, c>> \notin torn
              /\ t.op = "insert" => Stored(rows, who, c) = {}
              /\ Pending(t, Stored(rows, who, c), contacts'[c], who)
  <2>1. /\ NoWrite(work, c) /\ NoWritten(answers, c) /\ Match(Stored(rows, who, c), contacts[c])
        /\ \A g, h \in Stored(rows, who, c) : g = h
        /\ who \in Own /\ <<who, c>> \notin torn
    BY <1>10, SettledContact
  <2>2. CASE "Friend" \in contacts[c]
    <3>1. contacts[c] = {"Friend"} /\ contacts'[c] = Flag
      BY <1>1, <1>5, <2>2 DEF Flag
    <3>2. Stored(rows, who, c) # {}
      BY <2>1, <3>1 DEF Match
    <3> QED
      BY <1>2, <2>1, <2>2, <3>1, <3>2 DEF Pending
  <2>3. CASE "Friend" \notin contacts[c]
    <3>1. contacts[c] = {} /\ contacts'[c] = {"Ignored"}
      <4>1. contacts[c] \subseteq {"Friend", "Ignored"}
        BY <1>1 DEF Flag
      <4>2. contacts[c] = {}
        BY <2>3, <4>1
      <4> QED
        BY <1>5, <4>2
    <3>2. Stored(rows, who, c) = {}
      BY <2>1, <3>1 DEF Match
    <3> QED
      BY <1>2, <2>1, <2>3, <3>1, <3>2 DEF Pending
  <2> QED
    BY <2>2, <2>3
<1>11. ASSUME NEW o \in Own, NEW d \in Contact, <<o, d>> \notin torn'
       PROVE  Orderly(work', Stored(rows, o, d), o, d)
  <2>1. Orderly(work, Stored(rows, o, d), o, d)
    BY <1>6, <1>11 DEF SocialInv, RowsOrderly
  <2>2. CASE o = who /\ d = c
    <3>1. place # "out"
      BY <1>1, <2>2 DEF SocialTypeOK
    <3>2. NoWrite(work, c) /\ (t.op = "insert" => Stored(rows, who, c) = {})
      BY <1>10, <1>11, <2>2, <3>1
    <3> QED
      BY <1>1, <1>2, <2>1, <2>2, <3>2, OrderlyWrite
  <2>3. CASE o # who \/ d # c
    <3>1. ~RowWrite(t, o, d)
      BY <1>2, <2>3 DEF RowWrite
    <3> QED
      BY <1>1, <1>2, <2>1, <3>1, OrderlyAsked
  <2> QED
    BY <2>2, <2>3
<1>12. RowsOrderly'
  BY <1>11 DEF RowsOrderly
<1>13. ASSUME place # "out", NEW d \in Contact, <<who, d>> \notin torn'
       PROVE  Known(work', answers', Stored(rows, who, d), contacts'[d], who, d)
  <2>1. CASE d = c
    <3>1. NoWritten(answers', c)
      BY <1>10, <1>13, <2>1, NextAnswer
    <3> QED
      BY <1>1, <1>2, <1>9, <1>10, <1>13, <2>1, <3>1, KnownAsked
  <2>2. CASE d # c
    <3>1. Known(work, answers', Stored(rows, who, d), contacts[d], who, d)
      BY <1>6, <1>13, AnswerKnown
    <3> QED
      BY <1>1, <1>2, <1>5, <1>9, <2>2, <3>1, KnownUnrelated
  <2> QED
    BY <2>1, <2>2
<1>14. ListKnown'
  BY <1>13 DEF ListKnown, Answered
<1>15. \A d : NoWrite(work', d) => d # c /\ NoWrite(work, d)
  <2>1. \A d : NoWrite(Append(work, t), d) <=> NoWrite(work, d) /\ ~WriteOf(t, d)
    BY <1>1, <1>2, NoWriteAppended
  <2> QED
    BY <1>9, <2>1
<1>16. \A d : NoWritten(answers', d) => NoWritten(answers, d)
  BY NextAnswer DEF WrittenOf
<1>17. NodeHears'
  BY <1>5, <1>6, <1>15, <1>16 DEF SocialInv, NodeHears, Heard, HasNode, Answered
<1> QED
  BY <1>7, <1>8, <1>12, <1>14, <1>17 DEF SocialInv

LEMMA FoundIgnoredKeeps == ASSUME SocialInv, Answered, FoundIgnored(Head(answers)) PROVE SocialInv'
<1> DEFINE a == Head(answers)
           c == a.contact
<1>1. a \in Answer /\ c \in Contact /\ a.op = "found" /\ nodeCrashed \in BOOLEAN
  BY NextAnswer, AnswerParts DEF FoundIgnored, SocialTypeOK
<1>2. CASE "Ignored" \in contacts[c]
  BY <1>1, <1>2, AnswerOnly DEF FoundIgnored
<1>3. CASE "Ignored" \notin contacts[c]
  BY <1>1, <1>3, IgnoreAsked DEF FoundIgnored
<1> QED
  BY <1>2, <1>3

LEMMA UnheardKeeps == ASSUME SocialInv, Answered, Unheard(Head(answers)) PROVE SocialInv'
  BY AnswerOnly, NextAnswer DEF Unheard, SocialTypeOK

LEMMA HandleAnswerKeeps == ASSUME SocialInv, HandleAnswer PROVE SocialInv'
<1>1. Answered
  BY DEF HandleAnswer, Answered
<1> QED
  BY <1>1, FoundFriendKeeps, FoundIgnoredKeeps, IgnoreWrittenKeeps, UnheardKeeps DEF HandleAnswer

LEMMA SocialStep == ASSUME SocialInv, SocialNext PROVE SocialInv'
  BY PlayerLoginKeeps, WorldInstanceEnteredKeeps, LeavingKeeps, ClientLostKeeps,
     AskForKeeps, DeleteFriendKeeps, DeleteIgnoreKeeps, ContactDeletedKeeps,
     DatabaseThreadKeeps, HandleAnswerKeeps
  DEF SocialNext, Travel, ClientPacket

LEMMA InvGivesAgree == ASSUME SocialInv PROVE ContactsAgree
<1>1. rows \subseteq Row
  BY DEF SocialInv, SocialTypeOK
<1>2. ASSUME place # "out", NEW c \in Contact, Settled(c)
      PROVE  Match(Stored(rows, who, c), contacts[c])
  <2>1. NoWrite(work, c) /\ <<who, c>> \notin torn
    BY <1>2, QuietContact DEF Settled
  <2> QED
    BY <1>2, <2>1 DEF SocialInv, ListKnown, Known
<1>3. StoredAsShown
  BY <1>1, <1>2, StoredRows DEF StoredAsShown, Match
<1>4. ASSUME place = "in", NEW c \in Contact \ deleted, Settled(c)
      PROVE  c \in node <=> c \in Ignored
  <2>1. NoWrite(work, c) /\ NoWritten(answers, c) /\ <<who, c>> \notin torn
    BY <1>4, QuietContact DEF Settled
  <2>2. Heard(place, work, answers, node, contacts[c], c)
    BY <1>4, <2>1 DEF SocialInv, NodeHears, HasNode
  <2> QED
    BY <1>4, <2>1, <2>2 DEF Heard, Ignored
<1>5. NodeIgnoresAsShown
  BY <1>4 DEF NodeIgnoresAsShown
<1> QED
  BY <1>3, <1>5 DEF ContactsAgree

(* The invariant of all of it. *)
THEOREM SocialSound == SocialSpec => []SocialInv
<1>1. SocialInit => SocialInv
  BY SocialStarts
<1>2. SocialInv /\ [SocialNext]_socialVars => SocialInv'
  BY SocialStep, SocialStays
<1> QED
  BY <1>1, <1>2, PTL DEF SocialSpec

(* Types, at the realm, in the table and between the two threads. *)
THEOREM SocialTypeCorrect == SocialSpec => []SocialTypeOK
<1>1. SocialInv => SocialTypeOK
  BY DEF SocialInv
<1> QED
  BY <1>1, SocialSound, PTL

(* Table and node follow the list that the player sees (PlayerSocial): once
   the writes of a contact are answered, unless its entry was used meanwhile,
   the table says what the list says, and so does the node unless the contact
   was deleted. *)
THEOREM ListIsFollowed == SocialSpec => []ContactsAgree
<1>1. SocialInv => ContactsAgree
  BY InvGivesAgree
<1> QED
  BY <1>1, SocialSound, PTL

HIDE SocialAssumption

-----------------------------------------------------------------------------
(* All of it.  A behaviour of MCServers is one of each of its parts: a step of
   one part leaves the variables of the others alone. *)

THEOREM PartsOfServers == ServersSpec => LoginSpec /\ SocialSpec /\ Spec
<1>1. ServersInit => LoginInit /\ SocialInit /\ Init
  BY DEF ServersInit
<1>2. [ServersNext]_serverVars => [LoginNext]_loginVars
  BY DEF ServersNext, serverVars
<1>3. [ServersNext]_serverVars => [SocialNext]_socialVars
  BY DEF ServersNext, serverVars
<1>4. [ServersNext]_serverVars => [Next]_vars
  BY DEF ServersNext, serverVars
<1> QED
  BY <1>1, <1>2, <1>3, <1>4, PTL DEF ServersSpec, LoginSpec, SocialSpec, Spec

(* The types of the realm's link and the players of the login server, of the
   friends' lists, table and threads, and of the encrypted connection. *)
THEOREM ServersTypeCorrect == ServersSpec => []ServersTypeOK
<1>1. LoginTypeOK /\ SocialTypeOK /\ TypeOK => ServersTypeOK
  BY DEF ServersTypeOK
<1> QED
  BY <1>1, PartsOfServers, LoginTypeCorrect, SocialTypeCorrect, TypeCorrect, PTL

(* What was shown of each part holds of a behaviour of all three. *)
THEOREM ServersSound ==
  ServersSpec => [](/\ RealmListed /\ PendingIsAsked
                    /\ ContactsAgree
                    /\ ToldOnce /\ HandledInOrder /\ RepliesInOrder)
BY PartsOfServers, RealmIsListed, RequestsAreFollowed, ListIsFollowed,
   ToldOnlyOnce, PacketsKeepOrder, RepliesKeepOrder, PTL
==============================================================================
