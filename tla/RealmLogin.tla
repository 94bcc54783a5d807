----------------------------- MODULE RealmLogin -----------------------------
(***************************************************************************)
(* How a client gets from the login server to a realm: the players and     *)
(* realms of the login server, the realm's LoginConnector with its pending *)
(* requests, and the players who authenticate at the realm.                *)
(*                                                                         *)
(* A step is one handler of one of the two processes.  Between them stands *)
(* a TCP connection that breaks, is noticed by each end in its own time,   *)
(* and is made anew by the realm, maybe before the login server knows that *)
(* the old one is gone.                                                    *)
(***************************************************************************)
EXTENDS Integers, Sequences, SequencesExt, FiniteSets

CONSTANTS
  Client,            \* running game clients
  Account, AccountOf,
  NoAccount,         \* an empty m_accountName
  MaxKeys,           \* bound: proofs of a password
  MaxLinks,          \* bound: connections the realm makes
  MaxLobby,          \* bound: connections to the login server at a time
  MaxGate,           \* bound: connections to the realm at a time
  RealmId, OtherIds  \* id of the realm in the database, what an uninitialised UInt32 may hold

ASSUME LoginAssumption ==
  /\ AccountOf \in [Client -> Account]
  /\ NoAccount \notin Account
  /\ MaxKeys \in Nat /\ MaxLinks \in Nat \ {0} /\ MaxLobby \in Nat /\ MaxGate \in Nat
  /\ RealmId \notin OtherIds

Key == 1 .. MaxKeys
NoKey == 0
LinkId == 1 .. MaxLinks

VARIABLES
  lobby,      \* login server: PlayerManager::m_players
  keyRow,     \* login server: the session key stored with an account
  online,     \* login server: column `online` of the realm
  clientKey,  \* the session key a client holds
  lastKey,    \* how many keys have been made
  link,       \* connections between realm and login server, in the order they were made
  mine,       \* realm: LoginConnector::m_connection, 0 when it is null
  retry,      \* realm: tryConnect is in the timer queue
  pending,    \* realm: LoginConnector::m_loginRequests
  realmId,    \* realm: LoginConnector::m_realmID
  gate,       \* realm: PlayerManager::m_players
  orphaned    \* history: pending requests whose question or answer was lost or ignored

lobbyVars == <<lobby, keyRow, clientKey, lastKey>>
loginVars == <<lobby, keyRow, online, clientKey, lastKey, link, mine, retry, pending, realmId, gate, orphaned>>

\* The fields of the two Player classes this is about.  A Player of the login
\* server that is "in" has m_session.
Visitor == [client : Client, step : {"greeted", "challenged", "reconnecting", "in"},
            key : Key \union {NoKey}]
Guest == [client : Client, account : Account \union {NoAccount}, hash : Key \union {NoKey},
          authed : BOOLEAN, here : BOOLEAN]

ToLoginServer == [type : {"login"}] \union [type : {"playerLogin"}, account : Account]
ToRealm == [type : {"loginResult"}, id : {RealmId} \union OtherIds]
             \union [type : {"success"}, account : Account, key : Key]
             \union [type : {"failure"}, account : Account]

\* realm: the end of the LoginConnector; login: the Realm object.
Link == [realm : {"connecting", "up", "failed", "gone"}, login : {"none", "fresh", "authed", "gone"},
         cut : BOOLEAN, up : Seq(ToLoginServer), down : Seq(ToRealm)]

(* Types; the answers carry the key of a session. *)
LoginTypeOK ==
  /\ lobby \in Seq(Visitor)
  /\ keyRow \in [Account -> Key \union {NoKey}]
  /\ online \in BOOLEAN
  /\ clientKey \in [Client -> Key \union {NoKey}]
  /\ lastKey \in 0 .. MaxKeys
  /\ link \in Seq(Link) /\ Len(link) <= MaxLinks
  /\ mine \in 0 .. Len(link)
  /\ retry \in BOOLEAN
  /\ pending \subseteq Account /\ orphaned \subseteq Account
  /\ realmId \in {RealmId} \union OtherIds
  /\ gate \in Seq(Guest)

\* The login server is up; the constructor of LoginConnector calls tryConnect.
NewLink == [realm |-> "connecting", login |-> "none", cut |-> FALSE, up |-> <<>>, down |-> <<>>]

LoginInit ==
  /\ lobby = <<>> /\ gate = <<>>
  /\ keyRow = [a \in Account |-> NoKey]
  /\ clientKey = [c \in Client |-> NoKey]
  /\ online = FALSE
  /\ lastKey = 0
  /\ link = <<NewLink>> /\ mine = 1
  /\ retry = FALSE
  /\ pending = {} /\ orphaned = {}
  /\ realmId = RealmId

-----------------------------------------------------------------------------
(* The login server's Player: challenge and proof, or reconnection with    *)
(* the key of an earlier session.                                          *)

Without(s, i) == RemoveAt(s, i)

ClientConnects(c) ==
  /\ Len(lobby) < MaxLobby
  /\ lobby' = Append(lobby, [client |-> c, step |-> "greeted", key |-> NoKey])
  /\ UNCHANGED <<keyRow, online, clientKey, lastKey, link, mine, retry, pending, realmId, gate, orphaned>>

\* Every protocol error, the timeout, a lost connection and the close() of
\* handlePlayerLogin end in destroy().
VisitorGoes(i) ==
  /\ lobby' = Without(lobby, i)
  /\ UNCHANGED <<keyRow, online, clientKey, lastKey, link, mine, retry, pending, realmId, gate, orphaned>>

LogonChallenge(i) ==
  /\ lobby[i].step = "greeted"
  /\ lobby' = [lobby EXCEPT ![i].step = "challenged"]
  /\ UNCHANGED <<keyRow, online, clientKey, lastKey, link, mine, retry, pending, realmId, gate, orphaned>>

\* A wrong password leaves the Player as it is.
LogonProof(i) ==
  /\ lobby[i].step = "challenged"
  /\ lastKey < MaxKeys
  /\ lastKey' = lastKey + 1
  /\ lobby' = [lobby EXCEPT ![i].step = "in", ![i].key = lastKey']
  /\ keyRow' = [keyRow EXCEPT ![AccountOf[lobby[i].client]] = lastKey']
  /\ clientKey' = [clientKey EXCEPT ![lobby[i].client] = lastKey']
  /\ UNCHANGED <<online, link, mine, retry, pending, realmId, gate, orphaned>>

ReconnectChallenge(i) ==
  /\ lobby[i].step = "greeted"
  /\ clientKey[lobby[i].client] # NoKey
  /\ lobby' = [lobby EXCEPT ![i].step = "reconnecting", ![i].key = keyRow[AccountOf[lobby[i].client]]]
  /\ UNCHANGED <<keyRow, online, clientKey, lastKey, link, mine, retry, pending, realmId, gate, orphaned>>

\* A proof with another key is an error of the protocol.
ReconnectProof(i) ==
  /\ lobby[i].step = "reconnecting"
  /\ lobby[i].key = clientKey[lobby[i].client]
  /\ lobby' = [lobby EXCEPT ![i].step = "in"]
  /\ UNCHANGED <<keyRow, online, clientKey, lastKey, link, mine, retry, pending, realmId, gate, orphaned>>

Lobby ==
  \/ \E c \in Client : ClientConnects(c)
  \/ \E i \in DOMAIN lobby :
       \/ LogonChallenge(i) \/ LogonProof(i) \/ ReconnectChallenge(i) \/ ReconnectProof(i)
       \/ VisitorGoes(i)

-----------------------------------------------------------------------------
(* The link.                                                               *)

TryConnect ==
  /\ retry
  /\ Len(link) < MaxLinks
  /\ retry' = FALSE
  /\ link' = Append(link, NewLink)
  /\ mine' = Len(link')
  /\ UNCHANGED <<online, pending, realmId, gate, orphaned, lobbyVars>>

\* What was asked while the connection was being made is sent before the login.
Established ==
  /\ mine # 0
  /\ link[mine].realm = "connecting"
  /\ link' = [link EXCEPT ![mine].realm = "up", ![mine].login = "fresh",
                          ![mine].up = Append(@, [type |-> "login"])]
  /\ UNCHANGED <<online, mine, retry, pending, realmId, gate, orphaned, lobbyVars>>

\* m_connection keeps the connector that failed until the next attempt.
ConnectFails ==
  /\ mine # 0
  /\ link[mine].realm = "connecting"
  /\ link' = [link EXCEPT ![mine].realm = "failed", ![mine].up = <<>>]
  /\ retry' = TRUE
  /\ orphaned' = pending
  /\ UNCHANGED <<online, mine, pending, realmId, gate, lobbyVars>>

\* What an end has not taken by the time it notices the loss is lost.
Cut(k) ==
  /\ link[k].realm = "up" /\ ~link[k].cut
  /\ link' = [link EXCEPT ![k].cut = TRUE]
  /\ UNCHANGED <<online, mine, retry, pending, realmId, gate, orphaned, lobbyVars>>

\* LoginConnector::connectionLost.  A write while the connection is being
\* made may fail, too.
RealmSideLost ==
  /\ mine # 0
  /\ \/ link[mine].realm = "up" /\ link[mine].cut
     \/ link[mine].realm = "connecting" /\ link[mine].up # <<>>
  /\ link' = [link EXCEPT ![mine].realm = "gone", ![mine].down = <<>>]
  /\ mine' = 0
  /\ retry' = TRUE
  /\ orphaned' = pending
  /\ UNCHANGED <<online, pending, realmId, gate, lobbyVars>>

OnlineWithout(k) == IF link[k].login = "authed" THEN FALSE ELSE online

\* Realm::connectionLost
LoginSideLost(k) ==
  /\ link[k].cut
  /\ link[k].login \in {"fresh", "authed"}
  /\ online' = OnlineWithout(k)
  /\ link' = [link EXCEPT ![k].login = "gone", ![k].up = <<>>]
  /\ UNCHANGED <<mine, retry, pending, realmId, gate, orphaned, lobbyVars>>

\* The timeout of Realm closes the connection and destroys the Realm without
\* connectionLost.
LoginSideTimeout(k) ==
  /\ link[k].login \in {"fresh", "authed"}
  /\ link' = [link EXCEPT ![k].login = "gone", ![k].cut = TRUE, ![k].up = <<>>]
  /\ UNCHANGED <<online, mine, retry, pending, realmId, gate, orphaned, lobbyVars>>

-----------------------------------------------------------------------------
(* The login server's Realm.                                               *)

\* link with a message of k taken by the login server and answers sent.
Replied(k, answers) ==
  [link EXCEPT ![k].up = Tail(@), ![k].down = IF link[k].cut THEN @ ELSE @ \o answers]

ListedHere(k) == link[k].login = "authed"
AlreadyListed(k) == \E j \in DOMAIN link : link[j].login = "authed"

\* A refused Realm, because one with its name is listed, its password or its id
\* is wrong or the database fails, sends its m_realmID, which may not be initialised.
HandleLogin(k) ==
  /\ Head(link[k].up).type = "login"
  /\ \/ /\ \E id \in {RealmId} \union OtherIds :
              link' = Replied(k, <<[type |-> "loginResult", id |-> id]>>)
        /\ UNCHANGED online
     \/ /\ ~AlreadyListed(k)
        /\ link' = [Replied(k, <<[type |-> "loginResult", id |-> RealmId]>>)
                       EXCEPT ![k].login = "authed"]
        /\ online' = TRUE
  /\ UNCHANGED <<mine, retry, pending, realmId, gate, orphaned, lobbyVars>>

\* getPlayerByAccountName
AnyoneOf(a) == {i \in DOMAIN lobby : AccountOf[lobby[i].client] = a}
SessionsOf(a) == {i \in DOMAIN lobby : AccountOf[lobby[i].client] = a /\ lobby[i].step = "in"}
First(S) == CHOOSE i \in S : \A j \in S : i <= j

NoAnswer(a) == <<>>
Failure(a) == <<[type |-> "failure", account |-> a]>>

HandlePlayerLogin(k) ==
  /\ Head(link[k].up).type = "playerLogin"
  /\ LET a == Head(link[k].up).account
     IN  \/ /\ link[k].login = "fresh"
            /\ link' = Replied(k, <<>>)
            /\ orphaned' = orphaned \union {a}
         \/ /\ link[k].login = "authed" /\ SessionsOf(a) # {}
            /\ LET i == First(SessionsOf(a))
               IN  link' = Replied(k, <<[type |-> "success", account |-> a, key |-> lobby[i].key]>>)
            /\ UNCHANGED orphaned
         \/ /\ link[k].login = "authed" /\ SessionsOf(a) = {}
            /\ link' = Replied(k, Failure(a))
            /\ UNCHANGED orphaned
  /\ UNCHANGED <<online, mine, retry, pending, realmId, gate, lobbyVars>>

LoginHandles(k) ==
  /\ link[k].login \in {"fresh", "authed"} /\ link[k].up # <<>>
  /\ HandleLogin(k) \/ HandlePlayerLogin(k)

-----------------------------------------------------------------------------
(* The realm: LoginConnector and the players who want to authenticate.     *)

GuestConnects(c) ==
  /\ Len(gate) < MaxGate
  /\ clientKey[c] # NoKey
  /\ gate' = Append(gate, [client |-> c, account |-> NoAccount, hash |-> NoKey,
                           authed |-> FALSE, here |-> TRUE])
  /\ UNCHANGED <<online, link, mine, retry, pending, realmId, orphaned, lobbyVars>>

\* playerLoginRequest sends into whatever m_connection is.
Asked(a) ==
  CASE link[mine].realm \in {"connecting", "up"} /\ ~link[mine].cut ->
         /\ link' = [link EXCEPT ![mine].up = Append(@, [type |-> "playerLogin", account |-> a])]
         /\ UNCHANGED orphaned
    [] link[mine].realm = "failed" ->
         /\ orphaned' = orphaned \union {a}
         /\ UNCHANGED link
    [] OTHER -> UNCHANGED <<link, orphaned>>

AuthSession(i) ==
  LET a == AccountOf[gate[i].client]
  IN  /\ gate[i].here /\ ~gate[i].authed
      /\ IF mine = 0 \/ a \in pending
         THEN /\ gate' = Without(gate, i)
              /\ UNCHANGED <<link, pending, orphaned>>
         ELSE /\ gate' = [gate EXCEPT ![i].account = a, ![i].hash = clientKey[gate[i].client]]
              /\ pending' = pending \union {a}
              /\ Asked(a)
      /\ UNCHANGED <<online, mine, retry, realmId, lobbyVars>>

\* connectionLost: who is in a world waits for the node before it is destroyed.
GuestGoes(i) ==
  /\ gate[i].here
  /\ \/ gate' = Without(gate, i)
     \/ gate[i].authed /\ gate' = [gate EXCEPT ![i].here = FALSE]
  /\ UNCHANGED <<online, link, mine, retry, pending, realmId, orphaned, lobbyVars>>

NodeAnswers(i) ==
  /\ ~gate[i].here
  /\ gate' = Without(gate, i)
  /\ UNCHANGED <<online, link, mine, retry, pending, realmId, orphaned, lobbyVars>>

\* The Player an answer goes to: the first with the account's name.
NamedLike(a) == {i \in DOMAIN gate : gate[i].account = a}

HandleLoginResult ==
  /\ Head(link[mine].down).type = "loginResult"
  /\ realmId' = Head(link[mine].down).id
  /\ UNCHANGED <<pending, gate, orphaned>>

RequestKept(a) == pending
RequestsWithout(a) == pending \ {a}

\* loginSucceeded: nothing happens when the client's hash was made with another key.
HandleSuccess ==
  LET m == Head(link[mine].down)
  IN  /\ m.type = "success"
      /\ gate' = IF NamedLike(m.account) # {} /\ gate[First(NamedLike(m.account))].hash = m.key
                 THEN [gate EXCEPT ![First(NamedLike(m.account))].authed = TRUE]
                 ELSE gate
      /\ pending' = RequestsWithout(m.account)
      /\ orphaned' = orphaned \ {m.account}
      /\ UNCHANGED realmId

\* loginFailed destroys the Player, whatever it is doing.
HandleFailure ==
  LET m == Head(link[mine].down)
  IN  /\ m.type = "failure"
      /\ gate' = IF NamedLike(m.account) = {} THEN gate
                 ELSE Without(gate, First(NamedLike(m.account)))
      /\ pending' = RequestsWithout(m.account)
      /\ orphaned' = orphaned \ {m.account}
      /\ UNCHANGED realmId

RealmHandles ==
  /\ mine # 0
  /\ link[mine].realm = "up" /\ link[mine].down # <<>>
  /\ link' = [link EXCEPT ![mine].down = Tail(@)]
  /\ HandleLoginResult \/ HandleSuccess \/ HandleFailure
  /\ UNCHANGED <<online, mine, retry, lobbyVars>>

Gate ==
  \/ \E c \in Client : GuestConnects(c)
  \/ \E i \in DOMAIN gate : AuthSession(i) \/ GuestGoes(i) \/ NodeAnswers(i)

Connects == Established \/ ConnectFails
Links == \E k \in DOMAIN link : Cut(k) \/ LoginSideLost(k) \/ LoginSideTimeout(k)

LoginNext ==
  \/ Lobby \/ Gate \/ Links
  \/ TryConnect \/ Connects \/ RealmSideLost \/ RealmHandles
  \/ \E k \in DOMAIN link : LoginHandles(k)

LoginSpec == LoginInit /\ [][LoginNext]_loginVars
LoginFairness ==
  /\ WF_loginVars(RealmHandles)
  /\ WF_loginVars(RealmSideLost)
  /\ WF_loginVars(Connects)
  /\ \A k \in LinkId : WF_loginVars(k \in DOMAIN link /\ LoginHandles(k))
LoginFairSpec == LoginSpec /\ LoginFairness

-----------------------------------------------------------------------------
(* Properties. *)

(* Only one Realm object is listed for the realm's name, also while a dead
   connection of it has not been noticed yet and the realm has come back
   over a new one (Realm::handleLogin). *)
OneListedRealm ==
  \A j, k \in DOMAIN link : link[j].login = "authed" /\ link[k].login = "authed" => j = k

(* The database says offline only when no Realm is listed: the end of an old
   or refused connection does not hide a realm that is back
   (Realm::connectionLost).  The converse fails: see LoginSideTimeout. *)
OfflineMeansGone ==
  ~online => \A k \in DOMAIN link : link[k].login # "authed"

(* The list of realms and the column `online` follow the links, in whatever
   order these break, are noticed and are made again. *)
RealmListed == OneListedRealm /\ OfflineMeansGone

QuestionsOf(a) == {n \in DOMAIN link[mine].up : link[mine].up[n] = [type |-> "playerLogin", account |-> a]}
AnswersTo(a) == {n \in DOMAIN link[mine].down :
  link[mine].down[n].type \in {"success", "failure"} /\ link[mine].down[n].account = a}
UnderWay(a) == Cardinality(QuestionsOf(a)) + Cardinality(AnswersTo(a))

(* On a working link an account is in m_loginRequests exactly while its
   question or its answer is under way, and never twice: no answer meets a
   request it does not belong to (LoginConnector::playerLoginRequest).
   Accounts whose request went down with an earlier link are left out; they
   stay pending (orphaned). *)
PendingIsAsked ==
  mine # 0 /\ ~link[mine].cut =>
    \A a \in Account \ orphaned : UnderWay(a) = (IF a \in pending THEN 1 ELSE 0)

(* A request ends, or the link it was sent over is lost, or the login server
   ignored it: nobody waits for an answer that the login server owes
   (Realm::handlePlayerLogin, LoginConnector). *)
RequestsEnd ==
  \A a \in Account : a \in pending ~> (a \notin pending \/ a \in orphaned)
=============================================================================
