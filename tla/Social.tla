------------------------------- MODULE Social -------------------------------
(***************************************************************************)
(* Friends and ignored players of one client at the realm: the list the    *)
(* realm's Player keeps for the character in the world, the table          *)
(* character_social, which is written partly by the event loop and partly  *)
(* by the database thread, and the ignore list of the world node.          *)
(*                                                                         *)
(* A request to the database thread is one entry of `work`, its result one *)
(* of `answers`; both are served in order.  Handlers that ask it return    *)
(* Block, which does not stop the connection from parsing what arrives     *)
(* next, so that further packets are handled before the answer.            *)
(***************************************************************************)
EXTENDS Integers, Sequences, FiniteSets

CONSTANTS
  Own, NoOne,        \* characters of the account; m_characterId = 0
  Contact, Enemy,    \* other characters, and those of the other faction
  MaxUnderWay        \* bound: requests and answers under way

ASSUME SocialAssumption ==
  /\ NoOne \notin Own
  /\ Enemy \subseteq Contact
  /\ MaxUnderWay \in Nat

Flag == {"Friend", "Ignored"}
Row == [owner : Own \union {NoOne}, contact : Contact, flags : (SUBSET Flag) \ {{}}]
Task == [op : {"find"}, use : Flag, contact : Contact, alive : BOOLEAN]
          \union [op : {"insert", "update"}, owner : Own \union {NoOne}, contact : Contact, alive : BOOLEAN]
          \union [op : {"delete"}, contact : Contact]
\* alive: the Player that asked still exists.
Answer == [op : {"found"}, use : Flag, contact : Contact, alive : BOOLEAN]
            \union [op : {"written"}, ok : BOOLEAN, contact : Contact, alive : BOOLEAN]

VARIABLES
  who,       \* Player::m_characterId
  place,     \* how far the character is in a world
  contacts,  \* PlayerSocial::m_contacts
  node,      \* world node: Player::m_ignoredGUIDs
  rows,      \* table character_social
  work,      \* requests to the database thread
  answers,   \* results posted to the event loop
  deleted,   \* contacts whose character was deleted
  nodeCrashed, \* a null pointer was used
  torn       \* history: whose entry was touched while a write of it was under way

socialVars == <<who, place, contacts, node, rows, work, answers, deleted, nodeCrashed, torn>>

(* Types. *)
SocialTypeOK ==
  /\ who \in Own \union {NoOne}
  /\ place \in {"out", "entering", "in", "moving", "arriving"}
  /\ (who = NoOne) <=> (place = "out")
  /\ contacts \in [Contact -> SUBSET Flag]
  /\ node \subseteq Contact
  /\ rows \subseteq Row
  /\ work \in Seq(Task) /\ answers \in Seq(Answer)
  /\ deleted \subseteq Contact
  /\ nodeCrashed \in BOOLEAN
  /\ torn \subseteq (Own \union {NoOne}) \X Contact

Nobody == [c \in Contact |-> {}]

SocialInit ==
  /\ who = NoOne /\ place = "out"
  /\ contacts = Nobody /\ node = {}
  /\ rows = {}
  /\ work = <<>> /\ answers = <<>>
  /\ deleted = {}
  /\ nodeCrashed = FALSE
  /\ torn = {}

-----------------------------------------------------------------------------
(* The table.  Its primary key is (guid_1, guid_2, flags). *)

RowsOf(o, c) == {r \in rows : r.owner = o /\ r.contact = c}
RowFor(o, c, flags) == [owner |-> o, contact |-> c, flags |-> flags]

\* addCharacterSocialContact fails on a duplicate key, and so does an update
\* that would make two rows equal.
InsertFails(o, c, flags) == RowFor(o, c, flags) \in rows
Inserted(o, c, flags) == rows \union {RowFor(o, c, flags)}
UpdateFails(o, c) == Cardinality(RowsOf(o, c)) > 1
Updated(o, c, flags) ==
  IF UpdateFails(o, c) \/ RowsOf(o, c) = {} THEN rows
  ELSE (rows \ RowsOf(o, c)) \union {RowFor(o, c, flags)}
Removed(o, c) == rows \ RowsOf(o, c)

\* A write about c that is not finished.
WritesOf(c) ==
  {n \in DOMAIN work : work[n].op # "find" /\ work[n].contact = c}
    \union {n \in DOMAIN answers : answers[n].op = "written" /\ answers[n].contact = c}

\* torn, when the entry of c in the list of o is used.
TornBy(o, c) == torn \union {<<o, d>> : d \in {e \in {c} : WritesOf(e) # {}}}

HasRoom == Len(work) + Len(answers) < MaxUnderWay
HasNode == place \in {"in", "arriving"}

-----------------------------------------------------------------------------
(* Entering and leaving. *)

LoadedFlags(flags) == {IF "Friend" \in flags THEN "Friend" ELSE "Ignored"}

\* handlePlayerLogin loads the list; of a contact who is both it adds the friend.
PlayerLogin(x) ==
  /\ place = "out"
  /\ who' = x /\ place' = "entering"
  /\ contacts' = [c \in Contact |-> UNION {LoadedFlags(r.flags) : r \in RowsOf(x, c)}]
  /\ torn' = torn \union {<<x, c>> : c \in {d \in Contact : WritesOf(d) # {}}}
  /\ UNCHANGED <<node, rows, work, answers, deleted, nodeCrashed>>

Ignored == {c \in Contact : "Ignored" \in contacts[c]}

WorldInstanceEntered ==
  /\ place \in {"entering", "arriving"}
  /\ place' = "in"
  /\ node' = node \union Ignored
  /\ UNCHANGED <<who, contacts, rows, work, answers, deleted, nodeCrashed, torn>>

LeftForLogout ==
  /\ place = "in"
  /\ who' = NoOne /\ place' = "out"
  /\ contacts' = Nobody /\ node' = {}
  /\ UNCHANGED <<rows, work, answers, deleted, nodeCrashed, torn>>

LeftForTeleport ==
  /\ place = "in"
  /\ place' = "moving"
  /\ node' = {}
  /\ UNCHANGED <<who, contacts, rows, work, answers, deleted, nodeCrashed, torn>>

MoveWorldPortAck ==
  /\ place = "moving"
  /\ place' = "arriving"
  /\ UNCHANGED <<who, contacts, node, rows, work, answers, deleted, nodeCrashed, torn>>

Orphan(s) == [n \in DOMAIN s |-> IF s[n].op = "delete" THEN s[n] ELSE [s[n] EXCEPT !.alive = FALSE]]

\* The Player is destroyed, at once or when its node has answered; the client
\* connects again as another Player.
ClientLost ==
  /\ who' = NoOne /\ place' = "out"
  /\ contacts' = Nobody /\ node' = {}
  /\ work' = Orphan(work) /\ answers' = Orphan(answers)
  /\ UNCHANGED <<rows, deleted, nodeCrashed, torn>>

-----------------------------------------------------------------------------
(* Packets of the client. *)

\* handleAddFriend and handleAddIgnore
AskFor(use, c) ==
  /\ HasNode /\ HasRoom
  /\ work' = Append(work, [op |-> "find", use |-> use, contact |-> c, alive |-> TRUE])
  /\ UNCHANGED <<who, place, contacts, node, rows, answers, deleted, nodeCrashed, torn>>

RowsGone(c, flag) == Removed(who, c)
RowsWithout(c, flag) ==
  IF contacts[c] \ {flag} = {} THEN Removed(who, c)
  ELSE Updated(who, c, contacts[c] \ {flag})

\* The result is Removed for every known contact, whatever it was known as.
DeleteFriend(c) ==
  /\ HasNode
  /\ contacts[c] # {}
  /\ contacts' = [contacts EXCEPT ![c] = @ \ {"Friend"}]
  /\ rows' = RowsWithout(c, "Friend")
  /\ torn' = TornBy(who, c)
  /\ UNCHANGED <<who, place, node, work, answers, deleted, nodeCrashed>>

NodeWithout(c) == node \ {c}

DeleteIgnore(c) ==
  /\ HasNode
  /\ contacts[c] # {}
  /\ contacts' = [contacts EXCEPT ![c] = @ \ {"Ignored"}]
  /\ rows' = RowsWithout(c, "Ignored")
  /\ node' = NodeWithout(c)
  /\ torn' = TornBy(who, c)
  /\ UNCHANGED <<who, place, work, answers, deleted, nodeCrashed>>

\* handleCharDelete of another client: it reaches the list of everybody who
\* is online, not the node.
ContactDeleted(c) ==
  /\ c \notin deleted /\ HasRoom
  /\ deleted' = deleted \union {c}
  /\ contacts' = [contacts EXCEPT ![c] = {}]
  /\ work' = Append(work, [op |-> "delete", contact |-> c])
  /\ torn' = TornBy(who, c)
  /\ UNCHANGED <<who, place, node, rows, answers, nodeCrashed>>

-----------------------------------------------------------------------------
(* The database thread. *)

Find(t) ==
  /\ t.op = "find"
  /\ answers' = Append(answers, [op |-> "found", use |-> t.use, contact |-> t.contact, alive |-> t.alive])
  /\ UNCHANGED rows

Write(t) ==
  /\ t.op \in {"insert", "update"}
  /\ LET fails == IF t.op = "insert" THEN InsertFails(t.owner, t.contact, {"Ignored"})
                  ELSE UpdateFails(t.owner, t.contact)
     IN  answers' = Append(answers, [op |-> "written", ok |-> ~fails, contact |-> t.contact, alive |-> t.alive])
  /\ rows' = IF t.op = "insert" THEN Inserted(t.owner, t.contact, {"Ignored"})
             ELSE Updated(t.owner, t.contact, Flag)

DeleteContact(t) ==
  /\ t.op = "delete"
  /\ rows' = {r \in rows : r.contact # t.contact}
  /\ UNCHANGED answers

DatabaseThread ==
  /\ work # <<>>
  /\ work' = Tail(work)
  /\ Find(Head(work)) \/ Write(Head(work)) \/ DeleteContact(Head(work))
  /\ UNCHANGED <<who, place, contacts, node, deleted, nodeCrashed, torn>>

-----------------------------------------------------------------------------
(* Answers.  Whoever is in the world by now gets them. *)

\* handleAddFriendRequest writes at once; without a character it uses a null pointer.
FoundFriend(a) ==
  /\ a.op = "found" /\ a.use = "Friend" /\ a.alive
  /\ LET c == a.contact
         new == c \notin Enemy /\ "Friend" \notin contacts[c]
     IN  IF who = NoOne
         THEN nodeCrashed' = TRUE /\ UNCHANGED <<contacts, rows, torn>>
         ELSE /\ contacts' = IF new THEN [contacts EXCEPT ![c] = @ \union {"Friend"}] ELSE contacts
              /\ rows' = CASE ~new -> rows
                           [] new /\ "Ignored" \in contacts[c] -> Updated(who, c, Flag)
                           [] OTHER -> Inserted(who, c, {"Friend"})
              /\ torn' = IF new THEN TornBy(who, c) ELSE torn
              /\ UNCHANGED nodeCrashed
  /\ UNCHANGED <<node, work>>

\* handleAddIgnoreRequest asks the database thread to write.
FoundIgnored(a) ==
  /\ a.op = "found" /\ a.use = "Ignored" /\ a.alive
  /\ LET c == a.contact
     IN  IF "Ignored" \in contacts[c]
         THEN UNCHANGED <<contacts, work, torn>>
         ELSE /\ contacts' = [contacts EXCEPT ![c] = @ \union {"Ignored"}]
              /\ work' = Append(work, [op |-> IF "Friend" \in contacts[c] THEN "update" ELSE "insert",
                                       owner |-> who, contact |-> c, alive |-> TRUE])
              /\ torn' = TornBy(who, c)
  /\ UNCHANGED <<node, rows, nodeCrashed>>

\* handleAddIgnoreResponse
IgnoreWritten(a) ==
  /\ a.op = "written" /\ a.alive
  /\ nodeCrashed' = (a.ok /\ ~HasNode)
  /\ node' = IF a.ok /\ HasNode THEN node \union {a.contact} ELSE node
  /\ UNCHANGED <<contacts, rows, work, torn>>

Unheard(a) ==
  /\ ~a.alive
  /\ UNCHANGED <<contacts, rows, work, torn, node, nodeCrashed>>

HandleAnswer ==
  /\ answers # <<>>
  /\ answers' = Tail(answers)
  /\ \/ FoundFriend(Head(answers)) \/ FoundIgnored(Head(answers))
     \/ IgnoreWritten(Head(answers)) \/ Unheard(Head(answers))
  /\ UNCHANGED <<who, place, deleted>>

Travel ==
  \/ \E x \in Own : PlayerLogin(x)
  \/ WorldInstanceEntered \/ LeftForLogout \/ LeftForTeleport \/ MoveWorldPortAck \/ ClientLost

ClientPacket ==
  \E c \in Contact : (\E use \in Flag : AskFor(use, c)) \/ DeleteFriend(c) \/ DeleteIgnore(c) \/ ContactDeleted(c)

SocialNext == ~nodeCrashed /\ (Travel \/ ClientPacket \/ DatabaseThread \/ HandleAnswer)
SocialSpec == SocialInit /\ [][SocialNext]_socialVars

-----------------------------------------------------------------------------
(* Properties. *)

Settled(c) == WritesOf(c) = {} /\ <<who, c>> \notin torn

(* Whatever was added, removed, switched, loaded or deleted one after the
   other: the table holds the list of the character in the world, so that the
   next login shows what the player saw.  The one exception the code makes is
   a contact who was both when the list was loaded. *)
StoredAsShown ==
  place # "out" /\ ~nodeCrashed =>
    \A c \in Contact : Settled(c) =>
      \/ {r.flags : r \in RowsOf(who, c)} = {contacts[c]} \ {{}}
      \/ contacts[c] = {"Friend"} /\ {r.flags : r \in RowsOf(who, c)} = {Flag}

(* The world node ignores exactly the characters the list says, wherever the
   character was teleported; a deleted character is not taken off its list. *)
NodeIgnoresAsShown ==
  place = "in" /\ ~nodeCrashed =>
    \A c \in Contact \ deleted : Settled(c) => (c \in node <=> c \in Ignored)

(* Table and node follow the list that the player sees (PlayerSocial). *)
ContactsAgree == StoredAsShown /\ NodeIgnoresAsShown

(* deleteFriend removes the contact "as he is neither ignored nor a friend":
   the table does not call him ignored, either. *)
RemovedIsNeither ==
  [][\A c \in Contact :
       DeleteFriend(c) /\ Settled(c) /\ RowsOf(who, c)' = {}
         => \A r \in RowsOf(who, c) : "Ignored" \notin r.flags]_socialVars
=============================================================================
