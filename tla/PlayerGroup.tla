---------------------------- MODULE PlayerGroup ----------------------------
(***************************************************************************)
(* Player groups of the realm server: the PlayerGroup objects, the group   *)
(* handlers of the realm's Player, the copies of a character's group id    *)
(* kept by the world node and by the database, and a restart of the realm. *)
(*                                                                         *)
(* A character stands for its realm Player as well (one session each).     *)
(* The realm handles packets one at a time on one thread, so a handler is  *)
(* one atomic action.  A realm-to-world message is applied at once; what a *)
(* world node sends back when a character leaves it is in flight until     *)
(* HandleLeft, and everything else may happen in between: what the realm   *)
(* tells the node of such a character is lost.  A character may move to    *)
(* another node, with the copy of its data that the first has sent back.   *)
(***************************************************************************)
EXTENDS Integers, FiniteSets

CONSTANTS
  Char,                 \* character guids; std::map orders members by guid
  MaxGroups,            \* bound: highest group id the generator hands out
  NormalMax, RaidMax,   \* size limits of the two group types (5 and 40)
  MaxRestarts,          \* bound: number of restarts of the realm process
  MaxRequests,            \* bound: logins and invitations together
  RemoveStatementFails  \* whether IDatabase::removeGroupMember throws

ASSUME CharAssumption == Char \subseteq Nat \ {0} /\ IsFiniteSet(Char)
ASSUME BoundAssumption == MaxGroups \in Nat /\ MaxRestarts \in Nat /\ MaxRequests \in Nat
ASSUME SizeAssumption == NormalMax \in Nat /\ RaidMax \in Nat /\ NormalMax >= 2
ASSUME RemoveAssumption == RemoveStatementFails \in BOOLEAN

NoChar == 0
NoGroup == 0
GroupId == 1 .. MaxGroups

\* First id of the group id generator: 0 means "no group".
FirstIdZero == 0
FirstId == 1

VARIABLES
  \* PlayerGroup objects.  One that left GroupsById lives on while some
  \* player's m_group points to it, so its fields are kept.
  leader, members, assistants, invited, raid,
  registered,    \* ids in PlayerGroup::GroupsById
  nextId,        \* IdGenerator::m_nextId
  \* Realm Player objects
  session,       \* how far the character is in the world
  group,         \* Player::m_group
  \* World node
  worldGroup,    \* group id of the character on its node, or, on the way to the
                 \* next, in the realm's copy of its data (m_gameCharacter)
  left,          \* removed from the node, WorldInstanceLeft is in flight
  \* Database
  rowLeader,     \* `group`.`leader`; NoChar when there is no row
  rowMembers,    \* guids in `group_members`
  lastGroup,     \* `character`.`last_group`
  restarts, requests  \* counters for the bounds

objects == <<leader, members, assistants, invited, raid>>
tables == <<rowLeader, rowMembers>>
vars == <<leader, members, assistants, invited, raid, registered, nextId,
          session, group, worldGroup, left, rowLeader, rowMembers, lastGroup,
          restarts, requests>>

\* moving: between two nodes (TransferPending); lost: without a client, waiting
\* for a node that has nothing to send.  A character who moves counts as in the
\* world again from handleMoveWorldPortAck, which sets m_worldNode.
SessionState == {"idle", "entering", "inWorld", "leaving", "moving", "lost"}

TypeOK ==
  /\ leader \in [GroupId -> Char \cup {NoChar}]
  /\ members \in [GroupId -> SUBSET Char]
  /\ assistants \in [GroupId -> SUBSET Char]
  /\ invited \in [GroupId -> SUBSET Char]
  /\ raid \in [GroupId -> BOOLEAN]
  /\ registered \subseteq GroupId
  /\ nextId \in 1 .. MaxGroups + 1
  /\ session \in [Char -> SessionState]
  /\ group \in [Char -> GroupId \cup {NoGroup}]
  /\ worldGroup \in [Char -> GroupId \cup {NoGroup}]
  /\ left \in [Char -> BOOLEAN]
  /\ rowLeader \in [GroupId -> Char \cup {NoChar}]
  /\ rowMembers \in [GroupId -> SUBSET Char]
  /\ lastGroup \in [Char -> GroupId \cup {NoGroup}]
  /\ restarts \in 0 .. MaxRestarts
  /\ requests \in 0 .. MaxRequests

Init ==
  /\ leader = [g \in GroupId |-> NoChar]
  /\ members = [g \in GroupId |-> {}]
  /\ assistants = [g \in GroupId |-> {}]
  /\ invited = [g \in GroupId |-> {}]
  /\ raid = [g \in GroupId |-> FALSE]
  /\ registered = {}
  /\ nextId = FirstId
  /\ session = [c \in Char |-> "idle"]
  /\ group = [c \in Char |-> NoGroup]
  /\ worldGroup = [c \in Char |-> NoGroup]
  /\ left = [c \in Char |-> FALSE]
  /\ rowLeader = [g \in GroupId |-> NoChar]
  /\ rowMembers = [g \in GroupId |-> {}]
  /\ lastGroup = [c \in Char |-> NoGroup]
  /\ restarts = 0
  /\ requests = 0

-----------------------------------------------------------------------------
(* Lookups *)

\* PlayerManager::getPlayerByCharacterGuid finds the character's player.
Online(c) == session[c] # "idle"

\* Player::getWorldNode is not null.
HasNode(c) == session[c] \in {"inWorld", "leaving"}

\* The node still has the character: messages about it are not dropped.
OnNode(c) == HasNode(c) /\ ~left[c]

\* The client may send the packets that need SessionStatus LoggedIn.
LoggedIn(c) == session[c] = "inWorld"

IsFullTooLate(g) ==
  Cardinality(members[g]) > IF raid[g] THEN RaidMax ELSE NormalMax
IsFull(g) == Cardinality(members[g]) >= IF raid[g] THEN RaidMax ELSE NormalMax

IsLeaderOrAssistant(g, c) ==
  c \in members[g] /\ (c = leader[g] \/ c \in assistants[g])

\* characterGroupChanged: the node learns a character's group, if it has it.
NobodyTold(c, g) == worldGroup
WorldTold(c, g) ==
  IF OnNode(c) THEN [worldGroup EXCEPT ![c] = g] ELSE worldGroup

\* The objects after a step that may drop references: one that is neither in
\* GroupsById nor any player's m_group is destroyed (shared_ptr).
KeepObjects(ldr, mem, ast, inv) ==
  LET live == registered' \cup {group'[c] : c \in Char}
  IN  /\ leader' = [g \in GroupId |-> IF g \in live THEN ldr[g] ELSE NoChar]
      /\ members' = [g \in GroupId |-> IF g \in live THEN mem[g] ELSE {}]
      /\ assistants' = [g \in GroupId |-> IF g \in live THEN ast[g] ELSE {}]
      /\ invited' = [g \in GroupId |-> IF g \in live THEN inv[g] ELSE {}]
      /\ raid' = [g \in GroupId |-> g \in live /\ raid[g]]

-----------------------------------------------------------------------------
(* Operations of PlayerGroup *)

\* disband for every group of gs (at most one): the row goes, and its members
\* who are on a node are told there.  m_members and m_invited are kept.
\* (worldGroup has no meaning, and is NoGroup, for a character who is not in.)
Disband(gs) ==
  LET told == UNION {members[g] : g \in gs}
  IN  /\ registered' = registered \ gs
      /\ rowLeader' = [g \in GroupId |-> IF g \in gs THEN NoChar ELSE rowLeader[g]]
      /\ rowMembers' = [g \in GroupId |-> IF g \in gs THEN {} ELSE rowMembers[g]]
      /\ worldGroup' = [c \in Char |->
           IF session'[c] = "idle" \/ (c \in told /\ OnNode(c)) THEN NoGroup
           ELSE worldGroup[c]]

\* The players that disband resets: the online members, whatever m_group is.
ResetBy(gs) == {c \in UNION {members[g] : g \in gs} : Online(c)}

\* The generator after the realm has notified it of every stored id.
ForgottenIds(rows, n) == n = FirstId
NextIdAfter(rows, n) ==
  /\ n = FirstId \/ n - 1 \in rows
  /\ \A g \in rows : g < n

\* Loading every group from the tables, as the realm does when it starts.
\* Group type, assistants and invitations are not stored.
Restart(rl, rm) ==
  LET rows == {g \in GroupId : rl[g] # NoChar}
  IN  /\ restarts < MaxRestarts
      /\ restarts' = restarts + 1
      /\ registered' = rows
      /\ leader' = rl
      /\ members' = [g \in GroupId |-> IF g \in rows THEN {rl[g]} \cup rm[g] ELSE {}]
      /\ assistants' = [g \in GroupId |-> {}]
      /\ invited' = [g \in GroupId |-> {}]
      /\ raid' = [g \in GroupId |-> FALSE]
      /\ \E n \in 1 .. MaxGroups + 1 : NextIdAfter(rows, n) /\ nextId' = n
      /\ session' = [c \in Char |-> "idle"]
      /\ group' = [c \in Char |-> NoGroup]
      /\ worldGroup' = [c \in Char |-> NoGroup]
      /\ left' = [c \in Char |-> FALSE]
      /\ rowLeader' = rl
      /\ rowMembers' = rm
      /\ UNCHANGED <<lastGroup, requests>>

\* The first member that remains takes over from a leader who is removed.
Successor(g, t, n) ==
  IF leader[g] = t
  THEN n \in members[g] \ {t} /\ \A m \in members[g] \ {t} : n <= m
  ELSE n = leader[g]

\* UPDATE `group` SET `leader` touches nothing when the row is gone.
RowLeaderKept(g, n) == rowLeader
RowLeaderAfter(g, n) ==
  [rowLeader EXCEPT ![g] = IF @ = NoChar THEN NoChar ELSE n]

\* IDatabase::removeGroupMember
RowMembersWithout(g, t) == [rowMembers EXCEPT ![g] = @ \ {t}]

\* removeMember with at most two members: the whole group goes.
RemoveFromPair(g) ==
  /\ UNCHANGED session
  /\ Disband({g})
  /\ group' = [c \in Char |-> IF c \in ResetBy({g}) THEN NoGroup ELSE group[c]]
  /\ KeepObjects(leader, members, assistants, invited)
  /\ UNCHANGED <<nextId, left, lastGroup, restarts, requests>>

\* removeMember with three or more.
RemoveFromMany(g, t) ==
  \E n \in Char :
    /\ Successor(g, t, n)
    /\ group' = IF Online(t) THEN [group EXCEPT ![t] = NoGroup] ELSE group
    /\ worldGroup' = WorldTold(t, NoGroup)
    /\ rowLeader' = IF n = leader[g] THEN rowLeader ELSE RowLeaderAfter(g, n)
    /\ rowMembers' = RowMembersWithout(g, t)
    /\ UNCHANGED <<registered, nextId, session, left, lastGroup, restarts, requests>>
    /\ KeepObjects([leader EXCEPT ![g] = n], [members EXCEPT ![g] = @ \ {t}],
                   [assistants EXCEPT ![g] = @ \ {t}], invited)

\* The same when the DELETE statement fails: nothing catches the exception,
\* the realm process ends, and only the change of leader is in the database.
RemoveFromManyThrows(g, t) ==
  \E n \in Char :
    /\ Successor(g, t, n)
    /\ Restart(IF n = leader[g] THEN rowLeader ELSE RowLeaderAfter(g, n),
               rowMembers)

RemoveMember(g, t) ==
  /\ t \in members[g]
  /\ \/ Cardinality(members[g]) <= 2 /\ RemoveFromPair(g)
     \/ /\ Cardinality(members[g]) > 2
        /\ IF RemoveStatementFails THEN RemoveFromManyThrows(g, t)
                                   ELSE RemoveFromMany(g, t)

\* declineGroupInvite for c: the group whose invitation is given up (as a set
\* of at most one), and those of them that removeInvite then disbands.
Declined(c) == {g \in GroupId : g = group[c] /\ c \in invited[g]}
Emptied(c) == {g \in Declined(c) : Cardinality(members[g]) < 2}

\* dropped: the caller resets m_group of c whether or not c was invited.
DeclineInvite(c, dropped) ==
  /\ Disband(Emptied(c))
  /\ group' = [d \in Char |->
       IF d \in ResetBy(Emptied(c)) \/ (d = c /\ (dropped \/ Declined(c) # {}))
       THEN NoGroup ELSE group[d]]
  /\ KeepObjects(leader, members, assistants,
       [g \in GroupId |-> IF g \in Declined(c) THEN invited[g] \ {c}
                                               ELSE invited[g]])

\* m_group of c is reset and nothing else happens to any group.
DropGroup(c) ==
  /\ group' = [group EXCEPT ![c] = NoGroup]
  /\ UNCHANGED <<registered, tables>>
  /\ KeepObjects(leader, members, assistants, invited)

-----------------------------------------------------------------------------
(* Packet handlers of the realm's Player *)

\* handleGroupInvite by a player without a group: the group is created first.
InviteToNewGroup(c, t) ==
  /\ group[c] = NoGroup
  /\ nextId <= MaxGroups
  /\ LET g == nextId
     IN  /\ nextId' = g + 1
         /\ leader' = [leader EXCEPT ![g] = c]
         /\ members' = [members EXCEPT ![g] = {c}]
         /\ assistants' = [assistants EXCEPT ![g] = {}]
         /\ invited' = [invited EXCEPT ![g] = {t}]
         /\ raid' = [raid EXCEPT ![g] = FALSE]
         /\ registered' = registered \cup {g}
         /\ rowLeader' = [rowLeader EXCEPT ![g] = c]
         /\ rowMembers' = [rowMembers EXCEPT ![g] = {}]
         /\ worldGroup' = WorldTold(c, g)
         /\ group' = [group EXCEPT ![c] = g, ![t] = g]
  /\ UNCHANGED <<session, left, lastGroup, restarts>>

InviteToOwnGroup(c, t) ==
  /\ group[c] # NoGroup
  /\ IsLeaderOrAssistant(group[c], c)
  /\ ~IsFull(group[c])
  /\ invited' = [invited EXCEPT ![group[c]] = @ \cup {t}]
  /\ group' = [group EXCEPT ![t] = group[c]]
  /\ UNCHANGED <<leader, members, assistants, raid, registered, nextId, session,
                 worldGroup, left, tables, lastGroup, restarts>>

\* The target is looked up by name and must not point to a group.
GroupInvite(c, t) ==
  /\ LoggedIn(c)
  /\ Online(t)
  /\ group[t] = NoGroup
  /\ requests < MaxRequests
  /\ requests' = requests + 1
  /\ InviteToNewGroup(c, t) \/ InviteToOwnGroup(c, t)

\* handleGroupAccept and addMember.  The invitation is used up even when the
\* group turns out to be full; m_group keeps pointing to the group then.
GroupAccept(c) ==
  /\ LoggedIn(c)
  /\ group[c] # NoGroup
  /\ LET g == group[c]
     IN  /\ c \in invited[g]
         /\ invited' = [invited EXCEPT ![g] = @ \ {c}]
         /\ IF IsFull(g)
            THEN UNCHANGED <<members, assistants, rowMembers, worldGroup>>
            ELSE /\ members' = [members EXCEPT ![g] = @ \cup {c}]
                 /\ assistants' = [assistants EXCEPT ![g] = @ \ {c}]
                 \* INSERT IGNORE: no row, no member (foreign key)
                 /\ rowMembers' = IF rowLeader[g] = NoChar THEN rowMembers
                                  ELSE [rowMembers EXCEPT ![g] = @ \cup {c}]
                 /\ worldGroup' = WorldTold(c, g)
  /\ UNCHANGED <<leader, raid, registered, nextId, session, group, left,
                 rowLeader, lastGroup, restarts, requests>>

GroupDecline(c) ==
  /\ LoggedIn(c)
  /\ Declined(c) # {}
  /\ UNCHANGED session
  /\ DeclineInvite(c, FALSE)
  /\ UNCHANGED <<nextId, left, lastGroup, restarts, requests>>

\* handleGroupUninvite and handleGroupUninviteGUID
GroupUninvite(c, t) ==
  /\ LoggedIn(c)
  /\ group[c] # NoGroup
  /\ IsLeaderOrAssistant(group[c], c)
  /\ ~(c # leader[group[c]] /\ t = leader[group[c]])
  /\ RemoveMember(group[c], t)

\* handleGroupDisband: the player leaves the group
GroupLeave(c) ==
  /\ LoggedIn(c)
  /\ group[c] # NoGroup
  /\ RemoveMember(group[c], c)

GroupSetLeader(c, t) ==
  /\ LoggedIn(c)
  /\ group[c] # NoGroup
  /\ leader[group[c]] = c
  /\ t # c
  /\ t \in members[group[c]]
  /\ leader' = [leader EXCEPT ![group[c]] = t]
  /\ rowLeader' = RowLeaderAfter(group[c], t)
  /\ UNCHANGED <<members, assistants, invited, raid, registered, nextId, session,
                 group, worldGroup, left, rowMembers, lastGroup, restarts, requests>>

GroupRaidConvert(c) ==
  /\ LoggedIn(c)
  /\ group[c] # NoGroup
  /\ leader[group[c]] = c
  /\ ~raid[group[c]]
  /\ raid' = [raid EXCEPT ![group[c]] = TRUE]
  /\ UNCHANGED <<leader, members, assistants, invited, registered, nextId,
                 session, group, worldGroup, left, tables, lastGroup, restarts, requests>>

GroupAssistentLeader(c, t, on) ==
  /\ LoggedIn(c)
  /\ group[c] # NoGroup
  /\ raid[group[c]]
  /\ IsLeaderOrAssistant(group[c], c)
  /\ t \in members[group[c]]
  /\ assistants' = [assistants EXCEPT ![group[c]] = IF on THEN @ \cup {t}
                                                          ELSE @ \ {t}]
  /\ UNCHANGED <<leader, members, invited, raid, registered, nextId, session,
                 group, worldGroup, left, tables, lastGroup, restarts, requests>>

-----------------------------------------------------------------------------
(* Entering and leaving the world *)

\* handlePlayerLogin.  m_group is set before the world node is looked up, so a
\* login that finds none has changed it; it is never reset to null here.
PlayerLogin(c, nodeFound) ==
  /\ session[c] = "idle"
  /\ requests < MaxRequests
  /\ requests' = requests + 1
  /\ LET restored == lastGroup[c] \in registered
     IN  /\ group' = IF restored THEN [group EXCEPT ![c] = lastGroup[c]] ELSE group
         /\ session' = IF nodeFound THEN [session EXCEPT ![c] = "entering"]
                                    ELSE session
         /\ worldGroup' = IF ~nodeFound THEN worldGroup
                          ELSE [worldGroup EXCEPT ![c] =
                                  IF restored THEN lastGroup[c] ELSE NoGroup]
  /\ UNCHANGED <<objects, registered, nextId, left, tables, lastGroup, restarts>>

WorldInstanceEntered(c) ==
  /\ session[c] = "entering"
  /\ session' = [session EXCEPT ![c] = "inWorld"]
  /\ UNCHANGED <<objects, registered, nextId, group, worldGroup, left, tables,
                 lastGroup, restarts, requests>>

\* The client's connection is lost.  A player whose instance has a node stays
\* until the node has sent the character back; any other is destroyed at once.
\* The instance of a player who moves is the one the character has left.
ConnectionLost(c, nodeFound) ==
  /\ \/ session[c] = "entering" /\ ~nodeFound
     \/ session[c] = "inWorld" /\ nodeFound
     \/ session[c] = "moving"
  /\ session' = [session EXCEPT ![c] = IF ~nodeFound THEN "idle"
                                       ELSE IF @ = "inWorld" THEN "leaving" ELSE "lost"]
  /\ DeclineInvite(c, ~nodeFound)
  /\ UNCHANGED <<nextId, left, lastGroup, restarts, requests>>

\* A client at the character list goes away: only m_group can remain.
DisconnectIdle(c) ==
  /\ session[c] = "idle"
  /\ group[c] # NoGroup
  /\ DropGroup(c)
  /\ UNCHANGED <<nextId, session, worldGroup, left, lastGroup, restarts, requests>>

\* connectionMalformedPacket, or the node is lost (worldNodeDisconnected; the
\* handler that waits for the login to finish): no invitation is declined.
\* saved: the node still sends the character, and handleCharacterData, which
\* finds no player for it, saves a temporary copy.
Destroyed(c, saved) ==
  /\ session[c] \notin {"idle", "lost"}
  /\ saved => HasNode(c)
  /\ session' = [session EXCEPT ![c] = "idle"]
  /\ DropGroup(c)
  /\ left' = [left EXCEPT ![c] = FALSE]
  /\ lastGroup' = IF saved THEN [lastGroup EXCEPT ![c] = worldGroup[c]] ELSE lastGroup
  /\ worldGroup' = [worldGroup EXCEPT ![c] = NoGroup]
  /\ UNCHANGED <<nextId, restarts, requests>>

\* The node saves the character while it is there.
SaveCharacter(c) ==
  /\ OnNode(c)
  /\ lastGroup[c] # worldGroup[c]
  /\ lastGroup' = [lastGroup EXCEPT ![c] = worldGroup[c]]
  /\ UNCHANGED <<objects, registered, nextId, session, group, worldGroup, left,
                 tables, restarts, requests>>

\* The node removes the character: a logout, a kick, a move to another node, or
\* the realm's request.
WorldLeave(c) ==
  /\ OnNode(c)
  /\ left' = [left EXCEPT ![c] = TRUE]
  /\ UNCHANGED <<objects, registered, nextId, session, group, worldGroup, tables,
                 lastGroup, restarts, requests>>

LeaveReason == {"Logout", "Disconnect", "Teleport"}

\* handleCharacterData and worldInstanceLeft.  A logout declines a pending
\* invitation, a disconnect does not, a move leaves the group alone: its group
\* id is the one the node has sent, whatever the realm has decided since.
\* (Nothing on the way depends on the reason, so it is chosen here.)
HandleLeft(c, reason) ==
  /\ HasNode(c)
  /\ left[c]
  /\ session' = [session EXCEPT ![c] = IF reason # "Teleport" THEN "idle"
                                       ELSE IF @ = "inWorld" THEN "moving" ELSE "lost"]
  /\ lastGroup' = [lastGroup EXCEPT ![c] = worldGroup[c]]
  /\ \/ reason = "Logout" /\ DeclineInvite(c, TRUE)
     \/ /\ reason = "Disconnect"
        /\ DropGroup(c)
        /\ worldGroup' = [worldGroup EXCEPT ![c] = NoGroup]
     \/ reason = "Teleport" /\ UNCHANGED <<objects, registered, group, worldGroup, tables>>
  /\ left' = [left EXCEPT ![c] = FALSE]
  /\ UNCHANGED <<nextId, restarts, requests>>

\* handleMoveWorldPortAck sends the next node the realm's copy of the character.
\* (Without a node for the map, the client is told so and may try again.)
MoveWorldPortAck(c) ==
  /\ session[c] = "moving"
  /\ session' = [session EXCEPT ![c] = "inWorld"]
  /\ UNCHANGED <<objects, registered, nextId, group, worldGroup, left, tables,
                 lastGroup, restarts, requests>>

RealmRestart == Restart(rowLeader, rowMembers)

Next ==
  \/ \E c, t \in Char : GroupInvite(c, t)
  \/ \E c \in Char : GroupAccept(c)
  \/ \E c \in Char : GroupDecline(c)
  \/ \E c, t \in Char : GroupUninvite(c, t)
  \/ \E c \in Char : GroupLeave(c)
  \/ \E c, t \in Char : GroupSetLeader(c, t)
  \/ \E c \in Char : GroupRaidConvert(c)
  \/ \E c, t \in Char, on \in BOOLEAN : GroupAssistentLeader(c, t, on)
  \/ \E c \in Char, nodeFound \in BOOLEAN : PlayerLogin(c, nodeFound)
  \/ \E c \in Char : WorldInstanceEntered(c)
  \/ \E c \in Char, nodeFound \in BOOLEAN : ConnectionLost(c, nodeFound)
  \/ \E c \in Char : DisconnectIdle(c)
  \/ \E c \in Char, saved \in BOOLEAN : Destroyed(c, saved)
  \/ \E c \in Char : SaveCharacter(c)
  \/ \E c \in Char : WorldLeave(c)
  \/ \E c \in Char, reason \in LeaveReason : HandleLeft(c, reason)
  \/ \E c \in Char : MoveWorldPortAck(c)
  \/ RealmRestart

Spec == Init /\ [][Next]_vars

-----------------------------------------------------------------------------
(* Properties *)

\* Whoever leaves, is kicked or hands over the lead, and whatever a restart
\* loads: the leader of a group object is one of its members (removeMember,
\* setLeader, createFromDatabase).
LeaderIsMember ==
  \A g \in GroupId : leader[g] # NoChar => leader[g] \in members[g]

\* GroupsById and the `group` table hold the same groups with the same leaders,
\* so that a restart of the realm neither loses nor resurrects a group.
RowsMatchGroups ==
  /\ registered = {g \in GroupId : rowLeader[g] # NoChar}
  /\ \A g \in registered : rowLeader[g] = leader[g]

\* A character who is stored as a member of a group is a member of it: nobody
\* who was removed comes back when the realm loads its groups.
RestartAddsNobody ==
  \A g \in registered : rowMembers[g] \subseteq members[g]

\* Groups in memory and in the tables agree: none of the three parts is
\* inductive alone (GroupsById beside the statements of mysql_database.cpp).
Consistent == LeaderIsMember /\ RowsMatchGroups /\ RestartAddsNobody

\* No order of invitations, acceptances and conversions makes a group larger
\* than its type allows (isFull is only asked when an invitation is sent and
\* when one is accepted, and many may be pending at once).
GroupFitsItsType ==
  \A g \in GroupId :
    Cardinality(members[g]) <= IF raid[g] THEN RaidMax ELSE NormalMax

\* Leadership, tables and the size of a group that becomes a raid agree
\* (PlayerGroup::convertToRaidGroup, isFull).
RaidsAgree == Consistent /\ GroupFitsItsType

\* An id that GroupsById or some player still uses is never handed out again,
\* also after a restart (IdGenerator::notifyId).
FreshIds ==
  \A g \in GroupId :
    (g \in registered \/ \E c \in Char : group[c] = g) => g < nextId
=============================================================================
