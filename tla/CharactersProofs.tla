---------------------------- MODULE CharactersProofs ---------------------------
(***************************************************************************)
(* What three parts of what characters do keep that share no state.        *)
(*                                                                         *)
(* PlayerGroup, for every set of characters and every bound: leaders are   *)
(* members, and the tables describe the groups in memory (Consistent);     *)
(* what nodes know and what was sent to them are kept together.            *)
(*                                                                         *)
(* Auras, for any units, spells and fields: what each list promises by     *)
(* itself (Fit), that what casters remember is there (Remembered) and, for *)
(* spells that are told apart (SpellsApart), that auras have no rivals and *)
(* are remembered (Apart).  Auras that end keep it (RemovedFit, where the  *)
(* list that remains has the others, each once: Thinned); what an aura    *)
(* does as it is applied is the removal of one elsewhere and a change of   *)
(* its unit (GrownHolds), to which the handlers come down in any order of  *)
(* their steps (AppliedSettled, AppliedKills).                             *)
(*                                                                         *)
(* Casting, for any spells and any of their kinds, foes and number of      *)
(* casts: handlers call each other, so each has a lemma that it keeps what *)
(* the casts and the unit promise (Good) and makes no cast (Comes); the    *)
(* end of a cast starts from less (Mid) and mends it.                      *)
(***************************************************************************)
EXTENDS Characters, PlayerGroupHistory, FiniteSetTheorems, TLAPS

-----------------------------------------------------------------------------
(* Groups. *)

USE DEF NoChar, NoGroup

\* The helpers that compute new values of the variables return values of
\* their types.
LEMMA KeepObjectsType ==
  ASSUME TypeOK,
         NEW ldr \in [GroupId -> Char \cup {NoChar}],
         NEW mem \in [GroupId -> SUBSET Char],
         NEW ast \in [GroupId -> SUBSET Char],
         NEW inv \in [GroupId -> SUBSET Char],
         KeepObjects(ldr, mem, ast, inv)
  PROVE  /\ leader' \in [GroupId -> Char \cup {NoChar}]
         /\ members' \in [GroupId -> SUBSET Char]
         /\ assistants' \in [GroupId -> SUBSET Char]
         /\ invited' \in [GroupId -> SUBSET Char]
         /\ raid' \in [GroupId -> BOOLEAN]
  BY DEF KeepObjects, TypeOK

(* Disbanding groups touches the tables and the players only within their types. *)
LEMMA DisbandType ==
  ASSUME TypeOK, NEW gs \in SUBSET GroupId, Disband(gs)
  PROVE  /\ registered' \subseteq GroupId
         /\ rowLeader' \in [GroupId -> Char \cup {NoChar}]
         /\ rowMembers' \in [GroupId -> SUBSET Char]
         /\ worldGroup' \in [Char -> GroupId \cup {NoGroup}]
  BY DEF Disband, TypeOK

(* So does declining an invitation, which may disband the group. *)
LEMMA DeclineType ==
  ASSUME TypeOK, NEW c \in Char, NEW d \in BOOLEAN, DeclineInvite(c, d)
  PROVE  /\ registered' \subseteq GroupId
         /\ rowLeader' \in [GroupId -> Char \cup {NoChar}]
         /\ rowMembers' \in [GroupId -> SUBSET Char]
         /\ worldGroup' \in [Char -> GroupId \cup {NoGroup}]
         /\ group' \in [Char -> GroupId \cup {NoGroup}]
         /\ leader' \in [GroupId -> Char \cup {NoChar}]
         /\ members' \in [GroupId -> SUBSET Char]
         /\ assistants' \in [GroupId -> SUBSET Char]
         /\ invited' \in [GroupId -> SUBSET Char]
         /\ raid' \in [GroupId -> BOOLEAN]
<1>1. Emptied(c) \in SUBSET GroupId
  BY DEF Emptied, Declined
<1>2. group' \in [Char -> GroupId \cup {NoGroup}]
  BY DEF DeclineInvite, TypeOK
<1> DEFINE inv == [g \in GroupId |-> IF g \in Declined(c) THEN invited[g] \ {c}
                                                         ELSE invited[g]]
<1>3. inv \in [GroupId -> SUBSET Char]
  BY DEF TypeOK
<1>4. KeepObjects(leader, members, assistants, inv) /\ Disband(Emptied(c))
  BY DEF DeclineInvite
<1> HIDE DEF inv
<1>5. /\ leader \in [GroupId -> Char \cup {NoChar}]
      /\ members \in [GroupId -> SUBSET Char]
      /\ assistants \in [GroupId -> SUBSET Char]
  BY DEF TypeOK
<1>6. /\ leader' \in [GroupId -> Char \cup {NoChar}]
      /\ members' \in [GroupId -> SUBSET Char]
      /\ assistants' \in [GroupId -> SUBSET Char]
      /\ invited' \in [GroupId -> SUBSET Char]
      /\ raid' \in [GroupId -> BOOLEAN]
  BY <1>3, <1>4, <1>5, KeepObjectsType
<1>7. /\ registered' \subseteq GroupId
      /\ rowLeader' \in [GroupId -> Char \cup {NoChar}]
      /\ rowMembers' \in [GroupId -> SUBSET Char]
      /\ worldGroup' \in [Char -> GroupId \cup {NoGroup}]
  BY <1>1, <1>4, DisbandType
<1> QED BY <1>2, <1>6, <1>7

\* A restart with any tables of the right type leaves a state of the right type.
LEMMA RestartType ==
  ASSUME TypeOK,
         NEW rl \in [GroupId -> Char \cup {NoChar}],
         NEW rm \in [GroupId -> SUBSET Char],
         Restart(rl, rm)
  PROVE  TypeOK'
<1>1. nextId' \in 1 .. MaxGroups + 1 /\ registered' \subseteq GroupId
  BY DEF Restart
<1>2. members' \in [GroupId -> SUBSET Char]
  BY DEF Restart
<1>3. restarts' \in 0 .. MaxRestarts
  BY BoundAssumption DEF Restart, TypeOK
<1>4. session' \in [Char -> SessionState]
  BY DEF Restart, SessionState
<1> QED BY <1>1, <1>2, <1>3, <1>4 DEF Restart, TypeOK

(* Removing a member leaves a group, or disbands it. *)
LEMMA RemoveMemberType ==
  ASSUME TypeOK, NEW g \in GroupId, NEW t \in Char, RemoveMember(g, t)
  PROVE  TypeOK'
<1>1. CASE RemoveFromPair(g)
  <2>1. {g} \in SUBSET GroupId
    OBVIOUS
  <2>2. group' \in [Char -> GroupId \cup {NoGroup}]
    BY <1>1 DEF RemoveFromPair, TypeOK
  <2> QED
    BY <1>1, <2>1, <2>2, DisbandType, KeepObjectsType DEF RemoveFromPair, TypeOK
<1>2. CASE RemoveFromMany(g, t)
  <2>1. PICK n \in Char : RemoveFromMany(g, t)!(n)
    BY <1>2 DEF RemoveFromMany
  <2>2. /\ [leader EXCEPT ![g] = n] \in [GroupId -> Char \cup {NoChar}]
        /\ [members EXCEPT ![g] = @ \ {t}] \in [GroupId -> SUBSET Char]
        /\ [assistants EXCEPT ![g] = @ \ {t}] \in [GroupId -> SUBSET Char]
        /\ invited \in [GroupId -> SUBSET Char]
    BY DEF TypeOK
  <2>3. /\ leader' \in [GroupId -> Char \cup {NoChar}]
        /\ members' \in [GroupId -> SUBSET Char]
        /\ assistants' \in [GroupId -> SUBSET Char]
        /\ invited' \in [GroupId -> SUBSET Char]
        /\ raid' \in [GroupId -> BOOLEAN]
    BY <2>1, <2>2, KeepObjectsType
  <2>4. /\ group' \in [Char -> GroupId \cup {NoGroup}]
        /\ worldGroup' \in [Char -> GroupId \cup {NoGroup}]
    BY <2>1 DEF TypeOK, WorldTold
  <2>5. /\ rowLeader' \in [GroupId -> Char \cup {NoChar}]
        /\ rowMembers' \in [GroupId -> SUBSET Char]
    BY <2>1 DEF TypeOK, RowLeaderAfter, RowMembersWithout
  <2> QED BY <2>1, <2>3, <2>4, <2>5 DEF TypeOK
<1>3. CASE RemoveFromManyThrows(g, t)
  <2>1. PICK n \in Char :
          Restart(IF n = leader[g] THEN rowLeader ELSE RowLeaderAfter(g, n),
                  rowMembers)
    BY <1>3 DEF RemoveFromManyThrows
  <2>2. (IF n = leader[g] THEN rowLeader ELSE RowLeaderAfter(g, n))
          \in [GroupId -> Char \cup {NoChar}]
    BY DEF TypeOK, RowLeaderAfter
  <2>3. rowMembers \in [GroupId -> SUBSET Char]
    BY DEF TypeOK
  <2> QED BY <2>1, <2>2, <2>3, RestartType
<1> QED BY <1>1, <1>2, <1>3 DEF RemoveMember

\* Every step keeps the types.
LEMMA NextType ==
  ASSUME TypeOK, [Next]_vars
  PROVE  TypeOK'
<1> USE CharAssumption, BoundAssumption
<1>1. CASE UNCHANGED vars
  BY <1>1 DEF vars, TypeOK
<1>2. ASSUME NEW c \in Char, NEW t \in Char, GroupInvite(c, t) PROVE TypeOK'
  <2>1. requests' \in 0 .. MaxRequests
    BY <1>2 DEF GroupInvite, TypeOK
  <2>2. CASE InviteToNewGroup(c, t)
    <3>1. nextId \in GroupId /\ nextId' \in 1 .. MaxGroups + 1
      BY <2>2 DEF InviteToNewGroup, TypeOK, GroupId
    <3>2. worldGroup' \in [Char -> GroupId \cup {NoGroup}]
      BY <2>2, <3>1 DEF InviteToNewGroup, TypeOK, WorldTold
    <3>3. group' \in [Char -> GroupId \cup {NoGroup}]
      BY <2>2, <3>1 DEF InviteToNewGroup, TypeOK
    <3>4. /\ leader' \in [GroupId -> Char \cup {NoChar}]
          /\ rowLeader' \in [GroupId -> Char \cup {NoChar}]
      BY <2>2, <3>1 DEF InviteToNewGroup, TypeOK
    <3>5. /\ members' \in [GroupId -> SUBSET Char]
          /\ assistants' \in [GroupId -> SUBSET Char]
          /\ invited' \in [GroupId -> SUBSET Char]
      BY <2>2, <3>1 DEF InviteToNewGroup, TypeOK
    <3>6. rowMembers' \in [GroupId -> SUBSET Char] /\ raid' \in [GroupId -> BOOLEAN]
      BY <2>2, <3>1 DEF InviteToNewGroup, TypeOK
    <3>7. registered' \subseteq GroupId
      BY <2>2, <3>1 DEF InviteToNewGroup, TypeOK
    <3> QED
      BY <2>1, <2>2, <3>1, <3>2, <3>3, <3>4, <3>5, <3>6, <3>7
      DEF InviteToNewGroup, TypeOK
  <2>3. CASE InviteToOwnGroup(c, t)
    <3>1. group[c] \in GroupId
      BY <2>3 DEF InviteToOwnGroup, TypeOK
    <3> QED BY <2>1, <2>3, <3>1 DEF InviteToOwnGroup, TypeOK, tables
  <2> QED BY <1>2, <2>2, <2>3 DEF GroupInvite
<1>3. ASSUME NEW c \in Char, GroupAccept(c) PROVE TypeOK'
  <2>1. group[c] \in GroupId
    BY <1>3 DEF GroupAccept, TypeOK
  <2>2. worldGroup' \in [Char -> GroupId \cup {NoGroup}]
    BY <1>3, <2>1 DEF GroupAccept, TypeOK, WorldTold
  <2>3. members' \in [GroupId -> SUBSET Char] /\ assistants' \in [GroupId -> SUBSET Char]
    BY <1>3, <2>1 DEF GroupAccept, TypeOK
  <2>4. rowMembers' \in [GroupId -> SUBSET Char]
    BY <1>3, <2>1 DEF GroupAccept, TypeOK
  <2> QED BY <1>3, <2>1, <2>2, <2>3, <2>4 DEF GroupAccept, TypeOK
<1>4. ASSUME NEW c \in Char, GroupDecline(c) PROVE TypeOK'
  BY <1>4, DeclineType DEF GroupDecline, TypeOK
<1>5. ASSUME NEW c \in Char, NEW t \in Char, GroupUninvite(c, t) PROVE TypeOK'
  <2>1. group[c] \in GroupId
    BY <1>5 DEF GroupUninvite, TypeOK
  <2> QED BY <1>5, <2>1, RemoveMemberType DEF GroupUninvite
<1>6. ASSUME NEW c \in Char, GroupLeave(c) PROVE TypeOK'
  <2>1. group[c] \in GroupId
    BY <1>6 DEF GroupLeave, TypeOK
  <2> QED BY <1>6, <2>1, RemoveMemberType DEF GroupLeave
<1>7. ASSUME NEW c \in Char, NEW t \in Char, GroupSetLeader(c, t) PROVE TypeOK'
  BY <1>7 DEF GroupSetLeader, RowLeaderAfter, TypeOK
<1>8. ASSUME NEW c \in Char, GroupRaidConvert(c) PROVE TypeOK'
  BY <1>8 DEF GroupRaidConvert, TypeOK, tables
<1>9. ASSUME NEW c \in Char, NEW t \in Char, NEW on \in BOOLEAN,
             GroupAssistentLeader(c, t, on)
      PROVE TypeOK'
  BY <1>9 DEF GroupAssistentLeader, TypeOK, tables
<1>10. ASSUME NEW c \in Char, NEW nodeFound \in BOOLEAN, PlayerLogin(c, nodeFound)
       PROVE TypeOK'
  <2>1. lastGroup[c] \in registered => lastGroup[c] \in GroupId
    BY DEF TypeOK
  <2>2. session' \in [Char -> SessionState]
    BY <1>10 DEF PlayerLogin, TypeOK, SessionState
  <2>3. requests' \in 0 .. MaxRequests
    BY <1>10 DEF PlayerLogin, TypeOK
  <2> QED BY <1>10, <2>1, <2>2, <2>3 DEF PlayerLogin, TypeOK, objects, tables
<1>11. ASSUME NEW c \in Char, WorldInstanceEntered(c) PROVE TypeOK'
  BY <1>11 DEF WorldInstanceEntered, TypeOK, objects, tables, SessionState
<1>12. ASSUME NEW c \in Char, NEW nodeFound \in BOOLEAN, ConnectionLost(c, nodeFound)
       PROVE TypeOK'
  <2>1. session' \in [Char -> SessionState]
    BY <1>12 DEF ConnectionLost, TypeOK, SessionState
  <2>2. DeclineInvite(c, ~nodeFound)
    BY <1>12 DEF ConnectionLost
  <2> QED BY <1>12, <2>1, <2>2, DeclineType DEF ConnectionLost, TypeOK
<1>13. ASSUME NEW c \in Char, DisconnectIdle(c) PROVE TypeOK'
  BY <1>13, KeepObjectsType DEF DisconnectIdle, DropGroup, TypeOK, tables
<1>14. ASSUME NEW c \in Char, NEW saved \in BOOLEAN, Destroyed(c, saved) PROVE TypeOK'
  <2>1. session' \in [Char -> SessionState]
    BY <1>14 DEF Destroyed, TypeOK, SessionState
  <2>2. /\ lastGroup' \in [Char -> GroupId \cup {NoGroup}]
        /\ worldGroup' \in [Char -> GroupId \cup {NoGroup}]
    BY <1>14 DEF Destroyed, TypeOK
  <2> QED BY <1>14, <2>1, <2>2, KeepObjectsType DEF Destroyed, DropGroup, TypeOK, tables
<1>15. ASSUME NEW c \in Char, SaveCharacter(c) PROVE TypeOK'
  BY <1>15 DEF SaveCharacter, TypeOK, objects, tables
<1>16. ASSUME NEW c \in Char, WorldLeave(c) PROVE TypeOK'
  BY <1>16 DEF WorldLeave, TypeOK, objects, tables
<1>17. ASSUME NEW c \in Char, NEW reason \in LeaveReason, HandleLeft(c, reason)
       PROVE TypeOK'
  <2>1. session' \in [Char -> SessionState]
    BY <1>17 DEF HandleLeft, TypeOK, SessionState
  <2>2. /\ lastGroup' \in [Char -> GroupId \cup {NoGroup}]
        /\ left' \in [Char -> BOOLEAN]
        /\ UNCHANGED <<nextId, restarts, requests>>
    BY <1>17 DEF HandleLeft, TypeOK
  <2>3. CASE DeclineInvite(c, TRUE)
    BY <2>1, <2>2, <2>3, DeclineType DEF TypeOK
  <2>4. CASE DropGroup(c) /\ worldGroup' = [worldGroup EXCEPT ![c] = NoGroup]
    BY <2>1, <2>2, <2>4, KeepObjectsType DEF DropGroup, TypeOK, tables
  <2>5. CASE UNCHANGED <<objects, registered, group, worldGroup, tables>>
    BY <2>1, <2>2, <2>5 DEF TypeOK, objects, tables
  <2> QED BY <1>17, <2>3, <2>4, <2>5 DEF HandleLeft
<1>18. CASE RealmRestart
  BY <1>18, RestartType DEF RealmRestart, TypeOK
<1>19. ASSUME NEW c \in Char, MoveWorldPortAck(c) PROVE TypeOK'
  BY <1>19 DEF MoveWorldPortAck, TypeOK, objects, tables, SessionState
<1> QED
  BY <1>1, <1>2, <1>3, <1>4, <1>5, <1>6, <1>7, <1>8, <1>9, <1>10, <1>11, <1>12,
     <1>13, <1>14, <1>15, <1>16, <1>17, <1>18, <1>19 DEF Next

\* The type invariant holds in every state the realm reaches.
THEOREM TypeCorrect == Spec => []TypeOK
<1>1. Init => TypeOK
  BY BoundAssumption DEF Init, TypeOK, SessionState, FirstId
<1>2. TypeOK /\ [Next]_vars => TypeOK'
  BY NextType
<1> QED BY <1>1, <1>2, PTL DEF Spec

-----------------------------------------------------------------------------
(* Memory and tables agree.  The three properties are inductive together: the *)
(* leader of a group that a restart loads is a member because the tables name *)
(* the leaders, and the tables do because every change is made in both.       *)

\* Disbanding groups, with or without giving up an invitation.
LEMMA DisbandConsistent ==
  ASSUME TypeOK, Consistent, NEW gs \in SUBSET GroupId, NEW inv, Disband(gs),
         KeepObjects(leader, members, assistants, inv)
  PROVE  Consistent'
<1> USE DEF Consistent, TypeOK
<1>1. LeaderIsMember'
  BY DEF LeaderIsMember, KeepObjects
<1>2. registered' = registered \ gs
  BY DEF Disband
<1>3. \A g \in registered' : leader'[g] = leader[g] /\ members'[g] = members[g]
  BY <1>2 DEF KeepObjects
<1>4. \A g \in GroupId : rowLeader'[g] = IF g \in gs THEN NoChar ELSE rowLeader[g]
  BY DEF Disband
<1>5. \A g \in GroupId : rowMembers'[g] = IF g \in gs THEN {} ELSE rowMembers[g]
  BY DEF Disband
<1>6. RowsMatchGroups'
  BY <1>2, <1>3, <1>4 DEF RowsMatchGroups
<1>7. RestartAddsNobody'
  BY <1>2, <1>3, <1>5 DEF RestartAddsNobody
<1> QED BY <1>1, <1>6, <1>7

(* A declined invitation disbands at most a group nobody is in yet, rows included. *)
LEMMA DeclineConsistent ==
  ASSUME TypeOK, Consistent, NEW c \in Char, NEW d \in BOOLEAN, DeclineInvite(c, d)
  PROVE  Consistent'
<1>1. Emptied(c) \in SUBSET GroupId
  BY DEF Emptied, Declined
<1> QED BY <1>1, DisbandConsistent DEF DeclineInvite

(* A player who drops the pointer to a group changes neither groups nor rows. *)
LEMMA DropConsistent ==
  ASSUME TypeOK, Consistent, NEW c \in Char, DropGroup(c)
  PROVE  Consistent'
<1> USE DEF Consistent, TypeOK
<1>1. LeaderIsMember'
  BY DEF LeaderIsMember, DropGroup, KeepObjects
<1>2. registered' = registered /\ rowLeader' = rowLeader /\ rowMembers' = rowMembers
  BY DEF DropGroup, tables
<1>3. \A g \in registered' : leader'[g] = leader[g] /\ members'[g] = members[g]
  BY <1>2 DEF DropGroup, KeepObjects
<1>4. RowsMatchGroups'
  BY <1>2, <1>3 DEF RowsMatchGroups
<1>5. RestartAddsNobody'
  BY <1>2, <1>3 DEF RestartAddsNobody
<1> QED BY <1>1, <1>4, <1>5

\* Whatever the tables hold, the groups loaded from them agree with them.
LEMMA RestartConsistent ==
  ASSUME NEW rl \in [GroupId -> Char \cup {NoChar}],
         NEW rm \in [GroupId -> SUBSET Char],
         Restart(rl, rm)
  PROVE  Consistent'
<1>1. registered' = {g \in GroupId : rl[g] # NoChar}
  BY DEF Restart
<1>2. /\ leader' = rl /\ rowLeader' = rl /\ rowMembers' = rm
  BY DEF Restart
<1>3. \A g \in registered' : members'[g] = {rl[g]} \cup rm[g]
  BY <1>1 DEF Restart
<1>4. LeaderIsMember'
  BY <1>1, <1>2, <1>3 DEF LeaderIsMember
<1>5. RowsMatchGroups'
  BY <1>1, <1>2 DEF RowsMatchGroups
<1>6. RestartAddsNobody'
  BY <1>1, <1>2, <1>3 DEF RestartAddsNobody
<1> QED BY <1>4, <1>5, <1>6 DEF Consistent

(* removeMember keeps groups and rows in step, whoever leads afterwards. *)
LEMMA RemoveConsistent ==
  ASSUME TypeOK, Consistent, NEW g \in GroupId, NEW t \in Char, RemoveMember(g, t)
  PROVE  Consistent'
<1> USE CharAssumption
<1>1. CASE RemoveFromPair(g)
  BY <1>1, DisbandConsistent DEF RemoveFromPair
<1>2. CASE RemoveFromMany(g, t)
  <2>1. PICK n \in Char : RemoveFromMany(g, t)!(n)
    BY <1>2 DEF RemoveFromMany
  <2>2. registered' = registered
    BY <2>1
  <2>3. n # NoChar /\ n \in members[g] \ {t}
    BY <2>1 DEF Successor, Consistent, LeaderIsMember, TypeOK
  <2>4. \A h \in GroupId :
          h \in registered' \cup {group'[c] : c \in Char} =>
            /\ leader'[h] = IF h = g THEN n ELSE leader[h]
            /\ members'[h] = IF h = g THEN members[g] \ {t} ELSE members[h]
    BY <2>1 DEF KeepObjects, TypeOK
  <2>5. \A h \in GroupId :
          h \notin registered' \cup {group'[c] : c \in Char} => leader'[h] = NoChar
    BY <2>1 DEF KeepObjects, TypeOK
  <2>6. LeaderIsMember'
    BY <2>3, <2>4, <2>5 DEF LeaderIsMember, Consistent
  <2>7. \A h \in GroupId :
          rowLeader'[h] = IF h = g /\ rowLeader[g] # NoChar /\ n # leader[g]
                          THEN n ELSE rowLeader[h]
    BY <2>1 DEF RowLeaderAfter, TypeOK
  <2>8. RowsMatchGroups'
    BY <2>2, <2>3, <2>4, <2>7 DEF RowsMatchGroups, Consistent, TypeOK
  <2>9. \A h \in GroupId :
          rowMembers'[h] = IF h = g THEN rowMembers[g] \ {t} ELSE rowMembers[h]
    BY <2>1 DEF RowMembersWithout, TypeOK
  <2>10. RestartAddsNobody'
    BY <2>2, <2>4, <2>9 DEF RestartAddsNobody, Consistent, TypeOK
  <2> QED BY <2>6, <2>8, <2>10 DEF Consistent
<1>3. CASE RemoveFromManyThrows(g, t)
  <2>1. PICK n \in Char :
          Restart(IF n = leader[g] THEN rowLeader ELSE RowLeaderAfter(g, n),
                  rowMembers)
    BY <1>3 DEF RemoveFromManyThrows
  <2>2. (IF n = leader[g] THEN rowLeader ELSE RowLeaderAfter(g, n))
          \in [GroupId -> Char \cup {NoChar}]
    BY DEF TypeOK, RowLeaderAfter
  <2>3. rowMembers \in [GroupId -> SUBSET Char]
    BY DEF TypeOK
  <2> QED BY <2>1, <2>2, <2>3, RestartConsistent
<1> QED BY <1>1, <1>2, <1>3 DEF RemoveMember

\* A step that touches neither groups nor tables.
LEMMA OtherConsistent ==
  ASSUME Consistent,
         UNCHANGED <<leader, members, registered, rowLeader, rowMembers>>
  PROVE  Consistent'
  BY DEF Consistent, LeaderIsMember, RowsMatchGroups, RestartAddsNobody

(* Every step keeps groups and tables in step. *)
LEMMA NextConsistent ==
  ASSUME TypeOK, Consistent, [Next]_vars
  PROVE  Consistent'
<1> USE CharAssumption
<1>1. CASE UNCHANGED vars
  BY <1>1, OtherConsistent DEF vars
<1>2. ASSUME NEW c \in Char, NEW t \in Char, GroupInvite(c, t) PROVE Consistent'
  <2>1. CASE InviteToNewGroup(c, t)
    <3> DEFINE g == nextId
    <3>1. g \in GroupId
      BY <2>1 DEF InviteToNewGroup, TypeOK, GroupId
    <3>2. /\ leader' = [leader EXCEPT ![g] = c]
          /\ members' = [members EXCEPT ![g] = {c}]
          /\ registered' = registered \cup {g}
          /\ rowLeader' = [rowLeader EXCEPT ![g] = c]
          /\ rowMembers' = [rowMembers EXCEPT ![g] = {}]
      BY <2>1 DEF InviteToNewGroup
    <3> HIDE DEF g
    <3>3. LeaderIsMember'
      BY <3>1, <3>2 DEF LeaderIsMember, Consistent, TypeOK
    <3>4. RowsMatchGroups'
      BY <3>1, <3>2 DEF RowsMatchGroups, Consistent, TypeOK
    <3>5. RestartAddsNobody'
      BY <3>1, <3>2 DEF RestartAddsNobody, Consistent, TypeOK
    <3> QED BY <3>3, <3>4, <3>5 DEF Consistent
  <2>2. CASE InviteToOwnGroup(c, t)
    BY <2>2, OtherConsistent DEF InviteToOwnGroup, tables
  <2> QED BY <1>2, <2>1, <2>2 DEF GroupInvite
<1>3. ASSUME NEW c \in Char, GroupAccept(c) PROVE Consistent'
  <2>1. group[c] \in GroupId
    BY <1>3 DEF GroupAccept, TypeOK
  <2>2. CASE IsFull(group[c])
    BY <1>3, <2>2, OtherConsistent DEF GroupAccept
  <2>3. CASE ~IsFull(group[c])
    <3>1. /\ members' = [members EXCEPT ![group[c]] = @ \cup {c}]
          /\ rowMembers' = IF rowLeader[group[c]] = NoChar THEN rowMembers
                           ELSE [rowMembers EXCEPT ![group[c]] = @ \cup {c}]
          /\ UNCHANGED <<leader, registered, rowLeader>>
      BY <1>3, <2>3 DEF GroupAccept
    <3>2. LeaderIsMember'
      BY <2>1, <3>1 DEF LeaderIsMember, Consistent, TypeOK
    <3>3. RowsMatchGroups'
      BY <3>1 DEF RowsMatchGroups, Consistent
    <3>4. RestartAddsNobody'
      BY <2>1, <3>1 DEF RestartAddsNobody, Consistent, TypeOK
    <3> QED BY <3>2, <3>3, <3>4 DEF Consistent
  <2> QED BY <2>2, <2>3
<1>4. ASSUME NEW c \in Char, GroupDecline(c) PROVE Consistent'
  BY <1>4, DeclineConsistent DEF GroupDecline
<1>5. ASSUME NEW c \in Char, NEW t \in Char, GroupUninvite(c, t) PROVE Consistent'
  <2>1. group[c] \in GroupId
    BY <1>5 DEF GroupUninvite, TypeOK
  <2> QED BY <1>5, <2>1, RemoveConsistent DEF GroupUninvite
<1>6. ASSUME NEW c \in Char, GroupLeave(c) PROVE Consistent'
  <2>1. group[c] \in GroupId
    BY <1>6 DEF GroupLeave, TypeOK
  <2> QED BY <1>6, <2>1, RemoveConsistent DEF GroupLeave
<1>7. ASSUME NEW c \in Char, NEW t \in Char, GroupSetLeader(c, t) PROVE Consistent'
  <2>1. group[c] \in GroupId /\ t \in members[group[c]] /\ t # NoChar
    BY <1>7 DEF GroupSetLeader, TypeOK
  <2>2. /\ leader' = [leader EXCEPT ![group[c]] = t]
        /\ rowLeader' = RowLeaderAfter(group[c], t)
        /\ UNCHANGED <<members, registered, rowMembers>>
    BY <1>7 DEF GroupSetLeader
  <2>3. LeaderIsMember'
    BY <2>1, <2>2 DEF LeaderIsMember, Consistent, TypeOK
  <2>4. RowsMatchGroups'
    BY <2>1, <2>2 DEF RowsMatchGroups, RowLeaderAfter, Consistent, TypeOK
  <2>5. RestartAddsNobody'
    BY <2>2 DEF RestartAddsNobody, Consistent
  <2> QED BY <2>3, <2>4, <2>5 DEF Consistent
<1>8. ASSUME NEW c \in Char, GroupRaidConvert(c) PROVE Consistent'
  BY <1>8, OtherConsistent DEF GroupRaidConvert, tables
<1>9. ASSUME NEW c \in Char, NEW t \in Char, NEW on \in BOOLEAN,
             GroupAssistentLeader(c, t, on)
      PROVE Consistent'
  BY <1>9, OtherConsistent DEF GroupAssistentLeader, tables
<1>10. ASSUME NEW c \in Char, NEW nodeFound \in BOOLEAN, PlayerLogin(c, nodeFound)
       PROVE Consistent'
  BY <1>10, OtherConsistent DEF PlayerLogin, objects, tables
<1>11. ASSUME NEW c \in Char, WorldInstanceEntered(c) PROVE Consistent'
  BY <1>11, OtherConsistent DEF WorldInstanceEntered, objects, tables
<1>12. ASSUME NEW c \in Char, NEW nodeFound \in BOOLEAN, ConnectionLost(c, nodeFound)
       PROVE Consistent'
  BY <1>12, DeclineConsistent DEF ConnectionLost
<1>13. ASSUME NEW c \in Char, DisconnectIdle(c) PROVE Consistent'
  BY <1>13, DropConsistent DEF DisconnectIdle
<1>14. ASSUME NEW c \in Char, NEW saved \in BOOLEAN, Destroyed(c, saved) PROVE Consistent'
  BY <1>14, DropConsistent DEF Destroyed
<1>15. ASSUME NEW c \in Char, SaveCharacter(c) PROVE Consistent'
  BY <1>15, OtherConsistent DEF SaveCharacter, objects, tables
<1>16. ASSUME NEW c \in Char, WorldLeave(c) PROVE Consistent'
  BY <1>16, OtherConsistent DEF WorldLeave, objects, tables
<1>17. ASSUME NEW c \in Char, NEW reason \in LeaveReason, HandleLeft(c, reason)
       PROVE Consistent'
  BY <1>17, DeclineConsistent, DropConsistent, OtherConsistent DEF HandleLeft, objects, tables
<1>18. CASE RealmRestart
  BY <1>18, RestartConsistent DEF RealmRestart, TypeOK
<1>19. ASSUME NEW c \in Char, MoveWorldPortAck(c) PROVE Consistent'
  BY <1>19, OtherConsistent DEF MoveWorldPortAck, objects, tables
<1> QED
  BY <1>1, <1>2, <1>3, <1>4, <1>5, <1>6, <1>7, <1>8, <1>9, <1>10, <1>11, <1>12,
     <1>13, <1>14, <1>15, <1>16, <1>17, <1>18, <1>19 DEF Next

\* The leader of every group is a member, the `group` table holds exactly the
\* groups in memory with their leaders, and nobody is stored as a member of a
\* group who is none: for any characters, sizes and number of restarts, and
\* whether or not removeGroupMember fails.
THEOREM GroupsMatchTables == Spec => []Consistent
<1>1. Init => TypeOK /\ Consistent
  BY BoundAssumption
  DEF Init, TypeOK, SessionState, FirstId, Consistent, LeaderIsMember,
      RowsMatchGroups, RestartAddsNobody
<1>2. TypeOK /\ Consistent /\ [Next]_vars => TypeOK' /\ Consistent'
  BY NextType, NextConsistent
<1> QED BY <1>1, <1>2, PTL DEF Spec

-----------------------------------------------------------------------------
(* Group ids are never reused.  The generator only moves on while the realm   *)
(* runs, and a restart puts it behind every row that the new groups come from. *)

\* A step that registers nothing and points players only to groups in use.
LEMMA NoNewIdFresh ==
  ASSUME FreshIds,
         nextId' = nextId,
         registered' \subseteq registered,
         \A c \in Char : group'[c] \in registered \cup {NoGroup, group[c]}
  PROVE  FreshIds'
<1> SUFFICES ASSUME NEW g \in GroupId,
                    g \in registered' \/ \E c \in Char : group'[c] = g
             PROVE  g < nextId
  BY DEF FreshIds
<1>1. g # NoGroup
  BY DEF GroupId
<1>2. g \in registered \/ \E c \in Char : group[c] = g
  BY <1>1
<1> QED BY <1>2 DEF FreshIds

(* Neither touches the generator, and both only take groups away. *)
LEMMA DeclineFresh ==
  ASSUME FreshIds, NEW c \in Char, NEW d \in BOOLEAN, DeclineInvite(c, d),
         nextId' = nextId
  PROVE  FreshIds'
<1>1. registered' \subseteq registered
  BY DEF DeclineInvite, Disband
<1>2. \A e \in Char : group'[e] \in registered \cup {NoGroup, group[e]}
  BY DEF DeclineInvite
<1> QED BY <1>1, <1>2, NoNewIdFresh

LEMMA DropFresh ==
  ASSUME TypeOK, FreshIds, NEW c \in Char, DropGroup(c), nextId' = nextId
  PROVE  FreshIds'
<1>1. \A e \in Char : group'[e] \in registered \cup {NoGroup, group[e]}
  BY DEF DropGroup, TypeOK
<1> QED BY <1>1, NoNewIdFresh DEF DropGroup

\* The generator is notified of every row before anything asks for an id.
LEMMA RestartFresh ==
  ASSUME NEW rl, NEW rm, Restart(rl, rm)
  PROVE  FreshIds'
<1>1. \A g \in registered' : g < nextId'
  BY DEF Restart, NextIdAfter
<1>2. \A c \in Char : group'[c] = NoGroup
  BY DEF Restart
<1>3. \A g \in GroupId : g # NoGroup
  BY DEF GroupId
<1> QED BY <1>1, <1>2, <1>3 DEF FreshIds

LEMMA RemoveFresh ==
  ASSUME TypeOK, FreshIds, NEW g \in GroupId, NEW t \in Char, RemoveMember(g, t)
  PROVE  FreshIds'
<1>1. CASE RemoveFromPair(g)
  <2>1. \A e \in Char : group'[e] \in registered \cup {NoGroup, group[e]}
    BY <1>1 DEF RemoveFromPair
  <2> QED BY <1>1, <2>1, NoNewIdFresh DEF RemoveFromPair, Disband
<1>2. CASE RemoveFromMany(g, t)
  <2>1. /\ group' = IF Online(t) THEN [group EXCEPT ![t] = NoGroup] ELSE group
        /\ UNCHANGED <<registered, nextId>>
    BY <1>2 DEF RemoveFromMany
  <2>2. \A e \in Char : group'[e] \in registered \cup {NoGroup, group[e]}
    BY <2>1 DEF TypeOK
  <2> QED BY <2>1, <2>2, NoNewIdFresh
<1>3. CASE RemoveFromManyThrows(g, t)
  BY <1>3, RestartFresh DEF RemoveFromManyThrows
<1> QED BY <1>1, <1>2, <1>3 DEF RemoveMember

(* A step that leaves the ids and the players' groups alone. *)
LEMMA OtherFresh ==
  ASSUME FreshIds, UNCHANGED <<registered, nextId, group>>
  PROVE  FreshIds'
  BY DEF FreshIds

\* Every step keeps the ids fresh; only an invitation takes a new one.
LEMMA NextFresh ==
  ASSUME TypeOK, FreshIds, [Next]_vars
  PROVE  FreshIds'
<1>1. CASE UNCHANGED vars
  BY <1>1, OtherFresh DEF vars
<1>2. ASSUME NEW c \in Char, NEW t \in Char, GroupInvite(c, t) PROVE FreshIds'
  <2>1. CASE InviteToNewGroup(c, t)
    <3>1. /\ nextId' = nextId + 1
          /\ registered' = registered \cup {nextId}
          /\ group' = [group EXCEPT ![c] = nextId, ![t] = nextId]
      BY <2>1 DEF InviteToNewGroup
    <3>2. nextId \in Nat /\ \A g \in GroupId : g \in Nat
      BY BoundAssumption DEF TypeOK, GroupId
    <3>3. \A e \in Char : group'[e] \in {nextId, group[e]}
      BY <3>1 DEF TypeOK
    <3>4. ASSUME NEW g \in GroupId,
                 g \in registered' \/ \E e \in Char : group'[e] = g
          PROVE  g < nextId'
      <4>1. CASE g = nextId
        BY <3>1, <3>2, <4>1
      <4>2. CASE g # nextId
        <5>1. g \in registered \/ \E e \in Char : group[e] = g
          BY <3>1, <3>3, <3>4, <4>2
        <5>2. g < nextId
          BY <5>1 DEF FreshIds
        <5> QED BY <3>1, <3>2, <5>2
      <4> QED BY <4>1, <4>2
    <3> QED BY <3>4 DEF FreshIds
  <2>2. CASE InviteToOwnGroup(c, t)
    \* the group was in use: the inviting player points to it
    <3>1. /\ group' = [group EXCEPT ![t] = group[c]]
          /\ UNCHANGED <<registered, nextId>>
      BY <2>2 DEF InviteToOwnGroup
    <3>2. \A e \in Char : group'[e] \in {group[c], group[e]}
      BY <3>1 DEF TypeOK
    <3> QED BY <3>1, <3>2 DEF FreshIds
  <2> QED BY <1>2, <2>1, <2>2 DEF GroupInvite
<1>3. ASSUME NEW c \in Char, GroupAccept(c) PROVE FreshIds'
  BY <1>3, OtherFresh DEF GroupAccept
<1>4. ASSUME NEW c \in Char, GroupDecline(c) PROVE FreshIds'
  BY <1>4, DeclineFresh DEF GroupDecline
<1>5. ASSUME NEW c \in Char, NEW t \in Char, GroupUninvite(c, t) PROVE FreshIds'
  <2>1. group[c] \in GroupId
    BY <1>5 DEF GroupUninvite, TypeOK
  <2> QED BY <1>5, <2>1, RemoveFresh DEF GroupUninvite
<1>6. ASSUME NEW c \in Char, GroupLeave(c) PROVE FreshIds'
  <2>1. group[c] \in GroupId
    BY <1>6 DEF GroupLeave, TypeOK
  <2> QED BY <1>6, <2>1, RemoveFresh DEF GroupLeave
<1>7. ASSUME NEW c \in Char, NEW t \in Char, GroupSetLeader(c, t) PROVE FreshIds'
  BY <1>7, OtherFresh DEF GroupSetLeader
<1>8. ASSUME NEW c \in Char, GroupRaidConvert(c) PROVE FreshIds'
  BY <1>8, OtherFresh DEF GroupRaidConvert
<1>9. ASSUME NEW c \in Char, NEW t \in Char, NEW on \in BOOLEAN,
             GroupAssistentLeader(c, t, on)
      PROVE FreshIds'
  BY <1>9, OtherFresh DEF GroupAssistentLeader
<1>10. ASSUME NEW c \in Char, NEW nodeFound \in BOOLEAN, PlayerLogin(c, nodeFound)
       PROVE FreshIds'
  \* the stored group id is only taken when GroupsById has it
  <2>1. \A e \in Char : group'[e] \in registered \cup {NoGroup, group[e]}
    BY <1>10 DEF PlayerLogin, TypeOK
  <2> QED BY <1>10, <2>1, NoNewIdFresh DEF PlayerLogin
<1>11. ASSUME NEW c \in Char, WorldInstanceEntered(c) PROVE FreshIds'
  BY <1>11, OtherFresh DEF WorldInstanceEntered
<1>12. ASSUME NEW c \in Char, NEW nodeFound \in BOOLEAN, ConnectionLost(c, nodeFound)
       PROVE FreshIds'
  <2>1. DeclineInvite(c, ~nodeFound) /\ nextId' = nextId
    BY <1>12 DEF ConnectionLost
  <2> QED BY <2>1, DeclineFresh
<1>13. ASSUME NEW c \in Char, DisconnectIdle(c) PROVE FreshIds'
  BY <1>13, DropFresh DEF DisconnectIdle
<1>14. ASSUME NEW c \in Char, NEW saved \in BOOLEAN, Destroyed(c, saved) PROVE FreshIds'
  BY <1>14, DropFresh DEF Destroyed
<1>15. ASSUME NEW c \in Char, SaveCharacter(c) PROVE FreshIds'
  BY <1>15, OtherFresh DEF SaveCharacter
<1>16. ASSUME NEW c \in Char, WorldLeave(c) PROVE FreshIds'
  BY <1>16, OtherFresh DEF WorldLeave
<1>17. ASSUME NEW c \in Char, NEW reason \in LeaveReason, HandleLeft(c, reason)
       PROVE FreshIds'
  BY <1>17, DeclineFresh, DropFresh, OtherFresh DEF HandleLeft, objects, tables
<1>18. CASE RealmRestart
  BY <1>18, RestartFresh DEF RealmRestart
<1>19. ASSUME NEW c \in Char, MoveWorldPortAck(c) PROVE FreshIds'
  BY <1>19, OtherFresh DEF MoveWorldPortAck, objects, tables
<1> QED
  BY <1>1, <1>2, <1>3, <1>4, <1>5, <1>6, <1>7, <1>8, <1>9, <1>10, <1>11, <1>12,
     <1>13, <1>14, <1>15, <1>16, <1>17, <1>18, <1>19 DEF Next

\* The id of a group that GroupsById or a player's m_group still names is
\* behind the generator, in whatever order groups are made, abandoned, kept
\* alive by a stale pointer and loaded again by restarts.
THEOREM IdsStayFresh == Spec => []FreshIds
<1>1. Init => TypeOK /\ FreshIds
  BY BoundAssumption
  DEF Init, TypeOK, SessionState, FirstId, FreshIds, GroupId
<1>2. TypeOK /\ FreshIds /\ [Next]_vars => TypeOK' /\ FreshIds'
  BY NextType, NextFresh
<1> QED BY <1>1, <1>2, PTL DEF Spec

-----------------------------------------------------------------------------
(* Nodes know the groups of their characters.  A character that logs in gets *)
(* its group at the node from the database while its player may still have a *)
(* pointer from an earlier attempt, and what the node sends back may cross   *)
(* what the realm decides, so that the invariant speaks of players on their  *)
(* way to a node too, and of those at the character list.                    *)

\* An invariant stronger than the property: c is on a node, on its way to one
\* or back from one, and is certainly in the group it points to.
SureMember(c) ==
  /\ Online(c)
  /\ group[c] \in registered
  /\ c \in members[group[c]] \ invited[group[c]]

Told ==
  \A c \in Char \ (askedAgain \cup missed) : SureMember(c) => worldGroup[c] = group[c]

\* What a step has to add to the history, for the characters with a group.
Recorded ==
  /\ askedAgain \subseteq askedAgain'
  /\ \A c \in Char : group'[c] \in registered' /\ c \notin missed' =>
                       c \notin missed \cup JoinInVain

\* A character is only on its way back from a node when it has one.
LeftHasNode == \A c \in Char : left[c] => HasNode(c)

\* At the character list m_group can only be what the last login has set.
IdlePointer ==
  \A c \in Char : session[c] = "idle" /\ group[c] # NoGroup => group[c] = lastGroup[c]

AskedRecorded == InvitedMembers \subseteq askedAgain

NodesTold == Told /\ LeftHasNode /\ IdlePointer /\ AskedRecorded

\* No group has the id that stands for none.
LEMMA GroupIdNotNone == \A g \in GroupId : g # NoGroup
  BY DEF GroupId

(* The objects that a player still points to keep their new values. *)
LEMMA LiveKept ==
  ASSUME TypeOK, NEW ldr, NEW mem, NEW ast, NEW inv, KeepObjects(ldr, mem, ast, inv),
         NEW c \in Char, group'[c] \in GroupId
  PROVE  members'[group'[c]] = mem[group'[c]] /\ invited'[group'[c]] = inv[group'[c]]
  BY DEF KeepObjects

\* A step after which a character that is surely a member was so before, and
\* for which the node's copy is as it was.
LEMMA NothingNewTold ==
  ASSUME Told, Recorded,
         \A c \in Char : SureMember(c)' =>
           /\ SureMember(c)
           /\ group'[c] = group[c] /\ worldGroup'[c] = worldGroup[c]
  PROVE  Told'
<1> SUFFICES ASSUME NEW c \in Char, c \notin askedAgain', c \notin missed', SureMember(c)'
             PROVE  worldGroup'[c] = group'[c]
  BY DEF Told
<1>1. c \notin askedAgain /\ c \notin missed
  BY DEF Recorded, SureMember
<1> QED BY <1>1 DEF Told

(* A step of the groups alone: sessions and characters stay where they are. *)
LEMMA SessionsKept ==
  ASSUME LeftHasNode, IdlePointer, UNCHANGED <<session, left, lastGroup>>,
         \A c \in Char : session[c] = "idle" => group'[c] \in {NoGroup, group[c]}
  PROVE  LeftHasNode' /\ IdlePointer'
<1>1. LeftHasNode'
  BY DEF LeftHasNode, HasNode
<1>2. IdlePointer'
  BY DEF IdlePointer
<1> QED BY <1>1, <1>2

\* Disbanding tells every node that has one of the members; the others are
\* reset by disband, or have no pointer to the group.
LEMMA DeclineTold ==
  ASSUME TypeOK, Told, NEW c \in Char, NEW d \in BOOLEAN, DeclineInvite(c, d),
         Recorded, \A e \in Char : session'[e] # "idle" => Online(e)
  PROVE  Told'
<1> SUFFICES ASSUME NEW e \in Char, SureMember(e)'
             PROVE  /\ SureMember(e)
                    /\ group'[e] = group[e] /\ worldGroup'[e] = worldGroup[e]
  BY NothingNewTold
<1>1. session'[e] # "idle" /\ group'[e] \in registered'
  BY DEF SureMember, Online
<1>2. Online(e)
  BY <1>1
<1>3. registered' \subseteq registered /\ registered' \subseteq GroupId
  BY DEF DeclineInvite, Disband, TypeOK
<1>4. group'[e] \in GroupId /\ group'[e] # NoGroup
  BY <1>1, <1>3, GroupIdNotNone
<1>5. /\ group'[e] = group[e]
      /\ e \notin ResetBy(Emptied(c))
      /\ e = c => Declined(c) = {}
  BY <1>4 DEF DeclineInvite
<1>6. worldGroup'[e] = worldGroup[e]
  BY <1>1, <1>2, <1>5 DEF DeclineInvite, Disband, ResetBy
<1>7. e \in members'[group'[e]] \ invited'[group'[e]]
  BY DEF SureMember
<1> DEFINE inv == [g \in GroupId |-> IF g \in Declined(c) THEN invited[g] \ {c}
                                                         ELSE invited[g]]
<1>8. KeepObjects(leader, members, assistants, inv)
  BY DEF DeclineInvite
<1>9. e \notin inv[group[e]] => e \notin invited[group[e]]
  BY <1>4, <1>5
<1> HIDE DEF inv
<1>10. e \in members[group[e]] \ invited[group[e]]
  BY <1>4, <1>5, <1>7, <1>8, <1>9, LiveKept
<1> QED BY <1>1, <1>2, <1>3, <1>5, <1>6, <1>10 DEF SureMember

(* Dropping a pointer is a matter of that player alone. *)
LEMMA DropTold ==
  ASSUME TypeOK, Told, NEW c \in Char, DropGroup(c),
         Recorded,
         \A e \in Char \ {c} : session'[e] = session[e] /\ worldGroup'[e] = worldGroup[e]
  PROVE  Told'
<1> SUFFICES ASSUME NEW e \in Char, SureMember(e)'
             PROVE  /\ SureMember(e)
                    /\ group'[e] = group[e] /\ worldGroup'[e] = worldGroup[e]
  BY NothingNewTold
<1>1. registered' = registered /\ group' = [group EXCEPT ![c] = NoGroup]
  BY DEF DropGroup
<1>2. group'[e] \in GroupId /\ group'[e] # NoGroup
  BY <1>1 DEF SureMember, TypeOK, GroupId
<1>3. e # c /\ group'[e] = group[e]
  BY <1>1, <1>2 DEF TypeOK
<1>4. members'[group[e]] = members[group[e]] /\ invited'[group[e]] = invited[group[e]]
  BY <1>2, <1>3, LiveKept DEF DropGroup
<1> QED BY <1>1, <1>3, <1>4 DEF SureMember, Online

\* A restart leaves nobody with a group.
LEMMA RestartTold ==
  ASSUME NEW rl, NEW rm, Restart(rl, rm)
  PROVE  Told' /\ LeftHasNode' /\ IdlePointer'
<1>1. \A c \in Char : group'[c] = NoGroup /\ left'[c] = FALSE
  BY DEF Restart
<1>2. NoGroup \notin registered'
  BY DEF Restart, GroupId
<1> QED BY <1>1, <1>2 DEF Told, SureMember, LeftHasNode, IdlePointer

(* Who is removed is reset if online; the others keep their group. *)
LEMMA RemoveTold ==
  ASSUME TypeOK, Told, LeftHasNode, IdlePointer, Recorded,
         NEW g \in GroupId, NEW t \in Char, RemoveMember(g, t)
  PROVE  Told' /\ LeftHasNode' /\ IdlePointer'
<1>1. CASE RemoveFromPair(g)
  <2>1. LeftHasNode' /\ IdlePointer'
    BY <1>1, SessionsKept DEF RemoveFromPair
  <2>2. ASSUME NEW e \in Char, SureMember(e)'
        PROVE  /\ SureMember(e)
               /\ group'[e] = group[e] /\ worldGroup'[e] = worldGroup[e]
    <3>1. UNCHANGED <<session, left>> /\ registered' \subseteq registered
      BY <1>1 DEF RemoveFromPair, Disband
    <3>2. Online(e) /\ group'[e] \in registered'
      BY <2>2, <3>1 DEF SureMember, Online
    <3>3. group'[e] \in GroupId /\ group'[e] # NoGroup
      BY <3>1, <3>2, GroupIdNotNone DEF TypeOK
    <3>4. group'[e] = group[e] /\ e \notin ResetBy({g})
      BY <1>1, <3>3 DEF RemoveFromPair
    <3>5. worldGroup'[e] = worldGroup[e]
      BY <1>1, <3>1, <3>2, <3>4 DEF RemoveFromPair, Disband, ResetBy, Online
    <3>6. members'[group[e]] = members[group[e]] /\ invited'[group[e]] = invited[group[e]]
      BY <1>1, <3>3, <3>4, LiveKept DEF RemoveFromPair
    <3> QED BY <2>2, <3>1, <3>2, <3>4, <3>5, <3>6 DEF SureMember
  <2> QED BY <2>1, <2>2, NothingNewTold
<1>2. CASE RemoveFromMany(g, t)
  <2>1. PICK n \in Char : RemoveFromMany(g, t)!(n)
    BY <1>2 DEF RemoveFromMany
  <2>2. /\ UNCHANGED <<registered, session, left, lastGroup>>
        /\ group' = IF Online(t) THEN [group EXCEPT ![t] = NoGroup] ELSE group
        /\ worldGroup' = WorldTold(t, NoGroup)
    BY <2>1
  <2>3. LeftHasNode' /\ IdlePointer'
    BY <2>2, SessionsKept DEF TypeOK, Online
  <2>4. ASSUME NEW e \in Char, SureMember(e)'
        PROVE  /\ SureMember(e)
               /\ group'[e] = group[e] /\ worldGroup'[e] = worldGroup[e]
    <3>1. Online(e) /\ group'[e] \in registered
      BY <2>2, <2>4 DEF SureMember, Online
    <3>2. group'[e] \in GroupId /\ group'[e] # NoGroup
      BY <3>1, GroupIdNotNone DEF TypeOK
    <3>3. e # t /\ group'[e] = group[e]
      BY <2>2, <3>1, <3>2 DEF TypeOK
    <3>4. worldGroup'[e] = worldGroup[e]
      BY <2>2, <3>3 DEF WorldTold, TypeOK
    <3> DEFINE mem == [members EXCEPT ![g] = @ \ {t}]
    <3>5. mem[group[e]] \subseteq members[group[e]]
      BY <3>2, <3>3 DEF TypeOK
    <3>6. KeepObjects([leader EXCEPT ![g] = n], mem, [assistants EXCEPT ![g] = @ \ {t}],
                      invited)
      BY <2>1
    <3> HIDE DEF mem
    <3>7. members'[group[e]] \subseteq members[group[e]] /\ invited'[group[e]] = invited[group[e]]
      BY <3>2, <3>3, <3>5, <3>6, LiveKept
    <3> QED BY <2>4, <3>1, <3>3, <3>4, <3>7 DEF SureMember
  <2> QED BY <2>3, <2>4, NothingNewTold
<1>3. CASE RemoveFromManyThrows(g, t)
  BY <1>3, RestartTold DEF RemoveFromManyThrows
<1> QED BY <1>1, <1>2, <1>3 DEF RemoveMember

(* A step that leaves players, their groups and the sessions alone. *)
LEMMA OtherTold ==
  ASSUME Told, LeftHasNode, IdlePointer, Recorded,
         UNCHANGED <<members, invited, registered, session, group, worldGroup, left,
                     lastGroup>>
  PROVE  Told' /\ LeftHasNode' /\ IdlePointer'
<1>1. Told'
  BY NothingNewTold DEF SureMember, Online
<1> QED BY <1>1, SessionsKept

\* Every step keeps the nodes told.
LEMMA NextTold ==
  ASSUME TypeOK, FreshIds, NodesTold, Next, Recorded
  PROVE  Told' /\ LeftHasNode' /\ IdlePointer'
<1> USE DEF NodesTold
<1>2. ASSUME NEW c \in Char, NEW t \in Char, GroupInvite(c, t)
      PROVE  Told' /\ LeftHasNode' /\ IdlePointer'
  <2>1. HasNode(c) /\ Online(t) /\ group[t] = NoGroup
    BY <1>2 DEF GroupInvite, LoggedIn, HasNode
  <2>2. CASE InviteToNewGroup(c, t)
    <3> DEFINE g == nextId
    <3>1. g \in GroupId
      BY <2>2 DEF InviteToNewGroup, TypeOK, GroupId
    <3>2. /\ group' = [group EXCEPT ![c] = g, ![t] = g]
          /\ members' = [members EXCEPT ![g] = {c}]
          /\ invited' = [invited EXCEPT ![g] = {t}]
          /\ registered' = registered \cup {g}
          /\ worldGroup' = WorldTold(c, g)
          /\ UNCHANGED <<session, left, lastGroup>>
      BY <2>2 DEF InviteToNewGroup
    <3>3. \A e \in Char : group[e] # g
      BY <3>1, BoundAssumption DEF FreshIds, TypeOK
    <3>6. g \notin registered
      BY <3>1, BoundAssumption DEF FreshIds, TypeOK
    <3> HIDE DEF g
    <3>4. LeftHasNode' /\ IdlePointer'
      BY <2>1, <3>2, SessionsKept DEF TypeOK, Online, HasNode
    <3>5. ASSUME NEW e \in Char, SureMember(e)', e \notin askedAgain', e \notin missed'
          PROVE  worldGroup'[e] = group'[e]
      <4> group'[e] \in registered'
        BY <3>5 DEF SureMember
      <4> e \notin askedAgain /\ e \notin missed /\ e \notin JoinInVain
        BY <3>5 DEF Recorded
      <4>1. CASE e = c
        <5>1. g \in registered' /\ c \in members'[g]
          BY <3>1, <3>2 DEF TypeOK
        <5>2. OnNode(c)
          BY <2>1, <3>6, <4>1, <5>1 DEF JoinInVain, OnNode
        <5> QED BY <3>1, <3>2, <3>5, <4>1, <5>2 DEF SureMember, WorldTold, TypeOK
      <4>2. CASE e = t
        BY <3>1, <3>2, <3>5, <4>2 DEF SureMember, TypeOK
      <4>3. CASE e # c /\ e # t
        <5>1. group'[e] = group[e] /\ worldGroup'[e] = worldGroup[e]
          BY <3>2, <4>3 DEF TypeOK, WorldTold
        <5>2. SureMember(e)
          BY <3>1, <3>2, <3>3, <3>5, <5>1 DEF SureMember, TypeOK, Online
        <5> QED BY <5>1, <5>2 DEF Told
      <4> QED BY <4>1, <4>2, <4>3
    <3> QED BY <3>4, <3>5 DEF Told
  <2>3. CASE InviteToOwnGroup(c, t)
    <3>1. group[c] \in GroupId
      BY <2>3 DEF InviteToOwnGroup, TypeOK
    <3>2. /\ group' = [group EXCEPT ![t] = group[c]]
          /\ invited' = [invited EXCEPT ![group[c]] = @ \cup {t}]
          /\ UNCHANGED <<members, registered, session, worldGroup, left, lastGroup>>
      BY <2>3 DEF InviteToOwnGroup
    <3>3. LeftHasNode' /\ IdlePointer'
      BY <2>1, <3>2, SessionsKept DEF TypeOK, Online
    <3>4. ASSUME NEW e \in Char, SureMember(e)'
          PROVE  /\ SureMember(e)
                 /\ group'[e] = group[e] /\ worldGroup'[e] = worldGroup[e]
      <4>1. e # t /\ group'[e] = group[e]
        BY <3>1, <3>2, <3>4 DEF SureMember, TypeOK
      <4>2. invited[group[e]] \subseteq invited'[group[e]]
        BY <3>1, <3>2, <3>4, <4>1 DEF SureMember, TypeOK
      <4> QED BY <3>2, <3>4, <4>1, <4>2 DEF SureMember, Online
    <3> QED BY <3>3, <3>4, NothingNewTold
  <2> QED BY <1>2, <2>2, <2>3 DEF GroupInvite
<1>3. ASSUME NEW c \in Char, GroupAccept(c)
      PROVE  Told' /\ LeftHasNode' /\ IdlePointer'
  <2> DEFINE g == group[c]
  <2>1. g \in GroupId /\ c \in invited[g] /\ HasNode(c)
    BY <1>3 DEF GroupAccept, TypeOK, LoggedIn, HasNode
  <2>2. /\ invited' = [invited EXCEPT ![g] = @ \ {c}]
        /\ UNCHANGED <<registered, session, group, left, lastGroup>>
    BY <1>3 DEF GroupAccept
  <2>3. LeftHasNode' /\ IdlePointer'
    BY <2>2, SessionsKept
  <2>4. CASE IsFull(g)
    \* an invited character is a member here only if that was recorded
    <3>1. UNCHANGED <<members, worldGroup>>
      BY <1>3, <2>4 DEF GroupAccept
    <3>2. c \in members[g] => c \in askedAgain
      BY <2>1 DEF AskedRecorded, InvitedMembers
    <3> HIDE DEF g
    <3>3. ASSUME NEW e \in Char, SureMember(e)', e \notin askedAgain', e \notin missed'
          PROVE  worldGroup'[e] = group'[e]
      <4> group'[e] \in registered'
        BY <3>3 DEF SureMember
      <4> e \notin askedAgain /\ e \notin missed /\ e \notin JoinInVain
        BY <3>3 DEF Recorded
      <4>1. e # c
        BY <2>2, <3>1, <3>2, <3>3 DEF SureMember, g
      <4>2. SureMember(e)
        BY <2>1, <2>2, <3>1, <3>3, <4>1 DEF SureMember, TypeOK, Online
      <4> QED BY <2>2, <3>1, <4>2 DEF Told
    <3> QED BY <2>3, <3>3 DEF Told
  <2>5. CASE ~IsFull(g)
    <3>1. /\ members' = [members EXCEPT ![g] = @ \cup {c}]
          /\ worldGroup' = WorldTold(c, g)
      BY <1>3, <2>5 DEF GroupAccept
    <3>2. group[c] = g
      OBVIOUS
    <3> HIDE DEF g
    <3>3. ASSUME NEW e \in Char, SureMember(e)', e \notin askedAgain', e \notin missed'
          PROVE  worldGroup'[e] = group'[e]
      <4> group'[e] \in registered'
        BY <3>3 DEF SureMember
      <4> e \notin askedAgain /\ e \notin missed /\ e \notin JoinInVain
        BY <3>3 DEF Recorded
      <4>1. CASE e = c
        <5>1. c \notin members[g]
          BY <2>1, <4>1 DEF AskedRecorded, InvitedMembers
        <5>2. g \in registered' /\ c \in members'[g]
          BY <2>2, <3>1, <3>2, <3>3, <4>1 DEF SureMember
        <5>3. OnNode(c)
          BY <2>1, <4>1, <5>1, <5>2 DEF JoinInVain, OnNode
        <5> QED BY <2>1, <2>2, <3>1, <3>2, <4>1, <5>3 DEF WorldTold, TypeOK
      <4>2. CASE e # c
        <5>1. worldGroup'[e] = worldGroup[e] /\ group'[e] = group[e]
          BY <2>2, <3>1, <4>2 DEF WorldTold, TypeOK
        <5>2. SureMember(e)
          BY <2>1, <2>2, <3>1, <3>3, <4>2 DEF SureMember, TypeOK, Online
        <5> QED BY <5>1, <5>2 DEF Told
      <4> QED BY <4>1, <4>2
    <3> QED BY <2>3, <3>3 DEF Told
  <2> QED BY <2>4, <2>5
<1>4. ASSUME NEW c \in Char, GroupDecline(c)
      PROVE  Told' /\ LeftHasNode' /\ IdlePointer'
  <2>1. DeclineInvite(c, FALSE) /\ UNCHANGED <<session, left, lastGroup>>
    BY <1>4 DEF GroupDecline
  <2>2. \A e \in Char : group'[e] \in {NoGroup, group[e]}
    BY <2>1 DEF DeclineInvite
  <2>3. Told'
    BY <2>1, DeclineTold DEF Online
  <2> QED BY <2>1, <2>2, <2>3, SessionsKept
<1>5. ASSUME NEW c \in Char, NEW t \in Char, GroupUninvite(c, t)
      PROVE  Told' /\ LeftHasNode' /\ IdlePointer'
  <2>1. group[c] \in GroupId
    BY <1>5 DEF GroupUninvite, TypeOK
  <2> QED BY <1>5, <2>1, RemoveTold DEF GroupUninvite
<1>6. ASSUME NEW c \in Char, GroupLeave(c)
      PROVE  Told' /\ LeftHasNode' /\ IdlePointer'
  <2>1. group[c] \in GroupId
    BY <1>6 DEF GroupLeave, TypeOK
  <2> QED BY <1>6, <2>1, RemoveTold DEF GroupLeave
<1>7. ASSUME NEW c \in Char, NEW t \in Char, GroupSetLeader(c, t)
      PROVE  Told' /\ LeftHasNode' /\ IdlePointer'
  BY <1>7, OtherTold DEF GroupSetLeader
<1>8. ASSUME NEW c \in Char, GroupRaidConvert(c)
      PROVE  Told' /\ LeftHasNode' /\ IdlePointer'
  BY <1>8, OtherTold DEF GroupRaidConvert
<1>9. ASSUME NEW c \in Char, NEW t \in Char, NEW on \in BOOLEAN,
             GroupAssistentLeader(c, t, on)
      PROVE  Told' /\ LeftHasNode' /\ IdlePointer'
  BY <1>9, OtherTold DEF GroupAssistentLeader
<1>10. ASSUME NEW c \in Char, NEW nodeFound \in BOOLEAN, PlayerLogin(c, nodeFound)
       PROVE  Told' /\ LeftHasNode' /\ IdlePointer'
  \* a pointer that is not restored is one to a group that is gone
  <2> DEFINE restored == lastGroup[c] \in registered
  <2>1. /\ session[c] = "idle"
        /\ UNCHANGED <<members, invited, registered, left, lastGroup>>
        /\ group' = IF restored THEN [group EXCEPT ![c] = lastGroup[c]] ELSE group
        /\ session' = IF nodeFound THEN [session EXCEPT ![c] = "entering"] ELSE session
        /\ worldGroup' = IF ~nodeFound THEN worldGroup
                         ELSE [worldGroup EXCEPT ![c] =
                                 IF restored THEN lastGroup[c] ELSE NoGroup]
    BY <1>10 DEF PlayerLogin, objects
  <2>2. \A e \in Char \ {c} : /\ group'[e] = group[e] /\ session'[e] = session[e]
                              /\ worldGroup'[e] = worldGroup[e]
    BY <2>1 DEF TypeOK
  <2>3. LeftHasNode'
    BY <2>1, <2>2 DEF LeftHasNode, HasNode
  <2>4. IdlePointer'
    <3>1. session'[c] = "idle" /\ group'[c] # NoGroup => group'[c] = lastGroup[c]
      BY <2>1 DEF IdlePointer, TypeOK
    <3> QED BY <2>1, <2>2, <3>1 DEF IdlePointer
  <2>5. ASSUME NEW e \in Char, SureMember(e)', e \notin askedAgain', e \notin missed'
        PROVE  worldGroup'[e] = group'[e]
    <3> group'[e] \in registered'
      BY <2>5 DEF SureMember
    <3> e \notin askedAgain /\ e \notin missed
      BY <2>5 DEF Recorded
    <3>1. CASE e # c
      BY <2>1, <2>2, <2>5, <3>1 DEF SureMember, Online, Told
    <3>2. CASE e = c
      <4>1. nodeFound
        BY <2>1, <2>5, <3>2 DEF SureMember, Online
      <4>2. group'[c] \in registered /\ group'[c] # NoGroup
        BY <2>1, <2>5, <3>2 DEF SureMember, TypeOK, GroupId
      <4>3. restored
        BY <2>1, <4>2 DEF IdlePointer
      <4> QED BY <2>1, <3>2, <4>1, <4>3 DEF TypeOK
    <3> QED BY <3>1, <3>2
  <2> QED BY <2>3, <2>4, <2>5 DEF Told
<1>11. ASSUME NEW c \in Char, WorldInstanceEntered(c)
       PROVE  Told' /\ LeftHasNode' /\ IdlePointer'
  <2>1. /\ session[c] = "entering" /\ session' = [session EXCEPT ![c] = "inWorld"]
        /\ UNCHANGED <<members, invited, registered, group, worldGroup, left, lastGroup>>
    BY <1>11 DEF WorldInstanceEntered, objects
  <2>2. \A e \in Char : /\ session'[e] = "idle" => session[e] = "idle"
                        /\ Online(e)' => Online(e)
                        /\ HasNode(e) => HasNode(e)'
    BY <2>1 DEF TypeOK, Online, HasNode
  <2>3. Told'
    BY <2>1, <2>2, NothingNewTold DEF SureMember
  <2>4. LeftHasNode' /\ IdlePointer'
    BY <2>1, <2>2 DEF LeftHasNode, IdlePointer
  <2> QED BY <2>3, <2>4
<1>12. ASSUME NEW c \in Char, NEW nodeFound \in BOOLEAN, ConnectionLost(c, nodeFound)
       PROVE  Told' /\ LeftHasNode' /\ IdlePointer'
  <2>1. /\ \/ session[c] = "entering" /\ ~nodeFound
           \/ session[c] = "inWorld" /\ nodeFound
           \/ session[c] = "moving"
        /\ session' = [session EXCEPT ![c] =
             IF ~nodeFound THEN "idle" ELSE IF @ = "inWorld" THEN "leaving" ELSE "lost"]
        /\ DeclineInvite(c, ~nodeFound)
        /\ UNCHANGED <<left, lastGroup>>
    BY <1>12 DEF ConnectionLost
  <2>2. \A e \in Char : session'[e] # "idle" => Online(e)
    BY <2>1 DEF TypeOK, Online
  <2>3. Told'
    BY <2>1, <2>2, DeclineTold
  <2>4. LeftHasNode'
    BY <2>1 DEF LeftHasNode, HasNode, TypeOK
  <2>5. \A e \in Char : group'[e] \in {NoGroup, group[e]}
    BY <2>1 DEF DeclineInvite
  <2>6. session'[c] = "idle" => group'[c] = NoGroup
    BY <2>1 DEF DeclineInvite, TypeOK
  <2>7. IdlePointer'
    BY <2>1, <2>5, <2>6 DEF IdlePointer, TypeOK
  <2> QED BY <2>3, <2>4, <2>7
<1>13. ASSUME NEW c \in Char, DisconnectIdle(c)
       PROVE  Told' /\ LeftHasNode' /\ IdlePointer'
  <2>1. DropGroup(c) /\ UNCHANGED <<session, worldGroup, left, lastGroup>>
    BY <1>13 DEF DisconnectIdle
  <2>2. \A e \in Char : group'[e] \in {NoGroup, group[e]}
    BY <2>1 DEF DropGroup, TypeOK
  <2> QED BY <2>1, <2>2, DropTold, SessionsKept
<1>14. ASSUME NEW c \in Char, NEW saved \in BOOLEAN, Destroyed(c, saved)
       PROVE  Told' /\ LeftHasNode' /\ IdlePointer'
  <2>1. /\ DropGroup(c) /\ \A e \in Char \ {c} : lastGroup'[e] = lastGroup[e]
        /\ session' = [session EXCEPT ![c] = "idle"]
        /\ left' = [left EXCEPT ![c] = FALSE]
        /\ worldGroup' = [worldGroup EXCEPT ![c] = NoGroup]
    BY <1>14 DEF Destroyed, TypeOK
  <2>2. \A e \in Char \ {c} : /\ session'[e] = session[e] /\ left'[e] = left[e]
                              /\ worldGroup'[e] = worldGroup[e] /\ group'[e] = group[e]
    BY <2>1 DEF DropGroup, TypeOK
  <2>3. group'[c] = NoGroup /\ left'[c] = FALSE
    BY <2>1 DEF DropGroup, TypeOK
  <2>4. LeftHasNode' /\ IdlePointer'
    BY <2>1, <2>2, <2>3 DEF LeftHasNode, IdlePointer, HasNode
  <2> QED BY <2>1, <2>2, <2>4, DropTold
<1>15. ASSUME NEW c \in Char, SaveCharacter(c)
       PROVE  Told' /\ LeftHasNode' /\ IdlePointer'
  <2>1. /\ session[c] # "idle"
        /\ UNCHANGED <<members, invited, registered, session, group, worldGroup, left>>
        /\ \A e \in Char \ {c} : lastGroup'[e] = lastGroup[e]
    BY <1>15 DEF SaveCharacter, objects, OnNode, HasNode, TypeOK
  <2>2. Told'
    BY <2>1, NothingNewTold DEF SureMember, Online
  <2> QED BY <2>1, <2>2 DEF LeftHasNode, IdlePointer, HasNode
<1>16. ASSUME NEW c \in Char, WorldLeave(c)
       PROVE  Told' /\ LeftHasNode' /\ IdlePointer'
  <2>1. /\ HasNode(c) /\ left' = [left EXCEPT ![c] = TRUE]
        /\ UNCHANGED <<members, invited, registered, session, group, worldGroup, lastGroup>>
    BY <1>16 DEF WorldLeave, objects, OnNode
  <2>2. \A e \in Char : /\ left[e] => left'[e]
                        /\ left'[e] => left[e] \/ e = c
    BY <2>1 DEF TypeOK
  <2>3. Told'
    BY <2>1, <2>2, NothingNewTold DEF SureMember, Online
  <2> QED BY <2>1, <2>2, <2>3 DEF LeftHasNode, IdlePointer, HasNode
<1>17. ASSUME NEW c \in Char, NEW reason \in LeaveReason, HandleLeft(c, reason)
       PROVE  Told' /\ LeftHasNode' /\ IdlePointer'
  <2>1. /\ HasNode(c)
        /\ session' = [session EXCEPT ![c] =
             IF reason # "Teleport" THEN "idle" ELSE IF @ = "inWorld" THEN "moving" ELSE "lost"]
        /\ lastGroup' = [lastGroup EXCEPT ![c] = worldGroup[c]]
        /\ left' = [left EXCEPT ![c] = FALSE]
    BY <1>17 DEF HandleLeft
  <2>2. \A e \in Char \ {c} : /\ session'[e] = session[e] /\ left'[e] = left[e]
                              /\ lastGroup'[e] = lastGroup[e]
    BY <2>1 DEF TypeOK
  <2>3. left'[c] = FALSE /\ Online(c)
    BY <2>1 DEF TypeOK, HasNode, Online
  <2>4. LeftHasNode'
    BY <2>2, <2>3 DEF LeftHasNode, HasNode
  <2>5. Told' /\ (group'[c] = NoGroup \/ session'[c] # "idle")
              /\ \A e \in Char : group'[e] \in {NoGroup, group[e]}
    <3>1. CASE DeclineInvite(c, TRUE)
      <4>1. Told'
        BY <2>2, <2>3, <3>1, DeclineTold DEF Online
      <4> QED BY <3>1, <4>1 DEF DeclineInvite
    <3>2. CASE DropGroup(c) /\ worldGroup' = [worldGroup EXCEPT ![c] = NoGroup]
      <4>1. \A e \in Char \ {c} : worldGroup'[e] = worldGroup[e]
        BY <3>2 DEF TypeOK
      <4>2. Told'
        BY <2>2, <3>2, <4>1, DropTold
      <4> QED BY <3>2, <4>2 DEF DropGroup, TypeOK
    <3>3. CASE /\ reason = "Teleport"
               /\ UNCHANGED <<objects, registered, group, worldGroup, tables>>
      \* the character takes the node's copy along, and who it is stays
      <4>1. UNCHANGED <<members, invited, registered, group, worldGroup>>
        BY <3>3 DEF objects
      <4>2. session'[c] # "idle"
        BY <2>1, <3>3 DEF TypeOK
      <4>3. \A e \in Char : Online(e)' => Online(e)
        BY <2>2, <2>3 DEF Online
      <4>4. Told'
        BY <4>1, <4>3, NothingNewTold DEF SureMember
      <4> QED BY <4>1, <4>2, <4>4
    <3> QED BY <1>17, <3>1, <3>2, <3>3 DEF HandleLeft
  <2>6. IdlePointer'
    BY <2>2, <2>5 DEF IdlePointer
  <2> QED BY <2>4, <2>5, <2>6
<1>18. CASE RealmRestart
  BY <1>18, RestartTold DEF RealmRestart
<1>19. ASSUME NEW c \in Char, MoveWorldPortAck(c)
       PROVE  Told' /\ LeftHasNode' /\ IdlePointer'
  <2>1. /\ session[c] = "moving" /\ session' = [session EXCEPT ![c] = "inWorld"]
        /\ UNCHANGED <<members, invited, registered, group, worldGroup, left, lastGroup>>
    BY <1>19 DEF MoveWorldPortAck, objects
  <2>2. \A e \in Char : /\ session'[e] = "idle" => session[e] = "idle"
                        /\ Online(e)' => Online(e)
                        /\ HasNode(e) => HasNode(e)'
    BY <2>1 DEF TypeOK, Online, HasNode
  <2>3. Told'
    BY <2>1, <2>2, NothingNewTold DEF SureMember
  <2>4. LeftHasNode' /\ IdlePointer'
    BY <2>1, <2>2 DEF LeftHasNode, IdlePointer
  <2> QED BY <2>3, <2>4
<1> QED
  BY <1>2, <1>3, <1>4, <1>5, <1>6, <1>7, <1>8, <1>9, <1>10, <1>11, <1>12, <1>13,
     <1>14, <1>15, <1>16, <1>17, <1>18, <1>19 DEF Next

\* For any characters, sizes and orders of logins, invitations, removals,
\* moves between nodes, crossing messages and restarts: the node of a member
\* knows its group, unless the member was invited while being one or has joined
\* while its node was letting it go.
THEOREM NodesKnowGroups == HistorySpec => []WorldAgrees
<1> DEFINE Inv == TypeOK /\ FreshIds /\ NodesTold
<1>1. HistoryInit => Inv
  BY BoundAssumption
  DEF HistoryInit, Init, TypeOK, SessionState, FirstId, FreshIds, GroupId, NodesTold, Told,
      SureMember, LeftHasNode, IdlePointer, AskedRecorded, InvitedMembers
<1>2. ASSUME Inv, [HistoryNext]_historyVars PROVE Inv'
  <2>1. CASE HistoryNext
    <3>1. TypeOK' /\ FreshIds'
      BY <1>2, <2>1, NextType, NextFresh DEF HistoryNext
    <3>2. Recorded
      <4>1. \A e \in Char : group'[e] \in registered' => group'[e] # NoGroup
        BY <3>1, GroupIdNotNone DEF TypeOK
      <4> QED BY <2>1, <4>1 DEF HistoryNext, Recorded
    <3>4. Told' /\ LeftHasNode' /\ IdlePointer'
      BY <1>2, <2>1, <3>2, NextTold DEF HistoryNext
    <3>3. AskedRecorded'
      BY <2>1 DEF HistoryNext, AskedRecorded
    <3> QED BY <3>1, <3>3, <3>4 DEF NodesTold
  <2>2. CASE UNCHANGED historyVars
    <3>1. TypeOK' /\ FreshIds'
      BY <1>2, <2>2, NextType, NextFresh DEF historyVars
    <3>2. Recorded
      BY <2>2 DEF historyVars, vars, Recorded, JoinInVain
    <3>4. Told' /\ LeftHasNode' /\ IdlePointer'
      BY <1>2, <2>2, <3>2, OtherTold DEF historyVars, vars, NodesTold
    <3>3. AskedRecorded'
      BY <1>2, <2>2 DEF historyVars, vars, AskedRecorded, InvitedMembers, NodesTold
    <3> QED BY <3>1, <3>3, <3>4 DEF NodesTold
  <2> QED BY <1>2, <2>1, <2>2
<1>3. Inv => WorldAgrees
  BY DEF WorldAgrees, NodesTold, Told, SureMember, OnNode, HasNode, Online
<1> QED BY <1>1, <1>2, <1>3, PTL DEF HistorySpec

-----------------------------------------------------------------------------
(* The size of a group.  The type of a group is not stored, so that a raid     *)
(* that a restart loads may be larger than the group it has become: the bound  *)
(* holds for as long as the realm runs.                                        *)

\* A step after which every group is a part of what it was, or is gone, and
\* has not become a smaller type.
LEMMA NothingGrows ==
  ASSUME TypeOK, GroupFitsItsType, NormalMax <= RaidMax,
         \A g \in GroupId : \/ members'[g] \subseteq members[g] /\ (raid[g] => raid'[g])
                            \/ members'[g] = {}
  PROVE  GroupFitsItsType'
<1> SUFFICES ASSUME NEW g \in GroupId
             PROVE  Cardinality(members'[g]) <= IF raid'[g] THEN RaidMax ELSE NormalMax
  BY DEF GroupFitsItsType
<1>1. CASE members'[g] = {}
  BY <1>1, FS_EmptySet, SizeAssumption
<1>2. CASE members'[g] # {}
  <2>1. members'[g] \subseteq members[g] /\ (raid[g] => raid'[g])
    BY <1>2
  <2>2. IsFiniteSet(members[g])
    BY CharAssumption, FS_Subset DEF TypeOK
  <2>3. IsFiniteSet(members'[g])
    BY <2>1, <2>2, FS_Subset
  <2>4. Cardinality(members'[g]) <= Cardinality(members[g])
    BY <2>1, <2>2, FS_Subset
  <2>5. Cardinality(members[g]) \in Nat /\ Cardinality(members'[g]) \in Nat
    BY <2>2, <2>3, FS_CardinalityType
  <2>6. Cardinality(members[g]) <= IF raid[g] THEN RaidMax ELSE NormalMax
    BY DEF GroupFitsItsType
  <2> QED BY <2>1, <2>4, <2>5, <2>6, SizeAssumption
<1> QED BY <1>1, <1>2

(* Objects that are kept or destroyed, with the members they had or fewer. *)
LEMMA KeepFits ==
  ASSUME TypeOK, GroupFitsItsType, NormalMax <= RaidMax,
         NEW ldr, NEW mem, NEW ast, NEW inv, KeepObjects(ldr, mem, ast, inv),
         \A g \in GroupId : mem[g] \subseteq members[g]
  PROVE  GroupFitsItsType'
<1>1. \A g \in GroupId : \/ members'[g] \subseteq members[g] /\ (raid[g] => raid'[g])
                         \/ members'[g] = {}
  BY DEF KeepObjects
<1> QED BY <1>1, NothingGrows

\* Without a restart, a removal only takes a member away.
LEMMA RemoveFits ==
  ASSUME TypeOK, GroupFitsItsType, NormalMax <= RaidMax, MaxRestarts = 0,
         NEW g \in GroupId, NEW t \in Char, RemoveMember(g, t)
  PROVE  GroupFitsItsType'
<1>1. CASE RemoveFromPair(g)
  BY <1>1, KeepFits DEF RemoveFromPair
<1>2. CASE RemoveFromMany(g, t)
  <2>1. PICK n \in Char : RemoveFromMany(g, t)!(n)
    BY <1>2 DEF RemoveFromMany
  <2> DEFINE mem == [members EXCEPT ![g] = @ \ {t}]
  <2>2. \A h \in GroupId : mem[h] \subseteq members[h]
    BY DEF TypeOK
  <2>3. KeepObjects([leader EXCEPT ![g] = n], mem, [assistants EXCEPT ![g] = @ \ {t}],
                    invited)
    BY <2>1
  <2> HIDE DEF mem
  <2> QED BY <2>2, <2>3, KeepFits
<1>3. CASE RemoveFromManyThrows(g, t)
  BY <1>3 DEF RemoveFromManyThrows, Restart, TypeOK
<1> QED BY <1>1, <1>2, <1>3 DEF RemoveMember

LEMMA DeclineFits ==
  ASSUME TypeOK, GroupFitsItsType, NormalMax <= RaidMax,
         NEW c \in Char, NEW d \in BOOLEAN, DeclineInvite(c, d)
  PROVE  GroupFitsItsType'
  BY KeepFits DEF DeclineInvite

LEMMA DropFits ==
  ASSUME TypeOK, GroupFitsItsType, NormalMax <= RaidMax, NEW c \in Char, DropGroup(c)
  PROVE  GroupFitsItsType'
  BY KeepFits DEF DropGroup

(* A step that leaves members and types alone. *)
LEMMA OtherFits ==
  ASSUME GroupFitsItsType, UNCHANGED <<members, raid>>
  PROVE  GroupFitsItsType'
  BY DEF GroupFitsItsType

\* Only an accepted invitation makes a group larger, and asks first.
LEMMA NextFits ==
  ASSUME TypeOK, GroupFitsItsType, NormalMax <= RaidMax, MaxRestarts = 0, [Next]_vars
  PROVE  GroupFitsItsType'
<1>1. CASE UNCHANGED vars
  BY <1>1, OtherFits DEF vars
<1>2. ASSUME NEW c \in Char, NEW t \in Char, GroupInvite(c, t) PROVE GroupFitsItsType'
  <2>1. CASE InviteToNewGroup(c, t)
    <3>1. /\ members' = [members EXCEPT ![nextId] = {c}]
          /\ raid' = [raid EXCEPT ![nextId] = FALSE]
      BY <2>1 DEF InviteToNewGroup
    <3>2. ASSUME NEW g \in GroupId
          PROVE  Cardinality(members'[g]) <= IF raid'[g] THEN RaidMax ELSE NormalMax
      <4>1. CASE g = nextId
        <5>1. members'[g] = {c} /\ raid'[g] = FALSE
          BY <3>1, <4>1 DEF TypeOK
        <5>2. Cardinality({c}) = 1
          BY FS_Singleton
        <5> QED BY <5>1, <5>2, SizeAssumption
      <4>2. CASE g # nextId
        BY <3>1, <4>2 DEF GroupFitsItsType, TypeOK
      <4> QED BY <4>1, <4>2
    <3> QED BY <3>2 DEF GroupFitsItsType
  <2>2. CASE InviteToOwnGroup(c, t)
    BY <2>2, OtherFits DEF InviteToOwnGroup
  <2> QED BY <1>2, <2>1, <2>2 DEF GroupInvite
<1>3. ASSUME NEW c \in Char, GroupAccept(c) PROVE GroupFitsItsType'
  <2>1. group[c] \in GroupId
    BY <1>3 DEF GroupAccept, TypeOK
  <2>2. CASE IsFull(group[c])
    BY <1>3, <2>2, OtherFits DEF GroupAccept
  <2>3. CASE ~IsFull(group[c])
    <3>1. members' = [members EXCEPT ![group[c]] = @ \cup {c}] /\ raid' = raid
      BY <1>3, <2>3 DEF GroupAccept
    <3>2. ASSUME NEW g \in GroupId
          PROVE  Cardinality(members'[g]) <= IF raid'[g] THEN RaidMax ELSE NormalMax
      <4>1. CASE g = group[c]
        <5> DEFINE most == IF raid[g] THEN RaidMax ELSE NormalMax
        <5>1. IsFiniteSet(members[g])
          BY CharAssumption, FS_Subset DEF TypeOK
        <5>2. Cardinality(members[g]) \in Nat /\ most \in Nat
          BY <5>1, FS_CardinalityType, SizeAssumption
        <5>3. ~(Cardinality(members[g]) >= most)
          BY <2>3, <4>1 DEF IsFull
        <5>4. Cardinality(members[g] \cup {c})
                \in {Cardinality(members[g]), Cardinality(members[g]) + 1}
          BY <5>1, FS_AddElement
        <5>5. members'[g] = members[g] \cup {c} /\ raid'[g] = raid[g]
          BY <3>1, <4>1 DEF TypeOK
        <5> HIDE DEF most
        <5>6. Cardinality(members'[g]) <= most
          BY <5>2, <5>3, <5>4, <5>5
        <5> QED BY <5>5, <5>6 DEF most
      <4>2. CASE g # group[c]
        BY <3>1, <4>2 DEF GroupFitsItsType, TypeOK
      <4> QED BY <4>1, <4>2
    <3> QED BY <3>2 DEF GroupFitsItsType
  <2> QED BY <2>2, <2>3
<1>4. ASSUME NEW c \in Char, GroupDecline(c) PROVE GroupFitsItsType'
  BY <1>4, DeclineFits DEF GroupDecline
<1>5. ASSUME NEW c \in Char, NEW t \in Char, GroupUninvite(c, t) PROVE GroupFitsItsType'
  <2>1. group[c] \in GroupId
    BY <1>5 DEF GroupUninvite, TypeOK
  <2> QED BY <1>5, <2>1, RemoveFits DEF GroupUninvite
<1>6. ASSUME NEW c \in Char, GroupLeave(c) PROVE GroupFitsItsType'
  <2>1. group[c] \in GroupId
    BY <1>6 DEF GroupLeave, TypeOK
  <2> QED BY <1>6, <2>1, RemoveFits DEF GroupLeave
<1>7. ASSUME NEW c \in Char, NEW t \in Char, GroupSetLeader(c, t) PROVE GroupFitsItsType'
  BY <1>7, OtherFits DEF GroupSetLeader
<1>8. ASSUME NEW c \in Char, GroupRaidConvert(c) PROVE GroupFitsItsType'
  <2>1. members' = members /\ \A g \in GroupId : raid[g] => raid'[g]
    BY <1>8 DEF GroupRaidConvert, TypeOK
  <2> QED BY <2>1, NothingGrows
<1>9. ASSUME NEW c \in Char, NEW t \in Char, NEW on \in BOOLEAN,
             GroupAssistentLeader(c, t, on)
      PROVE GroupFitsItsType'
  BY <1>9, OtherFits DEF GroupAssistentLeader
<1>10. ASSUME NEW c \in Char, NEW nodeFound \in BOOLEAN, PlayerLogin(c, nodeFound)
       PROVE GroupFitsItsType'
  BY <1>10, OtherFits DEF PlayerLogin, objects
<1>11. ASSUME NEW c \in Char, WorldInstanceEntered(c) PROVE GroupFitsItsType'
  BY <1>11, OtherFits DEF WorldInstanceEntered, objects
<1>12. ASSUME NEW c \in Char, NEW nodeFound \in BOOLEAN, ConnectionLost(c, nodeFound)
       PROVE GroupFitsItsType'
  <2>1. DeclineInvite(c, ~nodeFound)
    BY <1>12 DEF ConnectionLost
  <2> QED BY <2>1, DeclineFits
<1>13. ASSUME NEW c \in Char, DisconnectIdle(c) PROVE GroupFitsItsType'
  BY <1>13, DropFits DEF DisconnectIdle
<1>14. ASSUME NEW c \in Char, NEW saved \in BOOLEAN, Destroyed(c, saved) PROVE GroupFitsItsType'
  BY <1>14, DropFits DEF Destroyed
<1>15. ASSUME NEW c \in Char, SaveCharacter(c) PROVE GroupFitsItsType'
  BY <1>15, OtherFits DEF SaveCharacter, objects
<1>16. ASSUME NEW c \in Char, WorldLeave(c) PROVE GroupFitsItsType'
  BY <1>16, OtherFits DEF WorldLeave, objects
<1>17. ASSUME NEW c \in Char, NEW reason \in LeaveReason, HandleLeft(c, reason)
       PROVE GroupFitsItsType'
  BY <1>17, DeclineFits, DropFits, OtherFits DEF HandleLeft, objects, tables
<1>18. CASE RealmRestart
  BY <1>18 DEF RealmRestart, Restart, TypeOK
<1>19. ASSUME NEW c \in Char, MoveWorldPortAck(c) PROVE GroupFitsItsType'
  BY <1>19, OtherFits DEF MoveWorldPortAck, objects, tables
<1> QED
  BY <1>1, <1>2, <1>3, <1>4, <1>5, <1>6, <1>7, <1>8, <1>9, <1>10, <1>11, <1>12,
     <1>13, <1>14, <1>15, <1>16, <1>17, <1>18, <1>19 DEF Next

\* For as long as the realm runs, any number of pending invitations and
\* conversions leaves a group within its type (isFull when an invitation is
\* sent and when it is accepted).
THEOREM GroupsFit ==
  ASSUME MaxRestarts = 0, NormalMax <= RaidMax
  PROVE  Spec => []GroupFitsItsType
<1>1. Init => TypeOK /\ GroupFitsItsType
  BY BoundAssumption, FS_EmptySet, SizeAssumption
  DEF Init, TypeOK, SessionState, FirstId, GroupFitsItsType
<1>2. TypeOK /\ GroupFitsItsType /\ [Next]_vars => TypeOK' /\ GroupFitsItsType'
  BY NextType, NextFits
<1> QED BY <1>1, <1>2, PTL DEF Spec

\* For any characters and any order of invitations, conversions, removals and
\* crossing messages: who leads, what is stored and what a type allows agree
\* while the realm runs.
THEOREM GroupsAndRaidsAgree ==
  ASSUME MaxRestarts = 0, NormalMax <= RaidMax
  PROVE  Spec => []RaidsAgree
<1>1. Consistent /\ GroupFitsItsType => RaidsAgree
  BY DEF RaidsAgree
<1> QED BY <1>1, GroupsMatchTables, GroupsFit, PTL

-----------------------------------------------------------------------------
(* Auras: what each unit's list promises. *)

(* An aura without a field is passive; no two share a field. *)
Placed(r) ==
  /\ \A i \in DOMAIN r.auras : r.auras[i].slot = NoSlot => Is(r.auras[i], "Passive")
  /\ \A i, j \in DOMAIN r.auras : r.auras[i].slot # NoSlot /\ r.auras[i].slot = r.auras[j].slot => i = j
(* A field shows the aura that has it. *)
Displayed(r) ==
  /\ \A i \in DOMAIN r.auras : r.auras[i].slot # NoSlot => r.field[r.auras[i].slot] = r.auras[i].spell
  /\ \A n \in Slot : r.field[n] # NoAura => \E i \in DOMAIN r.auras : r.auras[i].slot = n
Controlled(r) == (r.stunned <=> Has(r.auras, "Stun")) /\ (r.rooted <=> Has(r.auras, "Root"))
Shaped(r) ==
  /\ \A i \in DOMAIN r.auras : Is(r.auras[i], "ShapeShift") => r.auras[i].spell = r.form
  /\ \A i, j \in DOMAIN r.auras : Is(r.auras[i], "ShapeShift") /\ Is(r.auras[j], "ShapeShift") => i = j
  /\ r.form # NoAura => Has(r.auras, "ShapeShift")
Lasts(a) == Is(a, "Passive") \/ Is(a, "DeathPersistent")
Mortal(r) == r.alive \/ \A i \in DOMAIN r.auras : Lasts(r.auras[i])
(* A passive spell is that of the shape or will be removed. *)
Leaves(r, due) ==
  \A i \in DOMAIN r.auras, f \in AuraSpell :
    Entry[f].passive = r.auras[i].spell =>
      due[r.auras[i].spell] > 0 \/ (r.form # NoAura /\ Entry[r.form].passive = r.auras[i].spell)
Fit(r, due) == Placed(r) /\ Displayed(r) /\ Controlled(r) /\ Shaped(r) /\ Leaves(r, due)

(* What the unit remembers is there. *)
Bears(r, c, m) == \E i \in DOMAIN r.auras : Single(r.auras[i], c, m)
Remembered(w) == \A u, c \in Bearer, m \in Mechanic : w.tracked[c][m] = u => Bears(w.unit[u], c, m)

(* Auras of one family, or two curses, that one caster has put on a unit are the same aura. *)
Rivals(a, b) ==
  /\ a.slot # NoSlot /\ b.slot # NoSlot /\ a.caster = b.caster
  /\ Entry[a.spell].baseid = Entry[b.spell].baseid \/ (Is(a, "Curse") /\ Is(b, "Curse"))
NoRivals(r) == \A i, j \in DOMAIN r.auras : Rivals(r.auras[i], r.auras[j]) => i = j
Found(w) == \A u, c \in Bearer, m \in Mechanic : Bears(w.unit[u], c, m) => w.tracked[c][m] = u

Bodies ==
  [unit : [Bearer -> UnitRecord], tracked : [Bearer -> [Mechanic -> Bearer \union {Nobody}]],
   leaving : [Bearer -> [AuraSpell -> Nat]], stray : BOOLEAN, fault : {"none", "unapplied", "dangling"}]
AllFit(w) == \A u \in Bearer : Fit(w.unit[u], w.leaving[u])
AllMortal(w) == \A u \in Bearer : Mortal(w.unit[u])
Apart(w) == (\A u \in Bearer : NoRivals(w.unit[u])) /\ Found(w)
(* All of it but for the dead. *)
AurasFit(w) == w \in Bodies /\ AllFit(w) /\ Remembered(w) /\ (SpellsApart => Apart(w))
AurasHold(w) == AurasFit(w) /\ AllMortal(w)

(* x comes of w by auras that end. *)
Fewer(w, x) ==
  \A v \in Bearer :
    /\ x.unit[v].alive = w.unit[v].alive
    /\ \A n \in DOMAIN x.unit[v].auras : \E i \in DOMAIN w.unit[v].auras : x.unit[v].auras[n] = w.unit[v].auras[i]
    /\ \A n \in Slot : x.unit[v].field[n] \in {NoAura, w.unit[v].field[n]}

(* The n-th of finitely many indices is the only one with that rank. *)
LEMMA RankIsPlace ==
  ASSUME NEW K \in SUBSET Nat, IsFiniteSet(K)
  PROVE  /\ Cardinality(K) \in Nat
         /\ \A n \in 1 .. Cardinality(K) : Nth(K, n) \in K /\ Rank(K, Nth(K, n)) = n
         /\ \A i \in K : \E n \in 1 .. Cardinality(K) : Nth(K, n) = i
<1> DEFINE f == [i \in K |-> Rank(K, i)]
<1>1. Cardinality(K) \in Nat
  BY FS_CardinalityType
<1>2. ASSUME NEW i \in K PROVE Rank(K, i) \in 1 .. Cardinality(K)
  <2> DEFINE T == {j \in K : j <= i}
  <2>1. T \in SUBSET K /\ i \in T
    OBVIOUS
  <2>2. IsFiniteSet(T) /\ Cardinality(T) <= Cardinality(K)
    BY <2>1, FS_Subset
  <2>3. Cardinality(T) \in Nat /\ Cardinality(T) # 0
    BY <2>1, <2>2, FS_CardinalityType, FS_EmptySet
  <2> QED
    BY <1>1, <2>2, <2>3 DEF Rank
<1>3. ASSUME NEW i \in K, NEW j \in K, i < j PROVE Rank(K, i) # Rank(K, j)
  <2> DEFINE A == {k \in K : k <= i}
             B == {k \in K : k <= j}
  <2>3. i \in Nat /\ j \in Nat /\ \A k \in K : k \in Nat
    OBVIOUS
  <2>4. j <= j /\ ~(j <= i) /\ \A k \in K : k <= i => k <= j
    BY <1>3, <2>3
  <2>1. B \in SUBSET K /\ A \in SUBSET B /\ j \in B /\ j \notin A
    BY <2>4
  <2>2. IsFiniteSet(B)
    BY <2>1, FS_Subset
  <2> HIDE DEF A, B
  <2>5. Cardinality(A) # Cardinality(B)
    BY <2>1, <2>2, FS_Subset
  <2> QED
    BY <2>5 DEF Rank, A, B
<1>4. ASSUME NEW i \in K, NEW j \in K, Rank(K, i) = Rank(K, j) PROVE i = j
  BY <1>3, <1>4
<1>5. f \in Injection(K, 1 .. Cardinality(K))
  BY <1>2, <1>4 DEF Injection, IsInjective
<1>6. IsFiniteSet(1 .. Cardinality(K)) /\ Cardinality(1 .. Cardinality(K)) = Cardinality(K)
  BY <1>1, FS_Interval
<1>7. f \in Surjection(K, 1 .. Cardinality(K))
  BY <1>5, <1>6, FS_Injection
<1>8. \A n \in 1 .. Cardinality(K) : \E i \in K : Rank(K, i) = n
  BY <1>7 DEF Surjection
<1>9. \A n \in 1 .. Cardinality(K) : Nth(K, n) \in K /\ Rank(K, Nth(K, n)) = n
  BY <1>8 DEF Nth
<1>10. \A i \in K : Nth(K, Rank(K, i)) = i
  BY <1>2, <1>4, <1>9
<1> QED
  BY <1>1, <1>2, <1>9, <1>10

(* The auras of a list but for those of S, each once. *)
Thinned(list, auras, S) ==
  /\ \A n \in DOMAIN list : \E i \in DOMAIN auras \ S : list[n] = auras[i]
  /\ \A i \in DOMAIN auras \ S : \E n \in DOMAIN list : list[n] = auras[i]
  /\ \A n, k \in DOMAIN list : n # k =>
       \E i, j \in DOMAIN auras \ S : i # j /\ list[n] = auras[i] /\ list[k] = auras[j]

(* A list without some of its auras has just the others, each once. *)
LEMMA WithoutIs ==
  ASSUME NEW auras \in Seq(Aura), NEW S
  PROVE  Without(auras, S) \in Seq(Aura) /\ Thinned(Without(auras, S), auras, S)
<1> DEFINE K == DOMAIN auras \ S
           N == Cardinality(K)
<1>1. K \in SUBSET Nat /\ IsFiniteSet(K)
  <2>1. DOMAIN auras = 1 .. Len(auras) /\ Len(auras) \in Nat
    OBVIOUS
  <2>2. IsFiniteSet(1 .. Len(auras))
    BY <2>1, FS_Interval
  <2> QED
    BY <2>1, <2>2, FS_Subset
<1>2. Without(auras, S) = [n \in 1 .. N |-> auras[Nth(K, n)]]
  BY DEF Without
<1>3. K \subseteq DOMAIN auras /\ \A i \in DOMAIN auras : auras[i] \in Aura
  OBVIOUS
<1> HIDE DEF K
<1>4. /\ N \in Nat
      /\ \A n \in 1 .. N : Nth(K, n) \in K /\ Rank(K, Nth(K, n)) = n
      /\ \A i \in K : \E n \in 1 .. N : Nth(K, n) = i
  BY <1>1, RankIsPlace
<1> HIDE DEF N
<1>5. Without(auras, S) \in Seq(Aura)
  <2>1. \A n \in 1 .. N : auras[Nth(K, n)] \in Aura
    BY <1>3, <1>4
  <2> QED
    BY <1>2, <1>4, <2>1
<1>6. DOMAIN Without(auras, S) = 1 .. N /\ \A n \in 1 .. N : Without(auras, S)[n] = auras[Nth(K, n)]
  BY <1>2
<1> DEFINE L == Without(auras, S)
           D == DOMAIN L
<1>7. D = 1 .. N /\ (\A n \in D : L[n] = auras[Nth(K, n)]) /\ L \in Seq(Aura)
  BY <1>5, <1>6
<1> HIDE DEF L
<1>8. \A n, k \in 1 .. N : n # k => Nth(K, n) # Nth(K, k)
  BY <1>4
<1> HIDE DEF D
<1>9. \A n \in D : \E i \in K : L[n] = auras[i]
  BY <1>4, <1>7
<1>10. \A i \in K : \E n \in D : L[n] = auras[i]
  BY <1>4, <1>7
<1>11. \A n, k \in D : n # k => \E i, j \in K : i # j /\ L[n] = auras[i] /\ L[k] = auras[j]
  BY <1>4, <1>7, <1>8
<1>12. Thinned(L, auras, S)
  BY <1>9, <1>10, <1>11 DEF K, D, Thinned
<1> QED
  BY <1>7, <1>12 DEF L

(* The auras that go, by index. *)
Taken(auras, S) == [i \in S |-> auras[i]]

(* What the removal of auras leaves, part by part. *)
Remains(r, S) == [Freed(r, Taken(r.auras, S), Without(r.auras, S)) EXCEPT !.auras = Without(r.auras, S)]

(* The parts of what handlers thread. *)
LEMMA BodiesParts ==
  ASSUME NEW w \in Bodies
  PROVE  /\ w = [unit |-> w.unit, tracked |-> w.tracked, leaving |-> w.leaving, stray |-> w.stray, fault |-> w.fault]
         /\ w.unit \in [Bearer -> UnitRecord] /\ w.tracked \in [Bearer -> [Mechanic -> Bearer \union {Nobody}]]
         /\ w.leaving \in [Bearer -> [AuraSpell -> Nat]] /\ w.stray \in BOOLEAN
         /\ w.fault \in {"none", "unapplied", "dangling"}
BY DEF Bodies

(* The parts of a unit. *)
LEMMA UnitParts ==
  ASSUME NEW r \in UnitRecord
  PROVE  /\ r.auras \in Seq(Aura) /\ r.field \in [Slot -> AuraSpell \union {NoAura}]
         /\ r.stunned \in BOOLEAN /\ r.rooted \in BOOLEAN /\ r.form \in AuraSpell \union {NoAura} /\ r.alive \in BOOLEAN
         /\ \A i \in DOMAIN r.auras : r.auras[i] \in Aura
BY DEF UnitRecord

(* The parts of an aura. *)
LEMMA AuraParts ==
  ASSUME NEW a \in Aura
  PROVE  /\ a.spell \in AuraSpell /\ a.caster \in Bearer /\ a.slot \in Slot \union {NoSlot}
         /\ a.charges \in Nat /\ a.stacks \in Nat \ {0} /\ a.breaks \in {"never", "posted", "listens"}
         /\ Entry[a.spell] \in SpellEntry
BY AurasAssumption DEF Aura

LEMMA FreedParts ==
  ASSUME NEW r \in UnitRecord, NEW gone, NEW list
  PROVE  /\ Freed(r, gone, list).auras = r.auras /\ Freed(r, gone, list).alive = r.alive
         /\ Freed(r, gone, list).stunned = (IF Has(gone, "Stun") THEN Has(list, "Stun") ELSE r.stunned)
         /\ Freed(r, gone, list).rooted = (IF Has(gone, "Root") THEN Has(list, "Root") ELSE r.rooted)
         /\ Freed(r, gone, list).form = (IF Has(gone, "ShapeShift") THEN NoAura ELSE r.form)
         /\ Freed(r, gone, list).field =
              [n \in Slot |-> IF \E i \in DOMAIN gone : gone[i].slot = n THEN NoAura ELSE r.field[n]]
         /\ Freed(r, gone, list) \in UnitRecord
<1> DEFINE st == IF Has(gone, "Stun") THEN Has(list, "Stun") ELSE r.stunned
           ro == IF Has(gone, "Root") THEN Has(list, "Root") ELSE r.rooted
           fo == IF Has(gone, "ShapeShift") THEN NoAura ELSE r.form
           fi == [n \in Slot |-> IF \E i \in DOMAIN gone : gone[i].slot = n THEN NoAura ELSE r.field[n]]
<1>1. Freed(r, gone, list) = [r EXCEPT !.stunned = st, !.rooted = ro, !.form = fo, !.field = fi]
  BY DEF Freed
<1>2. st \in BOOLEAN /\ ro \in BOOLEAN
  BY UnitParts DEF Has
<1>3. fo \in AuraSpell \union {NoAura} /\ fi \in [Slot -> AuraSpell \union {NoAura}]
  BY UnitParts
<1>4. /\ st = IF Has(gone, "Stun") THEN Has(list, "Stun") ELSE r.stunned
      /\ ro = IF Has(gone, "Root") THEN Has(list, "Root") ELSE r.rooted
      /\ fo = IF Has(gone, "ShapeShift") THEN NoAura ELSE r.form
      /\ fi = [n \in Slot |-> IF \E i \in DOMAIN gone : gone[i].slot = n THEN NoAura ELSE r.field[n]]
  OBVIOUS
<1> HIDE DEF st, ro, fo, fi
<1>5. Freed(r, gone, list) = [auras |-> r.auras, field |-> fi, stunned |-> st, rooted |-> ro, form |-> fo, alive |-> r.alive]
  BY <1>1 DEF UnitRecord
<1>6. Freed(r, gone, list) \in UnitRecord
  BY <1>2, <1>3, <1>5, UnitParts DEF UnitRecord
<1> QED
  BY <1>4, <1>5, <1>6

(* What remains of a unit. *)
LEMMA RemainsParts ==
  ASSUME NEW r \in UnitRecord, NEW S \in SUBSET DOMAIN r.auras
  PROVE  /\ Remains(r, S) \in UnitRecord
         /\ Remains(r, S).auras = Without(r.auras, S) /\ Remains(r, S).alive = r.alive
         /\ Remains(r, S).stunned = (IF \E i \in S : Is(r.auras[i], "Stun") THEN Has(Without(r.auras, S), "Stun") ELSE r.stunned)
         /\ Remains(r, S).rooted = (IF \E i \in S : Is(r.auras[i], "Root") THEN Has(Without(r.auras, S), "Root") ELSE r.rooted)
         /\ Remains(r, S).form = (IF \E i \in S : Is(r.auras[i], "ShapeShift") THEN NoAura ELSE r.form)
         /\ \A n \in Slot : Remains(r, S).field[n] = IF \E i \in S : r.auras[i].slot = n THEN NoAura ELSE r.field[n]
<1> DEFINE gone == Taken(r.auras, S)
           list == Without(r.auras, S)
           e == Freed(r, gone, list)
<1>1. DOMAIN gone = S /\ \A i \in S : gone[i] = r.auras[i]
  BY DEF Taken
<1>2. list \in Seq(Aura)
  BY WithoutIs, UnitParts
<1>3. Remains(r, S) = [e EXCEPT !.auras = list]
  BY DEF Remains
<1> HIDE DEF gone, list
<1>4. /\ e.auras = r.auras /\ e.alive = r.alive
      /\ e.stunned = (IF Has(gone, "Stun") THEN Has(list, "Stun") ELSE r.stunned)
      /\ e.rooted = (IF Has(gone, "Root") THEN Has(list, "Root") ELSE r.rooted)
      /\ e.form = (IF Has(gone, "ShapeShift") THEN NoAura ELSE r.form)
      /\ e.field = [n \in Slot |-> IF \E i \in DOMAIN gone : gone[i].slot = n THEN NoAura ELSE r.field[n]]
      /\ e \in UnitRecord
  BY FreedParts
<1> HIDE DEF e
<1>5. /\ Remains(r, S) \in UnitRecord /\ Remains(r, S).auras = list /\ Remains(r, S).alive = e.alive
      /\ Remains(r, S).stunned = e.stunned /\ Remains(r, S).rooted = e.rooted /\ Remains(r, S).form = e.form
      /\ Remains(r, S).field = e.field
  BY <1>2, <1>3, <1>4 DEF UnitRecord
<1>6. \A flag : Has(gone, flag) <=> \E i \in S : Is(r.auras[i], flag)
  BY <1>1 DEF Has
<1>7. \A n : (\E i \in DOMAIN gone : gone[i].slot = n) <=> \E i \in S : r.auras[i].slot = n
  BY <1>1
<1>8. Remains(r, S).stunned = (IF \E i \in S : Is(r.auras[i], "Stun") THEN Has(list, "Stun") ELSE r.stunned)
  BY <1>4, <1>5, <1>6
<1>9. Remains(r, S).rooted = (IF \E i \in S : Is(r.auras[i], "Root") THEN Has(list, "Root") ELSE r.rooted)
  BY <1>4, <1>5, <1>6
<1>10. Remains(r, S).form = (IF \E i \in S : Is(r.auras[i], "ShapeShift") THEN NoAura ELSE r.form)
  BY <1>4, <1>5, <1>6
<1>11. \A n \in Slot : Remains(r, S).field[n] = IF \E i \in S : r.auras[i].slot = n THEN NoAura ELSE r.field[n]
  <2> SUFFICES ASSUME NEW n \in Slot
               PROVE  Remains(r, S).field[n] = IF \E i \in S : r.auras[i].slot = n THEN NoAura ELSE r.field[n]
    OBVIOUS
  <2>1. e.field[n] = IF \E i \in DOMAIN gone : gone[i].slot = n THEN NoAura ELSE r.field[n]
    BY <1>4
  <2>2. e.field[n] = IF \E i \in S : r.auras[i].slot = n THEN NoAura ELSE r.field[n]
    BY <1>7, <2>1
  <2> QED
    BY <1>5, <2>2
<1> QED
  BY <1>4, <1>5, <1>8, <1>9, <1>10, <1>11 DEF list

(* Passive spells whose removal is posted. *)
LEMMA PostedParts ==
  ASSUME NEW l \in [AuraSpell -> Nat], NEW auras \in Seq(Aura), NEW S \in SUBSET DOMAIN auras
  PROVE  /\ PostedRemovals(l, Taken(auras, S)) \in [AuraSpell -> Nat]
         /\ \A s \in AuraSpell : l[s] > 0 => PostedRemovals(l, Taken(auras, S))[s] > 0
         /\ \A i \in S : Entry[auras[i].spell].passive \in AuraSpell =>
              PostedRemovals(l, Taken(auras, S))[Entry[auras[i].spell].passive] > 0
<1> DEFINE gone == Taken(auras, S)
           those(s) == {i \in DOMAIN gone : Entry[gone[i].spell].passive = s}
<1>1. DOMAIN gone = S /\ \A i \in S : gone[i] = auras[i]
  BY DEF Taken
<1>2. IsFiniteSet(S)
  <2>1. DOMAIN auras = 1 .. Len(auras) /\ Len(auras) \in Nat
    OBVIOUS
  <2> QED
    <3>1. IsFiniteSet(1 .. Len(auras))
      BY <2>1, FS_Interval
    <3> QED
      BY <2>1, <3>1, FS_Subset
<1>3. \A s : IsFiniteSet(those(s)) /\ Cardinality(those(s)) \in Nat /\ (Cardinality(those(s)) = 0 => those(s) = {})
  <2> SUFFICES ASSUME NEW s
               PROVE  IsFiniteSet(those(s)) /\ Cardinality(those(s)) \in Nat /\ (Cardinality(those(s)) = 0 => those(s) = {})
    OBVIOUS
  <2>1. those(s) \in SUBSET S
    BY <1>1
  <2> HIDE DEF those
  <2> QED
    BY <1>2, <2>1, FS_Subset, FS_CardinalityType, FS_EmptySet
<1>4. PostedRemovals(l, gone) = [s \in AuraSpell |-> l[s] + Cardinality(those(s))]
  BY DEF PostedRemovals
<1>5. \A i \in S : i \in those(Entry[auras[i].spell].passive)
  BY <1>1
<1> HIDE DEF those, gone
<1>6. \A s \in AuraSpell : PostedRemovals(l, gone)[s] = l[s] + Cardinality(those(s)) /\ l[s] \in Nat
  BY <1>4
<1>7. PostedRemovals(l, gone) \in [AuraSpell -> Nat]
  BY <1>3, <1>4
<1>8. \A s \in AuraSpell : l[s] > 0 => PostedRemovals(l, gone)[s] > 0
  BY <1>3, <1>6
<1>9. ASSUME NEW i \in S, Entry[auras[i].spell].passive \in AuraSpell
      PROVE  PostedRemovals(l, gone)[Entry[auras[i].spell].passive] > 0
  <2>1. those(Entry[auras[i].spell].passive) # {}
    BY <1>5
  <2>2. Cardinality(those(Entry[auras[i].spell].passive)) > 0
    BY <1>3, <2>1
  <2> QED
    <3>1. \A s \in AuraSpell : Cardinality(those(s)) > 0 => PostedRemovals(l, gone)[s] > 0
      BY <1>3, <1>6
    <3> QED
      BY <1>9, <2>2, <3>1
<1> QED
  BY <1>7, <1>8, <1>9 DEF gone

(* The removal of auras changes the unit, what casters remember and what is posted. *)
LEMMA RemovedIs ==
  ASSUME NEW w \in Bodies, NEW u \in Bearer, NEW S \in SUBSET DOMAIN w.unit[u].auras
  PROVE  /\ Removed(w, u, S) =
              [unit |-> [w.unit EXCEPT ![u] = Remains(w.unit[u], S)],
               tracked |-> Untracked(w.tracked, Taken(w.unit[u].auras, S)),
               leaving |-> [w.leaving EXCEPT ![u] = PostedRemovals(w.leaving[u], Taken(w.unit[u].auras, S))],
               stray |-> (w.stray \/ Unconnected(Taken(w.unit[u].auras, S))), fault |-> w.fault]
         /\ Removed(w, u, S) \in Bodies
<1> DEFINE auras == w.unit[u].auras
           gone == Taken(auras, S)
           list == Without(auras, S)
           e == Freed(w.unit[u], gone, list)
           t == Untracked(w.tracked, gone)
           l == PostedRemovals(w.leaving[u], gone)
           g == w.stray \/ Unconnected(gone)
           x == Misapplied(w, u, gone, list)
<1>1. w.unit \in [Bearer -> UnitRecord] /\ w.leaving \in [Bearer -> [AuraSpell -> Nat]] /\ w.unit[u] \in UnitRecord
      /\ w.leaving[u] \in [AuraSpell -> Nat]
  BY BodiesParts
<1>2. Removed(w, u, S) = [x EXCEPT !.unit[u].auras = list]
  BY DEF Removed, Taken
<1>3. x = [w EXCEPT !.unit[u] = e, !.tracked = t, !.leaving[u] = l, !.stray = g]
  BY DEF Misapplied
<1>4. Remains(w.unit[u], S) = [e EXCEPT !.auras = list] /\ Remains(w.unit[u], S) \in UnitRecord
  BY <1>1, RemainsParts DEF Remains
<1>5. t \in [Bearer -> [Mechanic -> Bearer \union {Nobody}]]
  BY BodiesParts DEF Untracked
<1>6. l \in [AuraSpell -> Nat]
  BY <1>1, PostedParts, UnitParts
<1>7. g \in BOOLEAN
  BY BodiesParts DEF Unconnected
<1> HIDE DEF e, t, l, g, list, x
<1>8. x = [unit |-> [w.unit EXCEPT ![u] = e], tracked |-> t, leaving |-> [w.leaving EXCEPT ![u] = l],
           stray |-> g, fault |-> w.fault]
  BY <1>3 DEF Bodies
<1>9. x.unit[u] = e
  BY <1>1, <1>8
<1>10. Removed(w, u, S) = [x EXCEPT !.unit = [@ EXCEPT ![u] = [e EXCEPT !.auras = list]]]
  BY <1>2, <1>9
<1>11. Removed(w, u, S) =
         [unit |-> [x.unit EXCEPT ![u] = Remains(w.unit[u], S)], tracked |-> t,
          leaving |-> [w.leaving EXCEPT ![u] = l], stray |-> g, fault |-> w.fault]
  BY <1>4, <1>8, <1>10
<1>12. [x.unit EXCEPT ![u] = Remains(w.unit[u], S)] = [w.unit EXCEPT ![u] = Remains(w.unit[u], S)]
  BY <1>1, <1>8
<1>13. Removed(w, u, S) \in Bodies
  <2>1. [w.unit EXCEPT ![u] = Remains(w.unit[u], S)] \in [Bearer -> UnitRecord]
    BY <1>1, <1>4
  <2>2. [w.leaving EXCEPT ![u] = l] \in [Bearer -> [AuraSpell -> Nat]]
    BY <1>1, <1>6
  <2> QED
    BY <1>5, <1>7, <1>11, <1>12, <2>1, <2>2, BodiesParts DEF Bodies
<1> QED
  BY <1>11, <1>12, <1>13 DEF t, l, g

(* The same, by units. *)
LEMMA RemovedParts ==
  ASSUME NEW w \in Bodies, NEW u \in Bearer, NEW S \in SUBSET DOMAIN w.unit[u].auras
  PROVE  /\ Removed(w, u, S) \in Bodies /\ Removed(w, u, S).fault = w.fault
         /\ Removed(w, u, S).unit[u] = Remains(w.unit[u], S)
         /\ Removed(w, u, S).leaving[u] = PostedRemovals(w.leaving[u], Taken(w.unit[u].auras, S))
         /\ \A v \in Bearer \ {u} : Removed(w, u, S).unit[v] = w.unit[v] /\ Removed(w, u, S).leaving[v] = w.leaving[v]
         /\ \A c \in Bearer, m \in Mechanic :
              Removed(w, u, S).tracked[c][m] =
                IF \E i \in S : Single(w.unit[u].auras[i], c, m) THEN Nobody ELSE w.tracked[c][m]
<1> DEFINE x == Removed(w, u, S)
           gone == Taken(w.unit[u].auras, S)
           r == Remains(w.unit[u], S)
           l == PostedRemovals(w.leaving[u], gone)
<1>1. DOMAIN gone = S /\ \A i \in S : gone[i] = w.unit[u].auras[i]
  BY DEF Taken
<1>2. x.unit = [w.unit EXCEPT ![u] = r] /\ x.tracked = Untracked(w.tracked, gone)
      /\ x.leaving = [w.leaving EXCEPT ![u] = l] /\ x.fault = w.fault /\ x \in Bodies
  BY RemovedIs
<1>3. w.unit \in [Bearer -> UnitRecord] /\ w.leaving \in [Bearer -> [AuraSpell -> Nat]]
  BY BodiesParts
<1> HIDE DEF x, gone, r, l
<1>4. x.unit[u] = r /\ x.leaving[u] = l /\ \A v \in Bearer \ {u} : x.unit[v] = w.unit[v] /\ x.leaving[v] = w.leaving[v]
  BY <1>2, <1>3
<1>5. ASSUME NEW c \in Bearer, NEW m \in Mechanic
      PROVE  x.tracked[c][m] = IF \E i \in S : Single(w.unit[u].auras[i], c, m) THEN Nobody ELSE w.tracked[c][m]
  <2>1. x.tracked[c][m] = IF \E i \in DOMAIN gone : Single(gone[i], c, m) THEN Nobody ELSE w.tracked[c][m]
    BY <1>2 DEF Untracked
  <2>2. (\E i \in DOMAIN gone : Single(gone[i], c, m)) <=> \E i \in S : Single(w.unit[u].auras[i], c, m)
    BY <1>1
  <2> QED
    BY <2>1, <2>2
<1> QED
  BY <1>2, <1>4, <1>5 DEF x, gone, r, l

(* A unit that loses auras is as it should be, whichever they are. *)
LEMMA RemainsFit ==
  ASSUME NEW r \in UnitRecord, NEW due \in [AuraSpell -> Nat], NEW S \in SUBSET DOMAIN r.auras, Fit(r, due)
  PROVE  Fit(Remains(r, S), PostedRemovals(due, Taken(r.auras, S)))
<1> DEFINE q == Remains(r, S)
           more == PostedRemovals(due, Taken(r.auras, S))
           list == Without(r.auras, S)
<1>1. r.auras \in Seq(Aura) /\ \A i \in DOMAIN r.auras : r.auras[i] \in Aura
  BY UnitParts
<1>2. /\ \A n \in DOMAIN list : \E i \in DOMAIN r.auras \ S : list[n] = r.auras[i]
      /\ \A i \in DOMAIN r.auras \ S : \E n \in DOMAIN list : list[n] = r.auras[i]
      /\ \A n, k \in DOMAIN list : n # k =>
           \E i, j \in DOMAIN r.auras \ S : i # j /\ list[n] = r.auras[i] /\ list[k] = r.auras[j]
  <2>1. Thinned(list, r.auras, S)
    BY <1>1, WithoutIs
  <2> HIDE DEF list
  <2> QED
    BY <2>1 DEF Thinned
<1>3. /\ q.auras = list
      /\ q.stunned = (IF \E i \in S : Is(r.auras[i], "Stun") THEN Has(list, "Stun") ELSE r.stunned)
      /\ q.rooted = (IF \E i \in S : Is(r.auras[i], "Root") THEN Has(list, "Root") ELSE r.rooted)
      /\ q.form = (IF \E i \in S : Is(r.auras[i], "ShapeShift") THEN NoAura ELSE r.form)
      /\ \A n \in Slot : q.field[n] = IF \E i \in S : r.auras[i].slot = n THEN NoAura ELSE r.field[n]
  BY RemainsParts
<1>4. /\ \A s \in AuraSpell : due[s] > 0 => more[s] > 0
      /\ \A i \in S : Entry[r.auras[i].spell].passive \in AuraSpell => more[Entry[r.auras[i].spell].passive] > 0
  BY <1>1, PostedParts
<1>5. Placed(r) /\ Displayed(r) /\ Controlled(r) /\ Shaped(r) /\ Leaves(r, due)
  BY DEF Fit
<1>6. \A i \in DOMAIN r.auras : r.auras[i].spell \in AuraSpell /\ r.auras[i].slot \in Slot \union {NoSlot}
  BY <1>1, AuraParts
<1> HIDE DEF q, more, list
<1>7. Placed(q)
  BY <1>2, <1>3, <1>5 DEF Placed
<1>8. Displayed(q)
  <2>1. ASSUME NEW n \in DOMAIN list, list[n].slot # NoSlot PROVE q.field[list[n].slot] = list[n].spell
    <3>1. PICK i \in DOMAIN r.auras \ S : list[n] = r.auras[i]
      BY <1>2, <2>1
    <3>2. r.field[r.auras[i].slot] = r.auras[i].spell /\ r.auras[i].slot \in Slot
      BY <1>5, <1>6, <2>1, <3>1 DEF Displayed
    <3>3. ~\E j \in S : r.auras[j].slot = r.auras[i].slot
      BY <1>5, <2>1, <3>1 DEF Placed
    <3> QED
      BY <1>3, <3>1, <3>2, <3>3
  <2>2. ASSUME NEW n \in Slot, q.field[n] # NoAura PROVE \E k \in DOMAIN list : list[k].slot = n
    <3>1. r.field[n] # NoAura /\ ~\E i \in S : r.auras[i].slot = n
      BY <1>3, <2>2
    <3>2. PICK i \in DOMAIN r.auras : r.auras[i].slot = n
      BY <1>5, <3>1 DEF Displayed
    <3> QED
      BY <1>2, <3>1, <3>2
  <2> QED
    BY <1>3, <2>1, <2>2 DEF Displayed
<1>9. \A flag : Has(list, flag) <=> \E i \in DOMAIN r.auras \ S : Is(r.auras[i], flag)
  BY <1>2 DEF Has
<1>10. Controlled(q)
  <2>1. q.stunned <=> Has(list, "Stun")
    BY <1>3, <1>5, <1>9 DEF Controlled, Has
  <2>2. q.rooted <=> Has(list, "Root")
    BY <1>3, <1>5, <1>9 DEF Controlled, Has
  <2> QED
    BY <1>3, <2>1, <2>2 DEF Controlled
<1>11. Shaped(q)
  <2>1. ASSUME NEW n \in DOMAIN list, Is(list[n], "ShapeShift") PROVE list[n].spell = q.form
    <3>1. PICK i \in DOMAIN r.auras \ S : list[n] = r.auras[i]
      BY <1>2, <2>1
    <3>2. ~\E j \in S : Is(r.auras[j], "ShapeShift")
      BY <1>5, <2>1, <3>1 DEF Shaped
    <3> QED
      BY <1>3, <1>5, <2>1, <3>1, <3>2 DEF Shaped
  <2>2. ASSUME NEW n \in DOMAIN list, NEW k \in DOMAIN list, Is(list[n], "ShapeShift"), Is(list[k], "ShapeShift"), n # k
        PROVE  FALSE
    <3>1. PICK i, j \in DOMAIN r.auras \ S : i # j /\ list[n] = r.auras[i] /\ list[k] = r.auras[j]
      BY <1>2, <2>2
    <3>2. Is(r.auras[i], "ShapeShift") /\ Is(r.auras[j], "ShapeShift")
      BY <2>2, <3>1
    <3> QED
      BY <1>5, <3>1, <3>2 DEF Shaped
  <2>3. q.form # NoAura => Has(list, "ShapeShift")
    <3>1. ASSUME q.form # NoAura PROVE \E i \in DOMAIN r.auras \ S : Is(r.auras[i], "ShapeShift")
      BY <1>3, <1>5, <3>1 DEF Shaped, Has
    <3> QED
      BY <1>9, <3>1
  <2> QED
    BY <1>3, <2>1, <2>2, <2>3 DEF Shaped
<1>12. Leaves(q, more)
  <2> SUFFICES ASSUME NEW n \in DOMAIN list, NEW f \in AuraSpell, Entry[f].passive = list[n].spell
               PROVE  more[list[n].spell] > 0 \/ (q.form # NoAura /\ Entry[q.form].passive = list[n].spell)
    BY <1>3 DEF Leaves
  <2>1. PICK i \in DOMAIN r.auras \ S : list[n] = r.auras[i]
    BY <1>2
  <2>2. list[n].spell \in AuraSpell
    BY <1>6, <2>1
  <2>3. due[list[n].spell] > 0 \/ (r.form # NoAura /\ Entry[r.form].passive = list[n].spell)
    BY <1>5, <2>1 DEF Leaves
  <2>4. CASE due[list[n].spell] > 0
    BY <1>4, <2>2, <2>4
  <2>5. CASE r.form # NoAura /\ Entry[r.form].passive = list[n].spell
    <3>1. CASE \E j \in S : Is(r.auras[j], "ShapeShift")
      <4>1. PICK j \in S : Is(r.auras[j], "ShapeShift")
        BY <3>1
      <4>2. r.auras[j].spell = r.form
        BY <1>5, <4>1 DEF Shaped
      <4> QED
        BY <1>4, <2>2, <2>5, <4>2
    <3>2. CASE ~\E j \in S : Is(r.auras[j], "ShapeShift")
      BY <1>3, <2>5, <3>2
    <3> QED
      BY <3>1, <3>2
  <2> QED
    BY <2>3, <2>4, <2>5
<1> QED
  BY <1>7, <1>8, <1>10, <1>11, <1>12 DEF Fit, q, more

(* A list of the unit with fewer auras. *)
LEMMA RemainsFewer ==
  ASSUME NEW r \in UnitRecord, NEW S \in SUBSET DOMAIN r.auras
  PROVE  /\ Thinned(Remains(r, S).auras, r.auras, S) /\ Remains(r, S).alive = r.alive
         /\ \A n \in Slot : Remains(r, S).field[n] \in {NoAura, r.field[n]}
<1>1. Remains(r, S).auras = Without(r.auras, S) /\ Remains(r, S).alive = r.alive
  BY RemainsParts
<1>2. Thinned(Without(r.auras, S), r.auras, S)
  BY WithoutIs, UnitParts
<1>3. \A n \in Slot : Remains(r, S).field[n] = IF \E i \in S : r.auras[i].slot = n THEN NoAura ELSE r.field[n]
  BY RemainsParts
<1> QED
  BY <1>1, <1>2, <1>3

(* Fewer auras have fewer rivals. *)
LEMMA RemainsApart ==
  ASSUME NEW r \in UnitRecord, NEW S \in SUBSET DOMAIN r.auras, NoRivals(r)
  PROVE  NoRivals(Remains(r, S))
<1> DEFINE q == Remains(r, S)
<1>1. Thinned(q.auras, r.auras, S)
  BY RemainsFewer
<1> HIDE DEF q
<1>2. ASSUME NEW n \in DOMAIN q.auras, NEW k \in DOMAIN q.auras, Rivals(q.auras[n], q.auras[k]), n # k
      PROVE  FALSE
  <2>1. PICK i, j \in DOMAIN r.auras \ S : i # j /\ q.auras[n] = r.auras[i] /\ q.auras[k] = r.auras[j]
    BY <1>1, <1>2 DEF Thinned
  <2>2. Rivals(r.auras[i], r.auras[j])
    BY <1>2, <2>1
  <2> QED
    BY <2>1, <2>2 DEF NoRivals
<1> QED
  BY <1>2 DEF NoRivals, q

(* Who bears a spell still bore it before; who loses none of the kind bears it still. *)
LEMMA RemainsBears ==
  ASSUME NEW r \in UnitRecord, NEW S \in SUBSET DOMAIN r.auras, NEW c, NEW m
  PROVE  /\ Bears(Remains(r, S), c, m) => \E i \in DOMAIN r.auras \ S : Single(r.auras[i], c, m)
         /\ Bears(Remains(r, S), c, m) => Bears(r, c, m)
         /\ Bears(r, c, m) /\ ~(\E i \in S : Single(r.auras[i], c, m)) => Bears(Remains(r, S), c, m)
<1> DEFINE q == Remains(r, S)
<1>1. Thinned(q.auras, r.auras, S)
  BY RemainsFewer
<1> HIDE DEF q
<1>2. Bears(q, c, m) => \E i \in DOMAIN r.auras \ S : Single(r.auras[i], c, m)
  BY <1>1 DEF Bears, Thinned
<1>3. Bears(r, c, m) /\ ~(\E i \in S : Single(r.auras[i], c, m)) => Bears(q, c, m)
  BY <1>1 DEF Bears, Thinned
<1> QED
  BY <1>2, <1>3 DEF q, Bears

(* Two auras with the single target of one caster and mechanic are one. *)
LEMMA SinglesAreOne ==
  ASSUME SpellsApart, NEW r \in UnitRecord, Placed(r), NoRivals(r), NEW c, NEW m,
         NEW i \in DOMAIN r.auras, NEW j \in DOMAIN r.auras, Single(r.auras[i], c, m), Single(r.auras[j], c, m)
  PROVE  i = j
<1>1. r.auras[i].spell \in AuraSpell /\ r.auras[j].spell \in AuraSpell
  BY UnitParts, AuraParts
<1>2. ~Is(r.auras[i], "Passive") /\ ~Is(r.auras[j], "Passive")
  BY <1>1 DEF SpellsApart, Single, Is
<1>3. r.auras[i].slot # NoSlot /\ r.auras[j].slot # NoSlot
  BY <1>2 DEF Placed
<1>4. Entry[r.auras[i].spell].baseid = Entry[r.auras[j].spell].baseid
  BY <1>1 DEF SpellsApart, Single, Is
<1>5. Rivals(r.auras[i], r.auras[j])
  BY <1>3, <1>4 DEF Rivals, Single
<1> QED
  BY <1>5 DEF NoRivals

(* Auras that end leave everything in order. *)
LEMMA RemovedFit ==
  ASSUME NEW w, AurasFit(w), NEW u \in Bearer, NEW S \in SUBSET DOMAIN w.unit[u].auras
  PROVE  AurasFit(Removed(w, u, S)) /\ Removed(w, u, S).fault = w.fault /\ Fewer(w, Removed(w, u, S))
<1> DEFINE x == Removed(w, u, S)
           r == w.unit[u]
           q == Remains(r, S)
           lost(c, m) == \E i \in S : Single(r.auras[i], c, m)
<1>1. w \in Bodies /\ AllFit(w) /\ Remembered(w) /\ (SpellsApart => Apart(w))
  BY DEF AurasFit
<1>2. r \in UnitRecord /\ w.leaving[u] \in [AuraSpell -> Nat] /\ \A v \in Bearer : w.unit[v] \in UnitRecord
  BY <1>1, BodiesParts
<1>3. /\ x \in Bodies /\ x.fault = w.fault /\ x.unit[u] = q
      /\ x.leaving[u] = PostedRemovals(w.leaving[u], Taken(r.auras, S))
      /\ \A v \in Bearer \ {u} : x.unit[v] = w.unit[v] /\ x.leaving[v] = w.leaving[v]
      /\ \A c \in Bearer, m \in Mechanic : x.tracked[c][m] = IF lost(c, m) THEN Nobody ELSE w.tracked[c][m]
  BY <1>1, RemovedParts
<1>4. Fit(q, PostedRemovals(w.leaving[u], Taken(r.auras, S)))
  BY <1>1, <1>2, RemainsFit DEF AllFit
<1>5. /\ NoRivals(r) => NoRivals(q)
      /\ \A c, m : /\ Bears(q, c, m) => \E i \in DOMAIN r.auras \ S : Single(r.auras[i], c, m)
                   /\ Bears(q, c, m) => Bears(r, c, m)
                   /\ Bears(r, c, m) /\ ~lost(c, m) => Bears(q, c, m)
  BY <1>2, RemainsApart, RemainsBears
<1>6. /\ q.alive = r.alive /\ (\A n \in DOMAIN q.auras : \E i \in DOMAIN r.auras : q.auras[n] = r.auras[i])
      /\ \A n \in Slot : q.field[n] \in {NoAura, r.field[n]}
  BY <1>2, RemainsFewer DEF Thinned
<1>7. \A c, m : lost(c, m) => Bears(r, c, m)
  BY DEF Bears
<1>8. ASSUME SpellsApart PROVE \A c, m : lost(c, m) => ~Bears(q, c, m)
  <2> SUFFICES ASSUME NEW c, NEW m, NEW i \in S, Single(r.auras[i], c, m), Bears(q, c, m) PROVE FALSE
    OBVIOUS
  <2>1. PICK j \in DOMAIN r.auras \ S : Single(r.auras[j], c, m)
    BY <1>5
  <2>2. Placed(r) /\ NoRivals(r)
    BY <1>1, <1>8 DEF AllFit, Fit, Apart
  <2> QED
    BY <1>2, <1>8, <2>1, <2>2, SinglesAreOne
<1> HIDE DEF x, q, r, lost
<1>9. AllFit(x)
  BY <1>1, <1>3, <1>4 DEF AllFit
<1>10. Nobody \notin Bearer
  BY AurasAssumption
<1>11. Remembered(x)
  <2> SUFFICES ASSUME NEW v \in Bearer, NEW c \in Bearer, NEW m \in Mechanic, x.tracked[c][m] = v
               PROVE  Bears(x.unit[v], c, m)
    BY DEF Remembered
  <2>1. ~lost(c, m) /\ w.tracked[c][m] = v
    BY <1>3, <1>10
  <2>2. Bears(w.unit[v], c, m)
    BY <1>1, <2>1 DEF Remembered
  <2> QED
    BY <1>3, <1>5, <2>1, <2>2 DEF r
<1>12. ASSUME SpellsApart PROVE Apart(x)
  <2>1. Apart(w)
    BY <1>1, <1>12
  <2>2. \A v \in Bearer : NoRivals(x.unit[v])
    BY <1>3, <1>5, <2>1 DEF Apart, r
  <2>3. Found(x)
    <3> SUFFICES ASSUME NEW v \in Bearer, NEW c \in Bearer, NEW m \in Mechanic, Bears(x.unit[v], c, m)
                 PROVE  x.tracked[c][m] = v
      BY DEF Found
    <3>1. Bears(w.unit[v], c, m)
      BY <1>3, <1>5 DEF r
    <3>2. w.tracked[c][m] = v
      BY <2>1, <3>1 DEF Apart, Found
    <3>3. ~lost(c, m)
      <4>1. CASE v = u
        BY <1>3, <1>8, <1>12, <4>1
      <4>2. CASE v # u
        <5>1. ~Bears(r, c, m)
          BY <2>1, <3>2, <4>2 DEF Apart, Found, r
        <5> QED
          BY <1>7, <5>1
      <4> QED
        BY <4>1, <4>2
    <3> QED
      BY <1>3, <3>2, <3>3
  <2> QED
    BY <2>2, <2>3 DEF Apart
<1>13. Fewer(w, x)
  <2> SUFFICES ASSUME NEW v \in Bearer
               PROVE  /\ x.unit[v].alive = w.unit[v].alive
                      /\ \A n \in DOMAIN x.unit[v].auras :
                           \E i \in DOMAIN w.unit[v].auras : x.unit[v].auras[n] = w.unit[v].auras[i]
                      /\ \A n \in Slot : x.unit[v].field[n] \in {NoAura, w.unit[v].field[n]}
    BY DEF Fewer
  <2>1. CASE v = u
    BY <1>3, <1>6, <2>1 DEF r
  <2>2. CASE v # u
    BY <1>3, <2>2
  <2> QED
    BY <2>1, <2>2
<1> QED
  BY <1>3, <1>9, <1>11, <1>12, <1>13 DEF AurasFit, x

(* The dead keep only what lasts. *)
LEMMA FewerMortal ==
  ASSUME NEW w, NEW x, NEW v \in Bearer, Fewer(w, x), Mortal(w.unit[v])
  PROVE  Mortal(x.unit[v])
BY DEF Fewer, Mortal

(* Auras that end leave everything in order, also of the dead. *)
LEMMA RemovedHold ==
  ASSUME NEW w, AurasHold(w), NEW u \in Bearer, NEW S \in SUBSET DOMAIN w.unit[u].auras
  PROVE  AurasHold(Removed(w, u, S)) /\ Removed(w, u, S).fault = w.fault /\ Fewer(w, Removed(w, u, S))
<1>1. AurasFit(w) /\ AllMortal(w)
  BY DEF AurasHold
<1>2. AurasFit(Removed(w, u, S)) /\ Removed(w, u, S).fault = w.fault /\ Fewer(w, Removed(w, u, S))
  BY <1>1, RemovedFit
<1>3. AllMortal(Removed(w, u, S))
  BY <1>1, <1>2, FewerMortal DEF AllMortal
<1> QED
  BY <1>2, <1>3 DEF AurasHold

(* w with another record of u. *)
WithUnit(w, u, r) == [w EXCEPT !.unit = [@ EXCEPT ![u] = r]]

LEMMA WithUnitParts ==
  ASSUME NEW w \in Bodies, NEW u \in Bearer, NEW r \in UnitRecord
  PROVE  /\ WithUnit(w, u, r) \in Bodies /\ WithUnit(w, u, r).unit[u] = r
         /\ \A v \in Bearer \ {u} : WithUnit(w, u, r).unit[v] = w.unit[v]
         /\ WithUnit(w, u, r).tracked = w.tracked /\ WithUnit(w, u, r).leaving = w.leaving
         /\ WithUnit(w, u, r).stray = w.stray /\ WithUnit(w, u, r).fault = w.fault
BY DEF Bodies, WithUnit

LEMMA WithUnitIs ==
  ASSUME NEW w \in Bodies, NEW u \in Bearer, NEW r \in UnitRecord
  PROVE  WithUnit(w, u, r).unit = [w.unit EXCEPT ![u] = r]
BY DEF Bodies, WithUnit

(* A change of a unit that leaves its list and what follows from it alone. *)
LEMMA SameList ==
  ASSUME NEW w, AurasFit(w), NEW u \in Bearer, NEW r \in UnitRecord,
         r.auras = w.unit[u].auras, r.field = w.unit[u].field, r.form = w.unit[u].form,
         r.stunned = w.unit[u].stunned, r.rooted = w.unit[u].rooted
  PROVE  AurasFit(WithUnit(w, u, r))
<1> DEFINE x == WithUnit(w, u, r)
<1>1. w \in Bodies
  BY DEF AurasFit
<1>2. /\ x \in Bodies /\ x.unit[u] = r /\ (\A v \in Bearer \ {u} : x.unit[v] = w.unit[v])
      /\ x.tracked = w.tracked /\ x.leaving = w.leaving
  BY <1>1, WithUnitParts
<1> HIDE DEF x
<1>3. \A due : Fit(w.unit[u], due) => Fit(r, due)
  BY DEF Fit, Placed, Displayed, Controlled, Shaped, Leaves
<1>4. AllFit(x)
  BY <1>2, <1>3 DEF AllFit, AurasFit
<1>5. \A c, m : Bears(r, c, m) <=> Bears(w.unit[u], c, m)
  BY DEF Bears
<1>6. \A v \in Bearer : \A c, m : Bears(x.unit[v], c, m) <=> Bears(w.unit[v], c, m)
  BY <1>2, <1>5
<1>7. Remembered(x)
  BY <1>2, <1>6 DEF Remembered, AurasFit
<1>8. NoRivals(w.unit[u]) => NoRivals(r)
  BY DEF NoRivals
<1>9. Apart(w) => Apart(x)
  BY <1>2, <1>6, <1>8 DEF Apart, Found
<1> QED
  BY <1>2, <1>4, <1>7, <1>9 DEF AurasFit, x

(* The lists that a loop looks through are of the unit. *)
LEMMA ThoseAreIndices == \A w, u, s, m :
  /\ Those(w, u, LAMBDA a : a.spell = s) \in SUBSET DOMAIN w.unit[u].auras
  /\ Those(w, u, LAMBDA a : Entry[a.spell].mechanic = m) \in SUBSET DOMAIN w.unit[u].auras
  /\ Those(w, u, LAMBDA a : ~Is(a, "Passive") /\ ~Is(a, "DeathPersistent")) \in SUBSET DOMAIN w.unit[u].auras
  /\ Those(w, u, LAMBDA a : Is(a, "ShapeShift")) \in SUBSET DOMAIN w.unit[u].auras
BY DEF Those

(* The auras a death removes *)
Passing(r) == {i \in DOMAIN r.auras : ~Lasts(r.auras[i])}
DeadUnit(r) == [r EXCEPT !.alive = FALSE]

(* Death removes all that does not last. *)
LEMMA KilledIs ==
  ASSUME NEW w \in Bodies, NEW u \in Bearer
  PROVE  /\ Killed(w, u) = Removed(WithUnit(w, u, DeadUnit(w.unit[u])), u, Passing(w.unit[u]))
         /\ DeadUnit(w.unit[u]) \in UnitRecord /\ DeadUnit(w.unit[u]).alive = FALSE
         /\ DeadUnit(w.unit[u]).auras = w.unit[u].auras /\ DeadUnit(w.unit[u]).field = w.unit[u].field
         /\ DeadUnit(w.unit[u]).form = w.unit[u].form /\ DeadUnit(w.unit[u]).stunned = w.unit[u].stunned
         /\ DeadUnit(w.unit[u]).rooted = w.unit[u].rooted
<1>1. w.unit[u] \in UnitRecord
  BY BodiesParts
<1>2. /\ DeadUnit(w.unit[u]) \in UnitRecord /\ DeadUnit(w.unit[u]).alive = FALSE
      /\ DeadUnit(w.unit[u]).auras = w.unit[u].auras /\ DeadUnit(w.unit[u]).field = w.unit[u].field
      /\ DeadUnit(w.unit[u]).form = w.unit[u].form /\ DeadUnit(w.unit[u]).stunned = w.unit[u].stunned
      /\ DeadUnit(w.unit[u]).rooted = w.unit[u].rooted
  BY <1>1 DEF DeadUnit, UnitRecord
<1>3. [w EXCEPT !.unit[u].alive = FALSE] = WithUnit(w, u, DeadUnit(w.unit[u]))
  BY DEF WithUnit, DeadUnit
<1>4. Those(w, u, LAMBDA a : ~Is(a, "Passive") /\ ~Is(a, "DeathPersistent")) = Passing(w.unit[u])
  BY DEF Those, Passing, Lasts
<1> QED
  BY <1>2, <1>3, <1>4 DEF Killed

(* A death leaves everything in order. *)
LEMMA KilledHolds ==
  ASSUME NEW w, AurasFit(w), NEW u \in Bearer, \A v \in Bearer \ {u} : Mortal(w.unit[v])
  PROVE  AurasHold(Killed(w, u)) /\ Killed(w, u).fault = w.fault
<1>1. w \in Bodies
  BY DEF AurasFit
<1>2. PICK d \in UnitRecord :
        /\ Killed(w, u) = Removed(WithUnit(w, u, d), u, Passing(w.unit[u])) /\ d.alive = FALSE
        /\ d.auras = w.unit[u].auras /\ d.field = w.unit[u].field /\ d.form = w.unit[u].form
        /\ d.stunned = w.unit[u].stunned /\ d.rooted = w.unit[u].rooted
  BY <1>1, KilledIs
<1> DEFINE y == WithUnit(w, u, d)
           S == Passing(w.unit[u])
<1>3. AurasFit(y)
  BY <1>2, SameList
<1>4. y \in Bodies /\ y.unit[u] = d /\ (\A v \in Bearer \ {u} : y.unit[v] = w.unit[v]) /\ y.fault = w.fault
  BY <1>1, WithUnitParts
<1> HIDE DEF y
<1>5. S \in SUBSET DOMAIN y.unit[u].auras
  BY <1>2, <1>4 DEF Passing
<1>6. AurasFit(Removed(y, u, S)) /\ Removed(y, u, S).fault = y.fault /\ Fewer(y, Removed(y, u, S))
  BY <1>3, <1>5, RemovedFit
<1>7. \A v \in Bearer \ {u} : Mortal(Removed(y, u, S).unit[v])
  BY <1>4, <1>6, FewerMortal
<1>8. Mortal(Removed(y, u, S).unit[u])
  <2>1. Removed(y, u, S).unit[u] = Remains(d, S)
    BY <1>4, <1>5, RemovedParts
  <2>2. Thinned(Remains(d, S).auras, d.auras, S)
    BY <1>2, <1>4, <1>5, RemainsFewer
  <2>3. \A i \in DOMAIN d.auras \ S : Lasts(d.auras[i])
    BY <1>2 DEF Passing
  <2> QED
    BY <2>1, <2>2, <2>3 DEF Mortal, Thinned
<1> QED
  BY <1>2, <1>4, <1>6, <1>7, <1>8 DEF AurasHold, AllMortal, y

(* A list with one aura more. *)
LEMMA AppendIs ==
  ASSUME NEW list \in Seq(Aura), NEW a \in Aura
  PROVE  /\ Append(list, a) \in Seq(Aura)
         /\ \A i \in DOMAIN list : i \in DOMAIN Append(list, a) /\ Append(list, a)[i] = list[i]
         /\ Len(list) + 1 \in DOMAIN Append(list, a) /\ Append(list, a)[Len(list) + 1] = a
         /\ \A i \in DOMAIN Append(list, a) : i \in DOMAIN list \/ i = Len(list) + 1
         /\ Len(list) + 1 \notin DOMAIN list
<1>1. Len(list) \in Nat /\ DOMAIN list = 1 .. Len(list)
  OBVIOUS
<1>2. Append(list, a) \in Seq(Aura) /\ Len(Append(list, a)) = Len(list) + 1
      /\ DOMAIN Append(list, a) = 1 .. Len(list) + 1
  OBVIOUS
<1>3. \A i \in 1 .. Len(list) + 1 : Append(list, a)[i] = IF i = Len(list) + 1 THEN a ELSE list[i]
  OBVIOUS
<1> QED
  BY <1>1, <1>2, <1>3

(* A unit that an aura has been put on, before its shape casts anything. *)
Joined(r, a) ==
  [auras |-> Append(r.auras, a), field |-> [n \in Slot |-> IF n = a.slot THEN a.spell ELSE r.field[n]],
   stunned |-> (r.stunned \/ Is(a, "Stun")), rooted |-> (r.rooted \/ Is(a, "Root")),
   form |-> IF Is(a, "ShapeShift") THEN a.spell ELSE r.form, alive |-> r.alive]
(* Nothing is in the way of the aura. *)
Fresh(r, a) ==
  /\ a \in Aura
  /\ a.slot = NoSlot => Is(a, "Passive")
  /\ a.slot # NoSlot => r.field[a.slot] = NoAura
  /\ Is(a, "ShapeShift") => ~Has(r.auras, "ShapeShift")
  /\ \A f \in AuraSpell : Entry[f].passive # a.spell

LEMMA JoinedParts ==
  ASSUME NEW r \in UnitRecord, NEW a \in Aura
  PROVE  /\ Joined(r, a) \in UnitRecord /\ Joined(r, a).auras = Append(r.auras, a) /\ Joined(r, a).alive = r.alive
         /\ \A n \in Slot : Joined(r, a).field[n] = IF n = a.slot THEN a.spell ELSE r.field[n]
         /\ Joined(r, a).stunned = (r.stunned \/ Is(a, "Stun")) /\ Joined(r, a).rooted = (r.rooted \/ Is(a, "Root"))
         /\ Joined(r, a).form = IF Is(a, "ShapeShift") THEN a.spell ELSE r.form
<1>1. a.spell \in AuraSpell
  BY AuraParts
<1>2. Append(r.auras, a) \in Seq(Aura)
  BY UnitParts, AppendIs
<1>3. [n \in Slot |-> IF n = a.slot THEN a.spell ELSE r.field[n]] \in [Slot -> AuraSpell \union {NoAura}]
  BY <1>1, UnitParts
<1>4. (r.stunned \/ Is(a, "Stun")) \in BOOLEAN /\ (r.rooted \/ Is(a, "Root")) \in BOOLEAN
  BY UnitParts DEF Is
<1>5. (IF Is(a, "ShapeShift") THEN a.spell ELSE r.form) \in AuraSpell \union {NoAura} /\ r.alive \in BOOLEAN
  BY <1>1, UnitParts
<1>6. Joined(r, a) \in UnitRecord
  BY <1>2, <1>3, <1>4, <1>5 DEF Joined, UnitRecord
<1> QED
  BY <1>6 DEF Joined

(* A fresh aura fits. *)
LEMMA JoinedFit ==
  ASSUME NEW r \in UnitRecord, NEW due, NEW a, Fit(r, due), Fresh(r, a)
  PROVE  Fit(Joined(r, a), due)
<1> DEFINE q == Joined(r, a)
           k == Len(r.auras) + 1
           list == Append(r.auras, a)
<1>1. a \in Aura /\ a.spell \in AuraSpell /\ a.slot \in Slot \union {NoSlot} /\ NoAura \notin AuraSpell
  BY AuraParts, AurasAssumption DEF Fresh
<1>2. /\ q.auras = list
      /\ \A n \in Slot : q.field[n] = IF n = a.slot THEN a.spell ELSE r.field[n]
      /\ q.stunned = (r.stunned \/ Is(a, "Stun")) /\ q.rooted = (r.rooted \/ Is(a, "Root"))
      /\ q.form = IF Is(a, "ShapeShift") THEN a.spell ELSE r.form
  BY <1>1, JoinedParts
<1>3. r.auras \in Seq(Aura) /\ \A i \in DOMAIN r.auras : r.auras[i].spell \in AuraSpell /\ r.auras[i].slot \in Slot \union {NoSlot}
  BY UnitParts, AuraParts
<1>4. /\ \A i \in DOMAIN r.auras : i \in DOMAIN list /\ list[i] = r.auras[i]
      /\ k \in DOMAIN list /\ list[k] = a
      /\ \A i \in DOMAIN list : i \in DOMAIN r.auras \/ i = k
      /\ k \notin DOMAIN r.auras
  BY <1>1, <1>3, AppendIs
<1>5. Placed(r) /\ Displayed(r) /\ Controlled(r) /\ Shaped(r) /\ Leaves(r, due)
  BY DEF Fit
<1>6. /\ a.slot = NoSlot => Is(a, "Passive")
      /\ a.slot # NoSlot => r.field[a.slot] = NoAura
      /\ Is(a, "ShapeShift") => ~Has(r.auras, "ShapeShift")
      /\ \A f \in AuraSpell : Entry[f].passive # a.spell
  BY DEF Fresh
<1> HIDE DEF q, k, list
<1>7. \A i \in DOMAIN r.auras : a.slot # NoSlot => r.auras[i].slot # a.slot
  BY <1>1, <1>3, <1>5, <1>6 DEF Displayed
<1>8. Placed(q)
  <2>1. \A i \in DOMAIN list : list[i].slot = NoSlot => Is(list[i], "Passive")
    BY <1>4, <1>5, <1>6 DEF Placed
  <2>2. \A i, j \in DOMAIN list : list[i].slot # NoSlot /\ list[i].slot = list[j].slot => i = j
    BY <1>4, <1>5, <1>7 DEF Placed
  <2> QED
    BY <1>2, <2>1, <2>2 DEF Placed
<1>9. Displayed(q)
  <2>1. ASSUME NEW i \in DOMAIN list, list[i].slot # NoSlot PROVE q.field[list[i].slot] = list[i].spell
    <3>1. CASE i = k
      BY <1>1, <1>2, <1>4, <2>1, <3>1
    <3>2. CASE i \in DOMAIN r.auras
      <4>1. list[i] = r.auras[i] /\ r.auras[i].slot \in Slot /\ r.auras[i].slot # a.slot
        BY <1>3, <1>4, <1>7, <2>1, <3>2
      <4>2. r.field[r.auras[i].slot] = r.auras[i].spell
        BY <1>5, <2>1, <3>2, <4>1 DEF Displayed
      <4> QED
        BY <1>2, <4>1, <4>2
    <3> QED
      BY <1>4, <3>1, <3>2
  <2>2. ASSUME NEW n \in Slot, q.field[n] # NoAura PROVE \E i \in DOMAIN list : list[i].slot = n
    <3>1. CASE n = a.slot
      BY <1>4, <3>1
    <3>2. CASE n # a.slot
      <4>1. r.field[n] # NoAura
        BY <1>2, <2>2, <3>2
      <4>2. PICK i \in DOMAIN r.auras : r.auras[i].slot = n
        BY <1>5, <4>1 DEF Displayed
      <4> QED
        BY <1>4, <4>2
    <3> QED
      BY <3>1, <3>2
  <2> QED
    BY <1>2, <2>1, <2>2 DEF Displayed
<1>10. \A flag : Has(list, flag) <=> Has(r.auras, flag) \/ Is(a, flag)
  BY <1>4 DEF Has
<1>11. Controlled(q)
  BY <1>2, <1>5, <1>10 DEF Controlled
<1>12. Shaped(q)
  <2>1. CASE Is(a, "ShapeShift")
    <3>1. \A i \in DOMAIN list : Is(list[i], "ShapeShift") => i = k
      BY <1>4, <1>6, <2>1 DEF Has
    <3>2. q.form = a.spell /\ Has(list, "ShapeShift")
      BY <1>2, <1>10, <2>1
    <3> QED
      BY <1>2, <1>4, <3>1, <3>2 DEF Shaped
  <2>2. CASE ~Is(a, "ShapeShift")
    <3>1. \A i \in DOMAIN list : Is(list[i], "ShapeShift") => i \in DOMAIN r.auras /\ list[i] = r.auras[i]
      BY <1>4, <2>2
    <3>2. q.form = r.form /\ (Has(list, "ShapeShift") <=> Has(r.auras, "ShapeShift"))
      BY <1>2, <1>10, <2>2
    <3>3. \A i \in DOMAIN list : Is(list[i], "ShapeShift") => list[i].spell = q.form
      BY <1>5, <3>1, <3>2 DEF Shaped
    <3>4. \A i, j \in DOMAIN list : Is(list[i], "ShapeShift") /\ Is(list[j], "ShapeShift") => i = j
      BY <1>5, <3>1 DEF Shaped
    <3>5. q.form # NoAura => Has(list, "ShapeShift")
      BY <1>5, <3>2 DEF Shaped
    <3> QED
      BY <1>2, <3>3, <3>4, <3>5 DEF Shaped
  <2> QED
    BY <2>1, <2>2
<1>13. Leaves(q, due)
  <2> SUFFICES ASSUME NEW i \in DOMAIN list, NEW f \in AuraSpell, Entry[f].passive = list[i].spell
               PROVE  due[list[i].spell] > 0 \/ (q.form # NoAura /\ Entry[q.form].passive = list[i].spell)
    BY <1>2 DEF Leaves
  <2>1. i \in DOMAIN r.auras /\ list[i] = r.auras[i]
    BY <1>4, <1>6
  <2>2. due[list[i].spell] > 0 \/ (r.form # NoAura /\ Entry[r.form].passive = list[i].spell)
    BY <1>5, <2>1 DEF Leaves
  <2>3. CASE Is(a, "ShapeShift")
    BY <1>5, <1>6, <2>2, <2>3 DEF Shaped
  <2>4. CASE ~Is(a, "ShapeShift")
    BY <1>2, <2>2, <2>4
  <2> QED
    BY <2>3, <2>4
<1> QED
  BY <1>8, <1>9, <1>11, <1>12, <1>13 DEF Fit, q

(* What it means for the others who put auras on it. *)
LEMMA JoinedApart ==
  ASSUME NEW r \in UnitRecord, NEW a \in Aura
  PROVE  /\ \A c, m : Bears(Joined(r, a), c, m) <=> Bears(r, c, m) \/ Single(a, c, m)
         /\ NoRivals(r) /\ (\A i \in DOMAIN r.auras : ~Rivals(r.auras[i], a)) => NoRivals(Joined(r, a))
         /\ Mortal(r) /\ (r.alive \/ Lasts(a)) => Mortal(Joined(r, a))
<1> DEFINE q == Joined(r, a)
           k == Len(r.auras) + 1
           list == Append(r.auras, a)
<1>1. q.auras = list /\ q.alive = r.alive
  BY JoinedParts
<1>2. /\ \A i \in DOMAIN r.auras : i \in DOMAIN list /\ list[i] = r.auras[i]
      /\ k \in DOMAIN list /\ list[k] = a
      /\ \A i \in DOMAIN list : i \in DOMAIN r.auras \/ i = k
  BY UnitParts, AppendIs
<1> HIDE DEF q, k, list
<1>3. \A c, m : Bears(q, c, m) <=> Bears(r, c, m) \/ Single(a, c, m)
  BY <1>1, <1>2 DEF Bears
<1>4. ASSUME NoRivals(r), \A i \in DOMAIN r.auras : ~Rivals(r.auras[i], a) PROVE NoRivals(q)
  <2>1. \A i \in DOMAIN r.auras : ~Rivals(a, r.auras[i])
    BY <1>4 DEF Rivals
  <2>2. ASSUME NEW i \in DOMAIN list, NEW j \in DOMAIN list, Rivals(list[i], list[j]) PROVE i = j
    BY <1>2, <1>4, <2>1, <2>2 DEF NoRivals
  <2> QED
    BY <1>1, <2>2 DEF NoRivals
<1>5. Mortal(r) /\ (r.alive \/ Lasts(a)) => Mortal(q)
  BY <1>1, <1>2 DEF Mortal
<1> QED
  BY <1>3, <1>4, <1>5 DEF q

(* A new aura is one. *)
LEMMA NewAuraParts ==
  ASSUME NEW s \in AuraSpell, NEW c \in Bearer, NEW slot \in Slot \union {NoSlot}
  PROVE  /\ NewAura(s, c, slot) \in Aura /\ NewAura(s, c, slot).spell = s /\ NewAura(s, c, slot).caster = c
         /\ NewAura(s, c, slot).slot = slot
BY AurasAssumption DEF NewAura, Aura, SpellEntry

(* A unit that a passive spell without a field has been put on. *)
Gained(r, b) == [r EXCEPT !.auras = Append(@, b)]

LEMMA GainedParts ==
  ASSUME NEW r \in UnitRecord, NEW b \in Aura
  PROVE  /\ Gained(r, b) \in UnitRecord /\ Gained(r, b).auras = Append(r.auras, b) /\ Gained(r, b).alive = r.alive
         /\ Gained(r, b).field = r.field /\ Gained(r, b).stunned = r.stunned /\ Gained(r, b).rooted = r.rooted
         /\ Gained(r, b).form = r.form
         /\ Gained(r, b) = [auras |-> Append(r.auras, b), field |-> r.field, stunned |-> r.stunned,
                            rooted |-> r.rooted, form |-> r.form, alive |-> r.alive]
<1>1. Append(r.auras, b) \in Seq(Aura)
  BY UnitParts, AppendIs
<1>2. Gained(r, b) = [auras |-> Append(r.auras, b), field |-> r.field, stunned |-> r.stunned,
                      rooted |-> r.rooted, form |-> r.form, alive |-> r.alive]
  <2> DEFINE list == Append(r.auras, b)
  <2>1. Gained(r, b) = [r EXCEPT !.auras = list]
    BY DEF Gained
  <2> HIDE DEF list
  <2>2. Gained(r, b) = [auras |-> list, field |-> r.field, stunned |-> r.stunned, rooted |-> r.rooted,
                        form |-> r.form, alive |-> r.alive]
    BY <2>1 DEF UnitRecord
  <2> QED
    BY <2>2 DEF list
<1>3. Gained(r, b) \in UnitRecord
  BY <1>1, <1>2, UnitParts DEF UnitRecord
<1> QED
  BY <1>2, <1>3

(* The passive spell of the shape fits, and is nobody's rival. *)
LEMMA GainedFit ==
  ASSUME NEW r \in UnitRecord, NEW due, NEW u \in Bearer, Fit(r, due),
         NEW p \in AuraSpell, r.form # NoAura, r.form \in AuraSpell, Entry[r.form].passive = p
  PROVE  /\ NewAura(p, u, NoSlot) \in Aura
         /\ Gained(r, NewAura(p, u, NoSlot)) \in UnitRecord
         /\ Fit(Gained(r, NewAura(p, u, NoSlot)), due)
         /\ \A c, m : Bears(Gained(r, NewAura(p, u, NoSlot)), c, m) <=> Bears(r, c, m)
         /\ NoRivals(r) => NoRivals(Gained(r, NewAura(p, u, NoSlot)))
         /\ Mortal(r) => Mortal(Gained(r, NewAura(p, u, NoSlot)))
<1> DEFINE b == NewAura(p, u, NoSlot)
           q == Gained(r, b)
           k == Len(r.auras) + 1
           list == Append(r.auras, b)
<1>1. b \in Aura /\ b.spell = p /\ b.slot = NoSlot
  BY NewAuraParts
<1>2. NoAura \notin AuraSpell /\ Entry[p].is = {"Positive", "Passive"}
  BY AurasAssumption
<1>3. \A flag : Is(b, flag) <=> flag \in {"Positive", "Passive"}
  BY <1>1, <1>2 DEF Is
<1> HIDE DEF b
<1>4. /\ q.auras = list /\ q.alive = r.alive /\ q.field = r.field /\ q.stunned = r.stunned /\ q.rooted = r.rooted
      /\ q.form = r.form /\ q \in UnitRecord
  BY <1>1, GainedParts
<1>5. /\ \A i \in DOMAIN r.auras : i \in DOMAIN list /\ list[i] = r.auras[i]
      /\ k \in DOMAIN list /\ list[k] = b
      /\ \A i \in DOMAIN list : i \in DOMAIN r.auras \/ i = k
      /\ k \notin DOMAIN r.auras
  BY <1>1, UnitParts, AppendIs
<1>6. Placed(r) /\ Displayed(r) /\ Controlled(r) /\ Shaped(r) /\ Leaves(r, due)
  BY DEF Fit
<1> HIDE DEF q, k, list
<1>7. /\ ~Is(b, "Stun") /\ ~Is(b, "Root") /\ ~Is(b, "ShapeShift") /\ ~Is(b, "SingleTarget") /\ Is(b, "Passive")
  BY <1>3
<1>8. Placed(q)
  <2>1. \A i \in DOMAIN list : list[i].slot = NoSlot => Is(list[i], "Passive")
    BY <1>5, <1>6, <1>7 DEF Placed
  <2>2. \A i, j \in DOMAIN list : list[i].slot # NoSlot /\ list[i].slot = list[j].slot => i = j
    BY <1>1, <1>5, <1>6 DEF Placed
  <2> QED
    BY <1>4, <2>1, <2>2 DEF Placed
<1>9. Displayed(q)
  <2>1. \A i \in DOMAIN list : list[i].slot # NoSlot => r.field[list[i].slot] = list[i].spell
    BY <1>1, <1>5, <1>6 DEF Displayed
  <2>2. \A n \in Slot : r.field[n] # NoAura => \E i \in DOMAIN list : list[i].slot = n
    BY <1>5, <1>6 DEF Displayed
  <2> QED
    BY <1>4, <2>1, <2>2 DEF Displayed
<1>10. \A i \in DOMAIN list : ~(i \in DOMAIN r.auras /\ list[i] = r.auras[i]) => list[i] = b
  BY <1>5
<1>11. Has(list, "Stun") <=> Has(r.auras, "Stun")
  BY <1>5, <1>7 DEF Has
<1>12. Has(list, "Root") <=> Has(r.auras, "Root")
  BY <1>5, <1>7 DEF Has
<1>13. Has(list, "ShapeShift") <=> Has(r.auras, "ShapeShift")
  BY <1>5, <1>7 DEF Has
<1>14. Controlled(q)
  BY <1>4, <1>6, <1>11, <1>12 DEF Controlled
<1>15. Shaped(q)
  <2>1. \A i \in DOMAIN list : Is(list[i], "ShapeShift") => i \in DOMAIN r.auras /\ list[i] = r.auras[i]
    BY <1>5, <1>7
  <2>2. \A i \in DOMAIN list : Is(list[i], "ShapeShift") => list[i].spell = q.form
    BY <1>4, <1>6, <2>1 DEF Shaped
  <2>3. \A i, j \in DOMAIN list : Is(list[i], "ShapeShift") /\ Is(list[j], "ShapeShift") => i = j
    BY <1>6, <2>1 DEF Shaped
  <2>4. q.form # NoAura => Has(list, "ShapeShift")
    BY <1>4, <1>6, <1>13 DEF Shaped
  <2> QED
    BY <1>4, <2>2, <2>3, <2>4 DEF Shaped
<1>16. Leaves(q, due)
  <2> SUFFICES ASSUME NEW i \in DOMAIN list, NEW f \in AuraSpell, Entry[f].passive = list[i].spell
               PROVE  due[list[i].spell] > 0 \/ (r.form # NoAura /\ Entry[r.form].passive = list[i].spell)
    BY <1>4 DEF Leaves
  <2>1. CASE i = k
    BY <1>1, <1>5, <2>1
  <2>2. CASE i \in DOMAIN r.auras
    BY <1>5, <1>6, <2>2 DEF Leaves
  <2> QED
    BY <1>5, <2>1, <2>2
<1>17. \A c, m : Bears(q, c, m) <=> Bears(r, c, m)
  <2>1. \A c, m : ~Single(b, c, m)
    BY <1>7 DEF Single
  <2> QED
    BY <1>4, <1>5, <2>1 DEF Bears
<1>18. ASSUME NoRivals(r) PROVE NoRivals(q)
  <2>1. \A a : ~Rivals(a, b) /\ ~Rivals(b, a)
    BY <1>1 DEF Rivals
  <2>2. ASSUME NEW i \in DOMAIN list, NEW j \in DOMAIN list, Rivals(list[i], list[j]) PROVE i = j
    BY <1>5, <1>18, <2>1, <2>2 DEF NoRivals
  <2> QED
    BY <1>4, <2>2 DEF NoRivals
<1>19. Mortal(r) => Mortal(q)
  BY <1>4, <1>5, <1>7 DEF Mortal, Lasts
<1> QED
  BY <1>1, <1>4, <1>8, <1>9, <1>14, <1>15, <1>16, <1>17, <1>18, <1>19 DEF Fit, q, b

(* A unit that the aura and what its shape casts have been put on. *)
Grown(r, a, u) ==
  IF Is(a, "ShapeShift") /\ Entry[a.spell].passive # NoAura
  THEN Gained(Joined(r, a), NewAura(Entry[a.spell].passive, u, NoSlot)) ELSE Joined(r, a)

(* It fits. *)
LEMMA GrownFit ==
  ASSUME NEW r \in UnitRecord, NEW due, NEW u \in Bearer, NEW a, Fit(r, due), Fresh(r, a)
  PROVE  /\ Grown(r, a, u) \in UnitRecord /\ Fit(Grown(r, a, u), due)
         /\ \A c, m : Bears(Grown(r, a, u), c, m) <=> Bears(r, c, m) \/ Single(a, c, m)
         /\ NoRivals(r) /\ (\A i \in DOMAIN r.auras : ~Rivals(r.auras[i], a)) => NoRivals(Grown(r, a, u))
         /\ Mortal(r) /\ (r.alive \/ Lasts(a)) => Mortal(Grown(r, a, u))
<1> DEFINE j == Joined(r, a)
           p == Entry[a.spell].passive
<1>1. a \in Aura /\ a.spell \in AuraSpell /\ NoAura \notin AuraSpell /\ p \in AuraSpell \union {NoAura}
  BY AuraParts, AurasAssumption DEF Fresh, SpellEntry
<1>2. j \in UnitRecord /\ j.form = IF Is(a, "ShapeShift") THEN a.spell ELSE r.form
  BY <1>1, JoinedParts
<1>3. Fit(j, due)
  BY JoinedFit
<1>4. /\ \A c, m : Bears(j, c, m) <=> Bears(r, c, m) \/ Single(a, c, m)
      /\ NoRivals(r) /\ (\A i \in DOMAIN r.auras : ~Rivals(r.auras[i], a)) => NoRivals(j)
      /\ Mortal(r) /\ (r.alive \/ Lasts(a)) => Mortal(j)
  BY <1>1, JoinedApart
<1> HIDE DEF j
<1>5. CASE Is(a, "ShapeShift") /\ p # NoAura
  <2>1. p \in AuraSpell /\ j.form = a.spell /\ j.form # NoAura /\ j.form \in AuraSpell /\ Entry[j.form].passive = p
    BY <1>1, <1>2, <1>5
  <2>2. Grown(r, a, u) = Gained(j, NewAura(p, u, NoSlot))
    BY <1>5 DEF Grown, j
  <2> HIDE DEF p
  <2>3. /\ Gained(j, NewAura(p, u, NoSlot)) \in UnitRecord
        /\ Fit(Gained(j, NewAura(p, u, NoSlot)), due)
        /\ \A c, m : Bears(Gained(j, NewAura(p, u, NoSlot)), c, m) <=> Bears(j, c, m)
        /\ NoRivals(j) => NoRivals(Gained(j, NewAura(p, u, NoSlot)))
        /\ Mortal(j) => Mortal(Gained(j, NewAura(p, u, NoSlot)))
    BY <1>2, <1>3, <2>1, GainedFit
  <2> QED
    BY <1>4, <2>2, <2>3
<1>6. CASE ~(Is(a, "ShapeShift") /\ p # NoAura)
  <2>1. Grown(r, a, u) = j
    BY <1>6 DEF Grown, j
  <2> QED
    BY <1>2, <1>3, <1>4, <2>1
<1> QED
  BY <1>5, <1>6

(* A record put on a unit twice is put on it once; on two units in any order. *)
LEMMA WithUnitTwice ==
  ASSUME NEW w \in Bodies, NEW u \in Bearer, NEW q \in UnitRecord, NEW r \in UnitRecord
  PROVE  /\ WithUnit(WithUnit(w, u, q), u, r) = WithUnit(w, u, r)
         /\ WithUnit(w, u, w.unit[u]) = w
BY DEF Bodies, WithUnit

(* The caster c remembers u for the mechanic m. *)
Remember(w, c, m, u) == [w EXCEPT !.tracked[c][m] = u]

LEMMA RememberParts ==
  ASSUME NEW w \in Bodies, NEW c \in Bearer, NEW m \in Mechanic, NEW u \in Bearer
  PROVE  /\ Remember(w, c, m, u) \in Bodies /\ Remember(w, c, m, u).unit = w.unit
         /\ Remember(w, c, m, u).leaving = w.leaving /\ Remember(w, c, m, u).fault = w.fault
         /\ \A d \in Bearer, n \in Mechanic :
              Remember(w, c, m, u).tracked[d][n] = IF d = c /\ n = m THEN u ELSE w.tracked[d][n]
         /\ \A q \in UnitRecord, v \in Bearer : Remember(WithUnit(w, v, q), c, m, u) = WithUnit(Remember(w, c, m, u), v, q)
<1> DEFINE t == [w.tracked EXCEPT ![c] = [w.tracked[c] EXCEPT ![m] = u]]
<1>1. Remember(w, c, m, u) = [w EXCEPT !.tracked = t]
  BY DEF Remember
<1>2. t \in [Bearer -> [Mechanic -> Bearer \union {Nobody}]]
  BY BodiesParts
<1>3. \A d \in Bearer, n \in Mechanic : t[d][n] = IF d = c /\ n = m THEN u ELSE w.tracked[d][n]
  BY BodiesParts
<1> HIDE DEF t
<1>5. Remember(w, c, m, u) = [unit |-> w.unit, tracked |-> t, leaving |-> w.leaving, stray |-> w.stray, fault |-> w.fault]
  BY <1>1 DEF Bodies
<1>6. Remember(w, c, m, u) \in Bodies
  BY <1>2, <1>5, BodiesParts DEF Bodies
<1>7. ASSUME NEW q \in UnitRecord, NEW v \in Bearer
      PROVE  Remember(WithUnit(w, v, q), c, m, u) = WithUnit(Remember(w, c, m, u), v, q)
  <2> DEFINE y == WithUnit(w, v, q)
             x == [w.unit EXCEPT ![v] = q]
  <2>1. /\ y \in Bodies /\ y.unit = x /\ y.tracked = w.tracked /\ y.leaving = w.leaving
        /\ y.stray = w.stray /\ y.fault = w.fault
    BY WithUnitParts, WithUnitIs
  <2>2. Remember(y, c, m, u) = [y EXCEPT !.tracked = [w.tracked EXCEPT ![c] = [w.tracked[c] EXCEPT ![m] = u]]]
    BY <2>1 DEF Remember
  <2>3. Remember(y, c, m, u) = [y EXCEPT !.tracked = t]
    BY <2>2 DEF t
  <2> HIDE DEF y
  <2>4. y = [unit |-> x, tracked |-> w.tracked, leaving |-> w.leaving, stray |-> w.stray, fault |-> w.fault]
    BY <2>1, BodiesParts
  <2>5. Remember(y, c, m, u) =
          [unit |-> x, tracked |-> t, leaving |-> w.leaving, stray |-> w.stray, fault |-> w.fault]
    BY <2>3, <2>4
  <2>6. WithUnit(Remember(w, c, m, u), v, q) =
          [unit |-> x, tracked |-> t, leaving |-> w.leaving, stray |-> w.stray, fault |-> w.fault]
    BY <1>5 DEF WithUnit
  <2> QED
    BY <2>5, <2>6 DEF y
<1> QED
  BY <1>3, <1>5, <1>6, <1>7

(* Auras that end on a unit, and another unit that changes. *)
LEMMA RemovedElsewhere ==
  ASSUME NEW w \in Bodies, NEW u \in Bearer, NEW v \in Bearer, v # u, NEW q \in UnitRecord,
         NEW S \in SUBSET DOMAIN w.unit[v].auras
  PROVE  Removed(WithUnit(w, u, q), v, S) = WithUnit(Removed(w, v, S), u, q)
<1> DEFINE y == WithUnit(w, u, q)
           R == Remains(w.unit[v], S)
           gone == Taken(w.unit[v].auras, S)
           t == Untracked(w.tracked, gone)
           l == [w.leaving EXCEPT ![v] = PostedRemovals(w.leaving[v], gone)]
           g == w.stray \/ Unconnected(gone)
<1>1. /\ y \in Bodies /\ y.unit = [w.unit EXCEPT ![u] = q] /\ y.tracked = w.tracked /\ y.leaving = w.leaving
      /\ y.stray = w.stray /\ y.fault = w.fault
  BY WithUnitParts, WithUnitIs
<1>2. w.unit \in [Bearer -> UnitRecord]
  BY BodiesParts
<1> HIDE DEF y
<1>3. y.unit[v] = w.unit[v]
  BY <1>1, <1>2
<1>4. Removed(y, v, S) = [unit |-> [y.unit EXCEPT ![v] = R], tracked |-> t, leaving |-> l, stray |-> g, fault |-> w.fault]
  <2>1. S \in SUBSET DOMAIN y.unit[v].auras
    BY <1>3
  <2>2. Removed(y, v, S) =
              [unit |-> [y.unit EXCEPT ![v] = Remains(y.unit[v], S)],
               tracked |-> Untracked(y.tracked, Taken(y.unit[v].auras, S)),
               leaving |-> [y.leaving EXCEPT ![v] = PostedRemovals(y.leaving[v], Taken(y.unit[v].auras, S))],
               stray |-> (y.stray \/ Unconnected(Taken(y.unit[v].auras, S))), fault |-> y.fault]
    BY <1>1, <2>1, RemovedIs
  <2> QED
    BY <1>1, <1>3, <2>2
<1>5. Removed(w, v, S) = [unit |-> [w.unit EXCEPT ![v] = R], tracked |-> t, leaving |-> l, stray |-> g, fault |-> w.fault]
  BY RemovedIs
<1> HIDE DEF R, t, l, g
<1>6. [y.unit EXCEPT ![v] = R] = [[w.unit EXCEPT ![v] = R] EXCEPT ![u] = q]
  BY <1>1, <1>2
<1>7. WithUnit(Removed(w, v, S), u, q) =
        [unit |-> [[w.unit EXCEPT ![v] = R] EXCEPT ![u] = q], tracked |-> t, leaving |-> l, stray |-> g, fault |-> w.fault]
  BY <1>5 DEF WithUnit
<1> QED
  BY <1>4, <1>6, <1>7 DEF y

(* What a single-target spell removes from the unit that it was on. *)
LeftBy(w, u, a) ==
  LET m == Entry[a.spell].mechanic
      old == w.tracked[a.caster][m]
  IN  IF old \notin {Nobody, u} THEN RemovedByMechanic(w, old, m) ELSE w

LEMMA TrackedIs ==
  ASSUME NEW w \in Bodies, NEW u \in Bearer, NEW a \in Aura
  PROVE  Tracked(w, u, a) =
           IF Is(a, "SingleTarget") THEN Remember(LeftBy(w, u, a), a.caster, Entry[a.spell].mechanic, u) ELSE w
BY DEF Tracked, LeftBy, Remember

(* It removes from the old unit the auras of the mechanic. *)
OfMechanic(r, m) == {i \in DOMAIN r.auras : Entry[r.auras[i].spell].mechanic = m}
LEMMA ByMechanicIs == \A w, v, m : RemovedByMechanic(w, v, m) = Removed(w, v, OfMechanic(w.unit[v], m))
BY DEF RemovedByMechanic, Those, OfMechanic

(* What the aura itself did to the unit makes no difference to the old one. *)
LEMMA LeftElsewhere ==
  ASSUME NEW w \in Bodies, NEW u \in Bearer, NEW a \in Aura, NEW q \in UnitRecord
  PROVE  /\ LeftBy(WithUnit(w, u, q), u, a) = WithUnit(LeftBy(w, u, a), u, q)
         /\ LeftBy(w, u, a) \in Bodies /\ LeftBy(w, u, a).unit[u] = w.unit[u]
<1> DEFINE m == Entry[a.spell].mechanic
           old == w.tracked[a.caster][m]
           S == OfMechanic(w.unit[old], m)
           y == WithUnit(w, u, q)
<1>1. a.caster \in Bearer /\ m \in Mechanic
  BY AuraParts DEF SpellEntry
<1>2. old \in Bearer \union {Nobody}
  BY <1>1, BodiesParts
<1>3. /\ WithUnit(w, u, q).tracked = w.tracked
      /\ \A v \in Bearer \ {u} : WithUnit(w, u, q).unit[v] = w.unit[v]
  BY WithUnitParts
<1>4. y.tracked[a.caster][m] = old
  BY <1>3
<1> HIDE DEF m
<1>5. CASE old \in {Nobody, u}
  <2>1. LeftBy(w, u, a) = w
    BY <1>5 DEF LeftBy, m
  <2>2. LeftBy(y, u, a) = y
    BY <1>4, <1>5 DEF LeftBy, m
  <2> QED
    BY <2>1, <2>2
<1>6. CASE old \notin {Nobody, u}
  <2> HIDE DEF y
  <2>1. old \in Bearer \ {u} /\ y.unit[old] = w.unit[old]
    BY <1>2, <1>3, <1>6 DEF y
  <2>2. LeftBy(w, u, a) = RemovedByMechanic(w, old, m)
    BY <1>6 DEF LeftBy, m
  <2>3. LeftBy(y, u, a) = RemovedByMechanic(y, old, m)
    BY <1>4, <1>6 DEF LeftBy, m
  <2> HIDE DEF old
  <2>4. LeftBy(w, u, a) = Removed(w, old, S)
    BY <2>2, ByMechanicIs
  <2>5. LeftBy(y, u, a) = Removed(y, old, S)
    BY <2>1, <2>3, ByMechanicIs
  <2>6. S \in SUBSET DOMAIN w.unit[old].auras
    BY DEF OfMechanic
  <2> HIDE DEF S
  <2>7. Removed(y, old, S) = WithUnit(Removed(w, old, S), u, q)
    BY <2>1, <2>6, RemovedElsewhere DEF y
  <2>8. Removed(w, old, S) \in Bodies /\ Removed(w, old, S).unit[u] = w.unit[u]
    BY <2>1, <2>6, RemovedParts
  <2> QED
    BY <2>4, <2>5, <2>7, <2>8 DEF y
<1> QED
  BY <1>5, <1>6

LEMMA TrackedElsewhere ==
  ASSUME NEW w \in Bodies, NEW u \in Bearer, NEW a \in Aura, NEW q \in UnitRecord
  PROVE  /\ Tracked(WithUnit(w, u, q), u, a) = WithUnit(Tracked(w, u, a), u, q)
         /\ Tracked(w, u, a) \in Bodies /\ Tracked(w, u, a).unit[u] = w.unit[u]
<1> DEFINE m == Entry[a.spell].mechanic
           l == LeftBy(w, u, a)
           c == a.caster
<1>1. c \in Bearer /\ m \in Mechanic
  BY AuraParts DEF SpellEntry
<1>2. WithUnit(w, u, q) \in Bodies
  BY WithUnitParts
<1>3. LeftBy(WithUnit(w, u, q), u, a) = WithUnit(l, u, q) /\ l \in Bodies /\ l.unit[u] = w.unit[u]
  BY LeftElsewhere
<1>4. Tracked(w, u, a) = IF Is(a, "SingleTarget") THEN Remember(l, c, m, u) ELSE w
  BY TrackedIs
<1>5. Tracked(WithUnit(w, u, q), u, a) =
        IF Is(a, "SingleTarget") THEN Remember(WithUnit(l, u, q), c, m, u) ELSE WithUnit(w, u, q)
  BY <1>2, <1>3, TrackedIs
<1> HIDE DEF l, m, c
<1>6. /\ Remember(l, c, m, u) \in Bodies /\ Remember(l, c, m, u).unit = l.unit
      /\ Remember(WithUnit(l, u, q), c, m, u) = WithUnit(Remember(l, c, m, u), u, q)
  BY <1>1, <1>3, RememberParts
<1> QED
  BY <1>3, <1>4, <1>5, <1>6

(* Between the end of the aura on the old unit and its start on u everything
   is in order but for what its caster remembers. *)
LEMMA TrackedHolds ==
  ASSUME NEW w, AurasFit(w), NEW u \in Bearer, NEW a \in Aura
  PROVE  /\ AllFit(Tracked(w, u, a)) /\ Tracked(w, u, a).fault = w.fault /\ Fewer(w, Tracked(w, u, a))
         /\ \A v, c \in Bearer, m \in Mechanic :
              Tracked(w, u, a).tracked[c][m] = v => Bears(Tracked(w, u, a).unit[v], c, m) \/ (Single(a, c, m) /\ v = u)
         /\ SpellsApart => \A v \in Bearer : NoRivals(Tracked(w, u, a).unit[v])
         /\ SpellsApart => \A v, c \in Bearer, m \in Mechanic :
              /\ Single(a, c, m) => Tracked(w, u, a).tracked[c][m] = u
              /\ Bears(Tracked(w, u, a).unit[v], c, m) =>
                   Tracked(w, u, a).tracked[c][m] = v \/ (Single(a, c, m) /\ v = u)
<1> DEFINE T == Tracked(w, u, a)
           m0 == Entry[a.spell].mechanic
           c0 == a.caster
           old == w.tracked[c0][m0]
           L == LeftBy(w, u, a)
<1>1. c0 \in Bearer /\ m0 \in Mechanic /\ Nobody \notin Bearer
  BY AuraParts, AurasAssumption DEF SpellEntry
<1>2. w \in Bodies /\ AllFit(w) /\ Remembered(w) /\ (SpellsApart => Apart(w))
  BY DEF AurasFit
<1>3. old \in Bearer \union {Nobody}
  BY <1>1, <1>2, BodiesParts
<1>4. AurasFit(L) /\ L.fault = w.fault /\ Fewer(w, L)
  <2>1. CASE old \in {Nobody, u}
    <3>1. L = w
      BY <2>1 DEF LeftBy
    <3>2. Fewer(w, w)
      BY DEF Fewer
    <3> QED
      BY <3>1, <3>2
  <2>2. CASE old \notin {Nobody, u}
    <3>1. L = Removed(w, old, OfMechanic(w.unit[old], m0))
      BY <2>2, ByMechanicIs DEF LeftBy
    <3>2. OfMechanic(w.unit[old], m0) \in SUBSET DOMAIN w.unit[old].auras
      BY DEF OfMechanic
    <3>3. old \in Bearer
      BY <1>3, <2>2
    <3> HIDE DEF L, old, m0
    <3> QED
      BY <3>1, <3>2, <3>3, RemovedFit
  <2> QED
    BY <2>1, <2>2
<1>5. ASSUME SpellsApart, NEW v \in Bearer \ {u}, Bears(L.unit[v], c0, m0) PROVE FALSE
  <2>1. L.tracked[c0][m0] = v
    BY <1>1, <1>4, <1>5 DEF AurasFit, Apart, Found
  <2>2. CASE old \in {Nobody, u}
    <3>1. L = w
      BY <2>2 DEF LeftBy
    <3> QED
      BY <1>1, <2>1, <2>2, <3>1
  <2>3. CASE old \notin {Nobody, u}
    <3> DEFINE S == OfMechanic(w.unit[old], m0)
    <3>1. L = Removed(w, old, S)
      BY <2>3, ByMechanicIs DEF LeftBy
    <3>2. S \in SUBSET DOMAIN w.unit[old].auras /\ old \in Bearer /\ w.unit[old] \in UnitRecord
      BY <1>2, <1>3, <2>3, BodiesParts DEF OfMechanic
    <3>3. \A i \in DOMAIN w.unit[old].auras \ S : ~Single(w.unit[old].auras[i], c0, m0)
      BY DEF OfMechanic, Single
    <3>4. w.tracked[c0][m0] = old
      OBVIOUS
    <3> HIDE DEF L, S, old, m0, c0
    <3>5. /\ L.tracked[c0][m0] \in {Nobody, old} /\ L.unit[old] = Remains(w.unit[old], S)
      BY <1>1, <1>2, <3>1, <3>2, <3>4, RemovedParts
    <3>6. v = old
      BY <1>1, <2>1, <3>5
    <3>7. \E i \in DOMAIN w.unit[old].auras \ S : Single(w.unit[old].auras[i], c0, m0)
      BY <1>5, <3>2, <3>5, <3>6, RemainsBears
    <3> QED
      BY <3>3, <3>7
  <2> QED
    BY <2>2, <2>3
<1>6. \A c, m : Single(a, c, m) <=> Is(a, "SingleTarget") /\ c = c0 /\ m = m0
  BY DEF Single
<1>7. T = IF Is(a, "SingleTarget") THEN Remember(L, c0, m0, u) ELSE w
  BY <1>2, TrackedIs
<1> HIDE DEF T, L, c0, m0
<1>8. CASE ~Is(a, "SingleTarget")
  <2>1. T = w /\ \A c, m : ~Single(a, c, m)
    BY <1>6, <1>7, <1>8
  <2>2. Fewer(w, w)
    BY DEF Fewer
  <2>3. \A v, c \in Bearer, m \in Mechanic : w.tracked[c][m] = v => Bears(w.unit[v], c, m)
    BY <1>2 DEF Remembered
  <2>4. SpellsApart => \A v, c \in Bearer, m \in Mechanic : Bears(w.unit[v], c, m) => w.tracked[c][m] = v
    BY <1>2 DEF Apart, Found
  <2>5. SpellsApart => \A v \in Bearer : NoRivals(w.unit[v])
    BY <1>2 DEF Apart
  <2> QED
    BY <1>2, <2>1, <2>2, <2>3, <2>4, <2>5 DEF T
<1>9. CASE Is(a, "SingleTarget")
  <2>1. T = Remember(L, c0, m0, u) /\ L \in Bodies
    BY <1>4, <1>7, <1>9 DEF AurasFit
  <2>2. /\ T.unit = L.unit /\ T.leaving = L.leaving /\ T.fault = L.fault
        /\ \A d \in Bearer, n \in Mechanic : T.tracked[d][n] = IF d = c0 /\ n = m0 THEN u ELSE L.tracked[d][n]
    <3> DEFINE R == Remember(L, c0, m0, u)
    <3>1. L \in Bodies /\ c0 \in Bearer /\ m0 \in Mechanic /\ u \in Bearer
      BY <1>1, <2>1
    <3>2. /\ R.unit = L.unit /\ R.leaving = L.leaving /\ R.fault = L.fault
          /\ \A d \in Bearer, n \in Mechanic : R.tracked[d][n] = IF d = c0 /\ n = m0 THEN u ELSE L.tracked[d][n]
      BY ONLY <3>1, RememberParts
    <3>3. T = R
      BY <2>1
    <3> HIDE DEF R
    <3> QED
      BY <3>2, <3>3
  <2>3. AllFit(T)
    BY <1>4, <2>2 DEF AllFit, AurasFit
  <2>4. Fewer(w, T)
    BY <1>4, <2>2 DEF Fewer
  <2>5. ASSUME NEW v \in Bearer, NEW c \in Bearer, NEW m \in Mechanic, T.tracked[c][m] = v
        PROVE  Bears(T.unit[v], c, m) \/ (Single(a, c, m) /\ v = u)
    <3>1. CASE c = c0 /\ m = m0
      BY <1>6, <1>9, <2>2, <2>5, <3>1
    <3>2. CASE ~(c = c0 /\ m = m0)
      BY <1>4, <2>2, <2>5, <3>2 DEF AurasFit, Remembered
    <3> QED
      BY <3>1, <3>2
  <2>6. ASSUME SpellsApart PROVE \A v \in Bearer : NoRivals(T.unit[v])
    BY <1>4, <2>2, <2>6 DEF AurasFit, Apart
  <2>7. ASSUME SpellsApart, NEW v \in Bearer, NEW c \in Bearer, NEW m \in Mechanic
        PROVE  /\ Single(a, c, m) => T.tracked[c][m] = u
               /\ Bears(T.unit[v], c, m) => T.tracked[c][m] = v \/ (Single(a, c, m) /\ v = u)
    <3>1. CASE c = c0 /\ m = m0
      BY <1>5, <1>6, <1>9, <2>2, <2>7, <3>1
    <3>2. CASE ~(c = c0 /\ m = m0)
      BY <1>4, <1>6, <2>2, <2>7, <3>2 DEF AurasFit, Apart, Found
    <3> QED
      BY <3>1, <3>2
  <2> QED
    BY <1>4, <2>2, <2>3, <2>4, <2>5, <2>6, <2>7 DEF T
<1> QED
  BY <1>8, <1>9

(* Nobody is the rival of the aura on the unit. *)
Unrivaled(r, a) == SpellsApart => \A i \in DOMAIN r.auras : ~Rivals(r.auras[i], a)

(* A fresh aura, and all that comes of it, leaves everything in order. *)
LEMMA GrownHolds ==
  ASSUME NEW w, AurasFit(w), NEW u \in Bearer, NEW a, Fresh(w.unit[u], a), Unrivaled(w.unit[u], a)
  PROVE  /\ AurasFit(WithUnit(Tracked(w, u, a), u, Grown(w.unit[u], a, u)))
         /\ WithUnit(Tracked(w, u, a), u, Grown(w.unit[u], a, u)).fault = w.fault
         /\ AllMortal(w) => \A v \in Bearer \ {u} : Mortal(WithUnit(Tracked(w, u, a), u, Grown(w.unit[u], a, u)).unit[v])
         /\ AllMortal(w) /\ (w.unit[u].alive \/ Lasts(a)) =>
              AllMortal(WithUnit(Tracked(w, u, a), u, Grown(w.unit[u], a, u)))
<1> DEFINE T == Tracked(w, u, a)
           r == w.unit[u]
           g == Grown(r, a, u)
           x == WithUnit(T, u, g)
<1>1. w \in Bodies /\ AllFit(w) /\ (SpellsApart => Apart(w)) /\ a \in Aura
  BY DEF AurasFit, Fresh
<1>2. r \in UnitRecord
  BY <1>1, BodiesParts
<1>3. T \in Bodies /\ T.unit[u] = r
  BY <1>1, <1>2, TrackedElsewhere
<1>4. AllFit(T) /\ T.fault = w.fault /\ Fewer(w, T)
  BY <1>1, TrackedHolds
<1>5. \A v, c \in Bearer, m \in Mechanic : T.tracked[c][m] = v => Bears(T.unit[v], c, m) \/ (Single(a, c, m) /\ v = u)
  BY <1>1, TrackedHolds
<1>6. SpellsApart => \A v \in Bearer : NoRivals(T.unit[v])
  BY <1>1, TrackedHolds
<1>7. SpellsApart => \A v, c \in Bearer, m \in Mechanic :
              /\ Single(a, c, m) => T.tracked[c][m] = u
              /\ Bears(T.unit[v], c, m) => T.tracked[c][m] = v \/ (Single(a, c, m) /\ v = u)
  BY <1>1, TrackedHolds
<1> HIDE DEF T
<1>8. Fit(r, T.leaving[u])
  BY <1>3, <1>4 DEF AllFit
<1> HIDE DEF r
<1>9. Fresh(r, a) /\ Unrivaled(r, a)
  BY DEF r
<1>10. /\ g \in UnitRecord /\ Fit(g, T.leaving[u])
       /\ \A c, m : Bears(g, c, m) <=> Bears(r, c, m) \/ Single(a, c, m)
       /\ NoRivals(r) /\ (\A i \in DOMAIN r.auras : ~Rivals(r.auras[i], a)) => NoRivals(g)
       /\ Mortal(r) /\ (r.alive \/ Lasts(a)) => Mortal(g)
  BY <1>2, <1>8, <1>9, GrownFit
<1> HIDE DEF g
<1>11. /\ x \in Bodies /\ x.unit[u] = g /\ (\A v \in Bearer \ {u} : x.unit[v] = T.unit[v])
       /\ x.tracked = T.tracked /\ x.leaving = T.leaving /\ x.fault = T.fault
  BY <1>3, <1>10, WithUnitParts
<1> HIDE DEF x
<1>12. AllFit(x)
  BY <1>4, <1>10, <1>11 DEF AllFit
<1>13. Remembered(x)
  <2> SUFFICES ASSUME NEW v \in Bearer, NEW c \in Bearer, NEW m \in Mechanic, x.tracked[c][m] = v
               PROVE  Bears(x.unit[v], c, m)
    BY DEF Remembered
  <2>1. Bears(T.unit[v], c, m) \/ (Single(a, c, m) /\ v = u)
    BY <1>5, <1>11
  <2> QED
    BY <1>3, <1>10, <1>11, <2>1
<1>14. ASSUME SpellsApart PROVE Apart(x)
  <2>1. \A v \in Bearer : NoRivals(x.unit[v])
    BY <1>3, <1>6, <1>9, <1>10, <1>11, <1>14 DEF Unrivaled
  <2>2. Found(x)
    <3> SUFFICES ASSUME NEW v \in Bearer, NEW c \in Bearer, NEW m \in Mechanic, Bears(x.unit[v], c, m)
                 PROVE  x.tracked[c][m] = v
      BY DEF Found
    <3>1. Bears(T.unit[v], c, m) \/ (Single(a, c, m) /\ v = u)
      BY <1>3, <1>10, <1>11
    <3> QED
      BY <1>7, <1>11, <1>14, <3>1
  <2> QED
    BY <2>1, <2>2 DEF Apart
<1>15. AllMortal(w) => \A v \in Bearer \ {u} : Mortal(x.unit[v])
  BY <1>4, <1>11, FewerMortal DEF AllMortal
<1>16. AllMortal(w) /\ (r.alive \/ Lasts(a)) => AllMortal(x)
  BY <1>10, <1>11, <1>15 DEF AllMortal, r
<1> QED
  BY <1>4, <1>11, <1>12, <1>13, <1>14, <1>15, <1>16 DEF AurasFit, x, g, r, T

(* The unit while the aura takes effect: its field comes last. *)
Early(r, a, u) ==
  [auras |-> Grown(r, a, u).auras, field |-> r.field, stunned |-> (r.stunned \/ Is(a, "Stun")),
   rooted |-> (r.rooted \/ Is(a, "Root")), form |-> IF Is(a, "ShapeShift") THEN a.spell ELSE r.form, alive |-> r.alive]
FieldSet(r, n, s) == [r EXCEPT !.field = [k \in Slot |-> IF k = n THEN s ELSE @[k]]]

LEMMA FieldSetParts ==
  ASSUME NEW r \in UnitRecord, NEW n, NEW s \in AuraSpell
  PROVE  /\ FieldSet(r, n, s) \in UnitRecord
         /\ FieldSet(r, n, s) = [auras |-> r.auras, field |-> [k \in Slot |-> IF k = n THEN s ELSE r.field[k]],
                                 stunned |-> r.stunned, rooted |-> r.rooted, form |-> r.form, alive |-> r.alive]
<1> DEFINE f == [k \in Slot |-> IF k = n THEN s ELSE r.field[k]]
<1>1. FieldSet(r, n, s) = [r EXCEPT !.field = f]
  BY DEF FieldSet
<1>2. f \in [Slot -> AuraSpell \union {NoAura}]
  BY UnitParts
<1> HIDE DEF f
<1>3. FieldSet(r, n, s) = [auras |-> r.auras, field |-> f, stunned |-> r.stunned, rooted |-> r.rooted,
                           form |-> r.form, alive |-> r.alive]
  BY <1>1 DEF UnitRecord
<1>4. FieldSet(r, n, s) \in UnitRecord
  BY <1>2, <1>3, UnitParts DEF UnitRecord
<1> QED
  BY <1>3, <1>4 DEF f

(* The shape casts its passive spell while it is taken. *)
LEMMA EarlyIs ==
  ASSUME NEW r \in UnitRecord, NEW a \in Aura, NEW u \in Bearer
  PROVE  /\ Early(r, a, u) \in UnitRecord
         /\ FieldSet(Early(r, a, u), a.slot, a.spell) = Grown(r, a, u)
<1> DEFINE p == Entry[a.spell].passive
           b == NewAura(p, u, NoSlot)
           j == Joined(r, a)
           f == [n \in Slot |-> IF n = a.slot THEN a.spell ELSE r.field[n]]
           st == r.stunned \/ Is(a, "Stun")
           ro == r.rooted \/ Is(a, "Root")
           fo == IF Is(a, "ShapeShift") THEN a.spell ELSE r.form
<1>1. a.spell \in AuraSpell /\ p \in AuraSpell \union {NoAura}
  BY AuraParts DEF SpellEntry
<1>2. j \in UnitRecord /\ j = [auras |-> Append(r.auras, a), field |-> f, stunned |-> st, rooted |-> ro,
                               form |-> fo, alive |-> r.alive]
  BY JoinedParts DEF Joined
<1>3. p # NoAura => b \in Aura
  BY <1>1, NewAuraParts
<1> HIDE DEF b, j, f, st, ro, fo
<1>4. Grown(r, a, u) = IF Is(a, "ShapeShift") /\ p # NoAura THEN Gained(j, b) ELSE j
  BY DEF Grown, b, j
<1>5. Grown(r, a, u) \in UnitRecord
      /\ Grown(r, a, u) = [auras |-> Grown(r, a, u).auras, field |-> f, stunned |-> st, rooted |-> ro,
                           form |-> fo, alive |-> r.alive]
  <2>1. CASE Is(a, "ShapeShift") /\ p # NoAura
    <3>1. Grown(r, a, u) = Gained(j, b)
      BY <1>4, <2>1
    <3>2. /\ Gained(j, b) \in UnitRecord
          /\ Gained(j, b) = [auras |-> Append(j.auras, b), field |-> j.field, stunned |-> j.stunned,
                             rooted |-> j.rooted, form |-> j.form, alive |-> j.alive]
      BY <1>2, <1>3, <2>1, GainedParts
    <3>3. j.field = f /\ j.stunned = st /\ j.rooted = ro /\ j.form = fo /\ j.alive = r.alive
      BY <1>2
    <3> QED
      BY <3>1, <3>2, <3>3
  <2>2. CASE ~(Is(a, "ShapeShift") /\ p # NoAura)
    <3>1. Grown(r, a, u) = j
      BY <1>4, <2>2
    <3>2. j.auras = Append(r.auras, a)
      BY <1>2
    <3>3. Grown(r, a, u) = [auras |-> Append(r.auras, a), field |-> f, stunned |-> st, rooted |-> ro,
                            form |-> fo, alive |-> r.alive]
      BY <1>2, <3>1
    <3>4. Grown(r, a, u).auras = Append(r.auras, a)
      BY <3>1, <3>2
    <3> QED
      BY <1>2, <3>1, <3>3, <3>4
  <2> QED
    BY <2>1, <2>2
<1>6. Early(r, a, u) = [auras |-> Grown(r, a, u).auras, field |-> r.field, stunned |-> st, rooted |-> ro,
                        form |-> fo, alive |-> r.alive]
  BY DEF Early, st, ro, fo
<1>7. Early(r, a, u) \in UnitRecord
  <2>1. Grown(r, a, u).auras \in Seq(Aura) /\ st \in BOOLEAN /\ ro \in BOOLEAN /\ fo \in AuraSpell \union {NoAura}
    <3>1. Grown(r, a, u).auras \in Seq(Aura)
      BY <1>5, UnitParts
    <3>2. j.stunned = st /\ j.rooted = ro /\ j.form = fo
      BY <1>2
    <3> QED
      BY <1>2, <3>1, <3>2, UnitParts
  <2> QED
    BY <1>6, <2>1, UnitParts DEF UnitRecord
<1>8. FieldSet(Early(r, a, u), a.slot, a.spell) =
        [auras |-> Grown(r, a, u).auras, field |-> f, stunned |-> st, rooted |-> ro, form |-> fo, alive |-> r.alive]
  <2> DEFINE e == Early(r, a, u)
  <2>1. FieldSet(e, a.slot, a.spell) =
          [auras |-> e.auras, field |-> [k \in Slot |-> IF k = a.slot THEN a.spell ELSE e.field[k]],
           stunned |-> e.stunned, rooted |-> e.rooted, form |-> e.form, alive |-> e.alive]
    BY <1>1, <1>7, FieldSetParts
  <2>2. /\ e.auras = Grown(r, a, u).auras /\ e.field = r.field /\ e.stunned = st /\ e.rooted = ro /\ e.form = fo
        /\ e.alive = r.alive
    BY <1>6
  <2> HIDE DEF e
  <2> QED
    BY <2>1, <2>2 DEF f, e
<1> QED
  BY <1>5, <1>7, <1>8

(* Up to its field. *)
LEMMA StartIs ==
  ASSUME NEW w \in Bodies, NEW u \in Bearer, NEW a \in Aura
  PROVE  LET x == ShapeShifted(Tracked([w EXCEPT !.unit[u].auras = Append(@, a)], u, a), u, a)
         IN  [x EXCEPT !.unit[u].stunned = @ \/ Is(a, "Stun"), !.unit[u].rooted = @ \/ Is(a, "Root")]
               = WithUnit(Tracked(w, u, a), u, Early(w.unit[u], a, u))
<1> DEFINE r == w.unit[u]
           T == Tracked(w, u, a)
           q == Gained(r, a)
           p == Entry[a.spell].passive
           b == NewAura(p, u, NoSlot)
           fo == IF Is(a, "ShapeShift") THEN a.spell ELSE r.form
           list == Grown(r, a, u).auras
           s == [auras |-> list, field |-> r.field, stunned |-> r.stunned, rooted |-> r.rooted,
                 form |-> fo, alive |-> r.alive]
           x == ShapeShifted(Tracked([w EXCEPT !.unit[u].auras = Append(@, a)], u, a), u, a)
<1>1. r \in UnitRecord /\ a.spell \in AuraSpell /\ p \in AuraSpell \union {NoAura} /\ fo \in AuraSpell \union {NoAura}
  BY BodiesParts, UnitParts, AuraParts DEF SpellEntry
<1>2. q \in UnitRecord /\ q = [auras |-> Append(r.auras, a), field |-> r.field, stunned |-> r.stunned,
                               rooted |-> r.rooted, form |-> r.form, alive |-> r.alive]
  BY <1>1, GainedParts
<1>3. [w EXCEPT !.unit[u].auras = Append(@, a)] = WithUnit(w, u, q)
  BY DEF WithUnit, Gained
<1> HIDE DEF q
<1>4. Tracked(WithUnit(w, u, q), u, a) = WithUnit(T, u, q) /\ T \in Bodies /\ T.unit[u] = r
  BY <1>1, <1>2, TrackedElsewhere
<1> HIDE DEF T
<1>5. WithUnit(T, u, q).unit[u] = q /\ WithUnit(T, u, q) \in Bodies
  BY <1>2, <1>4, WithUnitParts
<1>6. Joined(r, a).auras = Append(r.auras, a)
  BY <1>1, JoinedParts
<1>7. list = IF Is(a, "ShapeShift") /\ p # NoAura THEN Append(Append(r.auras, a), b) ELSE Append(r.auras, a)
  <2>1. CASE Is(a, "ShapeShift") /\ p # NoAura
    <3>1. Joined(r, a) \in UnitRecord /\ b \in Aura
      BY <1>1, <2>1, JoinedParts, NewAuraParts
    <3>2. Gained(Joined(r, a), b).auras = Append(Joined(r, a).auras, b)
      BY <3>1, GainedParts
    <3> QED
      BY <1>6, <2>1, <3>2 DEF Grown
  <2>2. CASE ~(Is(a, "ShapeShift") /\ p # NoAura)
    BY <1>6, <2>2 DEF Grown
  <2> QED
    BY <2>1, <2>2
<1> HIDE DEF list, b
<1>8. x = WithUnit(T, u, s) /\ s \in UnitRecord
  <2>1. s \in UnitRecord
    <3>1. Grown(r, a, u).auras = Early(r, a, u).auras
      BY DEF Early
    <3>2. list \in Seq(Aura)
      BY <1>1, <3>1, EarlyIs, UnitParts DEF list
    <3> QED
      BY <1>1, <3>2, UnitParts DEF UnitRecord
  <2>2. CASE ~Is(a, "ShapeShift")
    <3>1. x = WithUnit(T, u, q)
      BY <1>3, <1>4, <2>2 DEF ShapeShifted
    <3>2. s = q
      BY <1>2, <1>7, <2>2
    <3> QED
      BY <2>1, <3>1, <3>2
  <2>3. CASE Is(a, "ShapeShift")
    <3> DEFINE y == WithUnit(T, u, q)
    <3>1. x = [y EXCEPT !.unit[u].form = a.spell,
                        !.unit[u].auras = IF p = NoAura THEN @ ELSE Append(@, b)]
      BY <1>3, <1>4, <2>3 DEF ShapeShifted, b
    <3>2. [y EXCEPT !.unit[u].form = a.spell,
                    !.unit[u].auras = IF p = NoAura THEN @ ELSE Append(@, b)]
            = WithUnit(y, u, [y.unit[u] EXCEPT !.form = a.spell, !.auras = IF p = NoAura THEN @ ELSE Append(@, b)])
      <4> HIDE DEF y
      <4>1. y \in Bodies
        BY <1>5 DEF y
      <4> QED
        BY <4>1 DEF WithUnit, Bodies
    <3>3. [q EXCEPT !.form = a.spell, !.auras = IF p = NoAura THEN @ ELSE Append(@, b)] = s
      <4>1. q.auras = Append(r.auras, a) /\ fo = a.spell
        BY <1>2, <2>3
      <4>2. (IF p = NoAura THEN q.auras ELSE Append(q.auras, b)) = list
        BY <1>7, <2>3, <4>1
      <4>3. [q EXCEPT !.form = a.spell, !.auras = IF p = NoAura THEN @ ELSE Append(@, b)]
              = [q EXCEPT !.form = fo, !.auras = list]
        BY <4>1, <4>2
      <4> DEFINE z == [q EXCEPT !.form = fo, !.auras = list]
      <4>4. z = [q EXCEPT !.form = fo, !.auras = list]
        OBVIOUS
      <4> HIDE DEF fo, z
      <4>5. z = s
        BY <1>2, <4>4
      <4> QED
        BY <4>3, <4>4, <4>5
    <3>4. x = WithUnit(y, u, s)
      BY <1>5, <3>1, <3>2, <3>3
    <3> QED
      BY <1>2, <1>4, <2>1, <3>4, WithUnitTwice
  <2> QED
    BY <2>2, <2>3
<1> DEFINE e == [auras |-> list, field |-> r.field, stunned |-> (r.stunned \/ Is(a, "Stun")),
                 rooted |-> (r.rooted \/ Is(a, "Root")), form |-> fo, alive |-> r.alive]
<1>9. [s EXCEPT !.stunned = @ \/ Is(a, "Stun"), !.rooted = @ \/ Is(a, "Root")] = e
  <2> DEFINE st == r.stunned \/ Is(a, "Stun")
             ro == r.rooted \/ Is(a, "Root")
  <2>1. s.stunned = r.stunned /\ s.rooted = r.rooted
    OBVIOUS
  <2>2. [s EXCEPT !.stunned = @ \/ Is(a, "Stun"), !.rooted = @ \/ Is(a, "Root")]
          = [s EXCEPT !.stunned = s.stunned \/ Is(a, "Stun"), !.rooted = s.rooted \/ Is(a, "Root")]
    OBVIOUS
  <2>3. [s EXCEPT !.stunned = s.stunned \/ Is(a, "Stun"), !.rooted = s.rooted \/ Is(a, "Root")]
          = [s EXCEPT !.stunned = st, !.rooted = ro]
    BY <2>1
  <2>4. e = [auras |-> list, field |-> r.field, stunned |-> st, rooted |-> ro, form |-> fo, alive |-> r.alive]
    OBVIOUS
  <2> DEFINE z == [s EXCEPT !.stunned = st, !.rooted = ro]
  <2>5. z = [s EXCEPT !.stunned = st, !.rooted = ro]
    OBVIOUS
  <2> HIDE DEF st, ro, fo, e, z
  <2>6. z = [auras |-> list, field |-> r.field, stunned |-> st, rooted |-> ro, form |-> fo, alive |-> r.alive]
    BY <2>5
  <2> QED
    BY <2>2, <2>3, <2>4, <2>5, <2>6
<1>10. e = Early(r, a, u) /\ e \in UnitRecord
  BY <1>1, EarlyIs DEF Early, list
<1> HIDE DEF s, x, e
<1>11. x \in Bodies /\ x.unit[u] = s
  BY <1>4, <1>8, WithUnitParts
<1>12. [x EXCEPT !.unit[u].stunned = @ \/ Is(a, "Stun"), !.unit[u].rooted = @ \/ Is(a, "Root")]
         = WithUnit(x, u, [x.unit[u] EXCEPT !.stunned = @ \/ Is(a, "Stun"), !.rooted = @ \/ Is(a, "Root")])
  BY <1>11 DEF WithUnit, Bodies
<1>13. WithUnit(x, u, e) = WithUnit(T, u, e)
  BY <1>4, <1>8, <1>10, WithUnitTwice
<1> QED
  BY <1>9, <1>10, <1>11, <1>12, <1>13 DEF x, T

(* Units with the same parts are the same. *)
LEMMA SameUnit ==
  ASSUME NEW q \in UnitRecord, NEW r \in UnitRecord, q.auras = r.auras, \A n \in Slot : q.field[n] = r.field[n],
         q.stunned = r.stunned, q.rooted = r.rooted, q.form = r.form, q.alive = r.alive
  PROVE  q = r
<1>1. q.field \in [Slot -> AuraSpell \union {NoAura}] /\ r.field \in [Slot -> AuraSpell \union {NoAura}]
  BY UnitParts
<1>2. q.field = r.field
  BY <1>1
<1> QED
  BY <1>2 DEF UnitRecord

(* A field that no ending aura has is set before or after. *)
LEMMA FieldKept ==
  ASSUME NEW r \in UnitRecord, NEW S \in SUBSET DOMAIN r.auras, NEW n, NEW s \in AuraSpell,
         n \in Slot => \A i \in S : r.auras[i].slot # n
  PROVE  FieldSet(Remains(r, S), n, s) = Remains(FieldSet(r, n, s), S)
<1> DEFINE f == FieldSet(r, n, s)
           p == Remains(r, S)
           x == FieldSet(p, n, s)
           y == Remains(f, S)
<1>1. /\ f \in UnitRecord /\ f.auras = r.auras /\ f.stunned = r.stunned /\ f.rooted = r.rooted /\ f.form = r.form
      /\ f.alive = r.alive /\ \A k \in Slot : f.field[k] = IF k = n THEN s ELSE r.field[k]
  BY FieldSetParts
<1>2. /\ p \in UnitRecord /\ p.auras = Without(r.auras, S) /\ p.alive = r.alive
      /\ p.stunned = (IF \E i \in S : Is(r.auras[i], "Stun") THEN Has(Without(r.auras, S), "Stun") ELSE r.stunned)
      /\ p.rooted = (IF \E i \in S : Is(r.auras[i], "Root") THEN Has(Without(r.auras, S), "Root") ELSE r.rooted)
      /\ p.form = (IF \E i \in S : Is(r.auras[i], "ShapeShift") THEN NoAura ELSE r.form)
      /\ \A k \in Slot : p.field[k] = IF \E i \in S : r.auras[i].slot = k THEN NoAura ELSE r.field[k]
  BY RemainsParts
<1> HIDE DEF p
<1>3. /\ x \in UnitRecord /\ x.auras = p.auras /\ x.stunned = p.stunned /\ x.rooted = p.rooted /\ x.form = p.form
      /\ x.alive = p.alive /\ \A k \in Slot : x.field[k] = IF k = n THEN s ELSE p.field[k]
  BY <1>2, FieldSetParts
<1> HIDE DEF x, f
<1>4. S \in SUBSET DOMAIN f.auras
  BY <1>1
<1>5. /\ y \in UnitRecord /\ y.auras = Without(f.auras, S) /\ y.alive = f.alive
      /\ y.stunned = (IF \E i \in S : Is(f.auras[i], "Stun") THEN Has(Without(f.auras, S), "Stun") ELSE f.stunned)
      /\ y.rooted = (IF \E i \in S : Is(f.auras[i], "Root") THEN Has(Without(f.auras, S), "Root") ELSE f.rooted)
      /\ y.form = (IF \E i \in S : Is(f.auras[i], "ShapeShift") THEN NoAura ELSE f.form)
      /\ \A k \in Slot : y.field[k] = IF \E i \in S : f.auras[i].slot = k THEN NoAura ELSE f.field[k]
  BY <1>1, <1>4, RemainsParts
<1> HIDE DEF y
<1>6. x.auras = y.auras /\ x.alive = y.alive
  BY <1>1, <1>2, <1>3, <1>5
<1>7. x.stunned = y.stunned
  BY <1>1, <1>2, <1>3, <1>5
<1>8. x.rooted = y.rooted
  BY <1>1, <1>2, <1>3, <1>5
<1>9. x.form = y.form
  BY <1>1, <1>2, <1>3, <1>5
<1>10. ASSUME NEW k \in Slot PROVE x.field[k] = y.field[k]
  <2>1. CASE k = n
    <3>1. ~\E i \in S : f.auras[i].slot = k
      BY <1>1, <2>1
    <3> QED
      BY <1>1, <1>3, <1>5, <2>1, <3>1
  <2>2. CASE k # n
    BY <1>1, <1>2, <1>3, <1>5, <2>2
  <2> QED
    BY <2>1, <2>2
<1>11. x = y
  BY <1>3, <1>5, <1>6, <1>7, <1>8, <1>9, <1>10, SameUnit
<1> QED
  BY <1>11 DEF x, y, p, f

(* The unit that an aura is applied to, before its field is set. *)
Started(w, u, a) == WithUnit(Tracked(w, u, a), u, Early(w.unit[u], a, u))
(* The unit that it has been applied to. *)
Settled(w, u, a) == WithUnit(Tracked(w, u, a), u, Grown(w.unit[u], a, u))
(* w with the aura in the list of u. *)
Listed(w, u, a) == [w EXCEPT !.unit[u].auras = Append(@, a)]

(* w with a field of u that shows s. *)
Shown(w, u, n, s) == [w EXCEPT !.unit[u].field = [k \in Slot |-> IF k = n THEN s ELSE @[k]]]

Failed(w) == [w EXCEPT !.fault = "unapplied"]

LEMMA AppliedCases ==
  ASSUME NEW w \in Bodies, NEW u \in Bearer, NEW a \in Aura, NEW kills
  PROVE  LET z == IF kills THEN Killed(Started(w, u, a), u) ELSE Started(w, u, a)
         IN  Applied(Listed(w, u, a), u, a, kills) =
               IF kills /\ ~Is(a, "DeathPersistent") THEN Failed(z) ELSE Shown(z, u, a.slot, a.spell)
<1> DEFINE x == ShapeShifted(Tracked(Listed(w, u, a), u, a), u, a)
           e == [x EXCEPT !.unit[u].stunned = @ \/ Is(a, "Stun"), !.unit[u].rooted = @ \/ Is(a, "Root")]
<1>1. e = Started(w, u, a)
  BY StartIs DEF Started, Listed
<1>2. Applied(Listed(w, u, a), u, a, kills) =
        LET z == IF kills THEN Killed(e, u) ELSE e
        IN  IF kills /\ ~Is(a, "DeathPersistent") THEN Failed(z) ELSE Shown(z, u, a.slot, a.spell)
  BY DEF Applied, Shown, Failed
<1> HIDE DEF e
<1> QED
  BY <1>1, <1>2

LEMMA AppliedNot ==
  ASSUME NEW w \in Bodies, NEW u \in Bearer, NEW a \in Aura, NEW kills, kills, ~Is(a, "DeathPersistent")
  PROVE  Applied(Listed(w, u, a), u, a, kills) = Failed(Killed(Started(w, u, a), u))
BY AppliedCases

LEMMA AppliedIs ==
  ASSUME NEW w \in Bodies, NEW u \in Bearer, NEW a \in Aura, NEW kills \in BOOLEAN,
         ~(kills /\ ~Is(a, "DeathPersistent"))
  PROVE  Applied(Listed(w, u, a), u, a, kills) =
           Shown(IF kills THEN Killed(Started(w, u, a), u) ELSE Started(w, u, a), u, a.slot, a.spell)
BY AppliedCases

LEMMA FieldSetIs ==
  ASSUME NEW w \in Bodies, NEW u \in Bearer, NEW n, NEW s \in AuraSpell
  PROVE  /\ Shown(w, u, n, s) = WithUnit(w, u, FieldSet(w.unit[u], n, s))
         /\ FieldSet(w.unit[u], n, s) \in UnitRecord
<1>1. w.unit[u] \in UnitRecord
  BY BodiesParts
<1>2. Shown(w, u, n, s) = WithUnit(w, u, FieldSet(w.unit[u], n, s))
  BY DEF WithUnit, FieldSet, Shown
<1> QED
  BY <1>1, <1>2, FieldSetParts

LEMMA StartedParts ==
  ASSUME NEW w \in Bodies, NEW u \in Bearer, NEW a \in Aura
  PROVE  /\ Started(w, u, a) \in Bodies /\ Started(w, u, a).unit[u] = Early(w.unit[u], a, u)
         /\ Settled(w, u, a) \in Bodies /\ Settled(w, u, a).unit[u] = Grown(w.unit[u], a, u)
         /\ \A r \in UnitRecord : WithUnit(Started(w, u, a), u, r) = WithUnit(Settled(w, u, a), u, r)
         /\ FieldSet(Early(w.unit[u], a, u), a.slot, a.spell) = Grown(w.unit[u], a, u)
         /\ Grown(w.unit[u], a, u) \in UnitRecord /\ Early(w.unit[u], a, u) \in UnitRecord /\ a.spell \in AuraSpell
<1>1. w.unit[u] \in UnitRecord /\ a.spell \in AuraSpell
  BY BodiesParts, AuraParts
<1>2. Tracked(w, u, a) \in Bodies
  BY <1>1, TrackedElsewhere
<1> DEFINE r == w.unit[u]
<1>3. /\ FieldSet(Early(r, a, u), a.slot, a.spell) = Grown(r, a, u)
      /\ Early(r, a, u) \in UnitRecord
  BY <1>1, EarlyIs
<1>4. Grown(r, a, u) \in UnitRecord
  BY <1>1, <1>3, FieldSetParts
<1> HIDE DEF r
<1> DEFINE T == Tracked(w, u, a)
           g == Grown(r, a, u)
           e == Early(r, a, u)
<1> HIDE DEF T, g, e
<1>5. T \in Bodies /\ g \in UnitRecord /\ e \in UnitRecord
  BY <1>2, <1>3, <1>4 DEF T, g, e
<1>6. /\ WithUnit(T, u, e) \in Bodies /\ WithUnit(T, u, e).unit[u] = e
      /\ WithUnit(T, u, g) \in Bodies /\ WithUnit(T, u, g).unit[u] = g
      /\ \A q \in UnitRecord : WithUnit(WithUnit(T, u, e), u, q) = WithUnit(WithUnit(T, u, g), u, q)
  BY <1>5, WithUnitParts, WithUnitTwice
<1> QED
  BY <1>1, <1>3, <1>4, <1>6 DEF Started, Settled, T, g, e, r

(* An aura that does not kill is settled. *)
LEMMA AppliedSettled ==
  ASSUME NEW w \in Bodies, NEW u \in Bearer, NEW a \in Aura
  PROVE  Applied(Listed(w, u, a), u, a, FALSE) = Settled(w, u, a)
<1> DEFINE e == Started(w, u, a)
           g == Settled(w, u, a)
<1>1. /\ e \in Bodies /\ e.unit[u] = Early(w.unit[u], a, u) /\ g \in Bodies /\ g.unit[u] = Grown(w.unit[u], a, u)
      /\ \A r \in UnitRecord : WithUnit(e, u, r) = WithUnit(g, u, r)
      /\ FieldSet(Early(w.unit[u], a, u), a.slot, a.spell) = Grown(w.unit[u], a, u)
      /\ Grown(w.unit[u], a, u) \in UnitRecord /\ a.spell \in AuraSpell
  BY StartedParts
<1>2. Applied(Listed(w, u, a), u, a, FALSE) = Shown(e, u, a.slot, a.spell)
  BY AppliedIs
<1> HIDE DEF e, g
<1>3. Applied(Listed(w, u, a), u, a, FALSE) = WithUnit(e, u, FieldSet(e.unit[u], a.slot, a.spell))
  BY <1>1, <1>2, FieldSetIs
<1>4. WithUnit(e, u, FieldSet(e.unit[u], a.slot, a.spell)) = WithUnit(g, u, g.unit[u])
  BY <1>1
<1>5. WithUnit(g, u, g.unit[u]) = g
  BY <1>1, WithUnitTwice
<1> QED
  BY <1>3, <1>4, <1>5 DEF g

LEMMA DeadParts ==
  ASSUME NEW r \in UnitRecord
  PROVE  /\ DeadUnit(r) \in UnitRecord /\ DeadUnit(r).alive = FALSE /\ DeadUnit(r).auras = r.auras
         /\ DeadUnit(r).field = r.field /\ DeadUnit(r).stunned = r.stunned /\ DeadUnit(r).rooted = r.rooted
         /\ DeadUnit(r).form = r.form
BY DEF DeadUnit, UnitRecord

LEMMA DeadShown ==
  ASSUME NEW r \in UnitRecord, NEW n, NEW s \in AuraSpell
  PROVE  DeadUnit(FieldSet(r, n, s)) = FieldSet(DeadUnit(r), n, s)
<1> DEFINE f == FieldSet(r, n, s)
           d == DeadUnit(r)
           x == DeadUnit(f)
           y == FieldSet(d, n, s)
<1>1. /\ f \in UnitRecord /\ f.auras = r.auras /\ f.stunned = r.stunned /\ f.rooted = r.rooted /\ f.form = r.form
      /\ \A k \in Slot : f.field[k] = IF k = n THEN s ELSE r.field[k]
  BY FieldSetParts
<1>2. /\ d \in UnitRecord /\ d.auras = r.auras /\ d.stunned = r.stunned /\ d.rooted = r.rooted /\ d.form = r.form
      /\ d.alive = FALSE /\ d.field = r.field
  BY DeadParts
<1> HIDE DEF f, d
<1>3. /\ x \in UnitRecord /\ x.auras = f.auras /\ x.stunned = f.stunned /\ x.rooted = f.rooted /\ x.form = f.form
      /\ x.alive = FALSE /\ x.field = f.field
  BY <1>1, DeadParts
<1>4. /\ y \in UnitRecord /\ y.auras = d.auras /\ y.stunned = d.stunned /\ y.rooted = d.rooted /\ y.form = d.form
      /\ y.alive = d.alive /\ \A k \in Slot : y.field[k] = IF k = n THEN s ELSE d.field[k]
  BY <1>2, FieldSetParts
<1> HIDE DEF x, y
<1>5. \A k \in Slot : x.field[k] = y.field[k]
  BY <1>1, <1>2, <1>3, <1>4
<1>6. x = y
  <2>1. x.auras = y.auras /\ x.form = y.form /\ x.alive = y.alive
    BY <1>1, <1>2, <1>3, <1>4
  <2>2. x.stunned = y.stunned
    BY <1>1, <1>2, <1>3, <1>4
  <2>3. x.rooted = y.rooted
    BY <1>1, <1>2, <1>3, <1>4
  <2> QED
    BY <1>3, <1>4, <1>5, <2>1, <2>2, <2>3, SameUnit
<1> QED
  BY <1>6 DEF x, y, f, d

(* Units that differ in the shown field only lose the same auras. *)
LEMMA RemovedShown ==
  ASSUME NEW w \in Bodies, NEW u \in Bearer, NEW q \in UnitRecord, NEW S \in SUBSET DOMAIN q.auras,
         NEW n, NEW s \in AuraSpell, n \in Slot => \A i \in S : q.auras[i].slot # n
  PROVE  Shown(Removed(WithUnit(w, u, q), u, S), u, n, s) = Removed(WithUnit(w, u, FieldSet(q, n, s)), u, S)
<1> DEFINE f == FieldSet(q, n, s)
           a == WithUnit(w, u, q)
           b == WithUnit(w, u, f)
           ra == Removed(a, u, S)
           rb == Removed(b, u, S)
           t == Untracked(w.tracked, Taken(q.auras, S))
           l == [w.leaving EXCEPT ![u] = PostedRemovals(w.leaving[u], Taken(q.auras, S))]
           g == (w.stray \/ Unconnected(Taken(q.auras, S)))
<1>1. f \in UnitRecord /\ f.auras = q.auras
  BY FieldSetParts
<1>2. /\ a \in Bodies /\ a.unit[u] = q /\ a.tracked = w.tracked /\ a.leaving = w.leaving
      /\ a.stray = w.stray /\ a.fault = w.fault /\ a.unit = [w.unit EXCEPT ![u] = q]
  BY WithUnitParts, WithUnitIs
<1>3. FieldSet(Remains(q, S), n, s) = Remains(f, S)
  BY FieldKept
<1>4. Remains(q, S) \in UnitRecord /\ Remains(f, S) \in UnitRecord
  BY <1>1, RemainsParts
<1> HIDE DEF f
<1>5. /\ b \in Bodies /\ b.unit[u] = f /\ b.tracked = w.tracked /\ b.leaving = w.leaving
      /\ b.stray = w.stray /\ b.fault = w.fault /\ b.unit = [w.unit EXCEPT ![u] = f]
  BY <1>1, WithUnitParts, WithUnitIs
<1> HIDE DEF a, b
<1>6. /\ ra = [unit |-> [a.unit EXCEPT ![u] = Remains(a.unit[u], S)],
               tracked |-> Untracked(a.tracked, Taken(a.unit[u].auras, S)),
               leaving |-> [a.leaving EXCEPT ![u] = PostedRemovals(a.leaving[u], Taken(a.unit[u].auras, S))],
               stray |-> (a.stray \/ Unconnected(Taken(a.unit[u].auras, S))), fault |-> a.fault]
      /\ ra \in Bodies
  BY <1>2, RemovedIs
<1>7. /\ rb = [unit |-> [b.unit EXCEPT ![u] = Remains(b.unit[u], S)],
               tracked |-> Untracked(b.tracked, Taken(b.unit[u].auras, S)),
               leaving |-> [b.leaving EXCEPT ![u] = PostedRemovals(b.leaving[u], Taken(b.unit[u].auras, S))],
               stray |-> (b.stray \/ Unconnected(Taken(b.unit[u].auras, S))), fault |-> b.fault]
      /\ rb \in Bodies
  BY <1>1, <1>5, RemovedIs
<1>8. [a.unit EXCEPT ![u] = Remains(q, S)] = [w.unit EXCEPT ![u] = Remains(q, S)]
  BY <1>2, BodiesParts
<1>9. [b.unit EXCEPT ![u] = Remains(f, S)] = [w.unit EXCEPT ![u] = Remains(f, S)]
  BY <1>5, BodiesParts
<1>10. ra = [unit |-> [w.unit EXCEPT ![u] = Remains(q, S)], tracked |-> t, leaving |-> l, stray |-> g, fault |-> w.fault]
  BY <1>2, <1>6, <1>8
<1>11. rb = [unit |-> [w.unit EXCEPT ![u] = Remains(f, S)], tracked |-> t, leaving |-> l, stray |-> g, fault |-> w.fault]
  BY <1>1, <1>5, <1>7, <1>9
<1> HIDE DEF ra, rb, t, l, g
<1>12. ra.unit[u] = Remains(q, S)
  BY <1>10, BodiesParts
<1>13. Shown(ra, u, n, s) = WithUnit(ra, u, Remains(f, S))
  <2>1. ra \in Bodies
    BY <1>6
  <2>2. Shown(ra, u, n, s) = WithUnit(ra, u, FieldSet(ra.unit[u], n, s))
    BY <2>1, FieldSetIs
  <2> QED
    BY <1>3, <1>12, <2>2
<1>14. WithUnit(ra, u, Remains(f, S)) = rb
  <2> DEFINE x == [ra.unit EXCEPT ![u] = Remains(f, S)]
  <2>1. x = [w.unit EXCEPT ![u] = Remains(f, S)]
    BY <1>10, BodiesParts
  <2>2. WithUnit(ra, u, Remains(f, S)) = [ra EXCEPT !.unit = x]
    BY DEF WithUnit
  <2> HIDE DEF x
  <2>3. WithUnit(ra, u, Remains(f, S)) = [unit |-> x, tracked |-> t, leaving |-> l, stray |-> g, fault |-> w.fault]
    BY <1>10, <2>2
  <2> QED
    BY <1>11, <2>1, <2>3
<1> QED
  BY <1>13, <1>14 DEF ra, rb, a, b, f

(* The aura of a first tick that kills is settled too when death does not end it. *)
LEMMA AppliedKills ==
  ASSUME NEW w, AurasFit(w), NEW u \in Bearer, NEW a, Fresh(w.unit[u], a), Is(a, "DeathPersistent")
  PROVE  Applied(Listed(w, u, a), u, a, TRUE) = Killed(Settled(w, u, a), u)
<1> DEFINE r == w.unit[u]
           e == Early(r, a, u)
           g == Grown(r, a, u)
           E == Started(w, u, a)
           G == Settled(w, u, a)
           n == a.slot
           s == a.spell
           S == Passing(e)
<1>1. w \in Bodies /\ a \in Aura /\ AllFit(w)
  BY DEF AurasFit, Fresh
<1>2. /\ E \in Bodies /\ E.unit[u] = e /\ G \in Bodies /\ G.unit[u] = g
      /\ \A q \in UnitRecord : WithUnit(E, u, q) = WithUnit(G, u, q)
      /\ FieldSet(e, n, s) = g /\ g \in UnitRecord /\ e \in UnitRecord /\ s \in AuraSpell
  BY <1>1, StartedParts
<1>3. r \in UnitRecord /\ Fit(r, w.leaving[u]) /\ Fresh(r, a)
  BY <1>1, BodiesParts DEF AllFit
<1>4. Fit(g, w.leaving[u])
  BY <1>3, GrownFit
<1>5. g.auras = e.auras
  BY DEF Early
<1>6. Append(r.auras, a) \in Seq(Aura)
  BY <1>1, <1>3, UnitParts, AppendIs
<1>7. \E i \in DOMAIN g.auras : g.auras[i] = a
  <2> DEFINE j == Joined(r, a)
             b == NewAura(Entry[s].passive, u, NoSlot)
             k == Len(r.auras) + 1
  <2>1. j \in UnitRecord /\ j.auras = Append(r.auras, a)
    BY <1>1, <1>3, JoinedParts
  <2>2. k \in DOMAIN j.auras /\ j.auras[k] = a
    BY <1>1, <1>3, <2>1, UnitParts, AppendIs
  <2> HIDE DEF k
  <2>3. CASE Is(a, "ShapeShift") /\ Entry[s].passive # NoAura
    <3>1. Entry[s].passive \in AuraSpell
      BY <1>1, <2>3, AuraParts DEF SpellEntry
    <3>2. b \in Aura
      BY <3>1, NewAuraParts
    <3>3. g = Gained(j, b)
      BY <2>3 DEF Grown
    <3> HIDE DEF j, b, g
    <3>4. g.auras = Append(j.auras, b)
      BY <2>1, <3>2, <3>3, GainedParts
    <3>5. k \in DOMAIN g.auras /\ g.auras[k] = a
      BY <2>1, <2>2, <3>2, <3>4, UnitParts, AppendIs
    <3> QED
      BY <3>5
  <2>4. CASE ~(Is(a, "ShapeShift") /\ Entry[s].passive # NoAura)
    <3>1. g = j
      BY <2>4 DEF Grown
    <3> QED
      BY <2>2, <3>1
  <2> QED
    BY <2>3, <2>4
<1>8. NoSlot \notin Slot
  BY AurasAssumption DEF NoSlot, Slot
<1>9. n \in Slot => \A i \in S : e.auras[i].slot # n
  <2> SUFFICES ASSUME n \in Slot, NEW i \in S, e.auras[i].slot = n PROVE FALSE
    OBVIOUS
  <2>1. PICK k \in DOMAIN g.auras : g.auras[k] = a
    BY <1>7
  <2>2. i \in DOMAIN g.auras /\ g.auras[i].slot = n /\ ~Lasts(g.auras[i])
    BY <1>5 DEF Passing
  <2>3. Placed(g)
    BY <1>4 DEF Fit
  <2> HIDE DEF g
  <2>4. i = k
    BY <1>8, <2>1, <2>2, <2>3 DEF Placed
  <2> QED
    BY <2>1, <2>2, <2>4 DEF Lasts
<1>10. Passing(g) = S
  BY <1>5 DEF Passing
<1>11. S \in SUBSET DOMAIN e.auras
  BY DEF Passing
<1> HIDE DEF E, G, e, g, S
<1> DEFINE d == DeadUnit(e)
<1>12. Killed(E, u) = Removed(WithUnit(E, u, d), u, S) /\ d \in UnitRecord /\ d.auras = e.auras
  BY <1>2, KilledIs DEF S
<1>13. Killed(G, u) = Removed(WithUnit(G, u, DeadUnit(g)), u, S) /\ DeadUnit(g) \in UnitRecord
  BY <1>2, <1>10, KilledIs
<1>14. DeadUnit(g) = FieldSet(d, n, s)
  BY <1>2, DeadShown
<1> HIDE DEF d
<1>15. Shown(Removed(WithUnit(E, u, d), u, S), u, n, s) = Removed(WithUnit(E, u, FieldSet(d, n, s)), u, S)
  <2>1. S \in SUBSET DOMAIN d.auras /\ (n \in Slot => \A i \in S : d.auras[i].slot # n)
    BY <1>9, <1>11, <1>12
  <2> QED
    BY <1>2, <1>12, <2>1, RemovedShown
<1>16. WithUnit(E, u, FieldSet(d, n, s)) = WithUnit(G, u, DeadUnit(g))
  BY <1>2, <1>13, <1>14
<1>17. Applied(Listed(w, u, a), u, a, TRUE) = Shown(Killed(E, u), u, n, s)
  <2>1. Applied(Listed(w, u, a), u, a, TRUE) =
          Shown(IF TRUE THEN Killed(Started(w, u, a), u) ELSE Started(w, u, a), u, a.slot, a.spell)
    BY <1>1, AppliedIs
  <2> QED
    BY <2>1 DEF E
<1> QED
  BY <1>12, <1>13, <1>15, <1>16, <1>17 DEF G

(* What every handler keeps: all is in order as long as nothing went wrong. *)
Safe(w) == w \in Bodies /\ (w.fault = "none" => AurasHold(w))

LEMMA HoldIsSafe == \A w : AurasHold(w) => Safe(w)
BY DEF Safe, AurasHold, AurasFit

LEMMA KilledBodies ==
  ASSUME NEW w \in Bodies, NEW u \in Bearer
  PROVE  Killed(w, u) \in Bodies
<1> DEFINE d == DeadUnit(w.unit[u])
           S == Passing(w.unit[u])
<1>1. Killed(w, u) = Removed(WithUnit(w, u, d), u, S) /\ d \in UnitRecord /\ d.auras = w.unit[u].auras
  BY KilledIs
<1>2. S \in SUBSET DOMAIN w.unit[u].auras
  BY DEF Passing
<1> HIDE DEF d, S
<1>3. WithUnit(w, u, d) \in Bodies /\ WithUnit(w, u, d).unit[u] = d
  BY <1>1, WithUnitParts
<1>4. S \in SUBSET DOMAIN WithUnit(w, u, d).unit[u].auras
  BY <1>1, <1>2, <1>3
<1> QED
  BY <1>1, <1>3, <1>4, RemovedParts

(* A fresh aura that is applied leaves everything in order. *)
LEMMA AppliedHolds ==
  ASSUME NEW w, AurasHold(w), NEW u \in Bearer, NEW a, Fresh(w.unit[u], a), Unrivaled(w.unit[u], a),
         w.unit[u].alive \/ Lasts(a), NEW kills \in BOOLEAN
  PROVE  Safe(Applied(Listed(w, u, a), u, a, kills))
<1> DEFINE G == Settled(w, u, a)
           E == Started(w, u, a)
<1>1. AurasFit(w) /\ AllMortal(w) /\ w \in Bodies /\ a \in Aura
  BY DEF AurasHold, AurasFit, Fresh
<1>2. /\ AurasFit(G) /\ G.fault = w.fault /\ (\A v \in Bearer \ {u} : Mortal(G.unit[v])) /\ AllMortal(G)
  BY <1>1, GrownHolds DEF Settled
<1> HIDE DEF G
<1>3. CASE ~kills
  <2>1. kills = FALSE
    BY <1>3
  <2>2. Applied(Listed(w, u, a), u, a, FALSE) = G
    BY <1>1, AppliedSettled DEF G
  <2>3. AurasHold(G)
    BY <1>2 DEF AurasHold
  <2> QED
    BY <2>1, <2>2, <2>3, HoldIsSafe
<1>4. CASE kills /\ Is(a, "DeathPersistent")
  <2>1. kills = TRUE
    BY <1>4
  <2>2. Applied(Listed(w, u, a), u, a, TRUE) = Killed(G, u)
    BY <1>1, <1>4, AppliedKills DEF G
  <2>3. AurasHold(Killed(G, u))
    BY <1>2, KilledHolds
  <2> QED
    BY <2>1, <2>2, <2>3, HoldIsSafe
<1>5. CASE kills /\ ~Is(a, "DeathPersistent")
  <2>1. Applied(Listed(w, u, a), u, a, kills) = Failed(Killed(E, u))
    BY <1>1, <1>5, AppliedNot
  <2>2. E \in Bodies
    BY <1>1, StartedParts
  <2> HIDE DEF E
  <2>3. Killed(E, u) \in Bodies
    BY <2>2, KilledBodies
  <2>4. Failed(Killed(E, u)) \in Bodies /\ Failed(Killed(E, u)).fault # "none"
    BY <2>3 DEF Bodies, Failed
  <2> QED
    BY <2>1, <2>4 DEF Safe
<1> QED
  BY <1>3, <1>4, <1>5

(* A new shape ends the old one first. *)
ShapesOf(r) == {i \in DOMAIN r.auras : Is(r.auras[i], "ShapeShift")}

LEMMA UnshapedHolds ==
  ASSUME NEW w, AurasHold(w), NEW u \in Bearer, NEW s \in AuraSpell
  PROVE  /\ AurasHold(Unshaped(w, u, s)) /\ Unshaped(w, u, s).fault = w.fault /\ Fewer(w, Unshaped(w, u, s))
         /\ "ShapeShift" \in Entry[s].is => ~Has(Unshaped(w, u, s).unit[u].auras, "ShapeShift")
<1>1. CASE "ShapeShift" \in Entry[s].is
  <2> DEFINE r == w.unit[u]
             S == ShapesOf(r)
  <2>1. Unshaped(w, u, s) = Removed(w, u, S)
    BY <1>1 DEF Unshaped, Those, ShapesOf
  <2>2. S \in SUBSET DOMAIN r.auras /\ \A i \in DOMAIN r.auras \ S : ~Is(r.auras[i], "ShapeShift")
    BY DEF ShapesOf
  <2> HIDE DEF S
  <2>3. AurasHold(Removed(w, u, S)) /\ Removed(w, u, S).fault = w.fault /\ Fewer(w, Removed(w, u, S))
    BY <2>2, RemovedHold
  <2>4. w \in Bodies /\ r \in UnitRecord
    BY BodiesParts DEF AurasHold, AurasFit
  <2>5. Removed(w, u, S).unit[u] = Remains(r, S)
    BY <2>2, <2>4, RemovedParts
  <2>6. Thinned(Remains(r, S).auras, r.auras, S)
    BY <2>2, <2>4, RemainsFewer
  <2>7. ~Has(Remains(r, S).auras, "ShapeShift")
    BY <2>2, <2>6 DEF Thinned, Has
  <2> QED
    BY <2>1, <2>3, <2>5, <2>7
<1>2. CASE "ShapeShift" \notin Entry[s].is
  <2>1. Unshaped(w, u, s) = w
    BY <1>2 DEF Unshaped
  <2>2. Fewer(w, w)
    BY DEF Fewer
  <2> QED
    BY <1>2, <2>1, <2>2
<1> QED
  BY <1>1, <1>2

(* An aura with a free field, or passive, without rivals, may be pushed. *)
Welcome(r, a) ==
  /\ a \in Aura
  /\ a.slot = NoSlot => Is(a, "Passive")
  /\ a.slot # NoSlot => r.field[a.slot] = NoAura
  /\ \A f \in AuraSpell : Entry[f].passive # a.spell

LEMMA PushedHolds ==
  ASSUME NEW w, AurasHold(w), NEW u \in Bearer, NEW a, Welcome(w.unit[u], a), Unrivaled(w.unit[u], a),
         w.unit[u].alive \/ Lasts(a), NEW kills \in BOOLEAN
  PROVE  Safe(Pushed(w, u, a, kills))
<1> DEFINE x == Unshaped(w, u, a.spell)
<1>1. a \in Aura /\ a.spell \in AuraSpell /\ a.slot \in Slot \union {NoSlot}
  BY AuraParts DEF Welcome
<1>2. /\ AurasHold(x) /\ x.fault = w.fault /\ Fewer(w, x)
      /\ Is(a, "ShapeShift") => ~Has(x.unit[u].auras, "ShapeShift")
  BY <1>1, UnshapedHolds DEF Is
<1>3. Pushed(w, u, a, kills) = Applied(Listed(x, u, a), u, a, kills)
  BY DEF Pushed, Listed
<1> HIDE DEF x
<1>4. /\ x.unit[u].alive = w.unit[u].alive
      /\ \A n \in DOMAIN x.unit[u].auras : \E i \in DOMAIN w.unit[u].auras : x.unit[u].auras[n] = w.unit[u].auras[i]
      /\ \A n \in Slot : x.unit[u].field[n] \in {NoAura, w.unit[u].field[n]}
  BY <1>2 DEF Fewer
<1>5. Fresh(x.unit[u], a)
  <2>1. a.slot # NoSlot => x.unit[u].field[a.slot] = NoAura
    BY <1>1, <1>4 DEF Welcome
  <2> QED
    BY <1>2, <2>1 DEF Fresh, Welcome
<1>6. Unrivaled(x.unit[u], a)
  BY <1>4 DEF Unrivaled
<1> QED
  BY <1>2, <1>3, <1>4, <1>5, <1>6, AppliedHolds

(* Numbers have a first. *)
LEMMA FirstIs ==
  ASSUME NEW K \in SUBSET Nat, K # {}
  PROVE  First(K) \in K
<1>1. PICK t \in K : TRUE
  OBVIOUS
<1> DEFINE T == {j \in K : j <= t}
           i == Nth(T, 1)
           R == {j \in T : j <= i}
<1>2. T \in SUBSET (0 .. t) /\ IsFiniteSet(0 .. t) /\ t \in T /\ T \in SUBSET Nat
  <2>1. t \in Nat /\ IsFiniteSet(0 .. t)
    BY <1>1, FS_Interval
  <2>2. \A j \in T : j \in Nat /\ j <= t
    OBVIOUS
  <2>3. t \in T
    BY <1>1, <2>1
  <2> HIDE DEF T
  <2> QED
    BY <2>1, <2>2, <2>3
<1>3. IsFiniteSet(T)
  BY <1>2, FS_Subset
<1>4. \A j \in K : j \notin T => t < j
  BY <1>1
<1> HIDE DEF T
<1>5. Cardinality(T) \in Nat /\ Cardinality(T) # 0
  BY <1>2, <1>3, FS_CardinalityType, FS_EmptySet
<1>6. 1 \in 1 .. Cardinality(T)
  BY <1>5
<1>7. i \in T /\ Rank(T, i) = 1
  BY <1>2, <1>3, <1>6, RankIsPlace
<1> HIDE DEF i
<1>8. R \in SUBSET T /\ i \in R /\ Cardinality(R) = 1
  BY <1>2, <1>7 DEF Rank
<1>9. IsFiniteSet(R)
  BY <1>3, <1>8, FS_Subset
<1>10. \A j \in R : j = i
  <2> HIDE DEF R
  <2>1. PICK m : R = {m}
    BY <1>8, <1>9, FS_Singleton
  <2> QED
    BY <1>8, <2>1
<1>11. \A j \in T : i <= j
  BY <1>2, <1>7, <1>10
<1>12. i \in K /\ \A j \in K : i <= j
  <2>1. T \in SUBSET K /\ \A j \in T : j <= t
    BY DEF T
  <2>2. \A j \in K : j \in Nat
    OBVIOUS
  <2> QED
    BY <1>1, <1>4, <1>7, <1>11, <2>1, <2>2
<1> QED
  BY <1>12 DEF First

(* The unit with another i-th aura. *)
Touched(r, i, b) == [r EXCEPT !.auras = [@ EXCEPT ![i] = b]]
(* An aura that only its charges, stacks and listening tell apart *)
Alike(a, b) == a.spell = b.spell /\ a.caster = b.caster /\ a.slot = b.slot

LEMMA TouchedParts ==
  ASSUME NEW r \in UnitRecord, NEW i \in DOMAIN r.auras, NEW b \in Aura
  PROVE  /\ Touched(r, i, b) \in UnitRecord /\ Touched(r, i, b).auras \in Seq(Aura)
         /\ DOMAIN Touched(r, i, b).auras = DOMAIN r.auras
         /\ \A j \in DOMAIN r.auras : Touched(r, i, b).auras[j] = IF j = i THEN b ELSE r.auras[j]
         /\ Touched(r, i, b).field = r.field /\ Touched(r, i, b).stunned = r.stunned
         /\ Touched(r, i, b).rooted = r.rooted /\ Touched(r, i, b).form = r.form /\ Touched(r, i, b).alive = r.alive
<1> DEFINE list == [r.auras EXCEPT ![i] = b]
<1>1. r.auras \in Seq(Aura)
  BY UnitParts
<1>2. list \in Seq(Aura) /\ DOMAIN list = DOMAIN r.auras /\ \A j \in DOMAIN r.auras : list[j] = IF j = i THEN b ELSE r.auras[j]
  BY <1>1
<1>3. Touched(r, i, b) = [r EXCEPT !.auras = list]
  BY DEF Touched
<1> HIDE DEF list
<1>4. /\ Touched(r, i, b) \in UnitRecord /\ Touched(r, i, b).auras = list /\ Touched(r, i, b).field = r.field
      /\ Touched(r, i, b).stunned = r.stunned /\ Touched(r, i, b).rooted = r.rooted
      /\ Touched(r, i, b).form = r.form /\ Touched(r, i, b).alive = r.alive
  BY <1>2, <1>3 DEF UnitRecord
<1> QED
  BY <1>2, <1>4

(* What all auras of a unit say but for those is the same. *)
LEMMA TouchedSame ==
  ASSUME NEW r \in UnitRecord, NEW i \in DOMAIN r.auras, NEW b \in Aura, Alike(r.auras[i], b)
  PROVE  /\ \A due : Fit(r, due) => Fit(Touched(r, i, b), due)
         /\ \A c, m : Bears(Touched(r, i, b), c, m) <=> Bears(r, c, m)
         /\ NoRivals(r) => NoRivals(Touched(r, i, b))
         /\ Mortal(r) => Mortal(Touched(r, i, b))
<1> DEFINE q == Touched(r, i, b)
<1>1. /\ DOMAIN q.auras = DOMAIN r.auras
      /\ \A j \in DOMAIN r.auras : q.auras[j] = IF j = i THEN b ELSE r.auras[j]
      /\ q.field = r.field /\ q.stunned = r.stunned /\ q.rooted = r.rooted /\ q.form = r.form /\ q.alive = r.alive
  BY TouchedParts
<1> HIDE DEF q
<1>2. \A j \in DOMAIN r.auras : /\ q.auras[j].spell = r.auras[j].spell /\ q.auras[j].caster = r.auras[j].caster
                                /\ q.auras[j].slot = r.auras[j].slot
  BY <1>1 DEF Alike
<1>3. \A j \in DOMAIN r.auras : \A flag : Is(q.auras[j], flag) <=> Is(r.auras[j], flag)
  BY <1>2 DEF Is
<1>4. \A flag : Has(q.auras, flag) <=> Has(r.auras, flag)
  BY <1>1, <1>3 DEF Has
<1>5. \A c, m : Bears(q, c, m) <=> Bears(r, c, m)
  <2>1. \A j \in DOMAIN r.auras : \A c, m : Single(q.auras[j], c, m) <=> Single(r.auras[j], c, m)
    BY <1>2, <1>3 DEF Single
  <2> QED
    BY <1>1, <2>1 DEF Bears
<1>6. ASSUME NoRivals(r) PROVE NoRivals(q)
  <2>1. \A j, k \in DOMAIN r.auras : Rivals(q.auras[j], q.auras[k]) => Rivals(r.auras[j], r.auras[k])
    BY <1>2, <1>3 DEF Rivals
  <2> QED
    BY <1>1, <1>6, <2>1 DEF NoRivals
<1>7. Mortal(r) => Mortal(q)
  <2>1. \A j \in DOMAIN r.auras : Lasts(q.auras[j]) <=> Lasts(r.auras[j])
    BY <1>3 DEF Lasts
  <2> QED
    BY <1>1, <2>1 DEF Mortal
<1>8. ASSUME NEW due, Fit(r, due) PROVE Fit(q, due)
  <2>1. Placed(r) /\ Displayed(r) /\ Controlled(r) /\ Shaped(r) /\ Leaves(r, due)
    BY <1>8 DEF Fit
  <2>2. Placed(q)
    BY <1>1, <1>2, <1>3, <2>1 DEF Placed
  <2>3. Displayed(q)
    BY <1>1, <1>2, <2>1 DEF Displayed
  <2>4. Controlled(q)
    BY <1>1, <1>4, <2>1 DEF Controlled
  <2>5. Shaped(q)
    BY <1>1, <1>2, <1>3, <1>4, <2>1 DEF Shaped
  <2>6. Leaves(q, due)
    BY <1>1, <1>2, <2>1 DEF Leaves
  <2> QED
    BY <2>2, <2>3, <2>4, <2>5, <2>6 DEF Fit
<1> QED
  BY <1>5, <1>6, <1>7, <1>8 DEF q

(* A change of a unit that says the same of it. *)
LEMMA SameAuras ==
  ASSUME NEW w, AurasHold(w), NEW u \in Bearer, NEW q \in UnitRecord,
         \A due : Fit(w.unit[u], due) => Fit(q, due),
         \A c, m : Bears(q, c, m) <=> Bears(w.unit[u], c, m),
         NoRivals(w.unit[u]) => NoRivals(q), Mortal(w.unit[u]) => Mortal(q)
  PROVE  AurasHold(WithUnit(w, u, q)) /\ WithUnit(w, u, q).fault = w.fault /\ WithUnit(w, u, q).unit[u] = q
<1> DEFINE x == WithUnit(w, u, q)
<1>1. w \in Bodies /\ AllFit(w) /\ Remembered(w) /\ (SpellsApart => Apart(w)) /\ AllMortal(w)
  BY DEF AurasHold, AurasFit
<1>2. /\ x \in Bodies /\ x.unit[u] = q /\ (\A v \in Bearer \ {u} : x.unit[v] = w.unit[v])
      /\ x.tracked = w.tracked /\ x.leaving = w.leaving /\ x.fault = w.fault
  BY <1>1, WithUnitParts
<1> HIDE DEF x
<1>3. AllFit(x)
  BY <1>1, <1>2 DEF AllFit
<1>4. \A v \in Bearer : \A c, m : Bears(x.unit[v], c, m) <=> Bears(w.unit[v], c, m)
  BY <1>2
<1>5. Remembered(x)
  BY <1>1, <1>2, <1>4 DEF Remembered
<1>6. Apart(w) => Apart(x)
  BY <1>2, <1>4 DEF Apart, Found
<1>7. AllMortal(x)
  BY <1>1, <1>2 DEF AllMortal
<1> QED
  BY <1>1, <1>2, <1>3, <1>5, <1>6, <1>7 DEF AurasHold, AurasFit, x

LEMMA TouchedHolds ==
  ASSUME NEW w, AurasHold(w), NEW u \in Bearer, NEW i \in DOMAIN w.unit[u].auras, NEW b \in Aura,
         Alike(w.unit[u].auras[i], b)
  PROVE  LET x == WithUnit(w, u, Touched(w.unit[u], i, b))
         IN  /\ AurasHold(x) /\ x.fault = w.fault /\ x.unit[u] = Touched(w.unit[u], i, b)
             /\ DOMAIN x.unit[u].auras = DOMAIN w.unit[u].auras
<1> DEFINE r == w.unit[u]
           q == Touched(r, i, b)
<1>1. r \in UnitRecord
  BY BodiesParts DEF AurasHold, AurasFit
<1>2. /\ \A due : Fit(r, due) => Fit(q, due)
      /\ \A c, m : Bears(q, c, m) <=> Bears(r, c, m)
      /\ NoRivals(r) => NoRivals(q)
      /\ Mortal(r) => Mortal(q)
  BY <1>1, TouchedSame
<1>3. q \in UnitRecord /\ DOMAIN q.auras = DOMAIN r.auras
  BY <1>1, TouchedParts
<1> HIDE DEF q
<1>4. AurasHold(WithUnit(w, u, q)) /\ WithUnit(w, u, q).fault = w.fault /\ WithUnit(w, u, q).unit[u] = q
  BY <1>2, <1>3, SameAuras
<1> QED
  BY <1>3, <1>4 DEF q

(* One more stack of an aura *)
MoreOf(a) == [a EXCEPT !.stacks = IF @ = Entry[a.spell].stackamount THEN @ ELSE @ + 1]

LEMMA StackedHolds ==
  ASSUME NEW w, AurasHold(w), NEW u \in Bearer, NEW i \in DOMAIN w.unit[u].auras
  PROVE  AurasHold(Stacked(w, u, i))
<1> DEFINE a == w.unit[u].auras[i]
           b == MoreOf(a)
<1>1. w \in Bodies
  BY DEF AurasHold, AurasFit
<1>2. a \in Aura
  BY <1>1, BodiesParts, UnitParts
<1>3. b \in Aura /\ Alike(a, b)
  <2> HIDE DEF a
  <2> DEFINE k == IF a.stacks = Entry[a.spell].stackamount THEN a.stacks ELSE a.stacks + 1
  <2>1. k \in Nat \ {0}
    BY <1>2, AuraParts
  <2>2. b = [a EXCEPT !.stacks = k]
    BY DEF MoreOf
  <2> HIDE DEF k, b
  <2> QED
    BY <1>2, <2>1, <2>2 DEF Aura, Alike
<1>4. Stacked(w, u, i) = WithUnit(w, u, Touched(w.unit[u], i, b))
  BY DEF Stacked, WithUnit, Touched, MoreOf
<1> HIDE DEF b
<1> QED
  BY <1>3, <1>4, TouchedHolds

(* The auras of the unit that a new one of the caster may take the place of *)
Outdated(r, s, c) == {i \in DOMAIN r.auras : Overwrites(s, c, r.auras[i])}

LEMMA OutdatedParts ==
  ASSUME NEW r \in UnitRecord, NEW s, NEW c
  PROVE  /\ Outdated(r, s, c) \in SUBSET DOMAIN r.auras /\ Outdated(r, s, c) \in SUBSET Nat
         /\ Outdated(r, s, c) # {} => First(Outdated(r, s, c)) \in Outdated(r, s, c)
<1>1. DOMAIN r.auras \in SUBSET Nat
  BY UnitParts
<1>2. Outdated(r, s, c) \in SUBSET DOMAIN r.auras
  BY DEF Outdated
<1> QED
  BY <1>1, <1>2, FirstIs

(* A passive aura has no rivals and needs no field. *)
LEMMA PassiveWelcome ==
  ASSUME NEW r \in UnitRecord, NEW s \in AuraSpell, NEW c \in Bearer, "Passive" \in Entry[s].is,
         \A f \in AuraSpell : Entry[f].passive # s
  PROVE  Welcome(r, NewAura(s, c, NoSlot)) /\ Unrivaled(r, NewAura(s, c, NoSlot))
<1> DEFINE a == NewAura(s, c, NoSlot)
<1>1. a \in Aura /\ a.spell = s /\ a.slot = NoSlot
  BY NewAuraParts
<1> HIDE DEF a
<1>2. Welcome(r, a)
  BY <1>1 DEF Welcome, Is
<1>3. Unrivaled(r, a)
  BY <1>1 DEF Unrivaled, Rivals
<1> QED
  BY <1>2, <1>3 DEF a

(* An aura in a free field that takes no other's place has none either. *)
LEMMA FreeWelcome ==
  ASSUME NEW r \in UnitRecord, NEW s \in AuraSpell, NEW c \in Bearer, Outdated(r, s, c) = {},
         NEW n \in Slot, r.field[n] = NoAura, \A f \in AuraSpell : Entry[f].passive # s
  PROVE  Welcome(r, NewAura(s, c, n)) /\ Unrivaled(r, NewAura(s, c, n))
<1> DEFINE a == NewAura(s, c, n)
<1>1. a \in Aura /\ a.spell = s /\ a.slot = n /\ a.caster = c
  BY NewAuraParts
<1>2. NoSlot \notin Slot
  BY AurasAssumption DEF NoSlot, Slot
<1> HIDE DEF a
<1>3. Welcome(r, a)
  BY <1>1, <1>2 DEF Welcome
<1>4. Unrivaled(r, a)
  <2> SUFFICES ASSUME NEW i \in DOMAIN r.auras, Rivals(r.auras[i], a) PROVE FALSE
    BY DEF Unrivaled
  <2>1. Overwrites(s, c, r.auras[i])
    BY <1>1 DEF Rivals, Overwrites, Is
  <2> QED
    BY <2>1 DEF Outdated
<1> QED
  BY <1>3, <1>4 DEF a

(* The one aura whose place it takes was its only rival. *)
LEMMA OverWelcome ==
  ASSUME NEW w, AurasHold(w), NEW u \in Bearer, NEW s \in AuraSpell, NEW c \in Bearer,
         NEW i \in Outdated(w.unit[u], s, c), \A f \in AuraSpell : Entry[f].passive # s
  PROVE  LET x == Removed(w, u, {i})
             a == NewAura(s, c, w.unit[u].auras[i].slot)
         IN  /\ AurasHold(x) /\ x.fault = w.fault /\ x.unit[u].alive = w.unit[u].alive
             /\ Welcome(x.unit[u], a) /\ Unrivaled(x.unit[u], a) /\ a.spell = s
<1> DEFINE r == w.unit[u]
           old == r.auras[i]
           x == Removed(w, u, {i})
           q == Remains(r, {i})
           a == NewAura(s, c, old.slot)
<1>1. w \in Bodies /\ (SpellsApart => Apart(w))
  BY DEF AurasHold, AurasFit
<1>2. r \in UnitRecord
  BY <1>1, BodiesParts
<1>3. i \in DOMAIN r.auras /\ Overwrites(s, c, old)
  BY DEF Outdated
<1>4. old \in Aura /\ old.slot \in Slot /\ old.slot # NoSlot /\ old.caster = c /\ old.spell \in AuraSpell
  BY <1>2, <1>3, UnitParts, AuraParts DEF Overwrites
<1>5. AurasHold(x) /\ x.fault = w.fault /\ Fewer(w, x) /\ x.unit[u] = q
  BY <1>1, <1>3, RemovedHold, RemovedParts
<1>6. q.field[old.slot] = NoAura /\ q.alive = r.alive
  BY <1>2, <1>3, <1>4, RemainsParts
<1>7. Thinned(q.auras, r.auras, {i})
  BY <1>2, <1>3, RemainsFewer
<1>8. a \in Aura /\ a.spell = s /\ a.slot = old.slot /\ a.caster = c
  BY <1>4, NewAuraParts
<1> HIDE DEF x, q, a
<1>9. Welcome(q, a)
  BY <1>4, <1>6, <1>8 DEF Welcome
<1>10. Unrivaled(q, a)
  <2> SUFFICES ASSUME SpellsApart, NEW n \in DOMAIN q.auras, Rivals(q.auras[n], a) PROVE FALSE
    BY DEF Unrivaled
  <2>1. PICK j \in DOMAIN r.auras \ {i} : q.auras[n] = r.auras[j]
    BY <1>7 DEF Thinned
  <2>2. Rivals(r.auras[j], a) /\ r.auras[j].spell \in AuraSpell
    BY <1>2, <2>1, UnitParts, AuraParts
  <2>3. NoRivals(r)
    BY <1>1 DEF Apart
  <2> DEFINE b == r.auras[j]
  <2>4. /\ b.slot # NoSlot /\ b.caster = c
        /\ Entry[b.spell].baseid = Entry[s].baseid \/ (Is(b, "Curse") /\ "Curse" \in Entry[s].is)
    BY <1>8, <2>2 DEF Rivals, Is
  <2>5. Entry[s].baseid = Entry[old.spell].baseid \/ ("Curse" \in Entry[s].is /\ Is(old, "Curse"))
    BY <1>3 DEF Overwrites
  <2> HIDE DEF old, b
  <2>6. Entry[b.spell].baseid = Entry[old.spell].baseid \/ (Is(b, "Curse") /\ Is(old, "Curse"))
    <3>1. b.spell \in AuraSpell
      BY <2>2 DEF b
    <3>2. Entry[b.spell].baseid = Entry[s].baseid => (Is(b, "Curse") <=> "Curse" \in Entry[s].is)
      BY <3>1 DEF SpellsApart, Is
    <3>3. Entry[old.spell].baseid = Entry[s].baseid => (Is(old, "Curse") <=> "Curse" \in Entry[s].is)
      BY <1>4 DEF SpellsApart, Is
    <3> QED
      BY <2>4, <2>5, <3>2, <3>3
  <2>7. Rivals(b, old)
    BY <1>4, <2>4, <2>6 DEF Rivals
  <2>8. j = i
    BY <1>3, <2>1, <2>3, <2>7 DEF NoRivals, b, old
  <2> QED
    BY <2>1, <2>8
<1> QED
  BY <1>5, <1>6, <1>8, <1>9, <1>10 DEF x, a, old

(* Whichever way an aura is added, everything is left in order. *)
LEMMA AddedHolds ==
  ASSUME NEW w, AurasHold(w), NEW u \in Bearer, NEW s \in AuraSpell, NEW c \in Bearer, NEW kills \in BOOLEAN,
         \A f \in AuraSpell : Entry[f].passive # s, w.unit[u].alive \/ "DeathPersistent" \in Entry[s].is
  PROVE  Safe(Added(w, u, s, c, kills))
<1> DEFINE r == w.unit[u]
           over == Outdated(r, s, c)
           i == First(over)
           old == r.auras[i]
<1>1. r \in UnitRecord
  BY BodiesParts DEF AurasHold, AurasFit
<1>2. Those(w, u, LAMBDA b : Overwrites(s, c, b)) = over
  BY DEF Those, Outdated
<1>3. \A slot \in Slot \union {NoSlot} :
        w.unit[u].alive \/ Lasts(NewAura(s, c, slot))
  BY NewAuraParts DEF Lasts, Is
<1>4. CASE "Passive" \in Entry[s].is
  <2> DEFINE a == NewAura(s, c, NoSlot)
  <2>1. Added(w, u, s, c, kills) = Pushed(w, u, a, kills)
    BY <1>4 DEF Added
  <2>2. Welcome(r, a) /\ Unrivaled(r, a)
    BY <1>1, <1>4, PassiveWelcome
  <2>3. w.unit[u].alive \/ Lasts(a)
    BY <1>3
  <2> HIDE DEF a
  <2> QED
    BY <2>1, <2>2, <2>3, PushedHolds
<1>5. CASE "Passive" \notin Entry[s].is /\ over = {}
  <2> DEFINE F == FreeSlots(w, u, s)
             n == First(F)
             a == NewAura(s, c, n)
  <2>1. Added(w, u, s, c, kills) = IF F = {} THEN w ELSE Pushed(w, u, a, kills)
    BY <1>2, <1>5 DEF Added
  <2>2. CASE F = {}
    BY <2>1, <2>2, HoldIsSafe
  <2>3. CASE F # {}
    <3>1. F \in SUBSET Slot /\ F \in SUBSET Nat /\ \A k \in F : r.field[k] = NoAura
      BY AurasAssumption DEF FreeSlots, Slot
    <3> HIDE DEF F
    <3>2. n \in F
      BY <2>3, <3>1, FirstIs
    <3>3. n \in Slot /\ r.field[n] = NoAura
      BY <3>1, <3>2
    <3> HIDE DEF n
    <3>4. Welcome(r, a) /\ Unrivaled(r, a)
      BY <1>1, <1>5, <3>3, FreeWelcome
    <3>5. w.unit[u].alive \/ Lasts(a)
      BY <1>3, <3>3
    <3>6. Added(w, u, s, c, kills) = Pushed(w, u, a, kills)
      BY <2>1, <2>3
    <3> HIDE DEF a
    <3> QED
      BY <3>4, <3>5, <3>6, PushedHolds
  <2> QED
    BY <2>2, <2>3
<1>6. CASE "Passive" \notin Entry[s].is /\ over # {}
  <2> DEFINE x == Removed(w, u, {i})
             a == NewAura(s, c, old.slot)
  <2>1. i \in over /\ i \in DOMAIN r.auras
    BY <1>1, <1>6, OutdatedParts
  <2>2. Added(w, u, s, c, kills) \in {w, Stacked(w, u, i), Pushed(x, u, a, kills)}
    BY <1>2, <1>6 DEF Added
  <2> HIDE DEF i, over
  <2>3. Safe(w)
    BY HoldIsSafe
  <2>4. Safe(Stacked(w, u, i))
    BY <2>1, StackedHolds, HoldIsSafe
  <2>5. /\ AurasHold(x) /\ x.fault = w.fault /\ x.unit[u].alive = w.unit[u].alive
        /\ Welcome(x.unit[u], a) /\ Unrivaled(x.unit[u], a) /\ a.spell = s
    BY <2>1, OverWelcome DEF over
  <2>6. x.unit[u].alive \/ Lasts(a)
    BY <2>5 DEF Lasts, Is
  <2> HIDE DEF x, a
  <2>7. Safe(Pushed(x, u, a, kills))
    BY <2>5, <2>6, PushedHolds
  <2> QED
    BY <2>2, <2>3, <2>4, <2>7
<1> QED
  BY <1>4, <1>5, <1>6

(* A posted removal of a passive spell is due. *)
Sooner(w, u, s) == [w EXCEPT !.leaving[u][s] = @ - 1]
Less(l, s) == [l EXCEPT ![s] = @ - 1]

LEMMA SoonerIs ==
  ASSUME NEW w \in Bodies, NEW u \in Bearer, NEW s \in AuraSpell, w.leaving[u][s] > 0
  PROVE  /\ Sooner(w, u, s) = [unit |-> w.unit, tracked |-> w.tracked,
                               leaving |-> [w.leaving EXCEPT ![u] = Less(w.leaving[u], s)],
                               stray |-> w.stray, fault |-> w.fault]
         /\ Sooner(w, u, s) \in Bodies /\ Less(w.leaving[u], s) \in [AuraSpell -> Nat]
         /\ \A f \in AuraSpell : f # s => Less(w.leaving[u], s)[f] = w.leaving[u][f]
<1>1. w.leaving \in [Bearer -> [AuraSpell -> Nat]] /\ w.leaving[u] \in [AuraSpell -> Nat]
  BY BodiesParts
<1> DEFINE l == w.leaving[u]
           m == Less(l, s)
           k == [w.leaving EXCEPT ![u] = m]
<1>2. l[s] \in Nat /\ l[s] - 1 \in Nat
  BY <1>1
<1>3. m \in [AuraSpell -> Nat] /\ \A f \in AuraSpell : f # s => m[f] = l[f]
  BY <1>1, <1>2 DEF Less
<1>4. Sooner(w, u, s) = [w EXCEPT !.leaving = k]
  BY DEF Sooner, Less
<1> HIDE DEF m, l
<1>5. k \in [Bearer -> [AuraSpell -> Nat]]
  BY <1>1, <1>3
<1> HIDE DEF k
<1>6. Sooner(w, u, s) = [unit |-> w.unit, tracked |-> w.tracked, leaving |-> k, stray |-> w.stray, fault |-> w.fault]
  BY <1>4 DEF Bodies
<1>7. Sooner(w, u, s) \in Bodies
  BY <1>5, <1>6, BodiesParts DEF Bodies
<1> QED
  BY <1>3, <1>6, <1>7 DEF k, m, l

(* It makes no difference whether it is counted off before or after the auras end. *)
LEMMA LessPosted ==
  ASSUME NEW l \in [AuraSpell -> Nat], NEW s \in AuraSpell, l[s] > 0, NEW auras \in Seq(Aura),
         NEW S \in SUBSET DOMAIN auras
  PROVE  PostedRemovals(Less(l, s), Taken(auras, S)) = Less(PostedRemovals(l, Taken(auras, S)), s)
<1> DEFINE gone == Taken(auras, S)
           many(f) == Cardinality({i \in DOMAIN gone : Entry[gone[i].spell].passive = f})
           p == PostedRemovals(l, gone)
           m == Less(l, s)
<1>1. IsFiniteSet(DOMAIN gone)
  <2>1. DOMAIN auras = 1 .. Len(auras) /\ Len(auras) \in Nat
    OBVIOUS
  <2>2. IsFiniteSet(1 .. Len(auras))
    BY <2>1, FS_Interval
  <2> QED
    BY <2>1, <2>2, FS_Subset DEF Taken
<1>2. \A f : many(f) \in Nat
  <2> SUFFICES ASSUME NEW f PROVE many(f) \in Nat
    OBVIOUS
  <2> DEFINE T == {i \in DOMAIN gone : Entry[gone[i].spell].passive = f}
  <2>1. T \in SUBSET DOMAIN gone
    OBVIOUS
  <2> HIDE DEF T
  <2>2. IsFiniteSet(T)
    BY <1>1, <2>1, FS_Subset
  <2>3. Cardinality(T) \in Nat
    BY <2>2, FS_CardinalityType
  <2> QED
    BY <2>3 DEF T
<1>3. p = [f \in AuraSpell |-> l[f] + many(f)] /\ PostedRemovals(m, gone) = [f \in AuraSpell |-> m[f] + many(f)]
  BY DEF PostedRemovals
<1>4. \A f \in AuraSpell : l[f] \in Nat /\ m[f] = IF f = s THEN l[f] - 1 ELSE l[f]
  BY DEF Less
<1> HIDE DEF gone, many, p, m
<1>5. Less(p, s) = [f \in AuraSpell |-> IF f = s THEN p[f] - 1 ELSE p[f]]
  BY <1>3 DEF Less
<1>6. \A f \in AuraSpell : m[f] + many(f) = IF f = s THEN p[f] - 1 ELSE p[f]
  <2> SUFFICES ASSUME NEW f \in AuraSpell PROVE m[f] + many(f) = IF f = s THEN p[f] - 1 ELSE p[f]
    OBVIOUS
  <2>1. p[f] = l[f] + many(f) /\ l[f] \in Nat /\ many(f) \in Nat
    BY <1>2, <1>3, <1>4
  <2>2. l[f] - 1 + many(f) = (l[f] + many(f)) - 1
    BY <2>1
  <2> QED
    BY <1>4, <2>1, <2>2
<1>7. PostedRemovals(m, gone) = Less(p, s)
  BY <1>3, <1>5, <1>6
<1> QED
  BY <1>7 DEF gone, m, p

LEMMA SoonerRemoved ==
  ASSUME NEW w \in Bodies, NEW u \in Bearer, NEW s \in AuraSpell, w.leaving[u][s] > 0,
         NEW S \in SUBSET DOMAIN w.unit[u].auras
  PROVE  Removed(Sooner(w, u, s), u, S) = Sooner(Removed(w, u, S), u, s) /\ Removed(w, u, S).leaving[u][s] > 0
<1> DEFINE auras == w.unit[u].auras
           gone == Taken(auras, S)
           l == w.leaving[u]
           p == PostedRemovals(l, gone)
           y == Sooner(w, u, s)
           x == Removed(w, u, S)
           z == Removed(y, u, S)
           un == [w.unit EXCEPT ![u] = Remains(w.unit[u], S)]
           tr == Untracked(w.tracked, gone)
           st == w.stray \/ Unconnected(gone)
<1>1. w.leaving \in [Bearer -> [AuraSpell -> Nat]] /\ l \in [AuraSpell -> Nat] /\ auras \in Seq(Aura)
  BY BodiesParts, UnitParts
<1>2. PostedRemovals(Less(l, s), gone) = Less(p, s)
  BY <1>1, LessPosted
<1>3. p \in [AuraSpell -> Nat] /\ p[s] > 0
  BY <1>1, PostedParts
<1>4. /\ y \in Bodies /\ y.unit = w.unit /\ y.tracked = w.tracked /\ y.stray = w.stray /\ y.fault = w.fault
      /\ y.leaving = [w.leaving EXCEPT ![u] = Less(l, s)]
  BY SoonerIs
<1>5. x = [unit |-> un, tracked |-> tr, leaving |-> [w.leaving EXCEPT ![u] = p], stray |-> st, fault |-> w.fault]
      /\ x \in Bodies
  BY RemovedIs
<1> HIDE DEF y, x, p
<1>6. S \in SUBSET DOMAIN y.unit[u].auras
  BY <1>4
<1>7. z = [unit |-> [y.unit EXCEPT ![u] = Remains(y.unit[u], S)],
           tracked |-> Untracked(y.tracked, Taken(y.unit[u].auras, S)),
           leaving |-> [y.leaving EXCEPT ![u] = PostedRemovals(y.leaving[u], Taken(y.unit[u].auras, S))],
           stray |-> (y.stray \/ Unconnected(Taken(y.unit[u].auras, S))), fault |-> y.fault]
  BY <1>4, <1>6, RemovedIs
<1>8. y.leaving[u] = Less(l, s)
  BY <1>1, <1>4
<1>9. [y.leaving EXCEPT ![u] = Less(p, s)] = [w.leaving EXCEPT ![u] = Less(p, s)]
  BY <1>1, <1>4
<1>10. z = [unit |-> un, tracked |-> tr, leaving |-> [w.leaving EXCEPT ![u] = Less(p, s)], stray |-> st, fault |-> w.fault]
  BY <1>2, <1>4, <1>7, <1>8, <1>9
<1> HIDE DEF z, un, tr, st
<1>11. x.leaving[u] = p /\ x.unit = un /\ x.tracked = tr /\ x.stray = st /\ x.fault = w.fault
       /\ x.leaving = [w.leaving EXCEPT ![u] = p]
  BY <1>1, <1>5
<1>12. Sooner(x, u, s) = [unit |-> x.unit, tracked |-> x.tracked, leaving |-> [x.leaving EXCEPT ![u] = Less(x.leaving[u], s)],
                          stray |-> x.stray, fault |-> x.fault]
  <2>1. x \in Bodies /\ x.leaving[u][s] > 0
    BY <1>3, <1>5, <1>11
  <2> QED
    BY <2>1, SoonerIs
<1>13. [x.leaving EXCEPT ![u] = Less(p, s)] = [w.leaving EXCEPT ![u] = Less(p, s)]
  BY <1>1, <1>11
<1>14. Sooner(x, u, s) = z
  BY <1>10, <1>11, <1>12, <1>13
<1> QED
  BY <1>3, <1>11, <1>14 DEF x, z, y

(* Once no aura of the spell is left, its removal may be counted off. *)
OfSpell(r, s) == {i \in DOMAIN r.auras : r.auras[i].spell = s}

LEMMA SoonerHolds ==
  ASSUME NEW w, AurasHold(w), NEW u \in Bearer, NEW s \in AuraSpell, w.leaving[u][s] > 0, OfSpell(w.unit[u], s) = {}
  PROVE  AurasHold(Sooner(w, u, s)) /\ Sooner(w, u, s).fault = w.fault
<1> DEFINE y == Sooner(w, u, s)
           l == w.leaving[u]
<1>1. w \in Bodies /\ AllFit(w) /\ Remembered(w) /\ (SpellsApart => Apart(w)) /\ AllMortal(w)
  BY DEF AurasHold, AurasFit
<1>2. /\ y \in Bodies /\ y.unit = w.unit /\ y.tracked = w.tracked /\ y.fault = w.fault
      /\ y.leaving = [w.leaving EXCEPT ![u] = Less(l, s)]
      /\ \A f \in AuraSpell : f # s => Less(l, s)[f] = l[f]
  BY <1>1, SoonerIs
<1> HIDE DEF y
<1>3. w.unit[u] \in UnitRecord /\ w.leaving \in [Bearer -> [AuraSpell -> Nat]]
  BY <1>1, BodiesParts
<1>4. \A i \in DOMAIN w.unit[u].auras : w.unit[u].auras[i].spell \in AuraSpell /\ w.unit[u].auras[i].spell # s
  BY <1>3, UnitParts, AuraParts DEF OfSpell
<1>5. Fit(w.unit[u], l)
  BY <1>1 DEF AllFit
<1>6. Leaves(w.unit[u], Less(l, s))
  BY <1>2, <1>4, <1>5 DEF Fit, Leaves
<1>7. Fit(w.unit[u], Less(l, s))
  BY <1>5, <1>6 DEF Fit
<1>8. y.leaving[u] = Less(l, s) /\ \A v \in Bearer \ {u} : y.leaving[v] = w.leaving[v]
  BY <1>2, <1>3
<1>9. AllFit(y)
  BY <1>1, <1>2, <1>7, <1>8 DEF AllFit
<1>10. Remembered(y) /\ AllMortal(y) /\ (SpellsApart => Apart(y))
  BY <1>1, <1>2 DEF Remembered, AllMortal, Apart, Found
<1> QED
  BY <1>2, <1>9, <1>10 DEF AurasHold, AurasFit, y

(* When the passive spell leaves, all auras of it do. *)
LEMMA LeftHolds ==
  ASSUME NEW w, AurasHold(w), NEW u \in Bearer, NEW s \in AuraSpell, w.leaving[u][s] > 0
  PROVE  AurasHold(Removed(Sooner(w, u, s), u, OfSpell(w.unit[u], s)))
<1> DEFINE S == OfSpell(w.unit[u], s)
           r == w.unit[u]
           x == Removed(w, u, S)
<1>1. w \in Bodies
  BY DEF AurasHold, AurasFit
<1>2. r \in UnitRecord
  BY <1>1, BodiesParts
<1>3. S \in SUBSET DOMAIN r.auras /\ \A i \in DOMAIN r.auras \ S : r.auras[i].spell # s
  BY DEF OfSpell
<1> HIDE DEF S
<1>4. AurasHold(x) /\ x.unit[u] = Remains(r, S)
  BY <1>1, <1>3, RemovedHold, RemovedParts
<1>5. Thinned(Remains(r, S).auras, r.auras, S)
  BY <1>2, <1>3, RemainsFewer
<1>6. OfSpell(x.unit[u], s) = {}
  BY <1>3, <1>4, <1>5 DEF OfSpell, Thinned
<1>7. Removed(Sooner(w, u, s), u, S) = Sooner(x, u, s) /\ x.leaving[u][s] > 0
  BY <1>1, <1>3, SoonerRemoved
<1> HIDE DEF x
<1>8. AurasHold(Sooner(x, u, s))
  BY <1>4, <1>6, <1>7, SoonerHolds
<1> QED
  BY <1>7, <1>8 DEF S

-----------------------------------------------------------------------------
(* The specification keeps it. *)

AurasInv == Safe(AurasNow)

LEMMA SetTo ==
  ASSUME NEW w \in Bodies, AurasSetTo(w)
  PROVE  AurasNow' = w
<1>1. unit' = w.unit /\ tracked' = w.tracked /\ leaving' = w.leaving /\ stray' = w.stray /\ fault' = w.fault
  BY DEF AurasSetTo
<1>2. AurasNow' = [unit |-> unit', tracked |-> tracked', leaving |-> leaving', stray |-> stray', fault |-> fault']
  BY DEF AurasNow
<1> QED
  BY <1>1, <1>2, BodiesParts

LEMMA SetToSafe ==
  ASSUME NEW w, Safe(w), AurasSetTo(w)
  PROVE  AurasInv'
<1>1. AurasNow' = w
  BY SetTo DEF Safe
<1>2. Safe(AurasNow')
  BY <1>1
<1> QED
  BY <1>2 DEF AurasInv, Safe, AurasHold, AurasFit, AllMortal, AllFit, Remembered, Apart, Found

(* What an action starts from *)
LEMMA NowHolds ==
  ASSUME AurasInv, fault = "none"
  PROVE  /\ AurasHold(AurasNow) /\ AurasNow \in Bodies /\ AurasNow.unit = unit /\ AurasNow.leaving = leaving
         /\ \A u \in Bearer : unit[u] \in UnitRecord /\ \A i \in DOMAIN unit[u].auras : unit[u].auras[i] \in Aura
<1>1. AurasNow.fault = fault /\ AurasNow.unit = unit /\ AurasNow.leaving = leaving
  BY DEF AurasNow
<1>2. AurasHold(AurasNow) /\ AurasNow \in Bodies
  BY <1>1 DEF AurasInv, Safe
<1>3. \A u \in Bearer : unit[u] \in UnitRecord
  BY <1>1, <1>2, BodiesParts
<1> QED
  BY <1>1, <1>2, <1>3, UnitParts

LEMMA ApplyAuraHolds ==
  ASSUME AurasInv, fault = "none", NEW u \in Bearer, NEW s \in AuraSpell, NEW c \in Bearer, NEW kills \in BOOLEAN,
         ApplyAura(u, s, c, kills)
  PROVE  AurasInv'
<1>1. AurasHold(AurasNow) /\ AurasNow.unit = unit
  BY NowHolds
<1>2. /\ unit[u].alive \/ "DeathPersistent" \in Entry[s].is
      /\ \A f \in AuraSpell : Entry[f].passive # s
      /\ AurasSetTo(Added(AurasNow, u, s, c, kills))
  BY DEF ApplyAura
<1>3. Safe(Added(AurasNow, u, s, c, kills))
  <2> DEFINE w == AurasNow
  <2>1. AurasHold(w) /\ (w.unit[u].alive \/ "DeathPersistent" \in Entry[s].is)
    BY <1>1, <1>2
  <2> HIDE DEF w
  <2>2. Safe(Added(w, u, s, c, kills))
    BY <1>2, <2>1, AddedHolds
  <2> QED
    BY <2>2 DEF w
<1> QED
  BY <1>2, <1>3, SetToSafe

(* Whatever auras a handler ends *)
LEMMA EndsHold ==
  ASSUME AurasInv, fault = "none", NEW u \in Bearer, NEW S \in SUBSET DOMAIN unit[u].auras,
         AurasSetTo(Removed(AurasNow, u, S))
  PROVE  AurasInv'
<1> DEFINE w == AurasNow
<1>1. AurasHold(w) /\ w.unit = unit
  BY NowHolds
<1> HIDE DEF w
<1>2. AurasHold(Removed(w, u, S))
  BY <1>1, RemovedHold
<1> QED
  BY <1>2, HoldIsSafe, SetToSafe DEF w

LEMMA AuraEndsHolds ==
  ASSUME AurasInv, fault = "none", NEW u \in Bearer, NEW i, AuraEnds(u, i)
  PROVE  AurasInv'
<1>1. {i} \in SUBSET DOMAIN unit[u].auras /\ AurasSetTo(Removed(AurasNow, u, {i}))
  BY DEF AuraEnds
<1> QED
  BY <1>1, EndsHold

LEMMA SpellEndsHolds ==
  ASSUME AurasInv, fault = "none", NEW u \in Bearer, NEW s \in AuraSpell, SpellEnds(u, s)
  PROVE  AurasInv'
<1>1. RemovedBySpell(AurasNow, u, s) = Removed(AurasNow, u, OfSpell(unit[u], s))
  BY DEF RemovedBySpell, Those, OfSpell, AurasNow
<1>2. OfSpell(unit[u], s) \in SUBSET DOMAIN unit[u].auras
  BY DEF OfSpell
<1> QED
  BY <1>1, <1>2, EndsHold DEF SpellEnds

LEMMA DispelMechanicHolds ==
  ASSUME AurasInv, fault = "none", NEW u \in Bearer, NEW m \in Mechanic, DispelMechanic(u, m)
  PROVE  AurasInv'
<1>1. RemovedByMechanic(AurasNow, u, m) = Removed(AurasNow, u, OfMechanic(AurasNow.unit[u], m))
  BY ByMechanicIs
<1>2. OfMechanic(AurasNow.unit[u], m) \in SUBSET DOMAIN unit[u].auras
  BY DEF OfMechanic, AurasNow
<1> QED
  BY <1>1, <1>2, EndsHold DEF DispelMechanic

LEMMA TakenDamageHolds ==
  ASSUME AurasInv, fault = "none", NEW u \in Bearer, TakenDamage(u)
  PROVE  AurasInv'
<1>1. PICK S \in SUBSET Those(AurasNow, u, LAMBDA a : a.breaks = "listens") : AurasSetTo(Removed(AurasNow, u, S))
  BY DEF TakenDamage
<1>2. S \in SUBSET DOMAIN unit[u].auras
  BY DEF Those, AurasNow
<1> QED
  BY <1>1, <1>2, EndsHold

(* An aura without one of its charges *)
Spent(a) == [a EXCEPT !.charges = @ - 1]

LEMMA RemoveProcChargesHolds ==
  ASSUME AurasInv, fault = "none", NEW u \in Bearer, NEW i, RemoveProcCharges(u, i)
  PROVE  AurasInv'
<1> DEFINE w == AurasNow
           a == unit[u].auras[i]
           b == Spent(a)
           x == WithUnit(w, u, Touched(w.unit[u], i, b))
<1>1. AurasHold(w) /\ w.unit = unit
  BY NowHolds
<1>2. i \in DOMAIN unit[u].auras /\ a.charges > 0 /\ AurasSetTo(IF a.charges = 1 THEN Removed(x, u, {i}) ELSE x)
  BY DEF RemoveProcCharges, AurasNow, WithUnit, Touched, Spent
<1>3. a \in Aura
  BY <1>2, NowHolds
<1> HIDE DEF w
<1>4. b \in Aura /\ Alike(a, b)
  <2> HIDE DEF a
  <2>1. a.charges - 1 \in Nat
    BY <1>2, <1>3, AuraParts
  <2> QED
    BY <1>3, <2>1 DEF Spent, Aura, Alike
<1> HIDE DEF b
<1>5. AurasHold(x) /\ DOMAIN x.unit[u].auras = DOMAIN unit[u].auras
  BY <1>1, <1>2, <1>4, TouchedHolds
<1> HIDE DEF x
<1>6. AurasHold(Removed(x, u, {i}))
  BY <1>2, <1>5, RemovedHold
<1> QED
  BY <1>2, <1>5, <1>6, HoldIsSafe, SetToSafe

(* An aura that now listens to damage *)
Listening(a) == [a EXCEPT !.breaks = "listens"]

LEMMA ConnectsHolds ==
  ASSUME AurasInv, fault = "none", NEW u \in Bearer, NEW i, Connects(u, i)
  PROVE  AurasInv'
<1> DEFINE w == AurasNow
           a == unit[u].auras[i]
           b == Listening(a)
           x == WithUnit(w, u, Touched(w.unit[u], i, b))
<1>1. AurasHold(w) /\ w.unit = unit
  BY NowHolds
<1>2. i \in DOMAIN unit[u].auras /\ AurasSetTo(x)
  BY DEF Connects, AurasNow, WithUnit, Touched, Listening
<1>3. a \in Aura
  BY <1>2, NowHolds
<1> HIDE DEF w
<1>4. b \in Aura /\ Alike(a, b)
  <2> HIDE DEF a
  <2> QED
    BY <1>3 DEF Listening, Aura, Alike
<1> HIDE DEF b
<1>5. AurasHold(x)
  BY <1>1, <1>2, <1>4, TouchedHolds
<1> HIDE DEF x
<1> QED
  BY <1>2, <1>5, HoldIsSafe, SetToSafe

LEMMA BearerDiesHolds ==
  ASSUME AurasInv, fault = "none", NEW u \in Bearer, BearerDies(u)
  PROVE  AurasInv'
<1> DEFINE w == AurasNow
<1>1. AurasHold(w)
  BY NowHolds
<1>2. AurasSetTo(Killed(w, u))
  BY DEF BearerDies
<1> HIDE DEF w
<1>3. AurasHold(Killed(w, u))
  BY <1>1, KilledHolds DEF AurasHold, AllMortal
<1> QED
  BY <1>2, <1>3, HoldIsSafe, SetToSafe

Revived(r) == [r EXCEPT !.alive = TRUE]

LEMMA BearerRevivesHolds ==
  ASSUME AurasInv, fault = "none", NEW u \in Bearer, BearerRevives(u)
  PROVE  AurasInv'
<1> DEFINE w == AurasNow
           r == w.unit[u]
           q == Revived(r)
<1>1. AurasHold(w) /\ w \in Bodies
  BY NowHolds
<1>2. AurasSetTo(WithUnit(w, u, q))
  BY DEF BearerRevives, WithUnit, Revived
<1> HIDE DEF w
<1>3. r \in UnitRecord
  BY <1>1, BodiesParts
<1> HIDE DEF r
<1>4. /\ q \in UnitRecord /\ q.auras = r.auras /\ q.field = r.field /\ q.form = r.form /\ q.stunned = r.stunned
      /\ q.rooted = r.rooted /\ q.alive = TRUE
  BY <1>3 DEF Revived, UnitRecord
<1> HIDE DEF q
<1>5. \A due : Fit(r, due) => Fit(q, due)
  BY <1>4 DEF Fit, Placed, Displayed, Controlled, Shaped, Leaves
<1>6. \A c, m : Bears(q, c, m) <=> Bears(r, c, m)
  BY <1>4 DEF Bears
<1>7. (NoRivals(r) => NoRivals(q)) /\ Mortal(q)
  BY <1>4 DEF NoRivals, Mortal
<1>8. AurasHold(WithUnit(w, u, q))
  BY <1>1, <1>4, <1>5, <1>6, <1>7, SameAuras DEF r
<1> QED
  BY <1>2, <1>8, HoldIsSafe, SetToSafe

LEMMA PassiveLeavesHolds ==
  ASSUME AurasInv, fault = "none", NEW u \in Bearer, NEW s \in AuraSpell, PassiveLeaves(u, s)
  PROVE  AurasInv'
<1> DEFINE w == AurasNow
           S == OfSpell(w.unit[u], s)
<1>1. AurasHold(w) /\ w.leaving = leaving /\ w \in Bodies
  BY NowHolds
<1>2. leaving[u][s] > 0 /\ AurasSetTo(RemovedBySpell(Sooner(w, u, s), u, s))
  BY DEF PassiveLeaves, Sooner
<1> HIDE DEF w
<1>3. Sooner(w, u, s).unit = w.unit
  BY <1>1, <1>2, SoonerIs
<1>4. RemovedBySpell(Sooner(w, u, s), u, s) = Removed(Sooner(w, u, s), u, S)
  BY <1>3 DEF RemovedBySpell, Those, OfSpell
<1>5. AurasHold(Removed(Sooner(w, u, s), u, S))
  BY <1>1, <1>2, LeftHolds
<1> QED
  BY <1>2, <1>4, <1>5, HoldIsSafe, SetToSafe

LEMMA StrayConnectsHolds ==
  ASSUME AurasInv, fault = "none", StrayConnects
  PROVE  AurasInv'
<1> DEFINE w == AurasNow
           x == [w EXCEPT !.fault = "dangling"]
<1>1. w \in Bodies
  BY NowHolds
<1>2. AurasSetTo(x)
  BY DEF StrayConnects
<1> HIDE DEF w
<1>3. x \in Bodies /\ x.fault # "none"
  BY <1>1 DEF Bodies
<1> QED
  BY <1>2, <1>3, SetToSafe DEF Safe

(* The specification starts with units without auras. *)
LEMMA AurasInitHolds ==
  ASSUME AurasInit
  PROVE  AurasInv
<1> DEFINE r == [auras |-> <<>>, field |-> [i \in Slot |-> NoAura], stunned |-> FALSE,
                 rooted |-> FALSE, form |-> NoAura, alive |-> TRUE]
           w == AurasNow
<1>1. w = [unit |-> [u \in Bearer |-> r], tracked |-> [c \in Bearer |-> [m \in Mechanic |-> Nobody]],
           leaving |-> [u \in Bearer |-> [s \in AuraSpell |-> 0]], stray |-> FALSE, fault |-> "none"]
  BY DEF AurasInit, AurasNow
<1>2. r.auras \in Seq(Aura) /\ DOMAIN r.auras = {}
  OBVIOUS
<1>3. /\ r.field = [i \in Slot |-> NoAura] /\ r.stunned = FALSE /\ r.rooted = FALSE /\ r.form = NoAura /\ r.alive = TRUE
      /\ r \in UnitRecord
  BY <1>2 DEF UnitRecord
<1> HIDE DEF r, w
<1>4. w \in Bodies
  BY <1>1, <1>3 DEF Bodies
<1>5. \A due : Fit(r, due)
  BY <1>2, <1>3 DEF Fit, Placed, Displayed, Controlled, Shaped, Leaves, Has
<1>6. NoRivals(r) /\ Mortal(r) /\ \A c, m : ~Bears(r, c, m)
  BY <1>2 DEF NoRivals, Mortal, Bears
<1>7. \A u \in Bearer : w.unit[u] = r
  BY <1>1
<1>8. \A c \in Bearer, m \in Mechanic : w.tracked[c][m] \notin Bearer
  BY <1>1, AurasAssumption
<1>9. AllFit(w) /\ AllMortal(w) /\ Remembered(w) /\ Apart(w)
  BY <1>5, <1>6, <1>7, <1>8 DEF AllFit, AllMortal, Remembered, Apart, Found
<1> QED
  BY <1>4, <1>9 DEF AurasInv, Safe, AurasHold, AurasFit, w

(* Every step keeps it. *)
LEMMA AurasNextHolds ==
  ASSUME AurasInv, AurasNext
  PROVE  AurasInv'
<1>1. fault = "none"
  BY DEF AurasNext, AurasStep
<1>2. CASE \E u \in Bearer, c \in Bearer, s \in AuraSpell, kills \in BOOLEAN : ApplyAura(u, s, c, kills)
  BY <1>1, <1>2, ApplyAuraHolds
<1>3. CASE \E u \in Bearer, i \in 1 .. MaxAuras : AuraEnds(u, i) \/ RemoveProcCharges(u, i) \/ Connects(u, i)
  BY <1>1, <1>3, AuraEndsHolds, RemoveProcChargesHolds, ConnectsHolds
<1>4. CASE \E u \in Bearer, s \in AuraSpell : SpellEnds(u, s)
  BY <1>1, <1>4, SpellEndsHolds
<1>5. CASE \E u \in Bearer, s \in AuraSpell : PassiveLeaves(u, s)
  BY <1>1, <1>5, PassiveLeavesHolds
<1>6. CASE \E u \in Bearer, m \in Mechanic : DispelMechanic(u, m)
  BY <1>1, <1>6, DispelMechanicHolds
<1>7. CASE \E u \in Bearer : TakenDamage(u) \/ BearerDies(u) \/ BearerRevives(u)
  BY <1>1, <1>7, TakenDamageHolds, BearerDiesHolds, BearerRevivesHolds
<1>8. CASE StrayConnects
  BY <1>1, <1>8, StrayConnectsHolds
<1> QED
  BY <1>2, <1>3, <1>4, <1>5, <1>6, <1>7, <1>8 DEF AurasNext, AurasStep

-----------------------------------------------------------------------------
(* What it says of units. *)

LEMMA FieldsFollow ==
  ASSUME AurasInv, fault = "none"
  PROVE  FieldsShowAuras
<1> SUFFICES ASSUME NEW u \in Bearer, NEW n \in Slot
             PROVE  LET holders == Those(AurasNow, u, LAMBDA a : a.slot = n)
                    IN  IF unit[u].field[n] = NoAura THEN holders = {}
                        ELSE Cardinality(holders) = 1 /\ \A i \in holders : unit[u].auras[i].spell = unit[u].field[n]
  BY DEF FieldsShowAuras
<1> DEFINE r == unit[u]
           H == {i \in DOMAIN r.auras : r.auras[i].slot = n}
<1>1. Those(AurasNow, u, LAMBDA a : a.slot = n) = H
  BY DEF Those, AurasNow
<1>2. Placed(r) /\ Displayed(r) /\ \A i \in DOMAIN r.auras : r.auras[i].spell \in AuraSpell
  BY NowHolds, AuraParts DEF AurasHold, AurasFit, AllFit, Fit
<1>3. n # NoSlot /\ NoAura \notin AuraSpell
  BY AurasAssumption DEF NoSlot, Slot
<1> HIDE DEF r
<1>4. \A i \in H : r.auras[i].spell = r.field[n] /\ r.field[n] # NoAura
  BY <1>2, <1>3 DEF Displayed
<1>5. ASSUME r.field[n] # NoAura PROVE Cardinality(H) = 1
  <2>1. PICK i \in H : TRUE
    BY <1>5, <1>2 DEF Displayed
  <2>2. \A j \in H : j = i
    BY <1>2, <1>3 DEF Placed
  <2>3. H = {i}
    BY <2>1, <2>2
  <2> QED
    BY <2>3, FS_Singleton
<1> HIDE DEF H
<1>6. IF r.field[n] = NoAura THEN H = {} ELSE Cardinality(H) = 1 /\ \A i \in H : r.auras[i].spell = r.field[n]
  BY <1>4, <1>5
<1> QED
  BY <1>1, <1>6 DEF r

LEMMA StatesFollow ==
  ASSUME AurasInv, fault = "none"
  PROVE  StatesFollowAuras
<1> SUFFICES ASSUME NEW u \in Bearer
             PROVE  LET shapes == Those(AurasNow, u, LAMBDA a : Is(a, "ShapeShift"))
                    IN  /\ unit[u].stunned <=> Has(unit[u].auras, "Stun")
                        /\ unit[u].rooted <=> Has(unit[u].auras, "Root")
                        /\ {unit[u].auras[i].spell : i \in shapes} = {unit[u].form} \ {NoAura}
                        /\ Cardinality(shapes) <= 1
  BY DEF StatesFollowAuras
<1> DEFINE r == unit[u]
           H == ShapesOf(r)
<1>1. Those(AurasNow, u, LAMBDA a : Is(a, "ShapeShift")) = H
  BY DEF Those, AurasNow, ShapesOf
<1>2. Controlled(r) /\ Shaped(r) /\ \A i \in DOMAIN r.auras : r.auras[i].spell \in AuraSpell
  BY NowHolds, AuraParts DEF AurasHold, AurasFit, AllFit, Fit
<1>3. NoAura \notin AuraSpell
  BY AurasAssumption
<1> HIDE DEF r
<1>4. \A i \in H : r.auras[i].spell = r.form /\ r.form # NoAura
  BY <1>2, <1>3 DEF Shaped, ShapesOf
<1>5. r.form # NoAura => H # {}
  BY <1>2 DEF Shaped, ShapesOf, Has
<1>6. \A i, j \in H : i = j
  BY <1>2 DEF Shaped, ShapesOf
<1> HIDE DEF H
<1>7. {r.auras[i].spell : i \in H} = {r.form} \ {NoAura}
  BY <1>4, <1>5
<1>8. Cardinality(H) <= 1
  <2>1. CASE H = {}
    BY <2>1, FS_EmptySet
  <2>2. CASE H # {}
    <3>1. PICK i \in H : TRUE
      BY <2>2
    <3>2. H = {i}
      BY <1>6, <3>1
    <3>3. Cardinality(H) = 1
      BY <3>2, FS_Singleton
    <3> QED
      BY <3>3
  <2> QED
    BY <2>1, <2>2
<1> QED
  BY <1>1, <1>2, <1>7, <1>8 DEF r, Controlled

LEMMA PassivesFollow ==
  ASSUME AurasInv, fault = "none"
  PROVE  PassivesEnd
<1> SUFFICES ASSUME NEW u \in Bearer, NEW f \in AuraSpell, Entry[f].passive # NoAura,
                    Those(AurasNow, u, LAMBDA a : a.spell = Entry[f].passive) # {}
             PROVE  leaving[u][Entry[f].passive] > 0
                      \/ (unit[u].form # NoAura /\ Entry[unit[u].form].passive = Entry[f].passive)
  BY DEF PassivesEnd
<1>1. PICK i \in DOMAIN unit[u].auras : unit[u].auras[i].spell = Entry[f].passive
  BY DEF Those, AurasNow
<1>2. Leaves(unit[u], leaving[u])
  BY NowHolds DEF AurasHold, AurasFit, AllFit, Fit
<1> QED
  BY <1>1, <1>2 DEF Leaves

LEMMA DeathFollows ==
  ASSUME AurasInv, fault = "none"
  PROVE  DeathEndsAuras
<1>1. \A u \in Bearer : Mortal(unit[u])
  BY NowHolds DEF AurasHold, AllMortal
<1> QED
  BY <1>1 DEF Mortal, Lasts, Is, DeathEndsAuras

LEMMA CastersFollow ==
  ASSUME AurasInv, fault = "none", SpellsApart
  PROVE  OneOfACaster /\ OneTarget
<1>1. AurasHold(AurasNow) /\ AurasNow.unit = unit /\ AurasNow.tracked = tracked
  BY NowHolds DEF AurasNow
<1>2. (\A u \in Bearer : NoRivals(unit[u])) /\ Found(AurasNow) /\ Remembered(AurasNow)
  BY <1>1 DEF AurasHold, AurasFit, Apart
<1>3. OneOfACaster
  BY <1>2 DEF NoRivals, Rivals, OneOfACaster
<1>4. ASSUME NEW u \in Bearer, NEW c \in Bearer, NEW m \in Mechanic
      PROVE  tracked[c][m] = u <=> Those(AurasNow, u, LAMBDA a : Single(a, c, m)) # {}
  <2>1. Those(AurasNow, u, LAMBDA a : Single(a, c, m)) # {} <=> Bears(unit[u], c, m)
    BY <1>1 DEF Those, Bears
  <2>2. tracked[c][m] = u <=> Bears(unit[u], c, m)
    BY <1>1, <1>2 DEF Found, Remembered
  <2> QED
    BY <2>1, <2>2
<1>5. OneTarget
  BY <1>4 DEF OneTarget
<1> QED
  BY <1>3, <1>5

(* Auras of a unit and what follows from them stay together, whatever is put on, ends, breaks or is posted,
   for any spells (AuraContainer, AuraSpellSlot). *)
THEOREM AurasSound == AurasSpec => []AurasInv
<1>1. AurasInit => AurasInv
  BY AurasInitHolds
<1>2. AurasInv /\ [AurasNext]_auraVars => AurasInv'
  <2> SUFFICES ASSUME AurasInv, [AurasNext]_auraVars PROVE AurasInv'
    OBVIOUS
  <2>1. CASE AurasNext
    BY <2>1, AurasNextHolds
  <2>2. CASE UNCHANGED auraVars
    <3>1. AurasNow' = AurasNow
      BY <2>2 DEF auraVars, AurasNow
    <3> QED
      BY <3>1 DEF AurasInv, Safe, AurasHold, AurasFit, AllMortal, AllFit, Remembered, Apart, Found
  <2> QED
    BY <2>1, <2>2
<1> QED
  BY <1>1, <1>2, PTL DEF AurasSpec

(* The variables have their types. *)
THEOREM AurasTypeCorrect == AurasSpec => []AurasTypeOK
<1>1. AurasInv => AurasTypeOK
  <2> SUFFICES ASSUME AurasInv PROVE AurasTypeOK
    OBVIOUS
  <2>1. AurasNow \in Bodies
    BY DEF AurasInv, Safe
  <2> QED
    BY <2>1 DEF Bodies, AurasNow, AurasTypeOK
<1> QED
  BY <1>1, AurasSound, PTL

(* Whatever the spells are: fields show the auras that have them, a unit is stunned, rooted or shifted just as
   long as an aura says so, the passive spell of a shape goes with it and death leaves what is persistent. *)
THEOREM UnitsFollowAuras ==
  AurasSpec => [](fault = "none" => FieldsShowAuras /\ StatesFollowAuras /\ PassivesEnd /\ DeathEndsAuras)
<1>1. AurasInv => (fault = "none" => FieldsShowAuras /\ StatesFollowAuras /\ PassivesEnd /\ DeathEndsAuras)
  BY FieldsFollow, StatesFollow, PassivesFollow, DeathFollows
<1> QED
  BY <1>1, AurasSound, PTL

(* When spells of one family are alike, also: one caster's auras of a family do not pile up, and a single-target
   spell is on the unit that its caster remembers and on no other (shouldOverwriteAura, m_trackAuras). *)
THEOREM CastersKeepOneAura ==
  ASSUME SpellsApart
  PROVE  AurasSpec => []AurasAgree
<1>1. AurasInv => AurasAgree
  BY FieldsFollow, StatesFollow, PassivesFollow, DeathFollows, CastersFollow DEF AurasAgree
<1> QED
  BY <1>1, AurasSound, PTL

-----------------------------------------------------------------------------
(* Casts. *)

USE CastingAssumption

Casts == UNION {[S -> Cast] : S \in SUBSET Id}
World == [cast : Casts, me : Caster, foe : [Foe -> {"alive", "dead", "gone"}]]

\* The casts c and the unit m fit: what a cast is by itself, and what each
\* of the five fields promises.
Fine(r) ==
  /\ r.flying \/ r.landed => r.paid /\ r.told = "ok" /\ r.finished
  /\ r.hears => r.told = "nothing" /\ r.finished /\ r.spell \in NextSwing
  /\ r.running => r.spell \in Timed \union Channeled
  /\ r.running /\ r.spell \in Timed => ~r.finished
AbleUnit(m) == m.alive /\ "Stunned" \notin m.held
Refs(c, m) ==
  /\ (m.state # 0 => m.state \in DOMAIN c) /\ (m.queued # 0 => m.queued \in DOMAIN c)
  /\ m.channel \in Channeled \union {NoSpell}
Shows(c, m) ==
  m.channel # NoSpell => m.state # 0 /\ c[m.state].spell = m.channel /\ c[m.state].running /\ AbleUnit(m)
Ends(c, m) ==
  m.state # 0 /\ ~c[m.state].finished =>
    /\ AbleUnit(m)
    /\ \/ c[m.state].running /\ c[m.state].spell \in Timed
       \/ c[m.state].spell \in Unlocks /\ c[m.state].told = "failed"
Waiting(m) == m.alive /\ m.held = {} /\ m.victim # NoFoe /\ ~m.swing
Resumes(c, m) ==
  m.paused = "yes" =>
    /\ Waiting(m) /\ m.state # 0 /\ c[m.state].resumes /\ c[m.state].running
    /\ c[m.state].finished => m.channel # NoSpell
Waits(c, m) ==
  m.queued # 0 =>
    /\ AbleUnit(m) /\ c[m.queued].finished /\ c[m.queued].told \in {"nothing", "dead"}
    /\ c[m.queued].told = "nothing" => c[m.queued].hears
    /\ c[m.queued].spell \in NextSwing
Swings(m) == m.swing => m.victim # NoFoe /\ m.held = {}

AllFine(c) == \A i \in DOMAIN c : Fine(c[i])
WellMade(w) == w \in World /\ AllFine(w.cast) /\ Refs(w.cast, w.me)
Fits(c, m) == Shows(c, m) /\ Ends(c, m) /\ Resumes(c, m) /\ Waits(c, m) /\ Swings(m)
Good(w) == WellMade(w) /\ Fits(w.cast, w.me)

\* A handler makes no new cast and starts none: r comes of w.
Comes(w, r) ==
  /\ DOMAIN r.cast = DOMAIN w.cast /\ \A i \in DOMAIN w.cast : r.cast[i].spell = w.cast[i].spell
  /\ r.me.state \in {0, w.me.state} /\ r.me.queued \in {0, w.me.queued}

CastingInv == Good(CastingNow)

-----------------------------------------------------------------------------
(* Worlds: the casts, the unit, the foes. *)

\* A number of casts, and what is known of them
LEMMA CastsOf == ASSUME NEW x \in Casts PROVE DOMAIN x \subseteq Id /\ x \in [DOMAIN x -> Cast]
<1>1. PICK S \in SUBSET Id : x \in [S -> Cast]
  BY DEF Casts
<1> QED
  BY <1>1

LEMMA IsCasts == ASSUME NEW S \in SUBSET Id, NEW x \in [S -> Cast] PROVE x \in Casts
  BY DEF Casts

LEMMA WorldParts ==
  ASSUME NEW w \in World
  PROVE  /\ w.cast \in Casts /\ w.me \in Caster /\ w.foe \in [Foe -> {"alive", "dead", "gone"}]
         /\ DOMAIN w.cast \subseteq Id /\ w.cast \in [DOMAIN w.cast -> Cast] /\ 0 \notin DOMAIN w.cast
  BY CastsOf DEF World, Id

LEMMA MeChanged ==
  ASSUME NEW w \in World, NEW m \in Caster
  PROVE  /\ [w EXCEPT !.me = m] \in World
         /\ [w EXCEPT !.me = m].me = m
         /\ [w EXCEPT !.me = m].cast = w.cast
         /\ [w EXCEPT !.me = m].foe = w.foe
  BY DEF World

LEMMA CastChanged ==
  ASSUME NEW w \in World, NEW i \in DOMAIN w.cast, NEW x \in Cast
  PROVE  /\ [w EXCEPT !.cast[i] = x] \in World
         /\ [w EXCEPT !.cast[i] = x].me = w.me
         /\ [w EXCEPT !.cast[i] = x].foe = w.foe
         /\ DOMAIN [w EXCEPT !.cast[i] = x].cast = DOMAIN w.cast
         /\ [w EXCEPT !.cast[i] = x].cast[i] = x
         /\ \A k \in DOMAIN w.cast \ {i} : [w EXCEPT !.cast[i] = x].cast[k] = w.cast[k]
<1>1. w.cast \in Casts
  BY DEF World
<1>2. DOMAIN w.cast \subseteq Id /\ w.cast \in [DOMAIN w.cast -> Cast]
  BY <1>1, CastsOf
<1>3. [w.cast EXCEPT ![i] = x] \in Casts
  BY <1>2, IsCasts
<1> QED
  BY <1>2, <1>3 DEF World

\* The attack goes on, if somebody is attacked.
Resumed(m) ==
  IF m.victim # NoFoe /\ ~m.swing /\ m.held = {} THEN [m EXCEPT !.swing = TRUE, !.paused = "no"] ELSE m

\* Of the unit it changes the swing and the pause only.
LEMMA ResumedParts ==
  ASSUME NEW m \in Caster
  PROVE  /\ Resumed(m) \in Caster
         /\ Resumed(m).state = m.state /\ Resumed(m).queued = m.queued /\ Resumed(m).victim = m.victim
         /\ Resumed(m).channel = m.channel /\ Resumed(m).alive = m.alive /\ Resumed(m).held = m.held
         /\ Resumed(m).paused \in {"no", m.paused}
         /\ Resumed(m).swing \/ (~m.swing /\ Resumed(m).paused = m.paused)
         /\ ~m.swing /\ Resumed(m).swing => m.victim # NoFoe /\ m.held = {} /\ Resumed(m).paused = "no"
         /\ Waiting(m) => Resumed(m).paused = "no"
  BY DEF Resumed, Waiting, Caster

-----------------------------------------------------------------------------
(* What each handler leaves, field by field. *)

LEMMA TriggerSwingIs ==
  ASSUME NEW w \in World
  PROVE  /\ TriggerSwing(w) \in World /\ TriggerSwing(w).cast = w.cast
         /\ TriggerSwing(w).me = IF w.me.held # {} THEN w.me ELSE [w.me EXCEPT !.swing = TRUE, !.paused = "no"]
         /\ TriggerSwing(w).foe = w.foe
<1>1. w.me \in Caster /\ [w.me EXCEPT !.swing = TRUE, !.paused = "no"] \in Caster
  BY WorldParts DEF Caster
<1>2. [w EXCEPT !.me.swing = TRUE, !.me.paused = "no"] =
      [w EXCEPT !.me = [w.me EXCEPT !.swing = TRUE, !.paused = "no"]]
  BY DEF World
<1> QED
  BY <1>1, <1>2, MeChanged DEF TriggerSwing

LEMMA EndedIs ==
  ASSUME NEW w \in World, NEW i \in DOMAIN w.cast
  PROVE  /\ Ended(w, i) \in World /\ Ended(w, i).cast = w.cast
         /\ Ended(w, i).me = IF w.cast[i].resumes THEN Resumed(w.me) ELSE w.me
         /\ Ended(w, i).foe = w.foe
  BY TriggerSwingIs, WorldParts DEF Ended, OnSpellCastEnded, Resumed

LEMMA SendEndCastIs ==
  ASSUME NEW w \in World, NEW i \in DOMAIN w.cast, NEW told \in {"ok", "failed"}
  PROVE  /\ SendEndCast(w, i, told) \in World
         /\ SendEndCast(w, i, told).cast = [w.cast EXCEPT ![i] = [w.cast[i] EXCEPT !.told = told]]
         /\ SendEndCast(w, i, told).me = IF w.cast[i].resumes THEN Resumed(w.me) ELSE w.me
         /\ SendEndCast(w, i, told).foe = w.foe
<1> DEFINE e == Ended(w, i)
<1>1. /\ e \in World /\ e.cast = w.cast /\ e.foe = w.foe
      /\ e.me = IF w.cast[i].resumes THEN Resumed(w.me) ELSE w.me
  BY EndedIs
<1>2. w.cast[i] \in Cast
  BY WorldParts
<1>3. [w.cast[i] EXCEPT !.told = told] \in Cast
  BY <1>2 DEF Cast
<1>4. SendEndCast(w, i, told) = [e EXCEPT !.cast[i] = [e.cast[i] EXCEPT !.told = told]]
  BY DEF SendEndCast
<1> HIDE DEF e
<1>5. [e EXCEPT !.cast[i] = [e.cast[i] EXCEPT !.told = told]].cast = [e.cast EXCEPT ![i] = [e.cast[i] EXCEPT !.told = told]]
  BY <1>1 DEF World
<1> QED
  BY <1>1, <1>2, <1>3, <1>4, <1>5, CastChanged

LEMMA StopAttackIs ==
  ASSUME NEW w \in World
  PROVE  /\ StopAttack(w) \in World /\ StopAttack(w).cast = w.cast
         /\ StopAttack(w).me = [w.me EXCEPT !.swing = FALSE, !.queued = 0, !.paused = "no"]
         /\ StopAttack(w).foe = w.foe
<1>1. w.me \in Caster /\ [w.me EXCEPT !.swing = FALSE, !.queued = 0, !.paused = "no"] \in Caster
  BY WorldParts DEF Caster
<1>2. StopAttack(w) = [w EXCEPT !.me = [w.me EXCEPT !.swing = FALSE, !.queued = 0, !.paused = "no"]]
  BY DEF StopAttack, World
<1> QED
  BY <1>1, <1>2, MeChanged

LEMMA SetVictimIs ==
  ASSUME NEW w \in World, NEW f \in Foe \union {NoFoe}
  PROVE  /\ SetVictim(w, f) \in World /\ SetVictim(w, f).cast = w.cast
         /\ SetVictim(w, f).me =
              IF f = NoFoe /\ w.me.victim # NoFoe
              THEN [w.me EXCEPT !.victim = f, !.swing = FALSE, !.queued = 0, !.paused = "no"]
              ELSE [w.me EXCEPT !.victim = f]
         /\ SetVictim(w, f).foe = w.foe
<1> DEFINE x == IF f = NoFoe /\ w.me.victim # NoFoe THEN StopAttack(w) ELSE w
<1>1. /\ x \in World /\ x.cast = w.cast /\ x.foe = w.foe
      /\ x.me = IF f = NoFoe /\ w.me.victim # NoFoe
                THEN [w.me EXCEPT !.swing = FALSE, !.queued = 0, !.paused = "no"] ELSE w.me
  BY StopAttackIs
<1>2. SetVictim(w, f) = [x EXCEPT !.me = [x.me EXCEPT !.victim = f]]
  BY DEF SetVictim
<1> HIDE DEF x
<1>3. x.me \in Caster /\ w.me \in Caster
  BY <1>1, WorldParts
<1>4. [x.me EXCEPT !.victim = f] \in Caster
  BY <1>3 DEF Caster
<1>5. [x.me EXCEPT !.victim = f] = 
              IF f = NoFoe /\ w.me.victim # NoFoe
              THEN [w.me EXCEPT !.victim = f, !.swing = FALSE, !.queued = 0, !.paused = "no"]
              ELSE [w.me EXCEPT !.victim = f]
  BY <1>1, <1>3 DEF Caster
<1> QED
  BY <1>1, <1>2, <1>4, <1>5, MeChanged

LEMMA AutoAttackErrorIs ==
  ASSUME NEW w \in World, NEW told \in {"failed", "dead"}
  PROVE  /\ AutoAttackError(w, told) \in World /\ AutoAttackError(w, told).me = w.me
         /\ AutoAttackError(w, told).foe = w.foe
         /\ AutoAttackError(w, told).cast =
              [i \in DOMAIN w.cast |-> IF w.cast[i].hears THEN [w.cast[i] EXCEPT !.hears = FALSE, !.told = told]
                                       ELSE w.cast[i]]
<1> DEFINE c == [i \in DOMAIN w.cast |-> IF w.cast[i].hears THEN [w.cast[i] EXCEPT !.hears = FALSE, !.told = told]
                                         ELSE w.cast[i]]
<1>1. DOMAIN w.cast \in SUBSET Id /\ \A i \in DOMAIN w.cast : w.cast[i] \in Cast
  BY WorldParts
<1>2. c \in [DOMAIN w.cast -> Cast]
  BY <1>1 DEF Cast
<1>3. c \in Casts
  BY <1>1, <1>2, IsCasts
<1>4. AutoAttackError(w, told) = [w EXCEPT !.cast = c]
  BY DEF AutoAttackError
<1> HIDE DEF c
<1>5. [w EXCEPT !.cast = c] \in World /\ [w EXCEPT !.cast = c].cast = c
      /\ [w EXCEPT !.cast = c].me = w.me /\ [w EXCEPT !.cast = c].foe = w.foe
  BY <1>3 DEF World
<1> QED
  BY <1>4, <1>5 DEF c

LEMMA AutoAttackSucceedsIs ==
  ASSUME NEW w \in World
  PROVE  /\ AutoAttackSucceeds(w) \in World /\ AutoAttackSucceeds(w).me = w.me
         /\ AutoAttackSucceeds(w).foe = w.foe
         /\ AutoAttackSucceeds(w).cast = [i \in DOMAIN w.cast |-> [w.cast[i] EXCEPT !.hears = FALSE]]
<1> DEFINE c == [i \in DOMAIN w.cast |-> [w.cast[i] EXCEPT !.hears = FALSE]]
<1>1. DOMAIN w.cast \in SUBSET Id /\ \A i \in DOMAIN w.cast : w.cast[i] \in Cast
  BY WorldParts
<1>2. c \in [DOMAIN w.cast -> Cast]
  BY <1>1 DEF Cast
<1>3. c \in Casts
  BY <1>1, <1>2, IsCasts
<1>4. AutoAttackSucceeds(w) = [w EXCEPT !.cast = c]
  BY DEF AutoAttackSucceeds
<1> HIDE DEF c
<1>5. [w EXCEPT !.cast = c] \in World /\ [w EXCEPT !.cast = c].cast = c
      /\ [w EXCEPT !.cast = c].me = w.me /\ [w EXCEPT !.cast = c].foe = w.foe
  BY <1>3 DEF World
<1> QED
  BY <1>4, <1>5 DEF c

LEMMA FinishChannelingIs ==
  ASSUME NEW w \in World, w.me.state # 0 => w.me.state \in DOMAIN w.cast
  PROVE  /\ FinishChanneling(w) \in World /\ FinishChanneling(w).cast = w.cast /\ FinishChanneling(w).foe = w.foe
         /\ FinishChanneling(w).me =
              IF w.me.state = 0 \/ w.cast[w.me.state].spell \notin Channeled THEN w.me
              ELSE IF w.cast[w.me.state].resumes THEN Resumed([w.me EXCEPT !.channel = NoSpell])
              ELSE [w.me EXCEPT !.channel = NoSpell]
<1>1. CASE w.me.state = 0 \/ w.cast[w.me.state].spell \notin Channeled
  BY <1>1 DEF FinishChanneling
<1>2. CASE ~(w.me.state = 0 \/ w.cast[w.me.state].spell \notin Channeled)
  <2> DEFINE m == [w.me EXCEPT !.channel = NoSpell]
             x == [w EXCEPT !.me = m]
  <2>1. m \in Caster
    BY WorldParts DEF Caster
  <2>2. x = [w EXCEPT !.me.channel = NoSpell]
    OBVIOUS
  <2> HIDE DEF m
  <2>3. x \in World /\ x.me = m /\ x.cast = w.cast /\ x.foe = w.foe
    BY <2>1, MeChanged
  <2>4. FinishChanneling(w) = Ended(x, w.me.state)
    BY <1>2, <2>2 DEF FinishChanneling
  <2> HIDE DEF x
  <2> QED
    BY <1>2, <2>3, <2>4, EndedIs DEF m
<1> QED
  BY <1>1, <1>2

-----------------------------------------------------------------------------
(* Each handler keeps what the casts and the unit promise. *)

LEMMA SameCasts ==
  ASSUME NEW w, WellMade(w), NEW r \in World, r.cast = w.cast,
         r.me.state \in {0, w.me.state}, r.me.queued \in {0, w.me.queued}, r.me.channel \in {NoSpell, w.me.channel}
  PROVE  WellMade(r) /\ Comes(w, r)
  BY DEF WellMade, Refs, Comes, AllFine

LEMMA GoodParts ==
  ASSUME NEW w, Good(w)
  PROVE  /\ w \in World /\ WellMade(w) /\ Fits(w.cast, w.me) /\ w.me \in Caster
         /\ w.me.state # 0 => w.me.state \in DOMAIN w.cast /\ w.cast[w.me.state] \in Cast /\ Fine(w.cast[w.me.state])
         /\ w.me.queued # 0 => w.me.queued \in DOMAIN w.cast /\ w.cast[w.me.queued] \in Cast /\ Fine(w.cast[w.me.queued])
<1>1. w \in World
  BY DEF Good, WellMade
<1> QED
  BY <1>1, WorldParts DEF Good, WellMade, Refs, AllFine

LEMMA ComesTrans ==
  ASSUME NEW w, NEW x, NEW r, Comes(w, x), Comes(x, r)
  PROVE  Comes(w, r)
  BY DEF Comes

LEMMA ComesSelf == ASSUME NEW w PROVE Comes(w, w)
  BY DEF Comes

LEMMA ResumedFits ==
  ASSUME NEW c, NEW m \in Caster, Fits(c, m)
  PROVE  Fits(c, Resumed(m))
  BY ResumedParts DEF Fits, Shows, Ends, Resumes, Waits, Swings, Waiting, AbleUnit

LEMMA TriggerSwingKeeps ==
  ASSUME NEW w, Good(w), w.me.victim # NoFoe
  PROVE  Good(TriggerSwing(w)) /\ Comes(w, TriggerSwing(w))
<1> DEFINE r == TriggerSwing(w)
<1>1. w \in World /\ WellMade(w) /\ w.me \in Caster /\ Fits(w.cast, w.me)
  BY GoodParts
<1>2. /\ r \in World /\ r.cast = w.cast
      /\ r.me = IF w.me.held # {} THEN w.me ELSE [w.me EXCEPT !.swing = TRUE, !.paused = "no"]
  BY <1>1, TriggerSwingIs
<1> HIDE DEF r
<1>3. r.me.state = w.me.state /\ r.me.queued = w.me.queued /\ r.me.channel = w.me.channel
  BY <1>1, <1>2 DEF Caster
<1>4. Fits(r.cast, r.me)
  BY <1>1, <1>2 DEF Fits, Shows, Ends, Resumes, Waits, Swings, Waiting, AbleUnit, Caster
<1>5. Good(r) /\ Comes(w, r)
  BY <1>1, <1>2, <1>3, <1>4, SameCasts DEF Good
<1> QED
  BY <1>3, <1>5 DEF r

LEMMA EndedKeeps ==
  ASSUME NEW w, Good(w), NEW i \in DOMAIN w.cast
  PROVE  Good(Ended(w, i)) /\ Comes(w, Ended(w, i))
<1> DEFINE r == Ended(w, i)
<1>1. w \in World /\ WellMade(w) /\ w.me \in Caster /\ Fits(w.cast, w.me)
  BY GoodParts
<1>2. /\ r \in World /\ r.cast = w.cast
      /\ r.me \in {w.me, Resumed(w.me)}
  BY <1>1, EndedIs
<1> HIDE DEF r
<1>3. r.me.state = w.me.state /\ r.me.queued = w.me.queued /\ r.me.channel = w.me.channel
  BY <1>1, <1>2, ResumedParts
<1>4. Fits(r.cast, r.me)
  BY <1>1, <1>2, ResumedFits
<1>5. Good(r) /\ Comes(w, r)
  BY <1>1, <1>2, <1>3, <1>4, SameCasts DEF Good
<1> QED
  BY <1>3, <1>5 DEF r

LEMMA StopAttackKeeps ==
  ASSUME NEW w, WellMade(w), Shows(w.cast, w.me), Ends(w.cast, w.me)
  PROVE  Good(StopAttack(w)) /\ Comes(w, StopAttack(w))
<1> DEFINE r == StopAttack(w)
<1>1. w \in World /\ w.me \in Caster
  BY WorldParts DEF WellMade
<1>2. r \in World /\ r.cast = w.cast /\ r.me = [w.me EXCEPT !.swing = FALSE, !.queued = 0, !.paused = "no"]
  BY <1>1, StopAttackIs
<1> HIDE DEF r
<1>3. r.me.state = w.me.state /\ r.me.queued = 0 /\ r.me.channel = w.me.channel /\ r.me.alive = w.me.alive
      /\ r.me.held = w.me.held /\ r.me.paused = "no" /\ r.me.swing = FALSE /\ r.me.victim = w.me.victim
  BY <1>1, <1>2 DEF Caster
<1>4. Fits(r.cast, r.me)
  BY <1>1, <1>2, <1>3 DEF Fits, Shows, Ends, Resumes, Waits, Swings, AbleUnit
<1>5. Good(r) /\ Comes(w, r)
  BY <1>1, <1>2, <1>3, <1>4, SameCasts DEF Good
<1> QED
  BY <1>3, <1>5 DEF r

LEMMA SetVictimKeeps ==
  ASSUME NEW w, Good(w), NEW f \in Foe \union {NoFoe}
  PROVE  /\ Good(SetVictim(w, f)) /\ Comes(w, SetVictim(w, f))
         /\ SetVictim(w, f).me.victim = f
<1> DEFINE r == SetVictim(w, f)
<1>1. w \in World /\ WellMade(w) /\ w.me \in Caster /\ Fits(w.cast, w.me)
  BY GoodParts
<1>2. /\ r \in World /\ r.cast = w.cast
      /\ r.me = IF f = NoFoe /\ w.me.victim # NoFoe
                THEN [w.me EXCEPT !.victim = f, !.swing = FALSE, !.queued = 0, !.paused = "no"]
                ELSE [w.me EXCEPT !.victim = f]
  BY <1>1, SetVictimIs
<1> HIDE DEF r
<1>3. r.me.state = w.me.state /\ r.me.queued \in {0, w.me.queued} /\ r.me.channel = w.me.channel /\ r.me.victim = f
  BY <1>1, <1>2 DEF Caster
<1>4. Fits(r.cast, r.me)
  BY <1>1, <1>2 DEF Fits, Shows, Ends, Resumes, Waits, Swings, Waiting, AbleUnit, Caster
<1>5. Good(r) /\ Comes(w, r)
  BY <1>1, <1>2, <1>3, <1>4, SameCasts DEF Good
<1> QED
  BY <1>3, <1>5 DEF r

\* Only a strike hears of an error, and it waits with or without an answer.
LEMMA AutoAttackErrorKeeps ==
  ASSUME NEW w, Good(w), NEW told \in {"failed", "dead"}, told = "failed" => w.me.queued = 0
  PROVE  Good(AutoAttackError(w, told)) /\ Comes(w, AutoAttackError(w, told))
<1> DEFINE r == AutoAttackError(w, told)
<1>1. w \in World /\ WellMade(w) /\ w.me \in Caster /\ Fits(w.cast, w.me) /\ AllFine(w.cast) /\ Refs(w.cast, w.me)
  BY GoodParts DEF WellMade
<1>2. /\ r \in World /\ r.me = w.me
      /\ r.cast = [i \in DOMAIN w.cast |-> IF w.cast[i].hears THEN [w.cast[i] EXCEPT !.hears = FALSE, !.told = told]
                                           ELSE w.cast[i]]
  BY <1>1, AutoAttackErrorIs
<1> HIDE DEF r
<1>3. ASSUME NEW i \in DOMAIN w.cast
      PROVE  /\ r.cast[i].spell = w.cast[i].spell /\ r.cast[i].finished = w.cast[i].finished
             /\ r.cast[i].running = w.cast[i].running /\ r.cast[i].resumes = w.cast[i].resumes
             /\ ~w.cast[i].finished => r.cast[i] = w.cast[i]
             /\ w.cast[i].hears => r.cast[i].told = told
             /\ ~w.cast[i].hears => r.cast[i] = w.cast[i]
             /\ Fine(r.cast[i])
  <2>1. w.cast[i] \in Cast /\ Fine(w.cast[i])
    BY <1>1, WorldParts DEF AllFine
  <2>2. r.cast[i] = IF w.cast[i].hears THEN [w.cast[i] EXCEPT !.hears = FALSE, !.told = told] ELSE w.cast[i]
    BY <1>2
  <2>3. CASE ~w.cast[i].hears
    BY <2>1, <2>2, <2>3
  <2>4. CASE w.cast[i].hears
    <3> DEFINE x == r.cast[i]
    <3>1. /\ x.spell = w.cast[i].spell /\ x.finished = w.cast[i].finished /\ x.running = w.cast[i].running
          /\ x.resumes = w.cast[i].resumes /\ x.flying = w.cast[i].flying /\ x.landed = w.cast[i].landed
          /\ x.hears = FALSE /\ x.told = told
      BY <2>1, <2>2, <2>4 DEF Cast
    <3>2. w.cast[i].finished /\ ~w.cast[i].flying /\ ~w.cast[i].landed
      BY <2>1, <2>4 DEF Fine
    <3> HIDE DEF x
    <3>3. Fine(x)
      BY <2>1, <3>1, <3>2 DEF Fine
    <3> QED
      BY <2>4, <3>1, <3>2, <3>3 DEF x
  <2> QED
    BY <2>3, <2>4
<1>4. WellMade(r) /\ Comes(w, r)
  BY <1>1, <1>2, <1>3 DEF WellMade, AllFine, Refs, Comes
<1>5. Fits(r.cast, r.me)
  <2>0. r.me = w.me /\ w.me.state \in DOMAIN w.cast \union {0} /\ w.me.queued \in DOMAIN w.cast \union {0}
    BY <1>1, <1>2 DEF Refs
  <2>1. Shows(r.cast, r.me) /\ Ends(r.cast, r.me) /\ Resumes(r.cast, r.me) /\ Swings(r.me)
    BY <1>1, <2>0, <1>3 DEF Fits, Shows, Ends, Resumes, Swings
  <2>2. Waits(r.cast, r.me)
    <3> SUFFICES ASSUME w.me.queued # 0
                 PROVE  Waits(r.cast, r.me)
      BY <2>0 DEF Waits
    <3> DEFINE q == w.me.queued
    <3>1. q \in DOMAIN w.cast /\ told = "dead" /\ Waits(w.cast, w.me)
      BY <1>1 DEF Refs, Fits
    <3> QED
      BY <3>1, <2>0, <1>3 DEF Waits
  <2> QED
    BY <2>1, <2>2 DEF Fits
<1>6. Good(r) /\ Comes(w, r)
  BY <1>4, <1>5 DEF Good
<1> QED
  BY <1>6 DEF r

LEMMA AutoAttackSucceedsKeeps ==
  ASSUME NEW w, Good(w), w.me.queued = 0
  PROVE  Good(AutoAttackSucceeds(w)) /\ Comes(w, AutoAttackSucceeds(w)) /\ AutoAttackSucceeds(w).me = w.me
<1> DEFINE r == AutoAttackSucceeds(w)
<1>1. w \in World /\ WellMade(w) /\ w.me \in Caster /\ Fits(w.cast, w.me) /\ AllFine(w.cast) /\ Refs(w.cast, w.me)
  BY GoodParts DEF WellMade
<1>2. r \in World /\ r.me = w.me /\ r.cast = [i \in DOMAIN w.cast |-> [w.cast[i] EXCEPT !.hears = FALSE]]
  BY <1>1, AutoAttackSucceedsIs
<1> HIDE DEF r
<1>3. ASSUME NEW i \in DOMAIN w.cast
      PROVE  /\ r.cast[i].spell = w.cast[i].spell /\ r.cast[i].finished = w.cast[i].finished
             /\ r.cast[i].running = w.cast[i].running /\ r.cast[i].resumes = w.cast[i].resumes
             /\ r.cast[i].told = w.cast[i].told
             /\ Fine(r.cast[i])
  <2>1. w.cast[i] \in Cast /\ Fine(w.cast[i])
    BY <1>1, WorldParts DEF AllFine
  <2> QED
    BY <2>1, <1>2 DEF Fine, Cast
<1>4. WellMade(r) /\ Comes(w, r)
  BY <1>1, <1>2, <1>3 DEF WellMade, AllFine, Refs, Comes
<1>5. Fits(r.cast, r.me)
  BY <1>1, <1>2, <1>3 DEF Fits, Shows, Ends, Resumes, Waits, Swings, Refs
<1>6. Good(r) /\ Comes(w, r)
  BY <1>4, <1>5 DEF Good
<1> QED
  BY <1>2, <1>6 DEF r

LEMMA StartAttackKeeps ==
  ASSUME NEW w, Good(w)
  PROVE  Good(StartAttack(w)) /\ Comes(w, StartAttack(w))
<1>1. Good(w) /\ Comes(w, w)
  BY ComesSelf
<1>2. "dead" = "failed" => w.me.queued = 0
  OBVIOUS
<1>3. Good(AutoAttackError(w, "dead")) /\ Comes(w, AutoAttackError(w, "dead"))
  BY <1>2, AutoAttackErrorKeeps
<1> QED
  BY <1>1, <1>3, TriggerSwingKeeps DEF StartAttack

\* What is left when a channel has ended
LEMMA FinishChannelingKeeps ==
  ASSUME NEW w, Good(w)
  PROVE  /\ Good(FinishChanneling(w)) /\ Comes(w, FinishChanneling(w))
         /\ FinishChanneling(w).me.channel = NoSpell /\ FinishChanneling(w).cast = w.cast
         /\ FinishChanneling(w).me.state = w.me.state /\ FinishChanneling(w).me.queued = w.me.queued
         /\ FinishChanneling(w).me.alive = w.me.alive /\ FinishChanneling(w).me.held = w.me.held
         /\ FinishChanneling(w).foe = w.foe
<1> DEFINE r == FinishChanneling(w)
           m == [w.me EXCEPT !.channel = NoSpell]
<1>1. w \in World /\ WellMade(w) /\ w.me \in Caster /\ Fits(w.cast, w.me) /\ Refs(w.cast, w.me)
  BY GoodParts DEF WellMade
<1>2. w.me.state # 0 => w.me.state \in DOMAIN w.cast
  BY <1>1 DEF Refs
<1>3. /\ r \in World /\ r.cast = w.cast /\ r.foe = w.foe
      /\ r.me = IF w.me.state = 0 \/ w.cast[w.me.state].spell \notin Channeled THEN w.me
                ELSE IF w.cast[w.me.state].resumes THEN Resumed(m) ELSE m
  BY <1>1, <1>2, FinishChannelingIs
<1>4. /\ m \in Caster /\ m.state = w.me.state /\ m.queued = w.me.queued /\ m.channel = NoSpell /\ m.alive = w.me.alive
      /\ m.held = w.me.held /\ m.swing = w.me.swing /\ m.victim = w.me.victim /\ m.paused = w.me.paused
  BY <1>1 DEF Caster
<1> HIDE DEF r, m
<1>5. /\ r.me.channel = NoSpell /\ r.me.state = w.me.state /\ r.me.queued = w.me.queued /\ r.me.alive = w.me.alive
      /\ r.me.held = w.me.held
  BY <1>1, <1>3, <1>4, ResumedParts DEF Fits, Shows, Refs
<1>6. Fits(r.cast, r.me)
  <2>1. CASE w.me.state = 0 \/ w.cast[w.me.state].spell \notin Channeled
    BY <2>1, <1>1, <1>3
  <2>2. CASE ~(w.me.state = 0 \/ w.cast[w.me.state].spell \notin Channeled)
    <3>1. r.me.paused # "yes" /\ Swings(r.me)
      BY <2>2, <1>1, <1>3, <1>4, ResumedParts DEF Fits, Resumes, Swings, Waiting
    <3>2. Shows(r.cast, r.me) /\ Resumes(r.cast, r.me)
      BY <1>5, <3>1 DEF Shows, Resumes
    <3>3. Ends(r.cast, r.me) /\ Waits(r.cast, r.me)
      BY <1>1, <1>3, <1>5 DEF Fits, Ends, Waits, AbleUnit
    <3> QED
      BY <3>1, <3>2, <3>3 DEF Fits
  <2> QED
    BY <2>1, <2>2
<1>7. WellMade(r) /\ Comes(w, r)
  BY <1>1, <1>3, <1>5, SameCasts
<1>8. Good(r) /\ Comes(w, r)
  BY <1>6, <1>7 DEF Good
<1> QED
  BY <1>3, <1>5, <1>8 DEF r

\* A cast that is reported, lands or hears no more of the swing
LEMMA CastMarked ==
  ASSUME NEW w, Good(w), NEW i \in DOMAIN w.cast, NEW x \in Cast, Fine(x),
         x.spell = w.cast[i].spell, x.finished = w.cast[i].finished, x.running = w.cast[i].running,
         x.resumes = w.cast[i].resumes,
         x.told = w.cast[i].told \/ (w.cast[i].finished /\ i # w.me.queued),
         x.hears = w.cast[i].hears \/ i # w.me.queued
  PROVE  /\ Good([w EXCEPT !.cast[i] = x]) /\ Comes(w, [w EXCEPT !.cast[i] = x])
         /\ [w EXCEPT !.cast[i] = x].me = w.me /\ [w EXCEPT !.cast[i] = x].foe = w.foe
         /\ [w EXCEPT !.cast[i] = x].cast[i] = x
<1> DEFINE r == [w EXCEPT !.cast[i] = x]
<1>1. w \in World /\ WellMade(w) /\ w.me \in Caster /\ Fits(w.cast, w.me) /\ AllFine(w.cast) /\ Refs(w.cast, w.me)
  BY GoodParts DEF WellMade
<1>2. /\ r \in World /\ r.me = w.me /\ r.foe = w.foe /\ DOMAIN r.cast = DOMAIN w.cast /\ r.cast[i] = x
      /\ \A k \in DOMAIN w.cast \ {i} : r.cast[k] = w.cast[k]
  BY <1>1, CastChanged
<1> HIDE DEF r
<1>3. WellMade(r) /\ Comes(w, r)
  BY <1>1, <1>2 DEF WellMade, AllFine, Refs, Comes
<1>4. w.me.state \in DOMAIN w.cast \union {0} /\ w.me.queued \in DOMAIN w.cast \union {0}
  BY <1>1 DEF Refs
<1>5. Fits(r.cast, r.me)
  BY <1>1, <1>2, <1>4 DEF Fits, Shows, Ends, Resumes, Waits, Swings
<1>6. Good(r) /\ Comes(w, r)
  BY <1>3, <1>5 DEF Good
<1> QED
  BY <1>2, <1>6 DEF r

\* The end of a cast that has finished, and does not wait for the swing
LEMMA SendEndCastKeeps ==
  ASSUME NEW w, Good(w), NEW i \in DOMAIN w.cast, i # w.me.queued, w.cast[i].finished,
         ~w.cast[i].hears, ~w.cast[i].flying, ~w.cast[i].landed, NEW told \in {"ok", "failed"}
  PROVE  /\ Good(SendEndCast(w, i, told)) /\ Comes(w, SendEndCast(w, i, told))
         /\ SendEndCast(w, i, told).cast[i].told = told
         /\ SendEndCast(w, i, told).cast[i].finished /\ ~SendEndCast(w, i, told).cast[i].hears
         /\ SendEndCast(w, i, told).foe = w.foe
<1> DEFINE e == Ended(w, i)
           x == [w.cast[i] EXCEPT !.told = told]
<1>1. w \in World /\ AllFine(w.cast)
  BY GoodParts DEF WellMade
<1>2. w.cast[i] \in Cast /\ Fine(w.cast[i])
  BY <1>1, WorldParts DEF AllFine
<1>3. Good(e) /\ Comes(w, e) /\ e.cast = w.cast /\ e.foe = w.foe
  BY <1>1, EndedKeeps, EndedIs
<1>4. /\ x \in Cast /\ Fine(x) /\ x.spell = w.cast[i].spell /\ x.finished = w.cast[i].finished
      /\ x.running = w.cast[i].running /\ x.resumes = w.cast[i].resumes /\ x.hears = w.cast[i].hears
      /\ x.told = told
  BY <1>2 DEF Fine, Cast
<1>5. SendEndCast(w, i, told) = [e EXCEPT !.cast[i] = [e.cast[i] EXCEPT !.told = told]]
  BY DEF SendEndCast
<1>6. [e.cast[i] EXCEPT !.told = told] = x /\ i \in DOMAIN e.cast
  BY <1>3
<1> HIDE DEF e, x
<1>7. i # e.me.queued
  <2>1. i # 0
    BY <1>1, WorldParts
  <2> QED
    BY <2>1, <1>3 DEF Comes
<1>8. SendEndCast(w, i, told) = [e EXCEPT !.cast[i] = x]
  BY <1>5, <1>6
<1>9. /\ i \in DOMAIN e.cast /\ x.spell = e.cast[i].spell /\ x.finished = e.cast[i].finished
       /\ x.running = e.cast[i].running /\ x.resumes = e.cast[i].resumes /\ x.hears = e.cast[i].hears
       /\ e.cast[i].finished
  BY <1>3, <1>4
<1>10. /\ Good([e EXCEPT !.cast[i] = x]) /\ Comes(e, [e EXCEPT !.cast[i] = x])
      /\ [e EXCEPT !.cast[i] = x].foe = e.foe /\ [e EXCEPT !.cast[i] = x].cast[i] = x
  BY <1>3, <1>4, <1>7, <1>9, CastMarked
<1>11. x.told = told /\ x.finished /\ ~x.hears
  BY <1>4
<1> QED
  BY <1>3, <1>8, <1>10, <1>11, ComesTrans

\* StopCast of a cast that is not finished, its channel being over
CutOff(x, i) == [SendEndCast([x EXCEPT !.cast[i].running = FALSE], i, "failed") EXCEPT !.me.state = 0]

\* It leaves no current cast; the others are as they were.
LEMMA CutOffIs ==
  ASSUME NEW x, WellMade(x), NEW i \in DOMAIN x.cast, ~x.cast[i].finished
  PROVE  /\ WellMade(CutOff(x, i)) /\ Comes(x, CutOff(x, i))
         /\ CutOff(x, i).me = [(IF x.cast[i].resumes THEN Resumed(x.me) ELSE x.me) EXCEPT !.state = 0]
         /\ \A n \in DOMAIN x.cast \ {i} : CutOff(x, i).cast[n] = x.cast[n]
<1> DEFINE y == [x EXCEPT !.cast[i].running = FALSE]
           z == SendEndCast(y, i, "failed")
           r == [z EXCEPT !.me.state = 0]
<1>1. /\ x \in World /\ x.me \in Caster /\ AllFine(x.cast) /\ Refs(x.cast, x.me) /\ x.cast[i] \in Cast /\ Fine(x.cast[i])
  BY WorldParts DEF WellMade, AllFine
<1> DEFINE k == [x.cast[i] EXCEPT !.running = FALSE]
<1>2. k \in Cast /\ k.spell = x.cast[i].spell /\ k.resumes = x.cast[i].resumes
  BY <1>1 DEF Cast
<1>3. y = [x EXCEPT !.cast[i] = k]
  OBVIOUS
<1> HIDE DEF y
<1>4. /\ y \in World /\ y.me = x.me /\ y.foe = x.foe /\ DOMAIN y.cast = DOMAIN x.cast /\ y.cast[i] = k
      /\ \A n \in DOMAIN x.cast \ {i} : y.cast[n] = x.cast[n]
  <2> HIDE DEF k
  <2> QED
    BY <1>1, <1>2, <1>3, CastChanged
<1> DEFINE t == [y.cast[i] EXCEPT !.told = "failed"]
<1>5. /\ z \in World /\ z.cast = [y.cast EXCEPT ![i] = t]
      /\ z.me = IF k.resumes THEN Resumed(x.me) ELSE x.me
  <2>1. i \in DOMAIN y.cast /\ "failed" \in {"ok", "failed"}
    BY <1>1, <1>4
  <2> HIDE DEF k
  <2>2. /\ z \in World /\ z.cast = [y.cast EXCEPT ![i] = t]
        /\ z.me = IF y.cast[i].resumes THEN Resumed(y.me) ELSE y.me
    BY <2>1, <1>4, SendEndCastIs
  <2> QED
    BY <2>2, <1>4
<1> HIDE DEF z
<1>6. t.spell = x.cast[i].spell /\ Fine(t)
  <2>1. t = [x.cast[i] EXCEPT !.running = FALSE, !.told = "failed"]
    BY <1>4
  <2> HIDE DEF t, k
  <2> QED
    BY <2>1, <1>1 DEF Fine, Cast
<1>7. DOMAIN z.cast = DOMAIN x.cast /\ z.cast[i] = t /\ \A n \in DOMAIN x.cast \ {i} : z.cast[n] = x.cast[n]
  BY <1>4, <1>5
<1>8. z.me = IF x.cast[i].resumes THEN Resumed(x.me) ELSE x.me
  BY <1>2, <1>5
<1> HIDE DEF t, k
<1>9. z.me \in Caster /\ z.me.queued = x.me.queued /\ z.me.channel = x.me.channel
  BY <1>1, <1>8, ResumedParts
<1> DEFINE m == [z.me EXCEPT !.state = 0]
<1>10. m \in Caster /\ m.queued = x.me.queued /\ m.channel = x.me.channel /\ m.state = 0
  BY <1>9 DEF Caster
<1>11. r = [z EXCEPT !.me = m]
  OBVIOUS
<1> HIDE DEF m, r
<1>12. r \in World /\ r.me = m /\ r.cast = z.cast
  BY <1>5, <1>10, <1>11, MeChanged
<1>13. WellMade(r) /\ Comes(x, r)
  BY <1>1, <1>6, <1>7, <1>10, <1>12 DEF AllFine, Refs, Comes, WellMade
<1>14. CutOff(x, i) = r
  BY DEF CutOff, r, z, y
<1> QED
  BY <1>7, <1>8, <1>12, <1>13, <1>14 DEF m

\* A cast that can be cut off is, if the reason does not matter.
LEMMA StopCastIs ==
  ASSUME NEW w, NEW reasons
  PROVE  /\ StopCast(w, reasons) \in {FinishChanneling(w), CutOff(FinishChanneling(w), FinishChanneling(w).me.state)}
         /\ FinishChanneling(w).me.state = 0 \/ FinishChanneling(w).cast[FinishChanneling(w).me.state].finished
              => StopCast(w, reasons) = FinishChanneling(w)
         /\ ~(FinishChanneling(w).me.state = 0 \/ FinishChanneling(w).cast[FinishChanneling(w).me.state].finished)
            /\ reasons = {}
              => StopCast(w, reasons) = CutOff(FinishChanneling(w), FinishChanneling(w).me.state)
  BY DEF StopCast, CutOff

\* A cast ends without effect: nothing is left of it.
LEMMA StopCastKeeps ==
  ASSUME NEW w, Good(w), NEW reasons
  PROVE  Good(StopCast(w, reasons)) /\ Comes(w, StopCast(w, reasons))
<1> DEFINE x == FinishChanneling(w)
           i == x.me.state
           r == CutOff(x, i)
<1>1. /\ Good(x) /\ Comes(w, x) /\ x.me.channel = NoSpell
  BY FinishChannelingKeeps
<1>2. StopCast(w, reasons) \in {x, r} /\ (i = 0 \/ x.cast[i].finished => StopCast(w, reasons) = x)
  BY StopCastIs
<1> HIDE DEF x
<1>3. CASE i = 0 \/ x.cast[i].finished
  BY <1>1, <1>2, <1>3
<1>4. CASE ~(i = 0 \/ x.cast[i].finished)
  <2>1. /\ WellMade(x) /\ x.me \in Caster /\ Fits(x.cast, x.me) /\ Refs(x.cast, x.me) /\ i \in DOMAIN x.cast
    BY <1>1, <1>4, GoodParts DEF WellMade
  <2>2. /\ WellMade(r) /\ Comes(x, r)
        /\ r.me = [(IF x.cast[i].resumes THEN Resumed(x.me) ELSE x.me) EXCEPT !.state = 0]
        /\ \A n \in DOMAIN x.cast \ {i} : r.cast[n] = x.cast[n]
    BY <1>4, <2>1, CutOffIs
  <2> HIDE DEF r
  <2> DEFINE u == IF x.cast[i].resumes THEN Resumed(x.me) ELSE x.me
  <2>3. /\ u \in Caster /\ u.queued = x.me.queued /\ u.channel = NoSpell /\ u.alive = x.me.alive
        /\ u.held = x.me.held /\ u.paused # "yes" /\ Swings(u)
    BY <1>1, <1>4, <2>1, ResumedParts DEF Fits, Resumes, Swings
  <2>4. r.me = [u EXCEPT !.state = 0]
    BY <2>2
  <2> HIDE DEF u
  <2>5. /\ r.me.queued = x.me.queued /\ r.me.channel = NoSpell /\ r.me.alive = x.me.alive /\ r.me.state = 0
        /\ r.me.held = x.me.held /\ r.me.paused # "yes" /\ Swings(r.me)
    BY <2>3, <2>4 DEF Caster, Swings
  <2>6. i # x.me.queued
    BY <1>4, <2>1 DEF Fits, Waits
  <2>7. Waits(r.cast, r.me)
    BY <2>1, <2>2, <2>5, <2>6 DEF Waits, Fits, Refs, AbleUnit
  <2>8. Shows(r.cast, r.me) /\ Ends(r.cast, r.me) /\ Resumes(r.cast, r.me)
    BY <2>5 DEF Shows, Ends, Resumes
  <2>9. Good(r)
    BY <2>2, <2>5, <2>7, <2>8 DEF Good, Fits
  <2> QED
    BY <1>1, <1>2, <2>2, <2>9, ComesTrans
<1> QED
  BY <1>3, <1>4

\* The casts of a unit that can cast no more
LEMMA StopCastSilences ==
  ASSUME NEW w, WellMade(w), w.me.channel # NoSpell => w.me.state # 0 /\ w.cast[w.me.state].spell = w.me.channel
  PROVE  /\ WellMade(StopCast(w, {})) /\ Comes(w, StopCast(w, {}))
         /\ StopCast(w, {}).me.channel = NoSpell
         /\ StopCast(w, {}).me.state = 0 \/ StopCast(w, {}).cast[StopCast(w, {}).me.state].finished
<1> DEFINE x == FinishChanneling(w)
           i == x.me.state
           r == CutOff(x, i)
           v == [w.me EXCEPT !.channel = NoSpell]
<1>1. w \in World /\ w.me \in Caster /\ Refs(w.cast, w.me)
  BY WorldParts DEF WellMade
<1>2. w.me.state # 0 => w.me.state \in DOMAIN w.cast
  BY <1>1 DEF Refs
<1>3. /\ x \in World /\ x.cast = w.cast
      /\ x.me = IF w.me.state = 0 \/ w.cast[w.me.state].spell \notin Channeled THEN w.me
                ELSE IF w.cast[w.me.state].resumes THEN Resumed(v) ELSE v
  BY <1>1, <1>2, FinishChannelingIs
<1>4. v \in Caster /\ v.state = w.me.state /\ v.queued = w.me.queued /\ v.channel = NoSpell
  BY <1>1 DEF Caster
<1>5. /\ (i = 0 \/ x.cast[i].finished) => StopCast(w, {}) = x
      /\ ~(i = 0 \/ x.cast[i].finished) => StopCast(w, {}) = r
  BY StopCastIs
<1> HIDE DEF x, v
<1>6. x.me.channel = NoSpell /\ x.me.state = w.me.state /\ x.me.queued = w.me.queued
  BY <1>1, <1>3, <1>4, ResumedParts DEF Refs
<1>7. WellMade(x) /\ Comes(w, x)
  BY <1>3, <1>6, SameCasts
<1>8. CASE i = 0 \/ x.cast[i].finished
  BY <1>5, <1>6, <1>7, <1>8
<1>9. CASE ~(i = 0 \/ x.cast[i].finished)
  <2>1. i \in DOMAIN x.cast
    BY <1>9, <1>7 DEF WellMade, Refs
  <2>2. /\ WellMade(r) /\ Comes(x, r)
        /\ r.me = [(IF x.cast[i].resumes THEN Resumed(x.me) ELSE x.me) EXCEPT !.state = 0]
    BY <1>9, <1>7, <2>1, CutOffIs
  <2>3. x.me \in Caster
    BY <1>3, WorldParts
  <2> DEFINE u == IF x.cast[i].resumes THEN Resumed(x.me) ELSE x.me
  <2>4. u \in Caster /\ u.channel = NoSpell
    BY <1>6, <2>3, ResumedParts
  <2>5. r.me = [u EXCEPT !.state = 0]
    BY <2>2
  <2> HIDE DEF u, r
  <2>6. r.me.channel = NoSpell /\ r.me.state = 0
    BY <2>4, <2>5 DEF Caster
  <2> QED
    BY <1>5, <1>7, <1>9, <2>2, <2>6, ComesTrans
<1> QED
  BY <1>8, <1>9

LEMMA CancelCastKeeps ==
  ASSUME NEW w, Good(w), NEW reasons
  PROVE  Good(CancelCast(w, reasons)) /\ Comes(w, CancelCast(w, reasons))
<1> DEFINE m == [w.me EXCEPT !.queued = 0]
           x == [w EXCEPT !.me = m]
<1>1. w \in World /\ WellMade(w) /\ w.me \in Caster /\ Fits(w.cast, w.me)
  BY GoodParts
<1>2. /\ m \in Caster /\ m.queued = 0 /\ m.state = w.me.state /\ m.channel = w.me.channel /\ m.alive = w.me.alive
      /\ m.held = w.me.held /\ m.swing = w.me.swing /\ m.victim = w.me.victim /\ m.paused = w.me.paused
  BY <1>1 DEF Caster
<1>3. CancelCast(w, reasons) = StopCast(x, reasons)
  BY DEF CancelCast
<1> HIDE DEF m
<1>4. x \in World /\ x.me = m /\ x.cast = w.cast
  BY <1>1, <1>2, MeChanged
<1> HIDE DEF x
<1>5. Fits(x.cast, x.me)
  BY <1>1, <1>2, <1>4 DEF Fits, Shows, Ends, Resumes, Waits, Swings, Waiting, AbleUnit
<1>6. WellMade(x) /\ Comes(w, x)
  BY <1>1, <1>2, <1>4, SameCasts
<1>7. Good(x)
  BY <1>5, <1>6 DEF Good
<1> QED
  BY <1>3, <1>6, <1>7, StopCastKeeps, ComesTrans

\* A unit that is stunned or dies: its casts end, and then its attack.
LEMMA Silenced ==
  ASSUME NEW w, Good(w), NEW m \in Caster,
         m.state = w.me.state, m.queued = w.me.queued, m.channel = w.me.channel
  PROVE  LET r == StopAttack(CancelCast([w EXCEPT !.me = m], {})) IN Good(r) /\ Comes(w, r)
<1> DEFINE v == [m EXCEPT !.queued = 0]
           x == [w EXCEPT !.me = v]
           y == StopCast(x, {})
           r == StopAttack(y)
<1>1. w \in World /\ WellMade(w) /\ Fits(w.cast, w.me)
  BY GoodParts
<1>2. v \in Caster /\ v.queued = 0 /\ v.state = w.me.state /\ v.channel = w.me.channel
  BY DEF Caster
<1>3. CancelCast([w EXCEPT !.me = m], {}) = StopCast([[w EXCEPT !.me = m] EXCEPT !.me.queued = 0], {})
  BY DEF CancelCast
<1>4. [[w EXCEPT !.me = m] EXCEPT !.me.queued = 0] = x
  BY <1>1 DEF World
<1> HIDE DEF v
<1>5. x \in World /\ x.me = v /\ x.cast = w.cast
  BY <1>1, <1>2, MeChanged
<1> HIDE DEF x
<1>6. WellMade(x) /\ Comes(w, x)
  BY <1>1, <1>2, <1>5, SameCasts
<1>7. x.me.channel # NoSpell => x.me.state # 0 /\ x.cast[x.me.state].spell = x.me.channel
  BY <1>1, <1>2, <1>5 DEF Fits, Shows
<1>8. WellMade(y) /\ Comes(x, y) /\ y.me.channel = NoSpell /\ (y.me.state = 0 \/ y.cast[y.me.state].finished)
  BY <1>6, <1>7, StopCastSilences
<1> HIDE DEF y
<1>9. Shows(y.cast, y.me) /\ Ends(y.cast, y.me)
  BY <1>8 DEF Shows, Ends
<1>10. Good(r) /\ Comes(y, r)
  BY <1>8, <1>9, StopAttackKeeps
<1>11. Comes(w, r)
  BY <1>6, <1>8, <1>10, ComesTrans
<1> QED
  BY <1>3, <1>4, <1>10, <1>11 DEF y

\* notifyStunChanged and the death of the unit
LEMMA StunnedNowKeeps ==
  ASSUME NEW w, Good(w)
  PROVE  Good(StunnedNow(w)) /\ Comes(w, StunnedNow(w))
<1> DEFINE m == [w.me EXCEPT !.held = @ \union {"Stunned"}]
<1>1. m \in Caster /\ m.state = w.me.state /\ m.queued = w.me.queued /\ m.channel = w.me.channel
  BY GoodParts DEF Caster
<1>2. StunnedNow(w) = StopAttack(CancelCast([w EXCEPT !.me = m], {}))
  BY DEF StunnedNow
<1> HIDE DEF m
<1> QED
  BY <1>1, <1>2, Silenced

LEMMA DeadKeeps ==
  ASSUME NEW w, Good(w)
  PROVE  Good(Dead(w)) /\ Comes(w, Dead(w))
<1> DEFINE m == [w.me EXCEPT !.alive = FALSE]
           x == StopAttack(CancelCast([w EXCEPT !.me = m], {}))
<1>1. m \in Caster /\ m.state = w.me.state /\ m.queued = w.me.queued /\ m.channel = w.me.channel
  BY GoodParts DEF Caster
<1>2. Dead(w) = SetVictim(x, NoFoe)
  BY DEF Dead
<1> HIDE DEF m
<1>3. Good(x) /\ Comes(w, x)
  BY <1>1, Silenced
<1> HIDE DEF x
<1> QED
  BY <1>2, <1>3, SetVictimKeeps, ComesTrans

LEMMA SufferedKeeps ==
  ASSUME NEW w, Good(w), NEW fate \in Fate
  PROVE  Good(Suffered(w, fate)) /\ Comes(w, Suffered(w, fate))
  BY StunnedNowKeeps, DeadKeeps, ComesSelf DEF Suffered

\* What becomes of others is all the same to the unit itself.
LEMMA FoeChanged ==
  ASSUME NEW w, Good(w), NEW f \in Foe, NEW how \in {"alive", "dead", "gone"}
  PROVE  /\ Good([w EXCEPT !.foe[f] = how]) /\ Comes(w, [w EXCEPT !.foe[f] = how])
         /\ [w EXCEPT !.foe[f] = how].cast = w.cast /\ [w EXCEPT !.foe[f] = how].me = w.me
<1> DEFINE r == [w EXCEPT !.foe[f] = how]
<1>1. w \in World /\ WellMade(w) /\ Fits(w.cast, w.me)
  BY GoodParts
<1>2. r \in World /\ r.cast = w.cast /\ r.me = w.me
  BY <1>1 DEF World
<1> HIDE DEF r
<1>3. Good(r) /\ Comes(w, r)
  BY <1>1, <1>2, SameCasts DEF Good
<1> QED
  BY <1>2, <1>3 DEF r

\* The target of the attack or of a cast is lost: both end.
LEMMA LostKeeps ==
  ASSUME NEW w, Good(w), NEW f \in Foe, NEW how \in {"dead", "gone"}
  PROVE  Good(Lost(w, f, how)) /\ Comes(w, Lost(w, f, how))
<1> DEFINE x == [w EXCEPT !.foe[f] = how]
           y == IF x.me.victim = f THEN SetVictim(x, NoFoe) ELSE x
<1>1. Good(x) /\ Comes(w, x)
  BY FoeChanged
<1>2. Lost(w, f, how) = IF /\ y.me.state # 0 /\ y.cast[y.me.state].target = f
                           /\ y.cast[y.me.state].spell \in Timed \union Channeled
                        THEN StopCast(y, {}) ELSE y
  BY DEF Lost
<1> HIDE DEF x
<1>3. Good(y) /\ Comes(x, y)
  BY <1>1, SetVictimKeeps, ComesSelf
<1> HIDE DEF y
<1>4. Good(StopCast(y, {})) /\ Comes(y, StopCast(y, {}))
  BY <1>3, StopCastKeeps
<1> QED
  BY <1>1, <1>2, <1>3, <1>4, ComesTrans

LEMMA HitKeeps ==
  ASSUME NEW w, Good(w), NEW f \in Foe, NEW kills \in BOOLEAN
  PROVE  Good(Hit(w, f, kills)) /\ Comes(w, Hit(w, f, kills))
<1>1. Good(Lost(w, f, "dead")) /\ Comes(w, Lost(w, f, "dead"))
  BY LostKeeps
<1> QED
  BY <1>1, ComesSelf DEF Hit

\* The last part of onCastFinished
LEMMA AfterEffectKeeps ==
  ASSUME NEW w, Good(w), NEW i \in DOMAIN w.cast
  PROVE  Good(AfterEffect(w, i)) /\ Comes(w, AfterEffect(w, i))
<1> DEFINE f == w.cast[i].target
           a == IF w.cast[i].spell \in StartsAttack /\ w.foe[f] # "gone" THEN StartAttack(SetVictim(w, f)) ELSE w
           b == IF w.cast[i].spell \in StopsAttack THEN StopAttack(a) ELSE a
<1>1. AfterEffect(w, i) = IF w.cast[i].spell \in Channeled THEN b ELSE Ended(b, i)
  BY DEF AfterEffect
<1>2. f \in Foe
  BY GoodParts, WorldParts DEF Cast
<1>3. Good(SetVictim(w, f)) /\ Comes(w, SetVictim(w, f))
  BY <1>2, SetVictimKeeps
<1>4. Good(a) /\ Comes(w, a)
  BY <1>3, StartAttackKeeps, ComesSelf, ComesTrans
<1> HIDE DEF a
<1>5. Good(StopAttack(a)) /\ Comes(a, StopAttack(a))
  BY <1>4, StopAttackKeeps DEF Good, Fits
<1>6. Good(b) /\ Comes(w, b)
  BY <1>4, <1>5, ComesTrans
<1> HIDE DEF b
<1>7. i \in DOMAIN b.cast
  BY <1>6 DEF Comes
<1>8. Good(Ended(b, i)) /\ Comes(b, Ended(b, i))
  BY <1>6, <1>7, EndedKeeps
<1> QED
  BY <1>1, <1>6, <1>8, ComesTrans

\* A cast of its own unit is about to finish: its timer has run out, or it
\* has none.
Mid(w, i) ==
  /\ WellMade(w) /\ i \in DOMAIN w.cast /\ i = w.me.state /\ i # w.me.queued
  /\ Swings(w.me) /\ Waits(w.cast, w.me) /\ AbleUnit(w.me)
  /\ ~w.cast[i].finished /\ ~w.cast[i].hears /\ ~w.cast[i].flying /\ ~w.cast[i].landed
  /\ w.cast[i].spell \in Timed => ~w.cast[i].running
  /\ w.cast[i].spell \in NextSwing => w.cast[i].told = "nothing"
  /\ w.me.channel # NoSpell => w.me.channel = w.cast[i].spell /\ w.cast[i].running
  /\ w.me.paused = "yes" => Waiting(w.me) /\ w.cast[i].resumes /\ w.cast[i].spell \in Timed

\* It finishes, or a chest in use has it wait.
LEMMA MidEnds ==
  ASSUME NEW w, NEW i, Mid(w, i), NEW x \in Cast, Fine(x),
         x.spell = w.cast[i].spell, x.running = w.cast[i].running,
         x.finished \/ (x.spell \in Unlocks /\ x.told = "failed"),
         NEW r \in World, r.cast = [w.cast EXCEPT ![i] = x],
         r.me.state = i, r.me.channel = w.me.channel, r.me.alive = w.me.alive, r.me.held = w.me.held,
         r.me.paused # "yes", Swings(r.me),
         r.me.queued = w.me.queued \/ (r.me.queued = i /\ x.finished /\ x.told = "nothing" /\ x.hears /\ x.spell \in NextSwing)
  PROVE  Good(r) /\ DOMAIN r.cast = DOMAIN w.cast /\ \A k \in DOMAIN w.cast : r.cast[k].spell = w.cast[k].spell
<1>1. w \in World /\ AllFine(w.cast) /\ Refs(w.cast, w.me) /\ i \in DOMAIN w.cast /\ 0 \notin DOMAIN w.cast
  BY WorldParts DEF Mid, WellMade
<1>2. /\ DOMAIN r.cast = DOMAIN w.cast /\ r.cast[i] = x
      /\ \A k \in DOMAIN w.cast \ {i} : r.cast[k] = w.cast[k]
  BY <1>1
<1>3. AllFine(r.cast) /\ Refs(r.cast, r.me)
  BY <1>1, <1>2 DEF AllFine, Refs
<1>4. Shows(r.cast, r.me) /\ Ends(r.cast, r.me) /\ Resumes(r.cast, r.me)
  BY <1>1, <1>2 DEF Mid, Shows, Ends, Resumes, AbleUnit
<1>5. Waits(r.cast, r.me)
  BY <1>1, <1>2 DEF Mid, Waits, AbleUnit, Refs
<1> QED
  BY <1>2, <1>3, <1>4, <1>5 DEF Good, WellMade, Fits

LEMMA MidParts ==
  ASSUME NEW w, NEW i, Mid(w, i)
  PROVE  /\ w \in World /\ i \in DOMAIN w.cast /\ i \in DOMAIN w.cast \ {0} /\ w.cast[i] \in Cast /\ Fine(w.cast[i])
         /\ w.me \in Caster /\ Refs(w.cast, w.me) /\ i \in Id
<1>1. w \in World /\ i \in DOMAIN w.cast
  BY DEF Mid, WellMade
<1> QED
  BY <1>1, WorldParts DEF Mid, WellMade, AllFine

\* The report of it wakes the attack that waits for it.

\* Its report wakes the attack that waits for it.
LEMMA MidSends ==
  ASSUME NEW w, NEW i, Mid(w, i), NEW y \in Cast, NEW told \in {"ok", "failed"},
         y.spell = w.cast[i].spell, y.running = w.cast[i].running, y.resumes = w.cast[i].resumes,
         y.finished \/ (y.spell \in Unlocks /\ told = "failed"),
         NEW x, x = [y EXCEPT !.told = told], Fine(x)
  PROVE  /\ Good(SendEndCast([w EXCEPT !.cast[i] = y], i, told))
         /\ DOMAIN SendEndCast([w EXCEPT !.cast[i] = y], i, told).cast = DOMAIN w.cast
         /\ \A k \in DOMAIN w.cast : SendEndCast([w EXCEPT !.cast[i] = y], i, told).cast[k].spell = w.cast[k].spell
         /\ SendEndCast([w EXCEPT !.cast[i] = y], i, told).me.state = i
         /\ SendEndCast([w EXCEPT !.cast[i] = y], i, told).cast[i] = x
         /\ SendEndCast([w EXCEPT !.cast[i] = y], i, told).foe = w.foe
<1> DEFINE v == [w EXCEPT !.cast[i] = y]
           r == SendEndCast(v, i, told)
<1>1. w \in World /\ i \in DOMAIN w.cast /\ w.me \in Caster /\ i \in Id
  BY MidParts
<1>2. v \in World /\ v.me = w.me /\ v.foe = w.foe /\ DOMAIN v.cast = DOMAIN w.cast /\ v.cast[i] = y
      /\ v.cast = [w.cast EXCEPT ![i] = y]
  <2>1. [w EXCEPT !.cast[i] = y].cast = [w.cast EXCEPT ![i] = y]
    BY <1>1 DEF World
  <2> QED
    BY <1>1, <2>1, CastChanged
<1> HIDE DEF v
<1>3. /\ r \in World /\ r.cast = [v.cast EXCEPT ![i] = [v.cast[i] EXCEPT !.told = told]] /\ r.foe = v.foe
      /\ r.me = IF v.cast[i].resumes THEN Resumed(v.me) ELSE v.me
  <2>1. v \in World /\ i \in DOMAIN v.cast /\ told \in {"ok", "failed"}
    BY <1>1, <1>2
  <2>2. /\ SendEndCast(v, i, told) \in World
        /\ SendEndCast(v, i, told).cast = [v.cast EXCEPT ![i] = [v.cast[i] EXCEPT !.told = told]]
        /\ SendEndCast(v, i, told).me = IF v.cast[i].resumes THEN Resumed(v.me) ELSE v.me
        /\ SendEndCast(v, i, told).foe = v.foe
    <3> HIDE DEF r
    <3>1. CASE told = "ok"
      BY <2>1, <3>1, SendEndCastIs
    <3>2. CASE told = "failed"
      BY <2>1, <3>2, SendEndCastIs
    <3> QED
      BY <3>1, <3>2
  <2> QED
    BY <2>2
<1>4. r.cast = [w.cast EXCEPT ![i] = x]
  BY <1>1, <1>2, <1>3
<1>5. r.me = IF w.cast[i].resumes THEN Resumed(w.me) ELSE w.me
  BY <1>2, <1>3
<1>6. /\ r.me.state = i /\ r.me.channel = w.me.channel /\ r.me.alive = w.me.alive /\ r.me.held = w.me.held
      /\ r.me.paused # "yes" /\ Swings(r.me) /\ r.me.queued = w.me.queued
  BY <1>1, <1>5, ResumedParts DEF Mid, Swings
<1>7. x \in Cast /\ x.spell = w.cast[i].spell /\ x.running = w.cast[i].running /\ x.finished = y.finished /\ x.told = told
  BY DEF Cast
<1> HIDE DEF r
<1>8. Fine(x) /\ (x.finished \/ (x.spell \in Unlocks /\ x.told = "failed"))
  BY <1>7
<1>9. Good(r) /\ DOMAIN r.cast = DOMAIN w.cast /\ \A k \in DOMAIN w.cast : r.cast[k].spell = w.cast[k].spell
  <2> DEFINE z == x
  <2>1. z \in Cast /\ z.spell = w.cast[i].spell /\ z.running = w.cast[i].running
        /\ Fine(z) /\ (z.finished \/ (z.spell \in Unlocks /\ z.told = "failed"))
    BY <1>7, <1>8
  <2>2. r \in World /\ r.cast = [w.cast EXCEPT ![i] = z]
    BY <1>3, <1>4
  <2> HIDE DEF z
  <2> QED
    BY <2>1, <2>2, <1>6, MidEnds
<1>10. r.cast[i] = x
  BY <1>1, <1>4
<1> QED
  BY <1>2, <1>3, <1>6, <1>9, <1>10 DEF r, v

\* What comes of the cast i of w
Result(w, i, r) ==
  /\ Good(r) /\ DOMAIN r.cast = DOMAIN w.cast /\ \A k \in DOMAIN w.cast : r.cast[k].spell = w.cast[k].spell
  /\ r.me.state \in {0, i}

\* What comes later comes of it, too.
LEMMA ResultComes ==
  ASSUME NEW w, NEW i, NEW x, NEW r, Result(w, i, x), Good(r), Comes(x, r)
  PROVE  Result(w, i, r)
  BY DEF Result, Comes

\* An effect that is paid for and reported is on its way, or arrives.
LEMMA Marks ==
  ASSUME NEW w, Good(w), NEW i \in DOMAIN w.cast, w.cast[i].finished, w.cast[i].paid, w.cast[i].told = "ok"
  PROVE  /\ Good([w EXCEPT !.cast[i].flying = TRUE]) /\ Comes(w, [w EXCEPT !.cast[i].flying = TRUE])
         /\ Good([w EXCEPT !.cast[i].landed = TRUE]) /\ Comes(w, [w EXCEPT !.cast[i].landed = TRUE])
<1> DEFINE x == [w.cast[i] EXCEPT !.flying = TRUE]
           y == [w.cast[i] EXCEPT !.landed = TRUE]
<1>1. w.cast[i] \in Cast /\ Fine(w.cast[i])
  BY GoodParts, WorldParts DEF WellMade, AllFine
<1>2. /\ x \in Cast /\ Fine(x) /\ x.spell = w.cast[i].spell /\ x.finished = w.cast[i].finished
      /\ x.running = w.cast[i].running /\ x.resumes = w.cast[i].resumes /\ x.told = w.cast[i].told
      /\ x.hears = w.cast[i].hears
  BY <1>1 DEF Cast, Fine
<1>3. /\ y \in Cast /\ Fine(y) /\ y.spell = w.cast[i].spell /\ y.finished = w.cast[i].finished
      /\ y.running = w.cast[i].running /\ y.resumes = w.cast[i].resumes /\ y.told = w.cast[i].told
      /\ y.hears = w.cast[i].hears
  BY <1>1 DEF Cast, Fine
<1>4. [w EXCEPT !.cast[i].flying = TRUE] = [w EXCEPT !.cast[i] = x] /\ [w EXCEPT !.cast[i].landed = TRUE] = [w EXCEPT !.cast[i] = y]
  OBVIOUS
<1> HIDE DEF x, y
<1>5. Good([w EXCEPT !.cast[i] = x]) /\ Comes(w, [w EXCEPT !.cast[i] = x])
  BY <1>2, CastMarked
<1>6. Good([w EXCEPT !.cast[i] = y]) /\ Comes(w, [w EXCEPT !.cast[i] = y])
  BY <1>3, CastMarked
<1> QED
  BY <1>4, <1>5, <1>6

\* A cast that is paid for finishes, whatever becomes of its target.
LEMMA TakeEffectKeeps ==
  ASSUME NEW w, NEW i, Mid(w, i), NEW c
  PROVE  Result(w, i, TakeEffect([w EXCEPT !.cast[i].finished = TRUE], i, c))
<1> DEFINE x == [w EXCEPT !.cast[i].finished = TRUE]
           y == [w.cast[i] EXCEPT !.finished = TRUE, !.paid = TRUE]
           z == [y EXCEPT !.told = "ok"]
           ok == SendEndCast([w EXCEPT !.cast[i] = y], i, "ok")
           f == w.cast[i].target
           r == TakeEffect(x, i, c)
<1>1. w \in World /\ i \in DOMAIN w.cast /\ w.cast[i] \in Cast /\ Fine(w.cast[i])
  BY MidParts
<1>2. y \in Cast /\ y.spell = w.cast[i].spell /\ y.running = w.cast[i].running /\ y.resumes = w.cast[i].resumes /\ y.finished
  BY <1>1 DEF Cast
<1>3. Fine(z) /\ z.finished /\ z.paid /\ z.told = "ok"
  BY <1>1 DEF Cast, Fine, Mid
<1>4. x.cast[i] = [w.cast[i] EXCEPT !.finished = TRUE] /\ x.foe = w.foe
      /\ [x EXCEPT !.cast[i].paid = TRUE] = [w EXCEPT !.cast[i] = y]
  BY <1>1 DEF World
<1>5. x.cast[i].spell = w.cast[i].spell /\ x.cast[i].target = f /\ f \in Foe
  BY <1>1, <1>4 DEF Cast
<1> HIDE DEF y, x
<1>6. Result(w, i, ok) /\ ok.cast[i] = z /\ ok.foe = w.foe /\ Good(ok) /\ i \in DOMAIN ok.cast
  <2>1. "ok" \in {"ok", "failed"} /\ z = [y EXCEPT !.told = "ok"]
    OBVIOUS
  <2> HIDE DEF z
  <2>2. /\ Good(ok) /\ DOMAIN ok.cast = DOMAIN w.cast /\ \A k \in DOMAIN w.cast : ok.cast[k].spell = w.cast[k].spell
        /\ ok.me.state = i /\ ok.cast[i] = z /\ ok.foe = w.foe
    BY <2>1, <1>2, <1>3, MidSends
  <2> QED
    BY <2>2, <1>1 DEF Result
<1>7. \/ r = ok
      \/ r = [ok EXCEPT !.cast[i].flying = TRUE]
      \/ r = Hit([ok EXCEPT !.cast[i].landed = TRUE], f, c = "kills")
  BY <1>4, <1>5 DEF TakeEffect
<1> HIDE DEF ok, z, r
<1>8. ok.cast[i].finished /\ ok.cast[i].paid /\ ok.cast[i].told = "ok"
  BY <1>3, <1>6
<1>9. /\ Good([ok EXCEPT !.cast[i].flying = TRUE]) /\ Comes(ok, [ok EXCEPT !.cast[i].flying = TRUE])
      /\ Good([ok EXCEPT !.cast[i].landed = TRUE]) /\ Comes(ok, [ok EXCEPT !.cast[i].landed = TRUE])
  BY <1>6, <1>8, Marks
<1> DEFINE h == [ok EXCEPT !.cast[i].landed = TRUE]
<1> HIDE DEF h
<1>10. Good(h) /\ Comes(ok, h)
  BY <1>9 DEF h
<1>11. (c = "kills") \in BOOLEAN
  OBVIOUS
<1>12. Good(Hit(h, f, c = "kills")) /\ Comes(h, Hit(h, f, c = "kills"))
  BY <1>5, <1>10, <1>11, HitKeeps
<1>13. Result(w, i, Hit(h, f, c = "kills"))
  BY <1>6, <1>10, <1>12, ComesTrans, ResultComes
<1>14. Result(w, i, [ok EXCEPT !.cast[i].flying = TRUE])
  BY <1>6, <1>9, ResultComes
<1>15. r = ok \/ r = [ok EXCEPT !.cast[i].flying = TRUE] \/ r = Hit(h, f, c = "kills")
  BY <1>7 DEF h
<1>16. Result(w, i, r)
  BY <1>6, <1>13, <1>14, <1>15
<1> QED
  BY <1>16 DEF r, x

\* A strike waits for the swing.
LEMMA StrikeQueued ==
  ASSUME NEW w, NEW i, Mid(w, i), w.cast[i].spell \in NextSwing
  PROVE  LET r == [w EXCEPT !.cast[i].finished = TRUE, !.cast[i].hears = TRUE, !.me.queued = i]
         IN  Result(w, i, r)
<1> DEFINE r == [w EXCEPT !.cast[i].finished = TRUE, !.cast[i].hears = TRUE, !.me.queued = i]
           y == [w.cast[i] EXCEPT !.finished = TRUE, !.hears = TRUE]
           m == [w.me EXCEPT !.queued = i]
           v == [w EXCEPT !.cast[i] = y]
<1>1. w \in World /\ i \in DOMAIN w.cast /\ w.cast[i] \in Cast /\ Fine(w.cast[i]) /\ w.me \in Caster /\ i \in Id
  BY MidParts
<1>2. /\ y \in Cast /\ Fine(y) /\ y.spell = w.cast[i].spell /\ y.running = w.cast[i].running /\ y.finished /\ y.hears
      /\ y.told = "nothing"
  BY <1>1 DEF Cast, Fine, Mid
<1>3. /\ m \in Caster /\ m.state = w.me.state /\ m.channel = w.me.channel /\ m.alive = w.me.alive /\ m.held = w.me.held
      /\ m.paused = w.me.paused /\ m.swing = w.me.swing /\ m.victim = w.me.victim /\ m.queued = i
  BY <1>1 DEF Caster
<1>4. r = [v EXCEPT !.me = m]
  BY <1>1 DEF World
<1>5. v.cast = [w.cast EXCEPT ![i] = y]
  BY <1>1 DEF World
<1> HIDE DEF y, m, r
<1>6. v \in World /\ v.me = w.me
  BY <1>1, <1>2, CastChanged
<1> HIDE DEF v
<1>7. r \in World /\ r.me = m /\ r.cast = [w.cast EXCEPT ![i] = y]
  BY <1>3, <1>4, <1>5, <1>6, MeChanged
<1>8. w.me.state = i /\ w.me.paused # "yes" /\ Swings(r.me)
  BY <1>3, <1>7 DEF Mid, Swings
<1>9. Result(w, i, r)
  BY <1>2, <1>3, <1>7, <1>8, MidEnds DEF Result
<1> QED
  BY <1>9 DEF r

\* Nothing is said of a cast for which the goods are missing.
LEMMA Forgotten ==
  ASSUME NEW w, NEW i, Mid(w, i)
  PROVE  LET x == [w EXCEPT !.cast[i].finished = TRUE]
         IN  Result(w, i, [x EXCEPT !.me.paused = IF @ = "yes" THEN "forgotten" ELSE @])
<1> DEFINE x == [w EXCEPT !.cast[i].finished = TRUE]
           r == [x EXCEPT !.me.paused = IF @ = "yes" THEN "forgotten" ELSE @]
           y == [w.cast[i] EXCEPT !.finished = TRUE]
           m == [w.me EXCEPT !.paused = IF @ = "yes" THEN "forgotten" ELSE @]
           v == [w EXCEPT !.cast[i] = y]
<1>1. w \in World /\ i \in DOMAIN w.cast /\ w.cast[i] \in Cast /\ Fine(w.cast[i]) /\ w.me \in Caster /\ i \in Id
  BY MidParts
<1>2. y \in Cast /\ Fine(y) /\ y.spell = w.cast[i].spell /\ y.running = w.cast[i].running /\ y.finished
  BY <1>1 DEF Cast, Fine, Mid
<1>3. /\ m \in Caster /\ m.state = w.me.state /\ m.channel = w.me.channel /\ m.alive = w.me.alive /\ m.held = w.me.held
      /\ m.paused # "yes" /\ m.swing = w.me.swing /\ m.victim = w.me.victim /\ m.queued = w.me.queued
  BY <1>1 DEF Caster
<1>4. r = [v EXCEPT !.me = m]
  BY <1>1 DEF World
<1>5. v.cast = [w.cast EXCEPT ![i] = y]
  BY <1>1 DEF World
<1> HIDE DEF y, m, r
<1>6. v \in World /\ v.me = w.me
  BY <1>1, <1>2, CastChanged
<1> HIDE DEF v
<1>7. r \in World /\ r.me = m /\ r.cast = [w.cast EXCEPT ![i] = y]
  BY <1>3, <1>4, <1>5, <1>6, MeChanged
<1>8. w.me.state = i /\ Swings(r.me)
  BY <1>3, <1>7 DEF Mid, Swings
<1>9. Result(w, i, r)
  BY <1>2, <1>3, <1>7, <1>8, MidEnds DEF Result
<1> QED
  BY <1>9 DEF r

\* A cast that fails is reported, and nothing of it lands.
LEMMA MidFails ==
  ASSUME NEW w, NEW i, Mid(w, i), NEW y \in Cast, Fine(y),
         y.spell = w.cast[i].spell, y.running = w.cast[i].running, y.resumes = w.cast[i].resumes,
         ~y.flying, ~y.landed, ~y.hears, y.finished \/ y.spell \in Unlocks
  PROVE  Result(w, i, SendEndCast([w EXCEPT !.cast[i] = y], i, "failed"))
<1> DEFINE z == [y EXCEPT !.told = "failed"]
           v == SendEndCast([w EXCEPT !.cast[i] = y], i, "failed")
<1>1. Fine(z)
  BY DEF Fine, Cast
<1>2. "failed" \in {"ok", "failed"} /\ z = [y EXCEPT !.told = "failed"] /\ (y.finished \/ (y.spell \in Unlocks /\ "failed" = "failed"))
  OBVIOUS
<1> HIDE DEF z
<1>3. /\ Good(v) /\ DOMAIN v.cast = DOMAIN w.cast /\ \A k \in DOMAIN w.cast : v.cast[k].spell = w.cast[k].spell
      /\ v.me.state = i
  BY <1>1, <1>2, MidSends
<1> HIDE DEF v
<1>4. Result(w, i, v)
  BY <1>3 DEF Result
<1> QED
  BY <1>4 DEF v

LEMMA AfterResult ==
  ASSUME NEW w, NEW i \in DOMAIN w.cast, NEW x, Result(w, i, x)
  PROVE  Result(w, i, AfterEffect(x, i))
<1>1. Good(x) /\ i \in DOMAIN x.cast
  BY DEF Result
<1>2. Good(AfterEffect(x, i)) /\ Comes(x, AfterEffect(x, i))
  BY <1>1, AfterEffectKeeps
<1> QED
  BY <1>2, ResultComes

\* However a cast ends, what it mends is Good.
LEMMA OnCastFinishedKeeps ==
  ASSUME NEW w, NEW i, Mid(w, i), NEW c
  PROVE  Result(w, i, OnCastFinished(w, i, c))
<1> DEFINE x == [w EXCEPT !.cast[i].finished = TRUE]
           y == [w.cast[i] EXCEPT !.finished = TRUE]
           q == [x EXCEPT !.cast[i].hears = TRUE, !.me.queued = i]
           g == [x EXCEPT !.me.paused = IF @ = "yes" THEN "forgotten" ELSE @]
           e == TakeEffect(x, i, c)
           r == OnCastFinished(w, i, c)
<1>1. w \in World /\ i \in DOMAIN w.cast /\ w.cast[i] \in Cast /\ Fine(w.cast[i])
  BY MidParts
<1>2. /\ y \in Cast /\ Fine(y) /\ y.spell = w.cast[i].spell /\ y.running = w.cast[i].running
      /\ y.resumes = w.cast[i].resumes /\ ~y.flying /\ ~y.landed /\ ~y.hears /\ y.finished
  BY <1>1 DEF Cast, Fine, Mid
<1>3. x = [w EXCEPT !.cast[i] = y]
  OBVIOUS
<1>4. Result(w, i, SendEndCast(x, i, "failed"))
  <2> HIDE DEF y
  <2> QED
    BY <1>2, <1>3, MidFails
<1>5. ASSUME w.cast[i].spell \in Unlocks
      PROVE  Result(w, i, SendEndCast(w, i, "failed"))
  <2> DEFINE k == w.cast[i]
  <2>1. w = [w EXCEPT !.cast[i] = k]
    <3>1. w.cast = [w.cast EXCEPT ![i] = k]
      BY <1>1, WorldParts
    <3> QED
      BY <1>1, <3>1 DEF World
  <2>2. /\ k \in Cast /\ Fine(k) /\ k.spell = w.cast[i].spell /\ k.running = w.cast[i].running
        /\ k.resumes = w.cast[i].resumes /\ ~k.flying /\ ~k.landed /\ ~k.hears /\ k.spell \in Unlocks
    BY <1>1, <1>5 DEF Mid
  <2> HIDE DEF k
  <2>3. Result(w, i, SendEndCast([w EXCEPT !.cast[i] = k], i, "failed"))
    BY <2>2, MidFails
  <2> QED
    BY <2>1, <2>3
<1>6. ASSUME w.cast[i].spell \in NextSwing
      PROVE  Result(w, i, AfterEffect(q, i))
  <2>1. Result(w, i, [w EXCEPT !.cast[i].finished = TRUE, !.cast[i].hears = TRUE, !.me.queued = i])
    BY <1>6, StrikeQueued
  <2>2. q = [w EXCEPT !.cast[i].finished = TRUE, !.cast[i].hears = TRUE, !.me.queued = i]
    OBVIOUS
  <2> HIDE DEF q
  <2> QED
    BY <1>1, <2>1, <2>2, AfterResult
<1>7. Result(w, i, g)
  BY Forgotten
<1>8. Result(w, i, AfterEffect(e, i))
  <2>1. Result(w, i, e)
    BY TakeEffectKeeps
  <2> HIDE DEF e
  <2> QED
    BY <1>1, <2>1, AfterResult
<1>9. \/ r = SendEndCast(x, i, "failed")
      \/ w.cast[i].spell \in Unlocks /\ r = SendEndCast(w, i, "failed")
      \/ w.cast[i].spell \in NextSwing /\ r = AfterEffect(q, i)
      \/ r = g
      \/ r = AfterEffect(e, i)
  BY DEF OnCastFinished
<1> HIDE DEF x, y, q, g, e, r
<1>10. Result(w, i, r)
  BY <1>4, <1>5, <1>6, <1>7, <1>8, <1>9
<1> QED
  BY <1>10 DEF r

-----------------------------------------------------------------------------
(* A new cast, and the swing that waits for it. *)

\* A cast that takes time is Good; any other finishes at once.
LEMMA NewCastMid ==
  ASSUME NEW w, Good(w), w.me.channel = NoSpell, w.me.state # 0 => w.cast[w.me.state].finished,
         AbleUnit(w.me), NEW i \in Id, i \notin DOMAIN w.cast, NEW s \in Spell, NEW f \in Foe
  PROVE  /\ s \notin Timed => Mid(NewCast(w, i, s, f), i)
         /\ s \in Timed => /\ Good(NewCast(w, i, s, f)) /\ NewCast(w, i, s, f).cast[i].running
                          /\ ~NewCast(w, i, s, f).cast[i].finished
         /\ NewCast(w, i, s, f).cast[i].spell = s /\ NewCast(w, i, s, f).me.state = i
         /\ i \in DOMAIN NewCast(w, i, s, f).cast
<1> DEFINE x == [spell |-> s, target |-> f, finished |-> FALSE, running |-> s \in Timed \union Channeled,
                 resumes |-> FALSE, hears |-> FALSE, flying |-> FALSE, landed |-> FALSE, told |-> "nothing",
                 paid |-> FALSE]
           m == [w.me EXCEPT !.state = i, !.channel = IF s \in Channeled THEN s ELSE @]
           d == DOMAIN w.cast \union {i}
           c == [k \in d |-> IF k = i THEN x ELSE w.cast[k]]
           r == NewCast(w, i, s, f)
<1>1. /\ w \in World /\ w.me \in Caster /\ WellMade(w) /\ Fits(w.cast, w.me) /\ AllFine(w.cast) /\ Refs(w.cast, w.me)
      /\ i # 0 /\ w.foe \in [Foe -> {"alive", "dead", "gone"}]
  BY GoodParts, WorldParts DEF WellMade, Id
<1>2. r = [cast |-> c, me |-> m, foe |-> w.foe]
  BY DEF NewCast
<1>3. /\ x \in Cast /\ Fine(x) /\ x.spell = s /\ ~x.finished /\ ~x.hears /\ ~x.flying /\ ~x.landed
      /\ x.told = "nothing" /\ (x.running <=> s \in Timed \union Channeled)
  <2> DEFINE t == s \in Timed \union Channeled
  <2>1. t \in BOOLEAN
    OBVIOUS
  <2>2. /\ x.spell = s /\ x.finished = FALSE /\ x.hears = FALSE /\ x.flying = FALSE /\ x.landed = FALSE
        /\ x.told = "nothing" /\ x.running = t
    OBVIOUS
  <2>3. x \in Cast
    <3> HIDE DEF t
    <3> QED
      BY <2>1 DEF Cast
  <2>4. Fine(x)
    <3> HIDE DEF x
    <3> QED
      BY <2>2 DEF Fine
  <2> QED
    BY <2>2, <2>3, <2>4
<1>4. /\ m \in Caster /\ m.state = i /\ m.queued = w.me.queued /\ m.alive = w.me.alive /\ m.held = w.me.held
      /\ m.swing = w.me.swing /\ m.victim = w.me.victim /\ m.paused = w.me.paused
      /\ m.channel = IF s \in Channeled THEN s ELSE NoSpell
  BY <1>1 DEF Caster
<1>5. d \in SUBSET Id /\ \A k \in DOMAIN w.cast : w.cast[k] \in Cast
  BY <1>1, WorldParts
<1> HIDE DEF x, m
<1>6. c \in [d -> Cast]
  BY <1>3, <1>5
<1>7. c \in Casts
  BY <1>5, <1>6, IsCasts
<1>8. c[i] = x /\ DOMAIN c = d /\ \A k \in DOMAIN w.cast : c[k] = w.cast[k]
  OBVIOUS
<1> HIDE DEF c
<1>9. r \in World /\ r.cast = c /\ r.me = m
  BY <1>1, <1>2, <1>4, <1>7 DEF World
<1> HIDE DEF r
<1>10. WellMade(r)
  <2>1. AllFine(r.cast)
    BY <1>1, <1>3, <1>8, <1>9 DEF AllFine
  <2>2. Refs(r.cast, r.me)
    BY <1>1, <1>4, <1>8, <1>9 DEF Refs
  <2> QED
    BY <2>1, <2>2, <1>9 DEF WellMade
<1>11. w.me.queued # i /\ w.me.paused # "yes"
  BY <1>1 DEF Fits, Resumes, Refs
<1>12. Swings(r.me) /\ Waits(r.cast, r.me)
  <2>1. Swings(r.me)
    BY <1>1, <1>4, <1>9 DEF Swings, Fits
  <2>2. Waits(w.cast, w.me) /\ (w.me.queued # 0 => w.me.queued \in DOMAIN w.cast)
    BY <1>1 DEF Fits, Refs
  <2>3. w.me.queued # 0 => r.cast[w.me.queued] = w.cast[w.me.queued]
    BY <2>2, <1>8, <1>9
  <2>4. r.me.queued = w.me.queued /\ r.me.alive = w.me.alive /\ r.me.held = w.me.held
    BY <1>4, <1>9
  <2> QED
    BY <2>1, <2>2, <2>3, <2>4 DEF Waits, AbleUnit
<1>13. AbleUnit(r.me)
  BY <1>4, <1>9 DEF AbleUnit
<1>14. i \in DOMAIN r.cast /\ r.cast[i] = x /\ r.me.state = i /\ r.me.queued # i /\ r.me.paused # "yes"
       /\ r.me.channel = IF s \in Channeled THEN s ELSE NoSpell
  BY <1>4, <1>8, <1>9, <1>11
<1>15. s \notin Timed => Mid(r, i)
  BY <1>1, <1>3, <1>10, <1>12, <1>13, <1>14 DEF Mid
<1>16. s \in Timed => Good(r)
  BY <1>1, <1>3, <1>10, <1>12, <1>13, <1>14 DEF Good, Fits, Shows, Ends, Resumes
<1> QED
  BY <1>3, <1>14, <1>15, <1>16 DEF r

\* A cast or a channel that pauses the swing has a timer and will tell.
LEMMA PausedKeeps ==
  ASSUME NEW w, Good(w), NEW i \in DOMAIN w.cast, w.me.state \in {0, i},
         w.cast[i].spell \in Timed => w.me.state = i /\ w.cast[i].running /\ ~w.cast[i].finished
  PROVE  Good(Paused(w, i))
<1> DEFINE k == [w.cast[i] EXCEPT !.resumes = TRUE]
           m == [w.me EXCEPT !.swing = FALSE, !.paused = "yes"]
           v == [w EXCEPT !.cast[i] = k]
           r == [w EXCEPT !.me.swing = FALSE, !.me.paused = "yes", !.cast[i].resumes = TRUE]
<1>1. /\ w \in World /\ w.me \in Caster /\ WellMade(w) /\ Fits(w.cast, w.me) /\ AllFine(w.cast) /\ Refs(w.cast, w.me)
      /\ w.cast[i] \in Cast /\ Fine(w.cast[i])
  BY GoodParts, WorldParts DEF WellMade, AllFine
<1>2. ASSUME w.me.swing, w.cast[i].spell \in Timed \/ w.me.channel # NoSpell
      PROVE  Good(r)
  <2>1. /\ k \in Cast /\ Fine(k) /\ k.spell = w.cast[i].spell /\ k.finished = w.cast[i].finished /\ k.resumes
        /\ k.running = w.cast[i].running /\ k.told = w.cast[i].told /\ k.hears = w.cast[i].hears
    BY <1>1 DEF Cast, Fine
  <2>2. /\ m \in Caster /\ m.state = w.me.state /\ m.queued = w.me.queued /\ m.channel = w.me.channel
        /\ m.alive = w.me.alive /\ m.held = w.me.held /\ ~m.swing /\ m.victim = w.me.victim
    BY <1>1 DEF Caster
  <2>3. r = [v EXCEPT !.me = m]
    BY <1>1 DEF World
  <2> HIDE DEF k, m, r
  <2>4. /\ v \in World /\ v.me = w.me /\ DOMAIN v.cast = DOMAIN w.cast /\ v.cast[i] = k
        /\ \A n \in DOMAIN w.cast \ {i} : v.cast[n] = w.cast[n]
    BY <1>1, <2>1, CastChanged
  <2> HIDE DEF v
  <2>5. r \in World /\ r.me = m /\ r.cast = v.cast
    BY <2>2, <2>3, <2>4, MeChanged
  <2>6. AllFine(r.cast) /\ Refs(r.cast, r.me)
    BY <1>1, <2>1, <2>2, <2>4, <2>5 DEF AllFine, Refs
  <2>7. \A n \in DOMAIN w.cast :
          /\ r.cast[n].spell = w.cast[n].spell /\ r.cast[n].finished = w.cast[n].finished
          /\ r.cast[n].running = w.cast[n].running /\ r.cast[n].told = w.cast[n].told
          /\ r.cast[n].hears = w.cast[n].hears
    BY <2>1, <2>4, <2>5
  <2>8. w.me.state \in DOMAIN w.cast \union {0} /\ w.me.queued \in DOMAIN w.cast \union {0}
    BY <1>1 DEF Refs
  <2>9. Shows(r.cast, r.me) /\ Ends(r.cast, r.me) /\ Waits(r.cast, r.me) /\ Swings(r.me)
    BY <1>1, <2>2, <2>5, <2>7, <2>8 DEF Fits, Shows, Ends, Waits, Swings, AbleUnit
  <2>10. w.me.state = i /\ w.cast[i].running /\ AbleUnit(w.me) /\ (w.cast[i].finished => w.me.channel # NoSpell)
    <3>1. i # 0
      BY <1>1, WorldParts
    <3>2. CASE w.cast[i].spell \in Timed
      BY <3>1, <3>2, <1>1 DEF Fits, Ends
    <3>3. CASE w.me.channel # NoSpell
      BY <3>1, <3>3, <1>1 DEF Fits, Shows
    <3> QED
      BY <3>2, <3>3, <1>2
  <2>11. w.me.victim # NoFoe /\ w.me.held = {} /\ i # 0
    BY <1>1, <1>2, WorldParts DEF Fits, Swings
  <2>12. Resumes(r.cast, r.me)
    BY <2>1, <2>2, <2>4, <2>5, <2>10, <2>11 DEF Resumes, Waiting, AbleUnit
  <2> QED
    BY <2>5, <2>6, <2>9, <2>12 DEF Good, WellMade, Fits
<1>3. w.me.swing => OnSpellCastEnded(w) = w
  BY DEF OnSpellCastEnded
<1> QED
  BY <1>2, <1>3 DEF Paused

\* m_onAttackError of a strike whose swing has come
LEMMA HearsNoMore ==
  ASSUME NEW w, Good(w), NEW i \in DOMAIN w.cast, i # w.me.queued, w.cast[i].finished
  PROVE  /\ Good([w EXCEPT !.cast[i].hears = FALSE]) /\ Comes(w, [w EXCEPT !.cast[i].hears = FALSE])
         /\ [w EXCEPT !.cast[i].hears = FALSE].me = w.me
         /\ [w EXCEPT !.cast[i].hears = FALSE].cast[i] = [w.cast[i] EXCEPT !.hears = FALSE]
<1> DEFINE k == [w.cast[i] EXCEPT !.hears = FALSE]
<1>1. w.cast[i] \in Cast /\ Fine(w.cast[i])
  BY GoodParts, WorldParts DEF WellMade, AllFine
<1>2. /\ k \in Cast /\ Fine(k) /\ k.spell = w.cast[i].spell /\ k.finished = w.cast[i].finished
      /\ k.running = w.cast[i].running /\ k.resumes = w.cast[i].resumes /\ k.told = w.cast[i].told
  BY <1>1 DEF Cast, Fine
<1>3. [w EXCEPT !.cast[i].hears = FALSE] = [w EXCEPT !.cast[i] = k]
  OBVIOUS
<1> HIDE DEF k
<1>4. Good([w EXCEPT !.cast[i] = k]) /\ Comes(w, [w EXCEPT !.cast[i] = k])
  BY <1>2, CastMarked
<1>5. [w EXCEPT !.cast[i] = k].me = w.me
  BY <1>2, CastMarked
<1>6. [w EXCEPT !.cast[i] = k].cast[i] = k
  BY <1>2, CastMarked
<1> QED
  BY <1>3, <1>4, <1>5, <1>6 DEF k

\* The callback of a strike, when the swing has come: it waits no more.
LEMMA StrikeKeeps ==
  ASSUME NEW w, Good(w), w.me.queued = 0, NEW i \in DOMAIN w.cast, w.cast[i].finished,
         w.cast[i].told \in {"nothing", "dead"}, NEW c
  PROVE  Good(Strike(w, i, c)) /\ Comes(w, Strike(w, i, c))
<1> DEFINE k == [w.cast[i] EXCEPT !.hears = FALSE]
           x == [w EXCEPT !.cast[i].hears = FALSE]
           ok == SendEndCast(x, i, "ok")
           p == [ok.cast[i] EXCEPT !.paid = TRUE, !.landed = TRUE]
           q == [ok EXCEPT !.cast[i] = p]
           f == x.cast[i].target
<1>1. w \in World /\ w.cast[i] \in Cast /\ Fine(w.cast[i]) /\ i # w.me.queued
  BY GoodParts, WorldParts DEF WellMade, AllFine
<1>2. /\ k \in Cast /\ Fine(k) /\ k.spell = w.cast[i].spell /\ k.finished /\ k.running = w.cast[i].running
      /\ k.resumes = w.cast[i].resumes /\ ~k.hears /\ ~k.flying /\ ~k.landed
  BY <1>1 DEF Cast, Fine
<1>3. q = [ok EXCEPT !.cast[i].paid = TRUE, !.cast[i].landed = TRUE]
  OBVIOUS
<1>4. Strike(w, i, c) \in {SendEndCast(x, i, "failed"), Hit(q, f, c = "kills")}
  BY <1>3 DEF Strike
<1> HIDE DEF k
<1>5. Good(x) /\ Comes(w, x) /\ x.me = w.me /\ x.cast[i] = k
  BY <1>1, HearsNoMore DEF k
<1> HIDE DEF x
<1>6. i \in DOMAIN x.cast /\ i # x.me.queued /\ f \in Foe
  BY <1>1, <1>2, <1>5 DEF Comes, Cast
<1>7. Good(SendEndCast(x, i, "failed")) /\ Comes(x, SendEndCast(x, i, "failed"))
  BY <1>2, <1>5, <1>6, SendEndCastKeeps
<1>8. Good(ok) /\ Comes(x, ok) /\ ok.cast[i].told = "ok" /\ ok.cast[i].finished /\ ~ok.cast[i].hears
  <2>1. x.cast[i].finished /\ ~x.cast[i].hears /\ ~x.cast[i].flying /\ ~x.cast[i].landed
    BY <1>2, <1>5
  <2>2. Good(ok) /\ Comes(x, ok)
    BY <2>1, <1>5, <1>6, SendEndCastKeeps
  <2>3. ok.cast[i].told = "ok" /\ ok.cast[i].finished /\ ~ok.cast[i].hears
    BY <2>1, <1>5, <1>6, SendEndCastKeeps
  <2> QED
    BY <2>2, <2>3
<1> HIDE DEF ok, f
<1>9. i \in DOMAIN ok.cast /\ i # ok.me.queued /\ ok.cast[i] \in Cast /\ Fine(ok.cast[i])
  <2>1. i \in DOMAIN ok.cast /\ i # 0 /\ ok.me.queued = 0
    BY <1>1, <1>5, <1>6, <1>8, WorldParts DEF Comes
  <2> QED
    BY <2>1, <1>8, GoodParts, WorldParts DEF WellMade, AllFine
<1>10. /\ p \in Cast /\ Fine(p) /\ p.spell = ok.cast[i].spell /\ p.finished = ok.cast[i].finished
       /\ p.running = ok.cast[i].running /\ p.resumes = ok.cast[i].resumes /\ p.told = ok.cast[i].told
       /\ p.hears = ok.cast[i].hears
  BY <1>8, <1>9 DEF Cast, Fine
<1> HIDE DEF p
<1>11. Good(q) /\ Comes(ok, q)
  BY <1>8, <1>9, <1>10, CastMarked
<1> HIDE DEF q
<1>12. (c = "kills") \in BOOLEAN
  OBVIOUS
<1>13. Good(Hit(q, f, c = "kills")) /\ Comes(q, Hit(q, f, c = "kills"))
  BY <1>6, <1>11, <1>12, HitKeeps
<1> QED
  BY <1>4, <1>5, <1>7, <1>8, <1>11, <1>13, ComesTrans

\* The next swing, for who is still attacking
LEMMA NextAttackKeeps ==
  ASSUME NEW w, Good(w), w.me.queued = 0
  PROVE  Good(NextAttack(w))
<1> DEFINE x == AutoAttackSucceeds(w)
<1>1. Good(x) /\ x.me = w.me
  BY AutoAttackSucceedsKeeps
<1>2. NextAttack(w) = IF w.me.victim = NoFoe THEN w ELSE TriggerSwing(x)
  BY DEF NextAttack
<1> HIDE DEF x
<1> QED
  BY <1>1, <1>2, TriggerSwingKeeps

\* Only what is pointed to lives on.
LEMMA SetToGood ==
  ASSUME NEW w, Good(w), CastingSetTo(w)
  PROVE  CastingInv'
<1> DEFINE d == Alive(w)
           r == [cast |-> Restrict(w.cast, d), me |-> w.me, foe |-> w.foe]
<1>1. /\ w \in World /\ w.me \in Caster /\ AllFine(w.cast) /\ Refs(w.cast, w.me) /\ Fits(w.cast, w.me)
      /\ w.foe \in [Foe -> {"alive", "dead", "gone"}]
  BY GoodParts, WorldParts DEF WellMade
<1>2. d \in SUBSET DOMAIN w.cast /\ \A i \in DOMAIN w.cast : i \in {w.me.state, w.me.queued} => i \in d
  BY DEF Alive
<1>3. DOMAIN w.cast \subseteq Id /\ \A i \in DOMAIN w.cast : w.cast[i] \in Cast
  BY <1>1, WorldParts
<1>4. Restrict(w.cast, d) = [i \in d |-> w.cast[i]]
  BY DEF Restrict
<1>5. CastingNow' = r
  BY DEF CastingNow, CastingSetTo
<1> HIDE DEF d
<1> DEFINE c == Restrict(w.cast, d)
<1>6. DOMAIN c = d /\ \A i \in d : c[i] = w.cast[i]
  BY <1>4
<1>7. c \in [d -> Cast] /\ d \in SUBSET Id
  BY <1>2, <1>3, <1>4
<1>8. c \in Casts
  BY <1>7, IsCasts
<1> HIDE DEF c
<1>9. r = [cast |-> c, me |-> w.me, foe |-> w.foe]
  BY DEF c
<1> HIDE DEF r
<1>10. r \in World /\ r.cast = c /\ r.me = w.me
  BY <1>1, <1>8, <1>9 DEF World
<1>11. AllFine(r.cast) /\ Refs(r.cast, r.me)
  BY <1>1, <1>2, <1>6, <1>10 DEF AllFine, Refs
<1>12. Fits(r.cast, r.me)
  BY <1>1, <1>2, <1>6, <1>10 DEF Fits, Shows, Ends, Resumes, Waits, Refs
<1> QED
  BY <1>5, <1>10, <1>11, <1>12 DEF CastingInv, Good, WellMade

\* A unit that is able to do more, or the same, and no less
LEMMA Eased ==
  ASSUME NEW w, Good(w), NEW m \in Caster, m.state = w.me.state, m.queued = w.me.queued, m.channel = w.me.channel,
         m.paused = w.me.paused, m.victim = w.me.victim, m.swing \in {w.me.swing, FALSE},
         w.me.alive => m.alive, m.held \subseteq w.me.held
  PROVE  Good([w EXCEPT !.me = m])
<1> DEFINE r == [w EXCEPT !.me = m]
<1>1. w \in World /\ WellMade(w) /\ Fits(w.cast, w.me) /\ w.me \in Caster
  BY GoodParts
<1>2. r \in World /\ r.me = m /\ r.cast = w.cast
  BY <1>1, MeChanged
<1> HIDE DEF r
<1>3. WellMade(r)
  BY <1>1, <1>2, SameCasts
<1>4. Fits(r.cast, r.me)
  BY <1>1, <1>2 DEF Fits, Shows, Ends, Resumes, Waits, Swings, Waiting, AbleUnit
<1>5. Good(r)
  BY <1>3, <1>4 DEF Good
<1> QED
  BY <1>5 DEF r

\* The invariant, spelled out for the variables
LEMMA NowParts ==
  ASSUME CastingInv
  PROVE  /\ Good(CastingNow) /\ CastingNow.cast = cast /\ CastingNow.me = me /\ CastingNow.foe = foe
         /\ me \in Caster /\ cast \in Casts /\ AllFine(cast) /\ Refs(cast, me) /\ Fits(cast, me)
         /\ foe \in [Foe -> {"alive", "dead", "gone"}] /\ CastingNow \in World /\ WellMade(CastingNow)
<1>1. Good(CastingNow) /\ CastingNow.cast = cast /\ CastingNow.me = me /\ CastingNow.foe = foe
  BY DEF CastingInv, CastingNow
<1>2. CastingNow \in World /\ WellMade(CastingNow) /\ Fits(cast, me)
  BY <1>1, GoodParts
<1> QED
  BY <1>1, <1>2, WorldParts DEF WellMade

-----------------------------------------------------------------------------
(* The actions. *)

LEMMA CastSpellKeeps ==
  ASSUME CastingInv, NEW s \in Spell, NEW f \in Foe, CastSpell(s, f)
  PROVE  CastingInv'
<1>1. PICK i \in Free(CastingNow), c \in ChanceOf(s) :
        CastingSetTo(Paused(Activated(NewCast(FinishChanneling(CastingNow), i, s, f), i, c), i))
  BY DEF CastSpell
<1> DEFINE w == FinishChanneling(CastingNow)
           x == NewCast(w, i, s, f)
           y == Activated(x, i, c)
<1>2. /\ Good(w) /\ w.me.channel = NoSpell /\ w.cast = cast /\ w.me.state = me.state
      /\ w.me.alive = me.alive /\ w.me.held = me.held
  BY NowParts, FinishChannelingKeeps
<1>3. AbleUnit(w.me) /\ (w.me.state # 0 => w.cast[w.me.state].finished) /\ i \in Id /\ i \notin DOMAIN w.cast
  BY <1>2, NowParts DEF CastSpell, AbleUnit, Free
<1> HIDE DEF w
<1>4. /\ s \notin Timed => Mid(x, i)
      /\ s \in Timed => Good(x) /\ x.cast[i].running /\ ~x.cast[i].finished
      /\ x.cast[i].spell = s /\ x.me.state = i /\ i \in DOMAIN x.cast
  BY <1>2, <1>3, NewCastMid
<1>5. y = IF s \in Timed THEN x ELSE OnCastFinished(x, i, c)
  BY <1>4 DEF Activated
<1> HIDE DEF x, y
<1>6. s \notin Timed => Result(x, i, OnCastFinished(x, i, c))
  BY <1>4, OnCastFinishedKeeps
<1>7. /\ Good(y) /\ i \in DOMAIN y.cast /\ y.me.state \in {0, i} /\ y.cast[i].spell = s
      /\ s \in Timed => y.me.state = i /\ y.cast[i].running /\ ~y.cast[i].finished
  BY <1>4, <1>5, <1>6 DEF Result
<1>8. Good(Paused(y, i))
  BY <1>7, PausedKeeps
<1>9. CastingSetTo(Paused(y, i))
  BY <1>1 DEF w, x, y
<1> QED
  BY <1>8, <1>9, SetToGood

\* Its timer runs out: a channel ends, a cast finishes.
LEMMA CastTimerKeeps ==
  ASSUME CastingInv, CastTimer
  PROVE  CastingInv'
<1> DEFINE i == me.state
           k == [cast[i] EXCEPT !.running = FALSE]
           w == [CastingNow EXCEPT !.cast[i] = k]
<1>1. i # 0 /\ cast[i].running
  BY DEF CastTimer
<1>2. /\ CastingNow \in World /\ i \in DOMAIN cast /\ cast[i] \in Cast /\ Fine(cast[i]) /\ me \in Caster
      /\ AllFine(cast) /\ Refs(cast, me) /\ Fits(cast, me) /\ CastingNow.cast = cast /\ CastingNow.me = me
      /\ DOMAIN cast \subseteq Id
  BY <1>1, NowParts, GoodParts, WorldParts
<1>3. /\ k \in Cast /\ Fine(k) /\ k.spell = cast[i].spell /\ k.finished = cast[i].finished /\ ~k.running
      /\ k.told = cast[i].told /\ k.hears = cast[i].hears /\ k.flying = cast[i].flying /\ k.landed = cast[i].landed
      /\ k.resumes = cast[i].resumes
  BY <1>2 DEF Cast, Fine
<1>4. w = [CastingNow EXCEPT !.cast[me.state].running = FALSE]
  BY <1>2
<1> HIDE DEF k
<1>5. /\ w \in World /\ w.me = me /\ DOMAIN w.cast = DOMAIN cast /\ w.cast[i] = k
      /\ \A n \in DOMAIN cast \ {i} : w.cast[n] = cast[n]
  BY <1>2, <1>3, CastChanged
<1>6. \/ cast[i].spell \in Channeled /\ CastingSetTo(FinishChanneling(w))
      \/ /\ cast[i].spell \notin Channeled
         /\ \E c \in ChanceOf(cast[i].spell) : CastingSetTo(OnCastFinished(w, i, c))
  BY <1>4 DEF CastTimer
<1> HIDE DEF w
<1>7. WellMade(w)
  BY <1>2, <1>3, <1>5 DEF WellMade, AllFine, Refs
<1>8. w.me.queued # i /\ Waits(w.cast, w.me) /\ Swings(w.me)
  BY <1>1, <1>2, <1>3, <1>5 DEF Fits, Waits, Refs, Swings, Fine
<1>9. CASE cast[i].spell \notin Channeled
  <2>1. cast[i].spell \in Timed /\ ~cast[i].finished
    BY <1>1, <1>2, <1>9 DEF Fine
  <2>2. AbleUnit(me)
    BY <1>1, <1>2, <2>1 DEF Fits, Ends
  <2>3. me.channel = NoSpell
    BY <1>2, <1>9 DEF Fits, Shows, Refs
  <2>4. me.paused = "yes" => Waiting(me) /\ cast[i].resumes
    BY <1>2 DEF Fits, Resumes
  <2>5. cast[i].spell \notin NextSwing /\ ~cast[i].hears /\ ~cast[i].flying /\ ~cast[i].landed
    BY <1>2, <2>1 DEF Fine
  <2>6. Mid(w, i)
    BY <1>1, <1>2, <1>3, <1>5, <1>7, <1>8, <1>9, <2>1, <2>2, <2>3, <2>4, <2>5 DEF Mid
  <2>7. \A c : Result(w, i, OnCastFinished(w, i, c))
    BY <2>6, OnCastFinishedKeeps
  <2> QED
    BY <1>6, <1>9, <2>7, SetToGood DEF Result
<1>10. CASE cast[i].spell \in Channeled
  <2> DEFINE m == [me EXCEPT !.channel = NoSpell]
             r == FinishChanneling(w)
  <2>1. /\ m \in Caster /\ m.state = me.state /\ m.queued = me.queued /\ m.channel = NoSpell /\ m.alive = me.alive
        /\ m.held = me.held /\ m.swing = me.swing /\ m.victim = me.victim /\ m.paused = me.paused
    BY <1>2 DEF Caster
  <2>2. r \in World /\ r.cast = w.cast /\ r.me = IF k.resumes THEN Resumed(m) ELSE m
    <3>1. w.me.state # 0 => w.me.state \in DOMAIN w.cast
      BY <1>2, <1>5
    <3>2. /\ FinishChanneling(w) \in World /\ FinishChanneling(w).cast = w.cast
          /\ FinishChanneling(w).me =
              IF w.me.state = 0 \/ w.cast[w.me.state].spell \notin Channeled THEN w.me
              ELSE IF w.cast[w.me.state].resumes THEN Resumed([w.me EXCEPT !.channel = NoSpell])
              ELSE [w.me EXCEPT !.channel = NoSpell]
      BY <1>5, <3>1, FinishChannelingIs
    <3> QED
      BY <3>2, <1>1, <1>3, <1>5, <1>10
  <2> HIDE DEF m, r
  <2>3. /\ r.me.channel = NoSpell /\ r.me.state = i /\ r.me.queued = me.queued /\ r.me.alive = me.alive
        /\ r.me.held = me.held /\ r.me.paused # "yes" /\ Swings(r.me)
    BY <1>1, <1>2, <1>3, <2>1, <2>2, ResumedParts DEF Fits, Resumes, Swings, Waiting
  <2>4. WellMade(r)
    BY <1>5, <1>7, <2>2, <2>3, SameCasts
  <2>5. \A n \in DOMAIN cast :
          /\ r.cast[n].spell = cast[n].spell /\ r.cast[n].finished = cast[n].finished /\ r.cast[n].told = cast[n].told
          /\ r.cast[n].hears = cast[n].hears
    BY <1>3, <1>5, <2>2
  <2>6. Waits(r.cast, r.me)
    BY <1>2, <2>3, <2>5 DEF Fits, Waits, AbleUnit, Refs
  <2>7. Ends(r.cast, r.me)
    BY <1>1, <1>2, <1>10, <2>3, <2>5 DEF Fits, Ends, AbleUnit
  <2>8. Good(r)
    BY <2>3, <2>4, <2>6, <2>7 DEF Good, Fits, Shows, Resumes
  <2> QED
    BY <1>6, <1>10, <2>8, SetToGood DEF r
<1> QED
  BY <1>9, <1>10

\* A swing: its strike or its hit, and what hits back
LEMMA SwingKeeps ==
  ASSUME CastingInv, Swing
  PROVE  CastingInv'
<1> DEFINE w == [CastingNow EXCEPT !.me.swing = FALSE, !.me.queued = 0]
           i == me.queued
           m == [me EXCEPT !.swing = FALSE, !.queued = 0]
<1>1. PICK c \in {"noPower", "noGoods", "hits", "kills"}, kills \in BOOLEAN, fate \in Fate :
        CastingSetTo(NextAttack(Suffered(
          IF i # 0 /\ c \notin {"noPower", "noGoods"} THEN IF i # 0 THEN Strike(w, i, c) ELSE w
          ELSE Hit(IF i # 0 THEN Strike(w, i, c) ELSE w, me.victim, kills), fate)))
  BY DEF Swing
<1>2. /\ CastingNow \in World /\ me \in Caster /\ Refs(cast, me) /\ Fits(cast, me) /\ CastingNow.cast = cast
      /\ CastingNow.me = me /\ WellMade(CastingNow) /\ me.swing
  BY NowParts DEF Swing
<1>3. /\ m \in Caster /\ m.state = me.state /\ m.queued = 0 /\ m.channel = me.channel /\ m.alive = me.alive
      /\ m.held = me.held /\ ~m.swing /\ m.victim = me.victim /\ m.paused = me.paused
  BY <1>2 DEF Caster
<1>4. w = [CastingNow EXCEPT !.me = m]
  BY <1>2
<1> HIDE DEF m, w
<1>5. w \in World /\ w.me = m /\ w.cast = cast
  BY <1>2, <1>3, <1>4, MeChanged
<1>6. Good(w)
  <2>1. WellMade(w)
    BY <1>2, <1>3, <1>5, SameCasts
  <2>2. Fits(w.cast, w.me)
    BY <1>2, <1>3, <1>5 DEF Fits, Shows, Ends, Resumes, Waits, Swings, Waiting, AbleUnit
  <2> QED
    BY <2>1, <2>2 DEF Good
<1> DEFINE x == IF i # 0 THEN Strike(w, i, c) ELSE w
           y == IF i # 0 /\ c \notin {"noPower", "noGoods"} THEN x ELSE Hit(x, me.victim, kills)
           z == Suffered(y, fate)
<1>7. Good(x) /\ Comes(w, x)
  <2>1. ASSUME i # 0
        PROVE  Good(Strike(w, i, c)) /\ Comes(w, Strike(w, i, c))
    <3>1. i \in DOMAIN w.cast /\ w.cast[i].finished /\ w.cast[i].told \in {"nothing", "dead"} /\ w.me.queued = 0
      BY <2>1, <1>2, <1>3, <1>5 DEF Refs, Fits, Waits
    <3> QED
      BY <1>6, <3>1, StrikeKeeps
  <2> QED
    BY <2>1, <1>6, ComesSelf
<1>8. me.victim \in Foe
  BY <1>2 DEF Fits, Swings, Caster
<1> HIDE DEF x
<1>9. Good(Hit(x, me.victim, kills)) /\ Comes(x, Hit(x, me.victim, kills))
  BY <1>7, <1>8, HitKeeps
<1>10. Good(y) /\ Comes(w, y)
  BY <1>7, <1>9, ComesTrans
<1> HIDE DEF y
<1>11. Good(z) /\ Comes(y, z)
  BY <1>10, SufferedKeeps
<1> HIDE DEF z
<1>12. z.me.queued = 0
  BY <1>3, <1>5, <1>10, <1>11 DEF Comes
<1>13. Good(NextAttack(z))
  BY <1>11, <1>12, NextAttackKeeps
<1>14. CastingSetTo(NextAttack(z))
  BY <1>1 DEF x, y, z
<1> QED
  BY <1>13, <1>14, SetToGood

\* The strike is dropped, and told so.
LEMMA SwingMissesKeeps ==
  ASSUME CastingInv, SwingMisses
  PROVE  CastingInv'
<1> DEFINE m == [me EXCEPT !.queued = 0]
           x == [CastingNow EXCEPT !.me = m]
           e == AutoAttackError(x, "failed")
           d == AutoAttackError(CastingNow, "failed")
           r == [d EXCEPT !.me.queued = 0]
<1>1. /\ CastingNow \in World /\ me \in Caster /\ Fits(cast, me) /\ CastingNow.cast = cast /\ CastingNow.me = me
      /\ Good(CastingNow) /\ WellMade(CastingNow) /\ CastingNow.foe = foe
  BY NowParts
<1>2. /\ m \in Caster /\ m.state = me.state /\ m.queued = 0 /\ m.channel = me.channel /\ m.alive = me.alive
      /\ m.held = me.held /\ m.swing = me.swing /\ m.victim = me.victim /\ m.paused = me.paused
  BY <1>1 DEF Caster
<1> HIDE DEF m
<1>3. x \in World /\ x.me = m /\ x.cast = cast /\ x.foe = foe
  BY <1>1, <1>2, MeChanged
<1> HIDE DEF x
<1>4. WellMade(x)
  BY <1>1, <1>2, <1>3, SameCasts
<1>5. Fits(x.cast, x.me)
  BY <1>1, <1>2, <1>3 DEF Fits, Shows, Ends, Resumes, Waits, Swings, Waiting, AbleUnit
<1>6. Good(e)
  <2>1. Good(x) /\ "failed" \in {"failed", "dead"} /\ x.me.queued = 0
    BY <1>2, <1>3, <1>4, <1>5 DEF Good
  <2> QED
    BY <2>1, AutoAttackErrorKeeps
<1>7. d \in World /\ d.me = me /\ d.foe = foe /\ d.cast = e.cast /\ e \in World /\ e.me = m /\ e.foe = foe
  <2>1. "failed" \in {"failed", "dead"}
    OBVIOUS
  <2>2. /\ d \in World /\ d.me = me /\ d.foe = foe
        /\ d.cast = [i \in DOMAIN cast |-> IF cast[i].hears THEN [cast[i] EXCEPT !.hears = FALSE, !.told = "failed"]
                                           ELSE cast[i]]
    BY <2>1, <1>1, AutoAttackErrorIs
  <2>3. /\ e \in World /\ e.me = m /\ e.foe = foe
        /\ e.cast = [i \in DOMAIN cast |-> IF cast[i].hears THEN [cast[i] EXCEPT !.hears = FALSE, !.told = "failed"]
                                           ELSE cast[i]]
    BY <2>1, <1>3, AutoAttackErrorIs
  <2> QED
    BY <2>2, <2>3
<1> HIDE DEF d, e
<1>8. r = e
  BY <1>7 DEF World, m
<1>9. CastingSetTo(r)
  BY DEF SwingMisses, d
<1> QED
  BY <1>6, <1>8, <1>9, SetToGood

\* What lands was paid for.
LEMMA ImpactKeeps ==
  ASSUME CastingInv, NEW i \in DOMAIN cast, Impact(i)
  PROVE  CastingInv'
<1> DEFINE k == [cast[i] EXCEPT !.flying = FALSE, !.landed = TRUE]
           w == [CastingNow EXCEPT !.cast[i] = k]
           f == cast[i].target
<1>1. PICK kills \in BOOLEAN : CastingSetTo(Hit(w, f, kills))
  <2>1. w = [CastingNow EXCEPT !.cast[i].flying = FALSE, !.cast[i].landed = TRUE]
    BY NowParts
  <2> QED
    BY <2>1 DEF Impact
<1>2. /\ Good(CastingNow) /\ i \in DOMAIN CastingNow.cast /\ CastingNow.cast = cast /\ CastingNow.me = me
      /\ cast[i] \in Cast /\ Fine(cast[i]) /\ cast[i].flying
  <2>1. cast \in Casts /\ AllFine(cast)
    BY NowParts
  <2>2. cast[i] \in Cast
    BY <2>1, CastsOf
  <2> QED
    BY NowParts, <2>1, <2>2 DEF AllFine, Impact
<1>3. /\ k \in Cast /\ Fine(k) /\ k.spell = cast[i].spell /\ k.finished = cast[i].finished
      /\ k.running = cast[i].running /\ k.resumes = cast[i].resumes /\ k.told = cast[i].told /\ k.hears = cast[i].hears
  BY <1>2 DEF Cast, Fine
<1>4. f \in Foe
  BY <1>2 DEF Cast
<1> HIDE DEF k
<1>5. Good(w)
  BY <1>2, <1>3, CastMarked
<1> HIDE DEF w
<1>6. Good(Hit(w, f, kills))
  BY <1>4, <1>5, HitKeeps
<1> QED
  BY <1>1, <1>6, SetToGood

\* The unit is stunned, or no more.
LEMMA StunKeeps ==
  ASSUME CastingInv, Stun
  PROVE  CastingInv'
<1> DEFINE m == [me EXCEPT !.held = @ \ {"Stunned"}]
<1>1. Good(CastingNow) /\ CastingNow.me = me /\ me \in Caster
  BY NowParts
<1>2. CastingSetTo(StunnedNow(CastingNow)) \/ CastingSetTo([CastingNow EXCEPT !.me = m])
  BY <1>1 DEF Stun
<1>3. /\ m \in Caster /\ m.state = me.state /\ m.queued = me.queued /\ m.channel = me.channel /\ m.alive = me.alive
      /\ m.held \subseteq me.held /\ m.swing = me.swing /\ m.victim = me.victim /\ m.paused = me.paused
  BY <1>1 DEF Caster
<1> HIDE DEF m
<1>4. Good([CastingNow EXCEPT !.me = m])
  BY <1>1, <1>3, Eased
<1>5. Good(StunnedNow(CastingNow))
  BY <1>1, StunnedNowKeeps
<1> QED
  BY <1>2, <1>4, <1>5, SetToGood

\* A unit in fear attacks nobody; its cast goes on.
LEMMA FearKeeps ==
  ASSUME CastingInv, Fear
  PROVE  CastingInv'
<1> DEFINE m == [me EXCEPT !.held = @ \ {"Feared"}]
           v == [me EXCEPT !.held = @ \union {"Feared"}]
           x == [CastingNow EXCEPT !.me = v]
<1>1. /\ Good(CastingNow) /\ CastingNow.me = me /\ me \in Caster /\ CastingNow \in World /\ WellMade(CastingNow)
      /\ CastingNow.cast = cast /\ Fits(cast, me)
  BY NowParts
<1>2. CastingSetTo(SetVictim(StopAttack(x), NoFoe)) \/ CastingSetTo([CastingNow EXCEPT !.me = m])
  BY <1>1 DEF Fear
<1>3. /\ m \in Caster /\ m.state = me.state /\ m.queued = me.queued /\ m.channel = me.channel /\ m.alive = me.alive
      /\ m.held \subseteq me.held /\ m.swing = me.swing /\ m.victim = me.victim /\ m.paused = me.paused
  BY <1>1 DEF Caster
<1>4. /\ v \in Caster /\ v.state = me.state /\ v.queued = me.queued /\ v.channel = me.channel /\ v.alive = me.alive
      /\ ("Stunned" \in v.held <=> "Stunned" \in me.held)
  BY <1>1 DEF Caster
<1> HIDE DEF m, v
<1>5. Good([CastingNow EXCEPT !.me = m])
  BY <1>1, <1>3, Eased
<1>6. x \in World /\ x.me = v /\ x.cast = cast
  BY <1>1, <1>4, MeChanged
<1> HIDE DEF x
<1>7. WellMade(x) /\ Shows(x.cast, x.me) /\ Ends(x.cast, x.me)
  <2>1. WellMade(x)
    BY <1>1, <1>4, <1>6, SameCasts
  <2> QED
    BY <2>1, <1>1, <1>4, <1>6 DEF Fits, Shows, Ends, AbleUnit
<1>8. Good(StopAttack(x))
  BY <1>7, StopAttackKeeps
<1>9. Good(SetVictim(StopAttack(x), NoFoe))
  BY <1>8, SetVictimKeeps
<1> QED
  BY <1>2, <1>5, <1>9, SetToGood

LEMMA RevivesKeeps ==
  ASSUME CastingInv, Revives
  PROVE  CastingInv'
<1> DEFINE m == [me EXCEPT !.alive = TRUE]
<1>1. Good(CastingNow) /\ CastingNow.me = me /\ me \in Caster
  BY NowParts
<1>2. CastingSetTo([CastingNow EXCEPT !.me = m])
  BY <1>1 DEF Revives
<1>3. /\ m \in Caster /\ m.state = me.state /\ m.queued = me.queued /\ m.channel = me.channel /\ m.alive
      /\ m.held = me.held /\ m.swing = me.swing /\ m.victim = me.victim /\ m.paused = me.paused
  BY <1>1 DEF Caster
<1> HIDE DEF m
<1>4. Good([CastingNow EXCEPT !.me = m])
  BY <1>1, <1>3, Eased
<1> QED
  BY <1>2, <1>4, SetToGood

\* Who is attacked, is lost or appears
LEMMA FoesKeep ==
  ASSUME CastingInv, NEW f \in Foe, AttackSwing(f) \/ FoeLost(f) \/ FoeAppears(f)
  PROVE  CastingInv'
<1>1. Good(CastingNow)
  BY NowParts
<1>2. Good(StartAttack(SetVictim(CastingNow, f)))
  BY <1>1, SetVictimKeeps, StartAttackKeeps
<1>3. Good(Lost(CastingNow, f, "dead")) /\ Good(Lost(CastingNow, f, "gone"))
  BY <1>1, LostKeeps
<1>4. Good([CastingNow EXCEPT !.foe[f] = "alive"])
  BY <1>1, FoeChanged
<1>5. CASE AttackSwing(f)
  BY <1>5, <1>2, SetToGood DEF AttackSwing
<1>6. CASE FoeLost(f)
  BY <1>6, <1>3, SetToGood DEF FoeLost
<1>7. CASE FoeAppears(f)
  BY <1>7, <1>4, SetToGood DEF FoeAppears
<1> QED
  BY <1>5, <1>6, <1>7

\* What ends casts, channels or the attack
LEMMA EndingsKeep ==
  ASSUME CastingInv,
         \/ CastTooFar \/ CancelCasting \/ CancelChanneling \/ AttackStop \/ Moves
         \/ Damaged \/ ChannelAuraRemoved \/ Interrupted \/ Dies
  PROVE  CastingInv'
<1>1. Good(CastingNow)
  BY NowParts
<1>2. Good(FinishChanneling(CastingNow))
  BY <1>1, FinishChannelingKeeps
<1>3. \A reasons : Good(StopCast(CastingNow, reasons))
  BY <1>1, StopCastKeeps
<1>4. \A reasons : Good(CancelCast(CastingNow, reasons))
  BY <1>1, CancelCastKeeps
<1>5. Good(StopAttack(CastingNow))
  BY <1>1, StopAttackKeeps DEF Good, Fits
<1>6. Good(Dead(CastingNow))
  BY <1>1, DeadKeeps
<1>7. CASE CastTooFar \/ CancelChanneling
  BY <1>7, <1>2, SetToGood DEF CastTooFar, CancelChanneling
<1>8. CASE CancelCasting \/ Interrupted
  BY <1>8, <1>4, SetToGood DEF CancelCasting, Interrupted
<1>9. CASE AttackStop
  BY <1>9, <1>5, SetToGood DEF AttackStop
<1>10. CASE Moves \/ Damaged \/ ChannelAuraRemoved
  BY <1>10, <1>3, SetToGood DEF Moves, Damaged, ChannelAuraRemoved
<1>11. CASE Dies
  BY <1>11, <1>6, SetToGood DEF Dies
<1> QED
  BY <1>7, <1>8, <1>9, <1>10, <1>11

-----------------------------------------------------------------------------

(* Casts, swings and channels fit together in every reachable state.       *)
THEOREM CastingSound == CastingSpec => []CastingInv
<1>1. CastingInit => CastingInv
  <2> SUFFICES ASSUME CastingInit
               PROVE  CastingInv
    OBVIOUS
  <2>1. /\ DOMAIN cast = {} /\ me \in Caster /\ foe \in [Foe -> {"alive", "dead", "gone"}]
        /\ me.state = 0 /\ me.queued = 0 /\ me.channel = NoSpell /\ me.swing = FALSE /\ me.paused = "no"
    BY DEF CastingInit, Caster
  <2>2. cast \in Casts
    <3>1. cast \in [{} -> Cast] /\ {} \in SUBSET Id
      BY DEF CastingInit
    <3> QED
      BY <3>1, IsCasts
  <2>3. CastingNow \in World /\ CastingNow.cast = cast /\ CastingNow.me = me
    BY <2>1, <2>2 DEF CastingNow, World
  <2> QED
    BY <2>1, <2>3 DEF CastingInv, Good, WellMade, AllFine, Refs, Fits, Shows, Ends, Resumes, Waits, Swings
<1>2. CastingInv /\ [CastingNext]_castingVars => CastingInv'
  <2> SUFFICES ASSUME CastingInv, [CastingNext]_castingVars
               PROVE  CastingInv'
    OBVIOUS
  <2>1. ASSUME UNCHANGED castingVars PROVE CastingInv'
    <3>1. CastingNow' = CastingNow
      BY <2>1 DEF castingVars, CastingNow
    <3> QED
      BY <3>1 DEF CastingInv
  <2>2. ASSUME NEW s \in Spell, NEW f \in Foe, CastSpell(s, f) PROVE CastingInv'
    BY <2>2, CastSpellKeeps
  <2>3. ASSUME NEW f \in Foe, AttackSwing(f) \/ FoeLost(f) \/ FoeAppears(f) PROVE CastingInv'
    BY <2>3, FoesKeep
  <2>4. ASSUME NEW i \in DOMAIN cast, Impact(i) PROVE CastingInv'
    BY <2>4, ImpactKeeps
  <2>5. ASSUME CastTimer \/ Swing \/ SwingMisses PROVE CastingInv'
    BY <2>5, CastTimerKeeps, SwingKeeps, SwingMissesKeeps
  <2>6. ASSUME Stun \/ Fear \/ Revives PROVE CastingInv'
    BY <2>6, StunKeeps, FearKeeps, RevivesKeeps
  <2> QED
    BY <2>1, <2>2, <2>3, <2>4, <2>5, <2>6, EndingsKeep DEF CastingNext
<1> QED
  BY <1>1, <1>2, PTL DEF CastingSpec

\* The types of the variables are part of it.
LEMMA InvTypes == ASSUME CastingInv PROVE CastingTypeOK
<1>1. /\ me \in Caster /\ cast \in Casts /\ Refs(cast, me) /\ foe \in [Foe -> {"alive", "dead", "gone"}]
  BY NowParts
<1>2. DOMAIN cast \subseteq Id /\ \A i \in DOMAIN cast : cast[i] \in Cast
  BY <1>1, CastsOf
<1> QED
  BY <1>1, <1>2 DEF CastingTypeOK, Refs

(* Types.                                                                  *)
THEOREM CastingTypeCorrect == CastingSpec => []CastingTypeOK
<1>1. CastingInv => CastingTypeOK
  BY InvTypes
<1> QED
  BY <1>1, CastingSound, PTL

\* And so is each part of CastsAgree.
LEMMA InvAgrees == ASSUME CastingInv PROVE CastsAgree
<1>1. /\ CastingNow.me = me /\ me \in Caster /\ cast \in Casts /\ AllFine(cast) /\ Refs(cast, me) /\ Fits(cast, me)
  BY NowParts
<1>2. ChannelEnds
  BY <1>1 DEF ChannelEnds, Fits, Shows, Able, AbleUnit
<1>3. CastEnds
  BY <1>1 DEF CastEnds, Fits, Ends, Able, AbleUnit
<1>4. PauseEnds
  BY <1>1 DEF PauseEnds, Fits, Resumes, Waiting, CanAttack
<1>5. StrikeWaits
  BY <1>1 DEF StrikeWaits, Fits, Waits, Able, AbleUnit
<1>6. EffectsPaid
  BY <1>1 DEF EffectsPaid, AllFine, Fine
<1> QED
  BY <1>2, <1>3, <1>4, <1>5, <1>6 DEF CastsAgree

(* The timers of casts and of swings, the field that shows a channel, the  *)
(* callback of a strike and what the client was told agree.                *)
THEOREM CastsFit == CastingSpec => []CastsAgree
<1>1. CastingInv => CastsAgree
  BY InvAgrees
<1> QED
  BY <1>1, CastingSound, PTL

-----------------------------------------------------------------------------
(* All of it.  A behaviour of Characters is one of each of its parts: a step
   of one part leaves the variables of the others alone, and what keeps a part
   small for TLC only leaves steps out. *)

\* The spells that Characters looks at have data, and there is a unit.
SpellsGiven == {hex, bash, bear, cat, ward} \subseteq AuraSpell /\ Bearer # {}

THEOREM PartsOfCharacters ==
  ASSUME SpellsGiven
  PROVE  CharactersSpec => SpecInWorld /\ CastingSpec /\ AurasSpec
<1>1. CharactersInit => InitInWorld /\ CastingInit /\ AurasInit
  BY DEF CharactersInit
<1>2. One \in Bearer
  BY DEF One, SpellsGiven
<1>3. \A units \in SUBSET Bearer, casters \in SUBSET Bearer, spells \in SUBSET AuraSpell :
        AurasStep(units, spells, casters) => AurasNext
  BY DEF AurasNext, AurasStep
<1>4. AurasInParts => AurasNext
  BY <1>2, <1>3 DEF AurasInParts, SpellsGiven
<1>5. [CharactersNext]_characterVars => [Next]_vars
  BY DEF CharactersNext, AurasInParts, characterVars
<1>6. [CharactersNext]_characterVars => [CastingNext]_castingVars
  BY DEF CharactersNext, characterVars
<1>7. [CharactersNext]_characterVars => [AurasNext]_auraVars
  BY <1>4 DEF CharactersNext, characterVars
<1> QED
  BY <1>1, <1>5, <1>6, <1>7, PTL DEF CharactersSpec, SpecInWorld, CastingSpec, AurasSpec

(* The types of the casts and of the auras. *)
THEOREM CharactersTypeCorrect ==
  ASSUME SpellsGiven
  PROVE  CharactersSpec => []CharactersTypeOK
<1>1. CastingTypeOK /\ AurasTypeOK => CharactersTypeOK
  BY DEF CharactersTypeOK
<1> QED
  BY <1>1, PartsOfCharacters, CastingTypeCorrect, AurasTypeCorrect, PTL

(* Groups that start with every character in the world keep what GroupsAndRaidsAgree says. *)
THEOREM RaidsInWorldAgree ==
  ASSUME MaxRestarts = 0, NormalMax <= RaidMax
  PROVE  SpecInWorld => []RaidsAgree
<1> DEFINE Inv == TypeOK /\ Consistent /\ GroupFitsItsType
<1>1. InitInWorld => Inv
  BY BoundAssumption, FS_EmptySet, SizeAssumption
  DEF InitInWorld, TypeOK, SessionState, FirstId, Consistent, LeaderIsMember,
      RowsMatchGroups, RestartAddsNobody, GroupFitsItsType
<1>2. Inv /\ [Next]_vars => Inv'
  BY NextType, NextConsistent, NextFits
<1>3. Inv => RaidsAgree
  BY DEF RaidsAgree
<1> HIDE DEF Inv
<1> QED
  BY <1>1, <1>2, <1>3, PTL DEF SpecInWorld

(* What was shown of each part holds of a behaviour of all three. *)
THEOREM CharactersSound ==
  ASSUME SpellsGiven, SpellsApart, MaxRestarts = 0, NormalMax <= RaidMax
  PROVE  CharactersSpec => [](RaidsAgree /\ CastsAgree /\ AurasAgree)
BY PartsOfCharacters, RaidsInWorldAgree, CastsFit, CastersKeepOneAura, PTL
=============================================================================
