------------------------- MODULE PlayerGroupHistory -------------------------
(***************************************************************************)
(* PlayerGroup with history variables, for what the realm promises a node  *)
(* about the group of a character.                                         *)
(*                                                                         *)
(* A member whose session ends without a logout may come back without its  *)
(* group: m_group is null, so that it can be invited to the group it is a  *)
(* member of.  If that group is full when it accepts, addMember uses up    *)
(* the invitation and returns before the node is told (askedAgain).        *)
(*                                                                         *)
(* A character who joins a group when the node has let it go already, but  *)
(* the realm does not know, is told of at that node in vain; if it moves   *)
(* to another, what the first has sent back overwrites the realm's copy    *)
(* and is what the next one gets (missed).  Only the property reads them.  *)
(***************************************************************************)
EXTENDS PlayerGroup

VARIABLES
  askedAgain,  \* characters once invited to a group they were in
  missed       \* characters whose node was gone when they joined their group
historyVars == <<vars, askedAgain, missed>>

InvitedMembers == {c \in Char : \E g \in GroupId : c \in invited[g] \cap members[g]}
JoinInVain ==
  {c \in Char : left[c] /\ \E g \in registered' :
                   c \in members'[g] /\ (g \in registered => c \notin members[g])}

HistoryInit == Init /\ askedAgain = {} /\ missed = {}
HistoryNext ==
  /\ Next
  /\ askedAgain' = askedAgain \cup InvitedMembers'
  /\ missed' = {c \in missed \cup JoinInVain : group'[c] # NoGroup}
HistorySpec == HistoryInit /\ [][HistoryNext]_historyVars

\* The node of a character who is a member of the group its player points to,
\* with no invitation to it pending, knows that group (it decides who shares
\* experience and loot there), also after moves from node to node, unless the
\* character was invited while it was a member or has joined the group while
\* it was leaving a node (characterGroupChanged, and the group id sent with the
\* character at a login and by handleMoveWorldPortAck).
WorldAgrees ==
  \A c \in Char \ (askedAgain \cup missed) :
    (/\ OnNode(c)
     /\ group[c] \in registered
     /\ c \in members[group[c]] \ invited[group[c]])
      => worldGroup[c] = group[c]
=============================================================================
