-------------------------- MODULE CharacterJourney --------------------------
(***************************************************************************)
(* What the realm and its nodes promise of a character while no session    *)
(* and no link is cut off: there is one of it.  It is at home in the       *)
(* database, sent to a node, playing there or leaving it; it goes to a     *)
(* node only from home and comes home only from a node, changes only while *)
(* it plays, and arrives with the data it left with.                       *)
(***************************************************************************)
EXTENDS Naturals

CONSTANTS Node, NoNode

VARIABLES
  stage,  \* where it is; "lost" once something was cut off
  at,     \* the node it is sent to, plays in or leaves
  data    \* its state, wherever it is kept

vars == <<stage, at, data>>

Init == stage = "home" /\ at = NoNode /\ data = 0

\* The login, or the second half of a transfer.
SentTo(n) == stage = "home" /\ stage' = "sent" /\ at' = n /\ UNCHANGED data
Arrives == stage = "sent" /\ stage' = "playing" /\ UNCHANGED <<at, data>>
Plays == stage = "playing" /\ data' = data + 1 /\ UNCHANGED <<stage, at>>
\* A logout, the first half of a transfer, or the end of the session.
Leaves == stage = "playing" /\ stage' = "leaving" /\ UNCHANGED <<at, data>>
ComesHome == stage = "leaving" /\ stage' = "home" /\ at' = NoNode /\ UNCHANGED data
CutOff == stage' = "lost" /\ at' = NoNode /\ data' = 0

Next ==
  \/ \E n \in Node : SentTo(n)
  \/ Arrives
  \/ Plays
  \/ Leaves
  \/ ComesHome
  \/ CutOff

Spec == Init /\ [][Next]_vars
=============================================================================
