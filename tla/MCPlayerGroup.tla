--------------------------- MODULE MCPlayerGroup ---------------------------
(***************************************************************************)
(* TLC instance of PlayerGroup that starts when every character is in the  *)
(* world already and nobody is in a group, a state Spec reaches by logins. *)
(***************************************************************************)
EXTENDS PlayerGroup

InitInWorld ==
  /\ session = [c \in Char |-> "inWorld"]
  /\ leader = [g \in GroupId |-> NoChar]
  /\ members = [g \in GroupId |-> {}]
  /\ assistants = [g \in GroupId |-> {}]
  /\ invited = [g \in GroupId |-> {}]
  /\ raid = [g \in GroupId |-> FALSE]
  /\ registered = {}
  /\ nextId = FirstId
  /\ group = [c \in Char |-> NoGroup]
  /\ worldGroup = [c \in Char |-> NoGroup]
  /\ left = [c \in Char |-> FALSE]
  /\ rowLeader = [g \in GroupId |-> NoChar]
  /\ rowMembers = [g \in GroupId |-> {}]
  /\ lastGroup = [c \in Char |-> NoGroup]
  /\ restarts = 0
  /\ requests = 0

SpecInWorld == InitInWorld /\ [][Next]_vars
=============================================================================
