----------------------------- MODULE Characters -----------------------------
(* What characters in the world do: groups that may become raids, the       *)
(* spells and the attack of one of them, and the auras on two.  They share  *)
(* no state, so that one run takes PlayerGroup, Casting and Auras one at a  *)
(* time.                                                                    *)
EXTENDS MCPlayerGroup, Casting, Auras

CONSTANTS hex, bash, bear, cat, ward  \* spells that put auras on units

VARIABLE part
characterVars == <<part, vars, castingVars, auraVars>>

\* Stunned or feared, not both
OneHold == Cardinality(me'.held) <= 1
\* One foe is dead or gone, one character out of the world or on its way.
OneFoeLost == Cardinality({f \in Foe : foe'[f] # "alive"}) <= 1
OneAway == Cardinality({c \in Char : left'[c] \/ session'[c] # "inWorld"}) <= 1
\* Moves from node to node are left to MCRestarts.
NobodyMoves == \A c \in Char : session'[c] \notin {"moving", "lost"}

\* One unit with shapes, stacks and a stun; two units that one of them stuns
\* in two ways, or that both stun; at most two auras on each of the two, and
\* one posted removal of a passive spell.
One == CHOOSE u \in Bearer : TRUE
TwoAuras == \A u \in Bearer : Len(unit'[u].auras) <= 2
OneLeaves == \A u \in Bearer, s \in AuraSpell : leaving'[u][s] <= 1
AurasParts == {"shapes", "stuns", "hexes"}
AurasInParts ==
  \/ part = "shapes" /\ AurasStep({One}, {bash, bear, cat, ward}, Bearer) /\ OneLeaves
  \/ part = "stuns" /\ AurasStep(Bearer, {hex, bash}, {One}) /\ TwoAuras
  \/ part = "hexes" /\ AurasStep(Bearer, {hex}, Bearer) /\ TwoAuras

CharactersInit ==
  /\ part \in {"group", "casting"} \union AurasParts
  /\ InitInWorld /\ CastingInit /\ AurasInit

CharactersNext ==
  /\ UNCHANGED part
  /\ \/ part = "group" /\ Next /\ OneAway /\ NobodyMoves /\ UNCHANGED <<castingVars, auraVars>>
     \/ part = "casting" /\ CastingNext /\ OneHold /\ OneFoeLost /\ UNCHANGED <<vars, auraVars>>
     \/ AurasInParts /\ UNCHANGED <<vars, castingVars>>

CharactersSpec == CharactersInit /\ [][CharactersNext]_characterVars

(* Types of the spells, where they change, and of the auras. *)
CharactersTypeOK ==
  /\ part = "casting" => CastingTypeOK
  /\ part \in AurasParts => AurasTypeOK
=============================================================================
