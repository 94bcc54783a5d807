------------------------------ MODULE MCTrade ------------------------------
(***************************************************************************)
(* Instances of Trade for TLC.  The run Trade looks at two casts, chosen   *)
(* in its initial states: a pair of players and one table with items to    *)
(* offer, or all players and tables with money only.                       *)
(***************************************************************************)
EXTENDS Trade, TLC

CONSTANTS
  Ring,     \* the entry of which a character may carry one
  Pair,     \* the two players with items
  FirstTrade  \* the TradeData they use

MCEntryOf == [item \in Items |-> CHOOSE entry \in Entries : (entry = Ring) <=> (item = 2)]
MCMaxCount == [entry \in Entries |-> IF entry = Ring THEN 1 ELSE 0]

VARIABLE withItems   \* which cast it is

\* One character carries the sword 1; the world may still make the ring 2.
ItemsInit ==
  /\ withItems = TRUE
  /\ Init
  /\ \A p \in Players : coin[p] = 0
  /\ \E p \in Pair : SlotsOf(bag[p], 1) # {}
  /\ unmade = {2}

MoneyInit ==
  /\ withItems = FALSE
  /\ Init
  /\ \A p \in Players : Held(bag[p]) = {}
  /\ unmade = {}

ItemsOnly ==
  /\ \A p \in Players \ Pair : session'[p] = None /\ bag'[p] = bag[p]
  /\ \A p \in Pair : session'[p] \in {None, FirstTrade} /\ coin'[p] >= coin[p] /\ coin'[p] <= Price
  /\ \A side \in Sides : trades'[FirstTrade].gold[side] = 0

castVars == <<withItems>>
CastNext == Next /\ (withItems => ItemsOnly) /\ UNCHANGED castVars

ItemsSpec == ItemsInit /\ [][CastNext]_<<vars, castVars>>
CastSpec == (ItemsInit \/ MoneyInit) /\ [][CastNext]_<<vars, castVars>>

Symmetry == Permutations(Pair) \union Permutations(TradeIds \ {FirstTrade})
=============================================================================
