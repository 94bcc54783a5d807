------------------------------- MODULE Trade -------------------------------
(***************************************************************************)
(* Trading on a world node: the TradeData two players share, the trade     *)
(* handlers of Player, and the part of Inventory a trade depends on, with  *)
(* the free slot and item counters Inventory keeps beside its slots.       *)
(*                                                                         *)
(* One handler is one step.  Nothing in the code tells a trade that an     *)
(* item on the table was moved, sold or destroyed in the meantime.         *)
(***************************************************************************)
EXTENDS Integers, FiniteSets, Places

CONSTANTS
  Players,        \* players in the world of this node
  TradeIds,       \* bound: TradeData objects that exist at a time
  Items,          \* item instances (one stack each)
  Entries, EntryOf, MaxCount,  \* entry of an item, maxcount of an entry (0: none)
  Pack, Equipment, BuyBack,    \* absolute slots of a character
  TradeSlots,     \* MaxTradeSlots
  Gold,           \* bound: the amounts a client offers or spends
  Price,          \* sell price of an item
  Word,           \* 2^32, the width of Coinage
  Counter,        \* 2^16, the width of m_freeSlots and m_itemCounter
  MaxCoin,        \* bound: the money a character starts with
  MaxFree,        \* bound: how far m_freeSlots rises
  ZeroedHeap,     \* whether the memory of a new TradeData happens to be zero
  AssertStops     \* whether ASSERT is compiled as a trap (debug build)

ASSUME TradeAssumption ==
  /\ EntryOf \in [Items -> Entries]
  /\ MaxCount \in [Entries -> Nat]
  /\ Pack \union Equipment \union BuyBack \subseteq Nat
  /\ IsFiniteSet(Players) /\ IsFiniteSet(Pack \union Equipment \union BuyBack)
  /\ TradeSlots \in Nat \ {0}
  /\ Price \in Nat /\ Word \in Nat \ {0} /\ MaxCoin \in 0 .. (Word - 1)
  /\ Counter \in Nat \ {0} /\ MaxFree \in 0 .. (Counter - 1)
  /\ 0 \in Gold /\ Gold \subseteq 0 .. (Word - 1)
  /\ ZeroedHeap \in BOOLEAN /\ AssertStops \in BOOLEAN

CONSTANTS None, Nothing   \* a null session, an empty slot

ASSUME NoneAssumption == None \notin TradeIds \union Players /\ Nothing \notin Items

Sides == {"Owner", "Target"}
Other(side) == IF side = "Owner" THEN "Target" ELSE "Owner"
Slots == Pack \union Equipment \union BuyBack
Table == 1 .. TradeSlots

VARIABLES
  session,   \* Player::m_tradeData
  trades,    \* the TradeData objects: m_initiator and m_other, m_data
  agreed,    \* history: what was on the table when a side accepted, else {}
  bag,       \* Inventory: m_itemsBySlot, m_freeSlots, m_itemCounter
  coin,      \* character_fields::Coinage
  unmade,    \* items the world has not created yet
  fault      \* what stopped the process: an ASSERT of removeItems, addItems or setItem
             \* ("slot": a release build writes beside the table), freed memory

vars == <<session, trades, agreed, bag, coin, unmade, fault>>
world == <<bag, coin, unmade>>

-----------------------------------------------------------------------------
(* Inventory. *)

Held(b) == {s \in Slots : b.at[s] # Nothing}
SlotsOf(b, item) == {s \in Slots : b.at[s] = item}
EmptyPack(b) == {s \in Pack : b.at[s] = Nothing}
First(slots) == CHOOSE s \in slots : \A r \in slots : s <= r
\* The slots of a list that are not empty, and those up to n
Filled(items) == {n \in DOMAIN items : items[n] # Nothing}
UpTo(items, n) == {m \in Filled(items) : m <= n}
\* Those with items of an entry
Same(items, places, entry) == {n \in places : EntryOf[items[n]] = entry}

RemoveKeepsFree(b, slots) ==
  [at |-> [s \in Slots |-> IF s \in slots THEN Nothing ELSE b.at[s]],
   free |-> (b.free + Cardinality(slots \ Pack)) % Counter,
   count |-> [entry \in Entries |-> (b.count[entry] - Cardinality(Same(b.at, slots, entry))) % Counter]]
RemoveSigned(b, slots) ==
  [at |-> [s \in Slots |-> IF s \in slots THEN Nothing ELSE b.at[s]],
   free |-> (b.free + Cardinality(slots)) % Counter,
   count |-> [entry \in Entries |-> b.count[entry] - Cardinality(Same(b.at, slots, entry))]]
\* removeItem of whole stacks; the counters do not ask what kind of slot it was.
RemoveItem(b, slots) ==
  [at |-> [s \in Slots |-> IF s \in slots THEN Nothing ELSE b.at[s]],
   free |-> (b.free + Cardinality(slots)) % Counter,
   count |-> [entry \in Entries |-> (b.count[entry] - Cardinality(Same(b.at, slots, entry))) % Counter]]

(* addItem for what lies in the slots of a list, one after the other.  An entry
   at its limit, a counter or a pack that is exhausted stay so: what fits is an
   initial part of what the limits allow. *)
Allowed(b, items) ==
  {n \in Filled(items) :
     LET entry == EntryOf[items[n]]
     IN  \/ MaxCount[entry] = 0
         \/ b.count[entry] + Cardinality(Same(items, UpTo(items, n), entry)) <= MaxCount[entry]}
Fitting(b, items) ==
  {n \in Allowed(b, items) :
     Rank(Allowed(b, items), n) <= b.free /\ Rank(Allowed(b, items), n) <= Cardinality(EmptyPack(b))}

\* Those items go to the first empty slots.
AddItem(b, items, those) ==
  [at |-> [s \in Slots |-> IF s \in EmptyPack(b) /\ Rank(EmptyPack(b), s) <= Cardinality(those)
                           THEN items[Nth(those, Rank(EmptyPack(b), s))] ELSE b.at[s]],
   free |-> b.free - Cardinality(those),
   count |-> [entry \in Entries |-> (b.count[entry] + Cardinality(Same(items, those, entry))) % Counter]]

\* A sold item goes to the buyback slot and takes the place of the one there.
SoldItem(b, s) == [RemoveItem(b, {s}) EXCEPT !.at[First(BuyBack)] = b.at[s]]

GainItem(p, item) ==
  /\ fault = "none"
  /\ item \in unmade
  /\ Fitting(bag[p], <<item>>) = {1}
  /\ bag' = [bag EXCEPT ![p] = AddItem(@, <<item>>, {1})]
  /\ unmade' = unmade \ {item}
  /\ UNCHANGED <<session, trades, agreed, coin, fault>>

DestroyItem(p, s) ==
  /\ fault = "none"
  /\ s \in Held(bag[p])
  /\ bag[p].free < MaxFree
  /\ bag' = [bag EXCEPT ![p] = RemoveItem(@, {s})]
  /\ UNCHANGED <<session, trades, agreed, coin, unmade, fault>>

SellItem(p, s) ==
  /\ fault = "none"
  /\ s \in Held(bag[p])
  /\ bag[p].free < MaxFree
  /\ bag' = [bag EXCEPT ![p] = SoldItem(@, s)]
  /\ coin' = [coin EXCEPT ![p] = (@ + Price) % Word]
  /\ UNCHANGED <<session, trades, agreed, unmade, fault>>

FreeAfterMove(b, from, to) ==
  CASE b.at[to] = Nothing /\ from \in Pack /\ to \notin Pack -> b.free + 1
    [] b.at[to] = Nothing /\ from \notin Pack /\ to \in Pack -> b.free - 1
    [] OTHER -> b.free

\* swapItems; it takes an item out of a buyback slot but puts none there.
MoveItem(p, from, to) ==
  /\ fault = "none"
  /\ from \in Held(bag[p]) /\ to \in (Pack \union Equipment) \ {from}
  /\ from \in BuyBack => to \notin Held(bag[p])
  /\ FreeAfterMove(bag[p], from, to) <= MaxFree
  /\ LET b == bag[p]
     IN bag' = [bag EXCEPT ![p] =
                  [b EXCEPT !.at = [@ EXCEPT ![to] = b.at[from], ![from] = b.at[to]],
                            !.free = FreeAfterMove(b, from, to)]]
  /\ UNCHANGED <<session, trades, agreed, coin, unmade, fault>>

BuySpell(p, cost) ==
  /\ fault = "none"
  /\ cost > 0
  /\ coin[p] >= cost
  /\ coin' = [coin EXCEPT ![p] = @ - cost]
  /\ UNCHANGED <<session, trades, agreed, bag, unmade, fault>>

-----------------------------------------------------------------------------
(* TradeData. *)

NoItems == [slot \in Table |-> Nothing]

\* The constructor initialises neither gold nor accepted.
NewTrade(p, q, gold, accepted) ==
  [who |-> [side \in Sides |-> IF side = "Owner" THEN p ELSE q],
   gold |-> gold,
   items |-> [side \in Sides |-> NoItems],
   accepted |-> accepted]

NoTrade == NewTrade(None, None, [side \in Sides |-> 0], [side \in Sides |-> FALSE])
Garbage == IF ZeroedHeap THEN {0} ELSE Gold
GarbageFlag == IF ZeroedHeap THEN {FALSE} ELSE BOOLEAN

Trading(p) == session[p] # None
TradeOf(p) == trades[session[p]]
SideOf(p) == IF TradeOf(p).who["Owner"] = p THEN "Owner" ELSE "Target"

\* Sessions are shared pointers: an object lives while a session refers to it.
Alive(t) == \E p \in Players : session'[p] = t
Freed(objects, gone) == [t \in TradeIds |-> IF Alive(t) THEN objects[t] ELSE gone]
NoneAgreed == [side \in Sides |-> {}]

DroppedByOwner(trade) == [p \in Players |-> IF trade.who["Owner"] = p THEN None ELSE session[p]]
\* destroy: both players drop the object they share.
Dropped(trade) ==
  [p \in Players |-> IF \E side \in Sides : trade.who[side] = p THEN None ELSE session[p]]

\* In a trade with oneself the first reset frees the object that destroy reads next.
MayCrash(trade) ==
  fault' \in IF trade.who["Owner"] = trade.who["Target"] THEN {"none", "freed"} ELSE {"none"}

Destroy(trade) ==
  /\ session' = Dropped(trade)
  /\ trades' = Freed(trades, NoTrade)
  /\ agreed' = Freed(agreed, NoneAgreed)
  /\ MayCrash(trade)

OnTable(trade) == [side \in Sides |-> <<trade.gold[side], trade.items[side]>>]

ResetsOwn(side) == {side}
Resets(side) == Sides

\* setGold and setItem: the offer of a side changes, nobody has accepted any more.
ChangeOffer(p, trade) ==
  /\ trades' = [trades EXCEPT ![session[p]] =
       [trade EXCEPT !.accepted = [side \in Sides |-> @[side] /\ side \notin Resets(SideOf(p))]]]
  /\ agreed' = [agreed EXCEPT ![session[p]] =
       [side \in Sides |-> IF side \in Resets(SideOf(p)) THEN {} ELSE @[side]]]
  /\ UNCHANGED <<session, world, fault>>

\* getTradedItemCount is one too low for both sides, so their difference is right.
Required(trade, side) ==
  Cardinality(Filled(trade.items[Other(side)])) - Cardinality(Filled(trade.items[side]))

HasGold(trade, side) == coin[trade.who[side]] >= trade.gold[side]
OwnerHasRoom(trade, side) == side = "Owner" => bag[trade.who[side]].free >= Required(trade, side)
HasRoom(trade, side) == bag[trade.who[side]].free >= Required(trade, side)
Checked(trade) == \A side \in Sides : HasGold(trade, side) /\ HasRoom(trade, side)

(* removeItems and addItems.  ASSERT(false) stops a debug build; a release
   build compiles it as unreachable: it may go on or leave the function. *)
Reached(items, good, leave) == {n \in good : leave => UpTo(items, n) \subseteq good}
Present(b, items) == {n \in Filled(items) : SlotsOf(b, items[n]) # {}}
RemoveItems(b, items, leave) ==
  RemoveItem(b, {First(SlotsOf(b, items[n])) : n \in Reached(items, Present(b, items), leave)})
AddItems(b, items, leave) == AddItem(b, items, Reached(items, Fitting(b, items), leave))

Exchange(trade, leave) ==
  LET owner == trade.who["Owner"]
      target == trade.who["Target"]
      gave == trade.items["Owner"]
      got == trade.items["Target"]
      b1 == [bag EXCEPT ![owner] = RemoveItems(@, gave, leave)]
      b2 == [b1 EXCEPT ![target] = RemoveItems(@, got, leave)]
      b3 == [b2 EXCEPT ![target] = AddItems(@, gave, leave)]
  IN [bags |-> [b3 EXCEPT ![owner] = AddItems(@, got, leave)],
      removed |-> Present(bag[owner], gave) = Filled(gave) /\ Present(b1[target], got) = Filled(got),
      added |-> Fitting(b2[target], gave) = Filled(gave) /\ Fitting(b3[owner], got) = Filled(got)]

Due(trade, side) == coin[trade.who[side]] - trade.gold[side] + trade.gold[Other(side)]
Paid(trade, side) == Due(trade, side) % Word

PerformTrade(trade) ==
  \/ ~Checked(trade) /\ Destroy(trade) /\ UNCHANGED world
  \/ /\ Checked(trade)
     /\ \E leave \in BOOLEAN : LET x == Exchange(trade, leave)
        IN \/ /\ AssertStops => x.removed /\ x.added
              /\ bag' = x.bags
              /\ coin' = [coin EXCEPT ![trade.who["Owner"]] = Paid(trade, "Owner"),
                                      ![trade.who["Target"]] = Paid(trade, "Target")]
              /\ Destroy(trade)
              /\ UNCHANGED unmade
           \/ /\ AssertStops /\ ~x.removed /\ fault' = "remove"
              /\ UNCHANGED <<session, trades, agreed, world>>
           \/ /\ AssertStops /\ x.removed /\ ~x.added /\ fault' = "add"
              /\ UNCHANGED <<session, trades, agreed, world>>

-----------------------------------------------------------------------------
(* Handlers of the trade packets. *)

\* A dead, stunned or departing player, a busy or distant target: refused.
InitiateTrade(p, q) ==
  /\ fault = "none"
  /\ LET left == IF Trading(p) THEN Dropped(TradeOf(p)) ELSE session
     IN \/ /\ session' = left
           /\ trades' = Freed(trades, NoTrade)
           /\ agreed' = Freed(agreed, NoneAgreed)
        \/ /\ left[q] = None
           /\ \E t \in TradeIds, gold \in [Sides -> Garbage], accepted \in [Sides -> GarbageFlag] :
                /\ \A r \in Players : left[r] # t
                /\ session' = [left EXCEPT ![p] = t, ![q] = t]
                /\ trades' = Freed([trades EXCEPT ![t] = NewTrade(p, q, gold, accepted)], NoTrade)
                /\ agreed' = Freed([agreed EXCEPT ![t] = NoneAgreed], NoneAgreed)
  /\ IF Trading(p) THEN MayCrash(TradeOf(p)) ELSE UNCHANGED fault
  /\ UNCHANGED world

\* Also when the character leaves the world (Player::onDespawn).
CancelTrade(p) ==
  /\ fault = "none"
  /\ Trading(p)
  /\ Destroy(TradeOf(p))
  /\ UNCHANGED world

AcceptTrade(p) ==
  /\ fault = "none"
  /\ Trading(p)
  /\ LET side == SideOf(p)
         trade == [TradeOf(p) EXCEPT !.accepted[side] = TRUE]
     IN /\ ~TradeOf(p).accepted[side]
        /\ IF trade.accepted[Other(side)]
           THEN PerformTrade(trade)
           ELSE /\ trades' = [trades EXCEPT ![session[p]] = trade]
                /\ agreed' = [agreed EXCEPT ![session[p]][side] = {OnTable(trade)}]
                /\ UNCHANGED <<session, world, fault>>

UnacceptTrade(p) ==
  /\ fault = "none"
  /\ Trading(p)
  /\ trades' = [trades EXCEPT ![session[p]].accepted[SideOf(p)] = FALSE]
  /\ agreed' = [agreed EXCEPT ![session[p]][SideOf(p)] = {}]
  /\ UNCHANGED <<session, world, fault>>

SetTradeGold(p, gold) ==
  /\ fault = "none"
  /\ Trading(p)
  /\ ChangeOffer(p, [TradeOf(p) EXCEPT !.gold[SideOf(p)] = gold])

Withdrawn(items, item) == [slot \in Table |-> IF items[slot] = item THEN Nothing ELSE items[slot]]

\* Any slot will do: backpack, equipment or buyback.
SetTradeItem(p, slot, s) ==
  /\ fault = "none"
  /\ Trading(p)
  /\ s \in Held(bag[p])
  /\ LET item == bag[p].at[s]
     IN ChangeOffer(p, [TradeOf(p) EXCEPT !.items[SideOf(p)] = [Withdrawn(@, item) EXCEPT ![slot] = item]])

ClearTradeItem(p, slot) ==
  /\ fault = "none"
  /\ Trading(p)
  /\ ChangeOffer(p, [TradeOf(p) EXCEPT !.items[SideOf(p)][slot] = Nothing])

\* setItem relies on a slot that the handlers take from the packet unchecked.
SlotOutOfTable(p) ==
  /\ fault = "none"
  /\ Trading(p)
  /\ fault' = "slot"
  /\ UNCHANGED <<session, trades, agreed, world>>

-----------------------------------------------------------------------------
TradeStep ==
  \E p \in Players :
    \/ \E q \in Players : InitiateTrade(p, q)
    \/ CancelTrade(p) \/ SlotOutOfTable(p)
    \/ AcceptTrade(p)
    \/ UnacceptTrade(p)
    \/ \E gold \in Gold : SetTradeGold(p, gold)
    \/ \E slot \in Table : \/ \E s \in Slots : SetTradeItem(p, slot, s)
                           \/ ClearTradeItem(p, slot)

InventoryStep ==
  \E p \in Players :
    \/ \E item \in unmade : GainItem(p, item)
    \/ \E s \in Slots : DestroyItem(p, s) \/ SellItem(p, s)
    \/ \E from, to \in Slots : MoveItem(p, from, to)
    \/ \E cost \in Gold : BuySpell(p, cost)

Next == TradeStep \/ InventoryStep

\* Nobody trades; the characters carry what they came with in their backpacks.
CountOf(at, entry) == Cardinality({s \in Pack : at[s] # Nothing /\ EntryOf[at[s]] = entry})
FullCount(at) == [at |-> at,
                  free |-> Cardinality({s \in Pack : at[s] = Nothing}),
                  count |-> [entry \in Entries |-> CountOf(at, entry)]]

NoDuplicate ==
  \A item \in Items : Cardinality({w \in Players \X Slots : bag[w[1]].at[w[2]] = item}) <= 1

Init ==
  /\ session = [p \in Players |-> None]
  /\ trades = [t \in TradeIds |-> NoTrade]
  /\ agreed = [t \in TradeIds |-> NoneAgreed]
  /\ fault = "none"
  /\ coin \in [Players -> 0 .. MaxCoin]
  /\ \E at \in [Players -> [Slots -> Items \union {Nothing}]] :
       /\ \A p \in Players : \A s \in Slots \ Pack : at[p][s] = Nothing
       /\ bag = [p \in Players |-> FullCount(at[p])]
  /\ NoDuplicate
  /\ unmade \in SUBSET {item \in Items : \A p \in Players : SlotsOf(bag[p], item) = {}}

Spec == Init /\ [][Next]_vars

-----------------------------------------------------------------------------
(* Properties. *)

Inventory ==
  [at : [Slots -> Items \union {Nothing}], free : 0 .. (Counter - 1), count : [Entries -> 0 .. (Counter - 1)]]
TradeData ==
  [who : [Sides -> Players \union {None}], gold : [Sides -> Gold],
   items : [Sides -> [Table -> Items \union {Nothing}]], accepted : [Sides -> BOOLEAN]]

Shown == [Sides -> Gold \X [Table -> Items \union {Nothing}]]

TypeOK ==
  /\ session \in [Players -> TradeIds \union {None}]
  /\ trades \in [TradeIds -> TradeData]
  /\ agreed \in [TradeIds -> [Sides -> SUBSET Shown]]
  /\ bag \in [Players -> Inventory]
  /\ coin \in [Players -> 0 .. (Word - 1)]
  /\ unmade \subseteq Items
  /\ fault \in {"none", "remove", "add", "slot", "freed"}

(* The players of a trade are the two whose session it is: nobody keeps a
   trade that the other has left, whoever starts, cancels or closes it
   (Player::initiateTrade, TradeData::destroy). *)
SessionsAgree ==
  \A p \in Players : Trading(p) =>
    /\ \E side \in Sides : TradeOf(p).who[side] = p
    /\ \A side \in Sides :
         TradeOf(p).who[side] \in Players /\ session[TradeOf(p).who[side]] = session[p]

(* An acceptance stands only for what was on the table when it was given:
   any later change of either offer withdraws it (setGold, setItem). *)
AcceptedAsShown ==
  \A p \in Players : Trading(p) =>
    \A side \in Sides :
      TradeOf(p).accepted[side] => agreed[session[p]][side] = {OnTable(TradeOf(p))}

(* An item lies in one trade slot and in one inventory at most, also when it
   is moved, sold or destroyed while it is on the table (TradeData::setItem,
   performTrade): what is added to a side was taken from the other. *)
OneOfEach ==
  /\ NoDuplicate
  /\ \A p \in Players : Trading(p) => \A side \in Sides : \A item \in Items :
       Cardinality({slot \in Table : TradeOf(p).items[side][slot] = item}) <= 1

(* m_freeSlots never promises less than the backpack has: the ASSERT of
   swapItems and the room check of a trade never fail for lack of it. *)
FreeSlotsCover == \A p \in Players : bag[p].free >= Cardinality(EmptyPack(bag[p]))

FreeSlotsExact == \A p \in Players : bag[p].free = Cardinality(EmptyPack(bag[p]))

(* Inventories stay sound under every item that is traded, moved, sold or
   destroyed (Inventory::addItem, removeItem, swapItems). *)
InventoriesAgree == OneOfEach /\ FreeSlotsCover

Closes(p) == AcceptTrade(p) /\ TradeOf(p).accepted[Other(SideOf(p))]

(* Both sides pay what they offered and have, and get what the other offered, or
   nobody pays anything; only a purse that is too full for what it gets wraps:
   performTrade adds to Coinage without a check. *)
PaidFor(trade) ==
  \A side \in Sides :
    /\ trade.gold[side] <= coin[trade.who[side]]
    /\ coin'[trade.who[side]] =
         IF Due(trade, side) < Word THEN Due(trade, side) ELSE Due(trade, side) - Word
PaidAsAgreed == [][\A p \in Players : Closes(p) => coin' = coin \/ PaidFor(TradeOf(p))]_vars

Offered(trade, side) == {item \in Items : \E slot \in Table : trade.items[side][slot] = item}
InPack(b, item) == \E s \in Pack : b.at[s] = item

\* What is offered still lies in the backpack, is not limited, and m_freeSlots is right.
InOrder(trade) ==
  /\ FreeSlotsExact
  /\ \A side \in Sides : \A item \in Offered(trade, side) :
       InPack(bag[trade.who[side]], item) /\ MaxCount[EntryOf[item]] = 0

Swapped(trade) ==
  \A side \in Sides :
    /\ \A item \in Offered(trade, side) :
         /\ InPack(bag'[trade.who[Other(side)]], item)
         /\ SlotsOf(bag'[trade.who[side]], item) = {}
    /\ \A s \in Slots :
         LET item == bag[trade.who[side]].at[s]
         IN item \notin Offered(trade, side) \union {Nothing} => bag'[trade.who[side]].at[s] = item

(* As long as the backpacks are what the players showed, a trade hands over
   all that was offered or nothing: the room check, which counts the slots
   both sides give away, is enough. *)
SwappedOrRefused ==
  [][\A p \in Players : Closes(p) /\ InOrder(TradeOf(p)) =>
       /\ fault' = "none"
       /\ bag' = bag \/ Swapped(TradeOf(p))]_vars

(* A closed trade exchanges items and money as both sides saw them, or
   nothing (performTrade). *)
ExchangedAsAgreed == SwappedOrRefused /\ PaidAsAgreed

(* The ASSERTs of performTrade never fail: every item on the table can be
   removed, and adding the other's "was checked before, so it is safe here". *)
ExchangeSafe == fault \notin {"remove", "add"}
=============================================================================
