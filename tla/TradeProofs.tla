---------------------------- MODULE TradeProofs ----------------------------
(***************************************************************************)
(* Proofs about Trade, for any number of players, trades, items and slots, *)
(* whatever happens to the items meanwhile: the two players of a trade     *)
(* agree about it, an acceptance stands for what was shown, inventories    *)
(* stay sound, and a closed trade exchanges what both sides saw.           *)
(***************************************************************************)
EXTENDS Trade, FiniteSetTheorems, TLAPS

\* The fields of a TradeData; what the offers contain does not matter here.
Shaped(trade) ==
  /\ DOMAIN trade = {"who", "gold", "items", "accepted"}
  /\ trade.who \in [Sides -> Players \union {None}]
  /\ DOMAIN trade.gold = Sides
  /\ DOMAIN trade.items = Sides
  /\ trade.accepted \in [Sides -> BOOLEAN]

Shapes ==
  /\ session \in [Players -> TradeIds \union {None}]
  /\ DOMAIN trades = TradeIds
  /\ \A t \in TradeIds : Shaped(trades[t])
  /\ DOMAIN agreed = TradeIds
  /\ \A t \in TradeIds : DOMAIN agreed[t] = Sides

SInv == Shapes /\ SessionsAgree /\ (ZeroedHeap => AcceptedAsShown)

(* A trade that is not in use has all its fields. *)
LEMMA NoTradeShaped == Shaped(NoTrade) /\ DOMAIN NoneAgreed = Sides
  BY DEF Shaped, NoTrade, NewTrade, NoItems, NoneAgreed

(* Nobody trades at first. *)
LEMMA InitSInv == Init => SInv
<1> SUFFICES ASSUME Init PROVE SInv
  OBVIOUS
<1>1. Shapes
  BY NoTradeShaped DEF Init, Shapes
<1>2. \A p \in Players : ~Trading(p)
  BY DEF Init, Trading
<1> QED BY <1>1, <1>2 DEF SInv, SessionsAgree, AcceptedAsShown

(* A player who trades is on one side of the trade. *)
LEMMA SideOfPlayer ==
  ASSUME SInv, NEW p \in Players, Trading(p)
  PROVE  /\ session[p] \in TradeIds
         /\ Shaped(TradeOf(p))
         /\ SideOf(p) \in Sides
         /\ TradeOf(p).who[SideOf(p)] = p
  BY DEF SInv, Shapes, Trading, TradeOf, SideOf, SessionsAgree, Sides

\* Two players refer to the same trade or to trades with other people in them.
LEMMA Apart ==
  ASSUME SInv, NEW p \in Players, Trading(p), NEW q \in Players, Trading(q),
         NEW side \in Sides, TradeOf(q).who[side] = p
  PROVE  session[q] = session[p]
  BY DEF SInv, SessionsAgree, Trading

-----------------------------------------------------------------------------
(* A trade is destroyed. *)

(* A destroyed trade is left by exactly those who refer to it. *)
LEMMA DroppedSession ==
  ASSUME SInv, NEW p \in Players, Trading(p), NEW trade, trade.who = TradeOf(p).who
  PROVE  /\ Dropped(trade) \in [Players -> TradeIds \union {None}]
         /\ \A q \in Players : Dropped(trade)[q] = IF session[q] = session[p] THEN None ELSE session[q]
<1> SUFFICES ASSUME NEW q \in Players
             PROVE  (\E side \in Sides : trade.who[side] = q) <=> session[q] = session[p]
  BY DEF Dropped, SInv, Shapes
<1>1. ASSUME NEW side \in Sides, trade.who[side] = q
      PROVE  session[q] = session[p]
  BY <1>1 DEF SInv, SessionsAgree
<1>2. ASSUME session[q] = session[p]
      PROVE  \E side \in Sides : trade.who[side] = q
  BY <1>2 DEF SInv, SessionsAgree, Trading, TradeOf
<1> QED BY <1>1, <1>2

\* What is left of the sessions when a player leaves the trade.
Left(s) ==
  /\ s \in [Players -> TradeIds \union {None}]
  /\ \A q \in Players : s[q] # None =>
       /\ s[q] = session[q]
       /\ \A side \in Sides : s[TradeOf(q).who[side]] = s[q]

(* Whoever still trades after that trades somewhere else. *)
LEMMA DroppedLeft ==
  ASSUME SInv, NEW p \in Players, Trading(p), NEW trade, trade.who = TradeOf(p).who
  PROVE  Left(Dropped(trade)) /\ Dropped(trade)[p] = None
<1> DEFINE s == Dropped(trade)
<1>1. /\ s \in [Players -> TradeIds \union {None}]
      /\ \A q \in Players : s[q] = IF session[q] = session[p] THEN None ELSE session[q]
  BY DroppedSession
<1>2. \A q \in Players : Trading(q) => \A side \in Sides :
        TradeOf(q).who[side] \in Players /\ session[TradeOf(q).who[side]] = session[q]
  BY DEF SInv, SessionsAgree
<1> HIDE DEF s
<1> QED BY <1>1, <1>2 DEF Left, Trading, s

(* Freeing trades nobody refers to changes nothing for the others. *)
LEMMA FreeKeeps ==
  ASSUME SInv, Left(session'), trades' = Freed(trades, NoTrade), agreed' = Freed(agreed, NoneAgreed)
  PROVE  SInv'
<1>1. \A q \in Players : Trading(q)' =>
        /\ session'[q] = session[q] /\ session[q] \in TradeIds /\ Trading(q)
        /\ trades'[session[q]] = trades[session[q]]
        /\ agreed'[session[q]] = agreed[session[q]]
  BY DEF Left, Trading, Freed, Alive, SInv, Shapes
<1>2. Shapes'
  BY NoTradeShaped DEF SInv, Shapes, Freed, Left
<1>3. SessionsAgree'
  BY <1>1 DEF SInv, SessionsAgree, Left, Trading, TradeOf
<1>4. ZeroedHeap => AcceptedAsShown'
  BY <1>1 DEF SInv, AcceptedAsShown, TradeOf, OnTable
<1> QED BY <1>2, <1>3, <1>4 DEF SInv

(* Destroying a trade keeps sessions and acceptances right. *)
LEMMA DestroyKeeps ==
  ASSUME SInv, NEW p \in Players, Trading(p), NEW trade, trade.who = TradeOf(p).who, Destroy(trade)
  PROVE  SInv'
BY DroppedLeft, FreeKeeps DEF Destroy

(* So does starting one, which first cancels the trades of both players. *)
LEMMA InitiateKeeps ==
  ASSUME SInv, NEW p \in Players, NEW q \in Players, InitiateTrade(p, q)
  PROVE  SInv'
<1> DEFINE left == IF Trading(p) THEN Dropped(TradeOf(p)) ELSE session
<1>1. Left(left) /\ left[p] = None
  <2>1. CASE Trading(p)
    BY <2>1, DroppedLeft
  <2>2. CASE ~Trading(p)
    BY <2>2 DEF Left, Trading, SInv, Shapes, SessionsAgree
  <2> QED BY <2>1, <2>2
<1> HIDE DEF left
<1>2. CASE /\ session' = left
           /\ trades' = Freed(trades, NoTrade)
           /\ agreed' = Freed(agreed, NoneAgreed)
  BY <1>1, <1>2, FreeKeeps
<1>3. ASSUME NEW t \in TradeIds, NEW gold \in [Sides -> Garbage], NEW accepted \in [Sides -> GarbageFlag],
             left[q] = None,
             \A r \in Players : left[r] # t,
             session' = [left EXCEPT ![p] = t, ![q] = t],
             trades' = Freed([trades EXCEPT ![t] = NewTrade(p, q, gold, accepted)], NoTrade),
             agreed' = Freed([agreed EXCEPT ![t] = NoneAgreed], NoneAgreed)
      PROVE  SInv'
  <2> DEFINE new == NewTrade(p, q, gold, accepted)
  <2>1. Shaped(new) /\ \A side \in Sides : new.who[side] \in {p, q}
    BY DEF Shaped, NewTrade, NoItems, GarbageFlag
  <2>2. new.who["Owner"] = p /\ new.who["Target"] = q
    BY DEF NewTrade, Sides
  <2>3. ZeroedHeap => \A side \in Sides : ~new.accepted[side]
    BY DEF NewTrade, GarbageFlag
  <2> HIDE DEF new
  <2>4. session' \in [Players -> TradeIds \union {None}]
    BY <1>1, <1>3 DEF Left
  <2>5. \A r \in Players : session'[r] = IF r \in {p, q} THEN t ELSE left[r]
    BY <1>1, <1>3 DEF Left
  <2>6. trades'[t] = new
    BY <1>3, <2>5 DEF Freed, Alive, SInv, Shapes, new
  <2>7. \A r \in Players : Trading(r)' /\ r \notin {p, q} =>
          /\ session'[r] = session[r] /\ left[r] = session[r]
          /\ session[r] \in TradeIds \ {t} /\ Trading(r)
          /\ trades'[session[r]] = trades[session[r]]
          /\ agreed'[session[r]] = agreed[session[r]]
    BY <1>1, <1>3, <2>5 DEF Left, Freed, Alive, SInv, Shapes, Trading
  <2>8. Shapes'
    <3>1. \A u \in TradeIds : trades'[u] \in {trades[u], new, NoTrade} /\ agreed'[u] \in {agreed[u], NoneAgreed}
      BY <1>3 DEF Freed, SInv, Shapes, new
    <3>2. DOMAIN trades' = TradeIds /\ DOMAIN agreed' = TradeIds
      BY <1>3 DEF Freed
    <3> QED BY <2>1, <2>4, <3>1, <3>2, NoTradeShaped DEF SInv, Shapes
  <2>9. SessionsAgree'
    <3>1. ASSUME NEW r \in {p, q}
          PROVE  /\ \E side \in Sides : TradeOf(r)'.who[side] = r
                 /\ \A side \in Sides :
                      TradeOf(r)'.who[side] \in Players /\ session'[TradeOf(r)'.who[side]] = session'[r]
      BY <2>1, <2>2, <2>5, <2>6 DEF TradeOf, Sides
    <3>2. ASSUME NEW r \in Players, Trading(r)', r \notin {p, q}
          PROVE  /\ \E side \in Sides : TradeOf(r)'.who[side] = r
                 /\ \A side \in Sides :
                      TradeOf(r)'.who[side] \in Players /\ session'[TradeOf(r)'.who[side]] = session'[r]
      <4>1. TradeOf(r)' = TradeOf(r) /\ Trading(r) /\ left[r] # None
        BY <2>7, <3>2 DEF TradeOf, Trading
      <4>2. \A side \in Sides : left[TradeOf(r).who[side]] = left[r]
        BY <1>1, <4>1 DEF Left
      <4>3. \A side \in Sides : TradeOf(r).who[side] \in Players \ {p, q}
        BY <1>1, <1>3, <4>1, <4>2 DEF SInv, SessionsAgree
      <4> QED BY <2>5, <2>7, <3>2, <4>1, <4>2, <4>3 DEF SInv, SessionsAgree
    <3> QED BY <3>1, <3>2 DEF SessionsAgree
  <2>10. ZeroedHeap => AcceptedAsShown'
    <3> SUFFICES ASSUME ZeroedHeap, NEW r \in Players, Trading(r)', NEW side \in Sides,
                        TradeOf(r)'.accepted[side]
                 PROVE  agreed'[session'[r]][side] = {OnTable(TradeOf(r))'}
      BY DEF AcceptedAsShown
    <3>1. r \notin {p, q}
      BY <2>3, <2>5, <2>6 DEF TradeOf
    <3>2. TradeOf(r)' = TradeOf(r) /\ agreed'[session'[r]] = agreed[session[r]] /\ Trading(r)
      BY <2>7, <3>1 DEF TradeOf
    <3>3. OnTable(TradeOf(r))' = OnTable(TradeOf(r))
      BY <3>2 DEF OnTable
    <3> QED BY <3>2, <3>3 DEF SInv, AcceptedAsShown
  <2> QED BY <2>8, <2>9, <2>10 DEF SInv
<1> QED BY <1>2, <1>3 DEF InitiateTrade, left

-----------------------------------------------------------------------------
(* Offers and acceptances. *)

\* A handler that changes the trade of p but not who takes part in it.
LEMMA ChangeKeeps ==
  ASSUME SInv, NEW p \in Players, Trading(p),
         NEW trade, Shaped(trade), trade.who = TradeOf(p).who,
         NEW shown, DOMAIN shown = Sides,
         ZeroedHeap => \A side \in Sides : trade.accepted[side] => shown[side] = {OnTable(trade)},
         UNCHANGED session, trades' = [trades EXCEPT ![session[p]] = trade],
         agreed' = [agreed EXCEPT ![session[p]] = shown]
  PROVE  SInv'
<1>1. session[p] \in TradeIds
  BY SideOfPlayer
<1>2. \A t \in TradeIds : /\ trades'[t] = IF t = session[p] THEN trade ELSE trades[t]
                          /\ agreed'[t] = IF t = session[p] THEN shown ELSE agreed[t]
                          /\ trades'[t].who = trades[t].who
  BY DEF SInv, Shapes, TradeOf
<1>3. Shapes'
  BY <1>2 DEF SInv, Shapes
<1>4. \A q \in Players : Trading(q)' => Trading(q) /\ session[q] \in TradeIds
  BY DEF SInv, Shapes, Trading
<1>5. SessionsAgree'
  BY <1>2, <1>4 DEF SInv, SessionsAgree, Trading, TradeOf
<1>6. ZeroedHeap => AcceptedAsShown'
  <2> SUFFICES ASSUME ZeroedHeap, NEW q \in Players, Trading(q)', NEW side \in Sides,
                      TradeOf(q)'.accepted[side]
               PROVE  agreed'[session'[q]][side] = {OnTable(TradeOf(q))'}
    BY DEF AcceptedAsShown
  <2>1. CASE session[q] = session[p]
    <3>1. TradeOf(q)' = trade /\ agreed'[session'[q]] = shown
      BY <1>1, <1>2, <2>1 DEF TradeOf
    <3>2. OnTable(TradeOf(q))' = OnTable(trade)
      BY <3>1 DEF OnTable
    <3> QED BY <3>1, <3>2
  <2>2. CASE session[q] # session[p]
    <3>1. TradeOf(q)' = TradeOf(q) /\ agreed'[session'[q]] = agreed[session[q]] /\ Trading(q)
      BY <1>2, <1>4, <2>2 DEF TradeOf
    <3>2. OnTable(TradeOf(q))' = OnTable(TradeOf(q))
      BY <3>1 DEF OnTable
    <3> QED BY <3>1, <3>2 DEF SInv, AcceptedAsShown
  <2> QED BY <2>1, <2>2
<1> QED BY <1>3, <1>5, <1>6 DEF SInv

(* A changed offer takes back both acceptances. *)
LEMMA OfferKeeps ==
  ASSUME SInv, NEW p \in Players, Trading(p),
         NEW trade, Shaped(trade), trade.who = TradeOf(p).who, ChangeOffer(p, trade)
  PROVE  SInv'
<1> DEFINE after == [trade EXCEPT !.accepted =
                       [side \in Sides |-> @[side] /\ side \notin Resets(SideOf(p))]]
           shown == [side \in Sides |-> IF side \in Resets(SideOf(p)) THEN {} ELSE agreed[session[p]][side]]
<1>1. UNCHANGED session /\ trades' = [trades EXCEPT ![session[p]] = after]
  BY DEF ChangeOffer
<1>2. agreed' = [agreed EXCEPT ![session[p]] = shown]
  BY SideOfPlayer DEF ChangeOffer, SInv, Shapes
<1>3. Shaped(after) /\ after.who = TradeOf(p).who /\ \A side \in Sides : ~after.accepted[side]
  BY DEF Shaped, Resets
<1>4. DOMAIN shown = Sides
  OBVIOUS
<1> HIDE DEF after, shown
<1> QED BY <1>1, <1>2, <1>3, <1>4, ChangeKeeps

(* An acceptance is for what is shown; the second one ends the trade. *)
LEMMA AcceptKeeps == ASSUME SInv, NEW p \in Players, AcceptTrade(p) PROVE SInv'
<1> DEFINE side == SideOf(p)
           trade == [TradeOf(p) EXCEPT !.accepted[side] = TRUE]
           shown == [agreed[session[p]] EXCEPT ![side] = {OnTable(trade)}]
<1>0. Trading(p)
  BY DEF AcceptTrade
<1>1. Shaped(trade) /\ trade.who = TradeOf(p).who /\ OnTable(trade) = OnTable(TradeOf(p))
  BY <1>0, SideOfPlayer DEF Shaped, OnTable
<1>2. CASE trade.accepted[Other(side)]
  <2>1. PerformTrade(trade)
    BY <1>2 DEF AcceptTrade
  <2>2. CASE Destroy(trade)
    BY <1>0, <1>1, <2>2, DestroyKeeps
  <2>3. CASE UNCHANGED <<session, trades, agreed>>
    BY <2>3 DEF SInv, Shapes, SessionsAgree, AcceptedAsShown, Trading, TradeOf, OnTable
  <2> QED BY <2>1, <2>2, <2>3 DEF PerformTrade
<1>3. CASE ~trade.accepted[Other(side)]
  <2>1. /\ UNCHANGED session
        /\ trades' = [trades EXCEPT ![session[p]] = trade]
        /\ agreed' = [agreed EXCEPT ![session[p]] = shown]
    BY <1>3 DEF AcceptTrade
  <2>2. DOMAIN shown = Sides
    BY <1>0, SideOfPlayer DEF SInv, Shapes
  <2>3. ZeroedHeap => \A s \in Sides : trade.accepted[s] => shown[s] = {OnTable(trade)}
    BY <1>0, <1>1, <1>3, SideOfPlayer DEF Sides, Other, Shaped, SInv, Shapes
  <2> HIDE DEF trade, shown
  <2> QED BY <1>0, <1>1, <2>1, <2>2, <2>3, ChangeKeeps
<1> QED BY <1>2, <1>3

(* An acceptance may be taken back. *)
LEMMA UnacceptKeeps == ASSUME SInv, NEW p \in Players, UnacceptTrade(p) PROVE SInv'
<1> DEFINE side == SideOf(p)
           trade == [TradeOf(p) EXCEPT !.accepted[side] = FALSE]
           shown == [agreed[session[p]] EXCEPT ![side] = {}]
<1>0. Trading(p)
  BY DEF UnacceptTrade
<1>1. Shaped(trade) /\ trade.who = TradeOf(p).who /\ OnTable(trade) = OnTable(TradeOf(p))
  BY <1>0, SideOfPlayer DEF Shaped, OnTable
<1>2. /\ UNCHANGED session
      /\ trades' = [trades EXCEPT ![session[p]] = trade]
      /\ agreed' = [agreed EXCEPT ![session[p]] = shown]
  BY <1>0, SideOfPlayer DEF UnacceptTrade, SInv, Shapes, TradeOf
<1>3. DOMAIN shown = Sides
  BY <1>0, SideOfPlayer DEF SInv, Shapes
<1>4. ZeroedHeap => \A s \in Sides : trade.accepted[s] => shown[s] = {OnTable(trade)}
  BY <1>0, <1>1, SideOfPlayer DEF Shaped, SInv, Shapes, AcceptedAsShown
<1> HIDE DEF trade, shown
<1> QED BY <1>0, <1>1, <1>2, <1>3, <1>4, ChangeKeeps

(* Offering gold keeps the invariant. *)
LEMMA GoldKeeps ==
  ASSUME SInv, NEW p \in Players, NEW gold \in Gold, SetTradeGold(p, gold)
  PROVE  SInv'
<1> DEFINE trade == [TradeOf(p) EXCEPT !.gold[SideOf(p)] = gold]
<1>0. Trading(p) /\ ChangeOffer(p, trade)
  BY DEF SetTradeGold
<1>1. Shaped(trade) /\ trade.who = TradeOf(p).who
  BY <1>0, SideOfPlayer DEF Shaped
<1> QED BY <1>0, <1>1, OfferKeeps

(* Offering or withdrawing an item keeps the invariant. *)
LEMMA ItemKeeps ==
  ASSUME SInv, NEW p \in Players, NEW slot \in Table,
         (\E s \in Slots : SetTradeItem(p, slot, s)) \/ ClearTradeItem(p, slot)
  PROVE  SInv'
<1>1. ASSUME NEW items, Trading(p), ChangeOffer(p, [TradeOf(p) EXCEPT !.items[SideOf(p)] = items])
      PROVE  SInv'
  <2> DEFINE trade == [TradeOf(p) EXCEPT !.items[SideOf(p)] = items]
  <2>1. Shaped(trade) /\ trade.who = TradeOf(p).who
    BY <1>1, SideOfPlayer DEF Shaped
  <2> QED BY <1>1, <2>1, OfferKeeps
<1>2. ASSUME NEW s \in Slots, SetTradeItem(p, slot, s)
      PROVE  \E items : Trading(p) /\ ChangeOffer(p, [TradeOf(p) EXCEPT !.items[SideOf(p)] = items])
  BY <1>2 DEF SetTradeItem
<1>3. ASSUME ClearTradeItem(p, slot)
      PROVE  \E items : Trading(p) /\ ChangeOffer(p, [TradeOf(p) EXCEPT !.items[SideOf(p)] = items])
  BY <1>3 DEF ClearTradeItem
<1> QED BY <1>1, <1>2, <1>3

-----------------------------------------------------------------------------
(* What does not touch the trades keeps the invariant. *)
LEMMA UnchangedKeeps == SInv /\ UNCHANGED <<session, trades, agreed>> => SInv'
  BY DEF SInv, Shapes, SessionsAgree, AcceptedAsShown, Trading, TradeOf, OnTable

(* Every step keeps the invariant. *)
LEMMA NextSInv == SInv /\ [Next]_vars => SInv'
<1> SUFFICES ASSUME SInv, [Next]_vars PROVE SInv'
  OBVIOUS
<1>1. ASSUME NEW p \in Players, NEW q \in Players, InitiateTrade(p, q)
      PROVE  SInv'
  BY <1>1, InitiateKeeps
<1>2. ASSUME NEW p \in Players, CancelTrade(p)
      PROVE  SInv'
  BY <1>2, DestroyKeeps DEF CancelTrade
<1>3. ASSUME NEW p \in Players, AcceptTrade(p) \/ UnacceptTrade(p)
      PROVE  SInv'
  BY <1>3, AcceptKeeps, UnacceptKeeps
<1>4. ASSUME NEW p \in Players, NEW gold \in Gold, SetTradeGold(p, gold)
      PROVE  SInv'
  BY <1>4, GoldKeeps
<1>5. ASSUME NEW p \in Players, NEW slot \in Table,
             (\E s \in Slots : SetTradeItem(p, slot, s)) \/ ClearTradeItem(p, slot)
      PROVE  SInv'
  BY <1>5, ItemKeeps
<1>6. InventoryStep \/ (\E p \in Players : SlotOutOfTable(p)) \/ UNCHANGED vars
        => UNCHANGED <<session, trades, agreed>>
  BY DEF SlotOutOfTable, InventoryStep, GainItem, DestroyItem, SellItem, MoveItem, BuySpell, vars
<1> QED
  BY <1>1, <1>2, <1>3, <1>4, <1>5, <1>6, UnchangedKeeps DEF Next, TradeStep

(* The two players of a trade always refer to it together, for any number of
   players and whichever of them starts, cancels, closes or leaves a trade. *)
THEOREM Agreement == Spec => []SessionsAgree
<1>1. SInv => SessionsAgree
  BY DEF SInv
<1> QED BY <1>1, InitSInv, NextSInv, PTL DEF Spec

(* If the memory of a new TradeData happens to be zero, an acceptance always
   stands for exactly what was on the table when it was given. *)
THEOREM NoBaitAndSwitch == ZeroedHeap => (Spec => []AcceptedAsShown)
<1> SUFFICES ASSUME ZeroedHeap PROVE Spec => []AcceptedAsShown
  OBVIOUS
<1>1. SInv => AcceptedAsShown
  BY DEF SInv
<1> QED BY <1>1, InitSInv, NextSInv, PTL DEF Spec

-----------------------------------------------------------------------------
(* One inventory: its counter promises what it has, and does not wrap. *)

\* The counters are wide enough for what MaxFree lets them count.
CountersWide == MaxFree + Cardinality(Slots) < Counter

\* An inventory whose counter is right enough, and does not wrap
Kept(b) ==
  /\ b \in Inventory
  /\ b.free >= Cardinality(EmptyPack(b))
  /\ b.free + Cardinality(Held(b)) <= MaxFree + Cardinality(Slots)

(* There are finitely many slots. *)
LEMMA SlotsFinite ==
  /\ Slots \subseteq Nat /\ Pack \subseteq Slots /\ Cardinality(Slots) \in Nat
  /\ \A S \in SUBSET Slots : IsFiniteSet(S) /\ Cardinality(S) \in Nat /\ Cardinality(S) <= Cardinality(Slots)
<1>1. IsFiniteSet(Slots) /\ Slots \subseteq Nat /\ Pack \subseteq Slots
  BY TradeAssumption DEF Slots
<1>2. Cardinality(Slots) \in Nat
  BY <1>1, FS_CardinalityType
<1>3. ASSUME NEW S \in SUBSET Slots
      PROVE  IsFiniteSet(S) /\ Cardinality(S) \in Nat /\ Cardinality(S) <= Cardinality(Slots)
  BY <1>1, FS_Subset, FS_CardinalityType
<1> QED BY <1>1, <1>2, <1>3

(* Counters stay within their width. *)
LEMMA Wraps ==
  /\ Counter \in Nat \ {0} /\ MaxFree \in 0 .. Counter - 1
  /\ \A x \in Int : x % Counter \in 0 .. (Counter - 1)
  /\ \A x \in 0 .. (Counter - 1) : x % Counter = x
BY TradeAssumption

(* Counting items gives natural numbers. *)
LEMMA SameCounts ==
  ASSUME NEW items, NEW places, IsFiniteSet(places), NEW entry
  PROVE  Cardinality(Same(items, places, entry)) \in Nat
<1>1. Same(items, places, entry) \in SUBSET places
  BY DEF Same
<1> QED BY <1>1, FS_Subset, FS_CardinalityType

(* Items that go free their slots, and the counter counts at least those. *)
LEMMA RemoveKeeps ==
  ASSUME CountersWide, NEW b, Kept(b), NEW S \in SUBSET Held(b)
  PROVE  /\ Kept(RemoveItem(b, S))
         /\ RemoveItem(b, S).free = b.free + Cardinality(S)
         /\ RemoveItem(b, S).at = [s \in Slots |-> IF s \in S THEN Nothing ELSE b.at[s]]
<1> DEFINE c == RemoveItem(b, S)
<1>1. /\ c.at = [s \in Slots |-> IF s \in S THEN Nothing ELSE b.at[s]]
      /\ c.free = (b.free + Cardinality(S)) % Counter
      /\ c.count = [entry \in Entries |-> (b.count[entry] - Cardinality(Same(b.at, S, entry))) % Counter]
      /\ c = [at |-> c.at, free |-> c.free, count |-> c.count]
  BY DEF RemoveItem
<1>2. /\ b.at \in [Slots -> Items \union {Nothing}] /\ b.free \in 0 .. (Counter - 1)
      /\ b.count \in [Entries -> 0 .. (Counter - 1)]
  BY DEF Kept, Inventory
<1>3. S \in SUBSET Slots /\ Held(b) \in SUBSET Slots /\ EmptyPack(b) \in SUBSET Slots
  BY SlotsFinite DEF Held, EmptyPack
<1> HIDE DEF c
<1>4. /\ IsFiniteSet(S) /\ Cardinality(S) \in Nat
      /\ Cardinality(S) <= Cardinality(Held(b)) /\ Cardinality(Held(b)) \in Nat
      /\ IsFiniteSet(Held(b)) /\ IsFiniteSet(EmptyPack(b)) /\ Cardinality(EmptyPack(b)) \in Nat
  BY <1>3, SlotsFinite, FS_Subset
<1>k. /\ b.free >= Cardinality(EmptyPack(b))
      /\ b.free + Cardinality(Held(b)) <= MaxFree + Cardinality(Slots)
      /\ MaxFree + Cardinality(Slots) < Counter
      /\ MaxFree \in Nat /\ Counter \in Nat /\ Cardinality(Slots) \in Nat
  BY Wraps, SlotsFinite DEF CountersWide, Kept
<1>5. b.free + Cardinality(S) \in 0 .. (Counter - 1)
  BY <1>2, <1>4, <1>k
<1>6. c.free = b.free + Cardinality(S)
  BY <1>1, <1>5, Wraps
<1>7. c \in Inventory
  <2>1. c.at \in [Slots -> Items \union {Nothing}]
    BY <1>1, <1>2
  <2>2. ASSUME NEW entry \in Entries
        PROVE  (b.count[entry] - Cardinality(Same(b.at, S, entry))) % Counter \in 0 .. (Counter - 1)
    <3>1. Cardinality(Same(b.at, S, entry)) \in Nat
      BY <1>4, SameCounts
    <3>2. b.count[entry] \in Int
      BY <1>2
    <3>3. b.count[entry] - Cardinality(Same(b.at, S, entry)) \in Int
      BY <3>1, <3>2
    <3> QED BY <3>3, Wraps, Zenon
  <2>3. c.count \in [Entries -> 0 .. (Counter - 1)]
    BY <1>1, <2>2
  <2> QED BY <1>1, <1>5, <1>6, <2>1, <2>3 DEF Inventory
<1>8. Held(c) = Held(b) \ S
  BY <1>1, <1>3 DEF Held
<1>9. Cardinality(Held(c)) = Cardinality(Held(b)) - Cardinality(S)
  <2>1. Held(b) \cap S = S
    OBVIOUS
  <2> QED BY <1>4, <1>8, <2>1, FS_Difference
<1>10. Cardinality(EmptyPack(c)) <= Cardinality(EmptyPack(b)) + Cardinality(S)
  <2>1. EmptyPack(c) \in SUBSET (EmptyPack(b) \union S)
    BY <1>1, SlotsFinite DEF EmptyPack
  <2>2. /\ IsFiniteSet(EmptyPack(b) \union S)
        /\ Cardinality(EmptyPack(b) \union S) =
             Cardinality(EmptyPack(b)) + Cardinality(S) - Cardinality(EmptyPack(b) \cap S)
    BY <1>4, FS_Union
  <2>3. Cardinality(EmptyPack(b) \cap S) \in Nat
    BY <1>4, FS_Intersection, FS_CardinalityType
  <2>4. Cardinality(EmptyPack(c)) <= Cardinality(EmptyPack(b) \union S) /\ Cardinality(EmptyPack(c)) \in Nat
    BY <2>1, <2>2, FS_Subset, FS_CardinalityType
  <2> QED BY <1>4, <2>2, <2>3, <2>4
<1>11. Cardinality(EmptyPack(c)) \in Nat
  BY SlotsFinite DEF EmptyPack
<1>12. Kept(c)
  <2>1. c.free >= Cardinality(EmptyPack(c)) /\ c.free + Cardinality(Held(c)) <= MaxFree + Cardinality(Slots)
    BY <1>2, <1>4, <1>6, <1>9, <1>10, <1>11, <1>k
  <2> QED BY <1>7, <2>1 DEF Kept
<1> QED BY <1>1, <1>6, <1>12 DEF c

(* The places of finitely many numbers. *)
LEMMA RankIsPlace ==
  ASSUME NEW K \in SUBSET Nat, IsFiniteSet(K)
  PROVE  /\ Cardinality(K) \in Nat
         /\ \A n \in 1 .. Cardinality(K) : Nth(K, n) \in K /\ Rank(K, Nth(K, n)) = n
         /\ \A i \in K : Rank(K, i) \in 1 .. Cardinality(K) /\ Nth(K, Rank(K, i)) = i
<1> DEFINE f == [i \in K |-> Rank(K, i)]
<1>1. Cardinality(K) \in Nat
  BY FS_CardinalityType
<1>2. ASSUME NEW i \in K PROVE Rank(K, i) \in 1 .. Cardinality(K)
  <2> DEFINE T == {j \in K : j <= i}
  <2>1. T \in SUBSET K /\ i \in T
    OBVIOUS
  <2>2. IsFiniteSet(T) /\ Cardinality(T) <= Cardinality(K)
    BY <2>1, FS_Subset
  <2>3. Cardinality(T) \in Nat /\ Cardinality(T) # 0
    BY <2>1, <2>2, FS_CardinalityType, FS_EmptySet
  <2> QED BY <1>1, <2>2, <2>3 DEF Rank
<1>3. ASSUME NEW i \in K, NEW j \in K, i < j PROVE Rank(K, i) # Rank(K, j)
  <2> DEFINE A == {k \in K : k <= i}
             B == {k \in K : k <= j}
  <2>1. i \in Nat /\ j \in Nat /\ \A k \in K : k \in Nat
    OBVIOUS
  <2>2. j <= j /\ ~(j <= i) /\ \A k \in K : k <= i => k <= j
    BY <1>3, <2>1
  <2>3. B \in SUBSET K /\ A \in SUBSET B /\ j \in B /\ j \notin A
    BY <2>2
  <2>4. IsFiniteSet(B)
    BY <2>3, FS_Subset
  <2> HIDE DEF A, B
  <2>5. Cardinality(A) # Cardinality(B)
    BY <2>3, <2>4, FS_Subset
  <2> QED BY <2>5 DEF Rank, A, B
<1>4. ASSUME NEW i \in K, NEW j \in K, Rank(K, i) = Rank(K, j) PROVE i = j
  BY <1>3, <1>4
<1>5. f \in Injection(K, 1 .. Cardinality(K))
  BY <1>2, <1>4 DEF Injection, IsInjective
<1>6. IsFiniteSet(1 .. Cardinality(K)) /\ Cardinality(1 .. Cardinality(K)) = Cardinality(K)
  BY <1>1, FS_Interval
<1>7. f \in Surjection(K, 1 .. Cardinality(K))
  BY <1>5, <1>6, FS_Injection
<1>8. \A n \in 1 .. Cardinality(K) : \E i \in K : Rank(K, i) = n
  BY <1>7 DEF Surjection
<1>9. \A n \in 1 .. Cardinality(K) : Nth(K, n) \in K /\ Rank(K, Nth(K, n)) = n
  BY <1>8 DEF Nth
<1>10. \A i \in K : Nth(K, Rank(K, i)) = i
  BY <1>2, <1>4, <1>9
<1> QED BY <1>1, <1>2, <1>9, <1>10

(* What the limits allow has room. *)
LEMMA FittingHasRoom ==
  ASSUME NEW b, Kept(b), NEW items, DOMAIN items \in SUBSET Nat, IsFiniteSet(DOMAIN items),
         NEW those \in SUBSET Fitting(b, items)
  PROVE  /\ those \in SUBSET Filled(items) /\ IsFiniteSet(those) /\ Cardinality(those) \in Nat
         /\ Cardinality(those) <= b.free /\ Cardinality(those) <= Cardinality(EmptyPack(b))
<1> DEFINE A == Allowed(b, items)
<1>1. /\ A \in SUBSET Filled(items) /\ Filled(items) \in SUBSET DOMAIN items
      /\ those \in SUBSET A
      /\ \A n \in those : Rank(A, n) <= b.free /\ Rank(A, n) <= Cardinality(EmptyPack(b))
  BY DEF Allowed, Filled, Fitting
<1> HIDE DEF A
<1>2. A \in SUBSET Nat /\ IsFiniteSet(A)
  BY <1>1, FS_Subset
<1>3. IsFiniteSet(those) /\ Cardinality(those) \in Nat
  BY <1>1, <1>2, FS_Subset, FS_CardinalityType
<1>4. ASSUME NEW k \in Nat, \A n \in those : Rank(A, n) <= k
      PROVE  Cardinality(those) <= k
  <2> DEFINE f == [n \in those |-> Rank(A, n)]
  <2>1. \A n \in A : Rank(A, n) \in 1 .. Cardinality(A) /\ Nth(A, Rank(A, n)) = n
    BY <1>2, RankIsPlace
  <2>2. Cardinality(A) \in Nat
    BY <1>2, RankIsPlace
  <2>3. \A n \in those : Rank(A, n) \in 1 .. k
    BY <1>1, <1>4, <2>1, <2>2
  <2>4. f \in Injection(those, 1 .. k)
    BY <1>1, <2>1, <2>3 DEF Injection, IsInjective
  <2>5. IsFiniteSet(1 .. k) /\ Cardinality(1 .. k) = k
    BY FS_Interval
  <2> QED BY <2>4, <2>5, FS_Injection
<1>5. b.free \in Nat /\ Cardinality(EmptyPack(b)) \in Nat
  BY SlotsFinite, Wraps DEF Kept, Inventory, EmptyPack
<1> QED BY <1>1, <1>3, <1>4, <1>5

\* c is b with the items of those places in slots that were empty, one in each.
Gets(b, c, items, those) ==
  /\ \A s \in Slots : b.at[s] # Nothing => c.at[s] = b.at[s]
  /\ \A s \in Slots : b.at[s] = Nothing => c.at[s] = Nothing \/ \E n \in those : c.at[s] = items[n]
  /\ \A n \in those : \E s \in Pack : b.at[s] = Nothing /\ c.at[s] = items[n]
  /\ \A s, r \in Slots :
       s # r /\ b.at[s] = Nothing /\ b.at[r] = Nothing /\ c.at[s] = c.at[r] /\ c.at[s] # Nothing =>
         \E m, n \in those : m # n /\ items[m] = items[n]

(* Items that are added fill as many empty slots. *)
LEMMA AddKeeps ==
  ASSUME NEW b, Kept(b), NEW items, NEW those \in SUBSET Nat, IsFiniteSet(those),
         \A n \in those : items[n] \in Items,
         Cardinality(those) <= b.free, Cardinality(those) <= Cardinality(EmptyPack(b))
  PROVE  Kept(AddItem(b, items, those)) /\ Gets(b, AddItem(b, items, those), items, those)
<1> DEFINE c == AddItem(b, items, those)
           E == EmptyPack(b)
           k == Cardinality(those)
           T == {s \in E : Rank(E, s) <= k}
           t(s) == Nth(those, Rank(E, s))
<1>1. /\ c.at = [s \in Slots |-> IF s \in T THEN items[t(s)] ELSE b.at[s]]
      /\ c.free = b.free - k
      /\ c.count = [entry \in Entries |-> (b.count[entry] + Cardinality(Same(items, those, entry))) % Counter]
      /\ c = [at |-> c.at, free |-> c.free, count |-> c.count]
  BY DEF AddItem
<1>2. /\ b.at \in [Slots -> Items \union {Nothing}] /\ b.free \in 0 .. (Counter - 1)
      /\ b.count \in [Entries -> 0 .. (Counter - 1)]
  BY DEF Kept, Inventory
<1>3. E = {s \in Pack : b.at[s] = Nothing} /\ E \in SUBSET Slots /\ E \in SUBSET Nat /\ IsFiniteSet(E)
  BY SlotsFinite DEF EmptyPack
<1>4. /\ k \in Nat /\ Cardinality(E) \in Nat /\ k <= Cardinality(E)
      /\ \A n \in 1 .. k : Nth(those, n) \in those /\ Rank(those, Nth(those, n)) = n
      /\ \A n \in those : Rank(those, n) \in 1 .. k /\ Nth(those, Rank(those, n)) = n
  BY <1>3, RankIsPlace
<1>5. /\ \A n \in 1 .. Cardinality(E) : Nth(E, n) \in E /\ Rank(E, Nth(E, n)) = n
      /\ \A s \in E : Rank(E, s) \in 1 .. Cardinality(E) /\ Nth(E, Rank(E, s)) = s
  BY <1>3, RankIsPlace
<1>6. Nothing \notin Items
  BY NoneAssumption
<1> HIDE DEF c, E, k
<1>7. \A s \in T : Rank(E, s) \in 1 .. k /\ t(s) \in those /\ Rank(those, t(s)) = Rank(E, s)
  BY <1>4, <1>5
<1>8. \A s, r \in T : t(s) = t(r) => s = r
  BY <1>5, <1>7
<1>9. \A n \in those : \E s \in T : t(s) = n
  <2> SUFFICES ASSUME NEW n \in those PROVE \E s \in T : t(s) = n
    OBVIOUS
  <2>1. Rank(those, n) \in 1 .. Cardinality(E) /\ Rank(those, n) <= k
    BY <1>4
  <2>2. Nth(E, Rank(those, n)) \in E /\ Rank(E, Nth(E, Rank(those, n))) = Rank(those, n)
    BY <1>5, <2>1
  <2>3. Nth(E, Rank(those, n)) \in T /\ t(Nth(E, Rank(those, n))) = n
    BY <1>4, <2>1, <2>2
  <2> QED BY <2>3
<1>10. IsFiniteSet(T) /\ Cardinality(T) = k /\ T \in SUBSET E
  <2> DEFINE g == [s \in T |-> t(s)]
  <2>1. T \in SUBSET E
    OBVIOUS
  <2>2. IsFiniteSet(T)
    BY <1>3, <2>1, FS_Subset
  <2>3. g \in Injection(T, those)
    BY <1>7, <1>8 DEF Injection, IsInjective
  <2>4. g \in Surjection(T, those)
    BY <1>7, <1>9 DEF Surjection
  <2>5. Cardinality(T) = Cardinality(those)
    BY <2>3, <2>4, FS_Injection
  <2> QED BY <2>1, <2>2, <2>5 DEF k
<1> HIDE DEF T
<1>11. \A s \in T : c.at[s] = items[t(s)] /\ items[t(s)] \in Items /\ b.at[s] = Nothing /\ s \in Slots /\ s \in Pack
  BY <1>1, <1>3, <1>7, <1>10
<1>12. \A s \in Slots \ T : c.at[s] = b.at[s]
  BY <1>1
<1>13. Gets(b, c, items, those)
  <2>1. \A s \in Slots : b.at[s] # Nothing => c.at[s] = b.at[s]
    BY <1>11, <1>12
  <2>2. \A s \in Slots : b.at[s] = Nothing => c.at[s] = Nothing \/ \E n \in those : c.at[s] = items[n]
    BY <1>7, <1>11, <1>12
  <2>3. \A n \in those : \E s \in Pack : b.at[s] = Nothing /\ c.at[s] = items[n]
    BY <1>9, <1>11
  <2>4. ASSUME NEW s \in Slots, NEW r \in Slots,
               s # r, b.at[s] = Nothing, b.at[r] = Nothing, c.at[s] = c.at[r], c.at[s] # Nothing
        PROVE  \E m, n \in those : m # n /\ items[m] = items[n]
    <3>1. s \in T /\ r \in T
      BY <1>12, <2>4
    <3>2. t(s) \in those /\ t(r) \in those /\ t(s) # t(r) /\ items[t(s)] = items[t(r)]
      BY <1>7, <1>8, <1>11, <2>4, <3>1
    <3> QED BY <3>2
  <2> QED BY <2>1, <2>2, <2>3, <2>4 DEF Gets
<1>14. c \in Inventory
  <2>1. c.at \in [Slots -> Items \union {Nothing}]
    <3>1. \A s \in Slots : c.at[s] \in Items \union {Nothing}
      BY <1>2, <1>11, <1>12
    <3>2. c.at = [s \in Slots |-> c.at[s]]
      BY <1>1
    <3> QED BY <3>1, <3>2
  <2>2. ASSUME NEW entry \in Entries
        PROVE  (b.count[entry] + Cardinality(Same(items, those, entry))) % Counter \in 0 .. (Counter - 1)
    <3>1. Cardinality(Same(items, those, entry)) \in Nat
      BY SameCounts
    <3>2. b.count[entry] \in Int
      BY <1>2
    <3>3. b.count[entry] + Cardinality(Same(items, those, entry)) \in Int
      BY <3>1, <3>2
    <3> QED BY <3>3, Wraps, Zenon
  <2>3. c.count \in [Entries -> 0 .. (Counter - 1)]
    BY <1>1, <2>2
  <2>4. c.free \in 0 .. (Counter - 1)
    BY <1>1, <1>2, <1>4, Wraps DEF k
  <2> QED BY <1>1, <2>1, <2>3, <2>4 DEF Inventory
<1>15. Held(c) = Held(b) \union T /\ Held(b) \cap T = {}
  BY <1>6, <1>11, <1>12 DEF Held
<1>16. EmptyPack(c) = E \ T
  BY <1>3, <1>6, <1>11, <1>12, SlotsFinite DEF EmptyPack
<1>17. Held(b) \in SUBSET Slots
  BY DEF Held
<1>18. Cardinality(Held(c)) = Cardinality(Held(b)) + k /\ Cardinality(Held(b)) \in Nat
  <2>1. IsFiniteSet(Held(b)) /\ Cardinality(Held(b)) \in Nat
    BY <1>17, SlotsFinite
  <2>2. Cardinality(Held(b) \union T) = Cardinality(Held(b)) + Cardinality(T) - Cardinality(Held(b) \cap T)
    BY <1>10, <2>1, FS_Union
  <2>3. Cardinality(Held(b) \cap T) = 0
    BY <1>15, FS_EmptySet
  <2>4. Cardinality(Held(c)) = Cardinality(Held(b) \union T)
    BY <1>15
  <2> QED BY <1>4, <1>10, <2>1, <2>2, <2>3, <2>4
<1>19. Cardinality(EmptyPack(c)) = Cardinality(E) - k
  <2>1. E \cap T = T
    BY <1>10
  <2>2. Cardinality(E \ T) = Cardinality(E) - Cardinality(E \cap T)
    BY <1>3, FS_Difference
  <2> QED BY <1>10, <1>16, <2>1, <2>2
<1>20. b.free >= Cardinality(E) /\ b.free + Cardinality(Held(b)) <= MaxFree + Cardinality(Slots)
  BY DEF Kept, E
<1>21. Kept(c)
  <2>1. c.free >= Cardinality(EmptyPack(c)) /\ c.free + Cardinality(Held(c)) <= MaxFree + Cardinality(Slots)
    BY <1>1, <1>2, <1>4, <1>18, <1>19, <1>20
  <2> QED BY <1>14, <2>1 DEF Kept
<1> QED BY <1>13, <1>21 DEF c

(* A single item that goes. *)
LEMMA OneGoes ==
  ASSUME CountersWide, NEW b, Kept(b), NEW s \in Held(b)
  PROVE  /\ Kept(RemoveItem(b, {s}))
         /\ RemoveItem(b, {s}).free = b.free + 1
         /\ RemoveItem(b, {s}).at = [r \in Slots |-> IF r = s THEN Nothing ELSE b.at[r]]
<1>1. {s} \in SUBSET Held(b) /\ Cardinality({s}) = 1
  BY FS_Singleton
<1> QED BY <1>1, RemoveKeeps

(* An item that is sold. *)
LEMMA SoldKeeps ==
  ASSUME CountersWide, NEW b, Kept(b), NEW s \in Held(b), b.free < MaxFree
  PROVE  /\ Kept(SoldItem(b, s))
         /\ \A r \in Slots : SoldItem(b, s).at[r] =
              IF r = First(BuyBack) THEN b.at[s] ELSE IF r = s THEN Nothing ELSE b.at[r]
<1> DEFINE r == RemoveItem(b, {s})
           c == SoldItem(b, s)
           f == First(BuyBack)
<1>1. /\ Kept(r) /\ r.free = b.free + 1
      /\ r.at = [x \in Slots |-> IF x = s THEN Nothing ELSE b.at[x]]
  BY OneGoes
<1>2. /\ b.at \in [Slots -> Items \union {Nothing}] /\ b.free \in 0 .. (Counter - 1) /\ s \in Slots
  BY DEF Kept, Inventory, Held
<1>3. r \in Inventory /\ r.free >= Cardinality(EmptyPack(r))
  BY <1>1 DEF Kept
<1> HIDE DEF r, f
<1>4. c = [r EXCEPT !.at = [r.at EXCEPT ![f] = b.at[s]]]
  BY DEF SoldItem, r, f
<1>5. c \in Inventory /\ c.free = b.free + 1 /\ c.at = [r.at EXCEPT ![f] = b.at[s]]
  BY <1>1, <1>2, <1>3, <1>4 DEF Inventory
<1>6. \A x \in Slots : c.at[x] = IF x = f THEN b.at[s] ELSE IF x = s THEN Nothing ELSE b.at[x]
  BY <1>1, <1>5
<1> HIDE DEF c
<1>7. EmptyPack(c) \in SUBSET EmptyPack(r) /\ EmptyPack(r) \in SUBSET Slots /\ Held(c) \in SUBSET Slots
  <2>1. b.at[s] # Nothing
    BY DEF Held
  <2>2. \A x \in Slots : c.at[x] = Nothing => r.at[x] = Nothing
    BY <1>1, <1>6, <2>1
  <2> QED BY <2>2, SlotsFinite DEF EmptyPack, Held
<1>8. /\ Cardinality(EmptyPack(c)) <= Cardinality(EmptyPack(r))
      /\ Cardinality(EmptyPack(c)) \in Nat /\ Cardinality(EmptyPack(r)) \in Nat
      /\ Cardinality(Held(c)) \in Nat /\ Cardinality(Held(c)) <= Cardinality(Slots)
  BY <1>7, SlotsFinite, FS_Subset
<1>9. c.free >= Cardinality(EmptyPack(c)) /\ c.free + Cardinality(Held(c)) <= MaxFree + Cardinality(Slots)
  <2>1. /\ c.free = b.free + 1 /\ c.free >= Cardinality(EmptyPack(r)) /\ b.free < MaxFree
        /\ b.free \in Nat /\ MaxFree \in Nat /\ Cardinality(Slots) \in Nat
    BY <1>1, <1>2, <1>3, <1>5, Wraps, SlotsFinite
  <2> QED BY <1>8, <2>1
<1>10. Kept(c)
  BY <1>5, <1>9 DEF Kept
<1> QED BY <1>6, <1>10 DEF c, f

\* An inventory after swapItems
Moved(b, from, to) ==
  [b EXCEPT !.at = [@ EXCEPT ![to] = b.at[from], ![from] = b.at[to]], !.free = FreeAfterMove(b, from, to)]

(* An item that is moved: the counter follows the slots of the pack. *)
LEMMA MoveKeeps ==
  ASSUME NEW b, Kept(b), NEW from \in Held(b), NEW to \in Slots \ {from}, FreeAfterMove(b, from, to) <= MaxFree,
         NEW c, c = Moved(b, from, to)
  PROVE  /\ Kept(c)
         /\ \A s \in Slots : c.at[s] = IF s = to THEN b.at[from] ELSE IF s = from THEN b.at[to] ELSE b.at[s]
<1> DEFINE E == EmptyPack(b)
<1>1. /\ b.at \in [Slots -> Items \union {Nothing}] /\ b.free \in 0 .. (Counter - 1) /\ from \in Slots
      /\ b.at[from] # Nothing /\ b \in Inventory /\ b.free >= Cardinality(E)
  BY DEF Kept, Inventory, Held
<1>2. c.at = [b.at EXCEPT ![to] = b.at[from], ![from] = b.at[to]] /\ c.free = FreeAfterMove(b, from, to)
  BY <1>1 DEF Inventory, Moved
<1>3. \A s \in Slots : c.at[s] = IF s = to THEN b.at[from] ELSE IF s = from THEN b.at[to] ELSE b.at[s]
  BY <1>1, <1>2
<1>4. E = {s \in Pack : b.at[s] = Nothing} /\ EmptyPack(c) = {s \in Pack : c.at[s] = Nothing} /\ Pack \subseteq Slots
  BY SlotsFinite DEF EmptyPack
<1>5. IsFiniteSet(E) /\ Cardinality(E) \in Nat /\ from \notin E
  BY <1>1, <1>4, SlotsFinite
<1>6. /\ IsFiniteSet(E \ {to}) /\ Cardinality(E \ {to}) = IF to \in E THEN Cardinality(E) - 1 ELSE Cardinality(E)
      /\ Cardinality(E \union {from}) = Cardinality(E) + 1
      /\ Cardinality((E \ {to}) \union {from}) = Cardinality(E \ {to}) + 1
  BY <1>5, FS_AddElement, FS_RemoveElement
<1> HIDE DEF E
<1>n. b.free \in Nat /\ b.free >= Cardinality(E) /\ Cardinality(E) \in Nat
  BY <1>1, <1>5, Wraps
<1>7. c.free >= Cardinality(EmptyPack(c)) /\ c.free \in Nat
  <2>1. CASE b.at[to] = Nothing /\ from \in Pack /\ to \notin Pack
    <3>1. EmptyPack(c) = E \union {from}
      BY <1>1, <1>3, <1>4, <2>1
    <3>2. c.free = b.free + 1
      BY <1>2, <2>1 DEF FreeAfterMove
    <3>3. Cardinality(EmptyPack(c)) = Cardinality(E) + 1
      BY <1>6, <3>1
    <3> QED BY <1>n, <3>2, <3>3
  <2>2. CASE b.at[to] = Nothing /\ from \notin Pack /\ to \in Pack
    <3>1. EmptyPack(c) = E \ {to} /\ to \in E
      BY <1>1, <1>3, <1>4, <2>2
    <3>2. c.free = b.free - 1
      BY <1>2, <2>2 DEF FreeAfterMove
    <3>3. Cardinality(EmptyPack(c)) = Cardinality(E) - 1 /\ Cardinality(E) # 0
      BY <1>5, <1>6, <3>1, FS_EmptySet
    <3> QED BY <1>n, <3>2, <3>3
  <2>3. CASE b.at[to] = Nothing /\ from \in Pack /\ to \in Pack
    <3>1. EmptyPack(c) = (E \ {to}) \union {from} /\ to \in E
      BY <1>1, <1>3, <1>4, <2>3
    <3>2. c.free = b.free
      BY <1>2, <2>3 DEF FreeAfterMove
    <3>4. Cardinality(E \ {to}) = Cardinality(E) - 1 /\ Cardinality((E \ {to}) \union {from}) = Cardinality(E \ {to}) + 1
      BY <1>6, <3>1
    <3>5. Cardinality((E \ {to}) \union {from}) = Cardinality(E)
      BY <1>n, <3>4
    <3>3. Cardinality(EmptyPack(c)) = Cardinality(E)
      BY <3>1, <3>5
    <3> QED BY <1>n, <3>2, <3>3
  <2>4. CASE b.at[to] # Nothing \/ (from \notin Pack /\ to \notin Pack)
    <3>1. EmptyPack(c) = E
      BY <1>1, <1>3, <1>4, <2>4
    <3>2. c.free = b.free
      BY <1>2, <2>4 DEF FreeAfterMove
    <3> QED BY <1>1, <1>5, <3>1, <3>2, Wraps
  <2> QED BY <2>1, <2>2, <2>3, <2>4
<1>8. c \in Inventory
  <2>1. c.free \in 0 .. (Counter - 1)
    BY <1>2, <1>7, Wraps
  <2>2. [b.at EXCEPT ![to] = b.at[from], ![from] = b.at[to]] \in [Slots -> Items \union {Nothing}]
    BY <1>1
  <2>3. c = [at |-> c.at, free |-> c.free, count |-> b.count]
    BY <1>1, <1>2 DEF Inventory, Moved
  <2> QED BY <1>1, <1>2, <2>1, <2>2, <2>3 DEF Inventory
<1>9. Held(c) \in SUBSET Slots /\ Cardinality(Held(c)) \in Nat /\ Cardinality(Held(c)) <= Cardinality(Slots)
  BY SlotsFinite DEF Held
<1>10. c.free + Cardinality(Held(c)) <= MaxFree + Cardinality(Slots)
  BY <1>2, <1>7, <1>9, Wraps, SlotsFinite
<1>11. Kept(c)
  BY <1>7, <1>8, <1>10 DEF Kept
<1> QED BY <1>3, <1>11

-----------------------------------------------------------------------------
(* The inventories of the two players of an exchange. *)

\* Every character's inventory
AllKept(bags) == bags \in [Players -> Inventory] /\ \A p \in Players : Kept(bags[p])

\* What lies on one side of a table
Offers == [Table -> Items \union {Nothing}]
Things(items) == {items[n] : n \in Filled(items)}
Distinct(items) == \A m, n \in Filled(items) : items[m] = items[n] => m = n

(* An offer is a short list of items. *)
LEMMA OfferedItems ==
  ASSUME NEW items \in Offers
  PROVE  /\ DOMAIN items \in SUBSET Nat /\ IsFiniteSet(DOMAIN items)
         /\ Filled(items) \in SUBSET Table /\ Filled(items) \in SUBSET Nat /\ IsFiniteSet(Filled(items))
         /\ Cardinality(Filled(items)) \in Nat
         /\ \A n \in Filled(items) : items[n] \in Items /\ items[n] # Nothing
         /\ \A n : UpTo(items, n) \in SUBSET Filled(items)
<1>1. Table \in SUBSET Nat /\ IsFiniteSet(Table)
  BY TradeAssumption, FS_Interval DEF Table
<1>2. DOMAIN items = Table
  BY DEF Offers
<1>3. Filled(items) \in SUBSET Table /\ \A n \in Filled(items) : items[n] \in Items /\ items[n] # Nothing
  BY DEF Offers, Filled
<1>4. IsFiniteSet(Filled(items)) /\ Cardinality(Filled(items)) \in Nat
  BY <1>1, <1>3, FS_Subset, FS_CardinalityType
<1>5. \A n : UpTo(items, n) \in SUBSET Filled(items)
  BY DEF UpTo
<1> QED BY <1>1, <1>2, <1>3, <1>4, <1>5

(* The first of some slots is one of them. *)
LEMMA FirstIsIn == ASSUME NEW S \in SUBSET Slots, S # {} PROVE First(S) \in S
<1>1. S \in SUBSET Nat /\ IsFiniteSet(S)
  BY SlotsFinite
<1>2. /\ Cardinality(S) \in Nat /\ Cardinality(S) # 0
      /\ \A n \in 1 .. Cardinality(S) : Nth(S, n) \in S /\ Rank(S, Nth(S, n)) = n
      /\ \A i \in S : Rank(S, i) \in 1 .. Cardinality(S) /\ Nth(S, Rank(S, i)) = i
  BY <1>1, RankIsPlace, FS_EmptySet
<1> DEFINE m == Nth(S, 1)
<1>3. m \in S /\ Rank(S, m) = 1
  BY <1>2
<1> HIDE DEF m
<1>4. ASSUME NEW r \in S, r < m PROVE FALSE
  <2> DEFINE A == {j \in S : j <= r}
             B == {j \in S : j <= m}
  <2>1. \A j \in S : j <= r => j <= m
    BY <1>1, <1>3, <1>4
  <2>2. A \in SUBSET B /\ B \in SUBSET S
    BY <2>1
  <2>3. Cardinality(A) <= Cardinality(B)
    BY <1>1, <2>2, FS_Subset
  <2>4. Rank(S, r) <= Rank(S, m)
    BY <2>3 DEF Rank
  <2>5. Rank(S, r) = 1
    BY <1>2, <1>3, <2>4
  <2>6. r = m
    BY <1>2, <1>3, <2>5
  <2> QED BY <1>1, <1>3, <1>4, <2>6
<1>5. \A r \in S : m <= r
  BY <1>1, <1>3, <1>4
<1> QED BY <1>3, <1>5 DEF First

(* Each item that is there lies in the slot it is taken from. *)
LEMMA TakenFrom ==
  ASSUME NEW b, NEW items, NEW those \in SUBSET Present(b, items)
  PROVE  /\ \A n \in those : First(SlotsOf(b, items[n])) \in Held(b) /\ b.at[First(SlotsOf(b, items[n]))] = items[n]
         /\ {First(SlotsOf(b, items[n])) : n \in those} \in SUBSET Held(b)
<1> SUFFICES ASSUME NEW n \in those
             PROVE  First(SlotsOf(b, items[n])) \in Held(b) /\ b.at[First(SlotsOf(b, items[n]))] = items[n]
  OBVIOUS
<1>1. SlotsOf(b, items[n]) \in SUBSET Slots /\ SlotsOf(b, items[n]) # {} /\ items[n] # Nothing
  BY DEF SlotsOf, Present, Filled
<1>2. First(SlotsOf(b, items[n])) \in SlotsOf(b, items[n])
  BY <1>1, FirstIsIn
<1> QED BY <1>1, <1>2 DEF SlotsOf, Held

(* Whatever is found of an offer, the inventory it is taken from stays sound. *)
LEMMA RemovingKeeps ==
  ASSUME CountersWide, NEW b, Kept(b), NEW items, NEW leave
  PROVE  Kept(RemoveItems(b, items, leave))
<1>1. Reached(items, Present(b, items), leave) \in SUBSET Present(b, items)
  BY DEF Reached
<1>2. {First(SlotsOf(b, items[n])) : n \in Reached(items, Present(b, items), leave)} \in SUBSET Held(b)
  BY <1>1, TakenFrom
<1> QED BY <1>2, RemoveKeeps DEF RemoveItems

(* Whatever of it has room, so does the one it is added to. *)
LEMMA AddingKeeps ==
  ASSUME NEW b, Kept(b), NEW items \in Offers, NEW leave
  PROVE  Kept(AddItems(b, items, leave))
<1> DEFINE those == Reached(items, Fitting(b, items), leave)
<1>1. those \in SUBSET Fitting(b, items)
  BY DEF Reached
<1> HIDE DEF those
<1>2. /\ those \in SUBSET Filled(items) /\ IsFiniteSet(those) /\ Cardinality(those) \in Nat
      /\ Cardinality(those) <= b.free /\ Cardinality(those) <= Cardinality(EmptyPack(b))
  BY <1>1, OfferedItems, FittingHasRoom
<1>3. those \in SUBSET Nat /\ \A n \in those : items[n] \in Items
  BY <1>2, OfferedItems
<1>4. Kept(AddItem(b, items, those))
  BY <1>2, <1>3, AddKeeps
<1> QED BY <1>4 DEF AddItems, those

(* One inventory that changes. *)
LEMMA OneChanges ==
  ASSUME NEW bags, AllKept(bags), NEW p \in Players, NEW c, Kept(c)
  PROVE  /\ AllKept([bags EXCEPT ![p] = c])
         /\ \A q \in Players : [bags EXCEPT ![p] = c][q] = IF q = p THEN c ELSE bags[q]
BY DEF AllKept, Kept

(* An exchange keeps every inventory sound, whatever is missing or too much. *)
LEMMA ExchangeKeeps ==
  ASSUME CountersWide, AllKept(bag), NEW trade, trade.who["Owner"] \in Players, trade.who["Target"] \in Players,
         trade.items["Owner"] \in Offers, trade.items["Target"] \in Offers, NEW leave
  PROVE  AllKept(Exchange(trade, leave).bags)
<1> DEFINE p == trade.who["Owner"]
           q == trade.who["Target"]
           gave == trade.items["Owner"]
           got == trade.items["Target"]
           b1 == [bag EXCEPT ![p] = RemoveItems(@, gave, leave)]
           b2 == [b1 EXCEPT ![q] = RemoveItems(@, got, leave)]
           b3 == [b2 EXCEPT ![q] = AddItems(@, gave, leave)]
           b4 == [b3 EXCEPT ![p] = AddItems(@, got, leave)]
<1>1. Exchange(trade, leave).bags = b4
  BY DEF Exchange
<1>2. p \in Players /\ q \in Players /\ gave \in Offers /\ got \in Offers
  OBVIOUS
<1> HIDE DEF p, q, gave, got
<1>3. AllKept(b1)
  <2>1. Kept(RemoveItems(bag[p], gave, leave))
    BY <1>2, RemovingKeeps DEF AllKept
  <2> QED BY <1>2, <2>1, OneChanges
<1> HIDE DEF b1
<1>4. AllKept(b2)
  <2>1. Kept(RemoveItems(b1[q], got, leave))
    BY <1>2, <1>3, RemovingKeeps DEF AllKept
  <2> QED BY <1>2, <1>3, <2>1, OneChanges
<1> HIDE DEF b2
<1>5. AllKept(b3)
  <2>1. Kept(AddItems(b2[q], gave, leave))
    BY <1>2, <1>4, AddingKeeps DEF AllKept
  <2> QED BY <1>2, <1>4, <2>1, OneChanges
<1> HIDE DEF b3
<1>6. AllKept(b4)
  <2>1. Kept(AddItems(b3[p], got, leave))
    BY <1>2, <1>5, AddingKeeps DEF AllKept
  <2> QED BY <1>2, <1>5, <2>1, OneChanges
<1> QED BY <1>1, <1>6

\* Nothing lies in two places, no offer has an item twice.
Once(bags) ==
  \A p, q \in Players : \A s, r \in Slots :
    bags[p].at[s] = bags[q].at[r] /\ bags[p].at[s] # Nothing => p = q /\ s = r

\* None of these items lies anywhere.
Nowhere(bags, items) == \A p \in Players : \A s \in Slots : bags[p].at[s] \notin items

\* c is bags without what was offered, which its owner had.
Without(bags, c, items) ==
  \A p \in Players : \A s \in Slots :
    c[p].at[s] = IF bags[p].at[s] \in items THEN Nothing ELSE bags[p].at[s]
Had(b, items) == \A item \in items : item # Nothing /\ \E s \in Slots : b.at[s] = item

(* All that is offered is reached when all of it is good. *)
LEMMA AllReached == ASSUME NEW items \in Offers, NEW leave PROVE Reached(items, Filled(items), leave) = Filled(items)
BY OfferedItems DEF Reached

(* An offer that is all there goes, and nothing else. *)
LEMMA OfferGoes ==
  ASSUME CountersWide, NEW bags, AllKept(bags), Once(bags), NEW p \in Players, NEW items \in Offers, NEW leave,
         Present(bags[p], items) = Filled(items),
         NEW c, c = [bags EXCEPT ![p] = RemoveItems(@, items, leave)]
  PROVE  Without(bags, c, Things(items)) /\ Had(bags[p], Things(items))
<1> DEFINE S == {First(SlotsOf(bags[p], items[n])) : n \in Filled(items)}
<1>1. RemoveItems(bags[p], items, leave) = RemoveItem(bags[p], S)
  BY AllReached DEF RemoveItems
<1>2. /\ \A n \in Filled(items) :
           First(SlotsOf(bags[p], items[n])) \in Held(bags[p]) /\ bags[p].at[First(SlotsOf(bags[p], items[n]))] = items[n]
      /\ S \in SUBSET Held(bags[p])
  <2>1. \A those \in SUBSET Present(bags[p], items) :
          /\ \A n \in those : /\ First(SlotsOf(bags[p], items[n])) \in Held(bags[p])
                             /\ bags[p].at[First(SlotsOf(bags[p], items[n]))] = items[n]
          /\ {First(SlotsOf(bags[p], items[n])) : n \in those} \in SUBSET Held(bags[p])
    BY TakenFrom
  <2>2. Filled(items) \in SUBSET Present(bags[p], items)
    OBVIOUS
  <2> QED BY <2>1, <2>2
<1>3. \A s \in S : bags[p].at[s] \in Things(items)
  BY <1>2 DEF Things
<1>4. \A n \in Filled(items) : \E s \in S : bags[p].at[s] = items[n] /\ s \in Slots /\ items[n] # Nothing
  BY <1>2 DEF Held
<1> HIDE DEF S
<1>5. RemoveItem(bags[p], S).at = [s \in Slots |-> IF s \in S THEN Nothing ELSE bags[p].at[s]]
  BY <1>2, RemoveKeeps DEF AllKept
<1>6. c[p] = RemoveItem(bags[p], S) /\ \A q \in Players \ {p} : c[q] = bags[q]
  BY <1>1 DEF AllKept
<1>7. Had(bags[p], Things(items))
  BY <1>4 DEF Things, Had
<1>8. ASSUME NEW q \in Players, NEW s \in Slots, bags[q].at[s] \in Things(items)
      PROVE  q = p /\ s \in S
  <2>1. PICK r \in S : bags[p].at[r] = bags[q].at[s] /\ r \in Slots /\ bags[q].at[s] # Nothing
    BY <1>4, <1>8 DEF Things
  <2> QED BY <2>1 DEF Once
<1>9. Without(bags, c, Things(items))
  <2> SUFFICES ASSUME NEW q \in Players, NEW s \in Slots
               PROVE  c[q].at[s] = IF bags[q].at[s] \in Things(items) THEN Nothing ELSE bags[q].at[s]
    BY DEF Without
  <2>1. CASE q = p
    BY <1>3, <1>5, <1>6, <1>8, <2>1
  <2>2. CASE q # p
    BY <1>6, <1>8, <2>2
  <2> QED BY <2>1, <2>2
<1> QED BY <1>7, <1>9

(* What goes leaves the rest where it was. *)
LEMMA WithoutOnce ==
  ASSUME NEW bags, Once(bags), NEW c, NEW items, Nothing \notin items, Without(bags, c, items)
  PROVE  /\ Once(c) /\ Nowhere(c, items)
         /\ \A others : Nothing \notin others /\ Nowhere(bags, others) => Nowhere(c, others)
<1>1. \A p \in Players : \A s \in Slots : c[p].at[s] # Nothing => c[p].at[s] = bags[p].at[s] /\ bags[p].at[s] \notin items
  BY DEF Without
<1>2. Once(c)
  BY <1>1 DEF Once
<1>3. Nowhere(c, items)
  BY <1>1 DEF Nowhere
<1>4. \A others : Nothing \notin others /\ Nowhere(bags, others) => Nowhere(c, others)
  BY <1>1 DEF Nowhere
<1> QED BY <1>2, <1>3, <1>4

(* What is put into an inventory and was nowhere is somewhere once. *)
LEMMA OfferComes ==
  ASSUME NEW bags, DOMAIN bags = Players, Once(bags), NEW p \in Players, NEW items, Distinct(items), Nowhere(bags, Things(items)),
         NEW b, Gets(bags[p], b, items, Filled(items)),
         NEW c, c = [bags EXCEPT ![p] = b]
  PROVE  /\ Once(c)
         /\ \A others : Nothing \notin others /\ Nowhere(bags, others) /\ others \cap Things(items) = {} => Nowhere(c, others)
<1>1. \A n \in Filled(items) : items[n] \in Things(items) /\ items[n] # Nothing
  BY DEF Things, Filled
<1>2. c[p] = b /\ \A q \in Players \ {p} : c[q] = bags[q]
  OBVIOUS
<1>3. \A s \in Slots : c[p].at[s] \in {bags[p].at[s], Nothing} \union Things(items)
  BY <1>1, <1>2 DEF Gets
<1>4. \A q \in Players : \A s \in Slots : c[q].at[s] \in {bags[q].at[s], Nothing} \union Things(items)
  BY <1>2, <1>3
<1>5. \A q \in Players \ {p} : \A s \in Slots : c[q].at[s] = bags[q].at[s] /\ bags[q].at[s] \notin Things(items)
  BY <1>2 DEF Nowhere
<1>6. \A s \in Slots : bags[p].at[s] \notin Things(items)
  BY DEF Nowhere
<1>7. ASSUME NEW s \in Slots, NEW r \in Slots, c[p].at[s] = c[p].at[r], c[p].at[s] # Nothing PROVE s = r
  <2>1. CASE bags[p].at[s] # Nothing /\ bags[p].at[r] # Nothing
    BY <1>2, <1>7, <2>1 DEF Gets, Once
  <2>2. CASE bags[p].at[s] = Nothing /\ bags[p].at[r] = Nothing
    <3>1. SUFFICES ASSUME s # r PROVE FALSE
      OBVIOUS
    <3>2. \E m, n \in Filled(items) : m # n /\ items[m] = items[n]
      BY <1>2, <1>7, <2>2, <3>1 DEF Gets
    <3> QED BY <3>2 DEF Distinct
  <2>3. CASE bags[p].at[s] # Nothing /\ bags[p].at[r] = Nothing
    <3>1. c[p].at[s] = bags[p].at[s]
      BY <1>2, <2>3 DEF Gets
    <3>2. c[p].at[r] \in Things(items)
      BY <1>1, <1>2, <1>7, <2>3 DEF Gets
    <3> QED BY <1>6, <1>7, <3>1, <3>2
  <2>4. CASE bags[p].at[s] = Nothing /\ bags[p].at[r] # Nothing
    <3>1. c[p].at[r] = bags[p].at[r]
      BY <1>2, <2>4 DEF Gets
    <3>2. c[p].at[s] \in Things(items)
      BY <1>1, <1>2, <1>7, <2>4 DEF Gets
    <3> QED BY <1>6, <1>7, <3>1, <3>2
  <2> QED BY <2>1, <2>2, <2>3, <2>4
<1>8. Once(c)
  <2> SUFFICES ASSUME NEW q \in Players, NEW o \in Players, NEW s \in Slots, NEW r \in Slots,
                      c[q].at[s] = c[o].at[r], c[q].at[s] # Nothing
               PROVE  q = o /\ s = r
    BY DEF Once
  <2>1. CASE q = p /\ o = p
    BY <1>7, <2>1
  <2>2. CASE q # p /\ o # p
    BY <1>5, <2>2 DEF Once
  <2>3. CASE q = p /\ o # p
    <3>1. c[o].at[r] = bags[o].at[r] /\ bags[o].at[r] \notin Things(items)
      BY <1>5, <2>3
    <3>2. c[p].at[s] = bags[p].at[s]
      BY <1>3, <2>3, <3>1
    <3> QED BY <2>3, <3>1, <3>2 DEF Once
  <2>4. CASE q # p /\ o = p
    <3>1. c[q].at[s] = bags[q].at[s] /\ bags[q].at[s] \notin Things(items)
      BY <1>5, <2>4
    <3>2. c[p].at[r] = bags[p].at[r]
      BY <1>3, <2>4, <3>1
    <3> QED BY <2>4, <3>1, <3>2 DEF Once
  <2> QED BY <2>1, <2>2, <2>3, <2>4
<1>9. ASSUME NEW others, Nothing \notin others, Nowhere(bags, others), others \cap Things(items) = {}
      PROVE  Nowhere(c, others)
  BY <1>4, <1>9 DEF Nowhere
<1> QED BY <1>8, <1>9

(* What has room gets all that is offered. *)
LEMMA AllAdded ==
  ASSUME NEW b, Kept(b), NEW items \in Offers, Fitting(b, items) = Filled(items), NEW leave
  PROVE  Gets(b, AddItems(b, items, leave), items, Filled(items))
<1>1. AddItems(b, items, leave) = AddItem(b, items, Filled(items))
  BY AllReached DEF AddItems
<1>2. /\ Filled(items) \in SUBSET Nat /\ IsFiniteSet(Filled(items))
      /\ Cardinality(Filled(items)) <= b.free /\ Cardinality(Filled(items)) <= Cardinality(EmptyPack(b))
      /\ \A n \in Filled(items) : items[n] \in Items
  BY OfferedItems, FittingHasRoom
<1> QED BY <1>1, <1>2, AddKeeps

(* A whole exchange moves what was offered: nothing is doubled. *)
LEMMA ExchangeOnce ==
  ASSUME CountersWide, AllKept(bag), Once(bag), NEW trade, trade.who["Owner"] \in Players, trade.who["Target"] \in Players,
         trade.items["Owner"] \in Offers, trade.items["Target"] \in Offers,
         Distinct(trade.items["Owner"]), Distinct(trade.items["Target"]), NEW leave,
         Exchange(trade, leave).removed, Exchange(trade, leave).added
  PROVE  /\ Once(Exchange(trade, leave).bags)
         /\ Had(bag[trade.who["Owner"]], Things(trade.items["Owner"]))
         /\ \E b1 : Without(bag, b1, Things(trade.items["Owner"])) /\ Had(b1[trade.who["Target"]], Things(trade.items["Target"]))
         /\ \A others : Nothing \notin others /\ Nowhere(bag, others) => Nowhere(Exchange(trade, leave).bags, others)
<1> DEFINE p == trade.who["Owner"]
           q == trade.who["Target"]
           gave == trade.items["Owner"]
           got == trade.items["Target"]
           b1 == [bag EXCEPT ![p] = RemoveItems(@, gave, leave)]
           b2 == [b1 EXCEPT ![q] = RemoveItems(@, got, leave)]
           b3 == [b2 EXCEPT ![q] = AddItems(@, gave, leave)]
           b4 == [b3 EXCEPT ![p] = AddItems(@, got, leave)]
<1>1. /\ Exchange(trade, leave).bags = b4
      /\ Present(bag[p], gave) = Filled(gave) /\ Present(b1[q], got) = Filled(got)
      /\ Fitting(b2[q], gave) = Filled(gave) /\ Fitting(b3[p], got) = Filled(got)
  <2>1. Exchange(trade, leave).bags = b4
    BY DEF Exchange
  <2>2. Exchange(trade, leave).removed <=> Present(bag[p], gave) = Filled(gave) /\ Present(b1[q], got) = Filled(got)
    BY DEF Exchange
  <2>3. Exchange(trade, leave).added <=> Fitting(b2[q], gave) = Filled(gave) /\ Fitting(b3[p], got) = Filled(got)
    BY DEF Exchange
  <2> HIDE DEF b1, b2, b3, b4, p, q, gave, got
  <2> QED BY <2>1, <2>2, <2>3, Zenon
<1>2. p \in Players /\ q \in Players /\ gave \in Offers /\ got \in Offers /\ Distinct(gave) /\ Distinct(got)
  OBVIOUS
<1> HIDE DEF p, q, gave, got
<1>3. AllKept(b1)
  <2>1. Kept(RemoveItems(bag[p], gave, leave))
    BY <1>2, RemovingKeeps DEF AllKept
  <2> QED BY <1>2, <2>1, OneChanges
<1>4. Without(bag, b1, Things(gave)) /\ Had(bag[p], Things(gave)) /\ Nothing \notin Things(gave)
  <2>1. Without(bag, b1, Things(gave)) /\ Had(bag[p], Things(gave))
    BY <1>1, <1>2, OfferGoes
  <2> QED BY <2>1 DEF Had
<1> HIDE DEF b1
<1>5. /\ Once(b1) /\ Nowhere(b1, Things(gave))
      /\ \A others : Nothing \notin others /\ Nowhere(bag, others) => Nowhere(b1, others)
  BY <1>4, WithoutOnce
<1>6. AllKept(b2)
  <2>1. Kept(RemoveItems(b1[q], got, leave))
    BY <1>2, <1>3, RemovingKeeps DEF AllKept
  <2> QED BY <1>2, <1>3, <2>1, OneChanges
<1>7. Without(b1, b2, Things(got)) /\ Had(b1[q], Things(got)) /\ Nothing \notin Things(got)
  <2>1. Without(b1, b2, Things(got)) /\ Had(b1[q], Things(got))
    BY <1>1, <1>2, <1>3, <1>5, OfferGoes
  <2> QED BY <2>1 DEF Had
<1> HIDE DEF b2
<1>8. /\ Once(b2) /\ Nowhere(b2, Things(got)) /\ Nowhere(b2, Things(gave))
      /\ \A others : Nothing \notin others /\ Nowhere(bag, others) => Nowhere(b2, others)
  BY <1>4, <1>5, <1>7, WithoutOnce
<1>9. Things(got) \cap Things(gave) = {}
  BY <1>2, <1>5, <1>7 DEF Had, Nowhere
<1>10. AllKept(b3)
  <2>1. Kept(AddItems(b2[q], gave, leave))
    BY <1>2, <1>6, AddingKeeps DEF AllKept
  <2> QED BY <1>2, <1>6, <2>1, OneChanges
<1>11. /\ Once(b3) /\ Nowhere(b3, Things(got))
       /\ \A others : Nothing \notin others /\ Nowhere(bag, others) /\ others \cap Things(gave) = {} => Nowhere(b3, others)
  <2> DEFINE b == AddItems(b2[q], gave, leave)
  <2>1. Gets(b2[q], b, gave, Filled(gave))
    BY <1>1, <1>2, <1>6, AllAdded DEF AllKept
  <2>2. DOMAIN b2 = Players /\ b3 = [b2 EXCEPT ![q] = b]
    BY <1>6 DEF AllKept
  <2> HIDE DEF b, b3
  <2>3. /\ Once(b3)
        /\ \A others : Nothing \notin others /\ Nowhere(b2, others) /\ others \cap Things(gave) = {} => Nowhere(b3, others)
    BY <1>2, <1>8, <2>1, <2>2, OfferComes
  <2> QED BY <1>7, <1>8, <1>9, <2>3
<1> HIDE DEF b3
<1>12. /\ Once(b4)
       /\ \A others : Nothing \notin others /\ Nowhere(b3, others) /\ others \cap Things(got) = {} => Nowhere(b4, others)
  <2> DEFINE b == AddItems(b3[p], got, leave)
  <2>1. Gets(b3[p], b, got, Filled(got))
    BY <1>1, <1>2, <1>10, AllAdded DEF AllKept
  <2>2. DOMAIN b3 = Players /\ b4 = [b3 EXCEPT ![p] = b]
    BY <1>10 DEF AllKept
  <2> HIDE DEF b, b4
  <2> QED BY <1>2, <1>11, <2>1, <2>2, OfferComes
<1>13. ASSUME NEW others, Nothing \notin others, Nowhere(bag, others) PROVE Nowhere(b4, others)
  <2>1. others \cap Things(gave) = {}
    BY <1>2, <1>4, <1>13 DEF Had, Nowhere
  <2>2. Nowhere(b1, others)
    BY <1>5, <1>13
  <2>3. others \cap Things(got) = {}
    BY <1>2, <1>7, <2>2 DEF Had, Nowhere
  <2> QED BY <1>11, <1>12, <1>13, <2>1, <2>3
<1>14. \E b : Without(bag, b, Things(gave)) /\ Had(b[q], Things(got))
  BY <1>4, <1>7
<1> QED BY <1>1, <1>4, <1>12, <1>13, <1>14 DEF p, q, gave, got

-----------------------------------------------------------------------------
(* The table of a trade, and what is on it. *)

\* A TradeData in order: no item twice; who trades with himself never accepts as the other.
Sound(trade) ==
  /\ trade \in TradeData
  /\ \A side \in Sides : Distinct(trade.items[side])
  /\ ZeroedHeap /\ trade.who["Owner"] = trade.who["Target"] => ~trade.accepted["Target"]

TableOK ==
  /\ trades \in [TradeIds -> TradeData] /\ \A t \in TradeIds : Sound(trades[t])
  /\ agreed \in [TradeIds -> [Sides -> SUBSET Shown]]

ItemsOK == AssertStops => Once(bag) /\ Nowhere(bag, unmade)

MoneyOK == coin \in [Players -> 0 .. (Word - 1)]

TInv ==
  /\ SInv /\ TableOK /\ AllKept(bag) /\ ItemsOK /\ MoneyOK
  /\ unmade \subseteq Items
  /\ fault \in {"none", "remove", "add", "slot", "freed"}

(* A new TradeData is in order. *)
LEMMA NewIsSound ==
  ASSUME NEW p \in Players \union {None}, NEW q \in Players \union {None},
         NEW gold \in [Sides -> Gold], NEW accepted \in [Sides -> BOOLEAN],
         ZeroedHeap => ~accepted["Target"]
  PROVE  Sound(NewTrade(p, q, gold, accepted))
<1> DEFINE new == NewTrade(p, q, gold, accepted)
<1>1. NoItems \in Offers /\ Filled(NoItems) = {}
  BY DEF NoItems, Offers, Filled
<1>2. /\ new = [who |-> new.who, gold |-> gold, items |-> new.items, accepted |-> accepted]
      /\ new.who \in [Sides -> Players \union {None}]
      /\ new.items = [side \in Sides |-> NoItems]
  BY DEF NewTrade, Sides
<1> HIDE DEF new
<1>3. new.items \in [Sides -> Offers] /\ \A side \in Sides : Distinct(new.items[side])
  BY <1>1, <1>2 DEF Distinct
<1>4. new \in TradeData
  BY <1>2, <1>3 DEF TradeData, Offers
<1> QED BY <1>2, <1>3, <1>4 DEF Sound, new

(* So is the one nobody uses. *)
LEMMA NoTradeSound == Sound(NoTrade) /\ NoneAgreed \in [Sides -> SUBSET Shown]
<1>1. [side \in Sides |-> 0] \in [Sides -> Gold] /\ [side \in Sides |-> FALSE] \in [Sides -> BOOLEAN]
  BY TradeAssumption
<1>2. ~[side \in Sides |-> FALSE]["Target"]
  BY DEF Sides
<1> QED BY <1>1, <1>2, NewIsSound DEF NoTrade, NoneAgreed

(* Trades that nobody refers to may go. *)
LEMMA FreedSound ==
  ASSUME NEW objects \in [TradeIds -> TradeData], \A t \in TradeIds : Sound(objects[t]),
         NEW shown \in [TradeIds -> [Sides -> SUBSET Shown]],
         trades' = Freed(objects, NoTrade), agreed' = Freed(shown, NoneAgreed)
  PROVE  TableOK'
<1>1. \A t \in TradeIds : trades'[t] \in {objects[t], NoTrade} /\ agreed'[t] \in {shown[t], NoneAgreed}
  BY DEF Freed
<1>2. trades' = [t \in TradeIds |-> trades'[t]] /\ agreed' = [t \in TradeIds |-> agreed'[t]]
  BY DEF Freed
<1>3. \A t \in TradeIds : Sound(trades'[t]) /\ trades'[t] \in TradeData /\ agreed'[t] \in [Sides -> SUBSET Shown]
  BY <1>1, NoTradeSound DEF Sound
<1>4. trades' \in [TradeIds -> TradeData] /\ agreed' \in [TradeIds -> [Sides -> SUBSET Shown]]
  BY <1>2, <1>3
<1> QED BY <1>3, <1>4 DEF TableOK, Sound

(* A destroyed trade leaves the others in order. *)
LEMMA DestroySound == ASSUME TableOK, NEW trade, Destroy(trade) PROVE TableOK' /\ fault' \in {"none", "freed"}
<1>1. TableOK'
  BY FreedSound DEF Destroy, TableOK
<1> QED BY <1>1 DEF Destroy, MayCrash

(* Starting a trade does so as well. *)
LEMMA InitiateSound ==
  ASSUME TableOK, NEW p \in Players, NEW q \in Players, InitiateTrade(p, q), fault \in {"none", "remove", "add", "slot", "freed"}
  PROVE  TableOK' /\ fault' \in {"none", "remove", "add", "slot", "freed"}
<1>1. fault' \in {"none", "remove", "add", "slot", "freed"}
  BY DEF InitiateTrade, MayCrash
<1>2. ASSUME trades' = Freed(trades, NoTrade), agreed' = Freed(agreed, NoneAgreed) PROVE TableOK'
  BY <1>2, FreedSound DEF TableOK
<1>3. ASSUME NEW t \in TradeIds, NEW gold \in [Sides -> Garbage], NEW accepted \in [Sides -> GarbageFlag],
             trades' = Freed([trades EXCEPT ![t] = NewTrade(p, q, gold, accepted)], NoTrade),
             agreed' = Freed([agreed EXCEPT ![t] = NoneAgreed], NoneAgreed)
      PROVE  TableOK'
  <2> DEFINE new == NewTrade(p, q, gold, accepted)
  <2>1. gold \in [Sides -> Gold] /\ accepted \in [Sides -> BOOLEAN] /\ (ZeroedHeap => ~accepted["Target"])
    BY TradeAssumption DEF Garbage, GarbageFlag, Sides
  <2>2. Sound(new) /\ new \in TradeData
    BY <2>1, NewIsSound DEF Sound
  <2> HIDE DEF new
  <2>3. /\ [trades EXCEPT ![t] = new] \in [TradeIds -> TradeData]
        /\ \A u \in TradeIds : Sound([trades EXCEPT ![t] = new][u])
        /\ [agreed EXCEPT ![t] = NoneAgreed] \in [TradeIds -> [Sides -> SUBSET Shown]]
    BY <2>2, NoTradeSound DEF TableOK
  <2> QED BY <1>3, <2>3, FreedSound DEF new
<1> QED BY <1>1, <1>2, <1>3 DEF InitiateTrade

(* A handler that changes the trade of a player. *)
LEMMA ChangeSound ==
  ASSUME SInv, TableOK, NEW p \in Players, Trading(p), NEW trade, Sound(trade), NEW shown \in [Sides -> SUBSET Shown],
         trades' = [trades EXCEPT ![session[p]] = trade], agreed' = [agreed EXCEPT ![session[p]] = shown]
  PROVE  TableOK'
<1>1. session[p] \in TradeIds
  BY SideOfPlayer
<1>2. trades' \in [TradeIds -> TradeData] /\ agreed' \in [TradeIds -> [Sides -> SUBSET Shown]]
  BY <1>1 DEF TableOK, Sound
<1>3. \A t \in TradeIds : Sound(trades'[t])
  BY <1>1 DEF TableOK
<1> QED BY <1>2, <1>3 DEF TableOK, Sound

(* The trade of a player is in order and shows a table. *)
LEMMA TradeIsSound ==
  ASSUME SInv, TableOK, NEW p \in Players, Trading(p)
  PROVE  /\ session[p] \in TradeIds /\ Sound(TradeOf(p)) /\ TradeOf(p) \in TradeData
         /\ agreed[session[p]] \in [Sides -> SUBSET Shown]
         /\ \A trade \in TradeData : OnTable(trade) \in Shown
<1>1. session[p] \in TradeIds
  BY SideOfPlayer
<1>2. \A trade \in TradeData : OnTable(trade) \in Shown
  BY DEF OnTable, Shown, TradeData
<1> QED BY <1>1, <1>2 DEF TableOK, Sound, TradeOf

(* Changing an offer keeps the table in order. *)
LEMMA OfferSound ==
  ASSUME SInv, TableOK, NEW p \in Players, Trading(p), NEW trade, Sound(trade), ChangeOffer(p, trade)
  PROVE  TableOK'
<1> DEFINE after == [trade EXCEPT !.accepted =
                       [side \in Sides |-> @[side] /\ side \notin Resets(SideOf(p))]]
           shown == [side \in Sides |-> IF side \in Resets(SideOf(p)) THEN {} ELSE agreed[session[p]][side]]
<1>1. trades' = [trades EXCEPT ![session[p]] = after] /\ agreed' = [agreed EXCEPT ![session[p]] = shown]
  BY TradeIsSound DEF ChangeOffer, TableOK
<1>2. trade \in TradeData
  BY DEF Sound
<1>3. after \in TradeData /\ after.items = trade.items /\ \A side \in Sides : ~after.accepted[side]
  BY <1>2 DEF TradeData, Resets
<1>4. Sound(after)
  BY <1>3 DEF Sound, Sides
<1>5. shown \in [Sides -> SUBSET Shown]
  BY DEF Resets
<1> HIDE DEF after, shown
<1> QED BY <1>1, <1>4, <1>5, ChangeSound

(* Gold and items that are put on the table. *)
LEMMA GoldSound ==
  ASSUME SInv, TableOK, NEW p \in Players, NEW gold \in Gold, SetTradeGold(p, gold)
  PROVE  TableOK'
<1> DEFINE trade == [TradeOf(p) EXCEPT !.gold[SideOf(p)] = gold]
<1>0. Trading(p) /\ ChangeOffer(p, trade)
  BY DEF SetTradeGold
<1>1. Sound(TradeOf(p)) /\ TradeOf(p) \in TradeData
  BY <1>0, TradeIsSound
<1>2. trade \in TradeData /\ trade.items = TradeOf(p).items /\ trade.who = TradeOf(p).who /\ trade.accepted = TradeOf(p).accepted
  BY <1>1 DEF TradeData
<1>3. Sound(trade)
  BY <1>1, <1>2 DEF Sound
<1> HIDE DEF trade
<1> QED BY <1>0, <1>3, OfferSound

(* An item lies in one slot of the table only. *)
LEMMA ItemSound ==
  ASSUME SInv, TableOK, AllKept(bag), NEW p \in Players, NEW slot \in Table,
         (\E s \in Slots : SetTradeItem(p, slot, s)) \/ ClearTradeItem(p, slot)
  PROVE  TableOK'
<1>1. ASSUME NEW items \in Offers, Trading(p), Distinct(items),
             ChangeOffer(p, [TradeOf(p) EXCEPT !.items[SideOf(p)] = items])
      PROVE  TableOK'
  <2> DEFINE trade == [TradeOf(p) EXCEPT !.items[SideOf(p)] = items]
  <2>1. Sound(TradeOf(p)) /\ TradeOf(p) \in TradeData
    BY <1>1, TradeIsSound
  <2>2. /\ trade \in TradeData /\ trade.who = TradeOf(p).who /\ trade.accepted = TradeOf(p).accepted
        /\ \A side \in Sides : trade.items[side] = IF side = SideOf(p) THEN items ELSE TradeOf(p).items[side]
    BY <2>1 DEF TradeData, Offers
  <2>3. Sound(trade)
    BY <1>1, <2>1, <2>2 DEF Sound
  <2> HIDE DEF trade
  <2> QED BY <1>1, <2>3, OfferSound DEF trade
<1>2. Trading(p)
  BY DEF SetTradeItem, ClearTradeItem
<1>3. TradeOf(p).items[SideOf(p)] \in Offers /\ Distinct(TradeOf(p).items[SideOf(p)])
  BY <1>2, TradeIsSound, SideOfPlayer DEF TradeData, Sound, Offers
<1> DEFINE own == TradeOf(p).items[SideOf(p)]
<1>4. ASSUME NEW s \in Slots, SetTradeItem(p, slot, s) PROVE TableOK'
  <2> DEFINE item == bag[p].at[s]
             items == [Withdrawn(own, item) EXCEPT ![slot] = item]
  <2>1. item \in Items
    BY <1>4 DEF SetTradeItem, Held, AllKept, Inventory
  <2>2. ChangeOffer(p, [TradeOf(p) EXCEPT !.items[SideOf(p)] = items])
    BY <1>4 DEF SetTradeItem
  <2> HIDE DEF own, item
  <2>3. items \in Offers /\ Distinct(items)
    BY <1>3, <2>1 DEF Offers, Distinct, Withdrawn, Filled, own
  <2> QED BY <1>1, <1>2, <2>2, <2>3
<1>5. ASSUME ClearTradeItem(p, slot) PROVE TableOK'
  <2> DEFINE items == [own EXCEPT ![slot] = Nothing]
  <2>1. ChangeOffer(p, [TradeOf(p) EXCEPT !.items[SideOf(p)] = items])
    BY <1>2, <1>5, TradeIsSound, SideOfPlayer DEF ClearTradeItem, TradeData
  <2> HIDE DEF own
  <2>2. items \in Offers /\ Distinct(items)
    BY <1>3 DEF Offers, Distinct, Filled, own
  <2> QED BY <1>1, <1>2, <2>1, <2>2
<1> QED BY <1>4, <1>5

(* Acceptances. *)
LEMMA UnacceptSound == ASSUME SInv, TableOK, NEW p \in Players, UnacceptTrade(p) PROVE TableOK'
<1> DEFINE side == SideOf(p)
           trade == [TradeOf(p) EXCEPT !.accepted[side] = FALSE]
           shown == [agreed[session[p]] EXCEPT ![side] = {}]
<1>0. Trading(p)
  BY DEF UnacceptTrade
<1>1. /\ Sound(TradeOf(p)) /\ TradeOf(p) \in TradeData /\ session[p] \in TradeIds
      /\ agreed[session[p]] \in [Sides -> SUBSET Shown]
  BY <1>0, TradeIsSound
<1>2. trades' = [trades EXCEPT ![session[p]] = trade] /\ agreed' = [agreed EXCEPT ![session[p]] = shown]
  BY <1>1 DEF UnacceptTrade, TableOK, TradeOf
<1>3. /\ trade \in TradeData /\ trade.items = TradeOf(p).items /\ trade.who = TradeOf(p).who
      /\ \A s \in Sides : trade.accepted[s] => TradeOf(p).accepted[s]
  BY <1>1 DEF TradeData
<1>4. Sound(trade) /\ shown \in [Sides -> SUBSET Shown]
  BY <1>1, <1>3 DEF Sound, Sides
<1> HIDE DEF trade, shown
<1> QED BY <1>0, <1>2, <1>4, ChangeSound

(* What a closed trade leaves in the two purses fits. *)
LEMMA PaidFits ==
  ASSUME MoneyOK, NEW trade \in TradeData, trade.who["Owner"] \in Players, trade.who["Target"] \in Players
  PROVE  \A side \in Sides : Paid(trade, side) \in 0 .. (Word - 1)
<1> SUFFICES ASSUME NEW side \in Sides PROVE Paid(trade, side) \in 0 .. (Word - 1)
  OBVIOUS
<1>1. trade.who[side] \in Players /\ Other(side) \in Sides
  BY DEF Sides, Other
<1>2. Word \in Nat \ {0} /\ Gold \subseteq Int
  BY TradeAssumption
<1>3. coin[trade.who[side]] \in Int /\ trade.gold[side] \in Int /\ trade.gold[Other(side)] \in Int
  <2>1. trade.gold \in [Sides -> Gold] /\ coin \in [Players -> 0 .. (Word - 1)]
    BY DEF MoneyOK, TradeData
  <2>2. coin[trade.who[side]] \in 0 .. (Word - 1) /\ trade.gold[side] \in Gold /\ trade.gold[Other(side)] \in Gold
    BY <1>1, <2>1
  <2>3. trade.gold[side] \in Int /\ trade.gold[Other(side)] \in Int
    BY <1>2, <2>2, Zenon
  <2>4. coin[trade.who[side]] \in Int
    BY <1>2, <2>2
  <2> QED BY <2>3, <2>4
<1> QED BY <1>2, <1>3 DEF Paid, Due

(* Accepting keeps everything sound; closing a trade exchanges what was offered. *)
LEMMA AcceptSound ==
  ASSUME CountersWide, TInv, NEW p \in Players, AcceptTrade(p)
  PROVE  /\ TableOK' /\ AllKept(bag)' /\ ItemsOK' /\ MoneyOK'
         /\ unmade' = unmade /\ fault' \in {"none", "remove", "add", "slot", "freed"}
<1> DEFINE side == SideOf(p)
           trade == [TradeOf(p) EXCEPT !.accepted[side] = TRUE]
           shown == [agreed[session[p]] EXCEPT ![side] = {OnTable(trade)}]
<1>0. Trading(p) /\ fault = "none" /\ SInv /\ TableOK /\ AllKept(bag) /\ ItemsOK /\ MoneyOK
  BY DEF AcceptTrade, TInv
<1>1. /\ Sound(TradeOf(p)) /\ TradeOf(p) \in TradeData /\ session[p] \in TradeIds
      /\ agreed[session[p]] \in [Sides -> SUBSET Shown]
      /\ \A other \in TradeData : OnTable(other) \in Shown
  BY <1>0, TradeIsSound
<1>2. side \in Sides /\ TradeOf(p).who[side] = p /\ \A s \in Sides : TradeOf(p).who[s] \in Players
  BY <1>0, SideOfPlayer DEF SInv, SessionsAgree
<1>3. /\ trade \in TradeData /\ trade.items = TradeOf(p).items /\ trade.who = TradeOf(p).who
      /\ \A s \in Sides : s # side => trade.accepted[s] = TradeOf(p).accepted[s]
  BY <1>1 DEF TradeData
<1>4. trade.who["Owner"] = trade.who["Target"] => side = "Owner"
  BY <1>2, <1>3 DEF SideOf, Sides
<1>5. Sound(trade) /\ shown \in [Sides -> SUBSET Shown]
  BY <1>1, <1>3, <1>4 DEF Sound, Sides
<1>6. /\ trade.who["Owner"] \in Players /\ trade.who["Target"] \in Players
      /\ trade.items["Owner"] \in Offers /\ trade.items["Target"] \in Offers
      /\ Distinct(trade.items["Owner"]) /\ Distinct(trade.items["Target"])
  BY <1>2, <1>3, <1>5 DEF Sound, Sides, TradeData, Offers
<1>7. CASE trade.accepted[Other(side)]
  <2>0. PerformTrade(trade)
    BY <1>7 DEF AcceptTrade
  <2> HIDE DEF trade, shown, side
  <2>1. CASE Destroy(trade) /\ UNCHANGED world
    <3>1. AllKept(bag)' /\ ItemsOK' /\ MoneyOK' /\ unmade' = unmade
      BY <1>0, <2>1 DEF world, AllKept, ItemsOK, MoneyOK, Once, Nowhere
    <3> QED BY <1>0, <2>1, <3>1, DestroySound
  <2>2. CASE fault' \in {"remove", "add"} /\ UNCHANGED <<session, trades, agreed, world>>
    <3>1. AllKept(bag)' /\ ItemsOK' /\ MoneyOK' /\ unmade' = unmade /\ TableOK'
      BY <1>0, <2>2 DEF world, AllKept, ItemsOK, MoneyOK, Once, Nowhere, TableOK
    <3> QED BY <2>2, <3>1
  <2>3. ASSUME NEW leave \in BOOLEAN,
               AssertStops => Exchange(trade, leave).removed /\ Exchange(trade, leave).added,
               bag' = Exchange(trade, leave).bags,
               coin' = [coin EXCEPT ![trade.who["Owner"]] = Paid(trade, "Owner"),
                                    ![trade.who["Target"]] = Paid(trade, "Target")],
               Destroy(trade), UNCHANGED unmade
        PROVE  /\ TableOK' /\ AllKept(bag)' /\ ItemsOK' /\ MoneyOK'
               /\ unmade' = unmade /\ fault' \in {"none", "remove", "add", "slot", "freed"}
    <3>1. TableOK' /\ fault' \in {"none", "freed"}
      BY <1>0, <2>3, DestroySound
    <3>2. AllKept(bag')
      BY <1>0, <1>6, <2>3, ExchangeKeeps
    <3>3. MoneyOK'
      <4>1. Paid(trade, "Owner") \in 0 .. (Word - 1) /\ Paid(trade, "Target") \in 0 .. (Word - 1)
        BY <1>0, <1>3, <1>6, PaidFits DEF Sides
      <4> QED BY <1>0, <2>3, <4>1 DEF MoneyOK
    <3>4. ASSUME AssertStops PROVE Once(bag') /\ Nowhere(bag', unmade')
      <4>1. Once(bag) /\ Nowhere(bag, unmade) /\ Nothing \notin unmade
        BY <1>0, <3>4, NoneAssumption DEF ItemsOK, TInv
      <4>2. Exchange(trade, leave).removed /\ Exchange(trade, leave).added
        BY <2>3, <3>4
      <4>3. /\ Once(Exchange(trade, leave).bags)
            /\ \A others : Nothing \notin others /\ Nowhere(bag, others) => Nowhere(Exchange(trade, leave).bags, others)
        BY <1>0, <1>6, <4>1, <4>2, ExchangeOnce
      <4>4. Nowhere(Exchange(trade, leave).bags, unmade)
        BY <4>1, <4>3
      <4> QED BY <2>3, <4>3, <4>4
    <3>5. ItemsOK'
      BY <3>4 DEF ItemsOK, Once, Nowhere
    <3>6. AllKept(bag)'
      BY <3>2 DEF AllKept, Kept
    <3> QED BY <2>3, <3>1, <3>3, <3>5, <3>6
  <2> QED BY <2>0, <2>1, <2>2, <2>3 DEF PerformTrade
<1>8. CASE ~trade.accepted[Other(side)]
  <2>1. /\ UNCHANGED <<session, world, fault>>
        /\ trades' = [trades EXCEPT ![session[p]] = trade]
        /\ agreed' = [agreed EXCEPT ![session[p]] = shown]
    BY <1>8 DEF AcceptTrade
  <2> HIDE DEF trade, shown, side
  <2>2. TableOK'
    BY <1>0, <1>5, <2>1, ChangeSound
  <2>3. AllKept(bag)' /\ ItemsOK' /\ MoneyOK' /\ unmade' = unmade
    BY <1>0, <2>1 DEF world, AllKept, ItemsOK, MoneyOK, Once, Nowhere
  <2> QED BY <1>0, <2>1, <2>2, <2>3
<1> QED BY <1>7, <1>8

-----------------------------------------------------------------------------
(* What happens to the items meanwhile. *)

\* What an inventory has lay in other slots of it before.
Shuffled(b, c, from) ==
  /\ \A s \in Slots : c.at[s] # Nothing => from[s] \in Slots /\ b.at[from[s]] = c.at[s]
  /\ \A s, r \in Slots : c.at[s] # Nothing /\ c.at[r] # Nothing /\ from[s] = from[r] => s = r

(* It has nothing twice then. *)
LEMMA ShuffledOnce ==
  ASSUME NEW bags, AllKept(bags), Once(bags), NEW p \in Players, NEW b, NEW from, Shuffled(bags[p], b, from),
         NEW c, c = [bags EXCEPT ![p] = b]
  PROVE  Once(c) /\ \A others : Nothing \notin others /\ Nowhere(bags, others) => Nowhere(c, others)
<1>1. c[p] = b /\ \A q \in Players \ {p} : c[q] = bags[q]
  BY DEF AllKept
<1>2. ASSUME NEW q \in Players, NEW o \in Players, NEW s \in Slots, NEW r \in Slots,
             c[q].at[s] = c[o].at[r], c[q].at[s] # Nothing
      PROVE  q = o /\ s = r
  <2> DEFINE x(w, y) == IF w = p THEN from[y] ELSE y
  <2>1. x(q, s) \in Slots /\ x(o, r) \in Slots /\ bags[q].at[x(q, s)] = c[q].at[s] /\ bags[o].at[x(o, r)] = c[o].at[r]
    BY <1>1, <1>2 DEF Shuffled
  <2>2. q = o /\ x(q, s) = x(o, r)
    BY <1>2, <2>1 DEF Once
  <2> QED BY <1>1, <1>2, <2>2 DEF Shuffled
<1>3. \A others : Nothing \notin others /\ Nowhere(bags, others) => Nowhere(c, others)
  BY <1>1 DEF Nowhere, Shuffled
<1>4. Once(c)
  BY <1>2 DEF Once
<1> QED BY <1>3, <1>4

(* A new item. *)
LEMMA GainSound ==
  ASSUME CountersWide, TInv, NEW p \in Players, NEW item, GainItem(p, item)
  PROVE  AllKept(bag)' /\ ItemsOK' /\ unmade' \subseteq Items
<1> DEFINE items == <<item>>
           b == AddItem(bag[p], items, {1})
<1>1. /\ AllKept(bag) /\ ItemsOK /\ item \in unmade /\ item \in Items /\ item # Nothing
      /\ bag' = [bag EXCEPT ![p] = b] /\ unmade' = unmade \ {item} /\ Fitting(bag[p], items) = {1} /\ unmade \subseteq Items
  BY NoneAssumption DEF TInv, GainItem
<1>2. items[1] = item /\ DOMAIN items = {1} /\ {1} \in SUBSET Nat /\ IsFiniteSet({1})
  <2>1. DOMAIN items = 1 .. 1 /\ items[1] = item
    OBVIOUS
  <2>2. 1 .. 1 = {1} /\ {1} \in SUBSET Nat
    OBVIOUS
  <2>3. IsFiniteSet({1})
    BY FS_Singleton
  <2> QED BY <2>1, <2>2, <2>3
<1> HIDE DEF items
<1>3. Filled(items) = {1} /\ Distinct(items) /\ Things(items) = {item}
  BY <1>1, <1>2 DEF Filled, Distinct, Things
<1>4. Kept(bag[p])
  BY <1>1 DEF AllKept
<1>5. Cardinality({1}) <= bag[p].free /\ Cardinality({1}) <= Cardinality(EmptyPack(bag[p]))
  BY <1>1, <1>2, <1>4, FittingHasRoom
<1>6. Kept(b) /\ Gets(bag[p], b, items, {1})
  BY <1>1, <1>2, <1>4, <1>5, AddKeeps
<1> HIDE DEF b
<1>7. AllKept(bag')
  BY <1>1, <1>6, OneChanges
<1>8. ASSUME AssertStops PROVE Once(bag') /\ Nowhere(bag', unmade')
  <2>1. Once(bag) /\ Nowhere(bag, unmade) /\ DOMAIN bag = Players
    BY <1>1, <1>8 DEF ItemsOK, AllKept
  <2>2. Nowhere(bag, Things(items)) /\ Nowhere(bag, unmade')
    BY <1>1, <1>3, <2>1 DEF Nowhere
  <2>3. Nothing \notin unmade' /\ unmade' \cap Things(items) = {}
    BY <1>1, <1>3, NoneAssumption
  <2>4. /\ Once(bag')
        /\ \A others : Nothing \notin others /\ Nowhere(bag, others) /\ others \cap Things(items) = {} => Nowhere(bag', others)
    BY <1>1, <1>3, <1>6, <2>1, <2>2, OfferComes
  <2> QED BY <2>2, <2>3, <2>4
<1> QED BY <1>1, <1>7, <1>8 DEF AllKept, Kept, ItemsOK, Once, Nowhere

(* An inventory that is reordered or loses items. *)
LEMMA OwnChange ==
  ASSUME TInv, NEW p \in Players, NEW b, Kept(b), NEW from, Shuffled(bag[p], b, from),
         bag' = [bag EXCEPT ![p] = b], unmade' = unmade
  PROVE  AllKept(bag)' /\ ItemsOK' /\ unmade' \subseteq Items
<1>1. AllKept(bag) /\ ItemsOK /\ unmade \subseteq Items /\ Nothing \notin unmade
  BY NoneAssumption DEF TInv
<1>2. AllKept(bag')
  BY <1>1, OneChanges
<1>3. ASSUME AssertStops PROVE Once(bag') /\ Nowhere(bag', unmade')
  BY <1>1, <1>3, ShuffledOnce DEF ItemsOK
<1> QED BY <1>1, <1>2, <1>3 DEF AllKept, Kept, ItemsOK, Once, Nowhere

(* An item that is destroyed. *)
LEMMA DestroyItemSound ==
  ASSUME CountersWide, TInv, NEW p \in Players, NEW s \in Slots, DestroyItem(p, s)
  PROVE  AllKept(bag)' /\ ItemsOK' /\ unmade' \subseteq Items
<1> DEFINE b == RemoveItem(bag[p], {s})
           from == [r \in Slots |-> r]
<1>1. Kept(bag[p]) /\ s \in Held(bag[p]) /\ bag' = [bag EXCEPT ![p] = b] /\ unmade' = unmade
  BY DEF TInv, AllKept, DestroyItem
<1>2. Kept(b) /\ b.at = [r \in Slots |-> IF r = s THEN Nothing ELSE bag[p].at[r]]
  BY <1>1, OneGoes
<1> HIDE DEF b
<1>3. Shuffled(bag[p], b, from)
  BY <1>1, <1>2 DEF Shuffled, Held
<1> HIDE DEF from
<1> QED BY <1>1, <1>2, <1>3, OwnChange

(* An item that is sold. *)
LEMMA SellItemSound ==
  ASSUME CountersWide, TInv, NEW p \in Players, NEW s \in Slots, SellItem(p, s)
  PROVE  AllKept(bag)' /\ ItemsOK' /\ unmade' \subseteq Items /\ MoneyOK'
<1> DEFINE b == SoldItem(bag[p], s)
           from == [r \in Slots |-> IF r = First(BuyBack) THEN s ELSE r]
<1>1. /\ Kept(bag[p]) /\ s \in Held(bag[p]) /\ bag' = [bag EXCEPT ![p] = b] /\ unmade' = unmade
      /\ bag[p].free < MaxFree
  BY DEF TInv, AllKept, SellItem
<1>2. /\ Kept(b)
      /\ \A r \in Slots : b.at[r] =
           IF r = First(BuyBack) THEN bag[p].at[s] ELSE IF r = s THEN Nothing ELSE bag[p].at[r]
  BY <1>1, SoldKeeps
<1> HIDE DEF b
<1>3. Shuffled(bag[p], b, from)
  BY <1>1, <1>2 DEF Shuffled, Held
<1> HIDE DEF from
<1>5. AllKept(bag)' /\ ItemsOK' /\ unmade' \subseteq Items
  BY <1>1, <1>2, <1>3, OwnChange
<1>6. MoneyOK'
  <2>1. coin \in [Players -> 0 .. (Word - 1)] /\ coin' = [coin EXCEPT ![p] = (coin[p] + Price) % Word]
    BY DEF TInv, MoneyOK, SellItem
  <2>2. Price \in Nat /\ Word \in Nat \ {0}
    BY TradeAssumption
  <2>3. coin[p] \in 0 .. (Word - 1)
    BY <2>1
  <2>4. (coin[p] + Price) % Word \in 0 .. (Word - 1)
    BY <2>2, <2>3
  <2> QED BY <2>1, <2>4 DEF MoneyOK
<1> QED BY <1>5, <1>6

(* An item that is moved. *)
LEMMA MoveItemSound ==
  ASSUME TInv, NEW p \in Players, NEW f \in Slots, NEW to \in Slots, MoveItem(p, f, to)
  PROVE  AllKept(bag)' /\ ItemsOK' /\ unmade' \subseteq Items
<1> DEFINE b == Moved(bag[p], f, to)
           from == [r \in Slots |-> IF r = to THEN f ELSE IF r = f THEN to ELSE r]
<1>1. /\ Kept(bag[p]) /\ f \in Held(bag[p]) /\ to \in Slots \ {f} /\ FreeAfterMove(bag[p], f, to) <= MaxFree
      /\ bag' = [bag EXCEPT ![p] = b] /\ unmade' = unmade
  BY DEF TInv, AllKept, MoveItem, Moved
<1>2. /\ Kept(b)
      /\ \A s \in Slots : b.at[s] = IF s = to THEN bag[p].at[f] ELSE IF s = f THEN bag[p].at[to] ELSE bag[p].at[s]
  BY <1>1, MoveKeeps
<1> HIDE DEF b
<1>3. Shuffled(bag[p], b, from)
  BY <1>1, <1>2 DEF Shuffled, Held
<1> HIDE DEF from
<1> QED BY <1>1, <1>2, <1>3, OwnChange

(* Money that is spent. *)
LEMMA BuySound == ASSUME MoneyOK, NEW p \in Players, NEW cost \in Gold, BuySpell(p, cost) PROVE MoneyOK'
<1>1. coin \in [Players -> 0 .. (Word - 1)] /\ coin' = [coin EXCEPT ![p] = coin[p] - cost] /\ coin[p] >= cost
  BY DEF MoneyOK, BuySpell
<1>2. cost \in Nat /\ Word \in Nat
  BY TradeAssumption
<1>3. coin[p] - cost \in 0 .. (Word - 1)
  BY <1>1, <1>2
<1> QED BY <1>1, <1>3 DEF MoneyOK

-----------------------------------------------------------------------------
(* The invariant. *)

(* An inventory that holds what its counters say, in its backpack. *)
LEMMA FullIsKept ==
  ASSUME CountersWide, NEW at \in [Slots -> Items \union {Nothing}]
  PROVE  Kept(FullCount(at))
<1> DEFINE b == FullCount(at)
           E == {s \in Pack : at[s] = Nothing}
           H == {s \in Slots : at[s] # Nothing}
           C(entry) == {s \in Pack : at[s] # Nothing /\ EntryOf[at[s]] = entry}
<1>1. /\ b = [at |-> at, free |-> Cardinality(E), count |-> [entry \in Entries |-> Cardinality(C(entry))]]
      /\ b.at = at /\ b.free = Cardinality(E)
  BY DEF FullCount, CountOf
<1>2. EmptyPack(b) = E /\ Held(b) = H
  BY <1>1 DEF EmptyPack, Held
<1>3. /\ Cardinality(Slots) \in Nat
      /\ \A S \in SUBSET Slots : IsFiniteSet(S) /\ Cardinality(S) \in Nat /\ Cardinality(S) <= Cardinality(Slots)
  BY SlotsFinite
<1>4. Cardinality(Slots) < Counter /\ MaxFree \in Nat /\ Counter \in Nat
  <2>1. MaxFree + Cardinality(Slots) < Counter /\ MaxFree \in Nat /\ Counter \in Nat
    BY Wraps DEF CountersWide
  <2> QED BY <1>3, <2>1
<1>5. E \in SUBSET Slots /\ H \in SUBSET Slots /\ E \union H \in SUBSET Slots /\ E \cap H = {}
      /\ \A entry \in Entries : C(entry) \in SUBSET Slots
  BY SlotsFinite
<1>6. /\ IsFiniteSet(E) /\ IsFiniteSet(H) /\ Cardinality(E) \in Nat /\ Cardinality(H) \in Nat
      /\ Cardinality(E) <= Cardinality(Slots) /\ Cardinality(E \union H) <= Cardinality(Slots)
  BY <1>3, <1>5
<1>7. \A entry \in Entries : Cardinality(C(entry)) \in 0 .. (Counter - 1)
  <2> SUFFICES ASSUME NEW entry \in Entries PROVE Cardinality(C(entry)) \in 0 .. (Counter - 1)
    OBVIOUS
  <2>1. Cardinality(C(entry)) \in Nat /\ Cardinality(C(entry)) <= Cardinality(Slots)
    BY <1>3, <1>5
  <2> HIDE DEF C
  <2> QED BY <1>3, <1>4, <2>1
<1> HIDE DEF b, E, H, C
<1>8. Cardinality(E \union H) = Cardinality(E) + Cardinality(H)
  <2>1. Cardinality(E \union H) = Cardinality(E) + Cardinality(H) - Cardinality(E \cap H)
    BY <1>6, FS_Union
  <2>2. Cardinality(E \cap H) = 0
    BY <1>5, FS_EmptySet
  <2> QED BY <1>6, <2>1, <2>2
<1>9. Cardinality(E) \in 0 .. (Counter - 1)
  BY <1>3, <1>4, <1>6
<1>10. b \in Inventory
  BY <1>1, <1>7, <1>9 DEF Inventory
<1>11. b.free + Cardinality(H) <= MaxFree + Cardinality(Slots) /\ b.free >= Cardinality(E)
  BY <1>1, <1>3, <1>4, <1>6, <1>8
<1> QED BY <1>2, <1>10, <1>11 DEF Kept, b

(* A set with one element at most. *)
LEMMA AtMostOne ==
  ASSUME NEW S, IsFiniteSet(S)
  PROVE  Cardinality(S) <= 1 <=> \A x, y \in S : x = y
<1>1. ASSUME Cardinality(S) <= 1, NEW x \in S, NEW y \in S PROVE x = y
  <2>1. Cardinality(S) \in Nat /\ Cardinality(S) # 0
    BY FS_CardinalityType, FS_EmptySet
  <2>2. Cardinality(S) = 1
    BY <1>1, <2>1
  <2>3. \E z : S = {z}
    BY <2>2, FS_Singleton
  <2> QED BY <2>3
<1>2. ASSUME \A x, y \in S : x = y PROVE Cardinality(S) <= 1
  <2>1. CASE S = {}
    BY <2>1, FS_EmptySet
  <2>2. CASE S # {}
    <3>1. PICK z \in S : S = {z}
      BY <1>2, <2>2
    <3>2. Cardinality(S) = 1
      BY <3>1, FS_Singleton
    <3> QED BY <3>2
  <2> QED BY <2>1, <2>2
<1> QED BY <1>1, <1>2

(* No duplicate means that nothing lies in two places. *)
LEMMA OnceMeansNoDuplicate ==
  ASSUME \A p \in Players : bag[p].at \in [Slots -> Items \union {Nothing}]
  PROVE  Once(bag) <=> NoDuplicate
<1> DEFINE W(item) == {w \in Players \X Slots : bag[w[1]].at[w[2]] = item}
<1>1. IsFiniteSet(Players \X Slots)
  BY TradeAssumption, SlotsFinite, FS_Product
<1>2. \A item : IsFiniteSet(W(item))
  BY <1>1, FS_Subset
<1>3. NoDuplicate <=> \A item \in Items : Cardinality(W(item)) <= 1
  BY DEF NoDuplicate
<1>4. NoDuplicate <=> \A item \in Items : \A x, y \in W(item) : x = y
  <2> HIDE DEF W
  <2>1. ASSUME NEW item PROVE Cardinality(W(item)) <= 1 <=> \A x, y \in W(item) : x = y
    <3>1. IsFiniteSet(W(item))
      BY <1>2
    <3> QED BY <3>1, AtMostOne
  <2> QED BY <1>3, <2>1
<1>5. ASSUME Once(bag), NEW item \in Items, NEW x \in W(item), NEW y \in W(item) PROVE x = y
  BY <1>5, NoneAssumption DEF Once
<1>6. ASSUME \A item \in Items : \A x, y \in W(item) : x = y,
             NEW p \in Players, NEW q \in Players, NEW s \in Slots, NEW r \in Slots,
             bag[p].at[s] = bag[q].at[r], bag[p].at[s] # Nothing
      PROVE  p = q /\ s = r
  <2>1. bag[p].at[s] \in Items
    BY <1>6
  <2>2. <<p, s>> \in W(bag[p].at[s]) /\ <<q, r>> \in W(bag[p].at[s])
    BY <1>6
  <2>3. <<p, s>> = <<q, r>>
    BY <1>6, <2>1, <2>2
  <2> QED BY <2>3
<1> HIDE DEF W
<1> QED BY <1>4, <1>5, <1>6 DEF Once

(* It all holds at first. *)
LEMMA InitTInv == ASSUME CountersWide, Init PROVE TInv
<1>1. SInv
  BY InitSInv
<1>2. TableOK
  BY NoTradeSound DEF Init, TableOK, Sound
<1>3. PICK at \in [Players -> [Slots -> Items \union {Nothing}]] : bag = [p \in Players |-> FullCount(at[p])]
  BY DEF Init
<1>4. \A p \in Players : Kept(FullCount(at[p])) /\ FullCount(at[p]) \in Inventory
  BY FullIsKept DEF Kept
<1>5. AllKept(bag)
  BY <1>3, <1>4 DEF AllKept
<1>6. \A p \in Players : bag[p].at \in [Slots -> Items \union {Nothing}]
  BY <1>5 DEF AllKept, Inventory
<1>7. Once(bag)
  BY <1>6, OnceMeansNoDuplicate DEF Init
<1>8. unmade \subseteq Items /\ Nowhere(bag, unmade)
  BY DEF Init, Nowhere, SlotsOf
<1>9. MoneyOK
  <2>1. MaxCoin \in Int /\ MaxCoin < Word /\ Word \in Int
    BY TradeAssumption
  <2>2. 0 .. MaxCoin \subseteq 0 .. (Word - 1)
    BY <2>1
  <2> QED BY <2>2 DEF Init, MoneyOK
<1> QED BY <1>1, <1>2, <1>5, <1>7, <1>8, <1>9 DEF TInv, ItemsOK, Init

(* What does not touch the table. *)
LEMMA TableUnchanged == ASSUME TableOK, UNCHANGED <<trades, agreed>> PROVE TableOK'
BY DEF TableOK

(* Handlers that change offers and acceptances leave the world alone. *)
LEMMA WorldUnchanged ==
  ASSUME TInv, UNCHANGED world
  PROVE  AllKept(bag)' /\ ItemsOK' /\ MoneyOK' /\ unmade' \subseteq Items
BY DEF TInv, world, AllKept, ItemsOK, MoneyOK, Once, Nowhere

(* Every handler keeps everything sound. *)
LEMMA TradeStepSound == ASSUME CountersWide, TInv, TradeStep PROVE TInv'
<1>0. SInv /\ TableOK /\ AllKept(bag) /\ fault \in {"none", "remove", "add", "slot", "freed"}
  BY DEF TInv
<1>1. SInv'
  BY <1>0, NextSInv DEF Next
<1>2. ASSUME NEW p \in Players, NEW q \in Players, InitiateTrade(p, q) PROVE TInv'
  <2>1. TableOK' /\ fault' \in {"none", "remove", "add", "slot", "freed"}
    BY <1>0, <1>2, InitiateSound
  <2>2. UNCHANGED world
    BY <1>2 DEF InitiateTrade
  <2> QED BY <1>1, <2>1, <2>2, WorldUnchanged DEF TInv
<1>3. ASSUME NEW p \in Players, CancelTrade(p) PROVE TInv'
  <2>1. Destroy(TradeOf(p)) /\ UNCHANGED world
    BY <1>3 DEF CancelTrade
  <2>2. TableOK' /\ fault' \in {"none", "freed"}
    BY <1>0, <2>1, DestroySound
  <2> QED BY <1>1, <2>1, <2>2, WorldUnchanged DEF TInv
<1>4. ASSUME NEW p \in Players, AcceptTrade(p) PROVE TInv'
  <2>1. /\ TableOK' /\ AllKept(bag)' /\ ItemsOK' /\ MoneyOK'
        /\ unmade' = unmade /\ fault' \in {"none", "remove", "add", "slot", "freed"}
    BY <1>4, AcceptSound
  <2> QED BY <1>1, <2>1 DEF TInv
<1>5. ASSUME TableOK', UNCHANGED <<world, fault>> PROVE TInv'
  <2>1. AllKept(bag)' /\ ItemsOK' /\ MoneyOK' /\ unmade' \subseteq Items
    BY <1>5, WorldUnchanged
  <2> QED BY <1>0, <1>1, <1>5, <2>1 DEF TInv
<1>6. ASSUME NEW p \in Players, UnacceptTrade(p) PROVE TInv'
  <2>1. UNCHANGED <<world, fault>>
    BY <1>6 DEF UnacceptTrade
  <2> QED BY <1>0, <1>5, <1>6, <2>1, UnacceptSound
<1>7. ASSUME NEW p \in Players, NEW gold \in Gold, SetTradeGold(p, gold) PROVE TInv'
  <2>1. UNCHANGED <<world, fault>>
    BY <1>7 DEF SetTradeGold, ChangeOffer
  <2> QED BY <1>0, <1>5, <1>7, <2>1, GoldSound
<1>8. ASSUME NEW p \in Players, NEW slot \in Table,
             (\E s \in Slots : SetTradeItem(p, slot, s)) \/ ClearTradeItem(p, slot)
      PROVE  TInv'
  <2>1. UNCHANGED <<world, fault>>
    BY <1>8 DEF SetTradeItem, ClearTradeItem, ChangeOffer
  <2>2. TableOK'
    BY <1>0, <1>8, ItemSound
  <2> QED BY <1>5, <2>1, <2>2
<1>9. ASSUME NEW p \in Players, SlotOutOfTable(p) PROVE TInv'
  <2>1. UNCHANGED <<session, trades, agreed, world>> /\ fault' = "slot"
    BY <1>9 DEF SlotOutOfTable
  <2>2. TableOK'
    BY <1>0, <2>1, TableUnchanged
  <2> QED BY <1>1, <2>1, <2>2, WorldUnchanged DEF TInv
<1> QED BY <1>2, <1>3, <1>4, <1>6, <1>7, <1>8, <1>9 DEF TradeStep

(* So does everything else that happens to the items and the money. *)
LEMMA InventoryStepSound == ASSUME CountersWide, TInv, InventoryStep PROVE TInv'
<1>0. TableOK /\ MoneyOK /\ unmade \subseteq Items /\ fault \in {"none", "remove", "add", "slot", "freed"} /\ AllKept(bag) /\ ItemsOK
  BY DEF TInv
<1>1. SInv'
  BY NextSInv DEF TInv, Next
<1>2. UNCHANGED <<trades, agreed, fault>>
  BY DEF InventoryStep, GainItem, DestroyItem, SellItem, MoveItem, BuySpell
<1>3. TableOK' /\ fault' \in {"none", "remove", "add", "slot", "freed"}
  BY <1>0, <1>2, TableUnchanged
<1>4. ASSUME AllKept(bag)', ItemsOK', unmade' \subseteq Items, coin' = coin PROVE TInv'
  BY <1>0, <1>1, <1>3, <1>4 DEF TInv, MoneyOK
<1>5. ASSUME NEW p \in Players, NEW item, GainItem(p, item) PROVE TInv'
  <2>1. coin' = coin
    BY <1>5 DEF GainItem
  <2> QED BY <1>4, <1>5, <2>1, GainSound
<1>6. ASSUME NEW p \in Players, NEW s \in Slots, DestroyItem(p, s) PROVE TInv'
  <2>1. coin' = coin
    BY <1>6 DEF DestroyItem
  <2> QED BY <1>4, <1>6, <2>1, DestroyItemSound
<1>7. ASSUME NEW p \in Players, NEW s \in Slots, SellItem(p, s) PROVE TInv'
  <2>1. AllKept(bag)' /\ ItemsOK' /\ unmade' \subseteq Items /\ MoneyOK'
    BY <1>7, SellItemSound
  <2> QED BY <1>1, <1>3, <2>1 DEF TInv
<1>8. ASSUME NEW p \in Players, NEW from \in Slots, NEW to \in Slots, MoveItem(p, from, to) PROVE TInv'
  <2>1. coin' = coin
    BY <1>8 DEF MoveItem
  <2> QED BY <1>4, <1>8, <2>1, MoveItemSound
<1>9. ASSUME NEW p \in Players, NEW cost \in Gold, BuySpell(p, cost) PROVE TInv'
  <2>1. bag' = bag /\ unmade' = unmade
    BY <1>9 DEF BuySpell
  <2>2. AllKept(bag)' /\ ItemsOK' /\ unmade' \subseteq Items
    BY <1>0, <2>1 DEF AllKept, ItemsOK, Once, Nowhere
  <2>3. MoneyOK'
    BY <1>0, <1>9, BuySound
  <2> QED BY <1>1, <1>3, <2>2, <2>3 DEF TInv
<1> QED BY <1>5, <1>6, <1>7, <1>8, <1>9 DEF InventoryStep

(* Every step keeps the invariant. *)
LEMMA NextTInv == ASSUME CountersWide, TInv, [Next]_vars PROVE TInv'
<1>1. CASE TradeStep
  BY <1>1, TradeStepSound
<1>2. CASE InventoryStep
  BY <1>2, InventoryStepSound
<1>3. CASE UNCHANGED vars
  <2>1. SInv'
    BY <1>3, NextSInv DEF TInv
  <2>2. TableOK'
    BY <1>3, TableUnchanged DEF TInv, vars
  <2>3. AllKept(bag)' /\ ItemsOK' /\ MoneyOK' /\ unmade' \subseteq Items
    BY <1>3, WorldUnchanged DEF world, vars
  <2> QED BY <1>3, <2>1, <2>2, <2>3 DEF TInv, vars
<1> QED BY <1>1, <1>2, <1>3 DEF Next

(* The types of all variables: counters that are wide enough never wrap, also
   when a release build goes on after a failed removeItems or addItems. *)
THEOREM TypeCorrect == CountersWide => (Spec => []TypeOK)
<1> SUFFICES ASSUME CountersWide PROVE Spec => []TypeOK
  OBVIOUS
<1>1. Init => TInv
  BY InitTInv
<1>2. TInv /\ [Next]_vars => TInv'
  BY NextTInv
<1>3. TInv => TypeOK
  BY DEF TInv, SInv, Shapes, TableOK, AllKept, MoneyOK, TypeOK
<1> QED BY <1>1, <1>2, <1>3, PTL DEF Spec

(* Where a failed ASSERT stops the node, an item lies in one inventory slot and
   one trade slot at most, and m_freeSlots never promises less than the
   backpack has, for any number of players, items and slots. *)
THEOREM InventoriesStaySound == CountersWide /\ AssertStops => (Spec => []InventoriesAgree)
<1> SUFFICES ASSUME CountersWide, AssertStops PROVE Spec => []InventoriesAgree
  OBVIOUS
<1>1. Init => TInv
  BY InitTInv
<1>2. TInv /\ [Next]_vars => TInv'
  BY NextTInv
<1>3. ASSUME TInv PROVE InventoriesAgree
  <2>1. AllKept(bag) /\ Once(bag) /\ SInv /\ TableOK
    BY <1>3 DEF TInv, ItemsOK
  <2>2. FreeSlotsCover
    BY <2>1 DEF AllKept, Kept, FreeSlotsCover
  <2>3. \A p \in Players : bag[p].at \in [Slots -> Items \union {Nothing}]
    BY <2>1 DEF AllKept, Inventory
  <2>4. NoDuplicate
    BY <2>1, <2>3, OnceMeansNoDuplicate
  <2>5. ASSUME NEW p \in Players, Trading(p), NEW side \in Sides, NEW item \in Items
        PROVE  Cardinality({slot \in Table : TradeOf(p).items[side][slot] = item}) <= 1
    <3> DEFINE items == TradeOf(p).items[side]
               W == {slot \in Table : items[slot] = item}
    <3>1. Distinct(items) /\ items \in Offers
      BY <2>1, <2>5, TradeIsSound DEF Sound, TradeData, Offers
    <3> HIDE DEF items
    <3>2. IsFiniteSet(Table)
      BY TradeAssumption, FS_Interval DEF Table
    <3>3. W \in SUBSET Table
      OBVIOUS
    <3>4. IsFiniteSet(W)
      BY <3>2, <3>3, FS_Subset
    <3>5. \A x, y \in W : x = y
      BY <3>1, NoneAssumption DEF Distinct, Filled, Offers
    <3>6. Cardinality(W) <= 1
      BY <3>4, <3>5, AtMostOne
    <3> QED BY <3>6 DEF items
  <2> QED BY <2>2, <2>4, <2>5 DEF InventoriesAgree, OneOfEach
<1> QED BY <1>1, <1>2, <1>3, PTL DEF Spec

-----------------------------------------------------------------------------
(* What a closed trade does. *)

\* All that is offered lies in the backpack, and nothing of it is limited.
Ready(b, items) ==
  \A n \in Filled(items) : (\E s \in Pack : b.at[s] = items[n]) /\ MaxCount[EntryOf[items[n]]] = 0

(* What is offered from the backpack leaves as many free slots there. *)
LEMMA OfferFrees ==
  ASSUME CountersWide, NEW b, Kept(b), \A s, r \in Slots : b.at[s] = b.at[r] /\ b.at[s] # Nothing => s = r,
         NEW items \in Offers, Distinct(items), Ready(b, items), NEW leave
  PROVE  /\ Present(b, items) = Filled(items)
         /\ RemoveItems(b, items, leave).free = b.free + Cardinality(Filled(items))
         /\ Cardinality(EmptyPack(RemoveItems(b, items, leave))) = Cardinality(EmptyPack(b)) + Cardinality(Filled(items))
<1> DEFINE N == Filled(items)
           f == [n \in N |-> First(SlotsOf(b, items[n]))]
           S == {First(SlotsOf(b, items[n])) : n \in N}
           c == RemoveItem(b, S)
<1>1. Pack \subseteq Slots /\ \A n \in N : items[n] # Nothing
  BY SlotsFinite DEF Filled
<1>2. Present(b, items) = N
  BY <1>1 DEF Present, SlotsOf, Ready
<1>3. RemoveItems(b, items, leave) = c
  BY <1>2, AllReached DEF RemoveItems
<1>4. /\ \A n \in N : First(SlotsOf(b, items[n])) \in Held(b) /\ b.at[First(SlotsOf(b, items[n]))] = items[n]
      /\ S \in SUBSET Held(b)
  <2>1. \A those \in SUBSET Present(b, items) :
          /\ \A n \in those : /\ First(SlotsOf(b, items[n])) \in Held(b)
                             /\ b.at[First(SlotsOf(b, items[n]))] = items[n]
          /\ {First(SlotsOf(b, items[n])) : n \in those} \in SUBSET Held(b)
    BY TakenFrom
  <2>2. N \in SUBSET Present(b, items)
    BY <1>2
  <2> QED BY <2>1, <2>2
<1>5. \A n \in N : f[n] \in S /\ b.at[f[n]] = items[n]
  BY <1>4
<1>6. \A n \in N : f[n] \in Pack
  <2> SUFFICES ASSUME NEW n \in N PROVE f[n] \in Pack
    OBVIOUS
  <2>1. PICK s \in Pack : b.at[s] = items[n]
    BY DEF Ready
  <2>2. f[n] \in Slots /\ b.at[f[n]] = b.at[s] /\ b.at[s] # Nothing
    BY <1>1, <1>4, <1>5, <2>1 DEF Held
  <2>3. f[n] = s
    BY <1>1, <2>2
  <2> QED BY <2>3
<1>7. \A s \in S : \E n \in N : f[n] = s
  OBVIOUS
<1>8. f \in Injection(N, S) /\ f \in Surjection(N, S)
  <2>1. f \in [N -> S]
    BY <1>5
  <2>2. \A m, n \in N : f[m] = f[n] => m = n
    BY <1>5 DEF Distinct
  <2> QED BY <1>7, <2>1, <2>2 DEF Injection, IsInjective, Surjection
<1>9. S \in SUBSET Pack
  BY <1>6, <1>7
<1> HIDE DEF S, f, c, N
<1>10. IsFiniteSet(S) /\ Cardinality(S) = Cardinality(N) /\ Cardinality(N) \in Nat
  <2>1. IsFiniteSet(S) /\ IsFiniteSet(N) /\ Cardinality(N) \in Nat
    BY <1>1, <1>9, SlotsFinite, OfferedItems DEF N
  <2> QED BY <1>8, <2>1, FS_Injection
<1>11. c.free = b.free + Cardinality(S) /\ c.at = [s \in Slots |-> IF s \in S THEN Nothing ELSE b.at[s]]
  BY <1>4, RemoveKeeps DEF c
<1>12. EmptyPack(c) = EmptyPack(b) \union S /\ EmptyPack(b) \cap S = {}
  BY <1>1, <1>4, <1>9, <1>11 DEF EmptyPack, Held
<1>13. IsFiniteSet(EmptyPack(b)) /\ Cardinality(EmptyPack(b)) \in Nat
  BY <1>1, SlotsFinite DEF EmptyPack
<1>14. Cardinality(EmptyPack(c)) = Cardinality(EmptyPack(b)) + Cardinality(N)
  <2>1. Cardinality(EmptyPack(b) \union S) =
          Cardinality(EmptyPack(b)) + Cardinality(S) - Cardinality(EmptyPack(b) \cap S)
    BY <1>10, <1>13, FS_Union
  <2>2. Cardinality(EmptyPack(b) \cap S) = 0
    BY <1>12, FS_EmptySet
  <2> QED BY <1>10, <1>12, <1>13, <2>1, <2>2
<1> QED BY <1>2, <1>3, <1>10, <1>11, <1>14 DEF N

(* Where there is room for all of it, all of it fits. *)
LEMMA RoomForAll ==
  ASSUME NEW b, NEW items \in Offers, \A n \in Filled(items) : MaxCount[EntryOf[items[n]]] = 0,
         b.free \in Nat, Cardinality(EmptyPack(b)) \in Nat,
         Cardinality(Filled(items)) <= b.free, Cardinality(Filled(items)) <= Cardinality(EmptyPack(b))
  PROVE  Fitting(b, items) = Filled(items)
<1>1. Allowed(b, items) = Filled(items)
  BY DEF Allowed
<1>2. /\ Cardinality(Filled(items)) \in Nat
      /\ \A n \in Filled(items) : Rank(Filled(items), n) \in 1 .. Cardinality(Filled(items))
  BY OfferedItems, RankIsPlace
<1>3. \A n \in Filled(items) : Rank(Filled(items), n) <= b.free /\ Rank(Filled(items), n) <= Cardinality(EmptyPack(b))
  BY <1>2
<1> QED BY <1>1, <1>3 DEF Fitting

\* What one side of a trade handed over with the one before it and the one after
HandedOver(before, after, other, items) ==
  /\ \A item \in Things(items) : InPack(other, item) /\ SlotsOf(after, item) = {}
  /\ \A s \in Slots : before.at[s] \notin Things(items) \union {Nothing} => after.at[s] = before.at[s]

(* A trade of what both players still have, and have room for, hands over all. *)
LEMMA ExchangeDone ==
  ASSUME CountersWide, AllKept(bag), Once(bag), NEW trade,
         trade.who["Owner"] \in Players, trade.who["Target"] \in Players, trade.who["Owner"] # trade.who["Target"],
         trade.items["Owner"] \in Offers, trade.items["Target"] \in Offers,
         Distinct(trade.items["Owner"]), Distinct(trade.items["Target"]),
         Ready(bag[trade.who["Owner"]], trade.items["Owner"]), Ready(bag[trade.who["Target"]], trade.items["Target"]),
         FreeSlotsExact, HasRoom(trade, "Owner"), HasRoom(trade, "Target"), NEW leave
  PROVE  /\ Exchange(trade, leave).removed /\ Exchange(trade, leave).added
         /\ HandedOver(bag[trade.who["Owner"]], Exchange(trade, leave).bags[trade.who["Owner"]],
                       Exchange(trade, leave).bags[trade.who["Target"]], trade.items["Owner"])
         /\ HandedOver(bag[trade.who["Target"]], Exchange(trade, leave).bags[trade.who["Target"]],
                       Exchange(trade, leave).bags[trade.who["Owner"]], trade.items["Target"])
<1> DEFINE p == trade.who["Owner"]
           q == trade.who["Target"]
           gave == trade.items["Owner"]
           got == trade.items["Target"]
           b1 == [bag EXCEPT ![p] = RemoveItems(@, gave, leave)]
           b2 == [b1 EXCEPT ![q] = RemoveItems(@, got, leave)]
           b3 == [b2 EXCEPT ![q] = AddItems(@, gave, leave)]
           b4 == [b3 EXCEPT ![p] = AddItems(@, got, leave)]
           x == Exchange(trade, leave)
           G == Cardinality(Filled(gave))
           R == Cardinality(Filled(got))
<1>1. x.bags = b4
  BY DEF Exchange
<1>2. x.removed <=> Present(bag[p], gave) = Filled(gave) /\ Present(b1[q], got) = Filled(got)
  BY DEF Exchange
<1>3. x.added <=> Fitting(b2[q], gave) = Filled(gave) /\ Fitting(b3[p], got) = Filled(got)
  BY DEF Exchange
<1>4. /\ p \in Players /\ q \in Players /\ p # q /\ gave \in Offers /\ got \in Offers /\ Distinct(gave) /\ Distinct(got)
      /\ Ready(bag[p], gave) /\ Ready(bag[q], got)
  OBVIOUS
<1>5. bag[p].free >= R - G /\ bag[q].free >= G - R
  BY DEF HasRoom, Required, Other
<1>6. G \in Nat /\ R \in Nat
  BY OfferedItems
<1>7. /\ \A i \in {p, q} : /\ Kept(bag[i]) /\ bag[i].free \in Nat /\ bag[i].free = Cardinality(EmptyPack(bag[i]))
                           /\ \A s, r \in Slots : bag[i].at[s] = bag[i].at[r] /\ bag[i].at[s] # Nothing => s = r
      /\ DOMAIN bag = Players
  BY <1>4, Wraps DEF AllKept, FreeSlotsExact, Inventory, Once
<1>w. \A leaves : Exchange(trade, leaves).removed /\ Exchange(trade, leaves).added => Once(Exchange(trade, leaves).bags)
  BY ExchangeOnce
<1>v. x.removed /\ x.added => Once(x.bags)
  BY <1>w
<1> HIDE DEF p, q, gave, got, x
<1>8. /\ Present(bag[p], gave) = Filled(gave)
      /\ RemoveItems(bag[p], gave, leave).free = bag[p].free + G
      /\ Cardinality(EmptyPack(RemoveItems(bag[p], gave, leave))) = Cardinality(EmptyPack(bag[p])) + G
  BY <1>4, <1>7, OfferFrees
<1>9. /\ Present(bag[q], got) = Filled(got)
      /\ RemoveItems(bag[q], got, leave).free = bag[q].free + R
      /\ Cardinality(EmptyPack(RemoveItems(bag[q], got, leave))) = Cardinality(EmptyPack(bag[q])) + R
  BY <1>4, <1>7, OfferFrees
<1>10. /\ b1[p] = RemoveItems(bag[p], gave, leave) /\ b1[q] = bag[q]
       /\ b2[p] = b1[p] /\ b2[q] = RemoveItems(bag[q], got, leave)
       /\ b3[p] = b1[p] /\ b3[q] = AddItems(b2[q], gave, leave)
       /\ b4[q] = b3[q] /\ b4[p] = AddItems(b3[p], got, leave)
  BY <1>4, <1>7
<1>11. Without(bag, b1, Things(gave))
  BY <1>4, <1>8, OfferGoes
<1>12. AllKept(b1) /\ Kept(b1[p]) /\ Nothing \notin Things(gave) /\ Nothing \notin Things(got)
  <2>1. Kept(RemoveItems(bag[p], gave, leave))
    BY <1>7, RemovingKeeps
  <2>2. AllKept(b1)
    BY <1>4, <2>1, OneChanges
  <2> QED BY <1>4, <2>2 DEF AllKept, Things, Filled
<1>13. Once(b1)
  BY <1>11, <1>12, WithoutOnce
<1>14. Without(b1, b2, Things(got)) /\ Kept(b2[q])
  <2>1. Present(b1[q], got) = Filled(got)
    BY <1>9, <1>10
  <2>2. Without(b1, b2, Things(got))
    BY <1>4, <1>12, <1>13, <2>1, OfferGoes
  <2> QED BY <1>7, <1>10, <2>2, RemovingKeeps
<1> HIDE DEF b1, b2, b3, b4, G, R
<1>15. Fitting(b2[q], gave) = Filled(gave)
  <2>1. /\ b2[q].free = bag[q].free + R /\ Cardinality(EmptyPack(b2[q])) = bag[q].free + R /\ bag[q].free \in Nat
    BY <1>7, <1>9, <1>10
  <2>2. G <= b2[q].free /\ G <= Cardinality(EmptyPack(b2[q])) /\ b2[q].free \in Nat /\ Cardinality(EmptyPack(b2[q])) \in Nat
    BY <1>5, <1>6, <2>1
  <2> QED BY <1>4, <2>2, RoomForAll DEF Ready, G
<1>16. Fitting(b3[p], got) = Filled(got)
  <2>1. /\ b3[p].free = bag[p].free + G /\ Cardinality(EmptyPack(b3[p])) = bag[p].free + G /\ bag[p].free \in Nat
    BY <1>7, <1>8, <1>10
  <2>2. R <= b3[p].free /\ R <= Cardinality(EmptyPack(b3[p])) /\ b3[p].free \in Nat /\ Cardinality(EmptyPack(b3[p])) \in Nat
    BY <1>5, <1>6, <2>1
  <2> QED BY <1>4, <2>2, RoomForAll DEF Ready, R
<1>17. x.removed
  BY <1>2, <1>8, <1>9, <1>10
<1>18. x.added
  BY <1>3, <1>15, <1>16
<1>19. Once(b4)
  BY <1>1, <1>17, <1>18, <1>v
<1>20. Gets(b2[q], b4[q], gave, Filled(gave)) /\ Gets(b1[p], b4[p], got, Filled(got))
  <2>1. Gets(b2[q], AddItems(b2[q], gave, leave), gave, Filled(gave))
    BY <1>4, <1>14, <1>15, AllAdded
  <2>2. Gets(b3[p], AddItems(b3[p], got, leave), got, Filled(got))
    BY <1>4, <1>10, <1>12, <1>16, AllAdded
  <2> QED BY <1>10, <2>1, <2>2
<1>21. HandedOver(bag[p], b4[p], b4[q], gave)
  <2>1. ASSUME NEW item \in Things(gave) PROVE InPack(b4[q], item) /\ SlotsOf(b4[p], item) = {}
    <3>1. PICK s \in Pack : b4[q].at[s] = item
      BY <1>20 DEF Gets, Things
    <3>2. s \in Slots /\ b4[q].at[s] # Nothing
      BY <1>12, <3>1, SlotsFinite
    <3>3. \A r \in Slots : b4[p].at[r] # item
      BY <1>4, <1>19, <3>1, <3>2 DEF Once
    <3> QED BY <3>1, <3>3 DEF InPack, SlotsOf
  <2>2. ASSUME NEW s \in Slots, bag[p].at[s] \notin Things(gave) \union {Nothing} PROVE b4[p].at[s] = bag[p].at[s]
    BY <1>4, <1>11, <1>20, <2>2 DEF Without, Gets
  <2> QED BY <2>1, <2>2 DEF HandedOver
<1>22. HandedOver(bag[q], b4[q], b4[p], got)
  <2>1. ASSUME NEW item \in Things(got) PROVE InPack(b4[p], item) /\ SlotsOf(b4[q], item) = {}
    <3>1. PICK s \in Pack : b4[p].at[s] = item
      BY <1>20 DEF Gets, Things
    <3>2. s \in Slots /\ b4[p].at[s] # Nothing
      BY <1>12, <3>1, SlotsFinite
    <3>3. \A r \in Slots : b4[q].at[r] # item
      BY <1>4, <1>19, <3>1, <3>2 DEF Once
    <3> QED BY <3>1, <3>3 DEF InPack, SlotsOf
  <2>2. ASSUME NEW s \in Slots, bag[q].at[s] \notin Things(got) \union {Nothing} PROVE b4[q].at[s] = bag[q].at[s]
    BY <1>4, <1>10, <1>14, <1>20, <2>2 DEF Without, Gets
  <2> QED BY <2>1, <2>2 DEF HandedOver
<1> QED BY <1>1, <1>17, <1>18, <1>21, <1>22 DEF x, p, q, gave, got

(* What closes a trade, where the memory of a new TradeData happens to be zero. *)
LEMMA ClosedTrade ==
  ASSUME ZeroedHeap, TInv, NEW p \in Players, Closes(p)
  PROVE  \E trade :
           /\ PerformTrade(trade) /\ fault = "none"
           /\ trade.who = TradeOf(p).who /\ trade.items = TradeOf(p).items /\ trade.gold = TradeOf(p).gold
           /\ trade.who["Owner"] \in Players /\ trade.who["Target"] \in Players
           /\ trade.who["Owner"] # trade.who["Target"]
           /\ trade.items["Owner"] \in Offers /\ trade.items["Target"] \in Offers
           /\ Distinct(trade.items["Owner"]) /\ Distinct(trade.items["Target"])
           /\ trade.gold["Owner"] \in Gold /\ trade.gold["Target"] \in Gold
<1> DEFINE side == SideOf(p)
           trade == [TradeOf(p) EXCEPT !.accepted[side] = TRUE]
<1>0. Trading(p) /\ fault = "none" /\ SInv /\ TableOK /\ TradeOf(p).accepted[Other(side)]
  BY DEF AcceptTrade, TInv, Closes
<1>1. Sound(TradeOf(p)) /\ TradeOf(p) \in TradeData
  BY <1>0, TradeIsSound
<1>2. side \in Sides /\ TradeOf(p).who[side] = p /\ \A s \in Sides : TradeOf(p).who[s] \in Players
  BY <1>0, SideOfPlayer DEF SInv, SessionsAgree
<1>3. /\ trade.items = TradeOf(p).items /\ trade.who = TradeOf(p).who /\ trade.gold = TradeOf(p).gold
      /\ \A s \in Sides : s # side => trade.accepted[s] = TradeOf(p).accepted[s]
  BY <1>1 DEF TradeData
<1>4. trade.accepted[Other(side)]
  BY <1>0, <1>2, <1>3 DEF Other, Sides
<1>5. PerformTrade(trade)
  BY <1>4 DEF AcceptTrade, Closes
<1>6. TradeOf(p).who["Owner"] # TradeOf(p).who["Target"]
  <2> SUFFICES ASSUME TradeOf(p).who["Owner"] = TradeOf(p).who["Target"] PROVE FALSE
    OBVIOUS
  <2>1. side = "Owner" /\ Other(side) = "Target"
    BY <1>2 DEF SideOf, Sides, Other
  <2> QED BY <1>0, <1>1, <2>1 DEF Sound
<1>7. /\ trade.who["Owner"] \in Players /\ trade.who["Target"] \in Players
      /\ trade.items["Owner"] \in Offers /\ trade.items["Target"] \in Offers
      /\ Distinct(trade.items["Owner"]) /\ Distinct(trade.items["Target"])
      /\ trade.gold["Owner"] \in Gold /\ trade.gold["Target"] \in Gold
  BY <1>1, <1>2, <1>3 DEF Sound, Sides, TradeData, Offers
<1> HIDE DEF trade
<1> QED BY <1>0, <1>3, <1>5, <1>6, <1>7

\* Two outcomes of a closed trade
Refused(trade) == ~Checked(trade) /\ Destroy(trade) /\ UNCHANGED world
Done(trade, leave) ==
  /\ Checked(trade)
  /\ AssertStops => Exchange(trade, leave).removed /\ Exchange(trade, leave).added
  /\ bag' = Exchange(trade, leave).bags
  /\ coin' = [coin EXCEPT ![trade.who["Owner"]] = Paid(trade, "Owner"),
                          ![trade.who["Target"]] = Paid(trade, "Target")]
  /\ Destroy(trade)

(* A trade is refused, fails or is done. *)
LEMMA Outcomes ==
  ASSUME NEW trade, PerformTrade(trade)
  PROVE  \/ Refused(trade)
         \/ /\ Checked(trade) /\ UNCHANGED world /\ fault' \in {"remove", "add"}
            /\ \E leave \in BOOLEAN : ~(Exchange(trade, leave).removed /\ Exchange(trade, leave).added)
         \/ \E leave \in BOOLEAN : Done(trade, leave)
BY DEF PerformTrade, Refused, Done, world

(* A sum of two amounts wraps once at most. *)
LEMMA WrapsOnce ==
  ASSUME NEW n \in Nat, NEW w \in Nat \ {0}, n < w + w
  PROVE  n % w = IF n < w THEN n ELSE n - w
OBVIOUS

(* The money of a trade that is done. *)
LEMMA MoneyPaid ==
  ASSUME MoneyOK, NEW trade, trade.who["Owner"] \in Players, trade.who["Target"] \in Players,
         trade.who["Owner"] # trade.who["Target"], trade.gold["Owner"] \in Gold, trade.gold["Target"] \in Gold,
         NEW leave, Done(trade, leave)
  PROVE  PaidFor(trade)
<1>1. Gold \subseteq 0 .. (Word - 1) /\ Word \in Nat \ {0} /\ coin \in [Players -> 0 .. (Word - 1)]
  BY TradeAssumption DEF MoneyOK
<1>2. ASSUME NEW side \in Sides
      PROVE  /\ trade.gold[side] <= coin[trade.who[side]]
             /\ Paid(trade, side) = IF Due(trade, side) < Word THEN Due(trade, side) ELSE Due(trade, side) - Word
  <2>1. trade.who[side] \in Players /\ trade.gold[side] \in Gold /\ trade.gold[Other(side)] \in Gold
    BY DEF Sides, Other
  <2>2. coin[trade.who[side]] >= trade.gold[side]
    BY DEF Done, Checked, HasGold
  <2>3. coin[trade.who[side]] \in 0 .. (Word - 1)
    BY <1>1, <2>1
  <2>4. trade.gold[side] \in 0 .. (Word - 1) /\ trade.gold[Other(side)] \in 0 .. (Word - 1)
    BY <1>1, <2>1, Zenon
  <2>5. Due(trade, side) \in Nat /\ Due(trade, side) < Word + Word
    BY <1>1, <2>2, <2>3, <2>4 DEF Due
  <2>6. trade.gold[side] <= coin[trade.who[side]]
    BY <1>1, <2>2, <2>3, <2>4
  <2> QED BY <1>1, <2>5, <2>6, WrapsOnce DEF Paid
<1>3. \A side \in Sides : coin'[trade.who[side]] = Paid(trade, side)
  BY <1>1 DEF Sides, Done
<1> QED BY <1>2, <1>3 DEF PaidFor

(* What is offered, as the properties and the proofs name it. *)
LEMMA OfferedThings ==
  ASSUME NEW trade, NEW side, trade.items[side] \in Offers
  PROVE  Offered(trade, side) = Things(trade.items[side])
BY NoneAssumption DEF Offered, Things, Filled, Offers

(* A trade of what both still have is refused or hands over all. *)
LEMMA ItemsSwapped ==
  ASSUME AssertStops, CountersWide, ZeroedHeap, TInv, NEW p \in Players, Closes(p), InOrder(TradeOf(p))
  PROVE  fault' = "none" /\ (bag' = bag \/ Swapped(TradeOf(p)))
<1>1. PICK trade :
           /\ PerformTrade(trade) /\ fault = "none"
           /\ trade.who = TradeOf(p).who /\ trade.items = TradeOf(p).items /\ trade.gold = TradeOf(p).gold
           /\ trade.who["Owner"] \in Players /\ trade.who["Target"] \in Players
           /\ trade.who["Owner"] # trade.who["Target"]
           /\ trade.items["Owner"] \in Offers /\ trade.items["Target"] \in Offers
           /\ Distinct(trade.items["Owner"]) /\ Distinct(trade.items["Target"])
           /\ trade.gold["Owner"] \in Gold /\ trade.gold["Target"] \in Gold
  BY ClosedTrade
<1>2. AllKept(bag) /\ Once(bag)
  BY DEF TInv, ItemsOK
<1>3. Offered(TradeOf(p), "Owner") = Things(trade.items["Owner"]) /\ Offered(TradeOf(p), "Target") = Things(trade.items["Target"])
  BY <1>1, OfferedThings
<1>4. /\ FreeSlotsExact
      /\ \A side \in Sides : \A item \in Offered(TradeOf(p), side) :
           InPack(bag[TradeOf(p).who[side]], item) /\ MaxCount[EntryOf[item]] = 0
  BY DEF InOrder
<1>5. Ready(bag[trade.who["Owner"]], trade.items["Owner"]) /\ Ready(bag[trade.who["Target"]], trade.items["Target"])
  BY <1>1, <1>3, <1>4 DEF Ready, Things, InPack, Sides
<1>6. Destroy(trade) => fault' = "none"
  BY <1>1 DEF Destroy, MayCrash
<1>7. Checked(trade) => HasRoom(trade, "Owner") /\ HasRoom(trade, "Target")
  BY DEF Checked, Sides
<1>8. ASSUME NEW leave, HasRoom(trade, "Owner"), HasRoom(trade, "Target")
      PROVE  /\ Exchange(trade, leave).removed /\ Exchange(trade, leave).added
             /\ HandedOver(bag[trade.who["Owner"]], Exchange(trade, leave).bags[trade.who["Owner"]],
                           Exchange(trade, leave).bags[trade.who["Target"]], trade.items["Owner"])
             /\ HandedOver(bag[trade.who["Target"]], Exchange(trade, leave).bags[trade.who["Target"]],
                           Exchange(trade, leave).bags[trade.who["Owner"]], trade.items["Target"])
  BY <1>1, <1>2, <1>4, <1>5, <1>8, ExchangeDone
<1>9. CASE Refused(trade)
  BY <1>6, <1>9 DEF Refused, world
<1>10. ASSUME Checked(trade), NEW leave \in BOOLEAN, ~(Exchange(trade, leave).removed /\ Exchange(trade, leave).added)
       PROVE  FALSE
  BY <1>7, <1>8, <1>10
<1>11. ASSUME NEW leave \in BOOLEAN, Done(trade, leave) PROVE fault' = "none" /\ Swapped(TradeOf(p))
  <2>1. /\ HandedOver(bag[trade.who["Owner"]], bag'[trade.who["Owner"]], bag'[trade.who["Target"]], trade.items["Owner"])
        /\ HandedOver(bag[trade.who["Target"]], bag'[trade.who["Target"]], bag'[trade.who["Owner"]], trade.items["Target"])
    BY <1>7, <1>8, <1>11 DEF Done
  <2>2. /\ \A item \in Offered(TradeOf(p), "Owner") :
             /\ InPack(bag'[TradeOf(p).who["Target"]], item)
             /\ SlotsOf(bag'[TradeOf(p).who["Owner"]], item) = {}
        /\ \A item \in Offered(TradeOf(p), "Target") :
             /\ InPack(bag'[TradeOf(p).who["Owner"]], item)
             /\ SlotsOf(bag'[TradeOf(p).who["Target"]], item) = {}
    BY <1>1, <1>3, <2>1 DEF HandedOver
  <2>3. ASSUME NEW side \in Sides, NEW s \in Slots,
               bag[TradeOf(p).who[side]].at[s] \notin Offered(TradeOf(p), side) \union {Nothing}
        PROVE  bag'[TradeOf(p).who[side]].at[s] = bag[TradeOf(p).who[side]].at[s]
    BY <1>1, <1>3, <2>1, <2>3 DEF HandedOver, Sides
  <2>4. Swapped(TradeOf(p))
    BY <2>2, <2>3 DEF Swapped, Sides, Other
  <2> QED BY <1>6, <1>11, <2>4 DEF Done
<1> QED BY <1>1, <1>9, <1>10, <1>11, Outcomes

(* Both pay what they offered, or nobody does. *)
LEMMA GoldPaid ==
  ASSUME ZeroedHeap, TInv, NEW p \in Players, Closes(p)
  PROVE  coin' = coin \/ PaidFor(TradeOf(p))
<1>1. PICK trade :
           /\ PerformTrade(trade) /\ fault = "none"
           /\ trade.who = TradeOf(p).who /\ trade.items = TradeOf(p).items /\ trade.gold = TradeOf(p).gold
           /\ trade.who["Owner"] \in Players /\ trade.who["Target"] \in Players
           /\ trade.who["Owner"] # trade.who["Target"]
           /\ trade.items["Owner"] \in Offers /\ trade.items["Target"] \in Offers
           /\ Distinct(trade.items["Owner"]) /\ Distinct(trade.items["Target"])
           /\ trade.gold["Owner"] \in Gold /\ trade.gold["Target"] \in Gold
  BY ClosedTrade
<1>2. MoneyOK
  BY DEF TInv
<1>3. ASSUME NEW leave, Done(trade, leave)
      PROVE  PaidFor(TradeOf(p))
  <2>1. PaidFor(trade)
    BY <1>1, <1>2, <1>3, MoneyPaid
  <2> QED BY <1>1, <2>1 DEF PaidFor, Due
<1>4. coin' = coin \/ \E leave \in BOOLEAN : Done(trade, leave)
  BY <1>1, Outcomes DEF Refused, world
<1> QED BY <1>1, <1>3, <1>4

(* A closed trade exchanges items and money as both sides saw them, or
   nothing, up to the wrap of a purse that is too full: where a failed ASSERT
   stops the node and new memory is zero. *)
THEOREM ItemsExchanged ==
  CountersWide /\ AssertStops /\ ZeroedHeap => (Spec => ExchangedAsAgreed)
<1> SUFFICES ASSUME CountersWide, AssertStops, ZeroedHeap PROVE Spec => ExchangedAsAgreed
  OBVIOUS
<1>1. Init => TInv
  BY InitTInv
<1>2. TInv /\ [Next]_vars => TInv'
  BY NextTInv
<1>3. TInv => [\A p \in Players : Closes(p) /\ InOrder(TradeOf(p)) =>
                  /\ fault' = "none"
                  /\ bag' = bag \/ Swapped(TradeOf(p))]_vars
  BY ItemsSwapped
<1>4. TInv => [\A p \in Players : Closes(p) => coin' = coin \/ PaidFor(TradeOf(p))]_vars
  BY GoldPaid
<1> QED BY <1>1, <1>2, <1>3, <1>4, PTL DEF Spec, ExchangedAsAgreed, SwappedOrRefused, PaidAsAgreed
=============================================================================
