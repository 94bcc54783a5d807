SPECIFICATION CastSpec
CONSTANTS
  Players = {anna, bert, cora}
  TradeIds = {t1, t2, t3}
  Items = {1, 2}
  Ring = ring
  Pair = {anna, bert}
  FirstTrade = t1
  Entries = {sword, ring}
  EntryOf <- MCEntryOf
  MaxCount <- MCMaxCount
  Equipment = {1}
  Pack = {2}
  BuyBack = {3}
  TradeSlots = 2
  Gold = {0, 1}
  Price = 1
  Word = 3
  Counter = 8
  MaxCoin = 2
  MaxFree = 1
  ZeroedHeap = TRUE
  AssertStops = TRUE
  None = None
  Nothing = 0
SYMMETRY Symmetry
INVARIANT TypeOK
INVARIANT InventoriesAgree
INVARIANT SessionsAgree
INVARIANT AcceptedAsShown
PROPERTY ExchangedAsAgreed
CHECK_DEADLOCK FALSE
