SPECIFICATION ItemsSpec
CONSTANTS
  Players = {anna, bert}
  TradeIds = {t1}
  Items = {1, 2}
  Ring = ring
  Pair = {anna, bert}
  FirstTrade = t1
  Entries = {sword, ring}
  EntryOf <- MCEntryOf
  MaxCount <- MCMaxCount
  Equipment = {1}
  Pack = {2}
  BuyBack = {3}
  TradeSlots = 2
  Gold = {0}
  Price = 1
  Word = 8
  Counter = 8
  MaxCoin = 1
  MaxFree = 2
  ZeroedHeap = TRUE
  AssertStops = TRUE
  None = None
  Nothing = 0
INVARIANT ExchangeSafe
CHECK_DEADLOCK FALSE
