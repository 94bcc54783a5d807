SPECIFICATION RestartsSpec
CONSTANTS
  Char = {1, 2}
  MaxGroups = 2
  NormalMax = 2
  RaidMax = 3
  MaxRestarts = 1
  MaxRequests = 4
  RemoveStatementFails = TRUE
  Wolf = wolf
  Quest = {1, 2}
  Item = {1, 2}
  CreatureEntry = {wolf}
  NoCreature = none
  Wants <- MCWants
  Prey <- MCPrey
  Kills <- MCKills
  CastOn = {2}
  Exploration = {1}
  StayAlive = {1}
  QuestItems = {1}
  SourceItem <- MCSourceItem
  Prize <- MCPrize
  Giver <- MCGiver
  Previous <- MCPrevious
  LogSize = 2
  PackSize = 2
  MaxStack = 2
  MaxDrift = 1000
INVARIANTS
  TypeOK Consistent FreshIds WorldAgrees
  QuestsAgree
PROPERTIES QuestItemsKept
VIEW WithoutNeeded
CHECK_DEADLOCK FALSE
