SPECIFICATION WorldNodeSpec
CONSTANTS
  Node = {n1, n2}
  StartMap = n1
  MaxSessions = 2
  MaxProgress = 1
  MaxMoves = 2
  MaxMishaps = 2
  NoNode = NoNode
  Dangling = Dangling
  NoData = NoData
  c1 = c1
  c2 = c2
  u1 = u1
  u2 = u2
  Creature = {c1, c2}
  Unit = {u1, u2}
  NoUnit = none
  Hold = {"Stunned", "Rooted"}
  Ranged = {}
  MaxPosted = 2
  p1 = p1
  p2 = p2
  corpse = corpse
  chest = chest
  box = box
  Looter = {p1, p2}
  Corpse = {corpse}
  Chest = {chest}
  Box = {box}
  NoSource = none
  LootSlot = {1, 2}
  SharedSlot = {2}
  MayHold <- MCMayHold
  Golds = {0, 5}
  OwnerOf <- MCOwnerOf
  objects = objects
  creatures = creatures
  Spawner = {objects, creatures}
  ObjectSpawner = {objects}
  MaxCount <- MCMaxCount
INVARIANTS
  NodeTypeOK WhereaboutsAgree ProgressKept
  EnemiesAgree FightsKept
  LootShown HandedOutOnce SpawnersKept
PROPERTIES IsOneJourney EnterEnds EvadeEnds
CHECK_DEADLOCK FALSE
