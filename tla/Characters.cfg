SPECIFICATION CharactersSpec
CONSTANTS
  Char = {1, 2, 3}
  MaxGroups = 1
  NormalMax = 2
  RaidMax = 3
  MaxRestarts = 0
  MaxRequests = 2
  RemoveStatementFails = FALSE
  bolt = bolt
  drain = drain
  strike = strike
  pick = pick
  Spell = {bolt, drain, strike, pick}
  NoSpell = none
  Foe = {f1, f2}
  NoFoe = nobody
  Timed = {bolt, pick}
  Channeled = {drain}
  NextSwing = {strike}
  Missile = {bolt}
  Unlocks = {pick}
  StartsAttack = {strike}
  StopsAttack = {pick}
  KeepsSwing = {strike}
  StoppedBy <- MCStoppedBy
  MaxCasts = 3
  hex = hex
  bash = bash
  bear = bear
  cat = cat
  skin = skin
  ward = ward
  stunned = stunned
  plain = plain
  AuraSpell = {hex, bash, bear, cat, skin, ward}
  NoAura = noAura
  Bearer = {u1, u2}
  Nobody = noUnit
  Mechanic = {stunned, plain}
  NoMechanic = plain
  Entry <- MCEntry
  PositiveSlot = {1, 2}
  NegativeSlot = {3, 4}
  MaxAuras = 3
SYMMETRY Symmetry
INVARIANTS
  RaidsAgree CharactersTypeOK CastsAgree AurasAgree
CHECK_DEADLOCK FALSE
