SPECIFICATION ServersSpec
CONSTANTS
  Client = {c1}
  Account = {a}
  AccountOf <- MCAccountOf
  NoAccount = none
  MaxKeys = 2
  MaxLinks = 2
  MaxLobby = 1
  MaxGate = 2
  RealmId = 1
  OtherIds = {}
  Own = {x}
  NoOne = NoOne
  Contact = {f}
  Enemy = {}
  MaxUnderWay = 2
  HeaderLength = 2
  BodyLengths = {0, 1}
  MaxPackets = 3
  MaxReplies = 2
INVARIANTS
  ServersTypeOK RealmListed PendingIsAsked
  ContactsAgree
  ToldOnce HandledInOrder RepliesInOrder
PROPERTIES RequestsEnd EndIsTold
CHECK_DEADLOCK FALSE
