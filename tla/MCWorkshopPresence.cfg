SPECIFICATION Spec
CONSTANTS
  o = o
  g = g
  h = h
  Player = {1, 2}
  NoOne = NoOne
  Account = {o, g, h}
  AccountOf <- OwnerAndGuest
  Owner = o
  JudgeRun = {j1}
  MaxGames = 1
INVARIANTS
  NoFalseDisconnect
