SPECIFICATION MCSpec
CONSTANTS
  Account = {a1, a2}
  Client = {c1, c2}
  Opening = {1, 3}
  Amount = {1, 2}
  Half = 4
  NoVal = NoVal
  Unread = Unread
  MaxTime = 5
  Start = 2
  Word = 8
  Nonce = {n1, n2, n3}
  MaxWrites = 2
SYMMETRY Symmetry
INVARIANTS
  FundsConserved
  CurrencyConserved
  PickedWritesApply
PROPERTIES
  StakeSetOnce
CHECK_DEADLOCK FALSE
