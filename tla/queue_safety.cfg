SPECIFICATION Spec
CONSTANTS
  a = a
  b = b
  c = c
  g = g
  h = h
  NoTask = NoTask
  NoGroup = NoGroup
  Threads = {t1, t2, t3}
  Tasks = {a, b, c}
  Groups = {g, h}
  GroupOf <- MCGroupOf
  MaxPause = 1
INVARIANT TypeOK
INVARIANT OneOwner
INVARIANT FlagHasOwner
PROPERTY OnlySecondMissStrands
PROPERTY ImplementsExecutor
CHECK_DEADLOCK FALSE
