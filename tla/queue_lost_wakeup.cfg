SPECIFICATION FairSpec
CONSTANTS
  a = a
  b = b
  c = c
  g = g
  h = h
  NoTask = NoTask
  NoGroup = NoGroup
  Threads = {t1, t2}
  Tasks = {a, b, c}
  Groups = {g, h}
  GroupOf <- MCGroupOf
  MaxPause = 0
PROPERTY PushedTaskRuns
CHECK_DEADLOCK FALSE
