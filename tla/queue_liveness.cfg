SPECIFICATION LifetimeFairSpec
CONSTANTS
  a = a
  b = b
  c = c
  g = g
  h = h
  own = own
  NoTask = NoTask
  NoGroup = NoGroup
  Noop = Noop
  t1 = t1
  Destroyer = t1
  Threads = {t1, t2}
  Tasks = {a, c, Noop}
  Groups = {g, h, own}
  GroupOf <- MCGroupOf
  MaxPause = 1
INVARIANT LifetimeTypeOK
INVARIANT SkipOnlyIfNothingLeft
PROPERTY DestructorReturns
PROPERTY RunsUnlessStranded
PROPERTY NextPushRepairs
CHECK_DEADLOCK FALSE
