SPECIFICATION FairSpec
CONSTANTS
  g = g  t1 = t1  t2 = t2  u1 = u1  u2 = u2  c1 = c1  s1 = s1  co = co  main = main
  Nil = Nil
  MainThread = main
  Registry = g
  Tables = {g}
  Udata = {u1}
  CClosures = {}
  Strings = {}
  Coroutines = {}
  Keys = {}
  Modes <- Strong
  Metas = {g}
  FinMeta = {g}
  FullKinds = {"normal"}
  StackSize = 1
  SweepMax = 1
  Overtake = FALSE
  RemetaAllWeak = FALSE
PROPERTIES GarbageFreed Finalized
