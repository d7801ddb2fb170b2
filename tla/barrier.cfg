SPECIFICATION Spec
CONSTANTS
  g = g  t1 = t1  t2 = t2  u1 = u1  u2 = u2  c1 = c1  s1 = s1  co = co  main = main
  Nil = Nil
  MainThread = main
  Registry = g
  Tables = {g, t1}
  Udata = {}
  CClosures = {}
  Strings = {}
  Coroutines = {co}
  Keys <- NoKey
  Modes <- Strong
  Metas = {t1}
  FinMeta = {}
  FullKinds = {}
  StackSize = 1
  SweepMax = 1
  Overtake = FALSE
  RemetaAllWeak = FALSE
INVARIANTS TypeOK LiveRefs BlackToWhite IInv
