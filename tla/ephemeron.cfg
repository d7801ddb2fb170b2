SPECIFICATION Spec
CONSTANTS
  g = g  t1 = t1  t2 = t2  u1 = u1  u2 = u2  c1 = c1  s1 = s1  co = co  main = main
  Nil = Nil
  MainThread = main
  Registry = g
  Tables = {g}
  Udata = {u1, u2}
  CClosures = {c1}
  Strings = {}
  Coroutines = {}
  Keys = {u1, u2}
  Modes <- AllModes
  Metas = {}
  FinMeta = {}
  FullKinds = {"emergency"}
  StackSize = 2
  SweepMax = 1
  Overtake = FALSE
  RemetaAllWeak = FALSE
SYMMETRY Sym
PROPERTIES WeakEntriesKept FullCollects
