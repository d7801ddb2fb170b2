SPECIFICATION FairSpec
CONSTANTS
  main = main  co = co  c1 = c1  c2 = c2  p = p
  Nil = Nil
  MainThread = main
  Coroutines = {co}
  Closures = {c1}
  Protos = {p}
  Desc <- OneLocal
  NUpval = 1
  StackSize = 2
  JoinSelf = FALSE
INVARIANT NoneLost
PROPERTIES VariablesKept GarbageFreed
