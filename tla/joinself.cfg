SPECIFICATION Spec
CONSTANTS
  main = main  co = co  c1 = c1  c2 = c2  p = p
  Nil = Nil
  MainThread = main
  Coroutines = {}
  Closures = {c1}
  Protos = {p}
  Desc <- OneLocal
  NUpval = 2
  StackSize = 2
  JoinSelf = TRUE
INVARIANT NoneFreedInUse
