CONSTANTS
  main = main
  a = a
  b = b
  h = h
  none = none
  Threads = {main, a, b}
  Main = main
  Handlers = {h}
  None = none
  MaxCCalls = 5
  ExtraCCalls = 2
  MaxFrames <- Deep
SPECIFICATION Spec
INVARIANTS Consistent YieldSafe JumpsLand StatusRight
PROPERTIES Implements
