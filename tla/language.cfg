CONSTANTS
  MaxIndexRK = 3
  MaxArgBx = 5
  MaxArgC = 2
  MaxRegs = 30
  FieldsPerFlush = 2
  MaxVars = 12
  MaxUpvals = 4
  Program <- Program1
  NPrograms = 3316
  Args <- Args1
  Parts = {"programs", "table", "strings", "sort", "meta", "numbers", "moves", "patterns", "packs", "dumps", "texts", "lexer"}
  Unset = Unset
  Bad = Bad
  Handler = Handler
  Obj1 = Obj1
  Obj2 = Obj2
  Ud = Ud
  Tables = {Obj1, Obj2}
  Others = {Ud}
  Keys = {"k", "__index", "__newindex"}
  nil = Unset
  F = Handler
  MAXTAGLOOP = 2
  Stored <- StoredWith
  Objects = {1, 2, 3, 4}
  Hash <- HashOf
  MEMERRMSG = "m"
  Sizes = {1, 16}
  Rows = {1}
  Nothing = Unset
SPECIFICATION Language
INVARIANTS CodeWellFormed OneStringEach MetaAsMeant
PROPERTIES RejectsRight RunsAsWritten IsMap ListsAsMeant SortEnds Arithmetic MatchesAsMeant ComesBack LexesAsWritten
CHECK_DEADLOCK FALSE
