SPECIFICATION Filters
CONSTANTS
  bad = bad
  invalid = invalid
  Bad = bad
  Runes = {1, 2, 3, 5}
  Words <- Prefixed
  Lists <- OpenPrefixed
  Messages <- Texts
  Star = 42
  MaxTables = 4
  WideChars = {1, 2, 65539}
  Lines <- WordsOfLines
  NotUtf8 = invalid
  Sentences <- Arguments
  MaxLines = 3
  Unended = FALSE
INVARIANTS TablesRight Trie FiltersWords ListFiltersWords
PROPERTY Implements
CHECK_DEADLOCK FALSE
