----------------------------- MODULE MCLanguage -----------------------------
(* The instances of the language and of its library, in one specification:   *)
(* a behaviour compiles and runs a program (MCLuaVM), makes strings          *)
(* (LuaString), accesses tables through metatables (LuaMeta) or belongs to a *)
(* part of the library (MCLibrary).                                          *)
EXTENDS MCLuaVM, LuaString, LuaMeta

CONSTANTS Parts, Unset, Bad, Handler, Obj1, Obj2, Ud
VARIABLES part, input, tab, assigned, place, visited, array, given, honest, sort

Lib == INSTANCE MCLibrary
\* All contents share a chain in a table of 4, two of them in one of 8. The table starts
\* as small as it can, to grow, or larger than it needs, to shrink.
HashOf == [a |-> 1, b |-> 9, m |-> 5]

\* With __index and __newindex both a function and a table may be stored.
StoredWith(k) == IF k = "k" THEN {Handler} ELSE {Handler, Obj2}

ASSUME MetaAssumption == MetaConstants

NoProgram ==
  /\ prog = 0 /\ status = "rejected"
  /\ compiled = <<>> /\ stack = <<>> /\ top = 1 /\ ci = <<>> /\ trace = <<>>
  /\ tables = <<>> /\ closures = <<>> /\ upvals = <<>>

SortVars == <<array, given, honest, sort>>
LibVars == <<part, input, tab, assigned, place, visited, SortVars>>
LanguageInit ==
  /\ Lib!Init /\ MInit
  /\ IF part = "programs" THEN Init ELSE NoProgram
  /\ IF part = "strings" THEN StrInit ELSE g = luaS_init(1) /\ held = {}
LanguageNext ==
  \/ Next /\ UNCHANGED <<LibVars, strvars, mvars>>
  \/ part = "strings" /\ StrNext /\ UNCHANGED <<vars, LibVars, mvars>>
  \/ part = "meta" /\ MNext /\ UNCHANGED <<vars, LibVars, strvars>>
  \/ Lib!Next /\ UNCHANGED <<vars, strvars, mvars>>
Language == LanguageInit /\ [][LanguageNext]_<<vars, LibVars, strvars, mvars>> /\ WF_SortVars(Lib!Sorting)

-----------------------------------------------------------------------------
(* Properties of the library: see MCLibrary; OneStringEach is of LuaString,  *)
(* MetaAsMeant of LuaMeta.                                                   *)

\* A table is a map, whatever its nodes do: every key is found, the length is a border,
\* and a traversal meets every entry once.
IsMap == Lib!IsMap

\* Sorting, moving and listing elements does to the elements what it should.
ListsAsMeant == Lib!ListsAsMeant

\* Sorting ends.
SortEnds == Lib!SortEnds

\* Numbers compare, divide, shift, round and loop as the numbers they are.
Arithmetic == Lib!Arithmetic

\* A match, its captures and the replacements are what the items of the pattern mean.
MatchesAsMeant == Lib!MatchesAsMeant

\* What is written as bytes or text comes back.
ComesBack == Lib!ComesBack

\* The tokens of a text are those it was put together from, on the right lines.
LexesAsWritten == Lib!LexesAsWritten
=============================================================================
