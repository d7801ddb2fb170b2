----------------------------- MODULE MCLuaUpval -----------------------------
(* Instances of LuaUpval for TLC. *)
EXTENDS LuaUpval

CONSTANTS main, co, c1, c2, p

Local == [instack |-> TRUE, idx |-> 1]

OneLocal == (p :> <<Local>>)
Sym == Permutations(Closures)
=============================================================================
