------------------------------ MODULE MCLuaGC ------------------------------
(* Instances of LuaGC for TLC. *)
EXTENDS LuaGC, TLC

CONSTANTS g, t1, t2, u1, u2, c1, s1, co, main

NoKey == {Nil}
Strong == {{}}
AllModes == SUBSET {"k", "v"}
Sym == Permutations({u1, u2})
=============================================================================
