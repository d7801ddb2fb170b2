----------------------------- MODULE MCLuaCalls -----------------------------
(* Small instances of LuaCalls for TLC.                                      *)
EXTENDS LuaCalls, TLC

CONSTANTS main, a, b, h, none

\* Bounds: how deep the functions of each thread call each other. Two coroutines that resume
\* each other, where finalizers run inside finalizers; or one, that protects a call in a
\* protected call.
Deep == {(main :> 1) @@ (a :> 2) @@ (b :> 1), (main :> 1) @@ (a :> 3) @@ (b :> 0)}
=============================================================================
