----------------------------- MODULE Metatables -----------------------------
(* What reading and writing t[k] mean, by the fields of the tables and the   *)
(* metatables alone: a field that is there is read and written; otherwise    *)
(* the handler decides: a function is called, and any other value is indexed *)
(* instead.                                                                  *)
EXTENDS Naturals

CONSTANTS
  Tables,    \* the tables
  Others,    \* values of other types, which may have a metatable too
  Keys,      \* the keys
  Nil,       \* nil
  F,         \* a function
  Limit      \* handlers of one access

VARIABLES
  fields,    \* the value of every key of every table
  meta       \* the metatable of every value, or Nil

HandlerOf(v, event) == IF meta[v] = Nil THEN Nil ELSE fields[meta[v]][event]
Has(v, k) == v \in Tables /\ fields[v][k] # Nil

\* Where an access to v[k] ends: at a value, with its key there or not; at a call; in an error.
Access(v, k, event) ==
  LET end[n \in 0 .. Limit] == [x \in Tables \cup Others |->   \* at value x, with n handlers to go
        LET h == HandlerOf(x, event)
        IN IF Has(x, k) THEN <<"there", x>>
           ELSE IF n = 0 THEN <<"error", Nil>>
           ELSE IF h = Nil THEN IF x \in Tables THEN <<"absent", x>> ELSE <<"error", Nil>>
           ELSE IF h = F THEN <<"call", x>>
           ELSE end[n - 1][h]]
  IN end[Limit][v]

Read(v, k) ==
  LET r == Access(v, k, "__index")
  IN IF r[1] = "there" THEN <<"value", fields[r[2]][k]>>
     ELSE IF r[1] = "absent" THEN <<"value", Nil>> ELSE r

\* What v[k] = x makes of the fields when its access ends in r: x is stored there; a call
\* or an error stores nothing.
Written(r, k, x) ==
  LET old == fields
  IN IF r[1] \in {"there", "absent"} THEN [old EXCEPT ![r[2]][k] = x] ELSE fields
=============================================================================
