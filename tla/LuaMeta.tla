------------------------------- MODULE LuaMeta -------------------------------
(* Metatables (ltm.c) and the accesses that go through them (lvm.c). That a  *)
(* table has no handler for an event is remembered in its flags.             *)
EXTENDS Naturals, FiniteSets

CONSTANTS
  Tables, Others, Keys, nil, F,    \* as in Metatables, with nil for Nil
  MAXTAGLOOP,                      \* handlers of one access
  Stored(_)                        \* values that programs store with a key

VARIABLES
  fields,    \* the value of every key of every table
  meta,      \* the metatable of every value
  flags      \* events that a table is known to have no handler for

mvars == <<fields, meta, flags>>
Fast == {"__index", "__newindex"}
Values == Tables \cup Others

\* What the constants are. A handler is a value like any other.
MetaConstants ==
  /\ nil \notin Values \cup {F} /\ F \notin Values
  /\ Fast \subseteq Keys
  /\ MAXTAGLOOP \in Nat
  /\ \A k \in Keys : Stored(k) \subseteq Values \cup {F}

MInit ==
  /\ fields = [t \in Tables |-> [k \in Keys |-> nil]]
  /\ meta = [v \in Values |-> nil]
  /\ flags = [t \in Tables |-> Fast]

\* The handler by way of the flags fl; the flags after that.
fasttm(fl, et, event) == IF et = nil \/ (et # nil /\ event \in fl[et]) THEN nil ELSE fields[et][event]
luaT_gettm(fl, et, event) ==
  IF et # nil /\ fasttm(fl, et, event) = nil THEN [fl EXCEPT ![et] = @ \cup {event}] ELSE fl
luaT_gettmbyobj(v, event) == IF meta[v] = nil THEN nil ELSE fields[meta[v]][event]
fastget(v, k) == v \in Tables /\ fields[v][k] # nil

\* One pass of the loop of luaV_finishget and luaV_finishset: it goes on with a handler
\* that is no function, unless the key is there.
pass(s, k, event) ==
  LET table == s.at \in Tables
      tm == IF table THEN fasttm(s.flags, meta[s.at], event) ELSE luaT_gettmbyobj(s.at, event)
      fl == IF table THEN luaT_gettm(s.flags, meta[s.at], event) ELSE s.flags
  IN [how |-> IF tm = nil THEN (IF table THEN "absent" ELSE "error")
              ELSE IF tm = F THEN "call"
              ELSE IF fastget(tm, k) THEN "there" ELSE "on",
      at |-> IF tm \in {nil, F} THEN s.at ELSE tm,
      flags |-> fl]
finish(v, k, event) ==
  LET after[n \in 0 .. MAXTAGLOOP] ==   \* n passes
        IF n = 0 THEN [how |-> "on", at |-> v, flags |-> flags]
        ELSE IF after[n - 1].how = "on" THEN pass(after[n - 1], k, event)
        ELSE after[n - 1]
      s == after[MAXTAGLOOP]
  IN IF s.how = "on" THEN [s EXCEPT !.how = "error"] ELSE s

\* How an access ends, at which value, with the flags.
access(v, k, event) ==
  IF fastget(v, k) THEN [how |-> "there", at |-> v, flags |-> flags] ELSE finish(v, k, event)

invalidated_Never(fl, t) == fl
invalidated(fl, t) == [fl EXCEPT ![t] = {}]

\* How an access ends, and what is read, for the program.
ended(r) == IF r.how = "error" THEN <<"error", nil>> ELSE <<r.how, r.at>>
got(r, k) ==
  IF r.how = "there" THEN <<"value", fields[r.at][k]>>
  ELSE IF r.how = "absent" THEN <<"value", nil>> ELSE ended(r)
\* The fields after a write.
stored(r, k, x) ==
  IF r.how \in {"there", "absent"} THEN [fields EXCEPT ![r.at][k] = x] ELSE fields

luaV_gettable(v, k) ==
  /\ flags' = access(v, k, "__index").flags
  /\ UNCHANGED <<fields, meta>>
luaV_settable(v, k, x) ==
  LET r == access(v, k, "__newindex")
  IN /\ fields' = stored(r, k, x)
     /\ flags' = IF r.how = "absent" THEN invalidated(r.flags, r.at) ELSE r.flags
     /\ UNCHANGED meta
lua_rawset(t, k, x) ==
  /\ fields' = [fields EXCEPT ![t][k] = x]
  /\ flags' = invalidated(flags, t)
  /\ UNCHANGED meta
lua_setmetatable(v, m) ==
  /\ meta' = [meta EXCEPT ![v] = m]
  /\ UNCHANGED <<fields, flags>>

MNext ==
  \/ \E v \in Values, k \in Keys : \/ luaV_gettable(v, k)
                                   \/ \E x \in Stored(k) \cup {nil} : luaV_settable(v, k, x)
  \/ \E t \in Tables, k \in Keys : \E x \in Stored(k) \cup {nil} : lua_rawset(t, k, x)
  \/ \E v \in Values, m \in Tables \cup {nil} : lua_setmetatable(v, m)

MSpec == MInit /\ [][MNext]_mvars

-----------------------------------------------------------------------------
Meant == INSTANCE Metatables WITH Limit <- MAXTAGLOOP, Nil <- nil

\* Whatever the program asks at any time is done as it means it: a read gives, and a
\* write changes, what the fields and the metatables alone say, by way of the handlers
\* that are there at that moment, and a function is called when they say so. What is
\* remembered about absent handlers never hides one (ltm.c, luaT_gettm; lvm.c,
\* luaV_finishget and luaV_finishset).
MetaAsMeant ==
  \A v \in Values, k \in Keys :
    /\ got(access(v, k, "__index"), k) = Meant!Read(v, k)
    /\ LET r == access(v, k, "__newindex")
           m == Meant!Access(v, k, "__newindex")
       IN ended(r) = m /\ \A x \in Stored(k) \cup {nil} : stored(r, k, x) = Meant!Written(m, k, x)
=============================================================================
