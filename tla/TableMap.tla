------------------------------ MODULE TableMap ------------------------------
(* What a table promises: it is a map, and a traversal visits every entry    *)
(* once, provided that no entry is created on the way.                       *)
CONSTANTS
  Key,      \* keys, a float with an integral value being the integer
  Value,    \* values
  Nil,      \* no value
  Start     \* the key that begins a traversal

VARIABLES
  map,      \* the value of every key
  at,       \* the last key of the traversal
  seen      \* the keys that the traversal visited

Present == {k \in Key : map[k] # Nil}

Init == map = [k \in Key |-> Nil] /\ at = Start /\ seen = {}

\* Assigning to an entry that does not exist ends the traversal, even when it fails.
Assign ==
  LET old == map
      new == map'
  IN \E k \in Key, v \in Value \cup {Nil} :
       /\ new = [old EXCEPT ![k] = v]
       /\ IF old[k] = Nil THEN at' = Start /\ seen' = {} ELSE UNCHANGED <<at, seen>>
Fails == UNCHANGED map /\ at' = Start /\ seen' = {}

Visit ==
  LET rest == Present \ seen
  IN at' \in rest /\ seen' = seen \cup {at'} /\ UNCHANGED map
Finish == Present \subseteq seen /\ at' = Start /\ seen' = {} /\ UNCHANGED map

Next == \/ Assign
        \/ Fails
        \/ Visit
        \/ Finish
Spec == Init /\ [][Next]_<<map, at, seen>>
=============================================================================
