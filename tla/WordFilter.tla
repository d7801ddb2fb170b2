----------------------------- MODULE WordFilter -----------------------------
(* What the dictionary of a word filter promises: it is a set of words, to   *)
(* be starred out in messages.                                               *)
EXTENDS StarredWords

CONSTANTS
  Words,     \* the words it may be given one by one: sequences of characters
  Lists      \* the sets of words it may be given instead of those it has

VARIABLE words   \* the words of the dictionary

Init == words = {}
Open(W) == words' = W \ {<<>>}
Insert(w) == words' = words \cup ({w} \ {<<>>})
Next == \/ \E W \in Lists : Open(W)
        \/ \E w \in Words : Insert(w)
Spec == Init /\ [][Next]_words
=============================================================================
