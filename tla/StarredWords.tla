---------------------------- MODULE StarredWords ----------------------------
(* What it means that the words of a set are starred out in a message. Both  *)
(* filters of the repository are shown to do it: the dictionary of           *)
(* lua-crab.c (Crab) and the lists of crab.c (CrabList).                     *)
EXTENDS Naturals, Sequences

CONSTANT Star   \* the character '*'

\* Word w is in msg at place i.
Occurs(w, msg, i) == /\ i + Len(w) - 1 <= Len(msg)
                     /\ \A k \in 1 .. Len(w) : msg[i + k - 1] = w[k]

\* The lengths of the words of W in msg at place i, 0 always among them.
Lengths(W, msg, i) == {0} \cup {Len(w) : w \in {v \in W : Occurs(v, msg, i)}}
Longest(W, msg, i) == CHOOSE n \in Lengths(W, msg, i) : \A m \in Lengths(W, msg, i) : m <= n

\* A place after the starred ones is where the search goes on: after(i) is the
\* place looked at after i.
Searched(W, msg) ==
  LET after(i) == IF Longest(W, msg, i) = 0 THEN i + 1 ELSE i + Longest(W, msg, i)
      isplace[i \in 1 .. Len(msg)] ==
        i = 1 \/ \E j \in 1 .. i - 1 : isplace[j] /\ after(j) = i
  IN {i \in 1 .. Len(msg) : isplace[i]}

\* The message with the longest word at each place searched starred out.
Starred(W, msg) ==
  [k \in 1 .. Len(msg) |->
     IF \E i \in Searched(W, msg) : i <= k /\ k < i + Longest(W, msg, i) THEN Star ELSE msg[k]]

\* Whether anything is starred out.
AnyStarred(W, msg) == \E i \in Searched(W, msg) : Longest(W, msg, i) > 0
=============================================================================
