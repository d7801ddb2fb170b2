------------------------------ MODULE CrabList ------------------------------
(* The word filter of crab.c, a program that reads a file of words and stars *)
(* them out of one message: an array of lists, one for each hash value of    *)
(* the first character of a word.                                            *)
EXTENDS Integers, FiniteSetsExt, SequencesExt, StarredWords

CONSTANTS
  WideChars,  \* the characters of words and messages: numbers from 1
  Lines,      \* the lines of the file: words
  NotUtf8,    \* a line that cannot be converted
  Sentences,  \* the messages
  MaxLines,   \* bound: lines of the file
  Unended     \* whether the last line may lack its newline

ASSUME ListAssumption ==
  /\ WideChars \subseteq Nat \ {0}
  /\ Lines \subseteq Seq(WideChars) /\ Sentences \subseteq Seq(WideChars)

VARIABLES
  words,   \* words[h]: the words whose first character hashes to h
  file,    \* the lines read so far, as they are in the file
  ended    \* whether the end of the file was met

listvars == <<words, file, ended>>

-----------------------------------------------------------------------------
(* The lists *)

\* The two halves of a character are folded into one: their exclusive or.
bit(n, i) == (n \div 2^i) % 2
_hash(c) == MapThenSumSet(LAMBDA i : 2^i, {i \in 0 .. 15 : bit(c \div 65536, i) # bit(c % 65536, i)})
Hashes == {_hash(c) : c \in WideChars}

\* The array of lists has an entry for each hash value but 65535.
ASSUME HashAssumption == Hashes \subseteq 0 .. 65534

\* The new word goes behind those that are as long.
add_word_First(lists, word) ==
  IF word = <<>> THEN lists ELSE [lists EXCEPT ![_hash(word[1])] = <<word>> \o @]
add_word(lists, word) ==
  IF word = <<>> THEN lists
  ELSE LET list == lists[_hash(word[1])]
           longer == SelectInSeq(list, LAMBDA w : Len(w) < Len(word))
           at == IF longer = 0 THEN Len(list) + 1 ELSE longer
       IN [lists EXCEPT ![_hash(word[1])] = InsertAt(list, at, word)]

\* Reading a line overrides its last byte, taken to be the newline.
getline(line, newline) == IF newline \/ line = <<>> THEN line ELSE Front(line)

\* The last line may lack the newline: nothing is read after it.
readline(line, newline) ==
  /\ ~ ended /\ Len(file) < MaxLines
  /\ newline \/ Unended
  /\ file' = Append(file, line)
  /\ ended' = ~ newline
  /\ words' = IF line = NotUtf8 THEN words ELSE add_word(words, getline(line, newline))

-----------------------------------------------------------------------------
(* The filter *)

\* The word is in msg from place i on.
memcmp(msg, i, w) == i + Len(w) - 1 <= Len(msg) /\ SubSeq(msg, i, i + Len(w) - 1) = w

\* The word that is starred out at place i, the first of its list that matches.
find_word(msg, i) ==
  LET list == words[_hash(msg[i])]
      n == SelectInSeq(list, LAMBDA w : memcmp(msg, i, w))
  IN IF n = 0 THEN <<>> ELSE list[n]

_crab(msg) ==
  LET from[i \in 1 .. Len(msg) + 1] ==
        IF i > Len(msg) THEN {}
        ELSE LET w == find_word(msg, i)
             IN IF w = <<>> THEN from[i + 1] ELSE i .. i + Len(w) - 1 \cup from[i + Len(w)]
  IN [k \in DOMAIN msg |-> IF k \in from[1] THEN Star ELSE msg[k]]

-----------------------------------------------------------------------------

ListInit == words = [h \in Hashes |-> <<>>] /\ file = <<>> /\ ended = FALSE
ListNext == \E line \in Lines \cup {NotUtf8}, newline \in BOOLEAN : readline(line, newline)
ListSpec == ListInit /\ [][ListNext]_listvars

-----------------------------------------------------------------------------
(* Properties *)

\* The words of the file.
Given == ToSet(file) \ {<<>>, NotUtf8}

\* The filter stars out the longest word of the file at each place, though words whose
\* first characters have one hash value share a list and the first that matches is taken.
ListFiltersWords == \A msg \in Sentences : _crab(msg) = Starred(Given, msg)
=============================================================================
