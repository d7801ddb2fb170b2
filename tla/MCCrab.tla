------------------------------- MODULE MCCrab -------------------------------
(* The two filters of the repository. In the tables of Crab, characters 1    *)
(* and 5 share their main position in a table of capacity 4, and the last    *)
(* node, which the second of them gets, is that of character 3. In the lists *)
(* of CrabList, character 65539 hashes to 2, as 2 does.                      *)
EXTENDS Crab, CrabList

CONSTANTS bad, invalid

Prefixed == {<<1>>, <<1, 2>>, <<1, 2, 1>>, <<3>>, <<5>>, <<1, 1, bad>>}
OpenPrefixed == {<<>>, <<<<2, 1>>, <<bad>>>>, <<<<3, 3>>, <<>>>>}
Texts == BoundedSeq({1, 2}, 3) \cup {<<1, 2, 5, 1, 2, 1>>, <<3, 3, 1, 1, 3, 3, 1>>}

WordsOfLines == {<<>>, <<1>>, <<1, 2>>, <<1, 2, 1>>, <<2>>, <<2, 2>>, <<65539>>, <<65539, 1>>}
Arguments == BoundedSeq({1, 2, 65539}, 3) \cup {<<1, 2, 1, 2, 1>>, <<2, 2, 65539, 1, 1, 2>>}

\* One filter or the other takes words.
FiltersInit == Init /\ ListInit
FiltersNext == \/ file = <<>> /\ Next /\ UNCHANGED listvars
               \/ g_dict = 0 /\ ListNext /\ UNCHANGED vars
Filters == FiltersInit /\ [][FiltersNext]_<<vars, listvars>>
=============================================================================
