---------------------------- MODULE MCCardLetters ---------------------------
EXTENDS CardLetters, TLC
CONSTANTS card1, card2, ssd, t1, t2
Media   == {card1, card2, ssd}
Fixeds  == {ssd}
Sizes   == [m \in Media |-> IF m = ssd THEN 2 ELSE 1]
Disks   == {1, 2}
Threads == {t1, t2}
Symmetry == Permutations({card1, card2}) \cup Permutations(Threads)
\* Bound: of the things that excuse the program at most one happens, and a letter
\* that cannot be taken, or comes while the defence is armed, ends the search.
Excuses == (IF reused THEN {"reused"} ELSE {}) \cup (IF late THEN {"late"} ELSE {})
             \cup (IF missed THEN {"missed"} ELSE {}) \cup wild
OneExcuse == Excuses = {} \/ \E e \in {"reused", "late", "later", "swap"} : Excuses = {e}
=============================================================================
