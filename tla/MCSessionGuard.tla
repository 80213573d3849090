---------------------------- MODULE MCSessionGuard ----------------------------
(***************************************************************************)
(* SessionGuard with up to three windows and up to two command lines.      *)
(***************************************************************************)
EXTENDS SessionGuard, TLC

CONSTANTS a, b, c, x, y

Windows3 == {a, b, c}
Windows2 == {a, b}
Window1  == {a}
CliPair  == {x, y}
CliOne   == {x}
CliNone  == {}

Faults    == {"kill", "refuse", "timeout", "disk"}
Hurry     == {"early"}
NoChances == {}

\* The launches of a kind are alike.
Alike == Permutations(Guis) \cup Permutations(Clis)
===============================================================================
