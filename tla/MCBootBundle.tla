---------------------------- MODULE MCBootBundle ----------------------------
EXTENDS BootBundle
AllFaults == {"read", "write", "short"}

\* A fresh card: room is found in the order of writing.
InOrder == [s \in Sectors |-> IF s = "fat" THEN 1 ELSE IF s = "root" THEN 2 ELSE 2 + Place[s]]
=============================================================================
