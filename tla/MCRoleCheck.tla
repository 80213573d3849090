---------------------------- MODULE MCRoleCheck ----------------------------
EXTENDS RoleCheck
CONSTANTS dome, image   \* two paths, one with a role in its name
Paths == {dome, image}
Named == [i \in Paths |-> IF i = dome THEN "master" ELSE ""]
=============================================================================
