------------------------------ MODULE RoleCheck ------------------------------
(***************************************************************************)
(* Whether the images picked on step 3 are the right ones: the background  *)
(* checks of ui/wizard_state.py, core/image_validator.py's verdict, and    *)
(* the gate of ui/qml/Step3Images.qml.                                     *)
(*                                                                         *)
(* A check is a daemon thread that reads the image when it gets to it and  *)
(* posts its verdict to the GUI thread.  Meanwhile the operator may pick   *)
(* another image, the file may become another one, the program may quit.   *)
(***************************************************************************)
EXTENDS Naturals

CONSTANTS Images,    \* paths
          Hint,      \* per path, the role its name suggests, or ""
          MaxPicks   \* bound on the picks of a role

Roles    == {"master", "slave"}
Soft     == {"ok", "unknown_marker_absent"}
Hard     == {"mismatch", "check_failed"}
Verdicts == Soft \cup Hard

\* What may be at a path, and become something else at any time: an image with
\* the marker of a role (the other role's stands for any that is refused), an
\* image without one, or what cannot be read.
Contents == Roles \cup {"plain", "broken"}

ASSUME HintAssumption     == Hint \in [Images -> Roles \cup {""}] /\ "" \notin Images
ASSUME MaxPicksAssumption == MaxPicks \in Nat

VARIABLES
  page,      \* "before" (steps 1 and 2), "images" (step 3), "after" (4 to 7)
  path,      \* per role, the image picked
  status,    \* per role, masterImageRoleStatus and slaveImageRoleStatus
  gen,       \* per role, _role_check_gens
  checks,    \* threads, and the verdicts they posted
  quitting,  \* _shutting_down
  judged     \* history: per role, the image the verdict is about and what was
             \* there when the check read it

roleVars == <<page, path, status, gen, checks, quitting, judged>>

Nothing == [image |-> "", was |-> "broken"]

RoleInit ==
  /\ page = "before"
  /\ path = [r \in Roles |-> ""] /\ status = [r \in Roles |-> "none"]
  /\ gen = [r \in Roles |-> 0] /\ checks = {} /\ quitting = FALSE
  /\ judged = [r \in Roles |-> Nothing]

-----------------------------------------------------------------------------
(* The verdict.                                                            *)

\* Deviation: an image without a marker has no verdict.
VerdictOfMarked(r, i, c) ==
  CASE c = r             -> "ok"
    [] c = "plain"       -> ""
    [] c \in Roles \ {r} -> "mismatch"
    [] c = "broken"      -> "check_failed"

\* The name decides only for an image without a marker, and only against it.
Verdict(r, i, c) ==
  CASE c = r             -> "ok"
    [] c = "plain"       ->
         IF Hint[i] \in Roles \ {r} THEN "mismatch" ELSE "unknown_marker_absent"
    [] c \in Roles \ {r} -> "mismatch"
    [] c = "broken"      -> "check_failed"

-----------------------------------------------------------------------------
(* The operator and the end of the program.                                *)

\* The file dialog is accepted.  A file that has just gone is not checked.
Pick(r, i) ==
  /\ ~quitting /\ page = "images" /\ i # path[r] /\ gen[r] < MaxPicks
  /\ path' = [path EXCEPT ![r] = i]
  /\ gen'  = [gen  EXCEPT ![r] = @ + 1]
  /\ \/ status' = [status EXCEPT ![r] = "none"] /\ UNCHANGED checks
     \/ /\ status' = [status EXCEPT ![r] = "checking"]
        /\ checks' = checks \cup
             {[role |-> r, gen |-> gen'[r], image |-> i, at |-> "start", was |-> "broken"]}
  /\ UNCHANGED <<page, quitting, judged>>

\* Deviation: NEXT does not wait for a check.
PassesUnlessHard(r) == path[r] # "" /\ status[r] \notin Hard

\* NEXT is enabled.
Passes(r) == path[r] # "" /\ status[r] \notin Hard \cup {"checking"}

\* NEXT of step 2, BACK of step 4.
EnterImages ==
  /\ ~quitting /\ page # "images" /\ page' = "images"
  /\ UNCHANGED <<path, status, gen, checks, quitting, judged>>

\* NEXT and BACK of step 3, and FLASH ANOTHER, which keeps images and verdicts.
LeaveImages ==
  /\ ~quitting
  /\ \/ page = "images" /\ (\A r \in Roles : Passes(r)) /\ page' = "after"
     \/ page # "before" /\ page' = "before"
  /\ UNCHANGED <<path, status, gen, checks, quitting, judged>>

\* aboutToQuit: from here on no slot runs.
Quit ==
  /\ ~quitting /\ quitting' = TRUE
  /\ UNCHANGED <<page, path, status, gen, checks, judged>>

-----------------------------------------------------------------------------
(* The threads and their verdicts.                                         *)

Becomes(k, at, was) ==
  checks' = (checks \ {k}) \cup
    {[role |-> k.role, gen |-> k.gen, image |-> k.image, at |-> at, was |-> was]}

ReadImage(k) ==
  /\ k.at = "start"
  /\ IF quitting THEN checks' = checks \ {k}
                 ELSE \E c \in Contents : Becomes(k, "read", c)
  /\ UNCHANGED <<page, path, status, gen, quitting, judged>>

\* Deviation: an exception ends the thread.
PostUnlessBroken(k) ==
  /\ k.at = "read"
  /\ IF quitting \/ k.was = "broken" THEN checks' = checks \ {k} ELSE Becomes(k, "posted", k.was)
  /\ UNCHANGED <<page, path, status, gen, quitting, judged>>

Post(k) ==
  /\ k.at = "read"
  /\ IF quitting THEN checks' = checks \ {k} ELSE Becomes(k, "posted", k.was)
  /\ UNCHANGED <<page, path, status, gen, quitting, judged>>

\* Deviation: every verdict is taken.
AnyGen(k) == TRUE

Current(k) == k.gen = gen[k.role]

\* _apply_role_status, in whatever order the verdicts were posted.
Apply(k) ==
  /\ ~quitting /\ k.at = "posted"
  /\ checks' = checks \ {k}
  /\ IF Current(k)
       THEN /\ status' = [status EXCEPT ![k.role] = Verdict(k.role, k.image, k.was)]
            /\ judged' = [judged EXCEPT ![k.role] = [image |-> k.image, was |-> k.was]]
       ELSE UNCHANGED <<status, judged>>
  /\ UNCHANGED <<page, path, gen, quitting>>

Working == \E k \in checks : ReadImage(k) \/ Post(k) \/ Apply(k)

RoleNext ==
  \/ \E r \in Roles, i \in Images : Pick(r, i)
  \/ EnterImages \/ LeaveImages \/ Quit
  \/ Working

RoleSpec == RoleInit /\ [][RoleNext]_roleVars

\* The threads run, and the event loop turns.
FairSpec == RoleSpec /\ WF_roleVars(Working)

-----------------------------------------------------------------------------
Check == [role : Roles, gen : Nat, image : Images, at : {"start", "read", "posted"},
          was : Contents]

\* Every variable has its type.
RoleTypeOK ==
  /\ page \in {"before", "images", "after"}
  /\ path \in [Roles -> Images \cup {""}]
  /\ status \in [Roles -> Verdicts \cup {"none", "checking"}]
  /\ gen \in [Roles -> Nat] /\ checks \subseteq Check /\ quitting \in BOOLEAN
  /\ judged \in [Roles -> [image : Images \cup {""}, was : Contents]]

\* The verdict that is shown is about the image that is picked, however the
\* checks of earlier picks overtake each other.
ShownIsOwn ==
  \A r \in Roles : status[r] \in Verdicts =>
    judged[r].image = path[r] /\ status[r] = Verdict(r, path[r], judged[r].was)

\* Nothing gets past step 3 that was found to be wrong when it was looked at, or
\* was not looked at: but for a file that was not there when it was picked.
NoWrongImagePasses ==
  page = "after" => \A r \in Roles :
    /\ path[r] # ""
    /\ status[r] # "none" =>
         judged[r].image = path[r] /\ Verdict(r, path[r], judged[r].was) \in Soft

\* VERIFYING comes to an end.
CheckEnds == \A r \in Roles : status[r] = "checking" ~> (status[r] # "checking" \/ quitting)
=============================================================================
