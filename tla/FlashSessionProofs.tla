------------------------- MODULE FlashSessionProofs -------------------------
(***************************************************************************)
(* FlashSession for every number of deployments: what is in flight is      *)
(* shown as busy, only checked images are flashed, the COMPLETE page       *)
(* stands for two cards that boot, and the process waits for the flash.    *)
(***************************************************************************)
EXTENDS FlashSession, TLAPS

\* A job waits for a hash only while there is one.
PendingHashed == pending => hash # "none"

\* Away from step 5, and under an ERASE dialog, nothing is going on; both know
\* the role.
OpsOnly ==
  /\ page # "ops" \/ dialog => status \notin Busy
  /\ page = "ops" /\ dialog => status # "done"
  /\ page = "ops" \/ dialog => role # ""
  /\ dialog => page \in {"role", "ops"}

\* The role that is being set up or flashed is not completed yet, and it is the
\* job's.
RoleIsOpen ==
  /\ page \in {"setup", "role"} \/ (page = "ops" /\ status # "done") => role \notin completed
  /\ role = "slave" => "master" \in completed
  /\ job # "none" => jobRole = role

\* A job that answers "ok" has a card that boots, or was cancelled by the
\* operator: the copy's own cancel goes with a failure.
JobAnswers ==
  job # "none" =>
    /\ cancel => userCancelled \/ outcome = "failed"
    /\ outcome = "ok" => card = "bootable" \/ userCancelled
    /\ card = "bootable" => jobRole \in made

\* When the dialog is answered in time, a pending quit waits for the flash and
\* happens with its end.
QuitsIdle ==
  ~LateYes =>
    /\ quitPending => status \in Busy \/ quitting
    /\ quitting => status \notin Busy
    /\ exited => quitting

\* A cancel in a flash is remembered, in both flags.
CancelKept == status = "cancelling" => userCancelled /\ cancel

IInv ==
  /\ TypeOK /\ InFlightIsBusy /\ FlashedChecked /\ CompletedBoots
  /\ PendingHashed /\ OpsOnly /\ RoleIsOpen /\ JobAnswers /\ QuitsIdle /\ CancelKept

-----------------------------------------------------------------------------
(* The invariant is inductive: one lemma for each of its parts, one step     *)
(* for each action that touches it.                                         *)

LEMMA InitInv == Init => IInv
<1> SUFFICES ASSUME Init PROVE IInv
  OBVIOUS
<1> USE LateYesAssumption, MaxSessionsAssumption
    DEF Init, Card!Init, Roles, Busy, Passed, NoDigests
<1>1. Flags
  BY DEF Flags
<1>2. PageTypes /\ ModelTypes /\ JobTypes
  <2>1. sessions = 0
    OBVIOUS
  <2>2. sessions \in 0..MaxSessions
    BY ONLY <2>1, MaxSessionsAssumption
  <2> QED
    BY <2>2 DEF PageTypes, ModelTypes, JobTypes
<1>3. InFlightIsBusy /\ FlashedChecked /\ CompletedBoots
  BY DEF InFlightIsBusy, FlashedChecked, CompletedBoots
<1>4. PendingHashed /\ OpsOnly /\ RoleIsOpen /\ JobAnswers
  BY DEF PendingHashed, OpsOnly, RoleIsOpen, JobAnswers
<1>5. QuitsIdle /\ CancelKept
  BY DEF QuitsIdle, CancelKept
<1> QED
  BY <1>1, <1>2, <1>3, <1>4, <1>5 DEF IInv, TypeOK

\* Flags stay Boolean.
LEMMA StepFlags == ASSUME IInv, Next PROVE Flags'
<1> USE DEF wizard, model, hashing, flasher, window
<1>1. CASE \/ EnterRolePage \/ BackToSetup \/ AssignRole \/ ClickBack
           \/ ClickNext \/ ClickFinish \/ FlashAnother \/ HashCancelled
           \/ HashFails \/ HashReadsAll \/ HashPosts \/ JobPosts
  <2>1. UNCHANGED <<dialog, verifyOn, userCancelled, pending, cancel, asking, quitPending, quitting, exited>>
    BY <1>1 DEF EnterRolePage, BackToSetup, AssignRole, ClickBack,
      ClickNext, ClickFinish, FlashAnother, HashCancelled, HashFails,
      HashReadsAll, HashPosts, JobPosts
  <2> QED
    BY <2>1 DEF IInv, TypeOK, Flags
<1>2. CASE ToggleVerify
  BY <1>2 DEF IInv, TypeOK, Flags, ToggleVerify, Clickable
<1>3. CASE ClickWrite
  BY <1>3 DEF IInv, TypeOK, Flags, ClickWrite, Clickable
<1>4. CASE RejectDialog
  BY <1>4 DEF IInv, TypeOK, Flags, RejectDialog
<1>5. CASE AcceptDialog
  BY <1>5 DEF IInv, TypeOK, Flags, AcceptDialog, BuildFails, BeginVerify,
    SkipVerify, StartWithJob, Clear
<1>6. CASE ClickRetry
  BY <1>6 DEF IInv, TypeOK, Flags, ClickRetry, Clickable, Reset, Clear,
    QuitWhenIdle
<1>7. CASE ClickCancel
  BY <1>7 DEF IInv, TypeOK, Flags, ClickCancel, Clickable, CancelCall
<1>8. CASE ClickContinue
  BY <1>8 DEF IInv, TypeOK, Flags, ClickContinue, Clickable, Reset, Clear,
    QuitWhenIdle
<1>9. CASE CloseWindow
  BY <1>9 DEF IInv, TypeOK, Flags, CloseWindow
<1>10. CASE SayNo
  BY <1>10 DEF IInv, TypeOK, Flags, SayNo
<1>11. CASE SayYes
  BY <1>11 DEF IInv, TypeOK, Flags, SayYes, CancelCall
<1>12. CASE ClickQuit
  BY <1>12 DEF IInv, TypeOK, Flags, ClickQuit, Clickable
<1>13. CASE JobWorks
  BY <1>13 DEF IInv, TypeOK, Flags, JobWorks, Card!Touch, Card!Complete,
    Card!Succeed, Card!GiveUp
<1>14. CASE ConsumerDies
  BY <1>14 DEF IInv, TypeOK, Flags, ConsumerDies
<1>15. CASE OnHashRefused
  BY <1>15 DEF IInv, TypeOK, Flags, OnHashRefused, HashedRole, QuitWhenIdle
<1>16. CASE OnHashPassed
  BY <1>16 DEF IInv, TypeOK, Flags, OnHashPassed, HashedRole, StartWithJob
<1>17. CASE OnFinished
  BY <1>17 DEF IInv, TypeOK, Flags, OnFinished, Completed, QuitWhenIdle
<1>18. CASE Exit
  BY <1>18 DEF IInv, TypeOK, Flags, Exit
<1> QED
  BY <1>1, <1>2, <1>3, <1>4, <1>5, <1>6, <1>7, <1>8, <1>9, <1>10, <1>11,
    <1>12, <1>13, <1>14, <1>15, <1>16, <1>17, <1>18
  DEF Next, Pages, Windowing, HashWorker, FlashWorker, Slots

LEMMA StepPageTypes == ASSUME IInv, Next PROVE PageTypes'
<1> USE MaxSessionsAssumption
<1> USE DEF wizard, model, hashing, flasher, window
<1>1. CASE \/ ToggleVerify \/ ClickWrite \/ RejectDialog \/ ClickRetry
           \/ ClickCancel \/ CloseWindow \/ SayNo \/ SayYes
           \/ ClickQuit \/ HashCancelled \/ HashFails \/ HashReadsAll
           \/ HashPosts \/ JobWorks \/ ConsumerDies \/ JobPosts
           \/ OnHashRefused \/ OnHashPassed \/ Exit
  <2>1. UNCHANGED <<page, role, completed, sessions>>
    BY <1>1 DEF ToggleVerify, ClickWrite, RejectDialog, ClickRetry,
      ClickCancel, CloseWindow, SayNo, SayYes, ClickQuit, HashCancelled,
      HashFails, HashReadsAll, HashPosts, JobWorks, ConsumerDies, JobPosts,
      OnHashRefused, OnHashPassed, Exit, Card!Touch, Card!Complete,
      Card!Succeed, Card!GiveUp
  <2> QED
    BY <2>1 DEF IInv, TypeOK, PageTypes
<1>2. CASE EnterRolePage
  BY <1>2 DEF IInv, TypeOK, PageTypes, Roles, EnterRolePage, Clickable
<1>3. CASE BackToSetup
  BY <1>3 DEF IInv, TypeOK, PageTypes, Roles, BackToSetup, Clickable
<1>4. CASE AssignRole
  BY <1>4 DEF IInv, TypeOK, PageTypes, Roles, AssignRole, ImposedRole
<1>5. CASE AcceptDialog
  BY <1>5 DEF IInv, TypeOK, PageTypes, Roles, AcceptDialog, BuildFails,
    BeginVerify, SkipVerify, StartWithJob, Clear
<1>6. CASE ClickBack
  BY <1>6 DEF IInv, TypeOK, PageTypes, Roles, ClickBack, Clickable
<1>7. CASE ClickNext
  BY <1>7 DEF IInv, TypeOK, PageTypes, Roles, ClickNext, Clickable
<1>8. CASE ClickContinue
  BY <1>8 DEF IInv, TypeOK, PageTypes, Roles, ClickContinue, Clickable,
    Reset, Clear, QuitWhenIdle
<1>9. CASE ClickFinish
  BY <1>9 DEF IInv, TypeOK, PageTypes, Roles, ClickFinish, Clickable
<1>10. CASE FlashAnother
  <2>1. sessions < MaxSessions /\ sessions' = sessions + 1
    BY <1>10 DEF FlashAnother
  <2>2. sessions \in 0..MaxSessions
    BY DEF IInv, TypeOK, PageTypes
  <2>3. sessions' \in 0..MaxSessions
    BY <2>1, <2>2
  <2> QED
    BY <1>10, <2>3 DEF PageTypes, FlashAnother
<1>11. CASE OnFinished
  BY <1>11 DEF IInv, TypeOK, PageTypes, Roles, OnFinished, Completed,
    QuitWhenIdle
<1> QED
  BY <1>1, <1>2, <1>3, <1>4, <1>5, <1>6, <1>7, <1>8, <1>9, <1>10, <1>11
  DEF Next, Pages, Windowing, HashWorker, FlashWorker, Slots

LEMMA StepModelTypes == ASSUME IInv, Next PROVE ModelTypes'
<1> USE DEF wizard, model, hashing, flasher, window
<1>1. CASE \/ EnterRolePage \/ BackToSetup \/ AssignRole \/ ToggleVerify
           \/ ClickWrite \/ RejectDialog \/ ClickBack \/ ClickNext
           \/ ClickFinish \/ FlashAnother \/ CloseWindow \/ SayNo
           \/ ClickQuit \/ JobWorks \/ ConsumerDies \/ JobPosts \/ Exit
  <2>1. UNCHANGED <<status, digest, hash>>
    BY <1>1 DEF EnterRolePage, BackToSetup, AssignRole, ToggleVerify,
      ClickWrite, RejectDialog, ClickBack, ClickNext, ClickFinish,
      FlashAnother, CloseWindow, SayNo, ClickQuit, JobWorks, ConsumerDies,
      JobPosts, Exit, Card!Touch, Card!Complete, Card!Succeed, Card!GiveUp
  <2> QED
    BY <2>1 DEF IInv, TypeOK, ModelTypes
<1>2. CASE AcceptDialog
  BY <1>2 DEF IInv, TypeOK, ModelTypes, PageTypes, Roles, Busy, Passed,
    NoDigests, AcceptDialog, BuildFails, BeginVerify, SkipVerify,
    StartWithJob, Clear
<1>3. CASE ClickRetry
  BY <1>3 DEF IInv, TypeOK, ModelTypes, PageTypes, Roles, Busy, Passed,
    NoDigests, ClickRetry, Clickable, Reset, Clear, QuitWhenIdle
<1>4. CASE ClickCancel
  BY <1>4 DEF IInv, TypeOK, ModelTypes, PageTypes, Roles, Busy, Passed,
    ClickCancel, Clickable, CancelCall
<1>5. CASE ClickContinue
  BY <1>5 DEF IInv, TypeOK, ModelTypes, PageTypes, Roles, Busy, Passed,
    NoDigests, ClickContinue, Clickable, Reset, Clear, QuitWhenIdle
<1>6. CASE SayYes
  BY <1>6 DEF IInv, TypeOK, ModelTypes, PageTypes, Roles, Busy, Passed,
    SayYes, CancelCall
<1>7. CASE HashCancelled
  BY <1>7 DEF IInv, TypeOK, ModelTypes, PageTypes, Roles, Busy, Passed,
    HashCancelled
<1>8. CASE HashFails
  BY <1>8 DEF IInv, TypeOK, ModelTypes, PageTypes, Roles, Busy, Passed,
    HashFails
<1>9. CASE HashReadsAll
  BY <1>9 DEF IInv, TypeOK, ModelTypes, PageTypes, Roles, Busy, Passed,
    HashReadsAll
<1>10. CASE HashPosts
  BY <1>10 DEF IInv, TypeOK, ModelTypes, PageTypes, Roles, Busy, Passed,
    HashPosts
<1>11. CASE OnHashRefused
  BY <1>11 DEF IInv, TypeOK, ModelTypes, PageTypes, Roles, Busy, Passed,
    OnHashRefused, HashedRole, QuitWhenIdle
<1>12. CASE OnHashPassed
  BY <1>12 DEF IInv, TypeOK, ModelTypes, PageTypes, Roles, Busy, Passed,
    OnHashPassed, HashedRole, StartWithJob
<1>13. CASE OnFinished
  BY <1>13 DEF IInv, TypeOK, ModelTypes, PageTypes, Roles, Busy, Passed,
    OnFinished, Completed, QuitWhenIdle
<1> QED
  BY <1>1, <1>2, <1>3, <1>4, <1>5, <1>6, <1>7, <1>8, <1>9, <1>10, <1>11,
    <1>12, <1>13
  DEF Next, Pages, Windowing, HashWorker, FlashWorker, Slots

\* The job's role is a proper one, so made stays a set of roles.
LEMMA StepJobTypes == ASSUME IInv, Next PROVE JobTypes'
<1> USE DEF wizard, model, hashing, flasher, window
<1>1. CASE \/ EnterRolePage \/ BackToSetup \/ AssignRole \/ ToggleVerify
           \/ ClickWrite \/ RejectDialog \/ ClickRetry \/ ClickBack
           \/ ClickNext \/ ClickCancel \/ ClickContinue \/ ClickFinish
           \/ CloseWindow \/ SayNo \/ SayYes \/ ClickQuit
           \/ HashCancelled \/ HashFails \/ HashReadsAll \/ HashPosts
           \/ OnHashRefused \/ Exit
  <2>1. UNCHANGED <<job, jobRole, card, outcome, made>>
    BY <1>1 DEF EnterRolePage, BackToSetup, AssignRole, ToggleVerify,
      ClickWrite, RejectDialog, ClickRetry, ClickBack, ClickNext,
      ClickCancel, ClickContinue, ClickFinish, CloseWindow, SayNo, SayYes,
      ClickQuit, HashCancelled, HashFails, HashReadsAll, HashPosts,
      OnHashRefused, Exit
  <2> QED
    BY <2>1 DEF IInv, TypeOK, JobTypes
<1>2. CASE AcceptDialog
  BY <1>2 DEF IInv, TypeOK, JobTypes, PageTypes, Roles, AcceptDialog,
    BuildFails, BeginVerify, SkipVerify, StartWithJob, Clear
<1>3. CASE FlashAnother
  BY <1>3 DEF IInv, TypeOK, JobTypes, PageTypes, Roles, FlashAnother,
    Clickable
<1>4. CASE JobWorks
  <2>1. jobRole \in Roles
    BY <1>4 DEF JobWorks, IInv, InFlightIsBusy, OpsOnly, RoleIsOpen, TypeOK, PageTypes, Busy
  <2>2. card' \in {"original", "raw", "bootable", "recovered"} /\ outcome' \in {"none", "ok", "failed"}
    BY <1>4 DEF IInv, TypeOK, JobTypes, JobWorks, Card!Touch, Card!Complete, Card!Succeed, Card!GiveUp
  <2>3. made' \subseteq Roles
    BY <1>4, <2>1 DEF IInv, TypeOK, JobTypes, JobWorks
  <2> QED
    BY <1>4, <2>2, <2>3 DEF IInv, TypeOK, JobTypes, JobWorks
<1>5. CASE ConsumerDies
  BY <1>5 DEF IInv, TypeOK, JobTypes, PageTypes, Roles, ConsumerDies
<1>6. CASE JobPosts
  BY <1>6 DEF IInv, TypeOK, JobTypes, PageTypes, Roles, JobPosts
<1>7. CASE OnHashPassed
  BY <1>7 DEF IInv, TypeOK, JobTypes, PageTypes, Roles, OnHashPassed,
    HashedRole, StartWithJob
<1>8. CASE OnFinished
  BY <1>8 DEF IInv, TypeOK, JobTypes, PageTypes, Roles, OnFinished,
    Completed, QuitWhenIdle
<1> QED
  BY <1>1, <1>2, <1>3, <1>4, <1>5, <1>6, <1>7, <1>8
  DEF Next, Pages, Windowing, HashWorker, FlashWorker, Slots

\* A flash is started by a click only away from a busy status, hence with nothing
\* in flight, or by the hash result, which ends the hash.
LEMMA StepInFlightIsBusy == ASSUME IInv, Next PROVE InFlightIsBusy'
<1> USE DEF wizard, model, hashing, flasher, window
<1>1. CASE \/ EnterRolePage \/ BackToSetup \/ AssignRole \/ ToggleVerify
           \/ ClickWrite \/ RejectDialog \/ ClickBack \/ ClickNext
           \/ ClickFinish \/ FlashAnother \/ CloseWindow \/ SayNo
           \/ ClickQuit \/ JobWorks \/ ConsumerDies \/ Exit
  <2>1. UNCHANGED <<hash, status, job, pending>>
    BY <1>1 DEF EnterRolePage, BackToSetup, AssignRole, ToggleVerify,
      ClickWrite, RejectDialog, ClickBack, ClickNext, ClickFinish,
      FlashAnother, CloseWindow, SayNo, ClickQuit, JobWorks, ConsumerDies,
      Exit, Card!Touch, Card!Complete, Card!Succeed, Card!GiveUp
  <2> QED
    BY <2>1 DEF IInv, InFlightIsBusy
<1>2. CASE AcceptDialog
  BY <1>2 DEF IInv, InFlightIsBusy, OpsOnly, PendingHashed, Busy, Passed,
    AcceptDialog, BuildFails, BeginVerify, SkipVerify, StartWithJob, Clear
<1>3. CASE ClickRetry
  BY <1>3 DEF IInv, InFlightIsBusy, OpsOnly, PendingHashed, Busy, Passed,
    ClickRetry, Clickable, Reset, Clear, QuitWhenIdle
<1>4. CASE ClickCancel
  BY <1>4 DEF IInv, InFlightIsBusy, OpsOnly, PendingHashed, Busy, Passed,
    ClickCancel, Clickable, CancelCall
<1>5. CASE ClickContinue
  BY <1>5 DEF IInv, InFlightIsBusy, OpsOnly, PendingHashed, Busy, Passed,
    ClickContinue, Clickable, Reset, Clear, QuitWhenIdle
<1>6. CASE SayYes
  BY <1>6 DEF IInv, InFlightIsBusy, OpsOnly, PendingHashed, Busy, Passed,
    SayYes, CancelCall
<1>7. CASE HashCancelled
  BY <1>7 DEF IInv, InFlightIsBusy, OpsOnly, PendingHashed, Busy, Passed,
    HashCancelled
<1>8. CASE HashFails
  BY <1>8 DEF IInv, InFlightIsBusy, OpsOnly, PendingHashed, Busy, Passed,
    HashFails
<1>9. CASE HashReadsAll
  BY <1>9 DEF IInv, InFlightIsBusy, OpsOnly, PendingHashed, Busy, Passed,
    HashReadsAll
<1>10. CASE HashPosts
  BY <1>10 DEF IInv, InFlightIsBusy, OpsOnly, PendingHashed, Busy, Passed,
    HashPosts
<1>11. CASE JobPosts
  BY <1>11 DEF IInv, InFlightIsBusy, OpsOnly, PendingHashed, Busy, Passed,
    JobPosts
<1>12. CASE OnHashRefused
  BY <1>12 DEF IInv, InFlightIsBusy, OpsOnly, PendingHashed, Busy, Passed,
    OnHashRefused, HashedRole, QuitWhenIdle
<1>13. CASE OnHashPassed
  BY <1>13 DEF IInv, InFlightIsBusy, OpsOnly, PendingHashed, Busy, Passed,
    OnHashPassed, HashedRole, StartWithJob
<1>14. CASE OnFinished
  BY <1>14 DEF IInv, InFlightIsBusy, OpsOnly, PendingHashed, Busy, Passed,
    OnFinished, Completed, QuitWhenIdle
<1> QED
  BY <1>1, <1>2, <1>3, <1>4, <1>5, <1>6, <1>7, <1>8, <1>9, <1>10, <1>11,
    <1>12, <1>13, <1>14
  DEF Next, Pages, Windowing, HashWorker, FlashWorker, Slots

\* A job starts from a hash that passed, or with verification off; the toggle and
\* the digests are out of reach while it runs.
LEMMA StepFlashedChecked == ASSUME IInv, Next PROVE FlashedChecked'
<1> USE DEF wizard, model, hashing, flasher, window
<1>1. CASE \/ EnterRolePage \/ BackToSetup \/ AssignRole \/ ClickWrite
           \/ RejectDialog \/ ClickBack \/ ClickNext \/ ClickCancel
           \/ ClickFinish \/ FlashAnother \/ CloseWindow \/ SayNo
           \/ SayYes \/ ClickQuit \/ HashCancelled \/ HashFails
           \/ HashReadsAll \/ HashPosts \/ JobWorks \/ ConsumerDies
           \/ Exit
  <2>1. UNCHANGED <<job, verifyOn, digest, jobRole>>
    BY <1>1 DEF EnterRolePage, BackToSetup, AssignRole, ClickWrite,
      RejectDialog, ClickBack, ClickNext, ClickCancel, ClickFinish,
      FlashAnother, CloseWindow, SayNo, SayYes, ClickQuit, HashCancelled,
      HashFails, HashReadsAll, HashPosts, JobWorks, ConsumerDies, Exit,
      Card!Touch, Card!Complete, Card!Succeed, Card!GiveUp
  <2> QED
    BY <2>1 DEF IInv, FlashedChecked
<1>2. CASE ToggleVerify
  BY <1>2 DEF IInv, InFlightIsBusy, FlashedChecked, OpsOnly, RoleIsOpen,
    TypeOK, PageTypes, ModelTypes, JobTypes, Roles, Busy, Passed,
    ToggleVerify, Clickable
<1>3. CASE AcceptDialog
  BY <1>3 DEF IInv, InFlightIsBusy, FlashedChecked, OpsOnly, RoleIsOpen,
    TypeOK, PageTypes, ModelTypes, JobTypes, Roles, Busy, Passed, NoDigests,
    AcceptDialog, BuildFails, BeginVerify, SkipVerify, StartWithJob, Clear
<1>4. CASE ClickRetry
  BY <1>4 DEF IInv, InFlightIsBusy, FlashedChecked, OpsOnly, RoleIsOpen,
    TypeOK, PageTypes, ModelTypes, JobTypes, Roles, Busy, Passed, NoDigests,
    ClickRetry, Clickable, Reset, Clear, QuitWhenIdle
<1>5. CASE ClickContinue
  BY <1>5 DEF IInv, InFlightIsBusy, FlashedChecked, OpsOnly, RoleIsOpen,
    TypeOK, PageTypes, ModelTypes, JobTypes, Roles, Busy, Passed, NoDigests,
    ClickContinue, Clickable, Reset, Clear, QuitWhenIdle
<1>6. CASE JobPosts
  BY <1>6 DEF IInv, InFlightIsBusy, FlashedChecked, OpsOnly, RoleIsOpen,
    TypeOK, PageTypes, ModelTypes, JobTypes, Roles, Busy, Passed, JobPosts
<1>7. CASE OnHashRefused
  BY <1>7 DEF IInv, InFlightIsBusy, FlashedChecked, OpsOnly, RoleIsOpen,
    TypeOK, PageTypes, ModelTypes, JobTypes, Roles, Busy, Passed,
    OnHashRefused, HashedRole, QuitWhenIdle
<1>8. CASE OnHashPassed
  BY <1>8 DEF IInv, InFlightIsBusy, FlashedChecked, OpsOnly, RoleIsOpen,
    TypeOK, PageTypes, ModelTypes, JobTypes, Roles, Busy, Passed,
    OnHashPassed, HashedRole, StartWithJob
<1>9. CASE OnFinished
  BY <1>9 DEF IInv, InFlightIsBusy, FlashedChecked, OpsOnly, RoleIsOpen,
    TypeOK, PageTypes, ModelTypes, JobTypes, Roles, Busy, Passed,
    OnFinished, Completed, QuitWhenIdle
<1> QED
  BY <1>1, <1>2, <1>3, <1>4, <1>5, <1>6, <1>7, <1>8, <1>9
  DEF Next, Pages, Windowing, HashWorker, FlashWorker, Slots

\* A role is completed by a job that answered "ok" and was not cancelled, hence
\* by a card that boots, and its card is not flashed again.
LEMMA StepCompletedBoots == ASSUME IInv, Next PROVE CompletedBoots'
<1> USE DEF wizard, model, hashing, flasher, window
<1>1. CASE \/ AssignRole \/ ToggleVerify \/ ClickWrite \/ RejectDialog
           \/ ClickRetry \/ ClickCancel \/ CloseWindow \/ SayNo
           \/ SayYes \/ ClickQuit \/ HashCancelled \/ HashFails
           \/ HashReadsAll \/ HashPosts \/ ConsumerDies \/ JobPosts
           \/ OnHashRefused \/ Exit
  <2>1. UNCHANGED <<completed, made, page>>
    BY <1>1 DEF AssignRole, ToggleVerify, ClickWrite, RejectDialog,
      ClickRetry, ClickCancel, CloseWindow, SayNo, SayYes, ClickQuit,
      HashCancelled, HashFails, HashReadsAll, HashPosts, ConsumerDies,
      JobPosts, OnHashRefused, Exit
  <2> QED
    BY <2>1 DEF IInv, CompletedBoots
<1>2. CASE EnterRolePage
  BY <1>2 DEF IInv, CompletedBoots, InFlightIsBusy, OpsOnly, RoleIsOpen,
    JobAnswers, TypeOK, PageTypes, JobTypes, Roles, Busy, Passed,
    EnterRolePage, Clickable
<1>3. CASE BackToSetup
  BY <1>3 DEF IInv, CompletedBoots, InFlightIsBusy, OpsOnly, RoleIsOpen,
    JobAnswers, TypeOK, PageTypes, JobTypes, Roles, Busy, Passed,
    BackToSetup, Clickable
<1>4. CASE AcceptDialog
  BY <1>4 DEF IInv, CompletedBoots, InFlightIsBusy, OpsOnly, RoleIsOpen,
    JobAnswers, TypeOK, PageTypes, JobTypes, Roles, Busy, Passed,
    AcceptDialog, BuildFails, BeginVerify, SkipVerify, StartWithJob, Clear
<1>5. CASE ClickBack
  BY <1>5 DEF IInv, CompletedBoots, InFlightIsBusy, OpsOnly, RoleIsOpen,
    JobAnswers, TypeOK, PageTypes, JobTypes, Roles, Busy, Passed, ClickBack,
    Clickable
<1>6. CASE ClickNext
  BY <1>6 DEF IInv, CompletedBoots, InFlightIsBusy, OpsOnly, RoleIsOpen,
    JobAnswers, TypeOK, PageTypes, JobTypes, Roles, Busy, Passed, ClickNext,
    Clickable
<1>7. CASE ClickContinue
  BY <1>7 DEF IInv, CompletedBoots, InFlightIsBusy, OpsOnly, RoleIsOpen,
    JobAnswers, TypeOK, PageTypes, JobTypes, Roles, Busy, Passed,
    ClickContinue, Clickable, Reset, Clear, QuitWhenIdle
<1>8. CASE ClickFinish
  BY <1>8 DEF IInv, CompletedBoots, InFlightIsBusy, OpsOnly, RoleIsOpen,
    JobAnswers, TypeOK, PageTypes, JobTypes, Roles, Busy, Passed,
    ClickFinish, Clickable
<1>9. CASE FlashAnother
  BY <1>9 DEF IInv, CompletedBoots, InFlightIsBusy, OpsOnly, RoleIsOpen,
    JobAnswers, TypeOK, PageTypes, JobTypes, Roles, Busy, Passed,
    FlashAnother, Clickable
<1>10. CASE JobWorks
  BY <1>10 DEF IInv, CompletedBoots, InFlightIsBusy, OpsOnly, RoleIsOpen,
    JobAnswers, TypeOK, PageTypes, JobTypes, Roles, Busy, Passed, JobWorks,
    Card!Touch, Card!Complete, Card!Succeed, Card!GiveUp
<1>11. CASE OnHashPassed
  BY <1>11 DEF IInv, CompletedBoots, InFlightIsBusy, OpsOnly, RoleIsOpen,
    JobAnswers, TypeOK, PageTypes, JobTypes, Roles, Busy, Passed,
    OnHashPassed, HashedRole, StartWithJob
<1>12. CASE OnFinished
  BY <1>12 DEF IInv, CompletedBoots, InFlightIsBusy, OpsOnly, RoleIsOpen,
    JobAnswers, TypeOK, PageTypes, JobTypes, Roles, Busy, Passed,
    OnFinished, Completed, QuitWhenIdle
<1> QED
  BY <1>1, <1>2, <1>3, <1>4, <1>5, <1>6, <1>7, <1>8, <1>9, <1>10, <1>11,
    <1>12
  DEF Next, Pages, Windowing, HashWorker, FlashWorker, Slots

LEMMA StepPendingHashed == ASSUME IInv, Next PROVE PendingHashed'
<1> USE DEF wizard, model, hashing, flasher, window
<1>1. CASE \/ EnterRolePage \/ BackToSetup \/ AssignRole \/ ToggleVerify
           \/ ClickWrite \/ RejectDialog \/ ClickBack \/ ClickNext
           \/ ClickCancel \/ ClickFinish \/ FlashAnother \/ CloseWindow
           \/ SayNo \/ SayYes \/ ClickQuit \/ JobWorks \/ ConsumerDies
           \/ JobPosts \/ OnFinished \/ Exit
  <2>1. UNCHANGED <<pending, hash>>
    BY <1>1 DEF EnterRolePage, BackToSetup, AssignRole, ToggleVerify,
      ClickWrite, RejectDialog, ClickBack, ClickNext, ClickCancel,
      ClickFinish, FlashAnother, CloseWindow, SayNo, SayYes, ClickQuit,
      JobWorks, ConsumerDies, JobPosts, OnFinished, Exit, Card!Touch,
      Card!Complete, Card!Succeed, Card!GiveUp
  <2> QED
    BY <2>1 DEF IInv, PendingHashed
<1>2. CASE AcceptDialog
  BY <1>2 DEF IInv, PendingHashed, InFlightIsBusy, Passed, AcceptDialog,
    BuildFails, BeginVerify, SkipVerify, StartWithJob, Clear
<1>3. CASE ClickRetry
  BY <1>3 DEF IInv, PendingHashed, InFlightIsBusy, Passed, ClickRetry,
    Clickable, Reset, Clear, QuitWhenIdle
<1>4. CASE ClickContinue
  BY <1>4 DEF IInv, PendingHashed, InFlightIsBusy, Passed, ClickContinue,
    Clickable, Reset, Clear, QuitWhenIdle
<1>5. CASE HashCancelled
  BY <1>5 DEF IInv, PendingHashed, InFlightIsBusy, Passed, HashCancelled
<1>6. CASE HashFails
  BY <1>6 DEF IInv, PendingHashed, InFlightIsBusy, Passed, HashFails
<1>7. CASE HashReadsAll
  BY <1>7 DEF IInv, PendingHashed, InFlightIsBusy, Passed, HashReadsAll
<1>8. CASE HashPosts
  BY <1>8 DEF IInv, PendingHashed, InFlightIsBusy, Passed, HashPosts
<1>9. CASE OnHashRefused
  BY <1>9 DEF IInv, PendingHashed, InFlightIsBusy, Passed, OnHashRefused,
    HashedRole, QuitWhenIdle
<1>10. CASE OnHashPassed
  BY <1>10 DEF IInv, PendingHashed, InFlightIsBusy, Passed, OnHashPassed,
    HashedRole, StartWithJob
<1> QED
  BY <1>1, <1>2, <1>3, <1>4, <1>5, <1>6, <1>7, <1>8, <1>9, <1>10
  DEF Next, Pages, Windowing, HashWorker, FlashWorker, Slots

LEMMA StepOpsOnly == ASSUME IInv, Next PROVE OpsOnly'
<1> USE DEF wizard, model, hashing, flasher, window
<1>1. CASE \/ ToggleVerify \/ CloseWindow \/ SayNo \/ ClickQuit
           \/ HashCancelled \/ HashFails \/ HashReadsAll \/ HashPosts
           \/ JobWorks \/ ConsumerDies \/ JobPosts \/ Exit
  <2>1. UNCHANGED <<page, dialog, status, role>>
    BY <1>1 DEF ToggleVerify, CloseWindow, SayNo, ClickQuit, HashCancelled,
      HashFails, HashReadsAll, HashPosts, JobWorks, ConsumerDies, JobPosts,
      Exit, Card!Touch, Card!Complete, Card!Succeed, Card!GiveUp
  <2> QED
    BY <2>1 DEF IInv, OpsOnly
<1>2. CASE EnterRolePage
  BY <1>2 DEF IInv, OpsOnly, InFlightIsBusy, RoleIsOpen, Busy, Passed,
    EnterRolePage, Clickable
<1>3. CASE BackToSetup
  BY <1>3 DEF IInv, OpsOnly, InFlightIsBusy, RoleIsOpen, Busy, Passed,
    BackToSetup, Clickable
<1>4. CASE AssignRole
  BY <1>4 DEF IInv, OpsOnly, InFlightIsBusy, RoleIsOpen, Busy, Passed,
    AssignRole, ImposedRole
<1>5. CASE ClickWrite
  BY <1>5 DEF IInv, OpsOnly, InFlightIsBusy, RoleIsOpen, Busy, Passed,
    ClickWrite, Clickable
<1>6. CASE RejectDialog
  BY <1>6 DEF IInv, OpsOnly, InFlightIsBusy, RoleIsOpen, Busy, Passed,
    RejectDialog
<1>7. CASE AcceptDialog
  BY <1>7 DEF IInv, OpsOnly, InFlightIsBusy, RoleIsOpen, Busy, Passed,
    AcceptDialog, BuildFails, BeginVerify, SkipVerify, StartWithJob, Clear
<1>8. CASE ClickRetry
  BY <1>8 DEF IInv, OpsOnly, InFlightIsBusy, RoleIsOpen, Busy, Passed,
    ClickRetry, Clickable, Reset, Clear, QuitWhenIdle
<1>9. CASE ClickBack
  BY <1>9 DEF IInv, OpsOnly, InFlightIsBusy, RoleIsOpen, Busy, Passed,
    ClickBack, Clickable
<1>10. CASE ClickNext
  BY <1>10 DEF IInv, OpsOnly, InFlightIsBusy, RoleIsOpen, Busy, Passed,
    ClickNext, Clickable
<1>11. CASE ClickCancel
  BY <1>11 DEF IInv, OpsOnly, InFlightIsBusy, RoleIsOpen, Busy, Passed,
    ClickCancel, Clickable, CancelCall
<1>12. CASE ClickContinue
  BY <1>12 DEF IInv, OpsOnly, InFlightIsBusy, RoleIsOpen, Busy, Passed,
    ClickContinue, Clickable, Reset, Clear, QuitWhenIdle
<1>13. CASE ClickFinish
  BY <1>13 DEF IInv, OpsOnly, InFlightIsBusy, RoleIsOpen, Busy, Passed,
    ClickFinish, Clickable
<1>14. CASE FlashAnother
  BY <1>14 DEF IInv, OpsOnly, InFlightIsBusy, RoleIsOpen, Busy, Passed,
    FlashAnother, Clickable
<1>15. CASE SayYes
  BY <1>15 DEF IInv, OpsOnly, InFlightIsBusy, RoleIsOpen, Busy, Passed,
    SayYes, CancelCall
<1>16. CASE OnHashRefused
  BY <1>16 DEF IInv, OpsOnly, InFlightIsBusy, RoleIsOpen, Busy, Passed,
    OnHashRefused, HashedRole, QuitWhenIdle
<1>17. CASE OnHashPassed
  BY <1>17 DEF IInv, OpsOnly, InFlightIsBusy, RoleIsOpen, Busy, Passed,
    OnHashPassed, HashedRole, StartWithJob
<1>18. CASE OnFinished
  BY <1>18 DEF IInv, OpsOnly, InFlightIsBusy, RoleIsOpen, Busy, Passed,
    OnFinished, Completed, QuitWhenIdle
<1> QED
  BY <1>1, <1>2, <1>3, <1>4, <1>5, <1>6, <1>7, <1>8, <1>9, <1>10, <1>11,
    <1>12, <1>13, <1>14, <1>15, <1>16, <1>17, <1>18
  DEF Next, Pages, Windowing, HashWorker, FlashWorker, Slots

LEMMA StepRoleIsOpen == ASSUME IInv, Next PROVE RoleIsOpen'
<1> USE DEF wizard, model, hashing, flasher, window
<1>1. CASE \/ ToggleVerify \/ ClickWrite \/ RejectDialog \/ CloseWindow
           \/ SayNo \/ ClickQuit \/ HashCancelled \/ HashFails
           \/ HashReadsAll \/ HashPosts \/ JobWorks \/ ConsumerDies
           \/ Exit
  <2>1. UNCHANGED <<page, status, role, completed, job, jobRole>>
    BY <1>1 DEF ToggleVerify, ClickWrite, RejectDialog, CloseWindow, SayNo,
      ClickQuit, HashCancelled, HashFails, HashReadsAll, HashPosts,
      JobWorks, ConsumerDies, Exit, Card!Touch, Card!Complete, Card!Succeed,
      Card!GiveUp
  <2> QED
    BY <2>1 DEF IInv, RoleIsOpen
<1>2. CASE EnterRolePage
  BY <1>2 DEF IInv, RoleIsOpen, OpsOnly, InFlightIsBusy, CompletedBoots,
    Busy, Passed, Roles, TypeOK, PageTypes, EnterRolePage, Clickable
<1>3. CASE BackToSetup
  BY <1>3 DEF IInv, RoleIsOpen, OpsOnly, InFlightIsBusy, CompletedBoots,
    Busy, Passed, Roles, TypeOK, PageTypes, BackToSetup, Clickable
<1>4. CASE AssignRole
  BY <1>4 DEF IInv, RoleIsOpen, OpsOnly, InFlightIsBusy, CompletedBoots,
    Busy, Passed, Roles, TypeOK, PageTypes, AssignRole, ImposedRole
<1>5. CASE AcceptDialog
  BY <1>5 DEF IInv, RoleIsOpen, OpsOnly, InFlightIsBusy, CompletedBoots,
    Busy, Passed, Roles, TypeOK, PageTypes, AcceptDialog, BuildFails,
    BeginVerify, SkipVerify, StartWithJob, Clear
<1>6. CASE ClickRetry
  BY <1>6 DEF IInv, RoleIsOpen, OpsOnly, InFlightIsBusy, CompletedBoots,
    Busy, Passed, Roles, TypeOK, PageTypes, ClickRetry, Clickable, Reset,
    Clear, QuitWhenIdle
<1>7. CASE ClickBack
  BY <1>7 DEF IInv, RoleIsOpen, OpsOnly, InFlightIsBusy, CompletedBoots,
    Busy, Passed, Roles, TypeOK, PageTypes, ClickBack, Clickable
<1>8. CASE ClickNext
  BY <1>8 DEF IInv, RoleIsOpen, OpsOnly, InFlightIsBusy, CompletedBoots,
    Busy, Passed, Roles, TypeOK, PageTypes, ClickNext, Clickable
<1>9. CASE ClickCancel
  BY <1>9 DEF IInv, RoleIsOpen, OpsOnly, InFlightIsBusy, CompletedBoots,
    Busy, Passed, Roles, TypeOK, PageTypes, ClickCancel, Clickable,
    CancelCall
<1>10. CASE ClickContinue
  BY <1>10 DEF IInv, RoleIsOpen, OpsOnly, InFlightIsBusy, CompletedBoots,
    Busy, Passed, Roles, TypeOK, PageTypes, ClickContinue, Clickable, Reset,
    Clear, QuitWhenIdle
<1>11. CASE ClickFinish
  BY <1>11 DEF IInv, RoleIsOpen, OpsOnly, InFlightIsBusy, CompletedBoots,
    Busy, Passed, Roles, TypeOK, PageTypes, ClickFinish, Clickable
<1>12. CASE FlashAnother
  BY <1>12 DEF IInv, RoleIsOpen, OpsOnly, InFlightIsBusy, CompletedBoots,
    Busy, Passed, Roles, TypeOK, PageTypes, FlashAnother, Clickable
<1>13. CASE SayYes
  BY <1>13 DEF IInv, RoleIsOpen, OpsOnly, InFlightIsBusy, CompletedBoots,
    Busy, Passed, Roles, TypeOK, PageTypes, SayYes, CancelCall
<1>14. CASE JobPosts
  BY <1>14 DEF IInv, RoleIsOpen, OpsOnly, InFlightIsBusy, CompletedBoots,
    Busy, Passed, Roles, TypeOK, PageTypes, JobPosts
<1>15. CASE OnHashRefused
  BY <1>15 DEF IInv, RoleIsOpen, OpsOnly, InFlightIsBusy, CompletedBoots,
    Busy, Passed, Roles, TypeOK, PageTypes, OnHashRefused, HashedRole,
    QuitWhenIdle
<1>16. CASE OnHashPassed
  BY <1>16 DEF IInv, RoleIsOpen, OpsOnly, InFlightIsBusy, CompletedBoots,
    Busy, Passed, Roles, TypeOK, PageTypes, OnHashPassed, HashedRole,
    StartWithJob
<1>17. CASE OnFinished
  BY <1>17 DEF IInv, RoleIsOpen, OpsOnly, InFlightIsBusy, CompletedBoots,
    Busy, Passed, Roles, TypeOK, PageTypes, OnFinished, Completed,
    QuitWhenIdle
<1> QED
  BY <1>1, <1>2, <1>3, <1>4, <1>5, <1>6, <1>7, <1>8, <1>9, <1>10, <1>11,
    <1>12, <1>13, <1>14, <1>15, <1>16, <1>17
  DEF Next, Pages, Windowing, HashWorker, FlashWorker, Slots

LEMMA StepJobAnswers == ASSUME IInv, Next PROVE JobAnswers'
<1> USE DEF wizard, model, hashing, flasher, window
<1>1. CASE \/ EnterRolePage \/ BackToSetup \/ AssignRole \/ ToggleVerify
           \/ ClickWrite \/ RejectDialog \/ ClickBack \/ ClickNext
           \/ ClickFinish \/ CloseWindow \/ SayNo \/ ClickQuit
           \/ HashCancelled \/ HashFails \/ HashReadsAll \/ HashPosts
           \/ OnHashRefused \/ Exit
  <2>1. UNCHANGED <<job, cancel, userCancelled, outcome, card, made, jobRole>>
    BY <1>1 DEF EnterRolePage, BackToSetup, AssignRole, ToggleVerify,
      ClickWrite, RejectDialog, ClickBack, ClickNext, ClickFinish,
      CloseWindow, SayNo, ClickQuit, HashCancelled, HashFails, HashReadsAll,
      HashPosts, OnHashRefused, Exit
  <2> QED
    BY <2>1 DEF IInv, JobAnswers
<1>2. CASE AcceptDialog
  BY <1>2 DEF IInv, JobAnswers, InFlightIsBusy, RoleIsOpen, OpsOnly, Busy,
    Passed, AcceptDialog, BuildFails, BeginVerify, SkipVerify, StartWithJob,
    Clear
<1>3. CASE ClickRetry
  BY <1>3 DEF IInv, JobAnswers, InFlightIsBusy, RoleIsOpen, OpsOnly, Busy,
    Passed, ClickRetry, Clickable, Reset, Clear, QuitWhenIdle
<1>4. CASE ClickCancel
  BY <1>4 DEF IInv, JobAnswers, InFlightIsBusy, RoleIsOpen, OpsOnly, Busy,
    Passed, ClickCancel, Clickable, CancelCall
<1>5. CASE ClickContinue
  BY <1>5 DEF IInv, JobAnswers, InFlightIsBusy, RoleIsOpen, OpsOnly, Busy,
    Passed, ClickContinue, Clickable, Reset, Clear, QuitWhenIdle
<1>6. CASE FlashAnother
  BY <1>6 DEF IInv, JobAnswers, InFlightIsBusy, RoleIsOpen, OpsOnly, Busy,
    Passed, FlashAnother, Clickable
<1>7. CASE SayYes
  BY <1>7 DEF IInv, JobAnswers, InFlightIsBusy, RoleIsOpen, OpsOnly, Busy,
    Passed, SayYes, CancelCall
<1>8. CASE JobWorks
  BY <1>8 DEF IInv, JobAnswers, InFlightIsBusy, RoleIsOpen, OpsOnly, Busy,
    Passed, JobWorks, Card!Touch, Card!Complete, Card!Succeed, Card!GiveUp
<1>9. CASE ConsumerDies
  BY <1>9 DEF IInv, JobAnswers, InFlightIsBusy, RoleIsOpen, OpsOnly, Busy,
    Passed, ConsumerDies
<1>10. CASE JobPosts
  BY <1>10 DEF IInv, JobAnswers, InFlightIsBusy, RoleIsOpen, OpsOnly, Busy,
    Passed, JobPosts
<1>11. CASE OnHashPassed
  BY <1>11 DEF IInv, JobAnswers, InFlightIsBusy, RoleIsOpen, OpsOnly, Busy,
    Passed, OnHashPassed, HashedRole, StartWithJob
<1>12. CASE OnFinished
  BY <1>12 DEF IInv, JobAnswers, InFlightIsBusy, RoleIsOpen, OpsOnly, Busy,
    Passed, OnFinished, Completed, QuitWhenIdle
<1> QED
  BY <1>1, <1>2, <1>3, <1>4, <1>5, <1>6, <1>7, <1>8, <1>9, <1>10, <1>11,
    <1>12
  DEF Next, Pages, Windowing, HashWorker, FlashWorker, Slots

LEMMA StepQuitsIdle == ASSUME IInv, Next PROVE QuitsIdle'
<1> USE LateYesAssumption
<1> USE DEF wizard, model, hashing, flasher, window
<1>1. CASE \/ EnterRolePage \/ BackToSetup \/ AssignRole \/ ToggleVerify
           \/ ClickWrite \/ RejectDialog \/ ClickBack \/ ClickNext
           \/ ClickFinish \/ FlashAnother \/ SayNo \/ HashCancelled
           \/ HashFails \/ HashReadsAll \/ HashPosts \/ JobWorks
           \/ ConsumerDies \/ JobPosts
  <2>1. UNCHANGED <<quitPending, status, quitting, exited>>
    BY <1>1 DEF EnterRolePage, BackToSetup, AssignRole, ToggleVerify,
      ClickWrite, RejectDialog, ClickBack, ClickNext, ClickFinish,
      FlashAnother, SayNo, HashCancelled, HashFails, HashReadsAll,
      HashPosts, JobWorks, ConsumerDies, JobPosts, Card!Touch,
      Card!Complete, Card!Succeed, Card!GiveUp
  <2> QED
    BY <2>1 DEF IInv, QuitsIdle
<1>2. CASE AcceptDialog
  BY <1>2 DEF IInv, QuitsIdle, InFlightIsBusy, OpsOnly, Busy, Passed,
    AcceptDialog, BuildFails, BeginVerify, SkipVerify, StartWithJob, Clear
<1>3. CASE ClickRetry
  BY <1>3 DEF IInv, QuitsIdle, InFlightIsBusy, OpsOnly, Busy, Passed,
    ClickRetry, Clickable, Reset, Clear, QuitWhenIdle
<1>4. CASE ClickCancel
  BY <1>4 DEF IInv, QuitsIdle, InFlightIsBusy, OpsOnly, Busy, Passed,
    ClickCancel, Clickable, CancelCall
<1>5. CASE ClickContinue
  BY <1>5 DEF IInv, QuitsIdle, InFlightIsBusy, OpsOnly, Busy, Passed,
    ClickContinue, Clickable, Reset, Clear, QuitWhenIdle
<1>6. CASE CloseWindow
  BY <1>6 DEF IInv, QuitsIdle, InFlightIsBusy, OpsOnly, Busy, Passed,
    CloseWindow
<1>7. CASE SayYes
  BY <1>7 DEF IInv, QuitsIdle, InFlightIsBusy, OpsOnly, Busy, Passed,
    SayYes, CancelCall
<1>8. CASE ClickQuit
  BY <1>8 DEF IInv, QuitsIdle, InFlightIsBusy, OpsOnly, Busy, Passed,
    ClickQuit, Clickable
<1>9. CASE OnHashRefused
  BY <1>9 DEF IInv, QuitsIdle, InFlightIsBusy, OpsOnly, Busy, Passed,
    OnHashRefused, HashedRole, QuitWhenIdle
<1>10. CASE OnHashPassed
  BY <1>10 DEF IInv, QuitsIdle, InFlightIsBusy, OpsOnly, Busy, Passed,
    OnHashPassed, HashedRole, StartWithJob
<1>11. CASE OnFinished
  BY <1>11 DEF IInv, QuitsIdle, InFlightIsBusy, OpsOnly, Busy, Passed,
    OnFinished, Completed, QuitWhenIdle
<1>12. CASE Exit
  BY <1>12 DEF IInv, QuitsIdle, InFlightIsBusy, OpsOnly, Busy, Passed, Exit
<1> QED
  BY <1>1, <1>2, <1>3, <1>4, <1>5, <1>6, <1>7, <1>8, <1>9, <1>10, <1>11,
    <1>12
  DEF Next, Pages, Windowing, HashWorker, FlashWorker, Slots

LEMMA StepCancelKept == ASSUME IInv, Next PROVE CancelKept'
<1> USE DEF wizard, model, hashing, flasher, window
<1>1. CASE \/ EnterRolePage \/ BackToSetup \/ AssignRole \/ ToggleVerify
           \/ ClickWrite \/ RejectDialog \/ ClickBack \/ ClickNext
           \/ ClickFinish \/ FlashAnother \/ CloseWindow \/ SayNo
           \/ ClickQuit \/ HashCancelled \/ HashFails \/ HashReadsAll
           \/ HashPosts \/ JobPosts \/ Exit
  <2>1. UNCHANGED <<status, userCancelled, cancel>>
    BY <1>1 DEF EnterRolePage, BackToSetup, AssignRole, ToggleVerify,
      ClickWrite, RejectDialog, ClickBack, ClickNext, ClickFinish,
      FlashAnother, CloseWindow, SayNo, ClickQuit, HashCancelled, HashFails,
      HashReadsAll, HashPosts, JobPosts, Exit
  <2> QED
    BY <2>1 DEF IInv, CancelKept
<1>2. CASE AcceptDialog
  BY <1>2 DEF IInv, CancelKept, InFlightIsBusy, OpsOnly, Busy, Passed,
    AcceptDialog, BuildFails, BeginVerify, SkipVerify, StartWithJob, Clear
<1>3. CASE ClickRetry
  BY <1>3 DEF IInv, CancelKept, InFlightIsBusy, OpsOnly, Busy, Passed,
    ClickRetry, Clickable, Reset, Clear, QuitWhenIdle
<1>4. CASE ClickCancel
  BY <1>4 DEF IInv, CancelKept, InFlightIsBusy, OpsOnly, Busy, Passed,
    ClickCancel, Clickable, CancelCall
<1>5. CASE ClickContinue
  BY <1>5 DEF IInv, CancelKept, InFlightIsBusy, OpsOnly, Busy, Passed,
    ClickContinue, Clickable, Reset, Clear, QuitWhenIdle
<1>6. CASE SayYes
  BY <1>6 DEF IInv, CancelKept, InFlightIsBusy, OpsOnly, Busy, Passed,
    SayYes, CancelCall
<1>7. CASE JobWorks
  <2>1. UNCHANGED <<status, userCancelled, cancel>>
    BY <1>7 DEF JobWorks, Card!Touch, Card!Complete, Card!Succeed, Card!GiveUp
  <2> QED
    BY <2>1 DEF IInv, CancelKept
<1>8. CASE ConsumerDies
  BY <1>8 DEF IInv, CancelKept, InFlightIsBusy, OpsOnly, Busy, Passed,
    ConsumerDies
<1>9. CASE OnHashRefused
  BY <1>9 DEF IInv, CancelKept, InFlightIsBusy, OpsOnly, Busy, Passed,
    OnHashRefused, HashedRole, QuitWhenIdle
<1>10. CASE OnHashPassed
  BY <1>10 DEF IInv, CancelKept, InFlightIsBusy, OpsOnly, Busy, Passed,
    OnHashPassed, HashedRole, StartWithJob
<1>11. CASE OnFinished
  BY <1>11 DEF IInv, CancelKept, InFlightIsBusy, OpsOnly, Busy, Passed,
    OnFinished, Completed, QuitWhenIdle
<1> QED
  BY <1>1, <1>2, <1>3, <1>4, <1>5, <1>6, <1>7, <1>8, <1>9, <1>10, <1>11
  DEF Next, Pages, Windowing, HashWorker, FlashWorker, Slots

LEMMA StepInv == IInv /\ [Next]_vars => IInv'
<1> SUFFICES ASSUME IInv, [Next]_vars PROVE IInv'
  OBVIOUS
<1>1. CASE Next
  BY <1>1, StepFlags, StepPageTypes, StepModelTypes, StepJobTypes,
    StepInFlightIsBusy, StepFlashedChecked, StepCompletedBoots,
    StepPendingHashed, StepOpsOnly, StepRoleIsOpen, StepJobAnswers,
    StepQuitsIdle, StepCancelKept
  DEF IInv, TypeOK
<1>2. CASE UNCHANGED vars
  <2> USE <1>2 DEF vars, wizard, model, hashing, flasher, window
  <2>1. Flags'
    BY DEF IInv, TypeOK, Flags
  <2>2. PageTypes'
    BY DEF IInv, TypeOK, PageTypes
  <2>3. ModelTypes'
    BY DEF IInv, TypeOK, ModelTypes
  <2>4. JobTypes'
    BY DEF IInv, TypeOK, JobTypes
  <2>5. InFlightIsBusy'
    BY DEF IInv, TypeOK, InFlightIsBusy
  <2>6. FlashedChecked'
    BY DEF IInv, TypeOK, FlashedChecked
  <2>7. CompletedBoots'
    BY DEF IInv, TypeOK, CompletedBoots
  <2>8. PendingHashed'
    BY DEF IInv, TypeOK, PendingHashed
  <2>9. OpsOnly'
    BY DEF IInv, TypeOK, OpsOnly
  <2>10. RoleIsOpen'
    BY DEF IInv, TypeOK, RoleIsOpen
  <2>11. JobAnswers'
    BY DEF IInv, TypeOK, JobAnswers
  <2>12. QuitsIdle'
    BY DEF IInv, TypeOK, QuitsIdle
  <2>13. CancelKept'
    BY DEF IInv, TypeOK, CancelKept
  <2> QED
    BY <2>1, <2>2, <2>3, <2>4, <2>5, <2>6, <2>7, <2>8, <2>9, <2>10, <2>11,
      <2>12, <2>13 DEF IInv, TypeOK
<1> QED
  BY <1>1, <1>2

LEMMA Invariance == Spec => []IInv
<1>1. Init => IInv
  BY InitInv
<1>2. IInv /\ [Next]_vars => IInv'
  BY StepInv
<1> QED
  BY <1>1, <1>2, PTL DEF Spec

-----------------------------------------------------------------------------
\* Every variable keeps its type.
THEOREM TypeCorrect == Spec => []TypeOK
<1>1. IInv => TypeOK
  BY DEF IInv
<1> QED
  BY <1>1, Invariance, PTL

\* While a hash or a flash is in flight, or its result is queued, the status of
\* the view model says so.
THEOREM InFlightIsBusyHolds == Spec => []InFlightIsBusy
<1>1. IInv => InFlightIsBusy
  BY DEF IInv
<1> QED
  BY <1>1, Invariance, PTL

\* With verification on, only an image whose hash was computed for this flash and
\* not contradicted is flashed.
THEOREM FlashedCheckedHolds == Spec => []FlashedChecked
<1>1. IInv => FlashedChecked
  BY DEF IInv
<1> QED
  BY <1>1, Invariance, PTL

\* The completed roles have cards that boot, master first, and the COMPLETE page
\* means both.
THEOREM CompletedBootsHolds == Spec => []CompletedBoots
<1>1. IInv => CompletedBoots
  BY DEF IInv
<1> QED
  BY <1>1, Invariance, PTL

\* If the quit dialog is answered while it is about something, the process does
\* not exit under a flash.
THEOREM QuitWaitsHolds == ~LateYes /\ Spec => []QuitWaits
<1>1. ASSUME ~LateYes, IInv PROVE QuitWaits
  BY <1>1 DEF IInv, QuitsIdle, InFlightIsBusy, QuitWaits, Busy
<1>2. CASE LateYes
  BY <1>2
<1>3. CASE ~LateYes
  <2>1. IInv => QuitWaits
    BY <1>1, <1>3
  <2> QED
    BY <2>1, Invariance, PTL
<1> QED
  BY <1>2, <1>3

\* A cancel that reached a flash is not taken back before it has ended.
THEOREM CancelSticksHolds == Spec => CancelSticks
<1>1. ASSUME IInv, Next, status = "cancelling", job # "none"
      PROVE  cancel' /\ status' \in {"cancelling", "cancelled"}
  <2> USE <1>1 DEF wizard, model, hashing, flasher, window
  <2>1. cancel /\ userCancelled /\ hash = "none" /\ page = "ops" /\ ~dialog
    BY DEF IInv, CancelKept, InFlightIsBusy, OpsOnly, Busy, TypeOK, ModelTypes
  <2>2. CASE Pages
    BY <2>1, <2>2
    DEF Pages, Clickable, EnterRolePage, BackToSetup, AssignRole, ToggleVerify,
        ClickWrite, RejectDialog, AcceptDialog, ClickRetry, ClickBack, ClickNext,
        ClickCancel, ClickContinue, ClickFinish, FlashAnother
  <2>3. CASE Windowing \/ Exit
    BY <2>1, <2>3
    DEF Windowing, CloseWindow, SayNo, SayYes, CancelCall, ClickQuit, Clickable, Exit
  <2>4. CASE HashWorker
    BY <2>1, <2>4 DEF HashWorker, HashCancelled, HashFails, HashReadsAll, HashPosts
  <2>5. CASE FlashWorker
    <3>1. CASE JobWorks
      BY <2>1, <3>1
      DEF JobWorks, Card!Touch, Card!Complete, Card!Succeed, Card!GiveUp
    <3>2. CASE ConsumerDies
      BY <3>2 DEF ConsumerDies
    <3>3. CASE JobPosts
      BY <2>1, <3>3 DEF JobPosts
    <3> QED
      BY <2>5, <3>1, <3>2, <3>3 DEF FlashWorker
  <2>6. CASE Slots
    BY <2>1, <2>6 DEF Slots, OnHashRefused, OnHashPassed, Passed, OnFinished
  <2> QED
    BY <2>2, <2>3, <2>4, <2>5, <2>6 DEF Next
<1>2. IInv /\ [Next]_vars =>
        [status = "cancelling" /\ job # "none" =>
           cancel' /\ status' \in {"cancelling", "cancelled"}]_vars
  BY <1>1
<1> QED
  BY <1>2, Invariance, PTL DEF Spec, CancelSticks
=============================================================================
