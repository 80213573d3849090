---------------------------- MODULE FlashSession ----------------------------
(***************************************************************************)
(* ui/flash_view_model.py and what of the wizard decides when it is called *)
(* (ui/wizard_state.py, the pages of ui/qml): one deployment after the     *)
(* other, each a master and a slave card.                                  *)
(*                                                                         *)
(* Three threads meet here.  The GUI thread runs one slot or QML handler   *)
(* at a time, each an action; the hash worker and the flash worker run     *)
(* beside it and post one "finished" signal each, which the GUI thread     *)
(* handles later.  The flash worker's card is CardJob.                     *)
(***************************************************************************)
EXTENDS Integers

CONSTANTS LateYes,      \* the operator may answer the quit dialog when the
                        \* flash it asks about is over
          MaxSessions   \* bound on deployments, one per FLASH ANOTHER

ASSUME LateYesAssumption     == LateYes \in BOOLEAN
ASSUME MaxSessionsAssumption == MaxSessions \in Nat

Roles  == {"master", "slave"}

\* Deviation: a cancelled flash is not waited for.
BusyUntilCancel == {"verifying", "flashing"}

\* main.qml, flashBusy.
Busy == {"verifying", "flashing", "cancelling"}

Passed == {"match", "nosidecar"}

VARIABLES
  page,       \* "setup" (steps 1 to 3), "role", "ops", "next", "complete"
  dialog,     \* the ERASE dialog of the page is open
  verifyOn,   \* wizardState.verifyIntegrity
  role,       \* wizardState.currentRole
  completed,  \* wizardState.completedRoles
  sessions,   \* deployments ended so far
  status,     \* flashViewModel.status
  userCancelled,
  pending,    \* _pending_verify_job is not None
  digest,     \* per role, the hash shown and whether it matched the sidecar
  hash,       \* "none", "reading", "read", or the result posted
  job,        \* the flash worker: "none", "running", "posted"
  jobRole,    \* the role the job was built for
  cancel, card, outcome,   \* the job's card, see CardJob
  made,       \* history: roles whose last card of this deployment boots
  asking,     \* the quit dialog is open
  quitPending,
  quitting,   \* Qt.quit was called
  exited

wizard  == <<page, dialog, verifyOn, role, completed, sessions>>
model   == <<status, userCancelled, pending, digest>>
hashing == <<hash>>
flasher == <<job, jobRole, card, outcome, made>>
window  == <<asking, quitPending, quitting, exited>>
vars    == <<wizard, model, hashing, flasher, cancel, window>>

Card == INSTANCE CardJob

NoDigests == [r \in Roles |-> "none"]

Init ==
  /\ page = "setup" /\ dialog = FALSE /\ verifyOn = TRUE
  /\ role = "" /\ completed = {} /\ sessions = 0
  /\ status = "idle" /\ userCancelled = FALSE /\ pending = FALSE
  /\ digest = NoDigests /\ hash = "none"
  /\ job = "none" /\ jobRole = "" /\ Card!Init /\ made = {}
  /\ asking = FALSE /\ quitPending = FALSE /\ quitting = FALSE /\ exited = FALSE

-----------------------------------------------------------------------------
(* Helpers.                                                                *)

\* main.qml: a change to a status that is not busy quits, when a quit is pending.
QuitWhenIdle == quitting' = (quitting \/ (quitPending /\ status' \notin Busy))

\* Step4Role.qml: master first, then slave.
ImposedRole ==
  IF "master" \notin completed THEN "master"
  ELSE IF "slave" \notin completed THEN "slave" ELSE ""

\* The operator can click on the page: no modal dialog and no cancel overlay.
Clickable == ~exited /\ ~quitting /\ ~dialog /\ ~asking /\ status # "cancelling"

\* Deviation: a flash that was cancelled is not started.
StartWithJobUnlessBusy ==
  IF status \in {"flashing", "cancelling"}
    THEN UNCHANGED <<status, userCancelled, cancel, flasher>>
    ELSE /\ status' = "flashing"
         /\ cancel' = FALSE /\ userCancelled' = FALSE
         /\ job' = "running" /\ jobRole' = role
         /\ card' = "original" /\ outcome' = "none" /\ made' = made \ {role}

\* startWithJob.  The card is a new one.
StartWithJob ==
  IF status = "flashing"
    THEN UNCHANGED <<status, userCancelled, cancel, flasher>>
    ELSE /\ status' = "flashing"
         /\ cancel' = FALSE /\ userCancelled' = FALSE
         /\ job' = "running" /\ jobRole' = role
         /\ card' = "original" /\ outcome' = "none" /\ made' = made \ {role}

\* resetForNextCycle but for the status.
Clear ==
  /\ userCancelled' = FALSE /\ cancel' = FALSE
  /\ pending' = FALSE /\ digest' = NoDigests

-----------------------------------------------------------------------------
(* The operator: wizard pages.                                             *)

\* NEXT on step 3, and BACK to it from step 4.
EnterRolePage ==
  /\ Clickable /\ page = "setup"
  /\ page' = "role"
  /\ UNCHANGED <<dialog, verifyOn, role, completed, sessions, model, hashing,
                 flasher, cancel, window>>

BackToSetup ==
  /\ Clickable /\ page = "role"
  /\ page' = "setup"
  /\ UNCHANGED <<dialog, verifyOn, role, completed, sessions, model, hashing,
                 flasher, cancel, window>>

\* A card is there: the imposed role is selected, dialog or not.
AssignRole ==
  /\ ~exited /\ page = "role"
  /\ ImposedRole # "" /\ role # ImposedRole
  /\ role' = ImposedRole
  /\ UNCHANGED <<page, dialog, verifyOn, completed, sessions, model, hashing,
                 flasher, cancel, window>>

ToggleVerify ==
  /\ Clickable /\ page = "role"
  /\ verifyOn' = ~verifyOn
  /\ UNCHANGED <<page, dialog, role, completed, sessions, model, hashing,
                 flasher, cancel, window>>

\* WRITE needs an armed card, hence a role.
ClickWrite ==
  /\ Clickable /\ page = "role" /\ role # ""
  /\ dialog' = TRUE
  /\ UNCHANGED <<page, verifyOn, role, completed, sessions, model, hashing,
                 flasher, cancel, window>>

RejectDialog ==
  /\ ~exited /\ ~quitting /\ ~asking /\ dialog
  /\ dialog' = FALSE
  /\ UNCHANGED <<page, verifyOn, role, completed, sessions, model, hashing,
                 flasher, cancel, window>>

Reset == status' = "idle" /\ QuitWhenIdle /\ Clear

ClickRetry ==
  /\ Clickable /\ page = "ops" /\ status = "error"
  /\ Reset
  /\ dialog' = TRUE
  /\ UNCHANGED <<page, verifyOn, role, completed, sessions, hashing, flasher,
                 asking, quitPending, exited>>

\* BACK on step 5 is there unless a flash is on or done.
ClickBack ==
  /\ Clickable /\ page = "ops" /\ status \notin {"verifying", "flashing", "done"}
  /\ page' = "role"
  /\ UNCHANGED <<dialog, verifyOn, role, completed, sessions, model, hashing,
                 flasher, cancel, window>>

ClickNext ==
  /\ Clickable /\ page = "ops" /\ status = "done"
  /\ page' = "next"
  /\ UNCHANGED <<dialog, verifyOn, role, completed, sessions, model, hashing,
                 flasher, cancel, window>>

\* CONTINUE on step 6: both resets, then step 4.
ClickContinue ==
  /\ Clickable /\ page = "next" /\ completed # Roles
  /\ Reset
  /\ role' = "" /\ page' = "role"
  /\ UNCHANGED <<dialog, verifyOn, completed, sessions, hashing, flasher,
                 asking, quitPending, exited>>

ClickFinish ==
  /\ Clickable /\ page = "next" /\ completed = Roles
  /\ page' = "complete"
  /\ UNCHANGED <<dialog, verifyOn, role, completed, sessions, model, hashing,
                 flasher, cancel, window>>

\* FLASH ANOTHER on step 7 ends the session; the view model is not reset.
FlashAnother ==
  /\ Clickable /\ page = "complete" /\ sessions < MaxSessions
  /\ sessions' = sessions + 1
  /\ completed' = {} /\ role' = "" /\ page' = "setup" /\ made' = {}
  /\ UNCHANGED <<dialog, verifyOn, model, hashing, job, jobRole, card, outcome,
                 cancel, window>>

-----------------------------------------------------------------------------
(* The operator: ERASE & WRITE and CANCEL.                                 *)

\* The job cannot be built: the drive is gone, a key cannot be saved.
BuildFails(resets) ==
  /\ status' = "error"
  /\ IF resets THEN Clear ELSE UNCHANGED <<userCancelled, pending, digest, cancel>>
  /\ UNCHANGED <<hashing, flasher>>

\* _begin_verify_phase and the first _spawn_next_hash_worker.
BeginVerify ==
  IF status \in {"verifying", "flashing"}
    THEN UNCHANGED <<model, hashing, flasher, cancel>>
    ELSE /\ status' = "verifying"
         /\ digest' = NoDigests /\ pending' = TRUE
         /\ cancel' = FALSE /\ userCancelled' = FALSE
         /\ hash' = "reading"
         /\ UNCHANGED flasher

SkipVerify(resets) ==
  /\ StartWithJob
  /\ IF resets THEN pending' = FALSE /\ digest' = NoDigests
               ELSE UNCHANGED <<pending, digest>>
  /\ UNCHANGED hashing

\* ERASE & WRITE: startFromWizard, after a reset if step 4 shows an error.  A
\* pending quit answers to the reset, but only behind this handler.
AcceptDialog ==
  LET resets == page = "role" /\ status = "error" IN
  /\ ~exited /\ ~quitting /\ ~asking /\ dialog
  /\ dialog' = FALSE /\ page' = "ops"
  /\ \/ BuildFails(resets)
     \/ verifyOn /\ BeginVerify
     \/ ~verifyOn /\ SkipVerify(resets)
  /\ quitting' = (quitPending /\ (resets \/ status' \notin Busy))
  /\ UNCHANGED <<verifyOn, role, completed, sessions, asking, quitPending, exited>>

\* Deviation: the job has an event of its own.
CancelCallUnheard ==
  IF status \in {"verifying", "flashing"}
    THEN userCancelled' = TRUE /\ status' = "cancelling" /\ UNCHANGED cancel
    ELSE UNCHANGED <<userCancelled, cancel, status>>

\* cancel(): only what is verifying or flashing can be cancelled.
CancelCall ==
  IF status \in {"verifying", "flashing"}
    THEN userCancelled' = TRUE /\ cancel' = TRUE /\ status' = "cancelling"
    ELSE UNCHANGED <<userCancelled, cancel, status>>

ClickCancel ==
  /\ Clickable /\ page = "ops" /\ status \in {"verifying", "flashing"}
  /\ CancelCall
  /\ UNCHANGED <<wizard, pending, digest, hashing, flasher, window>>

-----------------------------------------------------------------------------
(* The hash worker: it looks at the cancel event before every chunk.       *)

HashCancelled ==
  /\ ~exited /\ hash = "reading" /\ cancel
  /\ hash' = "CANCELLED"
  /\ UNCHANGED <<wizard, model, flasher, cancel, window>>

HashFails ==
  /\ ~exited /\ hash = "reading"
  /\ hash' = "ERR"
  /\ UNCHANGED <<wizard, model, flasher, cancel, window>>

\* The last look was too early for a cancel.
HashReadsAll ==
  /\ ~exited /\ hash = "reading" /\ ~cancel
  /\ hash' = "read"
  /\ UNCHANGED <<wizard, model, flasher, cancel, window>>

HashPosts ==
  /\ ~exited /\ hash = "read"
  /\ hash' \in Passed \cup {"mismatch"}
  /\ UNCHANGED <<wizard, model, flasher, cancel, window>>

HashWorker == HashCancelled \/ HashFails \/ HashReadsAll \/ HashPosts

-----------------------------------------------------------------------------
(* The GUI thread: _on_hash_finished.                                      *)

\* Deviation: the master's image is hashed for every card.
HashedRoleMaster == "master"

\* The role whose image was queued.
HashedRole == IF role = "" THEN "master" ELSE role

\* Deviation: what is posted is taken for a digest.
OnHashRefusedAsDigest ==
  /\ ~exited /\ hash \in {"CANCELLED", "ERR", "mismatch"}
  /\ hash' = "none"
  /\ status' = "error"
  /\ QuitWhenIdle
  /\ pending' = FALSE
  /\ digest' = [digest EXCEPT ![HashedRole] = hash]
  /\ UNCHANGED <<wizard, userCancelled, flasher, cancel, asking, quitPending, exited>>

\* Cancelled, failed or mismatched: no flash.
OnHashRefused ==
  /\ ~exited /\ hash \in {"CANCELLED", "ERR", "mismatch"}
  /\ hash' = "none"
  /\ status' = IF hash = "CANCELLED" THEN "cancelled" ELSE "error"
  /\ QuitWhenIdle
  /\ pending' = FALSE
  /\ digest' = IF hash = "mismatch" THEN [digest EXCEPT ![HashedRole] = hash] ELSE digest
  /\ UNCHANGED <<wizard, userCancelled, flasher, cancel, asking, quitPending, exited>>

\* The queue of roles is empty now: chain to the flash.
OnHashPassed ==
  /\ ~exited /\ hash \in Passed
  /\ hash' = "none"
  /\ digest' = [digest EXCEPT ![HashedRole] = hash]
  /\ pending' = FALSE
  /\ StartWithJob
  /\ UNCHANGED <<wizard, window>>

-----------------------------------------------------------------------------
(* The flash worker: FlashJob, then one signal.                            *)

JobWorks ==
  /\ ~exited /\ job = "running"
  /\ Card!Touch \/ Card!Complete \/ Card!Succeed \/ Card!GiveUp
  /\ made' = IF card' = "bootable" THEN made \cup {jobRole} ELSE made \ {jobRole}
  /\ UNCHANGED <<wizard, model, hashing, job, jobRole, window>>

\* The consumer of the copy dies, and sets the shared event to stop the producer.
ConsumerDies ==
  /\ ~exited /\ job = "running" /\ outcome = "none" /\ card = "raw"
  /\ cancel' = TRUE
  /\ outcome' = "failed" /\ card' \in {"raw", "recovered"}
  /\ UNCHANGED <<wizard, model, hashing, job, jobRole, made, window>>

JobPosts ==
  /\ ~exited /\ job = "running" /\ outcome # "none"
  /\ job' = "posted"
  /\ UNCHANGED <<wizard, model, hashing, jobRole, card, outcome, made, cancel, window>>

FlashWorker == JobWorks \/ ConsumerDies \/ JobPosts

\* markCurrentRoleCompleted.
Completed == IF role = "" THEN completed ELSE completed \cup {role}

\* Deviation: the job's answer is taken as it comes.
OnFinishedByResult ==
  /\ ~exited /\ job = "posted"
  /\ job' = "none"
  /\ IF outcome = "ok"
       THEN status' = "done" /\ completed' = Completed
       ELSE status' = "error" /\ UNCHANGED completed
  /\ QuitWhenIdle
  /\ UNCHANGED <<page, dialog, verifyOn, role, sessions, userCancelled, pending, digest,
                 hashing, jobRole, card, outcome, made, cancel, asking, quitPending, exited>>

\* A cancel of the operator's comes before the job's answer: the event will not
\* do, the copy's consumer sets it as well.
OnFinished ==
  /\ ~exited /\ job = "posted"
  /\ job' = "none"
  /\ IF userCancelled
       THEN status' = "cancelled" /\ UNCHANGED completed
       ELSE IF outcome = "ok"
              THEN status' = "done" /\ completed' = Completed
              ELSE status' = "error" /\ UNCHANGED completed
  /\ QuitWhenIdle
  /\ UNCHANGED <<page, dialog, verifyOn, role, sessions, userCancelled, pending, digest,
                 hashing, jobRole, card, outcome, made, cancel, asking, quitPending, exited>>

Slots == OnHashRefused \/ OnHashPassed \/ OnFinished

-----------------------------------------------------------------------------
(* The window.                                                             *)

\* onClosing: a close is refused while a flash is on, and asked about.
CloseWindow ==
  /\ ~exited /\ ~quitting
  /\ IF status \in Busy
       THEN asking' = TRUE /\ UNCHANGED quitting
       ELSE quitting' = TRUE /\ UNCHANGED asking
  /\ UNCHANGED <<wizard, model, hashing, flasher, cancel, quitPending, exited>>

SayNo ==
  /\ ~exited /\ ~quitting /\ asking
  /\ asking' = FALSE
  /\ UNCHANGED <<wizard, model, hashing, flasher, cancel, quitPending, quitting, exited>>

\* The dialog stays open when the flash ends under it.
SayYes ==
  /\ ~exited /\ ~quitting /\ asking
  /\ status \in Busy \/ LateYes
  /\ asking' = FALSE /\ quitPending' = TRUE
  /\ CancelCall
  /\ UNCHANGED <<wizard, pending, digest, hashing, flasher, quitting, exited>>

\* Qt.quit from step 7.
ClickQuit ==
  /\ Clickable /\ page = "complete"
  /\ quitting' = TRUE
  /\ UNCHANGED <<wizard, model, hashing, flasher, cancel, asking, quitPending, exited>>

Exit ==
  /\ quitting /\ ~exited
  /\ exited' = TRUE
  /\ UNCHANGED <<wizard, model, hashing, flasher, cancel, asking, quitPending, quitting>>

-----------------------------------------------------------------------------
Pages ==
  \/ EnterRolePage \/ BackToSetup \/ AssignRole \/ ToggleVerify
  \/ ClickWrite \/ RejectDialog \/ AcceptDialog
  \/ ClickRetry \/ ClickBack \/ ClickNext \/ ClickCancel
  \/ ClickContinue \/ ClickFinish \/ FlashAnother

Windowing == CloseWindow \/ SayNo \/ SayYes \/ ClickQuit

Next == Pages \/ Windowing \/ HashWorker \/ FlashWorker \/ Slots \/ Exit

Spec == Init /\ [][Next]_vars

\* The threads run and the event loop turns; the operator owes nothing.
FairSpec == Spec /\ WF_vars(HashWorker) /\ WF_vars(FlashWorker)
                 /\ WF_vars(Slots) /\ WF_vars(Exit)

-----------------------------------------------------------------------------
Flags ==
  /\ dialog \in BOOLEAN /\ verifyOn \in BOOLEAN
  /\ userCancelled \in BOOLEAN /\ pending \in BOOLEAN /\ cancel \in BOOLEAN
  /\ asking \in BOOLEAN /\ quitPending \in BOOLEAN
  /\ quitting \in BOOLEAN /\ exited \in BOOLEAN

PageTypes ==
  /\ page \in {"setup", "role", "ops", "next", "complete"}
  /\ role \in Roles \cup {""} /\ completed \subseteq Roles
  /\ sessions \in 0..MaxSessions

ModelTypes ==
  /\ status \in Busy \cup {"idle", "done", "error", "cancelled"}
  /\ digest \in [Roles -> Passed \cup {"none", "mismatch"}]
  /\ hash \in {"none", "reading", "read", "CANCELLED", "ERR", "mismatch"} \cup Passed

JobTypes ==
  /\ job \in {"none", "running", "posted"} /\ jobRole \in Roles \cup {""}
  /\ card \in {"original", "raw", "bootable", "recovered"}
  /\ outcome \in {"none", "ok", "failed"}
  /\ made \subseteq Roles

\* Every variable has its type.
TypeOK == Flags /\ PageTypes /\ ModelTypes /\ JobTypes

\* What runs is shown as running: while a hash or a flash is in flight, or its
\* result is still queued, the status is busy.  That one word is what keeps a
\* second flash from being started, the drive poll paused and the window open.
InFlightIsBusy ==
  /\ hash # "none" => status \in {"verifying", "cancelling"} /\ job = "none" /\ pending
  /\ job # "none" => status \in {"flashing", "cancelling"} /\ ~pending

\* With verification on, a card is only written from an image whose hash was
\* computed for this flash and did not contradict its sidecar.
FlashedChecked ==
  job # "none" /\ verifyOn => digest[jobRole] \in Passed

\* A role counts as completed only while its card boots, so that the COMPLETE
\* page stands for a whole pair: a cancelled job answers "ok" as well, and its
\* answer may arrive late.
CompletedBoots ==
  /\ completed \subseteq made
  /\ "slave" \in completed => "master" \in completed
  /\ page = "complete" => completed = Roles

\* The process never goes away under a flash.
QuitWaits == exited => job = "none"

\* A cancel that the flash was told of is not taken back before it has ended.
CancelSticks ==
  [][status = "cancelling" /\ job # "none" =>
       /\ cancel'
       /\ status' \in {"cancelling", "cancelled"}]_vars

\* A flash, with its checks, comes to an end that the operator is shown, or the
\* program has ended.
Settles == (status \in Busy) ~> (status \notin Busy \/ exited)

-----------------------------------------------------------------------------
(* What the code's comments say and the code does not do.                  *)

\* cancel(): "the worker finish handler transitions to cancelled"; an error is
\* granted.
CancelEnds ==
  [][status = "cancelling" => status' \in {"cancelling", "cancelled", "error"}]_vars
=============================================================================
