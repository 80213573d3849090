----------------------------- MODULE CardArming -----------------------------
(***************************************************************************)
(* Which drive is written: ui/drive_list_model.py, the selection of step 4 *)
(* (ui/qml/Step4Role.qml), the drive ids of ui/wizard_state.py and the     *)
(* target of _build_flash_job (ui/flash_view_model.py).                    *)
(*                                                                         *)
(* A drive is known by the number Windows gives it when it arrives.  The   *)
(* operator plugs drives in and out at any time, the list catches up when  *)
(* its timer fires, and the flash opens whatever has the number by then.   *)
(***************************************************************************)
EXTENDS Integers, FiniteSets

CONSTANTS Cards,    \* drives that say they are removable
          Disks,    \* drives that say they are fixed: is_suspect_fixed
          Source,   \* the drive the images are on
          Resolves, \* Windows tells which drive that is
          Numbers,  \* numbers Windows gives to USB drives
          Size,     \* per drive, its size
          None      \* no drive

Drives == Cards \cup Disks
Roles  == {"master", "slave"}
NoId   == -1

ASSUME DriveAssumption ==
  /\ Cards \cap Disks = {} /\ Resolves \in BOOLEAN /\ None \notin Drives
  /\ Numbers \subseteq Nat /\ Size \in [Drives -> Nat]

VARIABLES
  at,         \* per drive, its number, NoId while it is not plugged in
  rows,       \* DriveListModel._drives, as drives with the numbers they had
  head,       \* the first row
  page,       \* "other", "role" (step 4), "ops" (step 5), "next" (step 6)
  dialog,     \* the ERASE dialog of the page is open
  role,       \* wizardState.currentRole
  id,         \* wizardState.masterDriveId and slaveDriveId
  completed,  \* wizardState.completedRoles
  status,     \* "idle", "busy", "done", "error", "cancelled"
  target,     \* the number the flash in progress was built for
  written,    \* the drive it has opened
  aim,        \* history: per role, the drive of the row the id came from
  built,      \* history: the drive that had the number when the job was built
  asked       \* history: fixed disks the operator insisted on in this cycle

wizard == <<role, id, completed, aim, asked>>
flash  == <<status, target, written, built>>
vars   == <<at, rows, head, page, dialog, wizard, flash>>

NoRow == [drive |-> None, id |-> NoId]

Init ==
  /\ at = [d \in Drives |-> NoId] /\ rows = {} /\ head = NoRow
  /\ page = "other" /\ dialog = FALSE
  /\ role = "" /\ completed = {} /\ asked = {}
  /\ id = [r \in Roles |-> NoId] /\ aim = [r \in Roles |-> None]
  /\ status = "idle" /\ target = NoId /\ written = None /\ built = None

-----------------------------------------------------------------------------
(* The selection.                                                          *)

\* The sequence of the cards is imposed: master first, then slave.
ImposedRole == IF "master" \notin completed THEN "master" ELSE "slave"

SelectedId == IF role \in Roles THEN id[role] ELSE NoId

CardArmed == Cardinality(rows) = 1 /\ SelectedId # NoId /\ SelectedId = head.id

\* What _assignRole and its callers read and write.
Choice == [role |-> role, id |-> id, aim |-> aim]

\* _assignRole, for the row it sees first.
Assign(c, row) ==
  [role |-> ImposedRole,
   id   |-> IF row = NoRow THEN c.id  ELSE [c.id  EXCEPT ![ImposedRole] = row.id],
   aim  |-> IF row = NoRow THEN c.aim ELSE [c.aim EXCEPT ![ImposedRole] = row.drive]]

\* Deviation: a fixed disk is as good as a card.
AutoSelectAny(c, count, row) ==
  IF count # 1 \/ (c.role = ImposedRole /\ c.id[ImposedRole] = row.id)
    THEN c ELSE Assign(c, row)

\* _autoSelectImposed, for a count of drives and the row it sees first.
AutoSelect(c, count, row) ==
  IF count # 1 \/ row.drive \in Disks \/ (c.role = ImposedRole /\ c.id[ImposedRole] = row.id)
    THEN c ELSE Assign(c, row)

Choose(c) == role' = c.role /\ id' = c.id /\ aim' = c.aim

\* Step 4 appears: Component.onCompleted.
ShowRolePage(c) ==
  page' = "role" /\ Choose(AutoSelect(c, Cardinality(rows), head))

-----------------------------------------------------------------------------
(* Windows, the operator's hands, and the poll.                            *)

Plugged == {d \in Drives : at[d] # NoId}

Plug(d) ==
  /\ at[d] = NoId
  /\ \E n \in Numbers \ {at[e] : e \in Drives} : at' = [at EXCEPT ![d] = n]
  /\ UNCHANGED <<rows, head, page, dialog, wizard, flash>>

\* A flash that loses its drive has nothing left to open.
Unplug(d) ==
  /\ at[d] # NoId
  /\ at' = [at EXCEPT ![d] = NoId]
  /\ IF written = d
       THEN written' = None /\ target' = NoId /\ UNCHANGED <<status, built>>
       ELSE UNCHANGED flash
  /\ UNCHANGED <<rows, head, page, dialog, wizard>>

Row(d)    == [drive |-> d, id |-> at[d]]
Key(row)  == <<row.id, IF row = NoRow THEN 0 ELSE Size[row.drive]>>
Keys(set) == {Key(row) : row \in set}

\* Deviation: the drive's number is not listened to, only how many there are.
HandlersOfCount(new, first) ==
  IF Cardinality(new) = Cardinality(rows) THEN Choice
  ELSE AutoSelect(Choice, Cardinality(new), head)

\* The handlers of a changed list: countChanged comes first and finds the first
\* drive of the old list, firstDriveChanged the new one.
Handlers(new, first) ==
  LET counted == IF Cardinality(new) = Cardinality(rows) THEN Choice
                 ELSE AutoSelect(Choice, Cardinality(new), head)
  IN  IF first.id = head.id THEN counted
      ELSE AutoSelect(counted, Cardinality(new), first)

\* refresh(), in the order in which Windows lists the drives; rows that agree in
\* number and size are taken for the same.  Not polled while a flash is on.
Refresh ==
  /\ status # "busy"
  /\ LET new == {Row(d) : d \in Plugged} IN
     \E first \in IF new = {} THEN {NoRow} ELSE new :
       /\ Keys(new) # Keys(rows) \/ Key(first) # Key(head)
       /\ rows' = new /\ head' = first
       /\ IF page = "role" THEN Choose(Handlers(new, first)) ELSE UNCHANGED <<role, id, aim>>
  /\ UNCHANGED <<at, page, dialog, completed, asked, flash>>

-----------------------------------------------------------------------------
(* The operator on the pages.                                              *)

EnterRolePage ==
  /\ page = "other"
  /\ ShowRolePage(Choice)
  /\ UNCHANGED <<at, rows, head, dialog, completed, asked, flash>>

BackToSetup ==
  /\ page = "role" /\ ~dialog
  /\ page' = "other"
  /\ UNCHANGED <<at, rows, head, dialog, wizard, flash>>

\* USE THIS FIXED DISK ANYWAY.
Override ==
  /\ page = "role" /\ ~dialog
  /\ Cardinality(rows) = 1 /\ head.drive \in Disks /\ SelectedId # head.id
  /\ Choose(Assign(Choice, head))
  /\ asked' = asked \cup {head.drive}
  /\ UNCHANGED <<at, rows, head, page, dialog, completed, flash>>

ClickWrite ==
  /\ page = "role" /\ ~dialog /\ CardArmed
  /\ dialog' = TRUE
  /\ UNCHANGED <<at, rows, head, page, wizard, flash>>

ClickRetry ==
  /\ page = "ops" /\ ~dialog /\ status = "error"
  /\ dialog' = TRUE /\ status' = "idle"
  /\ UNCHANGED <<at, rows, head, page, wizard, target, written, built>>

RejectDialog ==
  /\ dialog
  /\ dialog' = FALSE
  /\ UNCHANGED <<at, rows, head, page, wizard, flash>>

\* BACK on step 5.
ClickBack ==
  /\ page = "ops" /\ ~dialog /\ status \notin {"busy", "done"}
  /\ ShowRolePage(Choice)
  /\ UNCHANGED <<at, rows, head, dialog, completed, asked, flash>>

ClickNext ==
  /\ page = "ops" /\ status = "done"
  /\ page' = "next"
  /\ UNCHANGED <<at, rows, head, dialog, wizard, flash>>

\* Deviation: 0 for no drive.
NoChoiceZero ==
  [role |-> "", id |-> [r \in Roles |-> 0], aim |-> [r \in Roles |-> None]]

NoChoice ==
  [role |-> "", id |-> [r \in Roles |-> NoId], aim |-> [r \in Roles |-> None]]

\* CONTINUE: both resetForNextCycle, and step 4 again.
ClickContinue ==
  /\ page = "next" /\ completed # Roles
  /\ ShowRolePage(NoChoice)
  /\ status' = "idle" /\ asked' = {}
  /\ UNCHANGED <<at, rows, head, dialog, completed, target, written, built>>

\* FINISH and FLASH ANOTHER: endSession.
FlashAnother ==
  /\ page = "next" /\ completed = Roles
  /\ page' = "other" /\ completed' = {} /\ asked' = {}
  /\ Choose(NoChoice)
  /\ UNCHANGED <<at, rows, head, dialog, flash>>

-----------------------------------------------------------------------------
(* The flash.                                                              *)

\* _build_flash_job looks the number up among the drives there are now, and
\* stops at the disk the image is on, if it can tell.
Target(d) == at[d] = SelectedId /\ ~(Resolves /\ d = Source)

\* ERASE & WRITE.
AcceptDialog ==
  /\ dialog /\ dialog' = FALSE /\ page' = "ops"
  /\ IF \E d \in Plugged : Target(d)
       THEN \E d \in Plugged : Target(d) /\ built' = d /\ status' = "busy" /\ target' = at[d]
       ELSE status' = "error" /\ UNCHANGED <<target, built>>
  /\ UNCHANGED <<at, rows, head, wizard, written>>

\* After the image was hashed the flash opens \\.\PHYSICALDRIVEn.
OpenTarget ==
  /\ status = "busy" /\ written = None
  /\ \E d \in Plugged : at[d] = target /\ written' = d
  /\ UNCHANGED <<at, rows, head, page, dialog, wizard, status, target, built>>

\* A refused hash, a failed or cancelled flash, a drive that has gone.
FlashFails ==
  /\ status = "busy"
  /\ status' \in {"error", "cancelled"}
  /\ target' = NoId /\ written' = None /\ built' = None
  /\ UNCHANGED <<at, rows, head, page, dialog, wizard>>

\* The card is ejected, if the reader can.
FlashDone ==
  /\ status = "busy" /\ written # None
  /\ status' = "done" /\ completed' = completed \cup {role}
  /\ target' = NoId /\ written' = None /\ built' = None
  /\ at' \in {at, [at EXCEPT ![written] = NoId]}
  /\ UNCHANGED <<rows, head, page, dialog, role, id, aim, asked>>

-----------------------------------------------------------------------------
Next ==
  \/ \E d \in Drives : Plug(d) \/ Unplug(d)
  \/ Refresh
  \/ EnterRolePage \/ BackToSetup \/ Override
  \/ ClickWrite \/ RejectDialog \/ AcceptDialog
  \/ ClickRetry \/ ClickBack \/ ClickNext \/ ClickContinue \/ FlashAnother
  \/ OpenTarget \/ FlashFails \/ FlashDone

Spec == Init /\ [][Next]_vars

\* The timer of the poll fires.
FairSpec == Spec /\ WF_vars(Refresh)

-----------------------------------------------------------------------------
ListTypes ==
  /\ at \in [Drives -> Numbers \cup {NoId}]
  /\ rows \subseteq [drive : Drives, id : Numbers]
  /\ IF rows = {} THEN head = NoRow ELSE head \in rows

PageTypes ==
  /\ page \in {"other", "role", "ops", "next"} /\ dialog \in BOOLEAN
  /\ role \in Roles \cup {""} /\ completed \subseteq Roles
  /\ id \in [Roles -> Numbers \cup {NoId}]
  /\ status \in {"idle", "busy", "done", "error", "cancelled"}
  /\ target \in Numbers \cup {NoId} /\ written \in Drives \cup {None}

HistoryTypes ==
  /\ aim \in [Roles -> Drives \cup {None}] /\ built \in Drives \cup {None}
  /\ asked \subseteq Disks

\* Every variable has its type.
TypeOK == ListTypes /\ PageTypes /\ HistoryTypes

\* What is written was meant, unless Windows has given its number to another
\* drive on the way: it is not the disk the image is on, if that can be told, and
\* a fixed disk was insisted on in this cycle, whatever was plugged meanwhile.
WrittenWasMeant ==
  written # None /\ written = aim[role] /\ written = built =>
    /\ Resolves => written # Source
    /\ written \in Disks => written \in asked

\* A card put into an empty reader while step 4 waits for it gets armed.
Only(d) == Plugged = {d}
CardGetsArmed ==
  \A d \in Cards :
    (page = "role" /\ rows = {} /\ Only(d)) ~> (CardArmed \/ ~Only(d) \/ page # "role")

=============================================================================
