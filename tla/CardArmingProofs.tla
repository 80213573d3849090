-------------------------- MODULE CardArmingProofs --------------------------
(***************************************************************************)
(* CardArming for any drives, numbers and sizes: every variable keeps its  *)
(* type, and what is written was meant unless its number changed hands.    *)
(***************************************************************************)
EXTENDS CardArming, TLAPS

\* Values of Choice.
Choices ==
  [role : Roles \cup {""}, id : [Roles -> Numbers \cup {NoId}],
   aim : [Roles -> Drives \cup {None}]]

Rows == [drive : Drives, id : Numbers]

\* The disks that were selected are disks that were insisted on.
Insisted(c, disks) == \A r \in Roles : c.aim[r] \in Disks => c.aim[r] \in disks

\* Neither the page nor the selection changes under a flash.
Settled ==
  /\ status = "busy" => page = "ops" /\ ~dialog /\ role \in Roles
  /\ written # None => status = "busy"

IInv ==
  /\ TypeOK /\ Settled
  /\ Insisted(Choice, asked)
  /\ Resolves /\ built # None => built # Source

-----------------------------------------------------------------------------
(* The operators of the selection.                                         *)

LEMMA ImposedIsRole == ImposedRole \in Roles
BY DEF ImposedRole, Roles

\* What _assignRole selects, it selects for the imposed role.
LEMMA AssignSelects ==
  ASSUME NEW c \in Choices, NEW row \in Rows \cup {NoRow}
  PROVE  /\ Assign(c, row) \in Choices
         /\ \A r \in Roles : Assign(c, row).aim[r] \in {c.aim[r], row.drive}
<1>1. row # NoRow => row \in Rows
  OBVIOUS
<1> QED
  BY <1>1, ImposedIsRole DEF Assign, Choices, Rows

\* Automatic selection never selects a fixed disk.
LEMMA AutoSelectSpares ==
  ASSUME NEW c \in Choices, NEW row \in Rows \cup {NoRow}, NEW count,
         NEW disks, Insisted(c, disks)
  PROVE  AutoSelect(c, count, row) \in Choices /\ Insisted(AutoSelect(c, count, row), disks)
<1>1. CASE AutoSelect(c, count, row) = c
  BY <1>1
<1>2. CASE AutoSelect(c, count, row) = Assign(c, row) /\ row.drive \notin Disks
  BY <1>2, AssignSelects DEF Insisted
<1> QED
  BY <1>1, <1>2 DEF AutoSelect

LEMMA ChoiceIsOne == ASSUME TypeOK PROVE Choice \in Choices
BY DEF TypeOK, PageTypes, HistoryTypes, Choice, Choices

LEMMA NoChoiceIsOne ==
  /\ NoChoice \in Choices
  /\ \A disks : Insisted(NoChoice, disks)
BY DriveAssumption DEF NoChoice, Choices, Insisted, Drives

LEMMA HeadIsRow == ASSUME TypeOK PROVE head \in Rows \cup {NoRow}
BY DEF TypeOK, ListTypes, Rows

\* A choice that was made is what the variables hold afterwards.
LEMMA Chosen ==
  ASSUME NEW c \in Choices, Choose(c)
  PROVE  /\ role' \in Roles \cup {""} /\ id' \in [Roles -> Numbers \cup {NoId}]
         /\ aim' \in [Roles -> Drives \cup {None}]
         /\ \A disks : Insisted(c, disks) => Insisted(Choice, disks)'
BY DEF Choose, Choices, Insisted, Choice

\* The page that appears, and the list that changes, choose by AutoSelect only.
LEMMA RolePageChoice ==
  ASSUME TypeOK, NEW c \in Choices, NEW disks, Insisted(c, disks)
  PROVE  /\ AutoSelect(c, Cardinality(rows), head) \in Choices
         /\ Insisted(AutoSelect(c, Cardinality(rows), head), disks)
BY HeadIsRow, AutoSelectSpares

LEMMA HandlersChoice ==
  ASSUME TypeOK, NEW disks, Insisted(Choice, disks), NEW new,
         NEW first \in Rows \cup {NoRow}
  PROVE  Handlers(new, first) \in Choices /\ Insisted(Handlers(new, first), disks)
<1> DEFINE counted == IF Cardinality(new) = Cardinality(rows) THEN Choice
                      ELSE AutoSelect(Choice, Cardinality(new), head)
<1>1. counted \in Choices /\ Insisted(counted, disks)
  BY ChoiceIsOne, HeadIsRow, AutoSelectSpares
<1>2. Handlers(new, first) = IF first.id = head.id THEN counted
                             ELSE AutoSelect(counted, Cardinality(new), first)
  BY DEF Handlers
<1> HIDE DEF counted
<1> QED
  BY <1>1, <1>2, AutoSelectSpares

\* What Windows lists are rows.
LEMMA ListedIsRow ==
  ASSUME TypeOK PROVE \A d \in Plugged : Row(d) \in Rows
BY DEF TypeOK, ListTypes, Plugged, Row, Rows

-----------------------------------------------------------------------------
(* The invariant is inductive.                                             *)

LEMMA InitInv == Init => IInv
BY DriveAssumption
   DEF Init, IInv, TypeOK, ListTypes, PageTypes, HistoryTypes, Settled, Insisted,
       Choice, Drives

LEMMA StepRefresh == ASSUME IInv, Refresh PROVE IInv'
<1> DEFINE new == {Row(d) : d \in Plugged}
<1>1. PICK first \in IF new = {} THEN {NoRow} ELSE new :
        /\ rows' = new /\ head' = first
        /\ IF page = "role" THEN Choose(Handlers(new, first)) ELSE UNCHANGED <<role, id, aim>>
  BY DEF Refresh
<1>2. new \subseteq Rows
  BY ListedIsRow DEF IInv
<1>3. first \in Rows \cup {NoRow}
  BY <1>2
<1>4. UNCHANGED <<at, page, dialog, completed, asked, flash>> /\ status # "busy"
  BY DEF Refresh
<1>5. ListTypes'
  BY <1>1, <1>2, <1>4 DEF IInv, TypeOK, ListTypes, Rows
<1> HIDE DEF new
<1>6. /\ role' \in Roles \cup {""} /\ id' \in [Roles -> Numbers \cup {NoId}]
      /\ aim' \in [Roles -> Drives \cup {None}] /\ Insisted(Choice, asked)'
  <2>1. CASE page = "role"
    <3>1. Handlers(new, first) \in Choices /\ Insisted(Handlers(new, first), asked)
      BY <1>3, HandlersChoice DEF IInv
    <3>2. Choose(Handlers(new, first))
      BY <1>1, <2>1
    <3> QED
      BY <1>4, <3>1, <3>2, Chosen DEF Insisted, Choice
  <2>2. CASE page # "role"
    BY <1>1, <1>4, <2>2 DEF IInv, TypeOK, PageTypes, HistoryTypes, Insisted, Choice
  <2> QED
    BY <2>1, <2>2
<1>7. PageTypes' /\ HistoryTypes'
  BY <1>4, <1>6 DEF flash, IInv, TypeOK, PageTypes, HistoryTypes
<1> QED
  BY <1>4, <1>5, <1>6, <1>7 DEF flash, IInv, TypeOK, Settled

\* Step 4 appears.
LEMMA StepRolePage ==
  ASSUME IInv, EnterRolePage \/ ClickBack \/ ClickContinue
  PROVE  IInv'
<1>1. PICK c \in {Choice, NoChoice} :
        /\ ShowRolePage(c)
        /\ UNCHANGED <<at, rows, head, dialog, completed, target, written, built>>
        /\ UNCHANGED <<status, asked>> \/ (status' = "idle" /\ asked' = {})
        /\ (c = Choice /\ UNCHANGED asked) \/ c = NoChoice
        /\ page \in {"other", "next"} \/ status # "busy"
  <2> DEFINE Shows(c) ==
        /\ ShowRolePage(c)
        /\ UNCHANGED <<at, rows, head, dialog, completed, target, written, built>>
        /\ UNCHANGED <<status, asked>> \/ (status' = "idle" /\ asked' = {})
        /\ (c = Choice /\ UNCHANGED asked) \/ c = NoChoice
        /\ page \in {"other", "next"} \/ status # "busy"
  <2>1. CASE EnterRolePage
    <3>1. Shows(Choice)
      BY <2>1 DEF EnterRolePage, flash
    <3> QED
      BY <3>1
  <2>2. CASE ClickBack
    <3>1. Shows(Choice)
      BY <2>2 DEF ClickBack, flash
    <3> QED
      BY <3>1
  <2>3. CASE ClickContinue
    <3>1. Shows(NoChoice)
      BY <2>3 DEF ClickContinue
    <3> QED
      BY <3>1
  <2> QED
    BY <2>1, <2>2, <2>3
<1>2. c \in Choices /\ Insisted(c, asked')
  BY <1>1, ChoiceIsOne, NoChoiceIsOne DEF IInv
<1>3. AutoSelect(c, Cardinality(rows), head) \in Choices
      /\ Insisted(AutoSelect(c, Cardinality(rows), head), asked')
  BY <1>2, RolePageChoice DEF IInv
<1>4. Choose(AutoSelect(c, Cardinality(rows), head)) /\ page' = "role"
  BY <1>1 DEF ShowRolePage
<1>5. /\ role' \in Roles \cup {""} /\ id' \in [Roles -> Numbers \cup {NoId}]
      /\ aim' \in [Roles -> Drives \cup {None}] /\ Insisted(Choice, asked)'
  BY <1>3, <1>4, Chosen DEF Insisted, Choice
<1>6. status' # "busy" /\ written' = None
  BY <1>1 DEF IInv, Settled
<1> QED
  BY <1>1, <1>4, <1>5, <1>6
     DEF IInv, TypeOK, ListTypes, PageTypes, HistoryTypes, Settled

LEMMA StepOverride == ASSUME IInv, Override PROVE IInv'
<1>1. head \in Rows /\ head.drive \in Disks
  BY HeadIsRow, DriveAssumption DEF Override, IInv, NoRow, Drives
<1>2. Assign(Choice, head) \in Choices
      /\ \A r \in Roles : Assign(Choice, head).aim[r] \in {Choice.aim[r], head.drive}
  BY <1>1, ChoiceIsOne, AssignSelects DEF IInv
<1>3. Insisted(Assign(Choice, head), asked \cup {head.drive})
  BY <1>2 DEF IInv, Insisted
<1>4. Choose(Assign(Choice, head)) /\ asked' = asked \cup {head.drive}
  BY DEF Override
<1>5. /\ role' \in Roles \cup {""} /\ id' \in [Roles -> Numbers \cup {NoId}]
      /\ aim' \in [Roles -> Drives \cup {None}] /\ Insisted(Choice, asked)'
  BY <1>2, <1>3, <1>4, Chosen DEF Insisted, Choice
<1>6. UNCHANGED <<at, rows, head, page, dialog, completed, flash>> /\ page = "role"
  BY DEF Override
<1> QED
  BY <1>1, <1>4, <1>5, <1>6
     DEF flash, IInv, TypeOK, ListTypes, PageTypes, HistoryTypes, Settled

LEMMA StepPages ==
  ASSUME IInv,
         BackToSetup \/ ClickWrite \/ RejectDialog \/ ClickRetry \/ ClickNext \/ FlashAnother
  PROVE  IInv'
<1> USE DEF IInv, TypeOK, ListTypes, PageTypes, HistoryTypes, Settled, Insisted, Choice,
            wizard, flash
<1>1. CASE BackToSetup \/ RejectDialog \/ ClickNext
  BY <1>1 DEF BackToSetup, RejectDialog, ClickNext
<1>2. CASE ClickWrite
  BY <1>2 DEF ClickWrite
<1>3. CASE ClickRetry
  BY <1>3 DEF ClickRetry
<1>4. CASE FlashAnother
  <2>1. Choose(NoChoice) /\ asked' = {} /\ completed' = {} /\ page' = "other" /\ page = "next"
        /\ UNCHANGED <<at, rows, head, dialog, flash>>
    BY <1>4 DEF FlashAnother
  <2>2. role' = "" /\ id' \in [Roles -> Numbers \cup {NoId}]
        /\ aim' = [r \in Roles |-> None]
    BY <2>1 DEF Choose, NoChoice
  <2> QED
    BY <2>1, <2>2, DriveAssumption DEF Drives
<1> QED
  BY <1>1, <1>2, <1>3, <1>4

LEMMA StepFlash ==
  ASSUME IInv, AcceptDialog \/ OpenTarget \/ FlashFails \/ FlashDone
  PROVE  IInv'
<1> USE DEF IInv, TypeOK, ListTypes, PageTypes, HistoryTypes, Settled, Insisted, Choice,
            wizard, flash
<1>1. CASE AcceptDialog
  <2>1. CASE \E d \in Plugged : Target(d)
    <3>1. PICK d \in Plugged : Target(d) /\ built' = d /\ status' = "busy" /\ target' = at[d]
      BY <1>1, <2>1 DEF AcceptDialog
    <3>2. role \in Roles
      BY <3>1 DEF Target, SelectedId, Plugged
    <3>3. d \in Drives /\ (Resolves => d # Source)
      BY <3>1 DEF Target, Plugged
    <3> QED
      BY <1>1, <3>1, <3>2, <3>3 DEF AcceptDialog
  <2>2. CASE ~\E d \in Plugged : Target(d)
    BY <1>1, <2>2 DEF AcceptDialog
  <2> QED
    BY <2>1, <2>2
<1>2. CASE OpenTarget
  BY <1>2 DEF OpenTarget, Plugged
<1>3. CASE FlashFails
  BY <1>3 DEF FlashFails
<1>4. CASE FlashDone
  BY <1>4 DEF FlashDone
<1> QED
  BY <1>1, <1>2, <1>3, <1>4

LEMMA StepHands == ASSUME IInv, NEW d \in Drives, Plug(d) \/ Unplug(d) PROVE IInv'
<1> USE DEF IInv, TypeOK, ListTypes, PageTypes, HistoryTypes, Settled, Insisted, Choice,
            wizard, flash
<1>1. CASE Plug(d)
  BY <1>1 DEF Plug
<1>2. CASE Unplug(d)
  BY <1>2 DEF Unplug
<1> QED
  BY <1>1, <1>2

LEMMA Inductive == ASSUME IInv, [Next]_vars PROVE IInv'
<1>1. CASE Next
  BY <1>1, StepHands, StepRefresh, StepRolePage, StepOverride, StepPages, StepFlash DEF Next
<1>2. CASE UNCHANGED vars
  BY <1>2 DEF vars, wizard, flash, IInv, TypeOK, ListTypes, PageTypes, HistoryTypes,
     Settled, Insisted, Choice
<1> QED
  BY <1>1, <1>2

\* The inductive invariant holds, whatever is plugged in and whatever is clicked.
THEOREM Invariance == Spec => []IInv
BY InitInv, Inductive, PTL DEF Spec

\* Every variable keeps its type.
THEOREM TypeCorrect == Spec => []TypeOK
<1>1. IInv => TypeOK
  BY DEF IInv
<1> QED
  BY <1>1, Invariance, PTL

\* What is written was meant, unless its number changed hands on the way.
THEOREM WrittenWasMeantHolds == Spec => []WrittenWasMeant
<1>1. IInv => WrittenWasMeant
  BY DEF IInv, Settled, Insisted, Choice, WrittenWasMeant
<1> QED
  BY <1>1, Invariance, PTL
=============================================================================
