------------------------- MODULE SessionGuardProofs -------------------------
(***************************************************************************)
(* SessionGuard for any number of launches and whatever fault there is.    *)
(* While the operator waits for the arming thread automount is given back; *)
(* and if besides no window runs beside a command line, the defence can be *)
(* relied on, and automount is never off without a record.                 *)
(***************************************************************************)
EXTENDS SessionGuard, TLAPS

Patient == "early" \notin Chances
Calm    == Patient /\ "mixed" \notin Chances

\* What the threads of a process are doing follows from the stage of its life.
Stages ==
  \A p \in Procs :
    /\ life[p] \in {"off", "refused"} => arm[p] = "none" /\ flash[p] = "none" /\ ~armed[p]
    /\ armed[p] => arm[p] = "done"
    /\ life[p] \in {"release", "unlink", "exit"} =>
         p \in Guis /\ flash[p] = "none" /\ arm[p] = "done"
    /\ p \in Guis /\ Runs(p) /\ flash[p] # "none" => arm[p] = "done"
    /\ p \in Clis => arm[p] = "none"

\* The mutex lets one window run, and no command line runs beside a window.
OneWindow == \A g, h \in Guis : Runs(g) /\ Runs(h) => g = h
Separate  == \A g \in Guis, d \in Clis : ~(Alive(g) /\ Alive(d))

\* A record is about to be written of what is the case, and to be removed when
\* it no longer is.
MarksOff == \A p \in Procs : InGap(p) => ~automount
Cleared  ==
  \A g \in Guis :
    Runs(g) /\ (arm[g] \in {"unlink", "migrate"} \/ life[g] = "unlink") => automount

\* Whoever turned automount off after a window gave it back has not left yet, and
\* says so when it does.
Leaving ==
  left = "clean" /\ ~automount => \E p \in Procs : life[p] \in {"open", "release"}

\* Leaving needs no more than Stages, the rest needs all of it.
LInv == TypeOK /\ Stages /\ Leaving
IInv == LInv /\ OneWindow /\ Separate /\ MarksOff /\ Cleared /\ Defended

-----------------------------------------------------------------------------
(* The invariant is inductive: one lemma for each of its parts.  The steps   *)
(* of a lemma are those of a process, grouped by the thread that takes them. *)

LEMMA InitInv == Init => IInv
BY LaunchAssumption
   DEF Init, IInv, LInv, TypeOK, MachineTypes, ProcTypes, Stages, OneWindow, Separate,
       MarksOff, Cleared, Defended, Leaving, InGap, Runs, Alive, Procs

LEMMA StepTypeOK == ASSUME TypeOK, Next PROVE TypeOK'
<1> USE DEF TypeOK, MachineTypes, ProcTypes, machine, Procs
<1>1. ASSUME NEW g \in Guis, Launch(g) \/ DismissBox(g) PROVE TypeOK'
  BY <1>1 DEF Launch, DismissBox
<1>2. ASSUME NEW d \in Clis, LaunchCli(d) PROVE TypeOK'
  BY <1>2 DEF LaunchCli
<1>3. ASSUME NEW g \in Guis, Arming(g) PROVE TypeOK'
  BY <1>3 DEF Arming, LookForRecord, Repair, UnlinkMarker, UnlinkLegacy,
              Disable, MarkArmed, Mark, Mountvol
<1>4. ASSUME NEW g \in Guis, StartFlash(g) PROVE TypeOK'
  BY <1>4 DEF StartFlash
<1>5. ASSUME NEW p \in Procs, Flashing(p) PROVE TypeOK'
  BY <1>5 DEF Flashing, DisableAgain, MarkAgain, EndFlash, Mark, Mountvol
<1>6. ASSUME NEW g \in Guis, Quit(g) \/ Quitting(g) PROVE TypeOK'
  BY <1>6 DEF Quit, Quitting, Release, ForgetRecord, Exit, Mountvol
<1>7. ASSUME NEW p \in Procs, Kill(p) PROVE TypeOK'
  BY <1>7 DEF Kill
<1> QED
  BY <1>1, <1>2, <1>3, <1>4, <1>5, <1>6, <1>7 DEF Next

LEMMA StepStages == ASSUME LInv, Patient, Next PROVE Stages'
<1> USE LaunchAssumption
    DEF LInv, Patient, Stages, TypeOK, MachineTypes, ProcTypes, Procs, Runs, Alive, machine
<1>1. ASSUME NEW g \in Guis, Launch(g) \/ DismissBox(g) PROVE Stages'
  BY <1>1 DEF Launch, DismissBox
<1>2. ASSUME NEW d \in Clis, LaunchCli(d) PROVE Stages'
  BY <1>2 DEF LaunchCli
<1>3. ASSUME NEW g \in Guis, Arming(g) PROVE Stages'
  BY <1>3 DEF Arming, LookForRecord, Repair, UnlinkMarker, UnlinkLegacy,
              Disable, MarkArmed
<1>4. ASSUME NEW g \in Guis, StartFlash(g) PROVE Stages'
  BY <1>4 DEF StartFlash
<1>5. ASSUME NEW p \in Procs, Flashing(p) PROVE Stages'
  <2>1. CASE DisableAgain(p)
    BY <2>1 DEF DisableAgain
  <2>2. CASE MarkAgain(p)
    BY <2>2 DEF MarkAgain
  <2>3. CASE EndFlash(p)
    BY <2>3 DEF EndFlash
  <2> QED
    BY <1>5, <2>1, <2>2, <2>3 DEF Flashing
<1>6. ASSUME NEW g \in Guis, Quit(g) \/ Quitting(g) PROVE Stages'
  <2>1. CASE Quit(g)
    BY <2>1 DEF Quit
  <2>2. CASE Release(g)
    BY <2>2 DEF Release
  <2>3. CASE ForgetRecord(g) \/ Exit(g)
    BY <2>3 DEF ForgetRecord, Exit
  <2> QED
    BY <1>6, <2>1, <2>2, <2>3 DEF Quitting
<1>7. ASSUME NEW p \in Procs, Kill(p) PROVE Stages'
  BY <1>7 DEF Kill
<1> QED
  BY <1>1, <1>2, <1>3, <1>4, <1>5, <1>6, <1>7 DEF Next

LEMMA StepOneWindow == ASSUME IInv, Calm, Next PROVE OneWindow' /\ Separate'
<1> USE LaunchAssumption
    DEF IInv, LInv, Calm, OneWindow, Separate, TypeOK, MachineTypes, ProcTypes, Procs, Runs,
        Alive, machine
<1>1. ASSUME NEW g \in Guis, Launch(g) \/ DismissBox(g) PROVE OneWindow' /\ Separate'
  BY <1>1 DEF Launch, DismissBox, Apart
<1>2. ASSUME NEW d \in Clis, LaunchCli(d) PROVE OneWindow' /\ Separate'
  BY <1>2 DEF LaunchCli, Apart
<1>3. ASSUME NEW g \in Guis, Arming(g) PROVE OneWindow' /\ Separate'
  BY <1>3 DEF Arming, LookForRecord, Repair, UnlinkMarker, UnlinkLegacy,
              Disable, MarkArmed
<1>4. ASSUME NEW g \in Guis, StartFlash(g) PROVE OneWindow' /\ Separate'
  BY <1>4 DEF StartFlash
<1>5. ASSUME NEW p \in Procs, Flashing(p) PROVE OneWindow' /\ Separate'
  BY <1>5 DEF Flashing, DisableAgain, MarkAgain, EndFlash
<1>6. ASSUME NEW g \in Guis, Quit(g) \/ Quitting(g) PROVE OneWindow' /\ Separate'
  BY <1>6 DEF Quit, Quitting, Release, ForgetRecord, Exit
<1>7. ASSUME NEW p \in Procs, Kill(p) PROVE OneWindow' /\ Separate'
  BY <1>7 DEF Kill
<1> QED
  BY <1>1, <1>2, <1>3, <1>4, <1>5, <1>6, <1>7 DEF Next

\* A window that runs is all that runs.
LEMMA Alone ==
  ASSUME IInv, NEW g \in Guis, Runs(g), NEW p \in Procs, Runs(p)
  PROVE  p = g
BY DEF IInv, OneWindow, Separate, Procs, Runs, Alive

\* Automount is turned on by a window that has nothing to lose by it.
LEMMA TurnedOn ==
  ASSUME IInv, Calm, Next, ~automount, automount'
  PROVE  \A p \in Procs : Runs(p) =>
           \/ p \in Guis /\ ~armed[p] /\ flash[p] = "none" /\ arm[p] = "enable"
           \/ p \in Guis /\ life[p] = "release"
<1> SUFFICES ASSUME NEW p \in Procs, Runs(p)
    PROVE  \/ p \in Guis /\ ~armed[p] /\ flash[p] = "none" /\ arm[p] = "enable"
           \/ p \in Guis /\ life[p] = "release"
  OBVIOUS
<1>1. ASSUME NEW g \in Guis, Repair(g)
      PROVE  p \in Guis /\ ~armed[p] /\ flash[p] = "none" /\ arm[p] = "enable"
  <2>1. p = g
    BY <1>1, Alone DEF Repair
  <2> QED
    BY <1>1, <2>1 DEF Repair, IInv, LInv, Stages
<1>2. ASSUME NEW g \in Guis, Release(g)
      PROVE  p \in Guis /\ life[p] = "release"
  BY <1>2, Alone DEF Release, Runs
<1>3. \E g \in Guis : Repair(g) \/ Release(g)
  BY DEF Next, machine, Launch, DismissBox, LaunchCli, Arming, LookForRecord,
         UnlinkMarker, UnlinkLegacy, Disable, MarkArmed, StartFlash, Flashing,
         DisableAgain, MarkAgain, EndFlash, Quit, Quitting, ForgetRecord, Exit,
         Kill, Mountvol
<1>4. PICK g \in Guis : Repair(g) \/ Release(g)
  BY <1>3
<1>5. CASE Repair(g)
  BY <1>1, <1>5
<1>6. CASE Release(g)
  BY <1>2, <1>6
<1> QED
  BY <1>4, <1>5, <1>6

\* Turned off by a process that runs, before its record.
LEMMA TurnedOff ==
  ASSUME Next, automount, ~automount'
  PROVE  \/ \E g \in Guis : Disable(g)
         \/ \E p \in Procs : DisableAgain(p)
BY DEF Next, machine, Launch, DismissBox, LaunchCli, Arming, LookForRecord, Repair,
       UnlinkMarker, UnlinkLegacy, MarkArmed, StartFlash, Flashing, MarkAgain,
       EndFlash, Quit, Quitting, Release, ForgetRecord, Exit, Kill, Mountvol

LEMMA StepMarksOff == ASSUME IInv, Calm, Next PROVE MarksOff'
<1> SUFFICES ASSUME NEW p \in Procs, InGap(p)' PROVE ~automount'
  BY DEF MarksOff
<1>1. CASE InGap(p)
  <2>1. ~automount
    BY <1>1 DEF IInv, LInv, MarksOff
  <2>2. Runs(p) /\ ~(p \in Guis /\ life[p] = "release")
    BY <1>1 DEF InGap, IInv, LInv, Stages
  <2>3. ~(flash[p] = "none" /\ arm[p] = "enable")
    BY <1>1 DEF InGap
  <2> QED
    BY <2>1, <2>2, <2>3, TurnedOn
<1>2. CASE ~InGap(p)
  <2> USE <1>2 DEF InGap, Runs, IInv, LInv, TypeOK, MachineTypes, ProcTypes, Procs, machine
  <2>1. ASSUME NEW g \in Guis, Launch(g) \/ DismissBox(g) PROVE FALSE
    BY <2>1 DEF Launch, DismissBox, Stages
  <2>2. ASSUME NEW d \in Clis, LaunchCli(d) PROVE FALSE
    BY <2>2 DEF LaunchCli, Stages
  <2>3. ASSUME NEW g \in Guis, Arming(g) PROVE ~automount'
    BY <2>3 DEF Arming, LookForRecord, Repair, UnlinkMarker, UnlinkLegacy,
                Disable, MarkArmed, Mountvol
  <2>4. ASSUME NEW g \in Guis, StartFlash(g) PROVE FALSE
    BY <2>4 DEF StartFlash
  <2>5. ASSUME NEW q \in Procs, Flashing(q) PROVE ~automount'
    BY <2>5 DEF Flashing, DisableAgain, MarkAgain, EndFlash, Mountvol
  <2>6. ASSUME NEW g \in Guis, Quit(g) \/ Quitting(g) PROVE FALSE
    BY <2>6 DEF Quit, Quitting, Release, ForgetRecord, Exit
  <2>7. ASSUME NEW q \in Procs, Kill(q) PROVE FALSE
    BY <2>7 DEF Kill
  <2> QED
    BY <2>1, <2>2, <2>3, <2>4, <2>5, <2>6, <2>7 DEF Next
<1> QED
  BY <1>1, <1>2

\* What a window or a card relies on.
Relies(p) == life[p] = "open" /\ (armed[p] \/ flash[p] = "quiet")

LEMMA StepDefended == ASSUME IInv, Calm, Next PROVE Defended'
<1> SUFFICES ASSUME NEW p \in Procs, Relies(p)' PROVE ~automount'
  BY DEF Defended, Relies
<1>1. CASE Relies(p)
  <2>1. ~automount /\ Runs(p)
    BY <1>1 DEF IInv, LInv, Defended, Relies, Runs
  <2> QED
    BY <1>1, <2>1, TurnedOn DEF Relies
<1>2. CASE ~Relies(p)
  <2>1. ASSUME InGap(p), UNCHANGED automount PROVE ~automount'
    BY <2>1 DEF IInv, LInv, MarksOff
  <2> USE <1>2 DEF Relies, IInv, LInv, TypeOK, MachineTypes, ProcTypes, Procs, machine
  <2>2. ASSUME NEW g \in Guis, Launch(g) \/ DismissBox(g) PROVE FALSE
    BY <2>2 DEF Launch, DismissBox, Stages
  <2>3. ASSUME NEW d \in Clis, LaunchCli(d) PROVE FALSE
    BY <2>3 DEF LaunchCli, Stages
  <2>4. ASSUME NEW g \in Guis, Arming(g) PROVE InGap(p) /\ UNCHANGED automount
    BY <2>4 DEF Arming, LookForRecord, Repair, UnlinkMarker, UnlinkLegacy,
                Disable, MarkArmed, InGap, Runs
  <2>5. ASSUME NEW g \in Guis, StartFlash(g) PROVE FALSE
    BY <2>5 DEF StartFlash
  <2>6. ASSUME NEW q \in Procs, Flashing(q) PROVE InGap(p) /\ UNCHANGED automount
    BY <2>6 DEF Flashing, DisableAgain, MarkAgain, EndFlash, InGap, Runs
  <2>7. ASSUME NEW g \in Guis, Quit(g) \/ Quitting(g) PROVE FALSE
    BY <2>7 DEF Quit, Quitting, Release, ForgetRecord, Exit
  <2>8. ASSUME NEW q \in Procs, Kill(q) PROVE FALSE
    BY <2>8 DEF Kill
  <2> QED
    BY <2>1, <2>2, <2>3, <2>4, <2>5, <2>6, <2>7, <2>8 DEF Next
<1> QED
  BY <1>1, <1>2

LEMMA StepCleared == ASSUME IInv, Calm, Next PROVE Cleared'
<1> DEFINE Clears(g) ==
      Runs(g) /\ (arm[g] \in {"unlink", "migrate"} \/ life[g] = "unlink")
<1> SUFFICES ASSUME NEW g \in Guis, Clears(g)' PROVE automount'
  BY DEF Cleared
<1> USE DEF Procs
<1>1. CASE Clears(g)
  <2>1. automount
    BY <1>1 DEF IInv, LInv, Cleared
  <2>2. ASSUME NEW h \in Guis, Disable(h) PROVE FALSE
    <3>1. h = g
      BY <1>1, <2>2, Alone DEF Disable
    <3> QED
      BY <1>1, <2>2, <3>1 DEF Disable, IInv, LInv, Stages
  <2>3. ASSUME NEW p \in Procs, DisableAgain(p) PROVE FALSE
    <3>1. p = g
      BY <1>1, <2>3, Alone DEF DisableAgain
    <3> QED
      BY <1>1, <2>3, <3>1 DEF DisableAgain, IInv, LInv, Stages
  <2>4. automount' \in BOOLEAN
    BY StepTypeOK DEF IInv, LInv, TypeOK, MachineTypes
  <2> QED
    BY <2>1, <2>2, <2>3, <2>4, TurnedOff
<1>2. CASE ~Clears(g)
  <2> USE <1>2 DEF Runs, IInv, LInv, TypeOK, MachineTypes, ProcTypes, machine
  <2>1. ASSUME NEW h \in Guis, Launch(h) \/ DismissBox(h) PROVE FALSE
    BY <2>1 DEF Launch, DismissBox, Stages
  <2>2. ASSUME NEW d \in Clis, LaunchCli(d) PROVE FALSE
    BY <2>2, LaunchAssumption DEF LaunchCli, Stages
  <2>3. ASSUME NEW h \in Guis, Arming(h) PROVE automount'
    BY <2>3 DEF Arming, LookForRecord, Repair, UnlinkMarker, UnlinkLegacy,
                Disable, MarkArmed, Mountvol
  <2>4. ASSUME NEW h \in Guis, StartFlash(h) PROVE FALSE
    BY <2>4 DEF StartFlash
  <2>5. ASSUME NEW q \in Procs, Flashing(q) PROVE FALSE
    BY <2>5 DEF Flashing, DisableAgain, MarkAgain, EndFlash
  <2>6. ASSUME NEW h \in Guis, Quit(h) \/ Quitting(h) PROVE automount'
    BY <2>6 DEF Quit, Quitting, Release, ForgetRecord, Exit, Mountvol
  <2>7. ASSUME NEW q \in Procs, Kill(q) PROVE FALSE
    BY <2>7 DEF Kill
  <2> QED
    BY <2>1, <2>2, <2>3, <2>4, <2>5, <2>6, <2>7 DEF Next
<1> QED
  BY <1>1, <1>2

LEMMA StepLeaving == ASSUME LInv, Next PROVE Leaving'
<1> USE DEF LInv, Leaving, TypeOK, MachineTypes, ProcTypes, Procs, machine
<1>1. ASSUME NEW g \in Guis, Launch(g) \/ DismissBox(g) PROVE Leaving'
  BY <1>1 DEF Launch, DismissBox
<1>2. ASSUME NEW d \in Clis, LaunchCli(d) PROVE Leaving'
  BY <1>2 DEF LaunchCli
<1>3. ASSUME NEW g \in Guis, Arming(g) PROVE Leaving'
  <2>1. Runs(g) /\ arm[g] \notin {"none", "done"} /\ UNCHANGED life
    BY <1>3 DEF Arming, LookForRecord, Repair, UnlinkMarker, UnlinkLegacy,
                Disable, MarkArmed
  <2>2. life'[g] = "open"
    BY <2>1 DEF Stages, Runs
  <2> QED
    BY <2>2
<1>4. ASSUME NEW g \in Guis, StartFlash(g) PROVE Leaving'
  BY <1>4 DEF StartFlash
<1>5. ASSUME NEW p \in Procs, Flashing(p) PROVE Leaving'
  <2>1. life[p] = "open"
    BY <1>5 DEF Flashing, DisableAgain, MarkAgain, EndFlash, Stages, Runs
  <2>2. life'[p] = "open" \/ left' = "flashed"
    BY <1>5, <2>1 DEF Flashing, DisableAgain, MarkAgain, EndFlash
  <2> QED
    BY <2>2
<1>6. ASSUME NEW g \in Guis, Quit(g) \/ Quitting(g) PROVE Leaving'
  <2>1. CASE Quit(g)
    BY <2>1 DEF Quit
  <2>2. CASE Release(g)
    BY <2>2 DEF Release, Mountvol
  <2>3. CASE ForgetRecord(g) \/ Exit(g)
    BY <2>3 DEF ForgetRecord, Exit
  <2> QED
    BY <1>6, <2>1, <2>2, <2>3 DEF Quitting
<1>7. ASSUME NEW p \in Procs, Kill(p) PROVE Leaving'
  BY <1>7 DEF Kill
<1> QED
  BY <1>1, <1>2, <1>3, <1>4, <1>5, <1>6, <1>7 DEF Next

-----------------------------------------------------------------------------
LEMMA LeavingInductive == ASSUME Patient, LInv, [Next]_vars PROVE LInv'
<1>1. CASE Next
  BY <1>1, StepTypeOK, StepStages, StepLeaving DEF LInv
<1>2. CASE UNCHANGED vars
  BY <1>2 DEF vars, machine, LInv, TypeOK, MachineTypes, ProcTypes, Stages, Leaving, Runs
<1> QED
  BY <1>1, <1>2

LEMMA Inductive == ASSUME Calm, IInv, [Next]_vars PROVE IInv'
<1>1. LInv'
  BY LeavingInductive DEF IInv, Calm
<1>2. CASE Next
  BY <1>1, <1>2, StepOneWindow, StepMarksOff, StepCleared, StepDefended DEF IInv
<1>3. CASE UNCHANGED vars
  BY <1>1, <1>3 DEF vars, machine, IInv, OneWindow, Separate, MarksOff, Cleared, Defended,
     InGap, Runs, Alive
<1> QED
  BY <1>2, <1>3

\* Every variable keeps its type, whatever happens.
THEOREM TypeCorrect == Spec => []TypeOK
<1>1. Init => TypeOK
  BY InitInv DEF IInv, LInv
<1>2. ASSUME TypeOK, [Next]_vars PROVE TypeOK'
  <2>1. CASE Next
    BY <1>2, <2>1, StepTypeOK
  <2>2. CASE UNCHANGED vars
    BY <1>2, <2>2 DEF vars, machine, TypeOK, MachineTypes, ProcTypes
  <2> QED
    BY <1>2, <2>1, <2>2
<1> QED
  BY <1>1, <1>2, PTL DEF Spec

\* While nothing coincides, the inductive invariant holds under every fault.
THEOREM Invariance == Calm /\ Spec => []IInv
<1>1. CASE Calm
  <2>1. Init => IInv
    BY InitInv
  <2>2. IInv /\ [Next]_vars => IInv'
    BY <1>1, Inductive
  <2> QED
    BY <2>1, <2>2, PTL DEF Spec
<1> QED
  BY <1>1

\* With an operator who waits for the arming and without command lines beside a
\* window, automount stays off under whoever relies on it, for any faults.
THEOREM DefendedHolds == Calm /\ Spec => []Defended
<1>1. IInv => Defended
  BY DEF IInv
<1> QED
  BY <1>1, Invariance, PTL

\* Whoever runs beside it, a window that has quit leaves automount on once everybody
\* has gone, as long as the operator waits for the arming.
THEOREM GivenBackHolds == Patient /\ Spec => []GivenBack
<1>1. LInv => GivenBack
  BY DEF LInv, Leaving, GivenBack, Alive
<1>2. CASE Patient
  <2>1. Init => LInv
    BY InitInv DEF IInv
  <2>2. LInv /\ [Next]_vars => LInv'
    BY <1>2, LeavingInductive
  <2> QED
    BY <1>1, <2>1, <2>2, PTL DEF Spec
<1> QED
  BY <1>2

\* While nothing coincides automount is never off without a record, unless mountvol
\* and the record were torn apart by a kill, a timeout or a full disk.
THEOREM RecordedHolds == Calm /\ Spec => []Recorded
<1>1. ASSUME Calm, IInv, Recorded, [Next]_vars PROVE Recorded'
  <2> USE <1>1 DEF Recorded, InGap, Runs, IInv, LInv, TypeOK, MachineTypes,
                   ProcTypes, Procs, machine
  <2>1. ASSUME NEW g \in Guis, Launch(g) \/ DismissBox(g) PROVE Recorded'
    BY <2>1 DEF Launch, DismissBox
  <2>2. ASSUME NEW d \in Clis, LaunchCli(d) PROVE Recorded'
    BY <2>2 DEF LaunchCli
  <2>3. ASSUME NEW g \in Guis, Arming(g) PROVE Recorded'
    <3>1. CASE LookForRecord(g)
      BY <3>1 DEF LookForRecord
    <3>2. CASE Repair(g)
      BY <3>2 DEF Repair, Mountvol
    <3>3. CASE UnlinkMarker(g) \/ UnlinkLegacy(g)
      <4>1. automount
        BY <3>3 DEF Cleared, UnlinkMarker, UnlinkLegacy
      <4> QED
        BY <3>3, <4>1 DEF UnlinkMarker, UnlinkLegacy
    <3>4. CASE Disable(g)
      BY <3>4 DEF Disable, Mountvol
    <3>5. CASE MarkArmed(g)
      BY <3>5 DEF MarkArmed, Mark
    <3> QED
      BY <2>3, <3>1, <3>2, <3>3, <3>4, <3>5 DEF Arming
  <2>4. ASSUME NEW g \in Guis, StartFlash(g) PROVE Recorded'
    BY <2>4 DEF StartFlash
  <2>5. ASSUME NEW p \in Procs, Flashing(p) PROVE Recorded'
    <3>1. CASE DisableAgain(p)
      BY <3>1 DEF DisableAgain, Mountvol
    <3>2. CASE MarkAgain(p)
      BY <3>2 DEF MarkAgain, Mark
    <3>3. CASE EndFlash(p)
      BY <3>3 DEF EndFlash, Stages
    <3> QED
      BY <2>5, <3>1, <3>2, <3>3 DEF Flashing
  <2>6. ASSUME NEW g \in Guis, Quit(g) \/ Quitting(g) PROVE Recorded'
    <3>1. CASE Quit(g)
      BY <3>1 DEF Quit
    <3>2. CASE Release(g)
      BY <3>2 DEF Release, Mountvol
    <3>3. CASE ForgetRecord(g)
      <4>1. automount
        BY <3>3 DEF Cleared, ForgetRecord
      <4> QED
        BY <3>3, <4>1 DEF ForgetRecord
    <3>4. CASE Exit(g)
      BY <3>4 DEF Exit, Stages
    <3> QED
      BY <2>6, <3>1, <3>2, <3>3, <3>4 DEF Quitting
  <2>7. ASSUME NEW p \in Procs, Kill(p) PROVE Recorded'
    BY <2>7 DEF Kill
  <2>8. CASE UNCHANGED vars
    BY <2>8 DEF vars
  <2> QED
    BY <2>1, <2>2, <2>3, <2>4, <2>5, <2>6, <2>7, <2>8 DEF Next
<1>2. CASE Calm
  <2>1. Init => Recorded
    BY DEF Init, Recorded
  <2>2. IInv /\ Recorded /\ [Next]_vars => Recorded'
    BY <1>1, <1>2
  <2> QED
    BY <1>2, <2>1, <2>2, Invariance, PTL DEF Spec
<1> QED
  BY <1>2
=============================================================================
