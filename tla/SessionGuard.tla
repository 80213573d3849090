---------------------------- MODULE SessionGuard ----------------------------
(***************************************************************************)
(* Windows' automount setting, the file that records that it is off, and   *)
(* the processes that change them: platform/session_guard.py, the mountvol *)
(* part of platform/windows.py, and their callers in ui/app.py,            *)
(* core/orchestrator.py and cli/main.py.                                   *)
(*                                                                         *)
(* Setting and file outlive the processes.  Every launch of the program is *)
(* a process of its own: a window (Guis) or a command line (Clis).  A      *)
(* window has three threads that run mountvol: the arming thread, a flash  *)
(* worker, and the GUI thread when it quits.                               *)
(***************************************************************************)
CONSTANTS Guis, Clis,   \* launches
          Chances       \* what may happen

ASSUME LaunchAssumption == Guis \cap Clis = {}

\* Faults: a process is killed, mountvol refuses, it is stopped by its timeout
\* when it has taken effect, the disk does not take the record.  Coincidences:
\* the operator flashes or quits while arming is still on ("early"), a window
\* and a command line run together ("mixed").
ASSUME ChancesAssumption ==
  Chances \subseteq {"kill", "refuse", "timeout", "disk", "early", "mixed"}

Procs == Guis \cup Clis

VARIABLES
  automount,  \* Windows letters new volumes
  files,      \* records there are: the marker, an older build's marker
  torn,       \* history: automount was turned off and the record of it was lost
  life,       \* per process
  arm,        \* per process, where its arming thread is
  armed,      \* per process, defense_active
  flash,      \* per process, where its FlashJob is
  left        \* history: how the last process went: a window that gave
              \* automount back "clean" or "failed" to, a "flashed" command line

machine == <<automount, files, torn>>
vars    == <<machine, life, arm, armed, flash, left>>

Init ==
  /\ automount \in BOOLEAN /\ files \in SUBSET {"marker", "legacy"}
  /\ (~automount => files # {}) /\ torn = FALSE
  /\ life  = [p \in Procs |-> "off"]
  /\ arm   = [p \in Procs |-> "none"]
  /\ armed = [p \in Procs |-> FALSE]
  /\ flash = [p \in Procs |-> "none"]
  /\ left  = "none"

Alive(p) == life[p] \notin {"off", "gone"}

\* An event loop, or a command line, not a message box.
Runs(p) == life[p] \in {"open", "release", "unlink", "exit"}

-----------------------------------------------------------------------------
(* mountvol and the record.                                                *)

\* mountvol /E or /N: what becomes of the setting, and whether it says so.
Mountvol(on, ok) ==
  \/ ok /\ automount' = on /\ torn' = (torn /\ ~on)
  \/ ~ok /\ "refuse"  \in Chances /\ UNCHANGED <<automount, torn>>
  \/ ~ok /\ "timeout" \in Chances /\ automount' = on /\ torn' = ~on

\* Deviation: a record that nobody looks for.
MarkByPid ==
  \/ files' = files \cup {"pid"} /\ UNCHANGED torn
  \/ "disk" \in Chances /\ torn' = TRUE /\ UNCHANGED files

\* disable_automount, after /N; a write that fails is passed over.
Mark ==
  \/ files' = files \cup {"marker"} /\ torn' = FALSE
  \/ "disk" \in Chances /\ torn' = TRUE /\ UNCHANGED files

-----------------------------------------------------------------------------
(* Launching.                                                              *)

Apart(others) == "mixed" \in Chances \/ \A p \in others : ~Alive(p)

\* Deviation: the answer of CreateMutex is not looked at.
LaunchUnclaimed(g) ==
  /\ life[g] = "off" /\ Apart(Clis)
  /\ life' = [life EXCEPT ![g] = "open"]
  /\ arm'  = [arm EXCEPT ![g] = "look"]
  /\ UNCHANGED <<machine, armed, flash, left>>

\* claim: the mutex lives as long as any window has a handle of it, one that
\* was refused and shows its message box too.
Launch(g) ==
  /\ life[g] = "off" /\ Apart(Clis)
  /\ IF \E h \in Guis : Alive(h)
       THEN life' = [life EXCEPT ![g] = "refused"] /\ UNCHANGED arm
       ELSE /\ life' = [life EXCEPT ![g] = "open"]
            /\ arm'  = [arm EXCEPT ![g] = "look"]
  /\ UNCHANGED <<machine, armed, flash, left>>

DismissBox(g) ==
  /\ life[g] = "refused"
  /\ life' = [life EXCEPT ![g] = "gone"]
  /\ UNCHANGED <<machine, arm, armed, flash, left>>

\* The command line claims nothing and arms nothing: it flashes.
LaunchCli(c) ==
  /\ life[c] = "off" /\ Apart(Guis)
  /\ life'  = [life EXCEPT ![c] = "open"]
  /\ flash' = [flash EXCEPT ![c] = "disable"]
  /\ UNCHANGED <<machine, arm, armed, left>>

-----------------------------------------------------------------------------
(* The arming thread: arm().                                               *)

\* restore_automount_if_crashed.
LookForRecord(g) ==
  /\ Runs(g) /\ arm[g] = "look"
  /\ arm' = [arm EXCEPT ![g] = IF files # {} THEN "enable" ELSE "disable"]
  /\ UNCHANGED <<machine, life, armed, flash, left>>

Repair(g) ==
  /\ Runs(g) /\ arm[g] = "enable"
  /\ \E ok \in BOOLEAN :
       /\ Mountvol(TRUE, ok)
       /\ arm' = [arm EXCEPT ![g] = IF ok THEN "unlink" ELSE "disable"]
  /\ UNCHANGED <<files, life, armed, flash, left>>

UnlinkMarker(g) ==
  /\ Runs(g) /\ arm[g] = "unlink"
  /\ files' = files \ {"marker"}
  /\ arm' = [arm EXCEPT ![g] = "migrate"]
  /\ UNCHANGED <<automount, torn, life, armed, flash, left>>

UnlinkLegacy(g) ==
  /\ Runs(g) /\ arm[g] = "migrate"
  /\ files' = files \ {"legacy"}
  /\ arm' = [arm EXCEPT ![g] = "disable"]
  /\ UNCHANGED <<automount, torn, life, armed, flash, left>>

Disable(g) ==
  /\ Runs(g) /\ arm[g] = "disable"
  /\ \E ok \in BOOLEAN :
       /\ Mountvol(FALSE, ok)
       /\ arm' = [arm EXCEPT ![g] = IF ok THEN "mark" ELSE "done"]
  /\ UNCHANGED <<files, life, armed, flash, left>>

MarkArmed(g) ==
  /\ Runs(g) /\ arm[g] = "mark"
  /\ Mark
  /\ arm'   = [arm EXCEPT ![g] = "done"]
  /\ armed' = [armed EXCEPT ![g] = TRUE]
  /\ UNCHANGED <<automount, life, flash, left>>

Arming(g) ==
  \/ LookForRecord(g) \/ Repair(g) \/ UnlinkMarker(g) \/ UnlinkLegacy(g)
  \/ Disable(g) \/ MarkArmed(g)

-----------------------------------------------------------------------------
(* FlashJob.run as far as it matters here: its own disable_automount, then *)
(* the card is written, "quiet" if that worked, "loud" if not.             *)

StartFlash(g) ==
  /\ life[g] = "open" /\ flash[g] = "none"
  /\ "early" \in Chances \/ arm[g] = "done"
  /\ flash' = [flash EXCEPT ![g] = "disable"]
  /\ UNCHANGED <<machine, life, arm, armed, left>>

DisableAgain(p) ==
  /\ Runs(p) /\ flash[p] = "disable"
  /\ \E ok \in BOOLEAN :
       /\ Mountvol(FALSE, ok)
       /\ flash' = [flash EXCEPT ![p] = IF ok THEN "mark" ELSE "loud"]
  /\ UNCHANGED <<files, life, arm, armed, left>>

MarkAgain(p) ==
  /\ Runs(p) /\ flash[p] = "mark"
  /\ Mark
  /\ flash' = [flash EXCEPT ![p] = "quiet"]
  /\ UNCHANGED <<automount, life, arm, armed, left>>

\* A command line ends with its flash.
EndFlash(p) ==
  /\ Runs(p) /\ flash[p] \in {"quiet", "loud"}
  /\ flash' = [flash EXCEPT ![p] = "none"]
  /\ IF p \in Clis
       THEN life' = [life EXCEPT ![p] = "gone"] /\ left' = "flashed"
       ELSE UNCHANGED <<life, left>>
  /\ UNCHANGED <<machine, arm, armed>>

Flashing(p) == DisableAgain(p) \/ MarkAgain(p) \/ EndFlash(p)

-----------------------------------------------------------------------------
(* Going.                                                                  *)

\* aboutToQuit; not under a flash, see FlashSession.
Quit(g) ==
  /\ life[g] = "open" /\ flash[g] = "none"
  /\ "early" \in Chances \/ arm[g] = "done"
  /\ life' = [life EXCEPT ![g] = "release"]
  /\ UNCHANGED <<machine, arm, armed, flash, left>>

\* Deviation: what was not armed need not be given back.
ReleaseIfArmed(g) ==
  /\ life[g] = "release"
  /\ IF armed[g]
       THEN \E ok \in BOOLEAN :
              /\ Mountvol(TRUE, ok)
              /\ life' = [life EXCEPT ![g] = IF ok THEN "unlink" ELSE "exit"]
              /\ left' = IF ok THEN "clean" ELSE "failed"
       ELSE life' = [life EXCEPT ![g] = "exit"] /\ left' = "clean" /\ UNCHANGED <<automount, torn>>
  /\ UNCHANGED <<files, arm, armed, flash>>

\* Deviation: the record goes even if automount could not be given back.
ReleaseAndForget(g) ==
  /\ life[g] = "release"
  /\ \E ok \in BOOLEAN :
       /\ Mountvol(TRUE, ok)
       /\ left' = IF ok THEN "clean" ELSE "failed"
  /\ life' = [life EXCEPT ![g] = "unlink"]
  /\ UNCHANGED <<files, arm, armed, flash>>

\* release, and in it enable_automount: /E, and only then the record.
Release(g) ==
  /\ life[g] = "release"
  /\ \E ok \in BOOLEAN :
       /\ Mountvol(TRUE, ok)
       /\ life' = [life EXCEPT ![g] = IF ok THEN "unlink" ELSE "exit"]
       /\ left' = IF ok THEN "clean" ELSE "failed"
  /\ UNCHANGED <<files, arm, armed, flash>>

ForgetRecord(g) ==
  /\ life[g] = "unlink"
  /\ files' = files \ {"marker"}
  /\ life'  = [life EXCEPT ![g] = "exit"]
  /\ UNCHANGED <<automount, torn, arm, armed, flash, left>>

\* The daemon thread goes with the process, wherever it is.
Exit(g) ==
  /\ life[g] = "exit"
  /\ life' = [life EXCEPT ![g] = "gone"]
  /\ UNCHANGED <<machine, arm, armed, flash, left>>

Quitting(g) == Release(g) \/ ForgetRecord(g) \/ Exit(g)

InGap(p) == Runs(p) /\ "mark" \in {arm[p], flash[p]}

Kill(p) ==
  /\ "kill" \in Chances /\ Alive(p)
  /\ life' = [life EXCEPT ![p] = "gone"]
  /\ left' = "failed"
  /\ torn' = (torn \/ InGap(p))
  /\ UNCHANGED <<automount, files, arm, armed, flash>>

-----------------------------------------------------------------------------
Next ==
  \/ \E g \in Guis : \/ Launch(g) \/ DismissBox(g) \/ Arming(g)
                     \/ StartFlash(g) \/ Quit(g) \/ Quitting(g)
  \/ \E c \in Clis : LaunchCli(c)
  \/ \E p \in Procs : Flashing(p) \/ Kill(p)

Spec == Init /\ [][Next]_vars

-----------------------------------------------------------------------------
MachineTypes == automount \in BOOLEAN /\ torn \in BOOLEAN /\ files \subseteq {"marker", "legacy"}

ProcTypes ==
  /\ life  \in [Procs -> {"off", "refused", "open", "release", "unlink", "exit", "gone"}]
  /\ arm   \in [Procs -> {"none", "look", "enable", "unlink", "migrate",
                          "disable", "mark", "done"}]
  /\ armed \in [Procs -> BOOLEAN]
  /\ flash \in [Procs -> {"none", "disable", "mark", "quiet", "loud"}]

\* Every variable has its type.
TypeOK == MachineTypes /\ ProcTypes /\ left \in {"none", "clean", "failed", "flashed"}

\* A window that reports the defence armed, and a card that is written under
\* it, can rely on it: no other process and no other thread turns automount
\* back on under them.
Defended ==
  \A p \in Procs : life[p] = "open" /\ (armed[p] \/ flash[p] = "quiet") => ~automount

\* As long as automount is off there is a record of it, or its author is just
\* about to write one, or was torn from it by a kill, a timeout or a full disk:
\* whoever dies or fails elsewhere, the next launch can repair.
Recorded == ~automount => files # {} \/ torn \/ \E p \in Procs : InGap(p)

\* A program that has quit and was not refused has given automount back,
\* whatever happened to those that ran before it.
GivenBack == left = "clean" /\ (\A p \in Procs : ~Alive(p)) => automount

=============================================================================
