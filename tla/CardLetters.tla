---------------------------- MODULE CardLetters -----------------------------
(***************************************************************************)
(* Drive letters, and who takes or gives them.  A card with a letter is    *)
(* one Windows probes and offers to format, so letters are taken: from     *)
(* every candidate by the threads ui/app.py starts, from the target by the *)
(* preparation of the flash, and by its watchdog while the device is open  *)
(* (core/orchestrator.py).  At the end the finished card is given one, and *)
(* a spoilt card gets one from diskpart (platform/windows.py).             *)
(*                                                                         *)
(* All of them name a disk by its number and a volume by its letter, both  *)
(* read earlier; what is plugged in may change at any time.                *)
(***************************************************************************)
EXTENDS Naturals

CONSTANTS Medium, Fixed,  \* cards and disks; of these, the fixed ones (SSDs)
          Size,           \* per medium
          Disk,           \* numbers of physical drives
          MaxLetter,      \* letters are 1 .. MaxLetter
          Thread,         \* bound: threads at work at the same time
          MaxMoves        \* bound: media plugged in or out, letters by Windows

None == "none"

ASSUME CardLettersAssumption ==
  /\ Fixed \subseteq Medium /\ None \notin Medium /\ Size \in [Medium -> Nat]
  /\ Disk \subseteq Nat /\ MaxLetter \in Nat /\ MaxMoves \in Nat

Letter == 1 .. MaxLetter

VARIABLES
  slot,       \* per number, what is plugged in
  at,         \* per letter, the medium whose volume has it
  moves,      \* how many of MaxMoves were made
  automount,  \* Windows gives letters of its own accord
  defence,    \* SystemStatus.automountDefenseActive
  arming,     \* the arming thread is at work
  up,         \* the drive list is there
  list,       \* its rows: per number, a medium
  thr,        \* threads that take letters
  job,        \* the flash; medium is what it is aimed at
  given,      \* letters given on purpose that are still there
  harmed,     \* history: what was not meant was touched, without reuse or late
  reused,     \* history: a number or letter in use came to mean something else
  late,       \* history: a watchdog outlived its join
  robbed,     \* history: who took a letter that had been given, see Robs
  missed,     \* history: a letter could not be taken
  wild        \* history: how a volume got a letter without the rows changing

plugs == <<slot, at, moves>>
guard == <<automount, defence, arming>>
rows  == <<up, list>>
seen  == <<harmed, reused, late, robbed, missed, wild>>
vars  == <<plugs, guard, rows, thr, job, given, seen>>

Off  == [kind |-> None, pc |-> "off", ids |-> {}, todo |-> {}, cur |-> 0, stop |-> FALSE]
Idle == [pc |-> "idle", target |-> 0, known |-> {}, medium |-> None,
         after |-> "idle", dog |-> None, pick |-> 0]

Free == {l \in Letter : at[l] = None}
Without(letters) == [l \in Letter |-> IF l \in letters THEN None ELSE at[l]]

\* letters_on_disk
LettersOnDisk(d) == {l \in Letter : at[l] # None /\ at[l] = slot[d]}

Working == job.pc # "idle"
Quiet   == \A t \in Thread : thr[t].pc = "off"

\* Neither a card nor what the operator chose as the target.
Foreign(m) == m \in Fixed /\ m # job.medium
Harm(yes)  == harmed' = (harmed \/ (yes /\ ~reused /\ ~late))

\* The watchdog takes a given letter, or another step of the flash one that was
\* given to a card the flash is not for.
Robs(who, letters) ==
  robbed' = IF \E l \in letters \cap given : who = "flash" => at[l] # job.medium
              THEN robbed \cup {who} ELSE robbed

\* A medium arrives under a number, or a volume under a letter, that someone at
\* work has read and is about to use.
NumberReused(m, d) ==
  \/ m \in Fixed /\ \/ list[d] # None /\ list[d] \notin Fixed
                    \/ \E t \in Thread : d \in thr[t].ids
  \/ Working /\ d = job.target /\ m # job.medium
LetterReused(m, l) ==
  m \in Fixed /\ \/ \E t \in Thread : l = thr[t].cur \/ l \in thr[t].todo
                 \/ l \in job.known

\* No poll saw the number free, and what arrives looks like the row that was there.
Unseen(m, d) == list[d] # None /\ Size[list[d]] = Size[m]

Init ==
  /\ slot \in [Disk -> Medium \cup {None}]
  /\ \A d, e \in Disk : d # e /\ slot[d] # None => slot[d] # slot[e]
  /\ at \in [Letter -> Medium \cup {None}]
  /\ \A l \in Letter : at[l] # None =>
       (\E d \in Disk : slot[d] = at[l]) /\ \A k \in Letter \ {l} : at[k] # at[l]
  /\ moves = 0 /\ automount = TRUE /\ defence = TRUE /\ arming = TRUE
  /\ up = FALSE /\ list = [d \in Disk |-> None]
  /\ thr = [t \in Thread |-> Off] /\ job = Idle /\ given = {}
  /\ harmed = FALSE /\ reused = FALSE /\ late = FALSE /\ robbed = {}
  /\ missed = FALSE /\ wild = {}

-----------------------------------------------------------------------------
(* The operator and Windows.                                               *)

Move == moves < MaxMoves /\ moves' = moves + 1

\* The volume of what arrives may get a letter, by automount or because Windows
\* remembers it.
Insert(m, d) ==
  /\ Move /\ slot[d] = None /\ \A e \in Disk : slot[e] # m
  /\ slot' = [slot EXCEPT ![d] = m]
  /\ \E new \in {{}} \cup {{l} : l \in Free} :
       /\ at' = [l \in Letter |-> IF l \in new THEN m ELSE at[l]]
       /\ reused' = (reused \/ NumberReused(m, d) \/ \E l \in new : LetterReused(m, l))
       /\ wild' = IF new # {} /\ Unseen(m, d) THEN wild \cup {"swap"} ELSE wild
  /\ UNCHANGED <<guard, rows, thr, job, given, harmed, late, robbed, missed>>

Remove(d) ==
  /\ Move /\ slot[d] # None
  /\ slot' = [slot EXCEPT ![d] = None]
  /\ at' = Without(LettersOnDisk(d)) /\ given' = given \ LettersOnDisk(d)
  /\ UNCHANGED <<guard, rows, thr, job, seen>>

\* Automount, or whatever it is that letters a target while the device is open.
WindowsLetters(d) ==
  /\ Move /\ slot[d] # None /\ LettersOnDisk(d) = {}
  /\ automount \/ (job.pc = "open" /\ job.target = d)
  /\ \E l \in Free :
       /\ at' = [at EXCEPT ![l] = slot[d]]
       /\ reused' = (reused \/ LetterReused(slot[d], l))
  /\ wild' = wild \cup {IF arming THEN "arming" ELSE "later"}
  /\ UNCHANGED <<slot, guard, rows, thr, job, given, harmed, late, robbed, missed>>

-----------------------------------------------------------------------------
(* The drive list and the threads that take the candidates' letters.       *)

\* Deviation: fixed disks are candidates like the others.
StrippableAll(r) == {d \in Disk : r[d] # None}

\* strippable_drive_ids: no fixed disk, as the rows know them.
StrippableIds(r) == {d \in Disk : r[d] # None /\ r[d] \notin Fixed}

\* _strip_candidate_letters starts a thread, with the numbers as they are now.
StripCandidates(r) ==
  IF StrippableIds(r) = {} THEN UNCHANGED thr
  ELSE \E t \in Thread :
         /\ thr[t].pc = "off"
         /\ thr' = [thr EXCEPT ![t] = [Off EXCEPT !.kind = "scan", !.pc = "look",
                                                  !.ids = StrippableIds(r)]]

\* The list is read and the candidates stripped as it is brought up.
BringUp ==
  /\ ~up /\ up' = TRUE /\ list' = slot
  /\ StripCandidates(slot)
  /\ UNCHANGED <<plugs, guard, job, given, seen>>

\* Numbers and sizes are all that refresh() compares.
Changed == \E d \in Disk : \/ (list[d] = None) # (slot[d] = None)
                           \/ list[d] # None /\ slot[d] # None /\ Size[list[d]] # Size[slot[d]]

\* Deviation: the strip is not connected to countChanged.
RefreshKeepsLetters ==
  /\ up /\ ~Working /\ Changed
  /\ list' = slot
  /\ UNCHANGED <<plugs, guard, up, thr, job, given, seen>>

\* The poll, which rests while a flash is under way; countChanged strips again.
Refresh ==
  /\ up /\ ~Working /\ Changed
  /\ list' = slot /\ StripCandidates(slot)
  /\ UNCHANGED <<plugs, guard, up, job, given, seen>>

\* The arming thread ends; automountDefenseActiveChanged strips again.
Arm(ok) ==
  /\ arming /\ arming' = FALSE
  /\ automount' \in (IF ok THEN {FALSE} ELSE {automount, TRUE}) /\ defence' = ok
  /\ IF up /\ defence' # defence THEN StripCandidates(list) ELSE UNCHANGED thr
  /\ UNCHANGED <<plugs, rows, job, given, seen>>

-----------------------------------------------------------------------------
(* A thread that takes letters.                                            *)

\* On with the next letter or disk; after the last a scan ends, and the watchdog
\* waits for its next poll.
Goes(on) ==
  IF on.todo # {} \/ on.ids # {} THEN [on EXCEPT !.pc = "look", !.cur = 0]
  ELSE IF on.kind = "scan" THEN Off ELSE [on EXCEPT !.pc = "wait", !.cur = 0]

\* The letters of one disk, the disks in the order of the rows.
Look(t) ==
  /\ thr[t].pc = "look" /\ thr[t].todo = {}
  /\ \E d \in thr[t].ids :
       /\ \A e \in thr[t].ids : d <= e
       /\ thr' = [thr EXCEPT ![t] = Goes([thr[t] EXCEPT !.ids = @ \ {d},
                                                        !.todo = LettersOnDisk(d)])]
  /\ UNCHANGED <<plugs, guard, rows, job, given, seen>>

\* force_unmount_letter: the volume that has the letter now is dismounted ...
Dismount(t) ==
  /\ thr[t].pc = "look"
  /\ \E l \in thr[t].todo :
       /\ thr' = [thr EXCEPT ![t].todo = @ \ {l}, ![t].cur = l, ![t].pc = "delete"]
       /\ Harm(Foreign(at[l]))
  /\ UNCHANGED <<plugs, guard, rows, job, given, reused, late, robbed, missed, wild>>

\* ... and the letter deleted, at the third attempt at the latest ...
Delete(t) ==
  /\ thr[t].pc = "delete" /\ at[thr[t].cur] # None
  /\ at' = Without({thr[t].cur}) /\ given' = given \ {thr[t].cur}
  /\ Harm(Foreign(at[thr[t].cur]))
  /\ IF thr[t].kind = "dog" THEN Robs("watchdog", {thr[t].cur}) ELSE UNCHANGED robbed
  /\ thr' = [thr EXCEPT ![t] = Goes(@)]
  /\ UNCHANGED <<slot, moves, guard, rows, job, reused, late, missed, wild>>

\* ... or not at all.
DeleteFails(t) ==
  /\ thr[t].pc = "delete"
  /\ missed' = (missed \/ at[thr[t].cur] # None)
  /\ thr' = [thr EXCEPT ![t] = Goes(@)]
  /\ UNCHANGED <<plugs, guard, rows, job, given, harmed, reused, late, robbed, wild>>

\* The watchdog looks at its target until it is told to stop.
Poll(t) ==
  /\ thr[t].pc = "wait" /\ ~thr[t].stop
  /\ LettersOnDisk(job.target) # {}
  /\ thr' = [thr EXCEPT ![t].pc = "look", ![t].todo = LettersOnDisk(job.target)]
  /\ UNCHANGED <<plugs, guard, rows, job, given, seen>>

Stopped(t) ==
  /\ thr[t].pc = "wait" /\ thr[t].stop
  /\ thr' = [thr EXCEPT ![t] = Off]
  /\ UNCHANGED <<plugs, guard, rows, job, given, seen>>

-----------------------------------------------------------------------------
(* The flash.                                                              *)

\* _build_flash_job: a row's number and the letters the disk has now.  The image
\* is hashed before the job runs.
Build(d) ==
  /\ up /\ ~Working /\ list[d] # None /\ slot[d] # None
  /\ job' = [Idle EXCEPT !.pc = "hash", !.target = d, !.known = LettersOnDisk(d),
                         !.medium = slot[d]]
  /\ UNCHANGED <<plugs, guard, rows, thr, given, seen>>

\* run() begins with it, before its preflight.
DisableAutomount == automount' \in {automount, FALSE} /\ UNCHANGED <<defence, arming>>

\* Cancelled, or refused by the preflight.
GiveUp ==
  /\ job.pc = "hash" /\ job' = Idle
  /\ DisableAutomount
  /\ UNCHANGED <<plugs, rows, thr, given, seen>>

\* lock_and_dismount: the letters known since the job was built and those the
\* disk has by now; the wait gate goes on with the latter until it gives up.
TakeLetters ==
  LET letters == job.known \cup LettersOnDisk(job.target)
  IN  /\ \E taken \in SUBSET letters :
           /\ at' = Without(taken) /\ given' = given \ letters
           /\ Harm(\E l \in taken : Foreign(at[l])) /\ Robs("flash", taken)
           /\ missed' = (missed \/ \E l \in letters \ taken : at[l] # None)
      /\ DisableAutomount
      /\ UNCHANGED <<slot, moves, rows, reused, late, wild>>

\* The device is opened, and whatever it is will be overwritten ...
Prepare ==
  /\ job.pc = "hash" /\ slot[job.target] # None
  /\ TakeLetters
  /\ \E t \in Thread :
       /\ thr[t].pc = "off"
       /\ thr' = [thr EXCEPT ![t] = [Off EXCEPT !.kind = "dog", !.pc = "wait"]]
       /\ job' = [job EXCEPT !.pc = "open", !.known = {}, !.dog = t,
                             !.medium = slot[job.target]]

\* ... or it cannot be opened, and nothing is restored.
OpenFails ==
  /\ job.pc = "hash" /\ TakeLetters
  /\ job' = Idle /\ UNCHANGED thr

\* Copied, verified and customized, or not; the watchdog is told to stop.  A card
\* that was complete when the cancel came is left as it is.
WriteEnds(after) ==
  /\ job.pc = "open" /\ (after # "restore" => slot[job.target] = job.medium)
  /\ job' = [job EXCEPT !.pc = "join", !.after = after]
  /\ thr' = [thr EXCEPT ![job.dog].stop = TRUE]
  /\ UNCHANGED <<plugs, guard, rows, given, seen>>

Joined ==
  IF job.after = "idle" THEN Idle
  ELSE [job EXCEPT !.pc = job.after, !.after = "idle", !.dog = None]

\* Deviation: the watchdog is told to stop and not waited for.
JoinSkipped ==
  /\ job.pc = "join" /\ job' = Joined
  /\ UNCHANGED <<plugs, guard, rows, thr, given, seen>>

Join ==
  /\ job.pc = "join" /\ thr[job.dog].pc = "off"
  /\ job' = Joined
  /\ UNCHANGED <<plugs, guard, rows, thr, given, seen>>

\* The watchdog is held up in a letter for longer than the two seconds.
JoinTimesOut ==
  /\ job.pc = "join" /\ thr[job.dog].pc \in {"look", "delete"}
  /\ job' = Joined /\ late' = TRUE
  /\ UNCHANGED <<plugs, guard, rows, thr, given, harmed, reused, robbed, missed, wild>>

\* finalize_eject; most readers refuse.
Eject ==
  /\ job.pc = "eject" /\ job' = Idle
  /\ slot' = [slot EXCEPT ![job.target] = None]
  /\ at' = Without(LettersOnDisk(job.target)) /\ given' = given \ LettersOnDisk(job.target)
  /\ Robs("flash", LettersOnDisk(job.target))
  /\ UNCHANGED <<moves, guard, rows, thr, harmed, reused, late, missed, wild>>

\* Deviation: the letter after the last one in use.
FirstPastLast ==
  CHOOSE l \in 1 .. MaxLetter + 1 : /\ \A k \in Letter \ Free : k < l
                                    /\ l = 1 \/ l - 1 \notin Free

FirstFree == CHOOSE l \in Free : \A k \in Free : l <= k

\* make_card_visible picks a letter ...
PickLetter ==
  /\ job.pc = "eject"
  /\ job' = IF Free = {} THEN Idle ELSE [job EXCEPT !.pc = "show", !.pick = FirstFree]
  /\ UNCHANGED <<plugs, guard, rows, thr, given, seen>>

\* ... and tries for ten seconds to give it to a letterless volume of the disk.
GiveLetter ==
  /\ job.pc = "show" /\ job.pick \in Free
  /\ slot[job.target] # None /\ LettersOnDisk(job.target) = {}
  /\ at' = [at EXCEPT ![job.pick] = slot[job.target]] /\ given' = given \cup {job.pick}
  /\ reused' = (reused \/ LetterReused(slot[job.target], job.pick))
  /\ job' = Idle
  /\ UNCHANGED <<slot, moves, guard, rows, thr, harmed, late, robbed, missed, wild>>

GiveLetterFails ==
  /\ job.pc = "show" /\ job' = Idle
  /\ UNCHANGED <<plugs, guard, rows, thr, given, seen>>

\* restore_readable_exfat: diskpart cleans the disk of that number, formats it
\* and lets Windows assign a letter, or fails on the way.
Restore ==
  /\ job.pc = "restore" /\ slot[job.target] # None
  /\ LET m == slot[job.target]  was == LettersOnDisk(job.target)
         room == Free \cup was
     IN  /\ Harm(m # job.medium) /\ Robs("flash", was)
         /\ \E new \in {{}} \cup {{l} : l \in room} :
              /\ at' = [l \in Letter |-> IF l \in new THEN m
                                         ELSE IF l \in was THEN None ELSE at[l]]
              /\ given' = (given \ was) \cup new
              /\ reused' = (reused \/ \E l \in new : LetterReused(m, l))
  /\ job' = Idle
  /\ UNCHANGED <<slot, moves, guard, rows, thr, late, missed, wild>>

RestoreFails ==
  /\ job.pc = "restore" /\ job' = Idle
  /\ UNCHANGED <<plugs, guard, rows, thr, given, seen>>

-----------------------------------------------------------------------------
Outside ==
  \/ \E m \in Medium, d \in Disk : Insert(m, d)
  \/ \E d \in Disk : Remove(d) \/ WindowsLetters(d)
Window ==
  \/ BringUp \/ Refresh
  \/ \E ok \in BOOLEAN : Arm(ok)
Strip(t) ==
  Look(t) \/ Dismount(t) \/ Delete(t) \/ DeleteFails(t) \/ Poll(t) \/ Stopped(t)
Flash ==
  \/ \E d \in Disk : Build(d)
  \/ GiveUp \/ Prepare \/ OpenFails \/ Join \/ JoinTimesOut \/ Eject \/ PickLetter
  \/ GiveLetter \/ GiveLetterFails \/ Restore \/ RestoreFails
  \/ \E after \in {"eject", "restore", "idle"} : WriteEnds(after)

Next == Outside \/ Window \/ Flash \/ \E t \in Thread : Strip(t)

Spec == Init /\ [][Next]_vars

-----------------------------------------------------------------------------
ThreadType == [kind : {None, "scan", "dog"}, pc : {"off", "wait", "look", "delete"},
               ids : SUBSET Disk, todo : SUBSET Letter, cur : Letter \cup {0},
               stop : BOOLEAN]
JobType == [pc : {"idle", "hash", "open", "join", "eject", "show", "restore"},
            target : Disk \cup {0}, known : SUBSET Letter, medium : Medium \cup {None},
            after : {"idle", "eject", "restore"}, dog : Thread \cup {None}, pick : Letter \cup {0}]

PlugTypes ==
  /\ slot \in [Disk -> Medium \cup {None}] /\ at \in [Letter -> Medium \cup {None}]
  /\ moves \in 0 .. MaxMoves /\ given \subseteq Letter
WindowTypes ==
  /\ automount \in BOOLEAN /\ defence \in BOOLEAN /\ arming \in BOOLEAN
  /\ up \in BOOLEAN /\ list \in [Disk -> Medium \cup {None}]
Histories ==
  /\ harmed \in BOOLEAN /\ reused \in BOOLEAN /\ late \in BOOLEAN
  /\ robbed \subseteq {"watchdog", "flash"} /\ missed \in BOOLEAN
  /\ wild \subseteq {"arming", "later", "swap"}

\* Every variable has its type.
TypeOK ==
  PlugTypes /\ WindowTypes /\ thr \in [Thread -> ThreadType] /\ job \in JobType /\ Histories

\* However the threads, the flash and the operator's plugging interleave, no
\* fixed disk that is not the target loses its letter or is dismounted, and
\* diskpart cleans nothing but what was flashed, unless a medium arrived under a
\* number or a letter somebody was about to use, or a watchdog outlived its join.
OthersLeftAlone == ~harmed

\* No flash takes a letter the program gave to another card: not the preparation,
\* with letters it has known since the job was built, and not diskpart or the eject,
\* with the number.  The watchdog takes none that was given, not even to its own
\* card, unless it was still in a system call two seconds after it was told to stop.
\* A scan does take given letters: whenever the rows change, all candidates' are.
GivenSpared ==
  /\ "flash" \notin robbed
  /\ "watchdog" \in robbed => late

\* With everything at rest, a card whose row is the right one has no letter but
\* one it was given, unless Windows would not let go of a letter, lettered a volume
\* that did not arrive, or a card came back, or came in the place of one of its
\* size, between two polls.
Bare(d) == list[d] = slot[d] /\ slot[d] \notin Fixed => LettersOnDisk(d) \subseteq given
CandidatesStripped ==
  up /\ Quiet /\ ~Working /\ ~missed /\ wild = {} => \A d \in Disk : Bare(d)

\* The same at the end of arming, for letters Windows gave during it: what
\* build_app's comments promise of the second strip.
ArmedMeansStripped ==
  up /\ Quiet /\ ~Working /\ ~missed /\ wild \subseteq {"arming"} /\ ~arming
    => \A d \in Disk : Bare(d)
=============================================================================
