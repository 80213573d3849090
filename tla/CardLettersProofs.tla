-------------------------- MODULE CardLettersProofs --------------------------
(***************************************************************************)
(* CardLetters for any media, numbers, letters and threads: only the       *)
(* candidates and the target are touched, no flash takes a letter given to *)
(* another card, and every letter of a candidate is on somebody's list.    *)
(***************************************************************************)
EXTENDS CardLetters, WellFoundedInduction, TLAPS

\* The letters a thread is about to take.
Hands(k) == {l \in Letter : l \in k.todo \/ (k.pc = "delete" /\ l = k.cur)}

\* A thread that waits is the watchdog's, which is given letters and no numbers.
Shape(k) ==
  /\ k.pc = "off" <=> k.kind = None
  /\ k.pc = "off" => k.ids = {} /\ Hands(k) = {}
  /\ k.pc = "wait" => k.kind = "dog" /\ Hands(k) = {}
  /\ k.kind = "dog" => k.ids = {}
  /\ k.pc = "delete" => k.cur \in Letter

Shapes == \A t \in Thread : Shape(thr[t])

\* A flash is aimed at a number, and knows letters until it has the device.
JobShape ==
  /\ Working => job.target \in Disk
  /\ job.pc # "hash" => job.known = {}
  /\ job.pc = "show" => job.pick \in Letter
  /\ job.pc \in {"open", "join"} => job.dog \in Thread

\* A medium is in one place, and the volumes that have letters are plugged in.
Plugged ==
  /\ \A d, e \in Disk : d # e /\ slot[d] # None => slot[d] # slot[e]
  /\ \A l \in Letter : at[l] # None => \E d \in Disk : slot[d] = at[l]

\* A letter that was given is in use.
GivenInUse == \A l \in given : at[l] # None

\* What anybody is about to take belongs to no fixed disk but the target, unless it
\* came to mean something else.
ScansAimed ==
  \A t \in Thread : thr[t].kind = "scan" =>
    (\A d \in thr[t].ids : slot[d] \notin Fixed) /\ (\A l \in Hands(thr[t]) : at[l] \notin Fixed)
DogsAimed ==
  \A t \in Thread : thr[t].kind = "dog" =>
    \A l \in Hands(thr[t]) : at[l] \in Fixed => at[l] = job.medium
JobAimed ==
  /\ Working => slot[job.target] \in {None, job.medium}
  /\ \A l \in job.known : at[l] \in Fixed => at[l] = job.medium
RowsAimed == \A d \in Disk : list[d] # None /\ list[d] \notin Fixed => slot[d] \notin Fixed
Aimed == ~reused => RowsAimed /\ ScansAimed /\ JobAimed /\ (~late => DogsAimed)

\* A watchdog works for the flash that is on.
DogAtWork ==
  ~late => \A t \in Thread : thr[t].kind = "dog" => job.pc \in {"open", "join"} /\ job.dog = t

\* While the device is open no letter is given to the target, and none is at risk.
GivenKept ==
  ~late /\ job.pc \in {"open", "join"} => \A l \in given :
    /\ at[l] # slot[job.target]
    /\ \A t \in Thread : thr[t].kind = "dog" => l \notin Hands(thr[t])

\* Of the letters that were given, those a flash has to do with are its own card's.
GivenAimed == Working => \A l \in given :
  l \in job.known \/ at[l] = slot[job.target] => at[l] = job.medium

\* Every letter of a candidate was given to it or is on somebody's list.
Pending(d, l) == \E t \in Thread : d \in thr[t].ids \/ l \in Hands(thr[t])
Swept ==
  up /\ ~missed /\ wild = {} => \A d \in Disk, l \in Letter :
    list[d] = slot[d] /\ slot[d] \notin Fixed /\ at[l] # None /\ at[l] = slot[d] =>
      l \in given \/ Pending(d, l)

IInv ==
  /\ TypeOK /\ Shapes /\ JobShape /\ Plugged /\ GivenInUse /\ Aimed /\ DogAtWork
  /\ GivenKept /\ GivenAimed /\ Swept /\ OthersLeftAlone /\ GivenSpared

-----------------------------------------------------------------------------
LEMMA LeastLetter ==
  ASSUME NEW S \in SUBSET Letter, S # {}
  PROVE  \E l \in S : \A k \in S : l <= k
<1>1. S \subseteq Nat
  BY CardLettersAssumption DEF Letter
<1>2. PICK l \in S : \A k \in S : <<k, l>> \notin OpToRel(<, Nat)
  BY <1>1, NatLessThanWellFounded, WFMin
<1>3. \A k \in S : ~(k < l)
  BY <1>1, <1>2 DEF OpToRel
<1> QED
  BY <1>1, <1>3

LEMMA OffType == Off \in ThreadType /\ Hands(Off) = {} /\ Off.ids = {} /\ Shape(Off)
BY DEF Off, ThreadType, Hands, Shape

LEMMA IdleType == Idle \in JobType
BY DEF Idle, JobType

\* After a letter or a number a thread has what is left of them, or is off.
LEMMA GoesOn ==
  ASSUME NEW on \in ThreadType, on.kind # None, on.kind = "dog" => on.ids = {},
         on.pc = "delete" \/ on.pc = "look"
  PROVE  /\ Goes(on) \in ThreadType /\ Shape(Goes(on))
         /\ Goes(on).ids = on.ids /\ Hands(Goes(on)) = on.todo
         /\ Goes(on).kind \in {on.kind, None} /\ Goes(on).todo = on.todo
<1> DEFINE look == [on EXCEPT !.pc = "look", !.cur = 0]
           wait == [on EXCEPT !.pc = "wait", !.cur = 0]
<1>1. look \in ThreadType /\ wait \in ThreadType
  BY DEF ThreadType
<1>2. /\ look.kind = on.kind /\ look.ids = on.ids /\ look.todo = on.todo /\ look.pc = "look"
      /\ wait.kind = on.kind /\ wait.ids = on.ids /\ wait.todo = on.todo /\ wait.pc = "wait"
      /\ on.todo \in SUBSET Letter /\ on.ids \in SUBSET Disk /\ on.kind \in {"scan", "dog"}
  BY DEF ThreadType
<1> HIDE DEF look, wait
<1>3. CASE on.todo # {} \/ on.ids # {}
  <2>1. Goes(on) = look
    BY <1>3 DEF Goes, look
  <2> QED
    BY <1>1, <1>2, <2>1 DEF Hands, Shape, Off
<1>4. CASE on.todo = {} /\ on.ids = {} /\ on.kind = "scan"
  <2>1. Goes(on) = Off
    BY <1>4 DEF Goes
  <2>2. Off.todo = {} /\ Off.kind = None
    BY DEF Off
  <2> QED
    BY <1>4, <2>1, <2>2, OffType
<1>5. CASE on.todo = {} /\ on.ids = {} /\ on.kind # "scan"
  <2>1. Goes(on) = wait
    BY <1>5 DEF Goes, wait
  <2> QED
    BY <1>1, <1>2, <1>5, <2>1 DEF Hands, Shape, Off
<1> QED
  BY <1>3, <1>4, <1>5

-----------------------------------------------------------------------------
(* What a step does to a thread, to a letter and to a number.               *)

NewScan(t, n) ==
  /\ BringUp \/ Refresh \/ \E ok \in BOOLEAN : Arm(ok)
  /\ thr[t].pc = "off" /\ n.kind = "scan" /\ n.ids = StrippableIds(list') /\ Hands(n) = {}
NewDog(t, n) ==
  /\ Prepare /\ job'.dog = t
  /\ thr[t].pc = "off" /\ n.kind = "dog" /\ n.ids = {} /\ Hands(n) = {}
Looks(t, n) ==
  /\ Look(t) /\ Hands(thr[t]) = {} /\ n.kind \in {thr[t].kind, None}
  /\ \E d \in thr[t].ids : n.ids = thr[t].ids \ {d} /\ Hands(n) = LettersOnDisk(d)
Takes(t, n) ==
  /\ Dismount(t) \/ Delete(t) \/ DeleteFails(t)
  /\ n.kind \in {thr[t].kind, None} /\ n.ids = thr[t].ids /\ Hands(n) \subseteq Hands(thr[t])
  /\ \A l \in Hands(thr[t]) \ Hands(n) : at'[l] = None \/ missed'
Polls(t, n) ==
  /\ Poll(t) /\ thr[t].kind = "dog" /\ n.kind = "dog" /\ n.ids = {}
  /\ Hands(thr[t]) = {} /\ Hands(n) = LettersOnDisk(job.target)
Told(t, n) ==
  /\ \E after \in {"eject", "restore", "idle"} : WriteEnds(after)
  /\ n.kind = thr[t].kind /\ n.ids = thr[t].ids /\ Hands(n) = Hands(thr[t])
Leaves(t, n) ==
  Stopped(t) /\ thr[t].kind = "dog" /\ Hands(thr[t]) = {} /\ n = Off

LEMMA ScanStarts ==
  ASSUME TypeOK, NEW r \in [Disk -> Medium \cup {None}], StripCandidates(r)
  PROVE  \/ UNCHANGED thr
         \/ \E t \in Thread, n \in ThreadType :
              /\ thr' = [thr EXCEPT ![t] = n] /\ Shape(n) /\ thr[t].pc = "off"
              /\ n.kind = "scan" /\ n.ids = StrippableIds(r) /\ Hands(n) = {}
<1> DEFINE n == [Off EXCEPT !.kind = "scan", !.pc = "look", !.ids = StrippableIds(r)]
<1>1. /\ n \in ThreadType /\ n.kind = "scan" /\ n.ids = StrippableIds(r) /\ n.todo = {}
      /\ n.pc = "look" /\ n # Off
  BY DEF Off, ThreadType, StrippableIds
<1>2. \/ UNCHANGED thr
      \/ \E t \in Thread : thr[t].pc = "off" /\ thr' = [thr EXCEPT ![t] = n]
  BY DEF StripCandidates
<1> HIDE DEF n
<1>3. Hands(n) = {}
  BY <1>1 DEF Hands
<1>4. Shape(n)
  BY <1>1 DEF Shape, None
<1> QED
  BY <1>1, <1>2, <1>3, <1>4

LEMMA ThreadMoves ==
  ASSUME TypeOK, Shapes, JobShape, Next
  PROVE  \/ UNCHANGED thr
         \/ \E t \in Thread, n \in ThreadType :
              /\ thr' = [thr EXCEPT ![t] = n] /\ Shape(n)
              /\ \/ NewScan(t, n) \/ NewDog(t, n) \/ Looks(t, n) \/ Takes(t, n)
                 \/ Polls(t, n) \/ Told(t, n) \/ Leaves(t, n)
<1> USE DEF TypeOK
<1>1. ASSUME NEW ok \in BOOLEAN, BringUp \/ Refresh \/ Arm(ok)
      PROVE  \/ UNCHANGED thr
             \/ \E t \in Thread, n \in ThreadType :
                  thr' = [thr EXCEPT ![t] = n] /\ Shape(n) /\ NewScan(t, n)
  <2>1. \/ UNCHANGED thr
        \/ list' \in [Disk -> Medium \cup {None}] /\ StripCandidates(list')
    BY <1>1 DEF BringUp, Refresh, Arm, rows, PlugTypes, WindowTypes
  <2>2. CASE list' \in [Disk -> Medium \cup {None}] /\ StripCandidates(list')
    <3>1. BringUp \/ Refresh \/ \E o \in BOOLEAN : Arm(o)
      BY <1>1
    <3> QED
      BY <2>2, <3>1, ScanStarts DEF NewScan
  <2> QED
    BY <2>1, <2>2
<1>2. ASSUME NEW t \in Thread, Look(t)
      PROVE  \E n \in ThreadType : thr' = [thr EXCEPT ![t] = n] /\ Shape(n) /\ Looks(t, n)
  <2> DEFINE k == thr[t]
  <2>1. PICK d \in k.ids : thr' = [thr EXCEPT ![t] =
                             Goes([k EXCEPT !.ids = k.ids \ {d}, !.todo = LettersOnDisk(d)])]
    BY <1>2 DEF Look
  <2> DEFINE on == [k EXCEPT !.ids = k.ids \ {d}, !.todo = LettersOnDisk(d)]
  <2>2. k \in ThreadType /\ k.pc = "look" /\ k.todo = {} /\ Shape(k)
    BY <1>2 DEF Look, Shapes
  <2>3. /\ on \in ThreadType /\ on.ids = k.ids \ {d} /\ on.todo = LettersOnDisk(d)
        /\ on.pc = "look" /\ on.kind = k.kind
    BY <2>2 DEF ThreadType, LettersOnDisk
  <2> HIDE DEF on
  <2>4. on.kind # None /\ (on.kind = "dog" => on.ids = {})
    BY <2>2, <2>3 DEF Shape
  <2>5. Hands(k) = {}
    BY <2>2 DEF Hands
  <2>6. thr' = [thr EXCEPT ![t] = Goes(on)]
    BY <2>1 DEF on
  <2>7. Goes(on) \in ThreadType /\ Shape(Goes(on)) /\ Goes(on).ids = k.ids \ {d}
        /\ Hands(Goes(on)) = LettersOnDisk(d) /\ Goes(on).kind \in {k.kind, None}
    BY <2>3, <2>4, GoesOn
  <2> QED
    BY <1>2, <2>5, <2>6, <2>7 DEF Looks
<1>3. ASSUME NEW t \in Thread, Dismount(t)
      PROVE  \E n \in ThreadType : thr' = [thr EXCEPT ![t] = n] /\ Shape(n) /\ Takes(t, n)
  <2> DEFINE k == thr[t]
  <2>1. PICK l \in k.todo :
          thr' = [thr EXCEPT ![t] = [k EXCEPT !.todo = k.todo \ {l}, !.cur = l, !.pc = "delete"]]
    BY <1>3 DEF Dismount
  <2> DEFINE n == [k EXCEPT !.todo = k.todo \ {l}, !.cur = l, !.pc = "delete"]
  <2>2. k \in ThreadType /\ k.pc = "look" /\ Shape(k) /\ l \in Letter
    BY <1>3 DEF Dismount, Shapes, ThreadType
  <2>3. /\ n \in ThreadType /\ n.ids = k.ids /\ n.todo = k.todo \ {l} /\ n.cur = l
        /\ n.pc = "delete" /\ n.kind = k.kind
    BY <2>2 DEF ThreadType
  <2>4. thr' = [thr EXCEPT ![t] = n]
    BY <2>1
  <2> HIDE DEF n
  <2>5. Hands(n) = Hands(k)
    BY <2>2, <2>3 DEF Hands
  <2>6. Shape(n)
    BY <2>2, <2>3 DEF Shape, Off
  <2> QED
    BY <1>3, <2>3, <2>4, <2>5, <2>6 DEF Takes
<1>4. ASSUME NEW t \in Thread, Delete(t) \/ DeleteFails(t)
      PROVE  \E n \in ThreadType : thr' = [thr EXCEPT ![t] = n] /\ Shape(n) /\ Takes(t, n)
  <2> DEFINE k == thr[t]
  <2>1. thr' = [thr EXCEPT ![t] = Goes(k)] /\ k.pc = "delete"
    BY <1>4 DEF Delete, DeleteFails
  <2>2. k \in ThreadType /\ Shape(k)
    BY DEF Shapes
  <2>3. /\ Goes(k) \in ThreadType /\ Shape(Goes(k)) /\ Goes(k).ids = k.ids
        /\ Hands(Goes(k)) = k.todo /\ Goes(k).kind \in {k.kind, None}
    BY <2>1, <2>2, GoesOn DEF Shape
  <2>4. k.cur \in Letter /\ Hands(k) = k.todo \cup {k.cur}
    BY <2>1, <2>2 DEF Shape, Hands, ThreadType
  <2>5. at'[k.cur] = None \/ missed'
    BY <1>4, <2>4 DEF Delete, DeleteFails, Without, plugs
  <2> QED
    BY <1>4, <2>1, <2>3, <2>4, <2>5 DEF Takes
<1>5. ASSUME NEW t \in Thread, Poll(t)
      PROVE  \E n \in ThreadType : thr' = [thr EXCEPT ![t] = n] /\ Shape(n) /\ Polls(t, n)
  <2> DEFINE k == thr[t]
             n == [k EXCEPT !.pc = "look", !.todo = LettersOnDisk(job.target)]
  <2>1. thr' = [thr EXCEPT ![t] = n]
    BY <1>5 DEF Poll
  <2>2. k \in ThreadType /\ k.pc = "wait" /\ k.kind = "dog" /\ Shape(k)
    BY <1>5 DEF Poll, Shapes, Shape
  <2>3. /\ n \in ThreadType /\ n.ids = k.ids /\ n.todo = LettersOnDisk(job.target)
        /\ n.pc = "look" /\ n.kind = k.kind
    BY <2>2 DEF ThreadType, LettersOnDisk
  <2> HIDE DEF n
  <2>4. Hands(k) = {} /\ Hands(n) = LettersOnDisk(job.target)
    BY <2>2, <2>3 DEF Hands, Shape, LettersOnDisk
  <2>5. Shape(n) /\ n.ids = {}
    BY <2>2, <2>3 DEF Shape, Off
  <2> QED
    BY <1>5, <2>1, <2>2, <2>3, <2>4, <2>5 DEF Polls
<1>6. ASSUME NEW t \in Thread, Stopped(t)
      PROVE  \E n \in ThreadType : thr' = [thr EXCEPT ![t] = n] /\ Shape(n) /\ Leaves(t, n)
  <2>1. thr' = [thr EXCEPT ![t] = Off] /\ thr[t].kind = "dog" /\ Hands(thr[t]) = {}
    BY <1>6 DEF Stopped, Shapes, Shape
  <2> QED
    BY <1>6, <2>1, OffType DEF Leaves
<1>7. ASSUME Prepare
      PROVE  \E t \in Thread, n \in ThreadType :
               thr' = [thr EXCEPT ![t] = n] /\ Shape(n) /\ NewDog(t, n)
  <2> DEFINE n == [Off EXCEPT !.kind = "dog", !.pc = "wait"]
  <2>1. PICK t \in Thread :
          thr[t].pc = "off" /\ thr' = [thr EXCEPT ![t] = n] /\ job'.dog = t
    BY <1>7 DEF Prepare, JobType
  <2>2. /\ n \in ThreadType /\ n.kind = "dog" /\ n.ids = {} /\ n.todo = {}
        /\ n.pc = "wait" /\ n # Off
    BY DEF Off, ThreadType
  <2> HIDE DEF n
  <2>3. Hands(n) = {}
    BY <2>2 DEF Hands
  <2>4. Shape(n)
    BY <2>2, <2>3 DEF Shape, None
  <2> QED
    BY <1>7, <2>1, <2>2, <2>3, <2>4 DEF NewDog
<1>8. ASSUME NEW after \in {"eject", "restore", "idle"}, WriteEnds(after)
      PROVE  \E t \in Thread, n \in ThreadType :
               thr' = [thr EXCEPT ![t] = n] /\ Shape(n) /\ Told(t, n)
  <2> DEFINE t == job.dog
             n == [thr[t] EXCEPT !.stop = TRUE]
  <2>1. t \in Thread /\ thr' = [thr EXCEPT ![t] = n]
    BY <1>8 DEF WriteEnds, JobShape
  <2>2. thr[t] \in ThreadType /\ Shape(thr[t])
    BY <2>1 DEF Shapes
  <2>3. /\ n \in ThreadType /\ n.kind = thr[t].kind /\ n.ids = thr[t].ids
        /\ n.todo = thr[t].todo /\ n.pc = thr[t].pc /\ n.cur = thr[t].cur
    BY <2>2 DEF ThreadType
  <2> HIDE DEF n
  <2>4. Hands(n) = Hands(thr[t])
    BY <2>3 DEF Hands
  <2>5. Shape(n)
    BY <2>2, <2>3, <2>4 DEF Shape
  <2> QED
    BY <1>8, <2>1, <2>3, <2>4, <2>5 DEF Told
<1>9. ASSUME \/ \E m \in Medium, d \in Disk : Insert(m, d)
             \/ \E d \in Disk : Remove(d) \/ WindowsLetters(d) \/ Build(d)
             \/ GiveUp \/ OpenFails \/ Join \/ JoinTimesOut \/ Eject \/ PickLetter
             \/ GiveLetter \/ GiveLetterFails \/ Restore \/ RestoreFails
      PROVE  UNCHANGED thr
  BY <1>9 DEF Insert, Remove, WindowsLetters, Build, GiveUp, OpenFails, Join, JoinTimesOut,
     Eject, PickLetter, GiveLetter, GiveLetterFails, Restore, RestoreFails
<1> HIDE DEF TypeOK
<1>10. CASE Outside \/ Window
  BY <1>1, <1>9, <1>10 DEF Outside, Window
<1>11. CASE Flash
  BY <1>7, <1>8, <1>9, <1>11 DEF Flash
<1>12. ASSUME NEW t \in Thread, Strip(t)
       PROVE  \E n \in ThreadType : /\ thr' = [thr EXCEPT ![t] = n] /\ Shape(n)
                                    /\ Looks(t, n) \/ Takes(t, n) \/ Polls(t, n) \/ Leaves(t, n)
  BY <1>2, <1>3, <1>4, <1>5, <1>6, <1>12 DEF Strip
<1> QED
  BY <1>10, <1>11, <1>12 DEF Next

\* A letter stays as it is, or is taken, or comes to a volume that has none.
Stays(l) ==
  /\ at'[l] = at[l] /\ (l \in given' => l \in given)
  /\ l \in given /\ at[l] # None => l \in given' \/ missed'
Lost(l) == at'[l] = None /\ l \notin given'
Comes(l) ==
  /\ at'[l] \in Medium /\ at[l] \in {None, at'[l]}
  /\ reused' \/ at[l] = at'[l] \/ ~LetterReused(at'[l], l)
  /\ \E d \in Disk :
       /\ slot'[d] = at'[l]
       /\ \/ /\ at[l] = None /\ (l \in given' => l \in given)
             /\ Insert(at'[l], d) \/ WindowsLetters(d)
          \/ l \in given' /\ (GiveLetter \/ Restore)

LEMMA LetterMoves ==
  ASSUME TypeOK, JobShape, Next, NEW l \in Letter
  PROVE  Stays(l) \/ Lost(l) \/ Comes(l)
<1> USE DEF TypeOK, PlugTypes
<1>1. ASSUME UNCHANGED <<at, given>> PROVE Stays(l)
  BY <1>1 DEF Stays
<1>2. ASSUME NEW m \in Medium, NEW d \in Disk, Insert(m, d) PROVE Stays(l) \/ Comes(l)
  <2>1. PICK new \in {{}} \cup {{k} : k \in Free} :
          /\ at' = [k \in Letter |-> IF k \in new THEN m ELSE at[k]]
          /\ reused' = (reused \/ NumberReused(m, d) \/ \E k \in new : LetterReused(m, k))
    BY <1>2 DEF Insert
  <2>2. given' = given /\ slot'[d] = m
    BY <1>2 DEF Insert
  <2>3. CASE l \in new
    <3>1. at'[l] = m /\ at[l] = None
      BY <2>1, <2>3 DEF Free
    <3>2. reused' \/ ~LetterReused(m, l)
      BY <2>1, <2>3
    <3> QED
      BY <1>2, <2>2, <3>1, <3>2 DEF Comes
  <2>4. CASE l \notin new
    BY <2>1, <2>2, <2>4 DEF Stays
  <2> QED
    BY <2>3, <2>4
<1>3. ASSUME NEW d \in Disk, Remove(d) PROVE Stays(l) \/ Lost(l)
  BY <1>3 DEF Remove, Without, LettersOnDisk, Stays, Lost
<1>4. ASSUME NEW d \in Disk, WindowsLetters(d) PROVE Stays(l) \/ Comes(l)
  <2>1. PICK k \in Free : /\ at' = [at EXCEPT ![k] = slot[d]]
                          /\ reused' = (reused \/ LetterReused(slot[d], k))
    BY <1>4 DEF WindowsLetters
  <2>2. given' = given /\ slot' = slot /\ slot[d] \in Medium
    BY <1>4 DEF WindowsLetters
  <2>3. CASE l = k
    BY <1>4, <2>1, <2>2, <2>3 DEF Comes, Free
  <2>4. CASE l # k
    BY <2>1, <2>2, <2>4 DEF Stays
  <2> QED
    BY <2>3, <2>4
<1>5. ASSUME NEW t \in Thread, Delete(t) PROVE Stays(l) \/ Lost(l)
  BY <1>5 DEF Delete, Without, Stays, Lost
<1>6. ASSUME TakeLetters PROVE Stays(l) \/ Lost(l)
  BY <1>6 DEF TakeLetters, Without, Stays, Lost, Histories
<1>7. CASE Eject
  BY <1>7 DEF Eject, Without, LettersOnDisk, Stays, Lost
<1>8. CASE GiveLetter
  <2>1. /\ job.pick \in Free /\ at' = [at EXCEPT ![job.pick] = slot[job.target]]
        /\ given' = given \cup {job.pick} /\ slot[job.target] # None /\ slot' = slot
        /\ reused' = (reused \/ LetterReused(slot[job.target], job.pick))
    BY <1>8 DEF GiveLetter
  <2>2. job.target \in Disk /\ slot[job.target] \in Medium
    BY <1>8, <2>1 DEF GiveLetter, JobShape, Working
  <2>3. CASE l = job.pick
    BY <1>8, <2>1, <2>2, <2>3 DEF Comes, Free
  <2>4. CASE l # job.pick
    BY <2>1, <2>4 DEF Stays
  <2> QED
    BY <2>3, <2>4
<1>9. CASE Restore
  <2> DEFINE m == slot[job.target]
             was == LettersOnDisk(job.target)
  <2>1. PICK new \in {{}} \cup {{k} : k \in Free \cup was} :
          /\ at' = [k \in Letter |-> IF k \in new THEN m
                                       ELSE IF k \in was THEN None ELSE at[k]]
          /\ given' = (given \ was) \cup new
          /\ reused' = (reused \/ \E k \in new : LetterReused(m, k))
    BY <1>9 DEF Restore
  <2>2. job.target \in Disk /\ m \in Medium /\ slot' = slot
    BY <1>9 DEF Restore, JobShape, Working
  <2>3. CASE l \in new
    <3>1. at'[l] = m /\ at[l] \in {None, m} /\ l \in given'
      BY <2>1, <2>3 DEF Free, LettersOnDisk
    <3>2. reused' \/ ~LetterReused(m, l)
      BY <2>1, <2>3
    <3> QED
      BY <1>9, <2>2, <3>1, <3>2 DEF Comes
  <2>4. CASE l \in was /\ l \notin new
    BY <2>1, <2>4 DEF Lost
  <2>5. CASE l \notin was /\ l \notin new
    BY <2>1, <2>5 DEF Stays
  <2> QED
    BY <2>3, <2>4, <2>5
<1>10. CASE Outside \/ Window
  BY <1>1, <1>2, <1>3, <1>4, <1>10 DEF Outside, Window, BringUp, Refresh, Arm, plugs
<1>11. ASSUME NEW t \in Thread, Strip(t) PROVE Stays(l) \/ Lost(l)
  BY <1>1, <1>5, <1>11 DEF Strip, Look, Dismount, DeleteFails, Poll, Stopped, plugs
<1>12. CASE Flash
  BY <1>1, <1>6, <1>7, <1>8, <1>9, <1>12 DEF Flash, Build, GiveUp, Prepare, OpenFails, WriteEnds,
     Join, JoinTimesOut, PickLetter, GiveLetterFails, RestoreFails, plugs
<1> QED
  BY <1>10, <1>11, <1>12 DEF Next

\* Who plugs.
LEMMA OtherSlots ==
  ASSUME TypeOK, Next
  PROVE  \/ UNCHANGED slot \/ Eject
         \/ \E d \in Disk : Remove(d) \/ \E m \in Medium : Insert(m, d)
<1>1. CASE Outside \/ Window
  BY <1>1 DEF Outside, Window, WindowsLetters, BringUp, Refresh, Arm, plugs
<1>2. ASSUME NEW t \in Thread, Strip(t) PROVE slot' = slot
  BY <1>2 DEF Strip, Look, Dismount, Delete, DeleteFails, Poll, Stopped, plugs
<1>3. CASE Flash
  BY <1>3 DEF Flash, Build, GiveUp, Prepare, OpenFails, TakeLetters, WriteEnds,
     Join, JoinTimesOut, PickLetter, GiveLetter, GiveLetterFails, Restore, RestoreFails, plugs
<1> QED
  BY <1>1, <1>2, <1>3 DEF Next

LEMMA SlotMoves ==
  ASSUME TypeOK, JobShape, Next, NEW d \in Disk
  PROVE  \/ slot'[d] \in {slot[d], None}
         \/ slot'[d] \in Medium /\ Insert(slot'[d], d)
<1> USE DEF TypeOK, PlugTypes
<1>1. ASSUME NEW m \in Medium, NEW e \in Disk, Insert(m, e)
      PROVE  slot'[d] = slot[d] \/ (slot'[d] \in Medium /\ Insert(slot'[d], d))
  <2>1. slot' = [slot EXCEPT ![e] = m]
    BY <1>1 DEF Insert
  <2> QED
    BY <1>1, <2>1
<1>2. ASSUME NEW e \in Disk, Remove(e) PROVE slot'[d] \in {slot[d], None}
  BY <1>2 DEF Remove
<1>3. CASE Eject
  BY <1>3 DEF Eject
<1> QED
  BY <1>1, <1>2, <1>3, OtherSlots

\* What is no longer plugged in has no letters.
LEMMA Unplugs ==
  ASSUME TypeOK, JobShape, Next, NEW d \in Disk, slot[d] # None, slot'[d] # slot[d]
  PROVE  \E e \in Disk : slot' = [slot EXCEPT ![e] = None] /\ at' = Without(LettersOnDisk(e))
<1> USE DEF TypeOK, PlugTypes
<1>1. ASSUME NEW m \in Medium, NEW e \in Disk, Insert(m, e) PROVE slot'[d] = slot[d]
  BY <1>1 DEF Insert
<1>2. ASSUME NEW e \in Disk, Remove(e)
      PROVE  slot' = [slot EXCEPT ![e] = None] /\ at' = Without(LettersOnDisk(e))
  BY <1>2 DEF Remove
<1>3. ASSUME Eject
      PROVE  \E e \in Disk : slot' = [slot EXCEPT ![e] = None] /\ at' = Without(LettersOnDisk(e))
  BY <1>3 DEF Eject, JobShape, Working
<1> QED
  BY <1>1, <1>2, <1>3, OtherSlots

-----------------------------------------------------------------------------
(* Every variable keeps its type.                                           *)

LEMMA StepPlugTypes == ASSUME TypeOK, JobShape, Next PROVE PlugTypes'
<1> USE CardLettersAssumption DEF TypeOK, PlugTypes
<1>1. ASSUME UNCHANGED plugs, given' \in SUBSET Letter PROVE PlugTypes'
  BY <1>1 DEF plugs
<1>2. ASSUME NEW m \in Medium, NEW d \in Disk, Insert(m, d) PROVE PlugTypes'
  <2>1. moves' \in 0 .. MaxMoves
    BY <1>2 DEF Insert, Move
  <2>2. slot' \in [Disk -> Medium \cup {None}] /\ given' = given
    BY <1>2 DEF Insert
  <2>3. at' \in [Letter -> Medium \cup {None}]
    BY <1>2 DEF Insert
  <2> QED
    BY <2>1, <2>2, <2>3
<1>3. ASSUME NEW d \in Disk, Remove(d) \/ WindowsLetters(d) PROVE PlugTypes'
  <2>1. moves' \in 0 .. MaxMoves
    BY <1>3 DEF Remove, WindowsLetters, Move
  <2>2. CASE Remove(d)
    BY <2>1, <2>2 DEF Remove, Without
  <2>3. CASE WindowsLetters(d)
    BY <2>1, <2>3 DEF WindowsLetters, Free
  <2> QED
    BY <1>3, <2>2, <2>3
<1>4. ASSUME NEW t \in Thread, Delete(t) PROVE PlugTypes'
  BY <1>4 DEF Delete, Without
<1>5. ASSUME TakeLetters PROVE PlugTypes'
  BY <1>5 DEF TakeLetters, Without
<1>6. CASE Eject
  BY <1>6 DEF Eject, Without
<1>7. CASE GiveLetter
  <2>1. slot[job.target] \in Medium
    BY <1>7 DEF GiveLetter, JobShape, Working
  <2> QED
    BY <1>7, <2>1 DEF GiveLetter, Free
<1>8. CASE Restore
  <2>1. slot[job.target] \in Medium
    BY <1>8 DEF Restore, JobShape, Working
  <2> QED
    BY <1>8, <2>1 DEF Restore, Free, LettersOnDisk
<1>9. CASE Outside \/ Window
  BY <1>1, <1>2, <1>3, <1>9 DEF Outside, Window, BringUp, Refresh, Arm
<1>10. ASSUME NEW t \in Thread, Strip(t) PROVE PlugTypes'
  BY <1>1, <1>4, <1>10 DEF Strip, Look, Dismount, DeleteFails, Poll, Stopped
<1>11. CASE Flash
  BY <1>1, <1>5, <1>6, <1>7, <1>8, <1>11 DEF Flash, Build, GiveUp, Prepare, OpenFails,
     WriteEnds, Join, JoinTimesOut, PickLetter, GiveLetterFails, RestoreFails
<1> QED
  BY <1>9, <1>10, <1>11 DEF Next

LEMMA StepWindowTypes == ASSUME TypeOK, Next PROVE WindowTypes'
<1> USE DEF TypeOK, WindowTypes, PlugTypes
<1>1. CASE UNCHANGED <<guard, rows>>
  BY <1>1 DEF guard, rows
<1>2. CASE DisableAutomount /\ UNCHANGED rows
  BY <1>2 DEF DisableAutomount, rows
<1>3. CASE BringUp \/ Refresh
  BY <1>3 DEF BringUp, Refresh, guard
<1>4. ASSUME NEW ok \in BOOLEAN, Arm(ok) PROVE WindowTypes'
  <2>1. UNCHANGED <<up, list>>
    BY <1>4 DEF Arm, rows
  <2>2. arming' \in BOOLEAN /\ defence' \in BOOLEAN
    BY <1>4 DEF Arm
  <2>3. automount' \in BOOLEAN
    BY <1>4 DEF Arm
  <2> QED
    BY <2>1, <2>2, <2>3
<1>5. CASE Outside \/ Window
  BY <1>1, <1>3, <1>4, <1>5 DEF Outside, Window, Insert, Remove, WindowsLetters
<1>6. ASSUME NEW t \in Thread, Strip(t) PROVE UNCHANGED <<guard, rows>>
  BY <1>6 DEF Strip, Look, Dismount, Delete, DeleteFails, Poll, Stopped
<1>7. CASE Flash
  BY <1>1, <1>2, <1>7 DEF Flash, Build, GiveUp, Prepare, OpenFails, TakeLetters, WriteEnds, Join,
     JoinTimesOut, Eject, PickLetter, GiveLetter, GiveLetterFails, Restore, RestoreFails
<1> QED
  BY <1>1, <1>5, <1>6, <1>7 DEF Next

LEMMA StepThreads ==
  ASSUME TypeOK, Shapes, JobShape, Next
  PROVE  thr' \in [Thread -> ThreadType] /\ Shapes'
<1>1. thr \in [Thread -> ThreadType]
  BY DEF TypeOK
<1>2. CASE UNCHANGED thr
  BY <1>1, <1>2 DEF Shapes
<1>3. ASSUME NEW t \in Thread, NEW n \in ThreadType, thr' = [thr EXCEPT ![t] = n], Shape(n)
      PROVE  thr' \in [Thread -> ThreadType] /\ Shapes'
  BY <1>1, <1>3 DEF Shapes
<1> QED
  BY <1>2, <1>3, ThreadMoves

\* A flash is built, prepared, written, joined and finished.
LEMMA JobMoves ==
  ASSUME TypeOK, JobShape, Next
  PROVE  /\ job' \in JobType /\ JobShape'
         /\ \/ UNCHANGED job
            \/ job' = Idle /\ Working
            \/ \E d \in Disk : Build(d) /\ job'.target = d /\ job'.known = LettersOnDisk(d)
                               /\ job'.medium = slot[d] /\ job'.pc = "hash"
            \/ /\ Prepare /\ job'.target = job.target /\ job'.known = {} /\ job'.pc = "open"
               /\ job'.medium = slot[job.target]
            \/ /\ job'.pc \in {"join", "eject", "restore", "show"} /\ Working
               /\ job'.pc = "join" => job.pc = "open" /\ job'.dog = job.dog
               /\ job'.target = job.target /\ job'.known = {} /\ job'.medium = job.medium
<1> USE DEF TypeOK
<1>1. CASE UNCHANGED job
  BY <1>1 DEF JobShape, Working
<1>2. CASE job' = Idle /\ Working
  BY <1>2, IdleType DEF Idle, JobShape, Working
<1>3. ASSUME NEW d \in Disk, Build(d)
      PROVE  /\ job' \in JobType /\ JobShape'
             /\ job'.target = d /\ job'.known = LettersOnDisk(d)
             /\ job'.medium = slot[d] /\ job'.pc = "hash"
  BY <1>3, IdleType DEF Build, Idle, JobType, JobShape, Working, LettersOnDisk, PlugTypes
<1>4. CASE Prepare
  BY <1>4 DEF Prepare, JobType, JobShape, Working, PlugTypes
<1>5. ASSUME NEW after \in {"eject", "restore", "idle"}, WriteEnds(after)
      PROVE  /\ job' \in JobType /\ JobShape' /\ job'.pc = "join" /\ Working
             /\ job.pc = "open" /\ job'.dog = job.dog
             /\ job'.target = job.target /\ job'.known = {} /\ job'.medium = job.medium
  BY <1>5 DEF WriteEnds, JobType, JobShape, Working
<1>6. CASE job' = Joined /\ job.pc = "join"
  <2>1. CASE job.after = "idle"
    BY <1>2, <1>6, <2>1 DEF Joined, Working
  <2>2. CASE job.after # "idle"
    <3>1. job.after \in {"eject", "restore"}
      BY <2>2 DEF JobType
    <3> QED
      BY <1>6, <2>2, <3>1 DEF Joined, JobType, JobShape, Working
  <2> QED
    BY <2>1, <2>2
<1>7. CASE PickLetter
  <2>1. CASE Free = {}
    BY <1>2, <1>7, <2>1 DEF PickLetter, Working
  <2>2. CASE Free # {}
    <3>1. Free \subseteq Letter
      BY DEF Free
    <3>2. FirstFree \in Letter
      BY <2>2, <3>1, LeastLetter DEF FirstFree
    <3> QED
      BY <1>7, <2>2, <3>2 DEF PickLetter, JobType, JobShape, Working
  <2> QED
    BY <2>1, <2>2
<1>8. CASE Outside \/ Window
  BY <1>1, <1>8 DEF Outside, Window, Insert, Remove, WindowsLetters, BringUp, Refresh, Arm
<1>9. ASSUME NEW t \in Thread, Strip(t) PROVE UNCHANGED job
  BY <1>9 DEF Strip, Look, Dismount, Delete, DeleteFails, Poll, Stopped
<1>10. CASE GiveUp \/ OpenFails \/ Eject \/ GiveLetter \/ GiveLetterFails \/ Restore \/ RestoreFails
  BY <1>2, <1>10 DEF GiveUp, OpenFails, Eject, GiveLetter, GiveLetterFails, Restore, RestoreFails,
     Working
<1>11. CASE Join \/ JoinTimesOut
  BY <1>6, <1>11 DEF Join, JoinTimesOut
<1>12. CASE Prepare
  BY <1>4, <1>12 DEF Prepare
<1> HIDE DEF TypeOK
<1>13. CASE Flash
  BY <1>3, <1>5, <1>7, <1>10, <1>11, <1>12, <1>13 DEF Flash
<1> QED
  BY <1>1, <1>8, <1>9, <1>13 DEF Next

LEMMA StepHistories == ASSUME TypeOK, Next PROVE Histories'
<1> USE DEF TypeOK, Histories
<1>1. ASSUME UNCHANGED seen PROVE Histories'
  BY <1>1 DEF seen
<1>2. ASSUME NEW m \in Medium, NEW d \in Disk, Insert(m, d) PROVE Histories'
  <2>1. UNCHANGED <<harmed, late, robbed, missed>>
    BY <1>2 DEF Insert
  <2>2. wild' \in SUBSET {"arming", "later", "swap"}
    BY <1>2 DEF Insert
  <2>3. reused' \in BOOLEAN
    BY <1>2 DEF Insert
  <2> QED
    BY <2>1, <2>2, <2>3
<1>3. ASSUME NEW d \in Disk, Remove(d) \/ WindowsLetters(d) PROVE Histories'
  BY <1>1, <1>3 DEF Remove, WindowsLetters
<1>4. ASSUME NEW t \in Thread, Strip(t) PROVE Histories'
  BY <1>1, <1>4 DEF Strip, Look, Dismount, Delete, DeleteFails, Poll, Stopped, Harm, Robs
<1>5. CASE TakeLetters \/ Eject
  BY <1>5 DEF TakeLetters, Eject, Harm, Robs
<1>6. CASE JoinTimesOut \/ GiveLetter
  BY <1>6 DEF JoinTimesOut, GiveLetter
<1>7. CASE Restore
  BY <1>7 DEF Restore, Harm, Robs
<1>8. CASE Outside \/ Window
  BY <1>1, <1>2, <1>3, <1>8 DEF Outside, Window, BringUp, Refresh, Arm
<1>9. CASE Flash
  BY <1>1, <1>5, <1>6, <1>7, <1>9 DEF Flash, Build, GiveUp, Prepare, OpenFails, WriteEnds, Join,
     PickLetter, GiveLetterFails, RestoreFails
<1> QED
  BY <1>4, <1>8, <1>9 DEF Next

-----------------------------------------------------------------------------
(* The rest of the invariant.                                               *)

LEMMA StepPlugged == ASSUME TypeOK, JobShape, Plugged, Next PROVE Plugged'
<1> USE DEF TypeOK, PlugTypes
<1>1. \A d, e \in Disk : d # e /\ slot'[d] # None => slot'[d] # slot'[e]
  <2>1. ASSUME NEW m \in Medium, NEW c \in Disk, Insert(m, c), NEW d \in Disk, NEW e \in Disk,
               d # e, slot'[d] # None
        PROVE  slot'[d] # slot'[e]
    BY <2>1, CardLettersAssumption DEF Insert, Plugged
  <2>2. ASSUME \A d \in Disk : slot'[d] \in {slot[d], None},
               NEW d \in Disk, NEW e \in Disk, d # e, slot'[d] # None
        PROVE  slot'[d] # slot'[e]
    BY <2>2 DEF Plugged
  <2> QED
    BY <2>1, <2>2, SlotMoves
<1>2. ASSUME NEW l \in Letter, at'[l] # None PROVE \E d \in Disk : slot'[d] = at'[l]
  <2>1. CASE Comes(l)
    BY <2>1 DEF Comes
  <2>2. CASE at'[l] = at[l]
    <3>1. PICK d \in Disk : slot[d] = at[l]
      BY <1>2, <2>2 DEF Plugged
    <3>2. ASSUME NEW e \in Disk, slot' = [slot EXCEPT ![e] = None],
                 at' = Without(LettersOnDisk(e))
          PROVE  slot'[d] = at'[l]
      BY <1>2, <2>2, <3>1, <3>2 DEF Without, LettersOnDisk
    <3>3. CASE slot'[d] = slot[d]
      BY <2>2, <3>1, <3>3
    <3>4. CASE slot'[d] # slot[d]
      BY <1>2, <2>2, <3>1, <3>2, <3>4, Unplugs DEF Insert
    <3> QED
      BY <3>3, <3>4
  <2> QED
    BY <1>2, <2>1, <2>2, LetterMoves DEF Stays, Lost
<1> QED
  BY <1>1, <1>2 DEF Plugged

LEMMA StepGivenInUse == ASSUME TypeOK, JobShape, GivenInUse, Next PROVE GivenInUse'
<1> SUFFICES ASSUME NEW l \in given' PROVE at'[l] # None
  BY DEF GivenInUse
<1>1. l \in Letter
  BY StepPlugTypes DEF PlugTypes
<1>2. CASE Stays(l)
  BY <1>2 DEF Stays, GivenInUse
<1>3. CASE Comes(l)
  BY <1>3, CardLettersAssumption DEF Comes
<1> QED
  BY <1>1, <1>2, <1>3, LetterMoves DEF Lost

\* The histories are kept.
LEMMA Remembered ==
  ASSUME TypeOK, Next
  PROVE  /\ ~reused' => ~reused
         /\ ~late' => ~late
         /\ ~missed' => ~missed
         /\ wild \subseteq wild'
<1> USE DEF TypeOK, Histories
<1>1. CASE UNCHANGED seen
  BY <1>1 DEF seen
<1>2. CASE Outside
  BY <1>1, <1>2 DEF Outside, Insert, Remove, WindowsLetters
<1>3. CASE Window
  BY <1>1, <1>3 DEF Window, BringUp, Refresh, Arm
<1>4. ASSUME NEW t \in Thread, Strip(t)
      PROVE  /\ ~reused' => ~reused
             /\ ~late' => ~late
             /\ ~missed' => ~missed
             /\ wild \subseteq wild'
  BY <1>1, <1>4 DEF Strip, Look, Dismount, Delete, DeleteFails, Poll, Stopped
<1>5. CASE Flash
  BY <1>1, <1>5 DEF Flash, Build, GiveUp, Prepare, OpenFails, TakeLetters, WriteEnds, Join,
     JoinTimesOut, Eject, PickLetter, GiveLetter, GiveLetterFails, Restore, RestoreFails
<1> QED
  BY <1>2, <1>3, <1>4, <1>5 DEF Next

\* Without reuse, what comes under a number or a letter is not what somebody waits for.
LEMMA Numbers ==
  ASSUME TypeOK, JobShape, Next, ~reused', NEW d \in Disk
  PROVE  \/ slot'[d] \in {slot[d], None}
         \/ ~NumberReused(slot'[d], d) /\ UNCHANGED <<list, thr, job>>
BY SlotMoves DEF Insert, rows

LEMMA LettersUsed ==
  ASSUME TypeOK, JobShape, Next, ~reused', NEW l \in Letter
  PROVE  at'[l] \in {at[l], None} \/ ~LetterReused(at'[l], l)
BY LetterMoves DEF Stays, Lost, Comes

\* The list is read as a whole.
LEMMA Rows ==
  ASSUME Next
  PROVE  \/ UNCHANGED rows
         \/ list' = slot /\ slot' = slot /\ UNCHANGED <<at, given, job>> /\ (BringUp \/ Refresh)
<1>1. CASE Outside \/ Window
  BY <1>1 DEF Outside, Window, Insert, Remove, WindowsLetters, BringUp, Refresh, Arm, plugs
<1>2. ASSUME NEW t \in Thread, Strip(t) PROVE UNCHANGED rows
  BY <1>2 DEF Strip, Look, Dismount, Delete, DeleteFails, Poll, Stopped
<1>3. CASE Flash
  BY <1>3 DEF Flash, Build, GiveUp, Prepare, OpenFails, TakeLetters, WriteEnds,
     Join, JoinTimesOut, Eject, PickLetter, GiveLetter, GiveLetterFails, Restore, RestoreFails
<1> QED
  BY <1>1, <1>2, <1>3 DEF Next

LEMMA StepRowsAimed == ASSUME TypeOK, JobShape, Next, ~reused', RowsAimed PROVE RowsAimed'
<1> SUFFICES ASSUME NEW d \in Disk, list'[d] # None, list'[d] \notin Fixed
             PROVE  slot'[d] \notin Fixed
  BY DEF RowsAimed
<1>1. None \notin Fixed
  BY CardLettersAssumption
<1>2. CASE UNCHANGED rows
  BY <1>1, <1>2, Numbers DEF rows, RowsAimed, NumberReused
<1>3. CASE list' = slot /\ slot' = slot
  BY <1>3
<1> QED
  BY <1>2, <1>3, Rows

LEMMA StepScansAimed ==
  ASSUME TypeOK, Shapes, JobShape, Next, ~reused', RowsAimed', ScansAimed PROVE ScansAimed'
<1>0. None \notin Fixed /\ thr \in [Thread -> ThreadType]
  BY CardLettersAssumption DEF TypeOK
<1>1. ASSUME NEW t \in Thread, thr[t].kind = "scan", NEW l \in Hands(thr[t])
      PROVE  at'[l] \notin Fixed
  BY <1>0, <1>1, LettersUsed DEF ScansAimed, LetterReused, Hands
<1>2. ASSUME NEW t \in Thread, thr[t].kind = "scan", NEW d \in thr[t].ids
      PROVE  slot'[d] \notin Fixed
  BY <1>0, <1>2, Numbers DEF ScansAimed, NumberReused, ThreadType
<1>3. CASE UNCHANGED thr
  BY <1>1, <1>2, <1>3 DEF ScansAimed
<1>4. ASSUME NEW t \in Thread, NEW n \in ThreadType, thr' = [thr EXCEPT ![t] = n],
             n.kind = "scan" =>
               (\A d \in n.ids : slot'[d] \notin Fixed) /\ (\A l \in Hands(n) : at'[l] \notin Fixed)
      PROVE  ScansAimed'
  <2> SUFFICES ASSUME NEW u \in Thread, thr'[u].kind = "scan"
               PROVE  /\ \A d \in thr'[u].ids : slot'[d] \notin Fixed
                      /\ \A l \in Hands(thr'[u]) : at'[l] \notin Fixed
    BY DEF ScansAimed
  <2>1. thr'[u] = IF u = t THEN n ELSE thr[u]
    BY <1>0, <1>4
  <2> QED
    BY <1>1, <1>2, <1>4, <2>1
<1>5. ASSUME NEW t \in Thread, NEW n \in ThreadType, n.kind = "scan",
             \/ NewScan(t, n) \/ NewDog(t, n) \/ Looks(t, n) \/ Takes(t, n)
             \/ Polls(t, n) \/ Told(t, n) \/ Leaves(t, n)
      PROVE  (\A d \in n.ids : slot'[d] \notin Fixed) /\ (\A l \in Hands(n) : at'[l] \notin Fixed)
  <2>1. CASE NewScan(t, n)
    BY <2>1 DEF NewScan, StrippableIds, RowsAimed
  <2>2. CASE Looks(t, n)
    <3>1. PICK d \in thr[t].ids : n.ids = thr[t].ids \ {d} /\ Hands(n) = LettersOnDisk(d)
      BY <2>2 DEF Looks
    <3>2. thr[t].kind = "scan" /\ UNCHANGED <<slot, at>>
      BY <1>5, <2>2 DEF Looks, Look, plugs, None
    <3> QED
      BY <1>2, <3>1, <3>2 DEF LettersOnDisk
  <2>3. CASE Takes(t, n) \/ Told(t, n)
    <3>1. thr[t].kind = "scan" /\ n.ids = thr[t].ids /\ Hands(n) \subseteq Hands(thr[t])
      BY <1>5, <2>3 DEF Takes, Told, None
    <3> QED
      BY <1>1, <1>2, <3>1
  <2> QED
    BY <1>5, <2>1, <2>2, <2>3 DEF NewDog, Polls, Leaves, Off, None
<1> QED
  BY <1>3, <1>4, <1>5, ThreadMoves

LEMMA StepJobAimed == ASSUME TypeOK, JobShape, Next, ~reused', JobAimed PROVE JobAimed'
<1>0. None \notin Fixed /\ job.known \subseteq Letter
  BY CardLettersAssumption DEF TypeOK, JobType
<1>1. ASSUME NEW l \in job.known, at'[l] \in Fixed PROVE at'[l] = job.medium
  BY <1>0, <1>1, LettersUsed DEF JobAimed, LetterReused
<1>2. ASSUME Working PROVE slot'[job.target] \in {None, job.medium}
  BY <1>2, Numbers DEF JobAimed, JobShape, NumberReused
<1>3. CASE UNCHANGED job
  BY <1>1, <1>2, <1>3 DEF JobAimed, Working
<1>4. CASE job' = Idle
  BY <1>4 DEF JobAimed, Working, Idle
<1>5. ASSUME NEW d \in Disk, Build(d), job'.target = d, job'.known = LettersOnDisk(d),
             job'.medium = slot[d]
      PROVE  JobAimed'
  BY <1>5 DEF Build, plugs, JobAimed, LettersOnDisk
<1>6. CASE Prepare /\ job'.target = job.target /\ job'.known = {} /\ job'.medium = slot[job.target]
  BY <1>6 DEF Prepare, TakeLetters, JobAimed
<1>7. CASE Working /\ job'.target = job.target /\ job'.known = {} /\ job'.medium = job.medium
  BY <1>2, <1>7 DEF JobAimed
<1> QED
  BY <1>3, <1>4, <1>5, <1>6, <1>7, JobMoves

\* An open flash keeps its target and its watchdog until that has exited.
LEMMA OpenFlash ==
  ASSUME TypeOK, JobShape, Next, job.pc \in {"open", "join"}
  PROVE  \/ /\ job'.pc \in {"open", "join"} /\ job'.dog = job.dog
            /\ job'.medium = job.medium /\ job'.target = job.target
         \/ late'
         \/ thr[job.dog].pc = "off" /\ UNCHANGED thr
<1> USE DEF TypeOK
<1>1. CASE UNCHANGED job
  BY <1>1
<1>2. CASE Outside \/ Window
  BY <1>1, <1>2 DEF Outside, Window, Insert, Remove, WindowsLetters, BringUp, Refresh, Arm
<1>3. ASSUME NEW t \in Thread, Strip(t) PROVE UNCHANGED job
  BY <1>3 DEF Strip, Look, Dismount, Delete, DeleteFails, Poll, Stopped
<1>4. ASSUME NEW after \in {"eject", "restore", "idle"}, WriteEnds(after)
      PROVE  /\ job'.pc = "join" /\ job'.dog = job.dog
             /\ job'.medium = job.medium /\ job'.target = job.target
  BY <1>4 DEF WriteEnds, JobType
<1>5. CASE Join \/ JoinTimesOut
  BY <1>5 DEF Join, JoinTimesOut
<1>6. CASE Flash
  BY <1>4, <1>5, <1>6 DEF Flash, Build, GiveUp, Prepare, OpenFails, Eject, PickLetter, GiveLetter,
     GiveLetterFails, Restore, RestoreFails, Working
<1> QED
  BY <1>1, <1>2, <1>3, <1>6 DEF Next

LEMMA StepDogAtWork ==
  ASSUME TypeOK, Shapes, JobShape, Next, DogAtWork PROVE DogAtWork'
<1> SUFFICES ASSUME ~late', NEW u \in Thread, thr'[u].kind = "dog"
             PROVE  job'.pc \in {"open", "join"} /\ job'.dog = u
  BY DEF DogAtWork
<1>1. CASE thr[u].kind = "dog"
  <2>1. job.pc \in {"open", "join"} /\ job.dog = u
    BY <1>1, Remembered DEF DogAtWork
  <2>2. thr[u].pc # "off"
    BY <1>1 DEF Shapes, Shape, None
  <2> QED
    BY <2>1, <2>2, OpenFlash
<1>2. CASE thr[u].kind # "dog"
  <2>1. PICK t \in Thread, n \in ThreadType :
          /\ thr' = [thr EXCEPT ![t] = n]
          /\ \/ NewScan(t, n) \/ NewDog(t, n) \/ Looks(t, n) \/ Takes(t, n)
             \/ Polls(t, n) \/ Told(t, n) \/ Leaves(t, n)
    BY <1>2, ThreadMoves
  <2>2. u = t /\ n.kind = "dog"
    BY <1>2, <2>1 DEF TypeOK
  <2>3. NewDog(t, n)
    BY <1>2, <2>1, <2>2 DEF NewScan, Looks, Takes, Polls, Told, Leaves, Off, None
  <2> QED
    BY <2>2, <2>3 DEF NewDog, Prepare, TypeOK, JobType
<1> QED
  BY <1>1, <1>2

\* A watchdog is given no letters but its target's.
LEMMA DogHands ==
  ASSUME TypeOK, Shapes, JobShape, Next, NEW u \in Thread, thr'[u].kind = "dog",
         NEW l \in Hands(thr'[u])
  PROVE  /\ thr[u].kind = "dog"
         /\ \/ l \in Hands(thr[u])
            \/ l \in LettersOnDisk(job.target) /\ UNCHANGED <<plugs, job, given>>
<1>1. CASE UNCHANGED thr
  BY <1>1
<1>2. ASSUME NEW t \in Thread, NEW n \in ThreadType, thr' = [thr EXCEPT ![t] = n], Shape(n),
             \/ NewScan(t, n) \/ NewDog(t, n) \/ Looks(t, n) \/ Takes(t, n)
             \/ Polls(t, n) \/ Told(t, n) \/ Leaves(t, n)
      PROVE  /\ thr[u].kind = "dog"
             /\ \/ l \in Hands(thr[u])
                \/ l \in LettersOnDisk(job.target) /\ UNCHANGED <<plugs, job, given>>
  <2>1. CASE u # t
    BY <1>2, <2>1 DEF TypeOK
  <2>2. CASE u = t
    <3>1. n = thr'[u]
      BY <1>2, <2>2 DEF TypeOK
    <3>2. n.kind = "dog" /\ l \in Hands(n)
      BY <3>1
    <3>3. ~NewScan(t, n) /\ ~NewDog(t, n) /\ ~Leaves(t, n)
      BY <3>2 DEF NewScan, NewDog, Leaves, Off, None
    <3>4. CASE Looks(t, n)
      <4>1. thr[t].kind = "dog"
        BY <3>2, <3>4 DEF Looks, None
      <4>2. thr[t].ids = {}
        BY <4>1 DEF Shapes, Shape
      <4> QED
        BY <3>4, <4>2 DEF Looks
    <3>5. CASE Takes(t, n) \/ Told(t, n)
      BY <2>2, <3>2, <3>5 DEF Takes, Told, None
    <3>6. CASE Polls(t, n)
      BY <2>2, <3>2, <3>6 DEF Polls, Poll
    <3> QED
      BY <1>2, <3>3, <3>4, <3>5, <3>6
  <2> QED
    BY <2>1, <2>2
<1> QED
  BY <1>1, <1>2, ThreadMoves

LEMMA StepDogsAimed ==
  ASSUME TypeOK, Shapes, JobShape, Next, ~reused', ~late', JobAimed, DogsAimed,
         DogAtWork, DogAtWork'
  PROVE  DogsAimed'
<1> SUFFICES ASSUME NEW u \in Thread, thr'[u].kind = "dog", NEW l \in Hands(thr'[u]),
                    at'[l] \in Fixed
             PROVE  at'[l] = job'.medium
  BY DEF DogsAimed
<1>1. thr[u].kind = "dog" /\ job.pc \in {"open", "join"} /\ job.dog = u
  BY DogHands, Remembered DEF DogAtWork
<1>2. thr[u].pc # "off"
  BY <1>1 DEF Shapes, Shape, None
<1>3. job'.medium = job.medium
  BY <1>1, <1>2, OpenFlash
<1>4. l \in Letter /\ None \notin Fixed
  BY CardLettersAssumption DEF Hands
<1>5. CASE l \in Hands(thr[u])
  <2>1. at'[l] = at[l]
    BY <1>4, <1>5, LettersUsed DEF LetterReused, Hands
  <2> QED
    BY <1>1, <1>3, <1>5, <2>1 DEF DogsAimed
<1>6. CASE l \in LettersOnDisk(job.target) /\ UNCHANGED <<plugs, job, given>>
  BY <1>1, <1>3, <1>6 DEF LettersOnDisk, JobAimed, Working, plugs
<1> QED
  BY <1>5, <1>6, DogHands

LEMMA StepGivenKept ==
  ASSUME TypeOK, Shapes, JobShape, Plugged, GivenInUse, GivenInUse', DogAtWork, GivenKept, Next
  PROVE  GivenKept'
<1> SUFFICES ASSUME ~late', job'.pc \in {"open", "join"}, NEW l \in given'
             PROVE  /\ at'[l] # slot'[job'.target]
                    /\ \A u \in Thread : thr'[u].kind = "dog" => l \notin Hands(thr'[u])
  BY DEF GivenKept
<1>1. l \in Letter /\ at'[l] # None /\ ~late
  BY StepPlugTypes, Remembered DEF PlugTypes, GivenInUse
<1>2. CASE job.pc \in {"open", "join"}
  <2>1. l \in given /\ at'[l] = at[l]
    BY <1>1, <1>2, LetterMoves DEF Stays, Lost, Comes, GivenInUse, GiveLetter, Restore
  <2>2. at[l] # slot[job.target] /\ \A u \in Thread : thr[u].kind = "dog" => l \notin Hands(thr[u])
    BY <1>1, <1>2, <2>1 DEF GivenKept
  <2>3. job.target \in Disk /\ job'.target = job.target
    <3>1. job' # Idle /\ job'.pc # "hash"
      BY DEF Idle
    <3> QED
      BY <1>2, <3>1, JobMoves DEF JobShape, Working
  <2>4. ASSUME Insert(slot'[job.target], job.target) PROVE at[l] # slot'[job.target]
    BY <1>1, <2>1, <2>4 DEF Insert, Plugged
  <2>5. at'[l] # slot'[job'.target]
    BY <1>1, <2>1, <2>2, <2>3, <2>4, SlotMoves
  <2>6. \A u \in Thread : thr'[u].kind = "dog" => l \notin Hands(thr'[u])
    BY <2>1, <2>2, DogHands DEF LettersOnDisk
  <2> QED
    BY <2>5, <2>6
<1>3. CASE job.pc \notin {"open", "join"}
  <2>1. \A u \in Thread : thr[u].kind # "dog"
    BY <1>1, <1>3 DEF DogAtWork
  <2>2. Prepare /\ job'.target = job.target
    BY <1>3, JobMoves DEF Idle
  <2>3. slot' = slot /\ l \notin LettersOnDisk(job.target) /\ at'[l] = at[l]
    BY <1>1, <2>2 DEF Prepare, TakeLetters, Without
  <2> QED
    BY <1>1, <2>1, <2>2, <2>3, DogHands DEF LettersOnDisk
<1> QED
  BY <1>2, <1>3

LEMMA StepGivenAimed ==
  ASSUME TypeOK, JobShape, Plugged, GivenInUse, GivenInUse', GivenAimed, Next
  PROVE  GivenAimed'
<1> SUFFICES ASSUME Working', NEW l \in given', l \in job'.known \/ at'[l] = slot'[job'.target]
             PROVE  at'[l] = job'.medium
  BY DEF GivenAimed
<1>1. l \in Letter /\ at'[l] # None
  BY StepPlugTypes DEF PlugTypes, GivenInUse
<1>2. job' # Idle
  BY DEF Working, Idle
<1>3. ASSUME NEW d \in Disk, Build(d), job'.target = d, job'.known = LettersOnDisk(d),
             job'.medium = slot[d]
      PROVE  at'[l] = job'.medium
  BY <1>3 DEF Build, plugs, LettersOnDisk
<1>4. CASE Prepare /\ job'.target = job.target /\ job'.known = {} /\ job'.medium = slot[job.target]
  BY <1>4 DEF Prepare, TakeLetters
<1>5. CASE /\ Working /\ job'.target = job.target /\ job'.medium = job.medium
           /\ job'.known \subseteq job.known
  <2>1. l \in given /\ at'[l] = at[l]
    BY <1>1, <1>2, LetterMoves DEF Stays, Lost, Comes, GivenInUse, GiveLetter, Restore
  <2>2. job.target \in Disk
    BY <1>5 DEF JobShape
  <2>3. ASSUME Insert(slot'[job.target], job.target) PROVE at[l] # slot'[job.target]
    BY <1>1, <2>1, <2>3 DEF Insert, Plugged
  <2>4. l \in job.known \/ at[l] = slot[job.target]
    BY <1>1, <1>5, <2>1, <2>2, <2>3, SlotMoves
  <2> QED
    BY <1>5, <2>1, <2>4 DEF GivenAimed
<1> QED
  BY <1>2, <1>3, <1>4, <1>5, JobMoves DEF Working

\* What is on somebody's list is taken before it leaves the list.
LEMMA PendingKept ==
  ASSUME TypeOK, Shapes, JobShape, Next, ~missed', NEW d \in Disk, NEW l \in Letter,
         Pending(d, l), at'[l] # None, at[l] # None, at[l] = slot[d]
  PROVE  Pending(d, l)'
<1>1. PICK u \in Thread : d \in thr[u].ids \/ l \in Hands(thr[u])
  BY DEF Pending
<1>2. CASE UNCHANGED thr
  BY <1>1, <1>2 DEF Pending
<1>3. ASSUME NEW t \in Thread, NEW n \in ThreadType, thr' = [thr EXCEPT ![t] = n],
             \/ NewScan(t, n) \/ NewDog(t, n) \/ Looks(t, n) \/ Takes(t, n)
             \/ Polls(t, n) \/ Told(t, n) \/ Leaves(t, n)
      PROVE  Pending(d, l)'
  <2>1. CASE u # t
    <3>1. thr'[u] = thr[u]
      BY <1>3, <2>1 DEF TypeOK
    <3> QED
      BY <1>1, <3>1 DEF Pending
  <2>2. CASE u = t
    <3>1. thr'[u] = n /\ Shape(thr[u])
      BY <1>3, <2>2 DEF TypeOK, Shapes
    <3>2. CASE NewScan(t, n) \/ NewDog(t, n) \/ Polls(t, n) \/ Leaves(t, n)
      BY <1>1, <2>2, <3>1, <3>2 DEF NewScan, NewDog, Polls, Leaves, Shape
    <3>3. CASE Looks(t, n)
      <4>1. PICK e \in thr[u].ids : n.ids = thr[u].ids \ {e} /\ Hands(n) = LettersOnDisk(e)
        BY <2>2, <3>3 DEF Looks
      <4>2. d \in n.ids \/ l \in Hands(n)
        BY <1>1, <2>2, <3>3, <4>1 DEF Looks, LettersOnDisk
      <4> QED
        BY <3>1, <4>2 DEF Pending
    <3>4. CASE Takes(t, n) \/ Told(t, n)
      <4>1. d \in n.ids \/ l \in Hands(n)
        BY <1>1, <2>2, <3>4 DEF Takes, Told
      <4> QED
        BY <3>1, <4>1 DEF Pending
    <3> QED
      BY <1>3, <3>2, <3>3, <3>4
  <2> QED
    BY <2>1, <2>2
<1> QED
  BY <1>2, <1>3, ThreadMoves

LEMMA StepSwept ==
  ASSUME TypeOK, Shapes, JobShape, Plugged, Plugged', Swept, Next PROVE Swept'
<1> SUFFICES ASSUME up', ~missed', wild' = {}, NEW d \in Disk, NEW l \in Letter,
                    list'[d] = slot'[d], slot'[d] \notin Fixed, at'[l] # None, at'[l] = slot'[d]
             PROVE  l \in given' \/ Pending(d, l)'
  BY DEF Swept
<1>1. ~missed /\ wild = {}
  BY Remembered
<1>2. CASE list' = slot /\ slot' = slot /\ (BringUp \/ Refresh)
  <2>1. StripCandidates(slot) /\ d \in StrippableIds(slot)
    BY <1>2 DEF BringUp, Refresh, StrippableIds
  <2>2. PICK t \in Thread, n \in ThreadType :
          thr' = [thr EXCEPT ![t] = n] /\ n.ids = StrippableIds(slot)
    <3>1. slot \in [Disk -> Medium \cup {None}]
      BY DEF TypeOK, PlugTypes
    <3>2. \E t \in Thread :
            /\ thr[t].pc = "off"
            /\ thr' = [thr EXCEPT ![t] = [Off EXCEPT !.kind = "scan", !.pc = "look",
                                                     !.ids = StrippableIds(slot)]]
      BY <2>1 DEF StripCandidates
    <3>3. [Off EXCEPT !.kind = "scan", !.pc = "look", !.ids = StrippableIds(slot)].ids
            = StrippableIds(slot)
      BY DEF Off
    <3>4. [Off EXCEPT !.kind = "scan", !.pc = "look", !.ids = StrippableIds(slot)] \in ThreadType
      BY DEF Off, ThreadType, StrippableIds
    <3> QED
      BY <3>2, <3>3, <3>4
  <2>3. d \in thr'[t].ids
    BY <2>1, <2>2 DEF TypeOK
  <2> QED
    BY <2>3 DEF Pending
<1>3. CASE UNCHANGED rows
  <2>1. up /\ list'[d] = list[d]
    BY <1>3 DEF rows
  <2>2. ASSUME NEW m \in Medium, NEW e \in Disk, Insert(m, e), slot'[d] = m PROVE at[l] # m /\ e = d
    <3>1. \A c \in Disk : slot[c] # m
      BY <2>2 DEF Insert
    <3>2. at[l] # m
      BY <3>1, CardLettersAssumption DEF Plugged
    <3>3. e = d
      BY <2>2, <3>1 DEF Insert, TypeOK, PlugTypes
    <3> QED
      BY <3>2, <3>3
  <2>3. CASE Stays(l)
    <3>1. slot'[d] = slot[d]
      BY <2>2, <2>3, SlotMoves DEF Stays
    <3>2. l \in given \/ Pending(d, l)
      BY <1>1, <2>1, <2>3, <3>1 DEF Stays, Swept
    <3> QED
      BY <2>3, <3>1, <3>2, PendingKept DEF Stays
  <2>4. CASE Comes(l)
    <3> SUFFICES ASSUME NEW e \in Disk, slot'[e] = at'[l], at[l] = None,
                        Insert(at'[l], e) \/ WindowsLetters(e)
                 PROVE  FALSE
      BY <2>4 DEF Comes
    <3>1. ~WindowsLetters(e)
      BY DEF WindowsLetters
    <3>2. at'[l] \in Medium /\ Insert(at'[l], d)
      BY <2>2, <2>4, <3>1 DEF Comes
    <3>3. Unseen(at'[l], d)
      BY <2>1, <3>2 DEF Unseen
    <3>4. PICK new \in {{}} \cup {{k} : k \in Free} :
            /\ at' = [k \in Letter |-> IF k \in new THEN at'[l] ELSE at[k]]
            /\ wild' = IF new # {} /\ Unseen(at'[l], d) THEN wild \cup {"swap"} ELSE wild
      BY <3>2 DEF Insert
    <3>5. l \in new
      <4>1. at'[l] = IF l \in new THEN at'[l] ELSE at[l]
        BY <3>4
      <4> QED
        BY <4>1
    <3> QED
      BY <3>3, <3>4, <3>5
  <2> QED
    BY <2>3, <2>4, LetterMoves DEF Lost
<1> QED
  BY <1>2, <1>3, Rows

\* What a thread is about to take is not to be spared.
LEMMA HandsAimed ==
  ASSUME TypeOK, Shapes, Aimed, ~reused, ~late, NEW t \in Thread, NEW l \in Hands(thr[t])
  PROVE  ~Foreign(at[l])
<1>1. thr[t].kind \in {"scan", "dog"}
  BY DEF TypeOK, ThreadType, Shapes, Shape
<1> QED
  BY <1>1 DEF Aimed, ScansAimed, DogsAimed, Foreign

LEMMA StepOthersLeftAlone ==
  ASSUME TypeOK, Shapes, JobShape, Aimed, OthersLeftAlone, Next PROVE OthersLeftAlone'
<1> SUFFICES ASSUME ~harmed PROVE ~harmed'
  BY DEF OthersLeftAlone
<1>1. ASSUME NEW t \in Thread, Dismount(t) PROVE ~harmed'
  <2>1. PICK l \in thr[t].todo : Harm(Foreign(at[l]))
    BY <1>1 DEF Dismount
  <2>2. l \in Hands(thr[t])
    BY <2>1 DEF Hands, TypeOK, ThreadType
  <2> QED
    BY <2>1, <2>2, HandsAimed DEF Harm
<1>2. ASSUME NEW t \in Thread, Delete(t) PROVE ~harmed'
  <2>1. Harm(Foreign(at[thr[t].cur])) /\ thr[t].cur \in Hands(thr[t])
    BY <1>2 DEF Delete, Hands, Shapes, Shape
  <2> QED
    BY <2>1, HandsAimed DEF Harm
<1>3. ASSUME TakeLetters, Working PROVE ~harmed'
  <2>1. PICK taken \in SUBSET (job.known \cup LettersOnDisk(job.target)) :
          Harm(\E l \in taken : Foreign(at[l]))
    BY <1>3 DEF TakeLetters
  <2>2. ASSUME ~reused, NEW l \in taken PROVE ~Foreign(at[l])
    BY <1>3, <2>2 DEF Aimed, JobAimed, Foreign, LettersOnDisk
  <2> QED
    BY <2>1, <2>2 DEF Harm
<1>4. CASE Restore
  BY <1>4 DEF Restore, Harm, Aimed, JobAimed, Working
<1>5. CASE Outside \/ Window
  BY <1>5 DEF Outside, Window, Insert, Remove, WindowsLetters, BringUp, Refresh, Arm, seen
<1>6. ASSUME NEW t \in Thread, Strip(t) PROVE ~harmed'
  BY <1>1, <1>2, <1>6 DEF Strip, Look, DeleteFails, Poll, Stopped, seen
<1>7. CASE Flash
  BY <1>3, <1>4, <1>7 DEF Flash, Build, GiveUp, Prepare, OpenFails, WriteEnds, Join,
     JoinTimesOut, Eject, PickLetter, GiveLetter, GiveLetterFails, RestoreFails, seen, Working
<1> QED
  BY <1>5, <1>6, <1>7 DEF Next

LEMMA StepGivenSpared ==
  ASSUME TypeOK, Shapes, DogAtWork, GivenKept, GivenAimed, GivenSpared, Next
  PROVE  GivenSpared'
<1>1. ASSUME NEW t \in Thread, Delete(t) PROVE GivenSpared'
  <2>1. ASSUME thr[t].kind = "dog", thr[t].cur \in given PROVE late
    BY <1>1, <2>1 DEF Delete, Hands, Shapes, Shape, DogAtWork, GivenKept
  <2> QED
    BY <1>1, <2>1 DEF Delete, Robs, GivenSpared
<1>2. ASSUME Working, NEW letters \in SUBSET (job.known \cup LettersOnDisk(job.target)),
             Robs("flash", letters), late' = late
      PROVE  GivenSpared'
  BY <1>2 DEF Robs, GivenAimed, GivenSpared, LettersOnDisk
<1>3. CASE Prepare \/ OpenFails
  BY <1>2, <1>3 DEF Prepare, OpenFails, TakeLetters, Working
<1>4. CASE Eject \/ Restore
  BY <1>2, <1>4 DEF Eject, Restore, Working
<1>5. CASE Outside \/ Window
  BY <1>5 DEF Outside, Window, Insert, Remove, WindowsLetters, BringUp, Refresh, Arm, seen,
     GivenSpared
<1>6. ASSUME NEW t \in Thread, Strip(t) PROVE GivenSpared'
  BY <1>1, <1>6 DEF Strip, Look, Dismount, DeleteFails, Poll, Stopped, seen, GivenSpared
<1>7. CASE Flash
  BY <1>3, <1>4, <1>7 DEF Flash, Build, GiveUp, WriteEnds, Join, JoinTimesOut, PickLetter,
     GiveLetter, GiveLetterFails, RestoreFails, seen, GivenSpared
<1> QED
  BY <1>5, <1>6, <1>7 DEF Next

LEMMA InitInv == Init => IInv
<1> SUFFICES ASSUME Init PROVE IInv
  OBVIOUS
<1> USE CardLettersAssumption DEF Init
<1>1. Off.kind = None /\ Idle.pc = "idle" /\ Idle.known = {}
  BY DEF Off, Idle
<1>2. thr \in [Thread -> ThreadType] /\ \A t \in Thread : thr[t] = Off
  BY OffType
<1>3. TypeOK
  <2>1. PlugTypes
    BY DEF PlugTypes
  <2>2. WindowTypes
    BY DEF WindowTypes
  <2>3. Histories
    BY DEF Histories
  <2> QED
    BY <1>2, <2>1, <2>2, <2>3, IdleType DEF TypeOK
<1>4. Shapes /\ JobShape
  BY <1>1, <1>2, OffType DEF Shapes, JobShape, Working
<1>5. Plugged /\ GivenInUse
  BY DEF Plugged, GivenInUse
<1>6. Aimed /\ DogAtWork
  BY <1>1, <1>2 DEF Aimed, RowsAimed, ScansAimed, JobAimed, DogsAimed, DogAtWork, Working, None
<1>7. GivenKept /\ GivenAimed /\ Swept /\ OthersLeftAlone /\ GivenSpared
  BY DEF GivenKept, GivenAimed, Swept, OthersLeftAlone, GivenSpared
<1> QED
  BY <1>3, <1>4, <1>5, <1>6, <1>7 DEF IInv

LEMMA Inductive == IInv /\ [Next]_vars => IInv'
<1> SUFFICES ASSUME IInv, [Next]_vars PROVE IInv'
  OBVIOUS
<1>1. CASE Next
  <2> USE <1>1 DEF IInv
  <2>1. TypeOK' /\ Shapes' /\ JobShape'
    BY StepPlugTypes, StepWindowTypes, StepThreads, JobMoves, StepHistories DEF TypeOK
  <2>2. Plugged' /\ GivenInUse'
    BY StepPlugged, StepGivenInUse
  <2>3. DogAtWork'
    BY StepDogAtWork
  <2>4. Aimed'
    <3> SUFFICES ASSUME ~reused'
                 PROVE  RowsAimed' /\ ScansAimed' /\ JobAimed' /\ (~late' => DogsAimed')
      BY DEF Aimed
    <3>1. RowsAimed /\ ScansAimed /\ JobAimed /\ (~late' => DogsAimed)
      BY Remembered DEF Aimed
    <3>2. RowsAimed'
      BY <3>1, StepRowsAimed
    <3>3. ScansAimed'
      BY <3>1, <3>2, StepScansAimed
    <3>4. JobAimed'
      BY <3>1, StepJobAimed
    <3>5. ~late' => DogsAimed'
      BY <2>3, <3>1, StepDogsAimed
    <3> QED
      BY <3>2, <3>3, <3>4, <3>5
  <2>5. GivenKept' /\ GivenAimed'
    BY <2>2, StepGivenKept, StepGivenAimed
  <2>6. Swept'
    BY <2>2, StepSwept
  <2>7. OthersLeftAlone' /\ GivenSpared'
    BY StepOthersLeftAlone, StepGivenSpared
  <2> QED
    BY <2>1, <2>2, <2>3, <2>4, <2>5, <2>6, <2>7
<1>2. CASE UNCHANGED vars
  <2> USE <1>2 DEF vars, plugs, guard, rows, seen, IInv
  <2>1. TypeOK' /\ Shapes' /\ JobShape'
    BY DEF TypeOK, PlugTypes, WindowTypes, Histories, Shapes, JobShape, Working
  <2>2. Plugged' /\ GivenInUse' /\ DogAtWork' /\ GivenKept' /\ GivenAimed'
    BY DEF Plugged, GivenInUse, DogAtWork, GivenKept, GivenAimed, Working
  <2>3. Aimed'
    BY DEF Aimed, RowsAimed, ScansAimed, JobAimed, DogsAimed, Working
  <2>4. Swept' /\ OthersLeftAlone' /\ GivenSpared'
    BY DEF Swept, Pending, OthersLeftAlone, GivenSpared
  <2> QED
    BY <2>1, <2>2, <2>3, <2>4
<1> QED
  BY <1>1, <1>2

\* The inductive invariant holds for any media, numbers, letters and threads.
THEOREM Invariance == Spec => []IInv
<1> QED
  BY InitInv, Inductive, PTL DEF Spec

\* Every variable keeps its type.
THEOREM TypeCorrect == Spec => []TypeOK
<1>1. IInv => TypeOK
  BY DEF IInv
<1> QED
  BY <1>1, Invariance, PTL

\* Only the candidates and the target lose their letters, and diskpart cleans only
\* what was flashed.
THEOREM OthersLeftAloneHolds == Spec => []OthersLeftAlone
<1>1. IInv => OthersLeftAlone
  BY DEF IInv
<1> QED
  BY <1>1, Invariance, PTL

\* No flash takes a letter given to another card, and its watchdog none that was
\* given unless it outlived its join.
THEOREM GivenSparedHolds == Spec => []GivenSpared
<1>1. IInv => GivenSpared
  BY DEF IInv
<1> QED
  BY <1>1, Invariance, PTL

\* At rest a candidate has no letter but one it was given.
THEOREM CandidatesStrippedHolds == Spec => []CandidatesStripped
<1>1. IInv => CandidatesStripped
  <2> SUFFICES ASSUME IInv, up, Quiet, ~missed, wild = {},
                      NEW d \in Disk, list[d] = slot[d], slot[d] \notin Fixed,
                      NEW l \in LettersOnDisk(d)
               PROVE  l \in given
    BY DEF CandidatesStripped, Bare
  <2>1. l \in given \/ Pending(d, l)
    BY DEF IInv, Swept, LettersOnDisk
  <2>2. ~Pending(d, l)
    BY DEF IInv, Shapes, Shape, Quiet, Pending
  <2> QED
    BY <2>1, <2>2
<1> QED
  BY <1>1, Invariance, PTL
=============================================================================
