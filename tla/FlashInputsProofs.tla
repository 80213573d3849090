-------------------------- MODULE FlashInputsProofs ---------------------------
(***************************************************************************)
(* What a flash is given before it starts.  RoleCheck for any images,      *)
(* names and number of picks: the verdict that is shown belongs to the     *)
(* image that is picked, and no image that was found to be wrong gets past *)
(* step 3.  Deployment for any keys, names and passwords, any number of    *)
(* robots and of runs of the program: the keys that cards have stay in the *)
(* store, and the two cards of one deployment meet.                        *)
(***************************************************************************)
EXTENDS RoleCheck, Deployment, TLAPS

-----------------------------------------------------------------------------
(* The images of step 3.                                                   *)


\* Of all the checks on their way at most one counts for a role: it is about the
\* image that is picked, and step 3 shows that it is waited for.
Fresh ==
  \A k \in checks :
    /\ k.gen <= gen[k.role]
    /\ Current(k) => k.image = path[k.role] /\ status[k.role] = "checking"
Single == \A k, l \in checks : k.role = l.role /\ k.gen = l.gen => k = l

\* Past step 3 nothing is open any more.
Gate == page = "after" => \A r \in Roles : path[r] # "" /\ status[r] \in Soft \cup {"none"}

RoleInv == RoleTypeOK /\ ShownIsOwn /\ Fresh /\ Single /\ Gate

-----------------------------------------------------------------------------
LEMMA VerdictIsOne ==
  ASSUME NEW r \in Roles, NEW i, NEW c \in Contents
  PROVE  Verdict(r, i, c) \in Verdicts
<1> USE DEF Verdict, Verdicts, Soft, Hard, Roles, Contents
<1>1. CASE c = r
  BY <1>1
<1>2. CASE c = "plain"
  BY <1>2
<1>3. CASE c \in Roles \ {r}
  BY <1>3
<1>4. CASE c = "broken"
  BY <1>4
<1> QED
  BY <1>1, <1>2, <1>3, <1>4

LEMMA RoleInitInv == RoleInit => RoleInv
<1> SUFFICES ASSUME RoleInit PROVE RoleInv
  OBVIOUS
<1>1. Nothing \in [image : Images \cup {""}, was : Contents]
  BY DEF Nothing, Contents
<1>2. RoleTypeOK
  BY <1>1 DEF RoleInit, RoleTypeOK
<1>3. "none" \notin Verdicts
  BY DEF Verdicts, Soft, Hard
<1> QED
  BY <1>2, <1>3 DEF RoleInit, RoleInv, ShownIsOwn, Fresh, Single, Gate

LEMMA Later ==
  ASSUME NEW a \in Nat, NEW b \in Nat, a <= b
  PROVE  a # b + 1 /\ a <= b + 1
OBVIOUS

\* A pick makes all the checks of its role so far obsolete.
LEMMA StepPick == ASSUME RoleInv, NEW r \in Roles, NEW i \in Images, Pick(r, i) PROVE RoleInv'
<1> DEFINE n == [role |-> r, gen |-> gen[r] + 1, image |-> i, at |-> "start",
                 was |-> "broken"]
<1>1. RoleTypeOK /\ gen[r] \in Nat /\ gen'[r] = gen[r] + 1
  BY DEF RoleInv, RoleTypeOK, Pick
<1>2. /\ gen' = [gen EXCEPT ![r] = gen[r] + 1] /\ path' = [path EXCEPT ![r] = i]
      /\ UNCHANGED <<page, quitting, judged>> /\ page = "images"
      /\ \/ status' = [status EXCEPT ![r] = "none"] /\ checks' = checks
         \/ status' = [status EXCEPT ![r] = "checking"] /\ checks' = checks \cup {n}
  BY <1>1 DEF Pick
<1>3. n \in Check /\ n.role = r /\ n.gen = gen[r] + 1 /\ n.image = i
  BY <1>1 DEF Check, Contents
<1> HIDE DEF n
<1>4. \A k \in checks : /\ k.role \in Roles /\ k.gen \in Nat /\ k.gen <= gen[k.role]
                        /\ k.role = r => k.gen # gen[r] + 1 /\ k.gen <= gen[r] + 1
  <2> TAKE k \in checks
  <2>1. k.role \in Roles /\ k.gen \in Nat
    BY <1>1 DEF RoleTypeOK, Check
  <2>2. k.gen <= gen[k.role]
    BY DEF RoleInv, Fresh
  <2> QED
    BY <1>1, <2>1, <2>2, Later
<1>5. RoleTypeOK'
  <2>1. checks' \subseteq Check
    BY <1>1, <1>2, <1>3 DEF RoleTypeOK
  <2>2. status' \in [Roles -> Verdicts \cup {"none", "checking"}]
    BY <1>1, <1>2 DEF RoleTypeOK
  <2>3. gen[r] + 1 \in Nat
    BY <1>1
  <2>4. gen' \in [Roles -> Nat]
    BY <1>1, <1>2, <2>3 DEF RoleTypeOK
  <2>5. path' \in [Roles -> Images \cup {""}]
    BY <1>1, <1>2 DEF RoleTypeOK
  <2> QED
    BY <1>1, <1>2, <2>1, <2>2, <2>4, <2>5 DEF RoleTypeOK
<1>6. ShownIsOwn'
  BY <1>1, <1>2 DEF RoleInv, RoleTypeOK, ShownIsOwn, Verdicts, Soft, Hard
<1>7. Fresh'
  <2>1. \A k \in checks : /\ k.gen <= gen'[k.role]
                          /\ k.gen = gen'[k.role] =>
                               k.image = path'[k.role] /\ status'[k.role] = "checking"
    <3> TAKE k \in checks
    <3>1. CASE k.role = r
      <4>1. k.gen # gen[r] + 1 /\ k.gen <= gen[r] + 1 /\ gen'[k.role] = gen[r] + 1
        BY <1>1, <1>4, <3>1
      <4> QED
        BY <4>1
    <3>2. CASE k.role # r
      BY <1>1, <1>2, <1>4, <3>2 DEF RoleInv, RoleTypeOK, Fresh, Current
    <3> QED
      BY <3>1, <3>2
  <2>2. n.gen <= gen'[n.role] /\ n.image = path'[n.role]
    <3>1. gen'[n.role] = n.gen /\ n.gen \in Nat
      BY <1>1, <1>3
    <3>2. path'[n.role] = n.image
      BY <1>1, <1>2, <1>3 DEF RoleTypeOK
    <3> QED
      BY <3>1, <3>2
  <2>3. status' = [status EXCEPT ![r] = "checking"] => status'[n.role] = "checking"
    BY <1>1, <1>3 DEF RoleTypeOK
  <2> QED
    BY <1>2, <2>1, <2>2, <2>3 DEF Fresh, Current
<1>8. Single'
  <2>1. \A k \in checks : ~(k.role = n.role /\ k.gen = n.gen)
    BY <1>3, <1>4
  <2> QED
    BY <1>2, <2>1 DEF RoleInv, Single
<1>9. Gate'
  BY <1>2 DEF Gate
<1> QED
  BY <1>5, <1>6, <1>7, <1>8, <1>9 DEF RoleInv

\* Pages come and go; the gate is what NEXT asks for.
LEMMA StepPages ==
  ASSUME RoleInv, EnterImages \/ LeaveImages \/ Quit \/ UNCHANGED roleVars
  PROVE  RoleInv'
<1>1. UNCHANGED <<path, status, gen, checks, judged>>
  BY DEF EnterImages, LeaveImages, Quit, roleVars
<1>2. RoleTypeOK'
  BY <1>1 DEF RoleInv, RoleTypeOK, EnterImages, LeaveImages, Quit, roleVars
<1>3. ShownIsOwn' /\ Fresh' /\ Single'
  BY <1>1 DEF RoleInv, ShownIsOwn, Fresh, Single, Current
<1>4. Gate'
  <2>1. CASE page' = page
    BY <1>1, <2>1 DEF RoleInv, Gate
  <2>2. CASE page' # page /\ page' = "after"
    <3>1. \A r \in Roles : path[r] # "" /\ status[r] \notin Hard \cup {"checking"}
      BY <2>2 DEF EnterImages, LeaveImages, Quit, roleVars, Passes
    <3>2. \A r \in Roles : status[r] \in Soft \cup Hard \cup {"none", "checking"}
      BY DEF RoleInv, RoleTypeOK, Verdicts
    <3> QED
      BY <1>1, <3>1, <3>2 DEF Gate
  <2> QED
    BY <2>1, <2>2 DEF Gate
<1> QED
  BY <1>2, <1>3, <1>4 DEF RoleInv

\* A thread reads or posts: its check changes, and stays the only one.
LEMMA StepThread ==
  ASSUME RoleInv, NEW k \in checks, ReadImage(k) \/ Post(k)
  PROVE  RoleInv'
<1> USE DEF RoleInv, RoleTypeOK, Check, Current
<1>1. /\ UNCHANGED <<page, path, status, gen, quitting, judged>>
      /\ \/ checks' = checks \ {k}
         \/ \E at \in {"read", "posted"}, was \in Contents : Becomes(k, at, was)
  BY DEF ReadImage, Post
<1>2. CASE checks' = checks \ {k}
  BY <1>1, <1>2 DEF ShownIsOwn, Fresh, Single, Gate
<1>3. CASE \E at \in {"read", "posted"}, was \in Contents : Becomes(k, at, was)
  <2>1. PICK at \in {"read", "posted"}, was \in Contents : Becomes(k, at, was)
    BY <1>3
  <2> DEFINE m == [role |-> k.role, gen |-> k.gen, image |-> k.image, at |-> at, was |-> was]
  <2>2. m \in Check
    OBVIOUS
  <2>3. checks' = (checks \ {k}) \cup {m} /\ m \in Check
    BY <2>1, <2>2 DEF Becomes
  <2>4. RoleTypeOK' /\ ShownIsOwn' /\ Gate'
    BY <1>1, <2>3 DEF ShownIsOwn, Gate
  <2>5. Fresh'
    <3>1. m.gen <= gen[m.role] /\ (m.gen = gen[m.role] =>
            m.image = path[m.role] /\ status[m.role] = "checking")
      BY DEF Fresh
    <3> QED
      BY <1>1, <2>3, <3>1 DEF Fresh
  <2>6. Single'
    <3>1. \A l \in checks \ {k} : ~(l.role = m.role /\ l.gen = m.gen)
      BY DEF Single
    <3> QED
      BY <2>3, <3>1 DEF Single
  <2> QED
    BY <2>4, <2>5, <2>6
<1> QED
  BY <1>1, <1>2, <1>3

\* A verdict is applied: the last of its role, or none.
LEMMA StepApply == ASSUME RoleInv, NEW k \in checks, Apply(k) PROVE RoleInv'
<1> DEFINE v == Verdict(k.role, k.image, k.was)
           j == [image |-> k.image, was |-> k.was]
<1> USE DEF RoleInv, RoleTypeOK, Check, Current
<1>1. checks' = checks \ {k} /\ UNCHANGED <<page, path, gen, quitting>>
  BY DEF Apply
<1>2. CASE ~Current(k)
  <2>1. UNCHANGED <<status, judged>>
    BY <1>2 DEF Apply
  <2> QED
    BY <1>1, <2>1 DEF ShownIsOwn, Fresh, Single, Gate
<1>3. CASE Current(k)
  <2>1. status' = [status EXCEPT ![k.role] = v] /\ judged' = [judged EXCEPT ![k.role] = j]
    BY <1>3 DEF Apply
  <2>2. k.role \in Roles /\ k.image \in Images /\ k.was \in Contents
    OBVIOUS
  <2>3. v \in Verdicts
    BY <2>2, VerdictIsOne
  <2>4. k.image = path[k.role] /\ status[k.role] = "checking" /\ k.gen = gen[k.role]
    BY <1>3 DEF Fresh
  <2> HIDE DEF v
  <2>5. RoleTypeOK'
    BY <1>1, <2>1, <2>2, <2>3
  <2>6. ShownIsOwn'
    <3>1. \A r \in Roles \ {k.role} : status'[r] = status[r] /\ judged'[r] = judged[r]
      BY <2>1
    <3>2. status'[k.role] = v /\ judged'[k.role].image = path[k.role]
          /\ judged'[k.role].was = k.was
      BY <2>1, <2>2, <2>4
    <3>3. v = Verdict(k.role, path[k.role], judged'[k.role].was)
      BY <2>4, <3>2 DEF v
    <3> QED
      BY <1>1, <3>1, <3>2, <3>3 DEF ShownIsOwn
  <2>7. Fresh' /\ Single'
    <3>1. \A l \in checks \ {k} : l.role = k.role => l.gen # gen[l.role]
      BY <2>4 DEF Single
    <3> QED
      BY <1>1, <2>1, <2>2, <3>1 DEF Fresh, Single
  <2>8. page # "after"
    BY <2>2, <2>4 DEF Gate, Soft
  <2> QED
    BY <1>1, <2>5, <2>6, <2>7, <2>8 DEF Gate
<1> QED
  BY <1>2, <1>3

\* The inductive invariant holds.
THEOREM RoleInvariance == RoleSpec => []RoleInv
<1>1. ASSUME RoleInv, [RoleNext]_roleVars PROVE RoleInv'
  BY <1>1, StepPick, StepPages, StepThread, StepApply DEF RoleNext, Working
<1> QED
  BY <1>1, RoleInitInv, PTL DEF RoleSpec

\* Every variable keeps its type.
THEOREM RoleTypeCorrect == RoleSpec => []RoleTypeOK
<1>1. RoleInv => RoleTypeOK
  BY DEF RoleInv
<1> QED
  BY <1>1, RoleInvariance, PTL

\* The verdict that is shown is about the image that is picked.
THEOREM ShownIsOwnHolds == RoleSpec => []ShownIsOwn
<1>1. RoleInv => ShownIsOwn
  BY DEF RoleInv
<1> QED
  BY <1>1, RoleInvariance, PTL

\* Nothing gets past step 3 that was found to be wrong, or was not looked at
\* though it was there.
THEOREM NoWrongImagePassesHolds == RoleSpec => []NoWrongImagePasses
<1>1. RoleInv => NoWrongImagePasses
  BY DEF RoleInv, Gate, ShownIsOwn, NoWrongImagePasses, Verdicts
<1> QED
  BY <1>1, RoleInvariance, PTL

-----------------------------------------------------------------------------
(* The key pair and the hotspot.                                           *)


\* What a flash in hand has in its hand.
InHand ==
  pc \in {"priv", "pub", "hotspot", "flashing"} =>
    /\ role \in Role /\ pair \in [Halves -> Key]
    /\ pc \in {"priv", "pub"} => pair["priv"] = pair["pub"]

\* How much of it the store has.
Stored ==
  /\ pc = "pub" => file["priv"] = pair["priv"]
  /\ pc \in {"hotspot", "flashing"} => file = pair

\* The public half is written last and only where there was none: with it there,
\* the pair is whole.
Whole ==
  unread \/ /\ file["pub"] \in Key => file["priv"] = file["pub"]
            /\ pc \in {"priv", "pub"} => file["pub"] \notin Key

\* What the cards of the deployment got of the wizard's state.
Alike ==
  \A r \in done : robot[r].by = "window" =>
    /\ robot[r].key \in carried /\ robot[r].ssid = ssid
    /\ retyped \/ robot[r].psk = PskOf(psk)

IInv == TypeOK /\ InHand /\ Stored /\ Whole /\ TrustKept /\ Alike

-----------------------------------------------------------------------------
LEMMA InitInv == Init => IInv
<1> SUFFICES ASSUME Init PROVE IInv
  OBVIOUS
<1>1. TypeOK
  BY DEF Init, TypeOK, Content, NoPair, Blank, CardType
<1>2. InHand /\ Stored
  BY DEF Init, InHand, Stored
<1>3. Whole /\ TrustKept /\ Alike
  BY ContentAssumption DEF Init, Whole, TrustKept, Alike, Halves
<1> QED
  BY <1>1, <1>2, <1>3 DEF IInv

\* Steps that leave the store, the flash in hand and the cards alone.
LEMMA StepOperator ==
  ASSUME IInv,
         Open \/ ResetForNextCycle \/ EndSession
           \/ (\E p \in Psk \cup {None} : SetHotspotPassword(p))
           \/ (\E r \in Role : SetCurrentRole(r))
  PROVE  IInv'
<1>1. TypeOK
  BY DEF IInv
<1>2. CASE Open
  <2>1. TypeOK'
    BY <1>1, <1>2 DEF TypeOK, Open, store
  <2>2. InHand' /\ Stored' /\ Whole' /\ TrustKept' /\ Alike'
    BY <1>2 DEF IInv, Open, InHand, Stored, Whole, TrustKept, Alike, store
  <2> QED
    BY <2>1, <2>2 DEF IInv
<1>3. CASE ResetForNextCycle
  <2>1. TypeOK'
    BY <1>1, <1>3 DEF TypeOK, ResetForNextCycle, store, seen
  <2>2. InHand' /\ Stored' /\ Whole' /\ TrustKept' /\ Alike'
    BY <1>3 DEF IInv, ResetForNextCycle, InHand, Stored, Whole, TrustKept, Alike, PskOf, store, seen
  <2> QED
    BY <2>1, <2>2 DEF IInv
<1>4. CASE EndSession
  <2>1. TypeOK'
    BY <1>1, <1>4 DEF TypeOK, EndSession, store, Blank, CardType
  <2>2. InHand' /\ Stored' /\ Whole' /\ TrustKept' /\ Alike'
    BY <1>4 DEF IInv, EndSession, InHand, Stored, Whole, TrustKept, Alike, store
  <2> QED
    BY <2>1, <2>2 DEF IInv
<1>5. ASSUME NEW p \in Psk \cup {None}, SetHotspotPassword(p)
      PROVE  IInv'
  <2>1. TypeOK'
    BY <1>1, <1>5 DEF TypeOK, SetHotspotPassword, store
  <2>2. InHand' /\ Stored' /\ Whole' /\ TrustKept'
    BY <1>5 DEF IInv, SetHotspotPassword, InHand, Stored, Whole, TrustKept, store
  <2>3. Alike'
    BY <1>5 DEF IInv, SetHotspotPassword, Alike, store
  <2> QED
    BY <2>1, <2>2, <2>3 DEF IInv
<1>6. ASSUME NEW r \in Role, SetCurrentRole(r)
      PROVE  IInv'
  <2>1. TypeOK'
    BY <1>1, <1>6 DEF TypeOK, SetCurrentRole, store, seen
  <2>2. InHand' /\ Stored' /\ Whole' /\ TrustKept' /\ Alike'
    BY <1>6 DEF IInv, SetCurrentRole, InHand, Stored, Whole, TrustKept, Alike, PskOf, store, seen
  <2> QED
    BY <2>1, <2>2 DEF IInv
<1> QED
  BY <1>2, <1>3, <1>4, <1>5, <1>6

\* A new pair is made only where no whole one is, or where one could not be read.
LEMMA StepLoadPair == ASSUME IInv, LoadPair PROVE IInv'
<1>1. TypeOK /\ pc = "idle" /\ role \in Role
  BY DEF IInv, TypeOK, LoadPair
<1>2. UNCHANGED <<file, held, ssid, psk, role, done, robot, carried, retyped>>
  BY DEF LoadPair, wizard
<1>3. CASE Loadable
  <2>1. pair' = file /\ pc' = "hotspot" /\ UNCHANGED <<minted, unread>>
    BY <1>3 DEF LoadPair
  <2>2. file \in [Halves -> Key]
    BY <1>1, <1>3 DEF TypeOK, Loadable
  <2>3. TypeOK'
    BY <1>1, <1>2, <2>1, <2>2 DEF TypeOK
  <2>4. InHand' /\ Stored'
    BY <1>1, <1>2, <2>1, <2>2 DEF InHand, Stored
  <2>5. Whole' /\ TrustKept' /\ Alike'
    BY <1>2, <2>1 DEF IInv, Whole, TrustKept, Alike, PskOf
  <2> QED
    BY <2>3, <2>4, <2>5 DEF IInv
<1>4. CASE ~Loadable
  <2>1. PICK k \in Key : minted' = minted \cup {k} /\ pair' = [half \in Halves |-> k]
    BY <1>4 DEF LoadPair
  <2>2. /\ pc' = "priv"
        /\ unread' = (unread \/ \E half \in Halves \cap held : file[half] \in Key)
    BY <1>4 DEF LoadPair
  <2>3. pair' \in [Halves -> Key] /\ pair'["priv"] = pair'["pub"]
    BY <2>1 DEF Halves
  <2>4. TypeOK'
    BY <1>1, <1>2, <2>1, <2>2, <2>3 DEF TypeOK
  <2>5. InHand' /\ Stored'
    BY <1>1, <1>2, <2>2, <2>3 DEF InHand, Stored
  <2>6. ~unread' => file["pub"] \notin Key
    <3> SUFFICES ASSUME ~unread', file["pub"] \in Key PROVE FALSE
      OBVIOUS
    <3>1. ~unread /\ \A half \in Halves : file[half] \in Key => half \notin held
      BY <2>2
    <3>2. file["priv"] = file["pub"]
      BY <3>1 DEF IInv, Whole
    <3> QED
      BY <1>4, <3>1, <3>2 DEF Loadable, Halves
  <2>7. Whole' /\ TrustKept'
    BY <1>2, <2>2, <2>6 DEF IInv, Whole, TrustKept
  <2>8. Alike'
    BY <1>2 DEF IInv, Alike, PskOf
  <2> QED
    BY <2>4, <2>5, <2>7, <2>8 DEF IInv
<1> QED
  BY <1>3, <1>4

\* While a pair is being saved no card has a key that must be kept.
LEMMA NothingToLose ==
  ASSUME IInv, pc \in {"priv", "pub"}
  PROVE  unread \/ (carried = {} /\ file["pub"] \notin Key)
BY DEF IInv, TypeOK, Whole, TrustKept, Halves

LEMMA StepSaveHalf == ASSUME IInv, NEW half \in Halves, SaveHalf(half) PROVE IInv'
<1>1. /\ TypeOK /\ pc = half /\ role \in Role /\ pair \in [Halves -> Key]
      /\ pair["priv"] = pair["pub"] /\ pc \in {"priv", "pub"}
  BY DEF IInv, InHand, SaveHalf, Halves
<1>2. /\ file' = [file EXCEPT ![half] = pair[half]] /\ pc' = After(half)
      /\ UNCHANGED <<held, minted, ssid, psk, role, done, pair, robot, carried, unread, retyped>>
  BY DEF SaveHalf, wizard, seen
<1>3. After(half) = IF half = "priv" THEN "pub" ELSE "hotspot"
  BY DEF After
<1>4. TypeOK'
  BY <1>1, <1>2, <1>3 DEF TypeOK, Content
<1>5. InHand'
  BY <1>1, <1>2, <1>3 DEF InHand
<1>6. Stored'
  BY <1>1, <1>2, <1>3 DEF IInv, TypeOK, Stored, Halves
<1>7. Whole' /\ TrustKept'
  BY <1>1, <1>2, <1>3, <1>6, NothingToLose DEF TypeOK, Whole, TrustKept, Stored, Halves
<1>8. Alike'
  BY <1>2 DEF IInv, Alike, PskOf
<1> QED
  BY <1>4, <1>5, <1>6, <1>7, <1>8 DEF IInv

\* A half that is emptied is no key; a build that is given up has nothing in hand.
LEMMA Emptied ==
  ASSUME IInv, NEW half \in Halves, pc = half,
         file' = file \/ file' = [file EXCEPT ![half] = "empty"],
         pc' \in {"idle", "closed"}, UNCHANGED <<carried, unread>>
  PROVE  file' \in [Halves -> Content] /\ InHand' /\ Stored' /\ Whole' /\ TrustKept'
<1>1. TypeOK /\ pc \in {"priv", "pub"}
  BY DEF IInv, Halves
<1>2. file' \in [Halves -> Content]
  BY <1>1 DEF TypeOK, Content
<1>3. InHand' /\ Stored'
  BY DEF InHand, Stored
<1>4. Whole' /\ TrustKept'
  BY <1>1, NothingToLose, ContentAssumption DEF TypeOK, Whole, TrustKept, Halves
<1> QED
  BY <1>2, <1>3, <1>4

LEMMA StepSaveHalfFails == ASSUME IInv, NEW half \in Halves, SaveHalfFails(half) PROVE IInv'
<1>1. /\ pc = half /\ (file' = file \/ file' = [file EXCEPT ![half] = "empty"])
      /\ pc' = "idle" /\ pair' = NoPair
      /\ UNCHANGED <<held, minted, ssid, psk, role, done, robot, carried, unread, retyped>>
  BY DEF SaveHalfFails, GiveUp, wizard, seen
<1>2. file' \in [Halves -> Content] /\ InHand' /\ Stored' /\ Whole' /\ TrustKept'
  BY <1>1, Emptied
<1>3. TypeOK'
  BY <1>1, <1>2 DEF IInv, TypeOK, NoPair
<1>4. Alike'
  BY <1>1 DEF IInv, Alike, PskOf
<1> QED
  BY <1>2, <1>3, <1>4 DEF IInv

LEMMA StepJob == ASSUME IInv, JobReady \/ JobRefused PROVE IInv'
<1>1. CASE JobReady
  BY <1>1 DEF IInv, JobReady, TypeOK, InHand, Stored, Whole, TrustKept, Alike, PskOf,
              store, wizard, seen
<1>2. CASE JobRefused
  <2>1. TypeOK'
    BY <1>2 DEF IInv, JobRefused, GiveUp, TypeOK, NoPair, store, wizard, seen
  <2>2. InHand' /\ Stored' /\ Whole' /\ TrustKept' /\ Alike'
    BY <1>2 DEF IInv, JobRefused, GiveUp, InHand, Stored, Whole, TrustKept, Alike, PskOf,
                store, wizard, seen
  <2> QED
    BY <2>1, <2>2 DEF IInv
<1> QED
  BY <1>1, <1>2

\* The card gets half of the pair the store has.
LEMMA StepFlashDone == ASSUME IInv, FlashDone PROVE IInv'
<1> DEFINE k == KeyOn(role, pair)
           new == [by |-> "window", key |-> k, ssid |-> ssid, psk |-> PskOf(psk)]
<1>1. TypeOK /\ role \in Role /\ pair \in [Halves -> Key] /\ file = pair
  BY DEF IInv, InHand, Stored, FlashDone
<1>2. /\ pc' = "idle" /\ pair' = NoPair /\ robot' = [robot EXCEPT ![role] = new]
      /\ done' = done \cup {role} /\ carried' = carried \cup {k}
      /\ UNCHANGED <<file, held, minted, ssid, psk, role, unread, retyped>>
  BY DEF FlashDone, store
<1>3. k \in Key /\ k \in {pair["priv"], pair["pub"]}
  BY <1>1 DEF KeyOn, Halves
<1>4. PskOf(psk) \in Psk
  BY <1>1, DeploymentAssumption DEF TypeOK, PskOf
<1>5. new \in CardType
  BY <1>1, <1>3, <1>4 DEF TypeOK, CardType
<1>6. TypeOK'
  <2>1. /\ robot' \in [Role -> CardType] /\ carried' \subseteq Key
        /\ pair' \in [Halves -> Key \cup {None}]
    BY <1>1, <1>2, <1>3, <1>5 DEF TypeOK, NoPair
  <2> HIDE DEF new, k
  <2> QED
    BY <1>1, <1>2, <2>1 DEF TypeOK
<1>7. InHand' /\ Stored' /\ Whole'
  BY <1>2 DEF IInv, InHand, Stored, Whole
<1>8. TrustKept'
  BY <1>1, <1>2, <1>3 DEF IInv, Whole, TrustKept, Halves
<1>9. Alike'
  <2> SUFFICES ASSUME NEW r \in done', robot'[r].by = "window"
               PROVE  /\ robot'[r].key \in carried' /\ robot'[r].ssid = ssid
                      /\ retyped \/ robot'[r].psk = PskOf(psk)
    BY <1>2 DEF Alike, PskOf
  <2>1. CASE r = role
    <3>1. robot'[r] = new
      BY <1>1, <1>2, <2>1 DEF TypeOK
    <3> QED
      BY <1>2, <3>1
  <2>2. CASE r # role
    <3>1. r \in done /\ robot'[r] = robot[r]
      BY <1>1, <1>2, <2>2 DEF TypeOK
    <3> QED
      BY <1>2, <3>1 DEF IInv, Alike
  <2> QED
    BY <2>1, <2>2
<1> QED
  BY <1>6, <1>7, <1>8, <1>9 DEF IInv

\* A card that is blank or the command line's says nothing of the window.
LEMMA Replaced ==
  ASSUME IInv, NEW r \in Role, NEW c \in CardType, c.by # "window",
         robot' \in {robot, [robot EXCEPT ![r] = c]},
         UNCHANGED <<ssid, psk, done, carried, retyped>>
  PROVE  robot' \in [Role -> CardType] /\ Alike'
<1>1. robot \in [Role -> CardType] /\ done \subseteq Role
  BY DEF IInv, TypeOK
<1>2. robot' \in [Role -> CardType]
  BY <1>1
<1>3. \A q \in done : robot'[q] = robot[q] \/ robot'[q].by # "window"
  BY <1>1
<1>4. Alike'
  BY <1>3 DEF IInv, Alike, PskOf
<1> QED
  BY <1>2, <1>4

LEMMA BlankCard == Blank \in CardType /\ Blank.by # "window"
BY DEF Blank, CardType, None

LEMMA StepFlashFails == ASSUME IInv, FlashFails PROVE IInv'
<1>1. /\ role \in Role /\ pc' = "idle" /\ pair' = NoPair
      /\ robot' \in {robot, [robot EXCEPT ![role] = Blank]}
      /\ UNCHANGED <<file, held, minted, ssid, psk, role, done, carried, unread, retyped>>
  BY DEF IInv, InHand, FlashFails, GiveUp, store, wizard, seen
<1>2. robot' \in [Role -> CardType] /\ Alike'
  BY <1>1, BlankCard, Replaced
<1>3. TypeOK'
  BY <1>1, <1>2 DEF IInv, TypeOK, NoPair
<1>4. InHand' /\ Stored' /\ Whole' /\ TrustKept'
  BY <1>1 DEF IInv, InHand, Stored, Whole, TrustKept
<1> QED
  BY <1>2, <1>3, <1>4 DEF IInv

LEMMA StepEnd == ASSUME IInv, End PROVE IInv'
<1>1. /\ pc' = "closed" /\ pair' = NoPair
      /\ file' = file \/ \E half \in Halves : pc = half /\ file' = [file EXCEPT ![half] = "empty"]
      /\ robot' = robot \/ (pc = "flashing" /\ robot' = [robot EXCEPT ![role] = Blank])
      /\ UNCHANGED <<held, minted, ssid, psk, role, done, carried, unread, retyped>>
  BY DEF End, wizard, seen
<1>2. file' \in [Halves -> Content] /\ InHand' /\ Stored' /\ Whole' /\ TrustKept'
  <2>1. CASE file' = file
    BY <1>1, <2>1 DEF IInv, TypeOK, InHand, Stored, Whole, TrustKept
  <2>2. CASE \E half \in Halves : pc = half /\ file' = [file EXCEPT ![half] = "empty"]
    BY <1>1, <2>2, Emptied
  <2> QED
    BY <1>1, <2>1, <2>2
<1>3. robot' \in [Role -> CardType] /\ Alike'
  <2>1. CASE robot' = robot
    BY <1>1, <2>1 DEF IInv, TypeOK, Alike, PskOf
  <2>2. CASE pc = "flashing" /\ robot' = [robot EXCEPT ![role] = Blank]
    <3>1. role \in Role
      BY <2>2 DEF IInv, InHand
    <3> QED
      BY <1>1, <2>2, <3>1, BlankCard, Replaced
  <2> QED
    BY <1>1, <2>1, <2>2
<1>4. TypeOK'
  BY <1>1, <1>2, <1>3 DEF IInv, TypeOK, NoPair
<1> QED
  BY <1>2, <1>3, <1>4 DEF IInv

LEMMA StepCommandLine == ASSUME IInv, NEW r \in Role, CommandLine(r) PROVE IInv'
<1>1. PICK k \in Key, s \in Ssid, p \in Psk :
        /\ minted' = minted \cup {k}
        /\ robot' = [robot EXCEPT ![r] = [by |-> "cli", key |-> k, ssid |-> s, psk |-> p]]
  BY DEF CommandLine
<1>2. UNCHANGED <<file, held, pc, ssid, psk, role, done, pair, carried, unread, retyped>>
  BY DEF CommandLine, wizard, seen
<1> DEFINE c == [by |-> "cli", key |-> k, ssid |-> s, psk |-> p]
<1>3. c \in CardType /\ c.by # "window"
  BY DEF CardType
<1>4. robot' \in {robot, [robot EXCEPT ![r] = c]}
  BY <1>1
<1> HIDE DEF c
<1>5. robot' \in [Role -> CardType] /\ Alike'
  BY <1>2, <1>3, <1>4, Replaced
<1>6. TypeOK'
  BY <1>1, <1>2, <1>5 DEF IInv, TypeOK
<1>7. InHand' /\ Stored' /\ Whole' /\ TrustKept'
  BY <1>2 DEF IInv, InHand, Stored, Whole, TrustKept
<1> QED
  BY <1>5, <1>6, <1>7 DEF IInv

LEMMA StepHold == ASSUME IInv, NEW f \in File, Hold(f) \/ Release(f) PROVE IInv'
<1>1. /\ held' \subseteq File
      /\ UNCHANGED <<file, minted, pc, ssid, psk, role, done, pair, robot>>
      /\ UNCHANGED <<carried, unread, retyped>>
  BY DEF IInv, TypeOK, Hold, Release, wizard, seen
<1>2. TypeOK'
  BY <1>1 DEF IInv, TypeOK
<1>3. InHand' /\ Stored' /\ Whole' /\ TrustKept' /\ Alike'
  BY <1>1 DEF IInv, InHand, Stored, Whole, TrustKept, Alike, PskOf
<1> QED
  BY <1>2, <1>3 DEF IInv

LEMMA Inductive == IInv /\ [Next]_vars => IInv'
<1> SUFFICES ASSUME IInv, [Next]_vars PROVE IInv'
  OBVIOUS
<1>1. CASE Operator
  BY <1>1, StepOperator DEF Operator
<1>2. CASE Build
  BY <1>2, StepLoadPair, StepSaveHalf, StepSaveHalfFails, StepJob, StepFlashDone,
     StepFlashFails DEF Build
<1>3. CASE Outside
  BY <1>3, StepEnd, StepCommandLine, StepHold DEF Outside
<1>4. CASE UNCHANGED vars
  BY <1>4 DEF IInv, TypeOK, InHand, Stored, Whole, TrustKept, Alike, PskOf,
              vars, store, wizard, seen
<1> QED
  BY <1>1, <1>2, <1>3, <1>4 DEF Next

LEMMA Invariance == Spec => []IInv
BY InitInv, Inductive, PTL DEF Spec

-----------------------------------------------------------------------------
\* Every variable keeps its type.
THEOREM TypeCorrect == Spec => []TypeOK
<1>1. IInv => TypeOK
  BY DEF IInv
<1> QED
  BY <1>1, Invariance, PTL

\* What is flashed is in the store, both halves of it, whatever failed before.
THEOREM JobKeysStoredHolds == Spec => []JobKeysStored
<1>1. IInv => JobKeysStored
  BY DEF IInv, Stored, JobKeysStored
<1> QED
  BY <1>1, Invariance, PTL

\* The keys that cards have stay in the store, over any number of runs, full
\* disks and ends of the program at any moment, while its files can be read.
THEOREM TrustKeptHolds == Spec => []TrustKept
<1>1. IInv => TrustKept
  BY DEF IInv
<1> QED
  BY <1>1, Invariance, PTL

\* Two cards of one deployment find and trust each other.
THEOREM PairMeetsHolds == Spec => []PairMeets
<1>1. IInv => PairMeets
  BY DEF IInv, Alike, TrustKept, PairMeets, Role, Halves
<1> QED
  BY <1>1, Invariance, PTL
=============================================================================
