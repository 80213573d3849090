-------------------------- MODULE BootBundleProofs --------------------------
(***************************************************************************)
(* BootBundle for every layout of the sectors and every fault: a card that *)
(* boots has all of its files unless the device did not take a sector, and *)
(* no network file of the image but a master's network-config, unless the  *)
(* device did not take a sector of the file's replacement.                 *)
(***************************************************************************)
EXTENDS BootBundle, TLAPS

\* The card is what the cache says, but for what is still to be written and
\* what was lost.
Open   == IF Flushing THEN pend ELSE dirty
Synced == \A s \in Sectors : s \notin Open /\ s \notin lost => card[s] = cache[s]

\* What was written is in the cache, whatever was merged into its sectors since.
Kept == \A f \in done : \A s \in Parts(f) : f \in cache[s]

\* The trigger comes last, and only into a bundle that was accepted.
Handed ==
  /\ valid => Wanted \ {"trigger"} \subseteq done /\ ("wlan" \in stale => "wlan" \in Wanted)
  /\ "trigger" \in done => valid

\* The file system is left with all files written, an exception, or a cancel;
\* the table is for the first, and nothing is to be flushed any more.
Left ==
  /\ pc \in {"close", "closed", "table"} => raised \/ cancel \/ "trigger" \in done
  /\ pc \in {"write", "flush", "table"} => ~raised
  /\ pc \in {"table", "recover", "ended"} => dirty = {}
  /\ table = "image" => pc = "ended" /\ "trigger" \in done

IInv == TypeOK /\ Synced /\ Kept /\ Handed /\ Left

-----------------------------------------------------------------------------
(* Files and sectors.                                                      *)

LEMMA PartsAreSectors == \A f \in Files : Parts(f) \subseteq Sectors
BY DEF Parts, Sectors, Files, Place, Secrets

LEMMA WantedAreFiles == Wanted \subseteq Files
BY DEF Wanted, Files, Place

\* RawSectorFile.write only adds to the sectors.
LEMMA ModifyAdds ==
  ASSUME NEW f \in Files, NEW parts \in SUBSET Sectors, cache \in [Sectors -> SUBSET Files]
  PROVE  /\ Modify(f, parts) \in [Sectors -> SUBSET Files]
         /\ \A s \in Sectors : cache[s] \subseteq Modify(f, parts)[s]
         /\ \A s \in parts : f \in Modify(f, parts)[s]
         /\ \A s \in Sectors \ parts : Modify(f, parts)[s] = cache[s]
BY DEF Modify

-----------------------------------------------------------------------------
(* The invariant is inductive.                                             *)

LEMMA InitInv == Init => IInv
<1> SUFFICES ASSUME Init PROVE IInv
  OBVIOUS
<1> USE DEF Init
<1>1. TypeOK
  BY DEF TypeOK, JobTypes, SectorTypes
<1>2. Synced /\ Kept /\ Handed /\ Left
  BY DEF Synced, Kept, Handed, Left
<1> QED
  BY <1>1, <1>2 DEF IInv

\* The steps that put something into the cache.
LEMMA StepWrite == ASSUME IInv, NEW f \in Files, WriteFile(f) \/ WriteFails(f) PROVE IInv'
<1> USE DEF IInv, TypeOK, SectorTypes, job, disk
<1>1. PICK parts \in SUBSET Sectors :
        /\ cache' = Modify(f, parts) \/ cache' = cache
        /\ cache' = cache => dirty' = dirty \/ dirty' = dirty \cup parts
        /\ cache' # cache => dirty' = dirty \cup parts
        /\ WriteFile(f) => cache' = Modify(f, parts) /\ dirty' = dirty \cup parts /\ parts = Parts(f)
  <2>1. CASE WriteFile(f)
    BY <2>1, PartsAreSectors DEF WriteFile
  <2>2. CASE WriteFails(f)
    <3>1. CASE cache' = cache /\ dirty' = dirty
      BY <2>2, <3>1 DEF WriteFails, WriteFile
    <3>2. CASE \E parts \in SUBSET Parts(f) \ {Parts(f)} :
                 cache' = Modify(f, parts) /\ dirty' = dirty \cup parts
      <4>1. done' = done
        BY <2>2 DEF WriteFails
      <4>2. ~WriteFile(f)
        BY <2>2, <4>1 DEF WriteFails, WriteFile, Turn
      <4> QED
        BY <3>2, <4>2, PartsAreSectors
    <3> QED
      BY <2>2, <3>1, <3>2 DEF WriteFails
  <2> QED
    BY <2>1, <2>2
<1>2. /\ cache' \in [Sectors -> SUBSET Files]
      /\ \A s \in Sectors : cache[s] \subseteq cache'[s]
      /\ \A s \in Sectors \ dirty' : cache'[s] = cache[s]
      /\ dirty \subseteq dirty' /\ dirty' \subseteq Sectors
  BY <1>1, ModifyAdds
<1>3. f \in Wanted \ done /\ pc = "write" /\ UNCHANGED <<job, disk, cancel, valid, table>>
  BY DEF WriteFile, WriteFails, Turn
<1>4. SectorTypes'
  BY <1>2, <1>3 DEF WriteFile, WriteFails
<1>5. JobTypes'
  BY <1>3 DEF WriteFile, WriteFails, JobTypes, Wanted
<1>6. Synced'
  BY <1>2, <1>3 DEF Synced, Open, Flushing, WriteFile, WriteFails
<1>7. Kept'
  <2>1. CASE WriteFile(f)
    <3>1. \A s \in Parts(f) : f \in cache'[s]
      BY <1>1, <2>1, ModifyAdds
    <3>2. \A g \in done : Parts(g) \subseteq Sectors
      BY PartsAreSectors, WantedAreFiles DEF JobTypes
    <3>3. \A g : Parts(g)' = Parts(g)
      BY DEF Parts
    <3> QED
      BY <1>2, <2>1, <3>1, <3>2, <3>3 DEF Kept, WriteFile
  <2>2. CASE WriteFails(f)
    <3>1. \A g \in done : Parts(g) \subseteq Sectors
      BY PartsAreSectors, WantedAreFiles DEF JobTypes
    <3> QED
      BY <1>2, <2>2, <3>1 DEF Kept, WriteFails, Parts
  <2> QED
    BY <2>1, <2>2
<1>8. Handed'
  BY <1>3 DEF Handed, WriteFile, WriteFails, Wanted
<1>9. Left'
  BY <1>3 DEF Left, WriteFile, WriteFails, JobTypes
<1> QED
  BY <1>4, <1>5, <1>6, <1>7, <1>8, <1>9

\* The steps that write to the card.
LEMMA StepFlush ==
  ASSUME IInv, NEW s \in Sectors, FlushSector(s) \/ ShortWrite(s) \/ FlushFails(s)
  PROVE  IInv'
<1> USE DEF IInv, TypeOK, SectorTypes, job, disk
<1>1. Kept' /\ Handed'
  BY DEF FlushSector, ShortWrite, FlushFails, Kept, Handed, Wanted, Parts
<1>2. CASE FlushSector(s)
  <2>1. SectorTypes' /\ Synced'
    BY <1>2 DEF FlushSector, Synced, Open, Flushing, First
  <2>2. JobTypes' /\ Left'
    BY <1>2 DEF FlushSector, JobTypes, Left, Wanted
  <2> QED
    BY <1>1, <2>1, <2>2
<1>3. CASE ShortWrite(s)
  <2>1. SectorTypes' /\ Synced'
    BY <1>3 DEF ShortWrite, Synced, Open, Flushing, First
  <2>2. JobTypes' /\ Left'
    BY <1>3 DEF ShortWrite, JobTypes, Left, Wanted
  <2> QED
    BY <1>1, <2>1, <2>2
<1>4. CASE FlushFails(s)
  <2>1. SectorTypes'
    BY <1>4 DEF FlushFails, First
  <2>2. Synced'
    BY <1>4 DEF FlushFails, Synced, Open, Flushing, First
  <2>3. JobTypes' /\ Left'
    BY <1>4 DEF FlushFails, Flushing, JobTypes, Left, Wanted
  <2> QED
    BY <1>1, <2>1, <2>2, <2>3
<1> QED
  BY <1>2, <1>3, <1>4

\* All other steps.
LEMMA StepOther ==
  ASSUME IInv,
         \/ Skip \/ SelfValidate \/ BeginClose \/ EndFlush
         \/ WriteTable \/ Recover \/ Cancel \/ UNCHANGED vars
  PROVE  IInv'
<1> USE DEF IInv, TypeOK, SectorTypes, job, disk
<1>1. CASE Skip
  BY <1>1 DEF Skip, JobTypes, Synced, Open, Flushing, Kept, Handed, Left, Wanted, Parts
<1>2. CASE SelfValidate
  <2>1. TypeOK' /\ Synced' /\ Kept' /\ Left'
    BY <1>2 DEF SelfValidate, JobTypes, Synced, Open, Flushing, Kept, Left, Wanted, Parts
  <2>2. Handed'
    <3>1. Wanted \ {"trigger"} \subseteq done
      BY <1>2 DEF SelfValidate, Turn, Wanted, Place
    <3> QED
      BY <1>2, <3>1 DEF SelfValidate, Accepts, Handed, Wanted
  <2> QED
    BY <2>1, <2>2
<1>3. CASE BeginClose
  BY <1>3 DEF BeginClose, JobTypes, Synced, Open, Flushing, Kept, Handed, Left, Wanted, Parts
<1>4. CASE EndFlush
  <2>1. Synced'
    BY <1>4 DEF EndFlush, Synced, Open, Flushing
  <2>2. TypeOK' /\ Kept' /\ Handed' /\ Left'
    BY <1>4 DEF EndFlush, JobTypes, Flushing, Kept, Handed, Left, Wanted, Parts
  <2> QED
    BY <2>1, <2>2
<1>5. CASE WriteTable
  BY <1>5 DEF WriteTable, JobTypes, Synced, Open, Flushing, Kept, Handed, Left, Wanted, Parts
<1>6. CASE Recover
  BY <1>6 DEF Recover, JobTypes, Synced, Open, Flushing, Kept, Handed, Left, Wanted, Parts
<1>7. CASE Cancel
  BY <1>7 DEF Cancel, JobTypes, Synced, Open, Flushing, Kept, Handed, Left, Wanted, Parts
<1>8. CASE UNCHANGED vars
  BY <1>8 DEF vars, JobTypes, Synced, Open, Flushing, Kept, Handed, Left, Wanted, Parts
<1> QED
  BY <1>1, <1>2, <1>3, <1>4, <1>5, <1>6, <1>7, <1>8

\* The inductive invariant holds.
THEOREM Invariance == Spec => []IInv
<1>1. ASSUME IInv, [Next]_vars PROVE IInv'
  BY <1>1, StepWrite, StepFlush, StepOther DEF Next, Ended
<1> QED
  BY <1>1, InitInv, PTL DEF Spec

\* Every variable keeps its type.
THEOREM TypeCorrect == Spec => []TypeOK
<1>1. IInv => TypeOK
  BY DEF IInv
<1> QED
  BY <1>1, Invariance, PTL

\* A card that boots has all of its files, wherever they lie, unless the device
\* did not take a sector.
THEOREM BootsCompleteHolds == Spec => []BootsComplete
<1>1. ASSUME IInv, table = "image", lost = {}, NEW f \in Wanted PROVE Whole(f, card)
  <2> USE <1>1 DEF IInv
  <2>1. done = Wanted
    BY DEF Left, Handed, TypeOK, JobTypes
  <2>2. \A s \in Sectors : card[s] = cache[s]
    BY DEF Left, Synced, Open, Flushing
  <2>3. \A g \in Wanted : \A s \in Parts(g) : g \in card[s]
    BY <2>1, <2>2, PartsAreSectors, WantedAreFiles DEF Kept
  <2>4. "dir" \in Wanted
    BY DEF Wanted
  <2> QED
    BY <2>3, <2>4 DEF Whole
<1>2. IInv => BootsComplete
  BY <1>1 DEF BootsComplete
<1> QED
  BY <1>2, Invariance, PTL

\* On a card that boots, the image's Wi-Fi script and a slave's network-config
\* are replaced unless a sector of the replacement was lost; a master's
\* network-config is not spoken of.
THEOREM NoForeignNetworkHolds == Spec => []NoForeignNetwork
<1>1. ASSUME IInv, table = "image", NEW f \in stale \cap {"wlan", "net"},
             ~(f = "net" /\ role = "master"), Parts(f) \cap lost = {}
      PROVE  Whole(f, card)
  <2> USE <1>1 DEF IInv
  <2>1. done = Wanted /\ f \in Wanted
    BY DEF Left, Handed, TypeOK, JobTypes, Wanted
  <2>2. Parts(f) \subseteq Sectors
    BY <2>1, PartsAreSectors, WantedAreFiles
  <2>3. \A s \in Parts(f) : card[s] = cache[s]
    BY <2>2 DEF Left, Synced, Open, Flushing
  <2>4. \A s \in Parts(f) : f \in card[s]
    BY <2>1, <2>3 DEF Kept
  <2> QED
    BY <2>4 DEF Whole, Secrets
<1>2. IInv => NoForeignNetwork
  BY <1>1 DEF NoForeignNetwork
<1> QED
  BY <1>2, Invariance, PTL
=============================================================================
