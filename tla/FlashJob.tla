------------------------------ MODULE FlashJob ------------------------------
(***************************************************************************)
(* core/orchestrator.py, FlashJob.run: one worker thread takes a card      *)
(* through preflight, dismount, raw write, verify, customize and the final *)
(* write of the partition table, and restores the card when it does not    *)
(* get that far.  Around it act the letter watchdog thread it starts, the  *)
(* operator who may cancel, and Windows, which may give the card a drive   *)
(* letter and write to a file system it recognises.                        *)
(*                                                                         *)
(* The streaming copy is the promise DiskWriter.run keeps: ImageCopy.      *)
(***************************************************************************)
EXTENDS Integers

CONSTANTS NChunks,    \* chunks the image yields; 0 is an empty image
          MaxPolls,   \* polls of _wait_for_unmount before its deadline
          Faults      \* which operations may fail, a subset of FaultKinds

FaultKinds == {"preflight", "dismount", "probe", "open", "scrub", "report",
               "image", "badwrite", "read", "customize", "table", "flush", "restore"}

ASSUME NChunksAssumption  == NChunks \in Nat
ASSUME MaxPollsAssumption == MaxPolls \in Nat
ASSUME FaultsAssumption   == Faults \subseteq FaultKinds

Chunk == 1..NChunks
Old   == 0
Torn  == -1     \* bytes that are neither the card's old ones nor the image's

\* core/errors.py: what a failure says about the card.
SDStates == {"SAFE", "GARBAGE", "UNCERTAIN", "BOOTABLE_NO_FIRSTBOOT"}

VARIABLES
  pc,        \* where the worker thread is
  opts,      \* verify and customize wanted; a FAT32 partition is in the table
  cancel,    \* the cancel event
  total, first, dev, doomed, late, copy,   \* the copy, see ImageCopy
  polls,     \* polls of the wait gate so far
  handle,    \* the raw device handle is open
  opened,    \* dev is not None: open_raw_device has succeeded
  table,     \* sector 0 of the card: "old", "blank", "torn", "image", "exfat"
  scrubbed,  \* the old table was zeroed before the write
  vnext,     \* the next block verify_readback reads
  vok,       \* the blocks it read so far are the image's
  fat,       \* the second handle, behind the userspace FAT, is open
  cache,     \* what was written into that FAT: "none", "seed", "bundle"
  prov,      \* what of it reached the card: "none", "seed", "bundle", "part"
  mbrWritten,
  result,    \* what run() is going to return: "ok", or the SD state of its error
  watchdog,  \* the watchdog thread: "off", "poll", "strip", "exited"
  stopFlag,  \* watchdog_stop
  letter,    \* the card has a drive letter
  bound      \* Windows letters the card when its volume arrives: automount is
             \* on, or it remembers a letter for the card

setup == <<opts, polls, handle, opened>>
copyVars == <<total, first, dev, doomed, late, copy>>
cardVars == <<table, scrubbed, mbrWritten>>
verifyVars == <<vnext, vok>>
fatVars == <<fat, cache, prov>>
env == <<cancel, watchdog, stopFlag, letter, bound>>
vars == <<pc, result, setup, copyVars, cardVars, verifyVars, fatVars, env>>

Copy == INSTANCE ImageCopy WITH result <- copy

Init ==
  /\ pc = "automount"
  /\ opts \in [verify : BOOLEAN, customize : BOOLEAN, fat : BOOLEAN]
  /\ Copy!Init
  /\ polls = 0 /\ handle = FALSE /\ opened = FALSE
  /\ table = "old" /\ scrubbed = FALSE
  /\ vnext = 0 /\ vok = TRUE
  /\ fat = FALSE /\ cache = "none" /\ prov = "none"
  /\ mbrWritten = FALSE /\ result = "none"
  /\ watchdog = "off" /\ stopFlag = FALSE
  /\ letter \in BOOLEAN /\ bound \in BOOLEAN

-----------------------------------------------------------------------------
(* Until the device is open: a failure leaves the card alone.              *)

\* An exception outside the inner try goes to the outer finally.
Abort(sd) == pc' = "recover" /\ result' = sd

\* disable_automount is best effort.
DisableAutomount ==
  /\ pc = "automount"
  /\ pc' = "preflight"
  /\ bound' \in {bound, FALSE}
  /\ UNCHANGED <<result, setup, copyVars, cardVars, verifyVars, fatVars,
                 cancel, watchdog, stopFlag, letter>>

Preflight ==
  /\ pc = "preflight"
  /\ \/ pc' = "dismount" /\ UNCHANGED result
     \/ "preflight" \in Faults /\ Abort("SAFE")
  /\ UNCHANGED <<setup, copyVars, cardVars, verifyVars, fatVars, env>>

\* lock_and_dismount deletes the letters it sees; a deletion may fail quietly.
Dismount ==
  /\ pc = "dismount"
  /\ \/ pc' = "gate" /\ letter' \in {letter, FALSE} /\ UNCHANGED result
     \/ "dismount" \in Faults /\ Abort("GARBAGE") /\ UNCHANGED letter
  /\ UNCHANGED <<setup, copyVars, cardVars, verifyVars, fatVars, cancel,
                 watchdog, stopFlag, bound>>

\* _wait_for_unmount finds no letter, or cannot tell.
LeaveGate ==
  /\ pc = "gate"
  /\ ~letter \/ "probe" \in Faults
  /\ pc' = "open"
  /\ UNCHANGED <<result, setup, copyVars, cardVars, verifyVars, fatVars, env>>

\* Deviation: the gate has no deadline.
ForceUnmountForever ==
  /\ pc = "gate" /\ letter
  /\ letter' \in {letter, FALSE}
  /\ UNCHANGED <<pc, result, setup, copyVars, cardVars, verifyVars, fatVars,
                 cancel, watchdog, stopFlag, bound>>

\* Deviation: one poll more than the deadline allows.
ForceUnmountOnceMore ==
  /\ pc = "gate" /\ letter
  /\ letter' \in {letter, FALSE}
  /\ IF polls > MaxPolls
       THEN pc' = "open" /\ UNCHANGED polls
       ELSE polls' = polls + 1 /\ UNCHANGED pc
  /\ UNCHANGED <<result, opts, handle, opened, copyVars, cardVars, verifyVars,
                 fatVars, cancel, watchdog, stopFlag, bound>>

\* A letter is still there: force it off, then give up at the deadline, or
\* report and poll again.
ForceUnmount ==
  /\ pc = "gate" /\ letter
  /\ letter' \in {letter, FALSE}
  /\ IF polls = MaxPolls
       THEN pc' = "open" /\ UNCHANGED <<polls, result>>
       ELSE /\ polls' = polls + 1
            /\ \/ UNCHANGED <<pc, result>>
               \/ "report" \in Faults /\ Abort("GARBAGE")
  /\ UNCHANGED <<opts, handle, opened, copyVars, cardVars, verifyVars,
                 fatVars, cancel, watchdog, stopFlag, bound>>

\* open_raw_device drops the in-memory layout, and the volumes with it.
OpenDevice ==
  /\ pc = "open"
  /\ \/ /\ pc' = "scrub" /\ handle' = TRUE /\ opened' = TRUE
        /\ letter' \in {letter, FALSE}
        /\ UNCHANGED result
     \/ "open" \in Faults /\ Abort("GARBAGE") /\ UNCHANGED <<handle, opened, letter>>
  /\ UNCHANGED <<opts, polls, copyVars, cardVars, verifyVars, fatVars, cancel,
                 watchdog, stopFlag, bound>>

\* The old partition table is zeroed, best effort.
Scrub ==
  /\ pc = "scrub"
  /\ pc' = "purge"
  /\ \/ table' = "blank" /\ scrubbed' = TRUE
     \/ "scrub" \in Faults /\ table' \in {"old", "torn"} /\ UNCHANGED scrubbed
  /\ UNCHANGED <<result, setup, copyVars, mbrWritten, verifyVars, fatVars,
                 env>>

\* mountvol /R forgets the letters of volumes no longer in the system.
Purge ==
  /\ pc = "purge"
  /\ pc' = "watch"
  /\ bound' \in {bound, bound /\ letter}
  /\ UNCHANGED <<result, setup, copyVars, cardVars, verifyVars, fatVars,
                 cancel, watchdog, stopFlag, letter>>

StartWatchdog ==
  /\ pc = "watch"
  /\ pc' = "image"
  /\ watchdog' = "poll"
  /\ UNCHANGED <<result, setup, copyVars, cardVars, verifyVars, fatVars,
                 cancel, stopFlag, letter, bound>>

-----------------------------------------------------------------------------
(* The inner try: copy, verify, customize, and the partition table last.   *)

\* An exception inside the inner try goes to its finally clause.
Fail(sd) == pc' = "stop" /\ result' = sd

OpenImage ==
  /\ pc = "image"
  /\ \/ pc' = "copy" /\ UNCHANGED result
     \/ "image" \in Faults /\ \E sd \in {"SAFE", "GARBAGE"} : Fail(sd)
  /\ UNCHANGED <<setup, copyVars, cardVars, verifyVars, fatVars, env>>

\* The device accepts a chunk and stores something else.
StoreWrongly ==
  /\ "badwrite" \in Faults
  /\ first # 0 /\ total < NChunks /\ copy = "join" /\ ~cancel
  /\ dev' = [dev EXCEPT ![total + 1] = Torn]
  /\ total' = total + 1
  /\ UNCHANGED <<first, doomed, late, copy, cancel>>

\* DiskWriter.run, with its own cancel left to the operator's action below.
CopyStep ==
  /\ pc = "copy"
  /\ \/ \E c \in Chunk : Copy!HoldBack(c) \/ Copy!CopyChunk(c)
     \/ Copy!TearChunk \/ Copy!Doom \/ Copy!Return \/ Copy!Raise
     \/ doomed /\ Copy!Cancel
     \/ StoreWrongly
  /\ UNCHANGED <<pc, result, setup, cardVars, verifyVars, fatVars, watchdog,
                 stopFlag, letter, bound>>

\* run() came back: flush and sync, or its exception.
CopyDone ==
  /\ pc = "copy" /\ copy # "join"
  /\ \/ /\ copy = "returned"
        /\ pc' = IF opts.verify /\ ~cancel THEN "verify" ELSE "customize"
        /\ vnext' = IF first # 0 THEN 2 ELSE 1
        /\ UNCHANGED result
     \/ copy = "raised" /\ Fail("GARBAGE") /\ UNCHANGED vnext
     \/ "flush" \in Faults /\ Fail("GARBAGE") /\ UNCHANGED vnext
  /\ UNCHANGED <<setup, copyVars, cardVars, vok, fatVars, env>>

\* Deviation: what is read back is not compared.
VerifyBlockBlindly ==
  /\ pc = "verify" /\ vnext <= total /\ ~cancel
  /\ vnext' = vnext + 1
  /\ UNCHANGED <<pc, result, setup, copyVars, cardVars, vok, fatVars, env>>

\* One block is read back into the hash, and progress is reported.
VerifyBlock ==
  /\ pc = "verify" /\ vnext <= total /\ ~cancel
  /\ vnext' = vnext + 1
  /\ vok' = (vok /\ dev[vnext] = vnext)
  /\ UNCHANGED <<pc, result, setup, copyVars, cardVars, fatVars, env>>

\* A read raises or is short, or the progress callback raises.
VerifyFails ==
  /\ pc = "verify"
  /\ {"read", "report"} \cap Faults # {}
  /\ Fail("GARBAGE")
  /\ UNCHANGED <<setup, copyVars, cardVars, verifyVars, fatVars, env>>

\* Everything was read: the two hashes are compared.
VerifyDone ==
  /\ pc = "verify" /\ vnext > total
  /\ IF vok THEN pc' = "customize" /\ UNCHANGED result ELSE Fail("UNCERTAIN")
  /\ UNCHANGED <<setup, copyVars, cardVars, verifyVars, fatVars, env>>

\* A cancelled verify returns as if it had succeeded.
VerifyCancelled ==
  /\ pc = "verify" /\ vnext <= total /\ cancel
  /\ pc' = "customize"
  /\ UNCHANGED <<result, setup, copyVars, cardVars, verifyVars, fatVars, env>>

SkipCustomize ==
  /\ pc = "customize"
  /\ ~opts.customize \/ cancel
  /\ pc' = "table"
  /\ UNCHANGED <<result, setup, copyVars, cardVars, verifyVars, fatVars, env>>

\* The table looked at is the held-back block's or, without one, the card's.
FatFound == opts.fat /\ (first # 0 \/ table = "old")

\* The FAT32 partition is looked up and opened on a handle of its own.
OpenFat ==
  /\ pc = "customize" /\ opts.customize /\ ~cancel
  /\ \/ /\ IF FatFound
             THEN pc' = "seed" /\ fat' = TRUE
             ELSE pc' = "table" /\ UNCHANGED fat
        /\ UNCHANGED result
     \/ {"customize", "report"} \cap Faults # {} /\ Fail("GARBAGE") /\ UNCHANGED fat
  /\ UNCHANGED <<setup, copyVars, cardVars, verifyVars, cache, prov, env>>

\* An exception between open and close still closes the FAT.
FatFails(sd) == pc' = "fatclose" /\ result' = sd

\* _write_cloud_init, unless cancelled.
WriteSeed ==
  /\ pc = "seed"
  /\ \/ pc' = "bundle" /\ cache' = (IF cancel THEN cache ELSE "seed")
        /\ UNCHANGED result
     \/ "customize" \in Faults /\ ~cancel /\ FatFails("GARBAGE") /\ UNCHANGED cache
  /\ UNCHANGED <<setup, copyVars, cardVars, verifyVars, fat, prov, env>>

\* FirstbootBundle.write_to, unless cancelled.
WriteBundle ==
  /\ pc = "bundle"
  /\ \/ pc' = "fatclose" /\ cache' = (IF cancel THEN cache ELSE "bundle")
        /\ UNCHANGED result
     \/ /\ "customize" \in Faults /\ ~cancel
        /\ \E sd \in {"GARBAGE", "BOOTABLE_NO_FIRSTBOOT"} : FatFails(sd)
        /\ UNCHANGED cache
  /\ UNCHANGED <<setup, copyVars, cardVars, verifyVars, fat, prov, env>>

\* Deviation: an exception leaves the second handle open.
CloseFatOnSuccess ==
  /\ pc = "fatclose"
  /\ fat' = (result # "none")
  /\ prov' \in {cache} \cup (IF "customize" \in Faults THEN {"part"} ELSE {})
  /\ pc' = IF result # "none" THEN "stop" ELSE "table"
  /\ UNCHANGED <<result, setup, copyVars, cardVars, verifyVars, cache, env>>

\* RawFatBootPartition.close flushes what was written and swallows a failure.
CloseFat ==
  /\ pc = "fatclose"
  /\ fat' = FALSE
  /\ prov' \in {cache} \cup (IF "customize" \in Faults THEN {"part"} ELSE {})
  /\ pc' = IF result # "none" THEN "stop" ELSE "table"
  /\ UNCHANGED <<result, setup, copyVars, cardVars, verifyVars, cache, env>>

\* Deviation: the table is written whether cancelled or not.
WriteTableAnyway ==
  /\ pc = "table"
  /\ \/ /\ first # 0
        /\ \/ table' = "image" /\ pc' = "tablesync" /\ UNCHANGED result
           \/ "table" \in Faults /\ table' \in {table, "torn"} /\ Fail("GARBAGE")
        /\ UNCHANGED mbrWritten
     \/ /\ first = 0
        /\ mbrWritten' = ~cancel
        /\ pc' = "stop" /\ UNCHANGED <<table, result>>
  /\ UNCHANGED <<setup, copyVars, scrubbed, verifyVars, fatVars, env>>

\* The held-back first block is written last, unless cancelled.
WriteTable ==
  /\ pc = "table"
  /\ \/ /\ first # 0 /\ ~cancel
        /\ \/ table' = "image" /\ pc' = "tablesync" /\ UNCHANGED result
           \/ "table" \in Faults /\ table' \in {table, "torn"} /\ Fail("GARBAGE")
        /\ UNCHANGED mbrWritten
     \/ /\ first = 0 \/ cancel
        /\ mbrWritten' = ~cancel
        /\ pc' = "stop" /\ UNCHANGED <<table, result>>
  /\ UNCHANGED <<setup, copyVars, scrubbed, verifyVars, fatVars, env>>

SyncTable ==
  /\ pc = "tablesync"
  /\ \/ pc' = "stop" /\ mbrWritten' = TRUE /\ UNCHANGED result
     \/ "flush" \in Faults /\ Fail("GARBAGE") /\ UNCHANGED mbrWritten
  /\ UNCHANGED <<setup, copyVars, table, scrubbed, verifyVars, fatVars, env>>

-----------------------------------------------------------------------------
(* The finally clauses, the eject and the recovery.                        *)

StopWatchdog ==
  /\ pc = "stop"
  /\ pc' = "join"
  /\ stopFlag' = TRUE
  /\ UNCHANGED <<result, setup, copyVars, cardVars, verifyVars, fatVars,
                 cancel, watchdog, letter, bound>>

\* join(timeout=2.0): the thread is gone, or still busy stripping a letter.
JoinWatchdog ==
  /\ pc = "join"
  /\ watchdog \in {"exited", "strip"}
  /\ pc' = "close"
  /\ UNCHANGED <<result, setup, copyVars, cardVars, verifyVars, fatVars, env>>

CloseDevice ==
  /\ pc = "close"
  /\ handle' = FALSE
  /\ IF result # "none"
       THEN pc' = "recover" /\ UNCHANGED result
       ELSE pc' = "eject" /\ result' = "ok"
  /\ UNCHANGED <<opts, polls, opened, copyVars, cardVars, verifyVars, fatVars,
                 env>>

\* finalize_eject, on a complete card nobody cancelled.
Eject ==
  /\ pc = "eject"
  /\ IF mbrWritten /\ ~cancel
       THEN \/ pc' = "recover" /\ letter' = FALSE
            \/ pc' = "visible" /\ UNCHANGED letter
       ELSE pc' = "recover" /\ UNCHANGED letter
  /\ UNCHANGED <<result, setup, copyVars, cardVars, verifyVars, fatVars,
                 cancel, watchdog, stopFlag, bound>>

\* make_card_visible: the eject was refused, so give the card a letter back.
MakeVisible ==
  /\ pc = "visible"
  /\ pc' = "recover"
  /\ letter' \in {letter, TRUE}
  /\ UNCHANGED <<result, setup, copyVars, cardVars, verifyVars, fatVars,
                 cancel, watchdog, stopFlag, bound>>

\* The outer finally closes the device, closed already or not.
CloseAgain ==
  /\ pc = "recover"
  /\ pc' = "restore"
  /\ handle' = FALSE
  /\ UNCHANGED <<result, opts, polls, opened, copyVars, cardVars, verifyVars,
                 fatVars, env>>

\* restore_readable_exfat: diskpart cleans, formats and letters the card, or
\* fails on the way.
RestoreReadableExfat ==
  \/ table' = "exfat" /\ letter' = TRUE
  \/ "restore" \in Faults /\ table' \in {table, "blank"} /\ UNCHANGED letter

\* Deviation: the card is restored after every failure.
RecoverAfterFailure ==
  /\ pc = "restore"
  /\ pc' = "ended"
  /\ IF opened /\ result # "ok"
       THEN RestoreReadableExfat
       ELSE UNCHANGED <<table, letter>>
  /\ UNCHANGED <<result, setup, copyVars, scrubbed, mbrWritten, verifyVars,
                 fatVars, cancel, watchdog, stopFlag, bound>>

\* A wiped card without a table is restored.
Recover ==
  /\ pc = "restore"
  /\ pc' = "ended"
  /\ IF opened /\ ~mbrWritten
       THEN RestoreReadableExfat
       ELSE UNCHANGED <<table, letter>>
  /\ UNCHANGED <<result, setup, copyVars, scrubbed, mbrWritten, verifyVars,
                 fatVars, cancel, watchdog, stopFlag, bound>>

Worker ==
  \/ DisableAutomount \/ Preflight \/ Dismount \/ LeaveGate \/ ForceUnmount
  \/ OpenDevice \/ Scrub \/ Purge \/ StartWatchdog
  \/ OpenImage \/ CopyStep \/ CopyDone
  \/ VerifyBlock \/ VerifyFails \/ VerifyDone \/ VerifyCancelled
  \/ SkipCustomize \/ OpenFat \/ WriteSeed \/ WriteBundle \/ CloseFat
  \/ WriteTable \/ SyncTable
  \/ StopWatchdog \/ JoinWatchdog \/ CloseDevice \/ Eject \/ MakeVisible
  \/ CloseAgain \/ Recover

-----------------------------------------------------------------------------
(* The watchdog thread, Windows and the operator.                          *)

\* letters_on_disk found a letter.
WatchdogSees ==
  /\ watchdog = "poll" /\ ~stopFlag /\ letter
  /\ watchdog' = "strip"
  /\ UNCHANGED <<pc, result, setup, copyVars, cardVars, verifyVars, fatVars,
                 cancel, stopFlag, letter, bound>>

\* force_unmount_letter may take seconds, and may fail.
WatchdogStrips ==
  /\ watchdog = "strip"
  /\ watchdog' = "poll"
  /\ letter' \in {letter, FALSE}
  /\ UNCHANGED <<pc, result, setup, copyVars, cardVars, verifyVars, fatVars,
                 cancel, stopFlag, bound>>

WatchdogExits ==
  /\ watchdog = "poll" /\ stopFlag
  /\ watchdog' = "exited"
  /\ UNCHANGED <<pc, result, setup, copyVars, cardVars, verifyVars, fatVars,
                 cancel, stopFlag, letter, bound>>

Watchdog == WatchdogSees \/ WatchdogStrips \/ WatchdogExits

\* A volume of the card arrives and Windows gives it a letter.
WindowsMounts ==
  /\ pc # "ended" /\ ~letter /\ bound
  /\ letter' = TRUE
  /\ UNCHANGED <<pc, result, setup, copyVars, cardVars, verifyVars, fatVars,
                 cancel, watchdog, stopFlag, bound>>

\* With its old partition table the card is mounted, and Windows writes to it.
WindowsWrites ==
  /\ handle /\ letter /\ table = "old"
  /\ \E b \in Chunk \ {1} : dev' = [dev EXCEPT ![b] = Torn]
  /\ UNCHANGED <<pc, result, setup, total, first, doomed, late, copy,
                 cardVars, verifyVars, fatVars, env>>

Cancel ==
  /\ pc # "ended" /\ ~cancel
  /\ cancel' = TRUE
  /\ UNCHANGED <<pc, result, setup, copyVars, cardVars, verifyVars, fatVars,
                 watchdog, stopFlag, letter, bound>>

Ended == pc = "ended" /\ watchdog \in {"off", "exited"} /\ UNCHANGED vars

Next ==
  Worker \/ Watchdog \/ WindowsMounts \/ WindowsWrites \/ Cancel \/ Ended

Spec == Init /\ [][Next]_vars

\* Both threads are scheduled, and a copy ends as DiskWriter's Termination says.
FairSpec == Spec /\ WF_vars(Worker) /\ WF_vars(Watchdog)

-----------------------------------------------------------------------------
Stages ==
  /\ pc \in {"automount", "preflight", "dismount", "gate", "open", "scrub",
             "purge", "watch", "image", "copy", "verify", "customize", "seed",
             "bundle", "fatclose", "table", "tablesync", "stop", "join",
             "close", "eject", "visible", "recover", "restore", "ended"}
  /\ result \in {"none", "ok"} \cup SDStates
  /\ watchdog \in {"off", "poll", "strip", "exited"}

CardFlags ==
  /\ handle \in BOOLEAN /\ opened \in BOOLEAN /\ scrubbed \in BOOLEAN
  /\ vok \in BOOLEAN /\ fat \in BOOLEAN /\ mbrWritten \in BOOLEAN

EnvFlags ==
  /\ opts \in [verify : BOOLEAN, customize : BOOLEAN, fat : BOOLEAN]
  /\ cancel \in BOOLEAN /\ stopFlag \in BOOLEAN
  /\ letter \in BOOLEAN /\ bound \in BOOLEAN

CopyTypes ==
  /\ total \in 0..NChunks /\ first \in 0..NChunks
  /\ dev \in [Chunk -> Chunk \cup {Old, Torn}]
  /\ doomed \in BOOLEAN /\ late \in 0..1
  /\ copy \in {"join", "returned", "raised"}

CardTypes ==
  /\ polls \in 0..MaxPolls
  /\ table \in {"old", "blank", "torn", "image", "exfat"}
  /\ vnext \in 0..(NChunks + 1)
  /\ cache \in {"none", "seed", "bundle"}
  /\ prov \in {"none", "seed", "bundle", "part"}

TypeOK == Stages /\ CardFlags /\ EnvFlags /\ CopyTypes /\ CardTypes

\* A card gets its partition table, and with it boots, only when every block
\* on it is the image's: whatever the device stored, whoever wrote to it and
\* whenever the operator cancelled, if verify was not skipped and the old
\* table could be zeroed.
BootsOnlyVerified ==
  table = "image" /\ opts.verify /\ scrubbed =>
    /\ first = 1 /\ total = NChunks
    /\ \A b \in Chunk \ {1} : dev[b] = b

\* No card boots with half of its first-boot files handed to the FAT.
NoHalfCustomizedBoot ==
  table = "image" /\ opts.customize /\ opts.fat => cache = "bundle"

\* When run() ends, a card it opened boots, or was formatted: only a failing
\* diskpart or progress callback leaves it without a table.
CardSettled ==
  pc = "ended" /\ opened =>
    IF mbrWritten THEN table = "image" ELSE table = "exfat" \/ "restore" \in Faults

\* The card is formatted only after both handles are closed, and never once
\* its table has been written and synced.
FormatsSafely ==
  [][table' = "exfat" /\ table # "exfat" =>
       opened /\ ~handle /\ ~fat /\ ~mbrWritten]_vars

\* The worker always comes back, though Windows may letter the card again and
\* again and the watchdog may be busy when it is joined.
Termination == <>(pc = "ended")

\* What the caller of run() sees of the card and of the answer.
CardState ==
  IF ~opened THEN "original"
  ELSE IF table = "image" THEN "bootable"
  ELSE IF table = "exfat" THEN "recovered" ELSE "raw"
Outcome == IF pc # "ended" THEN "none" ELSE IF result = "ok" THEN "ok" ELSE "failed"

\* run() keeps the promise FlashViewModel builds on.
Promise == INSTANCE CardJob WITH card <- CardState, outcome <- Outcome
KeepsPromise == Promise!Spec

=============================================================================
