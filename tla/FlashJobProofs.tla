--------------------------- MODULE FlashJobProofs ---------------------------
(***************************************************************************)
(* FlashJob for every image length, deadline and set of faults: a card     *)
(* boots only when what is on it was read back and compared, and only with *)
(* all of its first-boot files; run() leaves no card half done; and what   *)
(* it does to the card is what CardJob promises.                           *)
(***************************************************************************)
EXTENDS FlashJob, TLAPS

Preparing   == {"automount", "preflight", "dismount", "gate", "open"}
Customizing == {"customize", "seed", "bundle", "fatclose", "table"}
Leaving     == {"recover", "restore", "ended"}
Ending      == {"stop", "join", "close", "eject", "visible"} \cup Leaving

\* What run() is going to return is settled by its first failure, or after the
\* inner try.
ResultStage ==
  /\ pc \notin Ending \cup {"fatclose"} => result = "none"
  /\ pc \in {"fatclose", "stop", "join", "close"} => result # "ok"
  /\ pc \in {"eject", "visible"} => result = "ok"
  /\ pc \in Leaving => result # "none"

\* The device is opened once and closed before the card is restored; the FAT is
\* open only between its open and its close.
DeviceStage ==
  /\ pc \in Preparing => ~opened
  /\ pc \notin Preparing \cup Leaving => opened
  /\ pc \in Preparing \cup {"restore", "ended"} => ~handle
  /\ fat => pc \in {"seed", "bundle", "fatclose"}

\* An unopened card is untouched; the image's table is the last thing written,
\* and the exFAT table comes after everything else.
TableStage ==
  /\ ~opened => table = "old" /\ ~scrubbed /\ ~mbrWritten /\ result # "ok"
  /\ scrubbed => pc # "scrub" /\ table # "old"
  /\ table = "image" => pc \in {"tablesync"} \cup Ending
  /\ table = "exfat" => pc = "ended"
  /\ pc = "tablesync" => table = "image"
  /\ mbrWritten => pc \in Ending

\* Without a cancel the first chunk is held back and the whole image copied.
CopyStage ==
  /\ first = 0 => total = 0
  /\ first # 0 /\ ~cancel => first = 1
  /\ pc \in Customizing \cup {"verify"} => copy = "returned"
  /\ copy = "returned" /\ ~cancel => total = NChunks

\* What verify has read so far is the image's, and stays so: without the old
\* table nobody else writes.
ReadBack ==
  pc = "verify" /\ vok /\ scrubbed => \A b \in Chunk : 1 < b /\ b < vnext => dev[b] = b

\* Past a verify that was not cancelled, every block is the image's.
Verified ==
  pc \in Customizing /\ opts.verify /\ scrubbed /\ ~cancel =>
    \A b \in Chunk \ {1} : dev[b] = b

\* Past a customize that was not cancelled, the FAT was given all files.
Customized ==
  opts.customize /\ opts.fat /\ ~cancel =>
    /\ pc = "fatclose" /\ result = "none" => cache = "bundle"
    /\ pc = "table" /\ first # 0 => cache = "bundle"

\* The table is written, or the operator was in time to prevent it.
Complete == mbrWritten \/ (cancel /\ table # "image")

\* For an image that yields anything: mbr_written is true of the card, and run()
\* answers "ok" only for a complete or a cancelled card.
Settling ==
  NChunks # 0 =>
    /\ mbrWritten => table = "image"
    /\ pc \in {"stop", "join", "close"} /\ result = "none" => Complete
    /\ pc # "ended" /\ result = "ok" => Complete
    /\ CardSettled

IInv ==
  /\ TypeOK /\ ResultStage /\ DeviceStage /\ TableStage /\ CopyStage /\ ReadBack
  /\ Verified /\ Customized /\ BootsOnlyVerified /\ NoHalfCustomizedBoot /\ Settling

-----------------------------------------------------------------------------
(* What the steps leave alone, and where they lead.                         *)

\* The steps that change what the card and its handles have become.
CardStep ==
  \/ OpenDevice \/ Scrub \/ VerifyBlock \/ OpenFat \/ CloseFat \/ WriteTable \/ SyncTable
  \/ CloseDevice \/ CloseAgain \/ Recover

\* Who changes what: every other step leaves it alone.
LEMMA Kept ==
  ASSUME Next
  PROVE  /\ ~CopyStep /\ ~WindowsWrites => UNCHANGED <<total, first, dev, doomed, late, copy>>
         /\ ~CardStep => UNCHANGED <<handle, opened, scrubbed, vok, fat, mbrWritten>>
         /\ ~Scrub /\ ~WriteTable /\ ~Recover => UNCHANGED table
         /\ ~CopyDone /\ ~VerifyBlock => UNCHANGED <<vnext, vok>>
         /\ ~WriteSeed /\ ~WriteBundle => UNCHANGED cache
         /\ ~CopyStep /\ ~Cancel => UNCHANGED cancel
         /\ ~CloseDevice => result' = result \/ result' \in SDStates
         /\ pc = "ended" => UNCHANGED result
         /\ pc' \in {"fatclose", "table"} =>
              \/ WriteSeed \/ WriteBundle \/ CloseFat \/ OpenFat \/ SkipCustomize
              \/ pc' = pc /\ UNCHANGED <<result, cache>>
         /\ pc' \in {"stop", "join", "close"} /\ result' = "none" =>
              \/ WriteTable \/ SyncTable
              \/ pc \in {"stop", "join", "close"} /\ result = "none"
<1> USE DEF CardStep, SDStates, Fail, Abort, FatFails, setup, copyVars, cardVars, verifyVars,
            fatVars, env
<1>1. CASE DisableAutomount \/ Preflight \/ Dismount \/ LeaveGate \/ ForceUnmount
  BY <1>1 DEF DisableAutomount, Preflight, Dismount, LeaveGate, ForceUnmount
<1>2. CASE OpenDevice \/ Scrub \/ Purge \/ StartWatchdog \/ OpenImage \/ CopyStep
  BY <1>2 DEF OpenDevice, Scrub, Purge, StartWatchdog, OpenImage, CopyStep
<1>3. CASE CopyDone \/ VerifyBlock \/ VerifyFails \/ VerifyDone \/ VerifyCancelled
  BY <1>3 DEF CopyDone, VerifyBlock, VerifyFails, VerifyDone, VerifyCancelled
<1>4. CASE SkipCustomize \/ OpenFat \/ WriteSeed \/ WriteBundle \/ CloseFat
  BY <1>4 DEF SkipCustomize, OpenFat, WriteSeed, WriteBundle, CloseFat
<1>5. CASE WriteTable \/ SyncTable \/ StopWatchdog \/ JoinWatchdog \/ CloseDevice
  BY <1>5 DEF WriteTable, SyncTable, StopWatchdog, JoinWatchdog, CloseDevice
<1>6. CASE Eject \/ MakeVisible \/ CloseAgain \/ Recover
  BY <1>6 DEF Eject, MakeVisible, CloseAgain, Recover, RestoreReadableExfat
<1>7. CASE Watchdog \/ WindowsMounts \/ WindowsWrites \/ Cancel
  BY <1>7 DEF Watchdog, WatchdogSees, WatchdogStrips, WatchdogExits, WindowsMounts,
              WindowsWrites, Cancel
<1>8. CASE Ended
  BY <1>8 DEF Ended, vars
<1> QED
  BY <1>1, <1>2, <1>3, <1>4, <1>5, <1>6, <1>7, <1>8 DEF Next, Worker

\* The wishes are settled when the job starts, and a cancel is never taken back.
LEMMA WishesKept == ASSUME Next PROVE opts' = opts /\ cancel' \in {cancel, TRUE}
<1> USE DEF vars, setup, copyVars, cardVars, verifyVars, fatVars, env
<1>1. CASE DisableAutomount \/ Preflight \/ Dismount \/ LeaveGate \/ ForceUnmount
           \/ OpenDevice \/ Scrub \/ Purge \/ StartWatchdog \/ OpenImage \/ CopyDone
  BY <1>1 DEF DisableAutomount, Preflight, Dismount, LeaveGate, ForceUnmount,
     OpenDevice, Scrub, Purge, StartWatchdog, OpenImage, CopyDone
<1>2. CASE VerifyBlock \/ VerifyFails \/ VerifyDone \/ VerifyCancelled
           \/ SkipCustomize \/ OpenFat \/ WriteSeed \/ WriteBundle \/ CloseFat
           \/ WriteTable \/ SyncTable
  BY <1>2 DEF VerifyBlock, VerifyFails, VerifyDone, VerifyCancelled, SkipCustomize,
     OpenFat, WriteSeed, WriteBundle, CloseFat, WriteTable, SyncTable
<1>3. CASE StopWatchdog \/ JoinWatchdog \/ CloseDevice \/ Eject \/ MakeVisible
           \/ CloseAgain \/ Recover
  BY <1>3 DEF StopWatchdog, JoinWatchdog, CloseDevice, Eject, MakeVisible,
     CloseAgain, Recover
<1>4. CASE Watchdog \/ WindowsMounts \/ WindowsWrites \/ Cancel \/ Ended
  BY <1>4 DEF Watchdog, WatchdogSees, WatchdogStrips, WatchdogExits,
     WindowsMounts, WindowsWrites, Cancel, Ended
<1>5. CASE CopyStep
  BY <1>5 DEF CopyStep, Copy!HoldBack, Copy!CopyChunk, Copy!TearChunk, Copy!Doom,
     Copy!Return, Copy!Raise, Copy!Cancel, StoreWrongly
<1> QED
  BY <1>1, <1>2, <1>3, <1>4, <1>5 DEF Next, Worker

\* Where the other steps lead.
LEMMA Flow ==
  ASSUME Next, ~CardStep
  PROVE  \/ pc' = pc
         \/ pc \in Preparing /\ pc' \in Preparing \cup {"recover"}
         \/ pc \in {"purge", "watch", "image"} /\ pc' \in {"watch", "image", "copy", "stop"}
         \/ CopyDone /\ pc = "copy" /\ copy = "returned" /\ pc' \in {"verify", "customize"}
         \/ pc = "copy" /\ pc' = "stop"
         \/ /\ VerifyFails \/ VerifyDone \/ VerifyCancelled
            /\ pc = "verify" /\ pc' \in {"customize", "stop"}
         \/ pc = "customize" /\ pc' = "table"
         \/ pc \in {"seed", "bundle"} /\ pc' \in {"bundle", "fatclose"}
         \/ pc \in {"stop", "join"} /\ pc' \in {"join", "close"}
         \/ pc \in {"eject", "visible"} /\ pc' \in {"visible", "recover"}
<1> USE DEF CardStep, Preparing, Fail, Abort, FatFails, setup, copyVars, cardVars, verifyVars,
            fatVars, env
<1>1. CASE DisableAutomount \/ Preflight \/ Dismount \/ LeaveGate \/ ForceUnmount
  BY <1>1 DEF DisableAutomount, Preflight, Dismount, LeaveGate, ForceUnmount
<1>2. CASE OpenDevice \/ Scrub \/ Purge \/ StartWatchdog \/ OpenImage \/ CopyStep
  BY <1>2 DEF OpenDevice, Scrub, Purge, StartWatchdog, OpenImage, CopyStep
<1>3. CASE CopyDone \/ VerifyBlock \/ VerifyFails \/ VerifyDone \/ VerifyCancelled
  BY <1>3 DEF CopyDone, VerifyBlock, VerifyFails, VerifyDone, VerifyCancelled
<1>4. CASE SkipCustomize \/ OpenFat \/ WriteSeed \/ WriteBundle \/ CloseFat
  BY <1>4 DEF SkipCustomize, OpenFat, WriteSeed, WriteBundle, CloseFat
<1>5. CASE WriteTable \/ SyncTable \/ StopWatchdog \/ JoinWatchdog \/ CloseDevice
  BY <1>5 DEF WriteTable, SyncTable, StopWatchdog, JoinWatchdog, CloseDevice
<1>6. CASE Eject \/ MakeVisible \/ CloseAgain \/ Recover
  BY <1>6 DEF Eject, MakeVisible, CloseAgain, Recover, RestoreReadableExfat
<1>7. CASE Watchdog \/ WindowsMounts \/ WindowsWrites \/ Cancel
  BY <1>7 DEF Watchdog, WatchdogSees, WatchdogStrips, WatchdogExits, WindowsMounts,
              WindowsWrites, Cancel
<1>8. CASE Ended
  BY <1>8 DEF Ended, vars
<1> QED
  BY <1>1, <1>2, <1>3, <1>4, <1>5, <1>6, <1>7, <1>8 DEF Next, Worker

\* Letters come and go; the watchdog is stopped once.
LEMMA LettersMove ==
  ASSUME Next
  PROVE  /\ stopFlag' \in {stopFlag, TRUE} /\ letter' \in {letter, TRUE, FALSE}
         /\ bound' \in {bound, bound /\ letter, FALSE}
<1> USE DEF setup, copyVars, cardVars, verifyVars, fatVars, env
<1>1. CASE DisableAutomount \/ Preflight \/ Dismount \/ LeaveGate \/ ForceUnmount
  BY <1>1 DEF DisableAutomount, Preflight, Dismount, LeaveGate, ForceUnmount
<1>2. CASE OpenDevice \/ Scrub \/ Purge \/ StartWatchdog \/ OpenImage \/ CopyStep
  BY <1>2 DEF OpenDevice, Scrub, Purge, StartWatchdog, OpenImage, CopyStep
<1>3. CASE CopyDone \/ VerifyBlock \/ VerifyFails \/ VerifyDone \/ VerifyCancelled
  BY <1>3 DEF CopyDone, VerifyBlock, VerifyFails, VerifyDone, VerifyCancelled
<1>4. CASE SkipCustomize \/ OpenFat \/ WriteSeed \/ WriteBundle \/ CloseFat
  BY <1>4 DEF SkipCustomize, OpenFat, WriteSeed, WriteBundle, CloseFat
<1>5. CASE WriteTable \/ SyncTable \/ StopWatchdog \/ JoinWatchdog \/ CloseDevice
  BY <1>5 DEF WriteTable, SyncTable, StopWatchdog, JoinWatchdog, CloseDevice
<1>6. CASE Eject \/ MakeVisible \/ CloseAgain \/ Recover
  BY <1>6 DEF Eject, MakeVisible, CloseAgain, Recover, RestoreReadableExfat
<1>7. CASE Watchdog \/ WindowsMounts \/ WindowsWrites \/ Cancel
  BY <1>7 DEF Watchdog, WatchdogSees, WatchdogStrips, WatchdogExits, WindowsMounts,
              WindowsWrites, Cancel
<1>8. CASE Ended
  BY <1>8 DEF Ended, vars
<1> QED
  BY <1>1, <1>2, <1>3, <1>4, <1>5, <1>6, <1>7, <1>8 DEF Next, Worker

-----------------------------------------------------------------------------
(* The invariant is inductive: one lemma for each of its parts.            *)

LEMMA InitInv == Init => IInv
<1> SUFFICES ASSUME Init PROVE IInv
  OBVIOUS
<1> USE NChunksAssumption, MaxPollsAssumption DEF Init, Copy!Init
<1>1. TypeOK
  <2>1. Stages
    BY DEF Stages
  <2>2. CardFlags
    BY DEF CardFlags
  <2>3. EnvFlags
    <3>1. /\ opts \in [verify : BOOLEAN, customize : BOOLEAN, fat : BOOLEAN]
          /\ cancel = FALSE /\ stopFlag = FALSE
          /\ letter \in BOOLEAN /\ bound \in BOOLEAN
      OBVIOUS
    <3> QED
      BY ONLY <3>1 DEF EnvFlags
  <2>4. CopyTypes
    <3>1. total = 0 /\ first = 0 /\ late = 0 /\ 0 \in 0..NChunks /\ 0 \in 0..1
      OBVIOUS
    <3>2. dev \in [Chunk -> Chunk \cup {Old, Torn}]
      <4>1. dev = [b \in Copy!Chunk |-> Copy!Old]
        OBVIOUS
      <4>2. Copy!Chunk = Chunk /\ Copy!Old = Old
        BY ONLY DEF Chunk, Copy!Chunk, Old, Copy!Old
      <4> QED
        BY ONLY <4>1, <4>2
    <3>3. doomed \in BOOLEAN /\ copy \in {"join", "returned", "raised"}
      OBVIOUS
    <3> QED
      BY ONLY <3>1, <3>2, <3>3 DEF CopyTypes
  <2>5. CardTypes
    BY DEF CardTypes
  <2> QED
    BY <2>1, <2>2, <2>3, <2>4, <2>5 DEF TypeOK
<1>2. ResultStage /\ DeviceStage /\ TableStage /\ CopyStage
  BY DEF ResultStage, DeviceStage, TableStage, CopyStage, Preparing, Customizing,
         Leaving, Ending
<1>3. ReadBack /\ Verified /\ Customized
  BY DEF ReadBack, Verified, Customized, Customizing
<1>4. BootsOnlyVerified /\ NoHalfCustomizedBoot /\ Settling
  BY DEF BootsOnlyVerified, NoHalfCustomizedBoot, Settling, CardSettled
<1> QED
  BY <1>1, <1>2, <1>3, <1>4 DEF IInv

LEMMA StepCardFlags == ASSUME TypeOK, Next PROVE CardFlags'
<1> USE DEF TypeOK, CardFlags, setup, copyVars, cardVars, verifyVars, fatVars, env
<1>1. CASE OpenDevice
  BY <1>1 DEF OpenDevice
<1>2. CASE Scrub
  BY <1>2 DEF Scrub
<1>3. CASE VerifyBlock
  BY <1>3 DEF VerifyBlock
<1>4. CASE OpenFat \/ CloseFat
  BY <1>4 DEF OpenFat, CloseFat
<1>5. CASE WriteTable \/ SyncTable
  BY <1>5 DEF WriteTable, SyncTable
<1>6. CASE CloseDevice \/ CloseAgain
  BY <1>6 DEF CloseDevice, CloseAgain
<1>7. CASE Recover
  BY <1>7 DEF Recover
<1>8. CASE ~CardStep
  <2>1. UNCHANGED <<handle, opened, scrubbed, vok, fat, mbrWritten>>
    BY <1>8, Kept
  <2> QED
    BY <2>1
<1> QED
  BY <1>1, <1>2, <1>3, <1>4, <1>5, <1>6, <1>7, <1>8 DEF CardStep

LEMMA StepEnvFlags == ASSUME TypeOK, Next PROVE EnvFlags'
<1> USE DEF TypeOK, EnvFlags
<1>1. opts' = opts /\ cancel' \in BOOLEAN
  BY WishesKept
<1>2. stopFlag' \in BOOLEAN /\ letter' \in BOOLEAN /\ bound' \in BOOLEAN
  BY LettersMove
<1> QED
  BY <1>1, <1>2

\* The copy keeps its types.
LEMMA StepCopyTypes == ASSUME TypeOK, CopyStage, Next PROVE CopyTypes'
<1> USE NChunksAssumption
    DEF TypeOK, CopyTypes, CopyStage, Chunk, Copy!Chunk, Old, Torn, Copy!Torn
<1>1. CASE CopyStep
  <2>1. CASE \E c \in Chunk : Copy!HoldBack(c)
    BY <2>1 DEF Copy!HoldBack
  <2>2. CASE \E c \in Chunk : Copy!CopyChunk(c)
    BY <2>2 DEF Copy!CopyChunk, Copy!OneLateWrite
  <2>3. CASE Copy!TearChunk
    BY <2>3 DEF Copy!TearChunk, Copy!OneLateWrite
  <2>4. CASE Copy!Doom \/ Copy!Return \/ Copy!Raise \/ Copy!Cancel
    BY <2>4 DEF Copy!Doom, Copy!Return, Copy!Raise, Copy!Cancel
  <2>5. CASE StoreWrongly
    BY <2>5 DEF StoreWrongly
  <2> QED
    BY <1>1, <2>1, <2>2, <2>3, <2>4, <2>5 DEF CopyStep
<1>2. CASE WindowsWrites
  BY <1>2 DEF WindowsWrites
<1>3. CASE ~CopyStep /\ ~WindowsWrites
  BY <1>3, Kept
<1> QED
  BY <1>1, <1>2, <1>3

LEMMA StepStages == ASSUME TypeOK, Next PROVE Stages'
<1> USE DEF TypeOK, Stages, SDStates, Fail, Abort, FatFails, setup, copyVars, cardVars,
            verifyVars, fatVars, env
<1>1. CASE DisableAutomount \/ Preflight \/ Dismount \/ LeaveGate \/ ForceUnmount
  BY <1>1 DEF DisableAutomount, Preflight, Dismount, LeaveGate, ForceUnmount
<1>2. CASE OpenDevice \/ Scrub \/ Purge \/ StartWatchdog \/ OpenImage \/ CopyStep
  BY <1>2 DEF OpenDevice, Scrub, Purge, StartWatchdog, OpenImage, CopyStep
<1>3. CASE CopyDone \/ VerifyBlock \/ VerifyFails \/ VerifyDone \/ VerifyCancelled
  BY <1>3 DEF CopyDone, VerifyBlock, VerifyFails, VerifyDone, VerifyCancelled
<1>4. CASE SkipCustomize \/ OpenFat \/ WriteSeed \/ WriteBundle \/ CloseFat
  BY <1>4 DEF SkipCustomize, OpenFat, WriteSeed, WriteBundle, CloseFat
<1>5. CASE WriteTable \/ SyncTable \/ StopWatchdog \/ JoinWatchdog \/ CloseDevice
  BY <1>5 DEF WriteTable, SyncTable, StopWatchdog, JoinWatchdog, CloseDevice
<1>6. CASE Eject \/ MakeVisible \/ CloseAgain \/ Recover
  BY <1>6 DEF Eject, MakeVisible, CloseAgain, Recover, RestoreReadableExfat
<1>7. CASE Watchdog \/ WindowsMounts \/ WindowsWrites \/ Cancel
  BY <1>7 DEF Watchdog, WatchdogSees, WatchdogStrips, WatchdogExits, WindowsMounts,
              WindowsWrites, Cancel
<1>8. CASE Ended
  BY <1>8 DEF Ended, vars
<1> QED
  BY <1>1, <1>2, <1>3, <1>4, <1>5, <1>6, <1>7, <1>8 DEF Next, Worker

LEMMA StepCardTypes == ASSUME TypeOK, Next PROVE CardTypes'
<1> USE DEF TypeOK, CardTypes, CopyTypes, setup, copyVars, cardVars, verifyVars,
            fatVars, env
<1>1. CASE ForceUnmount
  BY <1>1, MaxPollsAssumption DEF ForceUnmount
<1>2. CASE CopyDone \/ VerifyBlock
  BY <1>2, NChunksAssumption DEF CopyDone, VerifyBlock
<1>3. CASE DisableAutomount \/ Preflight \/ Dismount \/ LeaveGate
  BY <1>3 DEF DisableAutomount, Preflight, Dismount, LeaveGate
<1>4. CASE OpenDevice \/ Scrub \/ Purge \/ StartWatchdog \/ OpenImage \/ CopyStep
  BY <1>4 DEF OpenDevice, Scrub, Purge, StartWatchdog, OpenImage, CopyStep
<1>5. CASE VerifyFails \/ VerifyDone \/ VerifyCancelled
  BY <1>5 DEF VerifyFails, VerifyDone, VerifyCancelled
<1>6. CASE SkipCustomize \/ OpenFat \/ WriteSeed \/ WriteBundle \/ CloseFat
  BY <1>6 DEF SkipCustomize, OpenFat, WriteSeed, WriteBundle, CloseFat
<1>7. CASE WriteTable \/ SyncTable \/ StopWatchdog \/ JoinWatchdog \/ CloseDevice
  BY <1>7 DEF WriteTable, SyncTable, StopWatchdog, JoinWatchdog, CloseDevice
<1>8. CASE Eject \/ MakeVisible \/ CloseAgain \/ Recover
  BY <1>8 DEF Eject, MakeVisible, CloseAgain, Recover, RestoreReadableExfat
<1>9. CASE Watchdog \/ WindowsMounts \/ WindowsWrites \/ Cancel
  BY <1>9 DEF Watchdog, WatchdogSees, WatchdogStrips, WatchdogExits, WindowsMounts,
              WindowsWrites, Cancel
<1>10. CASE Ended
  BY <1>10 DEF Ended, vars
<1> QED
  BY <1>1, <1>2, <1>3, <1>4, <1>5, <1>6, <1>7, <1>8, <1>9, <1>10 DEF Next, Worker

LEMMA StepResultStage == ASSUME TypeOK, ResultStage, Next PROVE ResultStage'
<1> USE DEF ResultStage, Ending, Leaving, Fail, Abort, FatFails, setup, copyVars, cardVars,
            verifyVars, fatVars, env
<1>1. CASE DisableAutomount \/ Preflight \/ Dismount \/ LeaveGate \/ ForceUnmount
  BY <1>1 DEF DisableAutomount, Preflight, Dismount, LeaveGate, ForceUnmount
<1>2. CASE OpenDevice \/ Scrub \/ Purge \/ StartWatchdog \/ OpenImage \/ CopyStep
  BY <1>2 DEF OpenDevice, Scrub, Purge, StartWatchdog, OpenImage, CopyStep
<1>3. CASE CopyDone \/ VerifyBlock \/ VerifyFails \/ VerifyDone \/ VerifyCancelled
  BY <1>3 DEF CopyDone, VerifyBlock, VerifyFails, VerifyDone, VerifyCancelled
<1>4. CASE SkipCustomize \/ OpenFat \/ WriteSeed \/ WriteBundle \/ CloseFat
  BY <1>4 DEF SkipCustomize, OpenFat, WriteSeed, WriteBundle, CloseFat
<1>5. CASE WriteTable \/ SyncTable \/ StopWatchdog \/ JoinWatchdog \/ CloseDevice
  BY <1>5 DEF WriteTable, SyncTable, StopWatchdog, JoinWatchdog, CloseDevice
<1>6. CASE Eject \/ MakeVisible \/ CloseAgain \/ Recover
  BY <1>6 DEF Eject, MakeVisible, CloseAgain, Recover
<1>7. CASE Watchdog \/ WindowsMounts \/ WindowsWrites \/ Cancel
  BY <1>7 DEF Watchdog, WatchdogSees, WatchdogStrips, WatchdogExits, WindowsMounts,
              WindowsWrites, Cancel
<1>8. CASE Ended
  BY <1>8 DEF Ended, vars
<1> QED
  BY <1>1, <1>2, <1>3, <1>4, <1>5, <1>6, <1>7, <1>8 DEF Next, Worker

LEMMA StepDeviceStage == ASSUME TypeOK, DeviceStage, Next PROVE DeviceStage'
<1> USE DEF DeviceStage, Preparing, Leaving, Fail, Abort, setup, copyVars, cardVars,
            verifyVars, fatVars, env
<1>1. CASE OpenDevice
  <2>1. /\ pc = "open" /\ fat' = fat
        /\ \/ pc' = "scrub" /\ handle' = TRUE /\ opened' = TRUE
           \/ pc' = "recover" /\ UNCHANGED <<handle, opened>>
    BY <1>1 DEF OpenDevice
  <2> QED
    BY <2>1
<1>2. CASE Scrub \/ VerifyBlock \/ WriteTable \/ SyncTable
  BY <1>2 DEF Scrub, VerifyBlock, WriteTable, SyncTable
<1>3. CASE OpenFat \/ CloseFat
  BY <1>3 DEF OpenFat, CloseFat
<1>4. CASE CloseDevice \/ CloseAgain
  BY <1>4 DEF CloseDevice, CloseAgain
<1>5. CASE Recover
  BY <1>5 DEF Recover
<1>6. CASE ~CardStep
  BY <1>6, Flow, Kept
<1> QED
  BY <1>1, <1>2, <1>3, <1>4, <1>5, <1>6 DEF CardStep

LEMMA StepTableStage ==
  ASSUME TypeOK, ResultStage, DeviceStage, TableStage, Next PROVE TableStage'
<1> USE DEF TableStage, Preparing, Ending, Leaving, Fail, setup, copyVars, cardVars,
            verifyVars, fatVars, env
<1>1. CASE Scrub
  <2>1. /\ pc = "scrub" /\ pc' = "purge" /\ opened /\ UNCHANGED <<opened, mbrWritten>>
        /\ \/ table' = "blank"
           \/ table' \in {"old", "torn"} /\ scrubbed' = scrubbed
    BY <1>1 DEF Scrub, DeviceStage
  <2> QED
    BY <2>1
<1>2. CASE WriteTable
  <2>1. /\ pc = "table" /\ opened /\ UNCHANGED <<opened, scrubbed>>
        /\ \/ pc' = "tablesync" /\ table' = "image" /\ mbrWritten' = mbrWritten
           \/ pc' = "stop" /\ table' \in {table, "torn"}
    BY <1>2 DEF WriteTable, DeviceStage
  <2> QED
    BY <2>1
<1>3. CASE SyncTable
  <2>1. /\ pc = "tablesync" /\ pc' = "stop" /\ opened /\ UNCHANGED <<opened, scrubbed, table>>
    BY <1>3 DEF SyncTable, DeviceStage
  <2> QED
    BY <2>1
<1>4. CASE Recover
  <2>1. /\ pc = "restore" /\ pc' = "ended" /\ UNCHANGED <<opened, scrubbed, mbrWritten, result>>
        /\ \/ opened /\ ~mbrWritten /\ table' \in {"exfat", "blank", table}
           \/ table' = table
    BY <1>4 DEF Recover, RestoreReadableExfat
  <2> QED
    BY <2>1
<1>5. CASE OpenDevice
  <2>1. /\ pc = "open" /\ pc' \in {"scrub", "recover"} /\ ~opened
        /\ opened' \/ (opened' = opened /\ result' # "ok")
        /\ UNCHANGED <<table, scrubbed, mbrWritten>>
    BY <1>5 DEF OpenDevice, Abort, DeviceStage
  <2> QED
    BY <2>1
<1>6. CASE VerifyBlock \/ OpenFat \/ CloseFat \/ CloseDevice \/ CloseAgain
  <2>1. UNCHANGED <<table, scrubbed, mbrWritten, opened>>
    BY <1>6 DEF VerifyBlock, OpenFat, CloseFat, CloseDevice, CloseAgain
  <2>2. \/ pc \notin Ending \cup {"tablesync"} /\ pc' # "tablesync" /\ pc' # "scrub"
        \/ pc \in Ending /\ pc' \in Ending \ {"ended"} /\ pc # "ended"
    BY <1>6 DEF VerifyBlock, OpenFat, CloseFat, CloseDevice, CloseAgain
  <2>3. ~opened => result' # "ok"
    <3>1. CASE CloseDevice
      BY <3>1 DEF CloseDevice, DeviceStage
    <3>2. CASE ~CloseDevice
      BY <3>2, Kept DEF SDStates
    <3> QED
      BY <3>1, <3>2
  <2> QED
    BY <2>1, <2>2, <2>3
<1>7. CASE ~CardStep
  <2>1. UNCHANGED <<table, scrubbed, mbrWritten, opened>>
    BY <1>7, Kept DEF CardStep
  <2>2. ~opened => result' # "ok"
    BY <1>7, Kept DEF SDStates, CardStep
  <2> QED
    BY <1>7, <2>1, <2>2, Flow
<1> QED
  BY <1>1, <1>2, <1>3, <1>4, <1>5, <1>6, <1>7 DEF CardStep

\* Where the steps that Flow leaves out lead.
LEMMA CardFlow ==
  ASSUME CardStep
  PROVE  \/ pc = "verify" /\ pc' = "verify"
         \/ pc \in {"customize", "fatclose"} /\ pc' \in {"seed", "table", "stop"}
         \/ pc \notin Customizing /\ pc' \notin Customizing \cup {"verify", "copy"}
         \/ pc = "table" /\ pc' \in {"tablesync", "stop"}
  BY DEF CardStep, OpenDevice, Scrub, VerifyBlock, OpenFat, CloseFat, WriteTable,
         SyncTable, CloseDevice, CloseAgain, Recover, Customizing, Abort, Fail

LEMMA StepCopyStage == ASSUME TypeOK, CopyStage, Next PROVE CopyStage'
<1> USE NChunksAssumption DEF TypeOK, CopyTypes, CopyStage
<1>1. CASE CopyStep
  <2>1. pc = "copy" /\ pc' = "copy"
    BY <1>1 DEF CopyStep
  <2>2. CASE \E c \in Chunk : Copy!HoldBack(c) \/ Copy!CopyChunk(c)
    BY <2>1, <2>2 DEF Copy!HoldBack, Copy!CopyChunk, Copy!MayCopy, Chunk, Customizing
  <2>3. CASE Copy!TearChunk \/ Copy!Doom \/ Copy!Return \/ Copy!Raise \/ Copy!Cancel
    BY <2>1, <2>3 DEF Copy!TearChunk, Copy!Doom, Copy!Return, Copy!Raise, Copy!Cancel,
       Customizing
  <2>4. CASE StoreWrongly
    BY <2>1, <2>4 DEF StoreWrongly, Customizing
  <2> QED
    BY <1>1, <2>2, <2>3, <2>4 DEF CopyStep
<1>2. CASE ~CopyStep
  <2>1. UNCHANGED <<total, first, copy>>
    BY <1>2, Kept DEF WindowsWrites
  <2>2. ~cancel' => ~cancel
    BY WishesKept
  <2>3. pc' \in Customizing \cup {"verify"} =>
          pc \in Customizing \cup {"verify"} \/ copy = "returned"
    <3>1. CASE CardStep
      BY <3>1, CardFlow DEF Customizing
    <3>2. CASE ~CardStep
      BY <3>2, Flow DEF Customizing, Preparing
    <3> QED
      BY <3>1, <3>2
  <2> QED
    BY <2>1, <2>2, <2>3
<1> QED
  BY <1>1, <1>2

\* Once the old table is gone, only the copy writes to the card.
LEMMA BlocksSettled ==
  ASSUME TypeOK, TableStage, Next, scrubbed', pc' # "copy", pc # "copy"
  PROVE  (scrubbed /\ dev' = dev) \/ pc' = "purge"
<1>1. CASE Scrub
  BY <1>1 DEF Scrub
<1>2. CASE ~Scrub
  <2>1. scrubbed
    <3>1. CASE CardStep
      BY <1>2, <3>1 DEF CardStep, OpenDevice, VerifyBlock, OpenFat, CloseFat, WriteTable,
         SyncTable, CloseDevice, CloseAgain, Recover, cardVars
    <3>2. CASE ~CardStep
      BY <3>2, Kept
    <3> QED
      BY <3>1, <3>2
  <2>2. ~WindowsWrites /\ ~CopyStep
    BY <2>1 DEF TableStage, WindowsWrites, CopyStep
  <2> QED
    BY <2>1, <2>2, Kept
<1> QED
  BY <1>1, <1>2

LEMMA StepReadBack ==
  ASSUME TypeOK, TableStage, ReadBack, Next PROVE ReadBack'
<1> SUFFICES ASSUME pc' = "verify", vok', scrubbed', NEW b \in Chunk, 1 < b, b < vnext'
             PROVE  dev'[b] = b
  BY DEF ReadBack, Chunk
<1> USE DEF TypeOK, CopyTypes, CardTypes, Chunk
<1>1. CASE CopyDone
  BY <1>1, NChunksAssumption DEF CopyDone, Fail
<1>2. CASE VerifyBlock
  <2>1. pc = "verify" /\ vnext' = vnext + 1 /\ vok /\ dev[vnext] = vnext
    BY <1>2 DEF VerifyBlock
  <2>2. scrubbed /\ dev' = dev
    BY <2>1, BlocksSettled
  <2> QED
    BY <2>1, <2>2, NChunksAssumption DEF ReadBack
<1>3. CASE ~CopyDone /\ ~VerifyBlock
  <2>1. pc = "verify"
    <3>1. CASE CardStep
      BY <1>3, <3>1, CardFlow
    <3>2. CASE ~CardStep
      BY <1>3, <3>2, Flow DEF Preparing
    <3> QED
      BY <3>1, <3>2
  <2>2. scrubbed /\ dev' = dev
    BY <2>1, BlocksSettled
  <2> QED
    BY <1>3, <2>1, <2>2, Kept DEF ReadBack
<1> QED
  BY <1>1, <1>2, <1>3

\* There are two ways into customize, unless verify was not wanted or cancelled.
LEMMA VerifyPasses ==
  ASSUME EnvFlags, Next, pc' \in Customizing, opts.verify, ~cancel
  PROVE  \/ pc \in Customizing
         \/ pc = "verify" /\ vok /\ vnext > total
<1>1. CASE CopyDone
  BY <1>1 DEF CopyDone, Fail, Customizing
<1>2. CASE VerifyFails \/ VerifyDone \/ VerifyCancelled
  BY <1>2 DEF VerifyFails, VerifyDone, VerifyCancelled, Fail, Customizing
<1>3. CASE CardStep
  BY <1>3, CardFlow DEF Customizing
<1>4. CASE ~CardStep /\ ~CopyDone /\ ~(VerifyFails \/ VerifyDone \/ VerifyCancelled)
  BY <1>4, Flow DEF Customizing, Preparing
<1> QED
  BY <1>1, <1>2, <1>3, <1>4

LEMMA StepVerified ==
  ASSUME TypeOK, TableStage, CopyStage, ReadBack, Verified, Next PROVE Verified'
<1> SUFFICES ASSUME pc' \in Customizing', (opts.verify)', scrubbed', ~cancel',
                    NEW b \in Chunk' \ {1}
             PROVE  dev'[b] = b
  BY DEF Verified
<1>0. pc' \in Customizing /\ b \in Chunk \ {1}
  BY DEF Customizing, Chunk
<1>1. opts.verify /\ ~cancel
  <2>1. opts' = opts
    BY WishesKept
  <2>2. cancel => cancel'
    BY WishesKept
  <2> QED
    BY <2>1, <2>2
<1>2. pc # "copy" /\ pc' # "copy" /\ pc' # "purge"
  BY <1>0, <1>1, VerifyPasses DEF TypeOK, Customizing
<1>3. scrubbed /\ dev' = dev
  BY <1>2, BlocksSettled
<1>4. CASE pc \in Customizing
  BY <1>0, <1>1, <1>3, <1>4 DEF Verified
<1>5. CASE pc = "verify" /\ vok /\ vnext > total
  <2>1. total = NChunks
    BY <1>1, <1>5 DEF CopyStage
  <2>2. 1 < b /\ b < vnext
    BY <1>0, <1>5, <2>1, NChunksAssumption DEF Chunk, TypeOK, CardTypes
  <2> QED
    BY <1>0, <1>3, <1>5, <2>2 DEF ReadBack
<1> QED
  BY <1>0, <1>1, <1>4, <1>5, VerifyPasses DEF TypeOK

LEMMA StepBootsOnlyVerified ==
  ASSUME TypeOK, TableStage, TableStage', CopyStage, Verified, BootsOnlyVerified, Next
  PROVE  BootsOnlyVerified'
<1> SUFFICES ASSUME table' = "image", (opts.verify)', scrubbed'
             PROVE  (first = 1 /\ total = NChunks /\ \A b \in Chunk \ {1} : dev[b] = b)'
  BY DEF BootsOnlyVerified
<1>1. opts.verify
  BY WishesKept
<1>2. CASE table = "image"
  <2>1. pc \in {"tablesync"} \cup Ending /\ pc' \in {"tablesync"} \cup Ending
    BY <1>2 DEF TableStage
  <2>2. pc # "copy" /\ pc' # "copy" /\ pc' # "purge"
    BY <2>1 DEF Ending, Leaving
  <2>3. scrubbed /\ dev' = dev
    BY <2>2, BlocksSettled
  <2>4. first' = first /\ total' = total
    BY <2>2, Kept DEF CopyStep, WindowsWrites
  <2> QED
    BY <1>1, <1>2, <2>3, <2>4 DEF BootsOnlyVerified
<1>3. CASE WriteTable /\ table # "image"
  <2>1. pc = "table" /\ ~cancel /\ first # 0 /\ UNCHANGED <<scrubbed, total, first, dev>>
    BY <1>3 DEF WriteTable, copyVars
  <2> QED
    BY <1>1, <2>1 DEF CopyStage, Verified, Customizing
<1>4. CASE ~WriteTable /\ table # "image"
  BY <1>4, Kept DEF Scrub, Recover, RestoreReadableExfat
<1> QED
  BY <1>2, <1>3, <1>4

LEMMA StepCustomized == ASSUME TypeOK, Customized, Next PROVE Customized'
<1> SUFFICES ASSUME (opts.customize)', (opts.fat)', ~cancel'
             PROVE  (/\ pc = "fatclose" /\ result = "none" => cache = "bundle"
                     /\ pc = "table" /\ first # 0 => cache = "bundle")'
  BY DEF Customized
<1>1. opts.customize /\ opts.fat /\ ~cancel
  <2>1. opts' = opts
    BY WishesKept
  <2>2. cancel => cancel'
    BY WishesKept
  <2> QED
    BY <2>1, <2>2
<1>2. CASE WriteSeed \/ WriteBundle \/ CloseFat
  <2>1. CASE WriteSeed
    BY <1>1, <2>1 DEF WriteSeed, FatFails
  <2>2. CASE WriteBundle
    BY <1>1, <2>2 DEF WriteBundle, FatFails
  <2>3. CASE CloseFat
    BY <1>1, <2>3 DEF CloseFat, Customized
  <2> QED
    BY <1>2, <2>1, <2>2, <2>3
<1>3. CASE OpenFat \/ SkipCustomize
  BY <1>1, <1>3 DEF OpenFat, SkipCustomize, FatFound, Fail, copyVars
<1>4. CASE ~(WriteSeed \/ WriteBundle \/ CloseFat \/ OpenFat \/ SkipCustomize)
  <2>1. pc' \in {"fatclose", "table"} => pc' = pc /\ UNCHANGED <<result, cache>>
    BY <1>4, Kept
  <2>2. pc' \in {"fatclose", "table"} => first' = first
    BY <2>1, Kept DEF CopyStep, WindowsWrites
  <2> QED
    BY <1>1, <2>1, <2>2 DEF Customized
<1> QED
  BY <1>2, <1>3, <1>4

LEMMA StepNoHalfCustomizedBoot ==
  ASSUME TypeOK, TableStage, Customized, NoHalfCustomizedBoot, Next
  PROVE  NoHalfCustomizedBoot'
<1> SUFFICES ASSUME table' = "image", (opts.customize)', (opts.fat)'
             PROVE  cache' = "bundle"
  BY DEF NoHalfCustomizedBoot
<1>1. opts.customize /\ opts.fat
  BY WishesKept
<1>2. CASE table = "image"
  <2>1. pc \notin {"seed", "bundle"}
    BY <1>2 DEF TableStage, Ending, Leaving
  <2>2. cache' = cache
    BY <2>1, Kept DEF WriteSeed, WriteBundle
  <2> QED
    BY <1>1, <1>2, <2>2 DEF NoHalfCustomizedBoot
<1>3. CASE WriteTable /\ table # "image"
  <2>1. pc = "table" /\ ~cancel /\ first # 0 /\ cache' = cache
    BY <1>3 DEF WriteTable, fatVars
  <2> QED
    BY <1>1, <2>1 DEF Customized
<1>4. CASE ~WriteTable /\ table # "image"
  BY <1>4, Kept DEF Scrub, Recover, RestoreReadableExfat
<1> QED
  BY <1>2, <1>3, <1>4

\* What is complete stays so until the card is restored.
LEMMA CompleteKept ==
  ASSUME TypeOK, TableStage, Next, ~WriteTable, ~Recover, Complete PROVE Complete'
<1>1. mbrWritten => mbrWritten'
  BY Kept DEF CardStep, OpenDevice, Scrub, VerifyBlock, OpenFat, CloseFat, SyncTable,
     CloseDevice, CloseAgain, cardVars
<1>2. table # "image" => table' # "image"
  BY Kept DEF Scrub
<1>3. cancel => cancel'
  BY WishesKept
<1> QED
  BY <1>1, <1>2, <1>3 DEF Complete

\* A job ends once, with the recovery.
LEMMA Endless == ASSUME Next, ~Recover PROVE pc' = "ended" <=> pc = "ended"
<1>1. CASE CardStep
  BY <1>1 DEF CardStep, OpenDevice, Scrub, VerifyBlock, OpenFat, CloseFat, WriteTable,
     SyncTable, CloseDevice, CloseAgain, Abort, Fail
<1>2. CASE ~CardStep
  BY <1>2, Flow DEF Preparing
<1> QED
  BY <1>1, <1>2

LEMMA StepSettling ==
  ASSUME TypeOK, ResultStage, DeviceStage, TableStage, CopyStage, Settling, Next
  PROVE  Settling'
<1> SUFFICES ASSUME NChunks # 0
             PROVE  (/\ mbrWritten => table = "image"
                     /\ pc \in {"stop", "join", "close"} /\ result = "none" => Complete
                     /\ pc # "ended" /\ result = "ok" => Complete
                     /\ CardSettled)'
  BY DEF Settling
<1>1. CASE WriteTable
  <2>1. pc = "table" /\ result = "none" /\ ~mbrWritten /\ table # "image" /\ cancel' = cancel
    BY <1>1 DEF WriteTable, ResultStage, TableStage, Ending, Leaving, env
  <2>2. first = 0 => cancel
    BY <2>1 DEF CopyStage, Customizing
  <2>3. CASE first # 0 /\ ~cancel
    BY <1>1, <2>1, <2>3 DEF WriteTable, Fail, CardSettled
  <2>4. CASE cancel
    BY <1>1, <2>1, <2>4 DEF WriteTable, Complete, CardSettled
  <2> QED
    BY <2>2, <2>3, <2>4
<1>2. CASE SyncTable
  <2>1. /\ pc = "tablesync" /\ pc' = "stop" /\ table' = "image"
        /\ (mbrWritten' = TRUE /\ result' = "none") \/ result' = "GARBAGE"
    BY <1>2 DEF SyncTable, Fail, TableStage, ResultStage, Ending, Leaving
  <2> QED
    BY <2>1 DEF Complete, CardSettled
<1>3. CASE Recover
  <2>1. /\ pc' = "ended" /\ UNCHANGED <<mbrWritten, opened>>
        /\ mbrWritten => table' = table
        /\ opened /\ ~mbrWritten => table' = "exfat" \/ "restore" \in Faults
    BY <1>3 DEF Recover, RestoreReadableExfat, setup
  <2> QED
    BY <2>1 DEF Settling, CardSettled
<1>4. CASE ~(WriteTable \/ SyncTable \/ Recover)
  <2>1. mbrWritten' = mbrWritten
    BY <1>4, Kept DEF CardStep, OpenDevice, Scrub, VerifyBlock, OpenFat, CloseFat,
       CloseDevice, CloseAgain, cardVars
  <2>2. mbrWritten => table' = table
    BY <1>4, Kept DEF Scrub, TableStage, Ending, Leaving
  <2>3. pc' \in {"stop", "join", "close"} /\ result' = "none" => Complete'
    BY <1>4, Kept, CompleteKept DEF Settling
  <2>4. pc' # "ended" /\ result' = "ok" => Complete'
    <3> SUFFICES ASSUME pc' # "ended", result' = "ok" PROVE Complete'
      OBVIOUS
    <3>1. CASE CloseDevice
      <4>1. pc = "close" /\ result = "none"
        BY <3>1 DEF CloseDevice, ResultStage
      <4> QED
        BY <1>4, <4>1, CompleteKept DEF Settling
    <3>2. CASE ~CloseDevice
      <4>1. result = "ok"
        BY <3>2, Kept DEF SDStates
      <4>2. pc # "ended"
        BY <1>4, Endless
      <4> QED
        BY <1>4, <4>1, <4>2, CompleteKept DEF Settling
    <3> QED
      BY <3>1, <3>2
  <2>5. CardSettled'
    <3>1. pc' = "ended" => pc = "ended"
      BY <1>4, Endless
    <3>2. pc = "ended" => opened' = opened /\ table' = table
      BY <1>4, Kept DEF Scrub, CardStep, OpenDevice, VerifyBlock, OpenFat,
         CloseFat, CloseDevice, CloseAgain
    <3> QED
      BY <2>1, <3>1, <3>2 DEF Settling, CardSettled
  <2> QED
    BY <2>1, <2>2, <2>3, <2>4, <2>5 DEF Settling
<1> QED
  BY <1>1, <1>2, <1>3, <1>4

-----------------------------------------------------------------------------
LEMMA Inductive == IInv /\ [Next]_vars => IInv'
<1> SUFFICES ASSUME IInv, [Next]_vars PROVE IInv'
  OBVIOUS
<1>1. CASE Next
  <2>1. TypeOK'
    BY <1>1, StepStages, StepCardFlags, StepEnvFlags, StepCopyTypes, StepCardTypes
    DEF IInv, TypeOK
  <2>2. ResultStage' /\ DeviceStage' /\ TableStage' /\ CopyStage'
    BY <1>1, StepResultStage, StepDeviceStage, StepTableStage, StepCopyStage DEF IInv
  <2>3. ReadBack' /\ Verified' /\ Customized'
    BY <1>1, StepReadBack, StepVerified, StepCustomized DEF IInv
  <2>4. BootsOnlyVerified' /\ NoHalfCustomizedBoot' /\ Settling'
    BY <1>1, <2>2, StepBootsOnlyVerified, StepNoHalfCustomizedBoot, StepSettling DEF IInv
  <2> QED
    BY <2>1, <2>2, <2>3, <2>4 DEF IInv
<1>2. CASE UNCHANGED vars
  <2> USE <1>2 DEF vars, setup, copyVars, cardVars, verifyVars, fatVars, env
  <2>1. TypeOK'
    BY DEF IInv, TypeOK, Stages, CardFlags, EnvFlags, CopyTypes, CardTypes
  <2>2. ResultStage' /\ DeviceStage' /\ TableStage' /\ CopyStage'
    BY DEF IInv, ResultStage, DeviceStage, TableStage, CopyStage
  <2>3. ReadBack' /\ Verified' /\ Customized'
    BY DEF IInv, ReadBack, Verified, Customized
  <2>4. BootsOnlyVerified' /\ NoHalfCustomizedBoot' /\ Settling'
    BY DEF IInv, BootsOnlyVerified, NoHalfCustomizedBoot, Settling, Complete, CardSettled
  <2> QED
    BY <2>1, <2>2, <2>3, <2>4 DEF IInv
<1> QED
  BY <1>1, <1>2

\* The inductive invariant holds for every image length, deadline and set of
\* faults.
THEOREM Invariance == Spec => []IInv
<1> QED
  BY InitInv, Inductive, PTL DEF Spec

\* Every variable keeps its type.
THEOREM TypeCorrect == Spec => []TypeOK
<1>1. IInv => TypeOK
  BY DEF IInv
<1> QED
  BY <1>1, Invariance, PTL

\* A verified card boots only with every block of the image on it.
THEOREM BootsOnlyVerifiedHolds == Spec => []BootsOnlyVerified
<1>1. IInv => BootsOnlyVerified
  BY DEF IInv
<1> QED
  BY <1>1, Invariance, PTL

\* No card boots with half of its first-boot files handed to the FAT.
THEOREM NoHalfCustomizedBootHolds == Spec => []NoHalfCustomizedBoot
<1>1. IInv => NoHalfCustomizedBoot
  BY DEF IInv
<1> QED
  BY <1>1, Invariance, PTL

\* From an image that yields anything, an opened card ends up bootable or
\* formatted, unless the restore itself fails.
THEOREM CardSettledHolds == NChunks # 0 /\ Spec => []CardSettled
<1> SUFFICES ASSUME NChunks # 0 PROVE Spec => []CardSettled
  OBVIOUS
<1>1. IInv => CardSettled
  BY DEF IInv, Settling
<1> QED
  BY <1>1, Invariance, PTL

\* The card is formatted only with its handles closed and its table unwritten.
THEOREM FormatsSafelyHolds == Spec => FormatsSafely
<1>1. IInv /\ [Next]_vars =>
        [table' = "exfat" /\ table # "exfat" => opened /\ ~handle /\ ~fat /\ ~mbrWritten]_vars
  <2> SUFFICES ASSUME IInv, Next, table' = "exfat", table # "exfat"
               PROVE  opened /\ ~handle /\ ~fat /\ ~mbrWritten
    OBVIOUS
  <2>1. Recover
    BY Kept DEF Scrub, WriteTable, IInv, TypeOK, CardTypes
  <2>2. pc = "restore" /\ opened /\ ~mbrWritten
    BY <2>1 DEF Recover
  <2> QED
    BY <2>2 DEF IInv, DeviceStage
<1> QED
  BY <1>1, Invariance, PTL DEF Spec, FormatsSafely

-----------------------------------------------------------------------------
(* run() implements CardJob, step by step.                                  *)

LEMMA RecoverKeepsPromise ==
  ASSUME NChunks # 0, IInv, Recover PROVE Promise!Succeed \/ Promise!GiveUp
<1>1. /\ pc = "restore" /\ pc' = "ended" /\ UNCHANGED <<result, opened, cancel>>
      /\ \/ table' = table
         \/ opened /\ ~mbrWritten /\ table' \in {"exfat", "blank"}
  BY DEF Recover, RestoreReadableExfat, setup
<1>2. Outcome = "none" /\ Outcome' = (IF result = "ok" THEN "ok" ELSE "failed")
  BY <1>1 DEF Outcome
<1>3. /\ table # "exfat" /\ (result = "ok" => opened /\ Complete)
      /\ mbrWritten => table = "image"
  BY <1>1 DEF IInv, TableStage, Settling
<1>4. \/ CardState' = CardState
      \/ opened /\ ~mbrWritten /\ CardState' \in {"recovered", "raw"}
  BY <1>1 DEF CardState
<1>5. CASE result = "ok" /\ mbrWritten
  <2>1. CardState = "bootable" /\ CardState' = CardState
    BY <1>3, <1>4, <1>5 DEF CardState
  <2> QED
    BY <1>1, <1>2, <1>5, <2>1 DEF Promise!Succeed
<1>6. CASE result = "ok" /\ ~mbrWritten
  <2>1. CardState = "raw" /\ cancel
    BY <1>3, <1>6 DEF CardState, Complete
  <2> QED
    BY <1>1, <1>2, <1>4, <1>6, <2>1 DEF Promise!GiveUp
<1>7. CASE result # "ok"
  <2>1. opened => CardState # "original"
    BY DEF CardState
  <2> QED
    BY <1>1, <1>2, <1>4, <1>7, <2>1 DEF Promise!GiveUp
<1> QED
  BY <1>5, <1>6, <1>7

LEMMA PromiseStep ==
  ASSUME NChunks # 0, IInv, [Next]_vars PROVE [Promise!Next]_(Promise!vars)
<1> USE DEF Promise!Next, Promise!vars
<1>1. CASE Recover
  BY <1>1, RecoverKeepsPromise
<1>2. CASE OpenDevice
  <2>1. /\ pc = "open" /\ pc' # "ended" /\ UNCHANGED <<table, cancel>>
        /\ table = "old" /\ ~opened
        /\ opened' \/ opened' = opened
    BY <1>2 DEF OpenDevice, Abort, cardVars, IInv, TableStage, DeviceStage, Preparing
  <2>2. /\ CardState = "original" /\ CardState' \in {"original", "raw"}
        /\ Outcome = "none" /\ Outcome' = "none"
    BY <2>1 DEF CardState, Outcome
  <2>3. CASE CardState' = "raw"
    BY <2>1, <2>2, <2>3 DEF Promise!Touch
  <2> QED
    BY <2>1, <2>2, <2>3
<1>3. CASE WriteTable
  <2>1. /\ pc = "table" /\ pc' # "ended" /\ UNCHANGED <<opened, cancel>> /\ opened
        /\ table # "image" /\ table # "exfat"
        /\ \/ ~cancel /\ table' = "image"
           \/ table' \in {table, "torn"}
    BY <1>3 DEF WriteTable, Fail, setup, env, IInv, TableStage, DeviceStage, Preparing, Ending,
       Leaving
  <2>2. CardState = "raw" /\ Outcome = "none" /\ Outcome' = "none"
    BY <2>1 DEF CardState, Outcome
  <2>3. CASE ~cancel /\ table' = "image"
    BY <2>1, <2>2, <2>3 DEF CardState, Promise!Complete
  <2>4. CASE table' \in {table, "torn"}
    BY <2>1, <2>2, <2>4 DEF CardState
  <2> QED
    BY <2>1, <2>3, <2>4
<1>4. CASE CopyStep \/ Cancel
  <2>1. pc # "ended" /\ UNCHANGED <<pc, result, opened, table>>
    BY <1>4 DEF CopyStep, Cancel, setup, cardVars
  <2>2. Outcome = "none" /\ UNCHANGED <<CardState, Outcome>>
    BY <2>1 DEF CardState, Outcome
  <2>3. cancel' = cancel \/ cancel' = TRUE
    BY <1>4, WishesKept DEF Next, Worker
  <2> QED
    BY <2>2, <2>3 DEF Promise!Cancel
<1>5. CASE Next /\ ~(Recover \/ OpenDevice \/ WriteTable \/ CopyStep \/ Cancel)
  <2>1. opened' = opened /\ cancel' = cancel
    BY <1>5, Kept DEF CardStep, Scrub, VerifyBlock, OpenFat, CloseFat,
       SyncTable, CloseDevice, CloseAgain, setup
  <2>2. pc' = "ended" <=> pc = "ended"
    BY <1>5, Endless
  <2>3. pc = "ended" => result' = result
    BY <1>5, Kept
  <2>4. UNCHANGED Outcome
    BY <2>2, <2>3 DEF Outcome
  <2>5. UNCHANGED CardState
    <3>1. CASE Scrub
      BY <2>1, <3>1 DEF Scrub, CardState, IInv, DeviceStage, TableStage, Preparing, Ending,
         Leaving
    <3>2. CASE ~Scrub
      BY <1>5, <2>1, <3>2, Kept DEF CardState
    <3> QED
      BY <3>1, <3>2
  <2> QED
    BY <2>1, <2>4, <2>5
<1>6. CASE UNCHANGED vars
  BY <1>6 DEF vars, setup, cardVars, env, CardState, Outcome
<1> QED
  BY <1>1, <1>2, <1>3, <1>4, <1>5, <1>6

\* FlashJob.run does to a card what CardJob promises, for every image that
\* yields anything, any deadline and any faults.
THEOREM Refinement == NChunks # 0 /\ Spec => KeepsPromise
<1> SUFFICES ASSUME NChunks # 0 PROVE Spec => KeepsPromise
  OBVIOUS
<1>1. Init => Promise!Init
  BY DEF Init, Copy!Init, Promise!Init, CardState, Outcome
<1>2. IInv /\ [Next]_vars => [Promise!Next]_(Promise!vars)
  BY PromiseStep
<1> QED
  BY <1>1, <1>2, Invariance, PTL DEF Spec, KeepsPromise, Promise!Spec
=============================================================================
