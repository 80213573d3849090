----------------------------- MODULE BootBundle -----------------------------
(***************************************************************************)
(* The files of the first boot and their way to the card: the customize    *)
(* phase of core/orchestrator.py, FirstbootBundle of core/customization.py *)
(* and the userspace FAT under it, core/raw_fat_partition.py over          *)
(* core/raw_sector_io.py.                                                  *)
(*                                                                         *)
(* Files are written into cached sectors.  The sectors go to the card in   *)
(* the order of their numbers, when the file system is closed or when the  *)
(* FAT library flushes of its own accord.                                  *)
(***************************************************************************)
EXTENDS Naturals

CONSTANTS Faults,  \* what the device does: "read" and "write" raise, "short"
                   \* writes less than it was given and says so
          Home     \* per sector, its number

ASSUME FaultsAssumption == Faults \subseteq {"read", "write", "short"}

\* In the order in which they are written; "dir" is the folder of the secrets.
Place == [meta |-> 1, user |-> 2, cmdline |-> 3, dir |-> 4, config |-> 5, keys |-> 6,
          id |-> 7, idpub |-> 8, init |-> 9, wlan |-> 10, net |-> 11, trigger |-> 12]
Files   == DOMAIN Place
Secrets == {"config", "keys", "id", "idpub"}

\* The FAT, the root folder, and for everything but the empty trigger a sector
\* of its contents, called by its name.
Sectors == {"fat", "root"} \cup (Files \ {"trigger"})

\* The FAT lies before the folders, the root folder is the first of the data,
\* the library puts everything else where it finds room.
ASSUME HomeAssumption ==
  /\ Home \in [Sectors -> Nat]
  /\ \A s \in Sectors \ {"fat"} : Home["fat"] < Home[s]
  /\ \A s \in Sectors \ {"fat", "root"} : Home["root"] < Home[s]

VARIABLES
  role, wifi,  \* of the card; Wi-Fi of the home is to be joined
  stale,       \* files the image brings along
  cancel,      \* the cancel event
  pc,          \* "write", "flush" (the library's own), "close", "closed",
               \* "table", "recover", "ended"
  done,        \* files written
  valid,       \* _self_validate has passed
  raised,      \* an exception is on its way
  cache,       \* per sector, the files whose part in it is written
  dirty,       \* RawSectorFile._dirty
  pend,        \* of these, what the flush in progress has yet to write
  card,        \* per sector, what of it is on the card
  lost,        \* history: sectors whose last write did not reach the card
  table        \* "blank", "image", "exfat"

job  == <<role, wifi, stale>>
disk == <<card, lost>>
vars == <<job, cancel, pc, done, valid, raised, cache, dirty, pend, disk, table>>

Init ==
  /\ role \in {"master", "slave"} /\ wifi \in BOOLEAN
  /\ stale \in SUBSET {"cmdline", "wlan", "net"}
  /\ cancel = FALSE /\ pc = "write" /\ done = {} /\ valid = FALSE /\ raised = FALSE
  /\ cache = [s \in Sectors |-> {}] /\ dirty = {} /\ pend = {}
  /\ card = cache /\ lost = {} /\ table = "blank"

-----------------------------------------------------------------------------
(* Files and sectors.                                                      *)

Wanted ==
  {"meta", "user", "cmdline", "dir", "config", "keys", "init", "trigger"}
    \cup (IF role = "master" THEN {"id", "idpub"} ELSE {"net"})
    \cup (IF role = "master" /\ wifi THEN {"wlan"} ELSE {})

\* The sectors a file takes part in; the trigger is empty and is all entry.
Parts(f) ==
  CASE f = "trigger"  -> {"root"}
    [] f \in Secrets  -> {"fat", "dir", f}
    [] OTHER          -> {"fat", "root", f}

\* A file can be read, new, with the folders that lead to it.
Whole(f, disk0) ==
  /\ \A s \in Parts(f) : f \in disk0[s]
  /\ f \in Secrets => \A s \in Parts("dir") : "dir" \in disk0[s]

\* Deviation: the key pair goes on every card.
TurnOfPair(f) ==
  /\ f \in (Wanted \cup {"id", "idpub"}) \ done
  /\ \A g \in (Wanted \cup {"id", "idpub"}) \ done : Place[f] <= Place[g]

\* What is written next.
Turn(f) ==
  /\ f \in Wanted \ done
  /\ \A g \in Wanted \ done : Place[f] <= Place[g]

\* RawSectorFile.write: what is written is merged into the cached sector.
Modify(f, parts) ==
  [s \in Sectors |-> IF s \in parts THEN cache[s] \cup {f} ELSE cache[s]]

-----------------------------------------------------------------------------
(* _write_cloud_init and FirstbootBundle.write_to.                         *)

\* The cancel event is looked at before the seed and before the bundle.
Looks(f) == f \in {"meta", "dir"}

\* Reads its old contents first.
Missing(f) == f = "cmdline" /\ f \notin stale

\* Whatever the library makes of a flush of its own, it comes after a file.
WriteFile(f) ==
  /\ pc = "write" /\ Turn(f) /\ (f = "trigger" => valid)
  /\ ~Missing(f) /\ ~(Looks(f) /\ cancel)
  /\ cache' = Modify(f, Parts(f)) /\ dirty' = dirty \cup Parts(f)
  /\ done' = done \cup {f}
  /\ \/ pc' = (IF f = "trigger" THEN "close" ELSE "write") /\ UNCHANGED pend
     \/ pc' = "flush" /\ pend' = dirty'
  /\ UNCHANGED <<job, cancel, valid, raised, disk, table>>

\* A sector that is not cached yet cannot be read: what came before it is.
WriteFails(f) ==
  /\ pc = "write" /\ Turn(f) /\ (f = "trigger" => valid) /\ ~(Looks(f) /\ cancel)
  /\ \/ Missing(f) /\ UNCHANGED <<cache, dirty>>
     \/ /\ "read" \in Faults
        /\ \E parts \in SUBSET Parts(f) \ {Parts(f)} :
             cache' = Modify(f, parts) /\ dirty' = dirty \cup parts
  /\ raised' = TRUE /\ pc' = "close"
  /\ UNCHANGED <<job, cancel, done, valid, pend, disk, table>>

\* Cancelled: the seed or the bundle is left out.
Skip ==
  /\ pc = "write" /\ cancel /\ \E f \in Files : Turn(f) /\ Looks(f)
  /\ pc' = "close"
  /\ UNCHANGED <<job, cancel, done, valid, raised, cache, dirty, pend, disk, table>>

Bundle == Secrets \cup {"init", "wlan", "net"}

\* Deviation: what the image brings along is not looked at.
AcceptsOwn == \A f \in Wanted \cap Bundle : Whole(f, cache)

\* _self_validate, which reads through the cache: the bundle has what this card
\* needs, and no Wi-Fi settings it must not have.
Accepts ==
  /\ \A f \in Wanted \cap Bundle : Whole(f, cache)
  /\ "wlan" \in stale => "wlan" \in Wanted

SelfValidate ==
  /\ pc = "write" /\ Turn("trigger") /\ ~valid
  /\ IF Accepts THEN valid' = TRUE /\ UNCHANGED <<raised, pc>>
                ELSE raised' = TRUE /\ pc' = "close" /\ UNCHANGED valid
  /\ UNCHANGED <<job, cancel, done, cache, dirty, pend, disk, table>>

-----------------------------------------------------------------------------
(* RawSectorFile.flush, one sector after the other.                        *)

First(s) == s \in pend /\ \A r \in pend : Home[s] <= Home[r]

\* Deviation: the sector file is marked closed first, and flushes no more.
BeginCloseMarked ==
  /\ pc = "close" /\ pend' = {} /\ pc' = "closed"
  /\ UNCHANGED <<job, cancel, done, valid, raised, cache, dirty, disk, table>>

\* close() of the boot partition ends in a flush.
BeginClose ==
  /\ pc = "close" /\ pend' = dirty /\ pc' = "closed"
  /\ UNCHANGED <<job, cancel, done, valid, raised, cache, dirty, disk, table>>

Flushing == pc \in {"flush", "closed"}

FlushSector(s) ==
  /\ Flushing /\ First(s)
  /\ card' = [card EXCEPT ![s] = cache[s]] /\ lost' = lost \ {s}
  /\ pend' = pend \ {s}
  /\ UNCHANGED <<job, cancel, pc, done, valid, raised, cache, dirty, table>>

\* The count that write() returns is not looked at.
ShortWrite(s) ==
  /\ "short" \in Faults /\ lost = {} /\ Flushing /\ First(s)
  /\ card' \in {card, [card EXCEPT ![s] = {}]} /\ lost' = {s}
  /\ pend' = pend \ {s}
  /\ UNCHANGED <<job, cancel, pc, done, valid, raised, cache, dirty, table>>

\* An exception while files are written goes up; close() suppresses it.
FlushFails(s) ==
  /\ "write" \in Faults /\ lost = {} /\ Flushing /\ First(s)
  /\ card' \in {card, [card EXCEPT ![s] = cache[s]], [card EXCEPT ![s] = {}]}
  /\ lost' = pend /\ pend' = {}
  /\ IF pc = "flush"
       THEN raised' = TRUE /\ pc' = "close" /\ UNCHANGED dirty
       ELSE dirty' = {} /\ UNCHANGED <<raised, pc>>
  /\ UNCHANGED <<job, cancel, done, valid, cache, table>>

EndFlush ==
  /\ Flushing /\ pend = {}
  /\ dirty' = {}
  /\ pc' = IF pc = "closed" THEN (IF raised THEN "recover" ELSE "table")
           ELSE IF "trigger" \in done THEN "close" ELSE "write"
  /\ UNCHANGED <<job, cancel, done, valid, raised, cache, pend, disk, table>>

-----------------------------------------------------------------------------
\* The deferred table, unless cancelled.
WriteTable ==
  /\ pc = "table"
  /\ IF cancel THEN pc' = "recover" /\ UNCHANGED table
               ELSE table' = "image" /\ pc' = "ended"
  /\ UNCHANGED <<job, cancel, done, valid, raised, cache, dirty, pend, disk>>

Recover ==
  /\ pc = "recover" /\ table' = "exfat" /\ pc' = "ended"
  /\ UNCHANGED <<job, cancel, done, valid, raised, cache, dirty, pend, disk>>

Cancel ==
  /\ pc # "ended" /\ ~cancel /\ cancel' = TRUE
  /\ UNCHANGED <<job, pc, done, valid, raised, cache, dirty, pend, disk, table>>

Ended == pc = "ended" /\ UNCHANGED vars

Next ==
  \/ \E f \in Files : WriteFile(f) \/ WriteFails(f)
  \/ Skip \/ SelfValidate \/ BeginClose
  \/ \E s \in Sectors : FlushSector(s) \/ ShortWrite(s) \/ FlushFails(s)
  \/ EndFlush \/ WriteTable \/ Recover \/ Cancel \/ Ended

Spec == Init /\ [][Next]_vars

-----------------------------------------------------------------------------
JobTypes ==
  /\ role \in {"master", "slave"} /\ wifi \in BOOLEAN
  /\ stale \subseteq {"cmdline", "wlan", "net"} /\ cancel \in BOOLEAN
  /\ pc \in {"write", "flush", "close", "closed", "table", "recover", "ended"}
  /\ done \subseteq Wanted /\ valid \in BOOLEAN /\ raised \in BOOLEAN
  /\ table \in {"blank", "image", "exfat"}

SectorTypes ==
  /\ cache \in [Sectors -> SUBSET Files] /\ card \in [Sectors -> SUBSET Files]
  /\ dirty \subseteq Sectors /\ pend \subseteq dirty /\ lost \subseteq Sectors

\* Every variable has its type.
TypeOK == JobTypes /\ SectorTypes

\* A card that boots has every file it needs, and can find it, however often
\* and whenever the sectors were flushed, unless the device did not take one.
BootsComplete ==
  table = "image" /\ lost = {} => \A f \in Wanted : Whole(f, card)

\* The image's own Wi-Fi script and network-config would join the networks of
\* whoever built it.  On a card that boots, the Wi-Fi script is replaced, and so is
\* a slave's network-config, unless the device lost a sector of that very file.  A
\* master's network-config is left as the image brought it, to be superseded by a
\* script of the first boot.
NoForeignNetwork ==
  table = "image" =>
    \A f \in stale \cap {"wlan", "net"} :
      \/ Whole(f, card)
      \/ Parts(f) \cap lost # {}
      \/ f = "net" /\ role = "master"

-----------------------------------------------------------------------------
(* What the comments say and the code does not do.                         *)

\* FirstbootBundle: "Trigger marker LAST so any failure leaves the SD in a known
\* BOOTABLE_NO_FIRSTBOOT state".
TriggerLast ==
  table = "image" /\ Whole("trigger", card) => \A f \in Wanted : Whole(f, card)
=============================================================================
