----------------------------- MODULE ImageCopy -----------------------------
(***************************************************************************)
(* What DiskWriter.run promises its caller, threads and queue hidden: the  *)
(* first chunk is held back, the others go to the device one at a time and *)
(* in order, a cancel stops the copy within one write, and the call comes  *)
(* back with a result only if nothing raised and, unless cancelled, the    *)
(* whole image was copied.                                                 *)
(***************************************************************************)
EXTENDS Integers

CONSTANT NChunks

Chunk == 1..NChunks
Old   == 0
Torn  == -1

VARIABLES
  total,    \* chunks copied, the held-back one included
  first,    \* the chunk held back, 0 for none
  dev,      \* what each device block holds
  cancel,   \* the shared cancel event
  doomed,   \* something has raised
  late,     \* device writes made after cancel was set
  result    \* "join" while the call runs, then "returned" or "raised"

vars == <<total, first, dev, cancel, doomed, late, result>>

Init ==
  /\ total = 0 /\ first = 0
  /\ dev = [b \in Chunk |-> Old]
  /\ cancel = FALSE /\ doomed = FALSE /\ late = 0
  /\ result = "join"

\* After a cancel the queue may have lost chunks: any chunk may come next.
MayCopy(c) == result = "join" /\ (cancel \/ c = total + 1)

HoldBack(c) ==
  /\ first = 0 /\ MayCopy(c)
  /\ first' = c
  /\ total' = total + 1
  /\ UNCHANGED <<dev, cancel, doomed, late, result>>

OneLateWrite ==
  IF cancel THEN late = 0 /\ late' = 1 ELSE UNCHANGED late

CopyChunk(c) ==
  /\ first # 0 /\ total < NChunks /\ MayCopy(c)
  /\ OneLateWrite
  /\ dev' = [dev EXCEPT ![total + 1] = c]
  /\ total' = total + 1
  /\ UNCHANGED <<first, cancel, doomed, result>>

\* A write raises and may leave its block half written.
TearChunk ==
  /\ first # 0 /\ total < NChunks /\ result = "join"
  /\ OneLateWrite
  /\ dev' \in {dev, [dev EXCEPT ![total + 1] = Torn]}
  /\ doomed' = TRUE
  /\ UNCHANGED <<total, first, cancel, result>>

Doom ==
  /\ result = "join" /\ doomed' = TRUE
  /\ UNCHANGED <<total, first, dev, cancel, late, result>>

Cancel ==
  /\ result = "join" /\ cancel' = TRUE
  /\ UNCHANGED <<total, first, dev, doomed, late, result>>

Return ==
  /\ result = "join" /\ ~doomed
  /\ cancel \/ total = NChunks
  /\ result' = "returned"
  /\ UNCHANGED <<total, first, dev, cancel, doomed, late>>

Raise ==
  /\ result = "join"
  /\ doomed' = TRUE /\ result' = "raised"
  /\ UNCHANGED <<total, first, dev, cancel, late>>

Next ==
  \/ \E c \in Chunk : HoldBack(c) \/ CopyChunk(c)
  \/ TearChunk \/ Doom \/ Cancel \/ Return \/ Raise

Spec == Init /\ [][Next]_vars
=============================================================================
