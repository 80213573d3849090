---------------------------- MODULE DiskWriter ----------------------------
(***************************************************************************)
(* core/diskwriter.py, DiskWriter.run: one producer thread decompresses    *)
(* and hashes the image, one consumer thread writes it to the raw device,  *)
(* a bounded queue lies between them, and either the operator or a dying   *)
(* consumer may set the shared cancel event.                               *)
(*                                                                         *)
(* The image is NChunks chunks.  Offsets are counted in chunks: device     *)
(* block b is where chunk b belongs, and chunk contents are their own      *)
(* numbers.  Chunk 1 carries the partition table and is held back.         *)
(***************************************************************************)
EXTENDS Integers, Sequences

CONSTANTS NChunks,    \* how many chunks the image source yields
          QueueMax,   \* QUEUE_MAX, the capacity of the queue
          Faults      \* which operations may raise: "read", "write", "report", "flush"

FaultKinds == {"read", "write", "report", "flush"}

ASSUME NChunksAssumption  == NChunks \in Nat
ASSUME QueueMaxAssumption == QueueMax \in Nat \ {0}
ASSUME FaultsAssumption   == Faults \subseteq FaultKinds

Chunk == 1..NChunks
EOS   == 0              \* the None sentinel that ends the stream
Items == Chunk \cup {EOS}
Old   == 0              \* a device block the run has not touched
Torn  == -1             \* a device block a failed or short write left half done

VARIABLES
  ppc,       \* producer: "fetch", "hash", "put", "sentinel", "full", "done"
  yielded,   \* how many chunks the source has yielded
  hashed,    \* how many chunks went into the hash (producer_total)
  queue,     \* the queue between the threads
  cpc,       \* consumer: "check", "get", "write", "report", "fail", "done"
  held,      \* the chunk the consumer took last
  total,     \* the consumer's offset (consumer_total)
  first,     \* first_block_box: the chunk held back, 0 while it is None
  dev,       \* what each device block holds
  exc,       \* self._exc: the fault stored last, "none" before any
  cancel,    \* self.cancel
  mpc,       \* the thread that called run(): "join", "returned", "raised"
  faulted,   \* history: an operation has raised
  late       \* history: device writes made after cancel was set

producer == <<ppc, yielded, hashed>>
consumer == <<cpc, held, total, first, dev>>
vars == <<producer, queue, consumer, exc, cancel, mpc, faulted, late>>

Init ==
  /\ ppc = "fetch" /\ yielded = 0 /\ hashed = 0
  /\ queue = <<>>
  /\ cpc = "check" /\ held = 0 /\ total = 0 /\ first = 0
  /\ dev = [b \in Chunk |-> Old]
  /\ exc = "none" /\ cancel = FALSE /\ mpc = "join"
  /\ faulted = FALSE /\ late = 0

-----------------------------------------------------------------------------
(* The producer thread. *)

Raises(kind) == kind \in Faults /\ exc' = kind /\ faulted' = TRUE

\* The for loop asks the source for its next chunk.
Fetch ==
  /\ ppc = "fetch"
  /\ IF yielded < NChunks
       THEN ppc' = "hash" /\ yielded' = yielded + 1
       ELSE ppc' = "sentinel" /\ UNCHANGED yielded
  /\ UNCHANGED <<hashed, queue, consumer, exc, cancel, mpc, faulted, late>>

\* Decompressing or reading the image raises; the finally clause comes next.
FetchFails ==
  /\ ppc = "fetch"
  /\ Raises("read")
  /\ ppc' = "sentinel"
  /\ UNCHANGED <<yielded, hashed, queue, consumer, cancel, mpc, late>>

HashChunk ==
  /\ ppc = "hash"
  /\ IF cancel
       THEN ppc' = "sentinel" /\ UNCHANGED hashed
       ELSE ppc' = "put" /\ hashed' = hashed + 1
  /\ UNCHANGED <<yielded, queue, consumer, exc, cancel, mpc, faulted, late>>

\* Deviation: the capacity test is off by one.
PutChunkOverfull ==
  /\ ppc = "put"
  /\ Len(queue) <= QueueMax
  /\ queue' = Append(queue, yielded)
  /\ ppc' = "fetch"
  /\ UNCHANGED <<yielded, hashed, consumer, exc, cancel, mpc, faulted, late>>

\* The put succeeds, cancelled or not: cancel may be set after the loop test.
PutChunk ==
  /\ ppc = "put"
  /\ Len(queue) < QueueMax
  /\ queue' = Append(queue, yielded)
  /\ ppc' = "fetch"
  /\ UNCHANGED <<yielded, hashed, consumer, exc, cancel, mpc, faulted, late>>

\* Deviation: a put that times out leaves the retry loop.
AbandonOnTimeout ==
  /\ ppc = "put"
  /\ Len(queue) = QueueMax
  /\ ppc' = "fetch"
  /\ UNCHANGED <<yielded, hashed, queue, consumer, exc, cancel, mpc, faulted, late>>

\* The loop test sees cancel: the chunk is given up, and the for loop goes on.
AbandonChunk ==
  /\ ppc = "put"
  /\ cancel
  /\ ppc' = "fetch"
  /\ UNCHANGED <<yielded, hashed, queue, consumer, exc, cancel, mpc, faulted, late>>

PutSentinel ==
  /\ ppc = "sentinel"
  /\ Len(queue) < QueueMax
  /\ queue' = Append(queue, EOS)
  /\ ppc' = "done"
  /\ UNCHANGED <<yielded, hashed, consumer, exc, cancel, mpc, faulted, late>>

\* The sentinel's put times out on a full queue.
SentinelFull ==
  /\ ppc = "sentinel"
  /\ Len(queue) = QueueMax
  /\ ppc' = "full"
  /\ UNCHANGED <<yielded, hashed, queue, consumer, exc, cancel, mpc, faulted, late>>

\* Deviation: room for the sentinel is made whether cancelled or not.
MakeRoomAlways ==
  /\ ppc = "full"
  /\ ppc' = "sentinel"
  /\ queue' = IF queue # <<>> THEN Tail(queue) ELSE queue
  /\ UNCHANGED <<yielded, hashed, consumer, exc, cancel, mpc, faulted, late>>

\* A cancelled run drops the oldest chunk; the queue may have drained meanwhile.
MakeRoom ==
  /\ ppc = "full"
  /\ ppc' = "sentinel"
  /\ queue' = IF cancel /\ queue # <<>> THEN Tail(queue) ELSE queue
  /\ UNCHANGED <<yielded, hashed, consumer, exc, cancel, mpc, faulted, late>>

Producer ==
  \/ Fetch \/ FetchFails \/ HashChunk \/ PutChunk \/ AbandonChunk
  \/ PutSentinel \/ SentinelFull \/ MakeRoom

-----------------------------------------------------------------------------
(* The consumer thread. *)

\* Deviation: the consumer relies on the sentinel alone to stop.
CheckNothing ==
  /\ cpc = "check"
  /\ cpc' = "get"
  /\ UNCHANGED <<producer, queue, held, total, first, dev, exc, cancel, mpc, faulted, late>>

CheckCancel ==
  /\ cpc = "check"
  /\ cpc' = IF cancel THEN "done" ELSE "get"
  /\ UNCHANGED <<producer, queue, held, total, first, dev, exc, cancel, mpc, faulted, late>>

GetSentinel ==
  /\ cpc = "get"
  /\ queue # <<>> /\ Head(queue) = EOS
  /\ queue' = Tail(queue)
  /\ cpc' = "done"
  /\ UNCHANGED <<producer, held, total, first, dev, exc, cancel, mpc, faulted, late>>

\* The first chunk is kept in memory; only the offset moves past it.
GetFirst ==
  /\ cpc = "get" /\ first = 0
  /\ queue # <<>> /\ Head(queue) # EOS
  /\ queue' = Tail(queue)
  /\ held' = Head(queue)
  /\ first' = Head(queue)
  /\ total' = total + 1
  /\ cpc' = "report"
  /\ UNCHANGED <<producer, dev, exc, cancel, mpc, faulted, late>>

GetChunk ==
  /\ cpc = "get" /\ first # 0
  /\ queue # <<>> /\ Head(queue) # EOS
  /\ queue' = Tail(queue)
  /\ held' = Head(queue)
  /\ cpc' = "write"
  /\ UNCHANGED <<producer, total, first, dev, exc, cancel, mpc, faulted, late>>

CountLate == late' = IF cancel THEN late + 1 ELSE late

WriteChunk ==
  /\ cpc = "write"
  /\ CountLate
  /\ dev' = [dev EXCEPT ![total + 1] = held]
  /\ total' = total + 1
  /\ cpc' = "report"
  /\ UNCHANGED <<producer, queue, held, first, exc, cancel, mpc, faulted>>

\* Deviation: the count dev.write returns is not compared.
ShortWriteUnnoticed ==
  /\ cpc = "write" /\ "write" \in Faults
  /\ CountLate
  /\ dev' = [dev EXCEPT ![total + 1] = Torn]
  /\ total' = total + 1
  /\ faulted' = TRUE
  /\ cpc' = "report"
  /\ UNCHANGED <<producer, queue, held, first, exc, cancel, mpc>>

\* dev.write raises or is short: the block may be half written.
WriteFails ==
  /\ cpc = "write"
  /\ Raises("write")
  /\ CountLate
  /\ \/ UNCHANGED dev
     \/ dev' = [dev EXCEPT ![total + 1] = Torn]
  /\ cpc' = "fail"
  /\ UNCHANGED <<producer, queue, held, total, first, cancel, mpc>>

Report ==
  /\ cpc = "report"
  /\ cpc' = "check"
  /\ UNCHANGED <<producer, queue, held, total, first, dev, exc, cancel, mpc, faulted, late>>

\* The caller's on_progress raises inside the consumer.
ReportFails ==
  /\ cpc = "report"
  /\ Raises("report")
  /\ cpc' = "fail"
  /\ UNCHANGED <<producer, queue, held, total, first, dev, cancel, mpc, late>>

\* Deviation: the dying consumer does not set the cancel event.
ConsumerDiesQuietly ==
  /\ cpc = "fail"
  /\ cpc' = "done"
  /\ UNCHANGED <<producer, queue, held, total, first, dev, exc, cancel, mpc, faulted, late>>

\* The handler has stored the exception and now sets the shared cancel event.
ConsumerDies ==
  /\ cpc = "fail"
  /\ cancel' = TRUE
  /\ cpc' = "done"
  /\ UNCHANGED <<producer, queue, held, total, first, dev, exc, mpc, faulted, late>>

Consumer ==
  \/ CheckCancel \/ GetSentinel \/ GetFirst \/ GetChunk
  \/ WriteChunk \/ WriteFails \/ Report \/ ReportFails \/ ConsumerDies

-----------------------------------------------------------------------------
(* The caller of run(), and the operator. *)

Joined == mpc = "join" /\ ppc = "done" /\ cpc = "done"

\* Deviation: the stored exception is not re-raised after a complete copy.
FinishComplete ==
  /\ Joined
  /\ mpc' = IF exc = "none" \/ total = NChunks THEN "returned" ELSE "raised"
  /\ UNCHANGED <<producer, queue, consumer, exc, cancel, faulted, late>>

\* Both joins, the final flush, and the stored exception re-raised.
Finish ==
  /\ Joined
  /\ mpc' = IF exc = "none" THEN "returned" ELSE "raised"
  /\ UNCHANGED <<producer, queue, consumer, exc, cancel, faulted, late>>

\* The flush itself raises, whatever was stored.
FinishFails ==
  /\ Joined
  /\ "flush" \in Faults /\ faulted' = TRUE
  /\ mpc' = "raised"
  /\ UNCHANGED <<producer, queue, consumer, exc, cancel, late>>

Caller == Finish \/ FinishFails

Cancel ==
  /\ mpc = "join" /\ ~cancel
  /\ cancel' = TRUE
  /\ UNCHANGED <<producer, queue, consumer, exc, mpc, faulted, late>>

Ended == mpc \in {"returned", "raised"} /\ UNCHANGED vars

Next == Producer \/ Consumer \/ Caller \/ Cancel \/ Ended

Spec == Init /\ [][Next]_vars

\* The operating system schedules each thread; nobody has to cancel.
FairSpec ==
  Spec /\ WF_vars(Producer) /\ WF_vars(Consumer) /\ WF_vars(Caller)

-----------------------------------------------------------------------------
TypeOK ==
  /\ ppc \in {"fetch", "hash", "put", "sentinel", "full", "done"}
  /\ yielded \in 0..NChunks
  /\ hashed \in 0..NChunks
  /\ queue \in Seq(Items) /\ Len(queue) <= QueueMax
  /\ cpc \in {"check", "get", "write", "report", "fail", "done"}
  /\ held \in 0..NChunks
  /\ total \in 0..NChunks
  /\ first \in 0..NChunks
  /\ dev \in [Chunk -> Chunk \cup {Old, Torn}]
  /\ exc \in {"none", "read", "write", "report"}
  /\ cancel \in BOOLEAN
  /\ mpc \in {"join", "returned", "raised"}
  /\ faulted \in BOOLEAN
  /\ late \in Nat

\* A run that returns without having been cancelled hashed the whole image,
\* and the held-back chunk with the device's blocks are exactly what it hashed.
FaithfulCopy ==
  mpc = "returned" /\ ~cancel =>
    /\ hashed = NChunks /\ total = NChunks
    /\ NChunks > 0 => first = 1
    /\ \A b \in Chunk \ {1} : dev[b] = b

\* Until a run is cancelled, no chunk lands anywhere but in its own block, and
\* nothing lands beyond the block being written.
InPlace ==
  ~cancel => \A b \in Chunk : /\ dev[b] \in Chunk => dev[b] = b
                              /\ b > total + 1 => dev[b] = Old

\* The block of the partition table is never written by the stream, cancelled
\* or not: the card stays unmountable until the caller writes it.
TableHeldBack == NChunks > 0 => dev[1] = Old

\* No exception of either thread, of the progress callback or of the flush is
\* lost: a run in which something raised does not return a result.
NoSilentFailure == mpc = "returned" => ~faulted

\* Once cancel is set at most one more device write is made: the one the
\* consumer had already fetched, or was waiting for, when cancel was set.
CancelStopsWrites == late <= 1

\* run() always comes back, whoever dies, whenever the operator cancels, and
\* however full the queue is.
Termination == <>(mpc \in {"returned", "raised"})

\* run() keeps the promise its caller relies on: it is an ImageCopy whose
\* threads, queue and hash are hidden.
Promise == INSTANCE ImageCopy WITH result <- mpc, doomed <- faulted
KeepsPromise == Promise!Spec
=============================================================================
