------------------------- MODULE DiskWriterProofs -------------------------
(***************************************************************************)
(* Safety of DiskWriter for every image length, queue capacity and set of  *)
(* faults: one inductive invariant, and what follows from it.              *)
(***************************************************************************)
EXTENDS DiskWriter, TLAPS

\* The run has not been cancelled and the consumer is not about to do so.
Live == ~cancel /\ cpc # "fail"

HasSentinel(q) == Len(q) > 0 /\ q[Len(q)] = EOS

ChunksIn(q) == IF HasSentinel(q) THEN Len(q) - 1 ELSE Len(q)

\* Chunks the consumer has taken out of the queue.
Taken == IF cpc = "write" THEN total + 1 ELSE total

InProducer == IF ppc \in {"hash", "put"} THEN 1 ELSE 0

\* The sentinel is the last thing the producer does.
SentinelLast ==
  \A i \in 1..Len(queue) : queue[i] = EOS => i = Len(queue) /\ ppc = "done"

\* No step, not even a cancelled one, makes chunks out of nothing.
NoneInvented ==
  /\ Taken + ChunksIn(queue) + InProducer <= yielded
  /\ hashed <= yielded
  /\ ppc = "hash" => hashed < yielded

\* While the run is live, what is hashed is what was taken, what is queued
\* and what the producer holds, in order.
Conserved ==
  Live =>
    /\ \A i \in 1..Len(queue) : queue[i] # EOS => queue[i] = Taken + i
    /\ Taken + ChunksIn(queue) = IF ppc = "put" THEN hashed - 1 ELSE hashed
    /\ yielded = IF ppc = "hash" THEN hashed + 1 ELSE hashed
    /\ cpc = "write" => held = total + 1
    /\ first # 0 => first = 1

HeldBackFirst ==
  /\ first = 0 <=> total = 0
  /\ cpc = "write" => first # 0 /\ held # 0
  /\ NChunks > 0 => dev[1] = Old

\* Blocks up to the consumer's offset are right; while it is live the rest
\* of the device is untouched.
DeviceInOrder ==
  ~cancel => \A b \in Chunk : /\ 1 < b /\ b <= total => dev[b] = b
                              /\ b = total + 1 => dev[b] \in {Old, Torn}
                              /\ b > total + 1 => dev[b] = Old

EndOfStream ==
  Live => /\ ppc = "done" /\ cpc # "done" => HasSentinel(queue)
          /\ cpc = "done" => ppc = "done" /\ Len(queue) = 0
          /\ exc = "none" /\ ppc \in {"sentinel", "full", "done"} => hashed = NChunks

FaultsKept ==
  /\ exc # "none" => faulted
  /\ faulted /\ mpc # "raised" => exc # "none"
  /\ mpc = "returned" => exc = "none"
  /\ mpc # "join" => ppc = "done" /\ cpc = "done"

LateOnce ==
  /\ late <= 1
  /\ late = 1 => cancel /\ cpc \in {"report", "check", "fail", "done"}

IInv ==
  /\ TypeOK /\ SentinelLast /\ NoneInvented /\ Conserved /\ HeldBackFirst
  /\ DeviceInOrder /\ EndOfStream /\ FaultsKept /\ LateOnce

-----------------------------------------------------------------------------
(* Facts about the queue.                                                  *)

LEMMA AppendFacts ==
  ASSUME NEW q \in Seq(Items), NEW e \in Items
  PROVE  /\ Append(q, e) \in Seq(Items)
         /\ Len(Append(q, e)) = Len(q) + 1
         /\ \A i \in 1..Len(q) : Append(q, e)[i] = q[i]
         /\ Append(q, e)[Len(q) + 1] = e
  OBVIOUS

LEMMA TailFacts ==
  ASSUME NEW q \in Seq(Items), q # <<>>
  PROVE  /\ Tail(q) \in Seq(Items)
         /\ Len(q) \in Nat /\ Len(q) >= 1
         /\ Len(Tail(q)) = Len(q) - 1
         /\ \A i \in 1..(Len(q) - 1) : Tail(q)[i] = q[i + 1]
         /\ Head(q) = q[1] /\ Head(q) \in Items
  OBVIOUS

LEMMA ChunksInNat ==
  ASSUME NEW q \in Seq(Items)
  PROVE  ChunksIn(q) \in Nat /\ ChunksIn(q) <= Len(q)
  BY DEF ChunksIn, HasSentinel

LEMMA AppendChunk ==
  ASSUME NEW q \in Seq(Items), NEW c \in Chunk
  PROVE  ~HasSentinel(Append(q, c)) /\ ChunksIn(Append(q, c)) = Len(q) + 1
  BY AppendFacts, NChunksAssumption DEF ChunksIn, HasSentinel, Items, Chunk, EOS

LEMMA AppendSentinel ==
  ASSUME NEW q \in Seq(Items)
  PROVE  HasSentinel(Append(q, EOS)) /\ ChunksIn(Append(q, EOS)) = Len(q)
  BY AppendFacts, NChunksAssumption DEF ChunksIn, HasSentinel, Items, Chunk, EOS

LEMMA TailChunk ==
  ASSUME NEW q \in Seq(Items), q # <<>>, Head(q) # EOS
  PROVE  /\ ChunksIn(Tail(q)) = ChunksIn(q) - 1
         /\ HasSentinel(Tail(q)) <=> HasSentinel(q)
<1>1. /\ Len(q) \in Nat /\ Len(q) >= 1 /\ Len(Tail(q)) = Len(q) - 1
      /\ q[1] # EOS
      /\ Len(q) > 1 => Tail(q)[Len(q) - 1] = q[Len(q)]
  BY TailFacts
<1>2. HasSentinel(Tail(q)) <=> HasSentinel(q)
  BY <1>1 DEF HasSentinel
<1> QED
  BY <1>1, <1>2 DEF ChunksIn

-----------------------------------------------------------------------------
(* The invariant is inductive.                                             *)

LEMMA InitInvariant == Init => IInv
<1> SUFFICES ASSUME Init PROVE IInv
  OBVIOUS
<1> USE NChunksAssumption, QueueMaxAssumption DEF Init, Chunk, EOS, Old, Torn
<1>1. /\ Len(queue) = 0 /\ queue \in Seq(Items)
      /\ dev \in [Chunk -> Chunk \cup {Old, Torn}]
  OBVIOUS
<1>2. TypeOK
  <2>1. /\ exc \in {"none", "read", "write", "report"} /\ cancel \in BOOLEAN
        /\ faulted \in BOOLEAN /\ late \in Nat
    OBVIOUS
  <2>2. 0 \in 0..NChunks /\ Len(queue) <= QueueMax
    BY <1>1
  <2> QED
    BY <1>1, <2>1, <2>2 DEF TypeOK
<1>3. ChunksIn(queue) = 0
  BY <1>1 DEF ChunksIn, HasSentinel
<1>4. SentinelLast /\ NoneInvented /\ Conserved
  BY <1>1, <1>3 DEF SentinelLast, NoneInvented, Conserved, Live, Taken, InProducer
<1>5. HeldBackFirst /\ DeviceInOrder
  BY DEF HeldBackFirst, DeviceInOrder
<1>6. EndOfStream /\ FaultsKept /\ LateOnce
  BY DEF EndOfStream, FaultsKept, LateOnce
<1> QED
  BY <1>2, <1>4, <1>5, <1>6 DEF IInv

LEMMA StepInvariant == IInv /\ [Next]_vars => IInv'
<1> SUFFICES ASSUME IInv, [Next]_vars PROVE IInv'
  OBVIOUS
<1> USE NChunksAssumption, QueueMaxAssumption, FaultsAssumption
    DEF IInv, TypeOK, Items, Chunk, EOS, Old, Torn, FaultKinds
<1>0. /\ ChunksIn(queue)' = ChunksIn(queue')
      /\ HasSentinel(queue)' <=> HasSentinel(queue')
  BY DEF ChunksIn, HasSentinel
<1>1. CASE Fetch
  <2>1. TypeOK'
    BY <1>1 DEF Fetch, consumer
  <2>2. SentinelLast'
    BY <1>1 DEF Fetch, consumer, SentinelLast
  <2>3. NoneInvented'
    BY <1>1, ChunksInNat DEF Fetch, consumer, NoneInvented, Taken, InProducer
  <2>4. Conserved'
    BY <1>1, ChunksInNat DEF Fetch, consumer, Conserved, Live, Taken
  <2>5. EndOfStream'
    BY <1>1 DEF Fetch, consumer, EndOfStream, Live, Conserved
  <2>6. FaultsKept'
    BY <1>1 DEF Fetch, consumer, FaultsKept
  <2>7. HeldBackFirst' /\ DeviceInOrder' /\ LateOnce'
    BY <1>1 DEF Fetch, consumer, HeldBackFirst, DeviceInOrder, LateOnce
  <2> QED
    BY <2>1, <2>2, <2>3, <2>4, <2>5, <2>6, <2>7
<1>2. CASE FetchFails
  <2>1. TypeOK'
    BY <1>2 DEF FetchFails, consumer, Raises
  <2>2. SentinelLast'
    BY <1>2 DEF FetchFails, consumer, SentinelLast
  <2>3. NoneInvented'
    BY <1>2, ChunksInNat DEF FetchFails, consumer, NoneInvented, Taken,
        InProducer
  <2>4. Conserved'
    BY <1>2, ChunksInNat DEF FetchFails, consumer, Conserved, Live, Taken
  <2>5. EndOfStream'
    BY <1>2 DEF FetchFails, consumer, EndOfStream, Live, Raises
  <2>6. FaultsKept'
    BY <1>2 DEF FetchFails, consumer, FaultsKept, Raises
  <2>7. HeldBackFirst' /\ DeviceInOrder' /\ LateOnce'
    BY <1>2 DEF FetchFails, consumer, HeldBackFirst, DeviceInOrder, LateOnce
  <2> QED
    BY <2>1, <2>2, <2>3, <2>4, <2>5, <2>6, <2>7
<1>3. CASE HashChunk
  <2>1. TypeOK'
    BY <1>3 DEF HashChunk, consumer, NoneInvented
  <2>2. SentinelLast'
    BY <1>3 DEF HashChunk, consumer, SentinelLast
  <2>3. NoneInvented'
    BY <1>3, ChunksInNat DEF HashChunk, consumer, NoneInvented, Taken,
        InProducer
  <2>4. Conserved'
    BY <1>3, ChunksInNat DEF HashChunk, consumer, Conserved, Live, Taken
  <2>5. EndOfStream'
    BY <1>3 DEF HashChunk, consumer, EndOfStream, Live
  <2>6. FaultsKept'
    BY <1>3 DEF HashChunk, consumer, FaultsKept
  <2>7. HeldBackFirst' /\ DeviceInOrder' /\ LateOnce'
    BY <1>3 DEF HashChunk, consumer, HeldBackFirst, DeviceInOrder, LateOnce
  <2> QED
    BY <2>1, <2>2, <2>3, <2>4, <2>5, <2>6, <2>7
<1>4. CASE PutChunk
  <2>1. /\ \A i \in 1..Len(queue) : queue[i] # EOS
        /\ ~HasSentinel(queue) /\ ChunksIn(queue) = Len(queue)
    BY <1>4 DEF PutChunk, SentinelLast, HasSentinel, ChunksIn
  <2>2. yielded \in Chunk
    BY <1>4, <2>1, ChunksInNat DEF PutChunk, NoneInvented, Taken, InProducer
  <2>3. /\ queue' = Append(queue, yielded)
        /\ ~HasSentinel(queue') /\ ChunksIn(queue') = Len(queue) + 1
    BY <1>4, <2>1, <2>2, AppendChunk DEF PutChunk
  <2>4. TypeOK'
    BY <1>4, <2>1, <2>2, <2>3, AppendFacts DEF PutChunk, consumer
  <2>5. SentinelLast'
    BY <1>4, <2>1, <2>2, <2>3, AppendFacts DEF PutChunk, consumer,
        SentinelLast
  <2>6. NoneInvented'
    BY <1>4, <2>1, <2>2, <2>3, <1>0 DEF PutChunk, consumer, NoneInvented,
        Taken, InProducer
  <2>7. Conserved'
    BY <1>4, <2>1, <2>2, <2>3, <1>0, AppendFacts DEF PutChunk, consumer,
        Conserved, Live, Taken
  <2>8. EndOfStream'
    BY <1>4, <2>1, <2>2, <2>3, <1>0 DEF PutChunk, consumer, EndOfStream, Live,
        Conserved
  <2>9. FaultsKept'
    BY <1>4, <2>1, <2>2, <2>3 DEF PutChunk, consumer, FaultsKept
  <2>10. HeldBackFirst' /\ DeviceInOrder' /\ LateOnce'
    BY <1>4 DEF PutChunk, consumer, HeldBackFirst, DeviceInOrder, LateOnce
  <2> QED
    BY <2>4, <2>5, <2>6, <2>7, <2>8, <2>9, <2>10
<1>5. CASE AbandonChunk
  <2>1. TypeOK'
    BY <1>5 DEF AbandonChunk, consumer
  <2>2. SentinelLast'
    BY <1>5 DEF AbandonChunk, consumer, SentinelLast
  <2>3. NoneInvented'
    BY <1>5, ChunksInNat DEF AbandonChunk, consumer, NoneInvented, Taken,
        InProducer
  <2>4. Conserved'
    BY <1>5, ChunksInNat DEF AbandonChunk, consumer, Conserved, Live, Taken
  <2>5. EndOfStream'
    BY <1>5 DEF AbandonChunk, consumer, EndOfStream, Live
  <2>6. FaultsKept'
    BY <1>5 DEF AbandonChunk, consumer, FaultsKept
  <2>7. HeldBackFirst' /\ DeviceInOrder' /\ LateOnce'
    BY <1>5 DEF AbandonChunk, consumer, HeldBackFirst, DeviceInOrder, LateOnce
  <2> QED
    BY <2>1, <2>2, <2>3, <2>4, <2>5, <2>6, <2>7
<1>6. CASE PutSentinel
  <2>1. /\ \A i \in 1..Len(queue) : queue[i] # EOS
        /\ ~HasSentinel(queue) /\ ChunksIn(queue) = Len(queue)
    BY <1>6 DEF PutSentinel, SentinelLast, HasSentinel, ChunksIn
  <2>2. /\ queue' = Append(queue, EOS)
        /\ HasSentinel(queue') /\ ChunksIn(queue') = Len(queue)
    BY <1>6, AppendSentinel DEF PutSentinel
  <2>3. TypeOK'
    BY <1>6, <2>1, <2>2, AppendFacts DEF PutSentinel, consumer
  <2>4. SentinelLast'
    BY <1>6, <2>1, <2>2, AppendFacts DEF PutSentinel, consumer, SentinelLast
  <2>5. NoneInvented'
    BY <1>6, <2>1, <2>2, <1>0 DEF PutSentinel, consumer, NoneInvented, Taken,
        InProducer
  <2>6. Conserved'
    BY <1>6, <2>1, <2>2, <1>0, AppendFacts DEF PutSentinel, consumer,
        Conserved, Live, Taken
  <2>7. EndOfStream'
    BY <1>6, <2>1, <2>2, <1>0 DEF PutSentinel, consumer, EndOfStream, Live
  <2>8. FaultsKept'
    BY <1>6, <2>1, <2>2 DEF PutSentinel, consumer, FaultsKept
  <2>9. HeldBackFirst' /\ DeviceInOrder' /\ LateOnce'
    BY <1>6 DEF PutSentinel, consumer, HeldBackFirst, DeviceInOrder, LateOnce
  <2> QED
    BY <2>3, <2>4, <2>5, <2>6, <2>7, <2>8, <2>9
<1>7. CASE SentinelFull
  <2>1. TypeOK'
    BY <1>7 DEF SentinelFull, consumer
  <2>2. SentinelLast'
    BY <1>7 DEF SentinelFull, consumer, SentinelLast
  <2>3. NoneInvented'
    BY <1>7, ChunksInNat DEF SentinelFull, consumer, NoneInvented, Taken,
        InProducer
  <2>4. Conserved'
    BY <1>7, ChunksInNat DEF SentinelFull, consumer, Conserved, Live, Taken
  <2>5. EndOfStream'
    BY <1>7 DEF SentinelFull, consumer, EndOfStream, Live
  <2>6. FaultsKept'
    BY <1>7 DEF SentinelFull, consumer, FaultsKept
  <2>7. HeldBackFirst' /\ DeviceInOrder' /\ LateOnce'
    BY <1>7 DEF SentinelFull, consumer, HeldBackFirst, DeviceInOrder, LateOnce
  <2> QED
    BY <2>1, <2>2, <2>3, <2>4, <2>5, <2>6, <2>7
<1>8. CASE MakeRoom
  <2>1. queue # <<>> => Head(queue) # EOS
    BY <1>8, TailFacts DEF MakeRoom, SentinelLast
  <2>2. queue' = queue \/ (queue # <<>> /\ queue' = Tail(queue))
    BY <1>8 DEF MakeRoom
  <2>3. ~cancel => queue' = queue
    BY <1>8 DEF MakeRoom
  <2>4. queue' \in Seq(Items)
    BY <1>8, <2>2, TailFacts
  <2>5. ChunksIn(queue) \in Nat /\ ChunksIn(queue') \in Nat
    BY <1>8, <2>4, ChunksInNat
  <2>6. queue' # queue => ChunksIn(queue') = ChunksIn(queue) - 1
    BY <1>8, <2>1, <2>2, TailChunk
  <2>7. ChunksIn(queue') <= ChunksIn(queue)
    BY <1>8, <2>5, <2>6
  <2>8. /\ Taken' = Taken /\ Taken \in Nat
        /\ InProducer' = InProducer /\ InProducer \in Nat
    BY <1>8 DEF MakeRoom, consumer, Taken, InProducer
  <2>9. TypeOK'
    BY <1>8, <2>1, <2>2, <2>3, <2>4, <2>5, <2>6, <2>7, <2>8, TailFacts DEF
        MakeRoom, consumer
  <2>10. SentinelLast'
    BY <1>8, <2>1, <2>2, <2>3, <2>4, <2>5, <2>6, <2>7, <2>8, TailFacts DEF
        MakeRoom, consumer, SentinelLast
  <2>11. NoneInvented'
    BY <1>8, <2>1, <2>2, <2>3, <2>4, <2>5, <2>6, <2>7, <2>8, <1>0 DEF
        MakeRoom, consumer, NoneInvented
  <2>12. Conserved'
    BY <1>8, <2>1, <2>2, <2>3, <2>4, <2>5, <2>6, <2>7, <2>8, <1>0, TailFacts
        DEF MakeRoom, consumer, Conserved, Live
  <2>13. EndOfStream'
    BY <1>8, <2>1, <2>2, <2>3, <2>4, <2>5, <2>6, <2>7, <2>8, <1>0 DEF
        MakeRoom, consumer, EndOfStream, Live
  <2>14. FaultsKept'
    BY <1>8, <2>1, <2>2, <2>3, <2>4, <2>5, <2>6, <2>7, <2>8 DEF MakeRoom,
        consumer, FaultsKept
  <2>15. HeldBackFirst' /\ DeviceInOrder' /\ LateOnce'
    BY <1>8 DEF MakeRoom, consumer, HeldBackFirst, DeviceInOrder, LateOnce
  <2> QED
    BY <2>9, <2>10, <2>11, <2>12, <2>13, <2>14, <2>15
<1>9. CASE CheckCancel
  <2>1. TypeOK'
    BY <1>9 DEF CheckCancel, producer
  <2>2. NoneInvented'
    BY <1>9, ChunksInNat DEF CheckCancel, producer, NoneInvented, Taken,
        InProducer
  <2>3. Conserved'
    BY <1>9, ChunksInNat DEF CheckCancel, producer, Conserved, Live, Taken
  <2>4. HeldBackFirst'
    BY <1>9 DEF CheckCancel, producer, HeldBackFirst
  <2>5. EndOfStream'
    BY <1>9 DEF CheckCancel, producer, EndOfStream, Live
  <2>6. FaultsKept'
    BY <1>9 DEF CheckCancel, producer, FaultsKept
  <2>7. LateOnce'
    BY <1>9 DEF CheckCancel, producer, LateOnce
  <2>8. SentinelLast' /\ DeviceInOrder'
    BY <1>9 DEF CheckCancel, producer, SentinelLast, DeviceInOrder
  <2> QED
    BY <2>1, <2>2, <2>3, <2>4, <2>5, <2>6, <2>7, <2>8
<1>10. CASE GetSentinel
  <2>1. queue # <<>> /\ queue[1] = EOS /\ queue' = Tail(queue)
    BY <1>10, TailFacts DEF GetSentinel
  <2>2. Len(queue) \in Nat /\ 1 \in 1..Len(queue)
    BY <1>10, <2>1, TailFacts
  <2>3. Len(queue) = 1 /\ ppc = "done"
    BY <1>10, <2>1, <2>2 DEF SentinelLast
  <2>4. Len(queue') = 0
    BY <1>10, <2>1, <2>3, TailFacts
  <2>5. ChunksIn(queue) = 0 /\ ChunksIn(queue') = 0
    BY <1>10, <2>1, <2>3, <2>4 DEF ChunksIn, HasSentinel
  <2>6. TypeOK'
    BY <1>10, <2>1, <2>2, <2>3, <2>4, <2>5, TailFacts DEF GetSentinel,
        producer
  <2>7. SentinelLast'
    BY <1>10, <2>1, <2>2, <2>3, <2>4, <2>5, TailFacts DEF GetSentinel,
        producer, SentinelLast
  <2>8. NoneInvented'
    BY <1>10, <2>1, <2>2, <2>3, <2>4, <2>5, <1>0 DEF GetSentinel, producer,
        NoneInvented, Taken, InProducer
  <2>9. Conserved'
    BY <1>10, <2>1, <2>2, <2>3, <2>4, <2>5, <1>0, TailFacts DEF GetSentinel,
        producer, Conserved, Live, Taken
  <2>10. HeldBackFirst'
    BY <1>10, <2>1, <2>2, <2>3, <2>4, <2>5 DEF GetSentinel, producer,
        HeldBackFirst
  <2>11. EndOfStream'
    BY <1>10, <2>1, <2>2, <2>3, <2>4, <2>5, <1>0 DEF GetSentinel, producer,
        EndOfStream, Live
  <2>12. FaultsKept'
    BY <1>10, <2>1, <2>2, <2>3, <2>4, <2>5 DEF GetSentinel, producer,
        FaultsKept
  <2>13. LateOnce'
    BY <1>10, <2>1, <2>2, <2>3, <2>4, <2>5 DEF GetSentinel, producer, LateOnce
  <2>14. DeviceInOrder'
    BY <1>10 DEF GetSentinel, producer, DeviceInOrder
  <2> QED
    BY <2>6, <2>7, <2>8, <2>9, <2>10, <2>11, <2>12, <2>13, <2>14
<1>11. CASE GetFirst
  <2>1. /\ queue # <<>> /\ queue' = Tail(queue)
        /\ Head(queue) \in Chunk /\ Head(queue) = queue[1]
    BY <1>11, TailFacts DEF GetFirst
  <2>2. queue' \in Seq(Items)
    BY <1>11, <2>1, TailFacts
  <2>3. ChunksIn(queue) \in Nat /\ ChunksIn(queue') \in Nat
    BY <1>11, <2>2, ChunksInNat
  <2>4. /\ ChunksIn(queue') = ChunksIn(queue) - 1
        /\ HasSentinel(queue') <=> HasSentinel(queue)
    BY <1>11, <2>1, TailChunk
  <2>5. /\ Taken = total /\ Taken' = total + 1 /\ total \in Nat
        /\ InProducer' = InProducer /\ InProducer \in Nat
    BY <1>11 DEF GetFirst, producer, Taken, InProducer
  <2>6. TypeOK'
    BY <1>11, <2>1, <2>2, <2>3, <2>4, <2>5, TailFacts DEF GetFirst, producer,
        NoneInvented
  <2>7. SentinelLast'
    BY <1>11, <2>1, <2>2, <2>3, <2>4, <2>5, TailFacts DEF GetFirst, producer,
        SentinelLast
  <2>8. NoneInvented'
    BY <1>11, <2>1, <2>2, <2>3, <2>4, <2>5, <1>0 DEF GetFirst, producer,
        NoneInvented
  <2>9. Conserved'
    BY <1>11, <2>1, <2>2, <2>3, <2>4, <2>5, <1>0, TailFacts DEF GetFirst,
        producer, Conserved, Live, HeldBackFirst
  <2>10. HeldBackFirst'
    BY <1>11, <2>1, <2>2, <2>3, <2>4, <2>5 DEF GetFirst, producer,
        HeldBackFirst
  <2>11. DeviceInOrder'
    BY <1>11, <2>1, <2>2, <2>3, <2>4, <2>5 DEF GetFirst, producer,
        DeviceInOrder, HeldBackFirst
  <2>12. EndOfStream'
    BY <1>11, <2>1, <2>2, <2>3, <2>4, <2>5, <1>0 DEF GetFirst, producer,
        EndOfStream, Live
  <2>13. FaultsKept'
    BY <1>11, <2>1, <2>2, <2>3, <2>4, <2>5 DEF GetFirst, producer, FaultsKept
  <2>14. LateOnce'
    BY <1>11, <2>1, <2>2, <2>3, <2>4, <2>5 DEF GetFirst, producer, LateOnce
  <2> QED
    BY <2>6, <2>7, <2>8, <2>9, <2>10, <2>11, <2>12, <2>13, <2>14
<1>12. CASE GetChunk
  <2>1. /\ queue # <<>> /\ queue' = Tail(queue)
        /\ Head(queue) \in Chunk /\ Head(queue) = queue[1]
    BY <1>12, TailFacts DEF GetChunk
  <2>2. queue' \in Seq(Items)
    BY <1>12, <2>1, TailFacts
  <2>3. ChunksIn(queue) \in Nat /\ ChunksIn(queue') \in Nat
    BY <1>12, <2>2, ChunksInNat
  <2>4. /\ ChunksIn(queue') = ChunksIn(queue) - 1
        /\ HasSentinel(queue') <=> HasSentinel(queue)
    BY <1>12, <2>1, TailChunk
  <2>5. /\ Taken = total /\ Taken' = total + 1 /\ total \in Nat
        /\ InProducer' = InProducer /\ InProducer \in Nat
    BY <1>12 DEF GetChunk, producer, Taken, InProducer
  <2>6. TypeOK'
    BY <1>12, <2>1, <2>2, <2>3, <2>4, <2>5, TailFacts DEF GetChunk, producer
  <2>7. SentinelLast'
    BY <1>12, <2>1, <2>2, <2>3, <2>4, <2>5, TailFacts DEF GetChunk, producer,
        SentinelLast
  <2>8. NoneInvented'
    BY <1>12, <2>1, <2>2, <2>3, <2>4, <2>5, <1>0 DEF GetChunk, producer,
        NoneInvented
  <2>9. Conserved'
    BY <1>12, <2>1, <2>2, <2>3, <2>4, <2>5, <1>0, TailFacts DEF GetChunk,
        producer, Conserved, Live
  <2>10. HeldBackFirst'
    BY <1>12, <2>1, <2>2, <2>3, <2>4, <2>5 DEF GetChunk, producer,
        HeldBackFirst
  <2>11. EndOfStream'
    BY <1>12, <2>1, <2>2, <2>3, <2>4, <2>5, <1>0 DEF GetChunk, producer,
        EndOfStream, Live
  <2>12. FaultsKept'
    BY <1>12, <2>1, <2>2, <2>3, <2>4, <2>5 DEF GetChunk, producer, FaultsKept
  <2>13. LateOnce'
    BY <1>12, <2>1, <2>2, <2>3, <2>4, <2>5 DEF GetChunk, producer, LateOnce
  <2>14. DeviceInOrder'
    BY <1>12 DEF GetChunk, producer, DeviceInOrder
  <2> QED
    BY <2>6, <2>7, <2>8, <2>9, <2>10, <2>11, <2>12, <2>13, <2>14
<1>13. CASE WriteChunk
  <2>1. ChunksIn(queue) \in Nat
    BY <1>13, ChunksInNat
  <2>2. total + 1 \in Chunk /\ total >= 1
    BY <1>13, <2>1 DEF WriteChunk, NoneInvented, HeldBackFirst, Taken,
        InProducer
  <2>3. TypeOK'
    BY <1>13, <2>1, <2>2, TailFacts DEF WriteChunk, producer, CountLate
  <2>4. NoneInvented'
    BY <1>13, <2>1, <2>2, <1>0 DEF WriteChunk, producer, NoneInvented, Taken,
        InProducer
  <2>5. Conserved'
    BY <1>13, <2>1, <2>2, <1>0, TailFacts DEF WriteChunk, producer, Conserved,
        Live, Taken
  <2>6. HeldBackFirst'
    BY <1>13, <2>1, <2>2 DEF WriteChunk, producer, HeldBackFirst
  <2>7. DeviceInOrder'
    BY <1>13, <2>1, <2>2 DEF WriteChunk, producer, DeviceInOrder, Conserved,
        Live
  <2>8. EndOfStream'
    BY <1>13, <2>1, <2>2, <1>0 DEF WriteChunk, producer, EndOfStream, Live
  <2>9. FaultsKept'
    BY <1>13, <2>1, <2>2 DEF WriteChunk, producer, FaultsKept
  <2>10. LateOnce'
    BY <1>13, <2>1, <2>2 DEF WriteChunk, producer, LateOnce, CountLate
  <2>11. SentinelLast'
    BY <1>13 DEF WriteChunk, producer, SentinelLast
  <2> QED
    BY <2>3, <2>4, <2>5, <2>6, <2>7, <2>8, <2>9, <2>10, <2>11
<1>14. CASE WriteFails
  <2>1. ChunksIn(queue) \in Nat
    BY <1>14, ChunksInNat
  <2>2. total + 1 \in Chunk /\ total >= 1
    BY <1>14, <2>1 DEF WriteFails, NoneInvented, HeldBackFirst, Taken,
        InProducer
  <2>3. TypeOK'
    BY <1>14, <2>1, <2>2, TailFacts DEF WriteFails, producer, CountLate,
        Raises
  <2>4. NoneInvented'
    BY <1>14, <2>1, <2>2, <1>0 DEF WriteFails, producer, NoneInvented, Taken,
        InProducer
  <2>5. Conserved'
    BY <1>14, <2>1, <2>2, <1>0, TailFacts DEF WriteFails, producer, Conserved,
        Live, Taken
  <2>6. HeldBackFirst'
    BY <1>14, <2>1, <2>2 DEF WriteFails, producer, HeldBackFirst
  <2>7. DeviceInOrder'
    BY <1>14, <2>1, <2>2 DEF WriteFails, producer, DeviceInOrder
  <2>8. EndOfStream'
    BY <1>14, <2>1, <2>2, <1>0 DEF WriteFails, producer, EndOfStream, Live
  <2>9. FaultsKept'
    BY <1>14, <2>1, <2>2 DEF WriteFails, producer, FaultsKept, Raises
  <2>10. LateOnce'
    BY <1>14, <2>1, <2>2 DEF WriteFails, producer, LateOnce, CountLate
  <2>11. SentinelLast'
    BY <1>14 DEF WriteFails, producer, SentinelLast
  <2> QED
    BY <2>3, <2>4, <2>5, <2>6, <2>7, <2>8, <2>9, <2>10, <2>11
<1>15. CASE Report
  <2>1. TypeOK'
    BY <1>15 DEF Report, producer
  <2>2. NoneInvented'
    BY <1>15, ChunksInNat DEF Report, producer, NoneInvented, Taken,
        InProducer
  <2>3. Conserved'
    BY <1>15, ChunksInNat DEF Report, producer, Conserved, Live, Taken
  <2>4. HeldBackFirst'
    BY <1>15 DEF Report, producer, HeldBackFirst
  <2>5. EndOfStream'
    BY <1>15 DEF Report, producer, EndOfStream, Live
  <2>6. FaultsKept'
    BY <1>15 DEF Report, producer, FaultsKept
  <2>7. LateOnce'
    BY <1>15 DEF Report, producer, LateOnce
  <2>8. SentinelLast' /\ DeviceInOrder'
    BY <1>15 DEF Report, producer, SentinelLast, DeviceInOrder
  <2> QED
    BY <2>1, <2>2, <2>3, <2>4, <2>5, <2>6, <2>7, <2>8
<1>16. CASE ReportFails
  <2>1. TypeOK'
    BY <1>16 DEF ReportFails, producer, Raises
  <2>2. NoneInvented'
    BY <1>16, ChunksInNat DEF ReportFails, producer, NoneInvented, Taken,
        InProducer
  <2>3. Conserved'
    BY <1>16, ChunksInNat DEF ReportFails, producer, Conserved, Live, Taken
  <2>4. HeldBackFirst'
    BY <1>16 DEF ReportFails, producer, HeldBackFirst
  <2>5. EndOfStream'
    BY <1>16 DEF ReportFails, producer, EndOfStream, Live, Raises
  <2>6. FaultsKept'
    BY <1>16 DEF ReportFails, producer, FaultsKept, Raises
  <2>7. LateOnce'
    BY <1>16 DEF ReportFails, producer, LateOnce
  <2>8. SentinelLast' /\ DeviceInOrder'
    BY <1>16 DEF ReportFails, producer, SentinelLast, DeviceInOrder
  <2> QED
    BY <2>1, <2>2, <2>3, <2>4, <2>5, <2>6, <2>7, <2>8
<1>17. CASE ConsumerDies
  <2>1. TypeOK'
    BY <1>17 DEF ConsumerDies, producer
  <2>2. NoneInvented'
    BY <1>17, ChunksInNat DEF ConsumerDies, producer, NoneInvented, Taken,
        InProducer
  <2>3. Conserved'
    BY <1>17, ChunksInNat DEF ConsumerDies, producer, Conserved, Live, Taken
  <2>4. HeldBackFirst'
    BY <1>17 DEF ConsumerDies, producer, HeldBackFirst
  <2>5. DeviceInOrder'
    BY <1>17 DEF ConsumerDies, producer, DeviceInOrder
  <2>6. EndOfStream'
    BY <1>17 DEF ConsumerDies, producer, EndOfStream, Live
  <2>7. FaultsKept'
    BY <1>17 DEF ConsumerDies, producer, FaultsKept
  <2>8. LateOnce'
    BY <1>17 DEF ConsumerDies, producer, LateOnce
  <2>9. SentinelLast'
    BY <1>17 DEF ConsumerDies, producer, SentinelLast
  <2> QED
    BY <2>1, <2>2, <2>3, <2>4, <2>5, <2>6, <2>7, <2>8, <2>9
<1>18. CASE Finish
  <2>1. TypeOK'
    BY <1>18 DEF Finish, producer, consumer
  <2>2. FaultsKept'
    BY <1>18 DEF Finish, producer, consumer, FaultsKept, Joined
  <2>3. SentinelLast' /\ NoneInvented' /\ Conserved' /\ HeldBackFirst' /\ DeviceInOrder' /\ EndOfStream' /\ LateOnce'
    BY <1>18 DEF Finish, producer, consumer, SentinelLast, NoneInvented,
        Taken, InProducer, Conserved, Live, HeldBackFirst, DeviceInOrder,
        EndOfStream, LateOnce
  <2> QED
    BY <2>1, <2>2, <2>3
<1>19. CASE FinishFails
  <2>1. TypeOK'
    BY <1>19 DEF FinishFails, producer, consumer
  <2>2. EndOfStream'
    BY <1>19 DEF FinishFails, producer, consumer, EndOfStream, Live
  <2>3. FaultsKept'
    BY <1>19 DEF FinishFails, producer, consumer, FaultsKept, Joined
  <2>4. SentinelLast' /\ NoneInvented' /\ Conserved' /\ HeldBackFirst' /\ DeviceInOrder' /\ LateOnce'
    BY <1>19 DEF FinishFails, producer, consumer, SentinelLast, NoneInvented,
        Taken, InProducer, Conserved, Live, HeldBackFirst, DeviceInOrder,
        LateOnce
  <2> QED
    BY <2>1, <2>2, <2>3, <2>4
<1>20. CASE Cancel
  <2>1. TypeOK'
    BY <1>20 DEF Cancel, producer, consumer
  <2>2. Conserved'
    BY <1>20, ChunksInNat DEF Cancel, producer, consumer, Conserved, Live,
        Taken
  <2>3. DeviceInOrder'
    BY <1>20 DEF Cancel, producer, consumer, DeviceInOrder
  <2>4. EndOfStream'
    BY <1>20 DEF Cancel, producer, consumer, EndOfStream, Live
  <2>5. LateOnce'
    BY <1>20 DEF Cancel, producer, consumer, LateOnce
  <2>6. SentinelLast' /\ NoneInvented' /\ HeldBackFirst' /\ FaultsKept'
    BY <1>20 DEF Cancel, producer, consumer, SentinelLast, NoneInvented,
        Taken, InProducer, HeldBackFirst, FaultsKept
  <2> QED
    BY <2>1, <2>2, <2>3, <2>4, <2>5, <2>6
<1>21. CASE UNCHANGED vars
  BY <1>21 DEF vars, producer, consumer, SentinelLast, NoneInvented,
      Conserved, HeldBackFirst, DeviceInOrder, EndOfStream, FaultsKept,
      LateOnce, Live, Taken, InProducer
<1> QED
  BY <1>1, <1>2, <1>3, <1>4, <1>5, <1>6, <1>7, <1>8, <1>9, <1>10, <1>11,
      <1>12, <1>13, <1>14, <1>15, <1>16, <1>17, <1>18, <1>19, <1>20, <1>21 DEF
      Next, Producer, Consumer, Caller, Ended

-----------------------------------------------------------------------------
LEMMA Invariance == Spec => []IInv
  BY InitInvariant, StepInvariant, PTL DEF Spec

\* Every variable keeps its type; the queue never outgrows QUEUE_MAX.
THEOREM TypeCorrect == Spec => []TypeOK
<1>1. IInv => TypeOK
  BY DEF IInv
<1> QED
  BY <1>1, Invariance, PTL

\* An uncancelled run() that returns has copied exactly what it hashed.
LEMMA FinishedCopy ==
  ASSUME IInv, exc = "none", ~cancel, ppc = "done", cpc = "done"
  PROVE  /\ hashed = NChunks /\ total = NChunks
         /\ NChunks > 0 => first = 1
         /\ \A b \in Chunk \ {1} : dev[b] = b
<1> USE NChunksAssumption DEF IInv, TypeOK, Live
<1>1. hashed = NChunks /\ Len(queue) = 0
  BY DEF EndOfStream
<1>2. ChunksIn(queue) = 0
  BY <1>1 DEF ChunksIn, HasSentinel
<1>3. total = NChunks
  BY <1>1, <1>2 DEF Conserved, Taken
<1>4. NChunks > 0 => first = 1
  BY <1>3 DEF Conserved, HeldBackFirst
<1>5. \A b \in Chunk \ {1} : dev[b] = b
  BY <1>3 DEF DeviceInOrder, Chunk
<1> QED
  BY <1>1, <1>3, <1>4, <1>5

\* What run() returns is a faithful copy, whatever the threads' schedule.
THEOREM FaithfulCopyHolds == Spec => []FaithfulCopy
<1>1. IInv => FaithfulCopy
  BY FinishedCopy DEF IInv, FaultsKept, FaithfulCopy
<1> QED
  BY <1>1, Invariance, PTL

\* Every chunk of an uncancelled run lands in its own block.
THEOREM InPlaceHolds == Spec => []InPlace
<1>1. IInv => InPlace
  <2> SUFFICES ASSUME IInv, ~cancel, NEW b \in Chunk
               PROVE  /\ dev[b] \in Chunk => dev[b] = b
                      /\ b > total + 1 => dev[b] = Old
    BY DEF InPlace
  <2> USE NChunksAssumption DEF IInv, TypeOK, DeviceInOrder, Chunk, Old, Torn
  <2>1. CASE b <= total
    BY <2>1 DEF HeldBackFirst
  <2>2. CASE b > total
    BY <2>2
  <2> QED
    BY <2>1, <2>2
<1> QED
  BY <1>1, Invariance, PTL

\* The streaming write never touches the block of the partition table.
THEOREM TableHeldBackHolds == Spec => []TableHeldBack
<1>1. IInv => TableHeldBack
  BY DEF IInv, HeldBackFirst, TableHeldBack
<1> QED
  BY <1>1, Invariance, PTL

\* No exception is lost between the threads and the caller.
THEOREM NoSilentFailureHolds == Spec => []NoSilentFailure
<1>1. IInv => NoSilentFailure
  BY DEF IInv, FaultsKept, NoSilentFailure
<1> QED
  BY <1>1, Invariance, PTL

\* A cancel costs at most one more device write.
THEOREM CancelStopsWritesHolds == Spec => []CancelStopsWrites
<1>1. IInv => CancelStopsWrites
  BY DEF IInv, LateOnce, CancelStopsWrites
<1> QED
  BY <1>1, Invariance, PTL

-----------------------------------------------------------------------------
(* run() implements ImageCopy.                                             *)

LEMMA PromiseStep == IInv /\ [Next]_vars => [Promise!Next]_(Promise!vars)
<1> SUFFICES ASSUME IInv, [Next]_vars
             PROVE  Promise!Next \/ UNCHANGED Promise!vars
  OBVIOUS
<1> USE NChunksAssumption
    DEF IInv, TypeOK, Promise!Next, Promise!vars, Promise!Chunk, Chunk
<1>1. CASE Fetch \/ HashChunk \/ PutChunk \/ AbandonChunk \/ PutSentinel
           \/ SentinelFull \/ MakeRoom
  BY <1>1 DEF Fetch, HashChunk, PutChunk, AbandonChunk, PutSentinel,
      SentinelFull, MakeRoom, consumer
<1>2. CASE CheckCancel \/ GetSentinel \/ GetChunk \/ Report
  BY <1>2 DEF CheckCancel, GetSentinel, GetChunk, Report
<1>3. CASE FetchFails
  <2>1. Promise!Doom
    BY <1>3 DEF FetchFails, Raises, consumer, FaultsKept, Promise!Doom
  <2> QED
    BY <2>1
<1>4. CASE GetFirst
  <2>1. queue # <<>> /\ Head(queue) = queue[1] /\ Head(queue) \in Items /\ 1 \in 1..Len(queue)
    BY <1>4, TailFacts DEF GetFirst
  <2>2. Head(queue) \in Chunk
    BY <1>4, <2>1 DEF GetFirst, Items, EOS
  <2>3. cancel \/ Head(queue) = total + 1
    BY <1>4, <2>1 DEF GetFirst, Conserved, Live, Taken
  <2>4. Promise!HoldBack(Head(queue))
    BY <1>4, <2>3 DEF GetFirst, FaultsKept, Promise!HoldBack, Promise!MayCopy
  <2> QED
    BY <2>2, <2>4
<1>5. CASE WriteChunk
  <2>1. held \in Chunk /\ first # 0
    BY <1>5 DEF WriteChunk, HeldBackFirst
  <2>2. total < NChunks
    BY <1>5, ChunksInNat DEF WriteChunk, NoneInvented, Taken, InProducer
  <2>3. cancel \/ held = total + 1
    BY <1>5 DEF WriteChunk, Conserved, Live
  <2>4. Promise!OneLateWrite
    BY <1>5 DEF WriteChunk, CountLate, LateOnce, Promise!OneLateWrite
  <2>5. Promise!CopyChunk(held)
    BY <1>5, <2>1, <2>2, <2>3, <2>4
    DEF WriteChunk, FaultsKept, Promise!CopyChunk, Promise!MayCopy
  <2> QED
    BY <2>1, <2>5
<1>6. CASE WriteFails
  <2>1. first # 0 /\ mpc = "join"
    BY <1>6 DEF WriteFails, HeldBackFirst, FaultsKept
  <2>2. total < NChunks
    BY <1>6, ChunksInNat DEF WriteFails, NoneInvented, Taken, InProducer
  <2>3. Promise!OneLateWrite
    BY <1>6 DEF WriteFails, CountLate, LateOnce, Promise!OneLateWrite
  <2>4. Promise!TearChunk
    BY <1>6, <2>1, <2>2, <2>3
    DEF WriteFails, Raises, Promise!TearChunk, Torn, Promise!Torn
  <2> QED
    BY <2>4
<1>7. CASE ReportFails
  <2>1. Promise!Doom
    BY <1>7 DEF ReportFails, Raises, FaultsKept, Promise!Doom
  <2> QED
    BY <2>1
<1>8. CASE ConsumerDies
  <2>1. Promise!Cancel
    BY <1>8 DEF ConsumerDies, FaultsKept, Promise!Cancel
  <2> QED
    BY <2>1
<1>9. CASE Finish /\ exc = "none"
  <2>1. cancel \/ total = NChunks
    BY <1>9, FinishedCopy DEF Finish, Joined
  <2>2. Promise!Return
    BY <1>9, <2>1 DEF Finish, Joined, FaultsKept, consumer, Promise!Return
  <2> QED
    BY <2>2
<1>10. CASE Finish /\ exc # "none"
  <2>1. Promise!Raise
    BY <1>10 DEF Finish, Joined, FaultsKept, consumer, Promise!Raise
  <2> QED
    BY <2>1
<1>11. CASE FinishFails
  <2>1. Promise!Raise
    BY <1>11 DEF FinishFails, Joined, consumer, Promise!Raise
  <2> QED
    BY <2>1
<1>12. CASE Cancel
  <2>1. Promise!Cancel
    BY <1>12 DEF Cancel, consumer, Promise!Cancel
  <2> QED
    BY <2>1
<1>13. CASE UNCHANGED vars
  BY <1>13 DEF vars, consumer
<1> QED
  BY <1>1, <1>2, <1>3, <1>4, <1>5, <1>6, <1>7, <1>8, <1>9, <1>10, <1>11,
     <1>12, <1>13 DEF Next, Producer, Consumer, Caller, Ended

\* DiskWriter.run keeps the promise FlashJob is built on, for every image
\* length, queue capacity and combination of faults.
THEOREM Refinement == Spec => KeepsPromise
<1>1. Init => Promise!Init
  BY DEF Init, Promise!Init, Chunk, Promise!Chunk, Old, Promise!Old
<1> QED
  BY <1>1, PromiseStep, Invariance, PTL DEF Spec, KeepsPromise, Promise!Spec

=============================================================================
