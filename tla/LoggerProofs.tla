---------------------------- MODULE LoggerProofs ----------------------------
(***************************************************************************)
(* Proofs about the logger, for any callers, closers, buffer size and      *)
(* number of retries, and without the bounds on events and markers.        *)
(***************************************************************************)
EXTENDS Logger, TLAPS

(***************************************************************************)
(* The inductive invariant.  Events are numbered as they are appended, so  *)
(* the buffer holds the numbers from cut + 1 to accepted in that order.    *)
(* The batches whose events have left the buffer are all of them, except   *)
(* that while a closer holds l.mu the last one is still the buffer itself. *)
(***************************************************************************)
Numbered(evs, from) == \A k \in 1..Len(evs) : evs[k].id = from + k

Buffered ==
    /\ accepted = cut + Len(events)
    /\ Numbered(events, cut)
    /\ Len(events) < MaxEvents

Gone == IF mu = Free THEN Len(batches) ELSE Len(batches) - 1

Partition ==
    /\ \A n \in 1..cut : \E i \in 1..Gone : n \in BatchIds(i)
    /\ \A i \in 1..Gone : BatchIds(i) \subseteq 1..cut
    /\ \A i, j \in 1..Gone : i # j => BatchIds(i) \cap BatchIds(j) = {}

Sizes == \A i \in 1..Len(batches) : Len(batches[i].evs) \in 1..MaxEvents

Closing ==
    mu # Free =>
        /\ Len(batches) >= 1
        /\ batches[Len(batches)].evs = events

Sending == \A t \in Closers : pc[t] = "sending" => mu = t

BufInv == Buffered /\ Partition /\ Sizes /\ Closing

\* A call between its two markers knows the key of the second.
CallKeys == \A t \in Callers : pc[t] \in {"exposure", "endMark"} => call[t] \in Keys

Drained ==
    \A t \in Closers : /\ calledAt[t] <= accepted
                       /\ pc[t] = "closed" => cut >= calledAt[t]

GoodRequest(r) ==
    /\ r.tries <= MaxRetries + 1
    /\ r.state # "done" => r.tries + r.left = MaxRetries

Retries == \A i \in 1..Len(batches) : GoodRequest(batches[i].req)

IInv == TypeOK /\ BufInv /\ Sending /\ CallKeys /\ Drained /\ Retries

\* The types of the variables that l.mu guards.
BufType ==
    /\ events \in Seq(Event)
    /\ mu \in Closers \cup {Free}
    /\ batches \in Seq(Batch)
    /\ accepted \in Nat
    /\ cut \in Nat

-----------------------------------------------------------------------------
(***************************************************************************)
(* The buffer.                                                             *)
(***************************************************************************)
\* A numbered sequence of events holds an interval of numbers.
LEMMA Interval ==
    ASSUME NEW evs \in Seq(Event), NEW n \in Nat, Numbered(evs, n)
    PROVE  Ids(evs) = (n + 1)..(n + Len(evs))
  <1>1. DOMAIN evs = 1..Len(evs) /\ Len(evs) \in Nat
    OBVIOUS
  <1>2. ASSUME NEW m \in (n + 1)..(n + Len(evs))
        PROVE  m - n \in 1..Len(evs) /\ evs[m - n].id = m
    BY <1>1 DEF Numbered
  <1>3. ASSUME NEW k \in 1..Len(evs)
        PROVE  evs[k].id \in (n + 1)..(n + Len(evs))
    BY <1>1 DEF Numbered
  <1>4. QED
    BY <1>1, <1>2, <1>3 DEF Ids

\* The numbers in the buffer.
LEMMA BufferInterval ==
    ASSUME BufType, Buffered PROVE BufferIds = (cut + 1)..accepted
  BY Interval DEF BufType, Buffered, BufferIds

\* A batch that is added leaves the others as they are.
LEMMA AddBatch ==
    ASSUME batches \in Seq(Batch), NEW b \in Batch, batches' = Append(batches, b)
    PROVE  /\ batches' \in Seq(Batch)
           /\ Len(batches) \in Nat /\ Len(batches') = Len(batches) + 1
           /\ \A i \in 1..Len(batches) : batches'[i] = batches[i]
           /\ batches'[Len(batches) + 1] = b
  OBVIOUS

LEMMA NewBatchType ==
    ASSUME BufType, NEW evs \in Seq(Event), NEW by \in Closers \cup {Go}
    PROVE  /\ NewBatch(evs, by) \in Batch
           /\ NewBatch(evs, by).evs = evs
           /\ GoodRequest(NewBatch(evs, by).req)
  <1>1. NewRequest(MaxRetries) \in Requests
    BY LoggerAssumption DEF NewRequest, Requests
  <1>2. GoodRequest(NewRequest(MaxRetries))
    BY LoggerAssumption DEF NewRequest, GoodRequest
  <1>3. QED
    BY <1>1, <1>2 DEF NewBatch, Batch, BufType

(***************************************************************************)
(* flushInternal(false): whoever calls it, with the buffer or with the     *)
(* buffer and one more event.                                              *)
(***************************************************************************)
LEMMA FlushAsyncInv ==
    ASSUME BufType, BufInv, mu = Free, mu' = mu,
           NEW buf \in Seq(Event), Numbered(buf, cut), Len(buf) <= MaxEvents,
           flushAsync(buf), accepted' = cut + Len(buf)
    PROVE  BufType' /\ BufInv'
  <1> DEFINE b == NewBatch(buf, Go)
             last == Len(batches) + 1
  <1>0. Len(buf) \in Nat /\ cut \in Nat /\ MaxEvents \in Nat \ {0} /\ cut' = cut + Len(buf)
        /\ events' = <<>> /\ Len(batches) \in Nat /\ Gone = Len(batches)
    BY LoggerAssumption DEF BufType, flushAsync, Gone
  <1>1. Buffered'
    BY <1>0 DEF Buffered, Numbered
  <1>2. CASE buf = <<>>
    <2>1. batches' = batches /\ cut' = cut
      BY <1>0, <1>2 DEF flushAsync
    <2>2. Partition' /\ Sizes' /\ Closing'
      BY <2>1 DEF BufInv, Partition, Sizes, Closing, Gone, BatchIds
    <2>3. BufType'
      BY <1>0, <2>1 DEF BufType
    <2>4. QED
      BY <1>1, <2>2, <2>3 DEF BufInv
  <1>3. CASE buf # <<>>
    <2>1. batches' = Append(batches, b)
      BY <1>3 DEF flushAsync
    <2>2. b \in Batch /\ b.evs = buf
      BY NewBatchType
    <2> HIDE DEF b
    <2>3. /\ batches' \in Seq(Batch)
          /\ Len(batches') = last
          /\ \A i \in 1..Len(batches) : batches'[i] = batches[i]
          /\ batches'[last] = b
      BY <2>1, <2>2, AddBatch DEF BufType
    <2>4. Ids(batches'[last].evs) = (cut + 1)..(cut + Len(buf)) /\ Len(buf) \in 1..MaxEvents
      <3>1. Ids(buf) = (cut + 1)..(cut + Len(buf))
        BY <1>0, Interval
      <3>2. Len(buf) # 0
        BY <1>3
      <3>3. QED
        BY <1>0, <2>2, <2>3, <3>1, <3>2
    <2>5. Gone' = last
      BY <2>3 DEF Gone
    <2>6. Sizes'
      BY <1>0, <2>2, <2>3, <2>4 DEF BufInv, Sizes
    <2>7. \A i \in 1..Len(batches) : Ids(batches'[i].evs) = Ids(batches[i].evs)
                                     /\ Ids(batches'[i].evs) \subseteq 1..cut
      BY <1>0, <2>3 DEF BufInv, Partition, BatchIds
    <2>8. ASSUME NEW n \in 1..cut' PROVE \E i \in 1..last : n \in Ids(batches'[i].evs)
      <3>1. CASE n \in 1..cut
        <4>1. PICK i \in 1..Len(batches) : n \in Ids(batches[i].evs)
          BY <1>0, <3>1 DEF BufInv, Partition, BatchIds
        <4>2. i \in 1..last /\ n \in Ids(batches'[i].evs)
          BY <1>0, <2>7, <4>1
        <4>3. QED
          BY <4>2
      <3>2. CASE n \in (cut + 1)..(cut + Len(buf))
        <4>1. last \in 1..last /\ n \in Ids(batches'[last].evs)
          BY <1>0, <2>4, <3>2
        <4>2. QED
          BY <4>1
      <3>3. QED
        BY <1>0, <3>1, <3>2
    <2>9. ASSUME NEW i \in 1..last PROVE Ids(batches'[i].evs) \subseteq 1..cut'
      <3>1. CASE i = last
        <4>1. Ids(batches'[i].evs) = Ids(batches'[last].evs)
          BY <3>1
        <4>2. QED
          BY <1>0, <2>4, <4>1
      <3>2. CASE i \in 1..Len(batches)
        <4>1. Ids(batches'[i].evs) \subseteq 1..cut
          BY <2>7, <3>2
        <4>2. 1..cut \subseteq 1..cut'
          BY <1>0
        <4>3. QED
          BY <4>1, <4>2
      <3>3. QED
        BY <1>0, <3>1, <3>2
    <2>10. ASSUME NEW i \in 1..last, NEW j \in 1..last, i # j
           PROVE  Ids(batches'[i].evs) \cap Ids(batches'[j].evs) = {}
      <3>1. CASE i \in 1..Len(batches) /\ j \in 1..Len(batches)
        BY <1>0, <2>7, <2>10, <3>1 DEF BufInv, Partition, BatchIds
      <3>2. CASE i = last /\ j \in 1..Len(batches)
        <4>1. Ids(batches'[i].evs) = Ids(batches'[last].evs)
          BY <3>2
        <4>2. Ids(batches'[j].evs) \subseteq 1..cut
          BY <2>7, <3>2
        <4>3. QED
          BY <1>0, <2>4, <4>1, <4>2
      <3>3. CASE j = last /\ i \in 1..Len(batches)
        <4>1. Ids(batches'[j].evs) = Ids(batches'[last].evs)
          BY <3>3
        <4>2. Ids(batches'[i].evs) \subseteq 1..cut
          BY <2>7, <3>3
        <4>3. QED
          BY <1>0, <2>4, <4>1, <4>2
      <3>4. QED
        BY <1>0, <2>10, <3>1, <3>2, <3>3
    <2>11. Partition'
      BY <2>5, <2>8, <2>9, <2>10 DEF Partition, BatchIds
    <2>12. Closing' /\ BufType'
      BY <1>0, <2>3 DEF Closing, BufType
    <2>13. QED
      BY <1>1, <2>6, <2>11, <2>12 DEF BufInv
  <1>4. QED
    BY <1>2, <1>3

\* The request of the new batch is a fresh one.
LEMMA AddBatchRetries ==
    ASSUME BufType, Retries, NEW evs \in Seq(Event), NEW by \in Closers \cup {Go},
           batches' = Append(batches, NewBatch(evs, by))
    PROVE  Retries'
  <1> DEFINE b == NewBatch(evs, by)
  <1>1. b \in Batch /\ GoodRequest(b.req)
    BY NewBatchType
  <1> HIDE DEF b
  <1>2. batches' = Append(batches, b)
    BY DEF b
  <1>3. /\ Len(batches) \in Nat /\ Len(batches') = Len(batches) + 1
        /\ \A i \in 1..Len(batches) : batches'[i] = batches[i]
        /\ batches'[Len(batches) + 1] = b
    BY <1>1, <1>2, AddBatch DEF BufType
  <1>4. ASSUME NEW i \in 1..Len(batches') PROVE GoodRequest(batches'[i].req)
    <2>1. CASE i \in 1..Len(batches)
      <3>1. batches'[i] = batches[i] /\ GoodRequest(batches[i].req)
        BY <1>3, <2>1 DEF Retries
      <3>2. QED
        BY <3>1
    <2>2. CASE i = Len(batches) + 1
      BY <1>1, <1>3, <2>2
    <2>3. QED
      BY <1>3, <2>1, <2>2
  <1>5. QED
    BY <1>4 DEF Retries, GoodRequest

LEMMA FlushAsyncRetries ==
    ASSUME BufType, Retries, NEW buf \in Seq(Event), flushAsync(buf)
    PROVE  Retries'
  <1>1. CASE batches' = batches
    BY <1>1 DEF Retries, GoodRequest
  <1>2. CASE batches' = Append(batches, NewBatch(buf, Go))
    BY <1>2, AddBatchRetries
  <1>3. QED
    BY <1>1, <1>2 DEF flushAsync

\* logInternal keeps the buffer's invariant, whoever calls it.
LEMMA LogInternalInv ==
    ASSUME BufType, BufInv, Retries, mu' = mu,
           NEW t \in Threads, NEW ms \in SUBSET Marker, NEW ok \in BOOLEAN,
           logInternal(t, ms, ok)
    PROVE  BufType' /\ BufInv' /\ Retries' /\ accepted' = accepted + 1 /\ cut' >= cut
  <1> DEFINE e == [id |-> accepted + 1, markers |-> ms, by |-> t, marshals |-> ok]
             buf == Append(events, e)
  <1>1. e \in Event /\ e.id = accepted + 1
    BY DEF Event, BufType
  <1>2. /\ mu = Free
        /\ accepted' = accepted + 1
        /\ IF Full(buf) THEN flushAsync(buf) ELSE events' = buf /\ UNCHANGED <<batches, cut>>
    BY DEF logInternal
  <1> HIDE DEF e
  <1>3. /\ buf \in Seq(Event) /\ Len(buf) = Len(events) + 1 /\ Len(events) \in Nat
        /\ \A k \in 1..Len(events) : buf[k] = events[k]
        /\ buf[Len(events) + 1] = e
    BY <1>1 DEF BufType
  <1> HIDE DEF buf
  <1>4. cut \in Nat /\ accepted = cut + Len(events) /\ MaxEvents \in Nat \ {0}
        /\ Len(events) < MaxEvents
    BY LoggerAssumption DEF BufType, BufInv, Buffered
  <1>5. ASSUME NEW k \in 1..Len(buf) PROVE buf[k].id = cut + k
    <2>1. CASE k \in 1..Len(events)
      BY <1>3, <2>1 DEF BufInv, Buffered, Numbered
    <2>2. CASE k = Len(events) + 1
      BY <1>1, <1>3, <1>4, <2>2
    <2>3. QED
      BY <1>3, <2>1, <2>2
  <1>6. Numbered(buf, cut) /\ Len(buf) <= MaxEvents /\ accepted' = cut + Len(buf)
    BY <1>2, <1>3, <1>4, <1>5 DEF Numbered
  <1>7. CASE Full(buf)
    <2>1. flushAsync(buf)
      BY <1>2, <1>7
    <2>2. BufType' /\ BufInv'
      BY <1>2, <1>3, <1>6, <2>1, FlushAsyncInv
    <2>3. Retries'
      BY <1>3, <2>1, FlushAsyncRetries
    <2>4. cut' >= cut
      BY <1>3, <1>4, <2>1 DEF flushAsync
    <2>5. QED
      BY <1>2, <2>2, <2>3, <2>4
  <1>8. CASE ~Full(buf)
    <2>1. events' = buf /\ batches' = batches /\ cut' = cut
      BY <1>2, <1>8
    <2>2. Buffered'
      BY <1>3, <1>4, <1>6, <1>8, <2>1 DEF Buffered, Full, Numbered
    <2>3. Partition' /\ Sizes'
      BY <2>1 DEF BufInv, Partition, Sizes, Gone, BatchIds
    <2>4. Closing' /\ Retries'
      BY <1>2, <2>1 DEF Closing, Retries, GoodRequest
    <2>5. BufType'
      BY <1>2, <1>3, <1>4, <2>1 DEF BufType
    <2>6. QED
      BY <1>2, <1>4, <2>1, <2>2, <2>3, <2>4, <2>5 DEF BufInv
  <1>9. QED
    BY <1>7, <1>8

\* The closing flush hands the buffer over and keeps it till it is sent.
LEMMA HandOverInv ==
    ASSUME BufType, BufInv, Retries, mu = Free, events # <<>>, NEW t \in Closers,
           mu' = t, batches' = Append(batches, NewBatch(events, t)),
           UNCHANGED <<events, accepted, cut>>
    PROVE  BufType' /\ BufInv' /\ Retries'
  <1> DEFINE b == NewBatch(events, t)
  <1>1. b \in Batch /\ b.evs = events
    BY NewBatchType DEF BufType
  <1>2. Retries'
    BY AddBatchRetries DEF BufType
  <1>3. batches' = Append(batches, b)
    OBVIOUS
  <1> HIDE DEF b
  <1>4. /\ batches' \in Seq(Batch)
        /\ Len(batches) \in Nat /\ Len(batches') = Len(batches) + 1
        /\ \A i \in 1..Len(batches) : batches'[i] = batches[i]
        /\ batches'[Len(batches) + 1] = b
    BY <1>1, <1>3, AddBatch DEF BufType
  <1>5. t # Free /\ Gone = Len(batches) /\ Gone' = Len(batches)
    BY <1>4, LoggerAssumption DEF Gone
  <1>6. \A i \in 1..Len(batches) : Ids(batches'[i].evs) = Ids(batches[i].evs)
    BY <1>4
  <1>7. Partition'
    BY <1>5, <1>6 DEF BufInv, Partition, BatchIds
  <1>8. Len(events) \in 1..MaxEvents
    <2>1. Len(events) \in Nat /\ Len(events) # 0 /\ Len(events) < MaxEvents /\ MaxEvents \in Nat
      BY LoggerAssumption DEF BufType, BufInv, Buffered
    <2>2. QED
      BY <2>1
  <1>9. Sizes'
    BY <1>1, <1>4, <1>8 DEF BufInv, Sizes
  <1>10. Closing'
    BY <1>1, <1>4 DEF Closing
  <1>11. Buffered'
    BY DEF BufInv, Buffered, Numbered
  <1>12. BufType'
    BY <1>4 DEF BufType
  <1>13. QED
    BY <1>2, <1>7, <1>9, <1>10, <1>11, <1>12 DEF BufInv

\* The batch is sent: what was the buffer has left it.
LEMMA SentInv ==
    ASSUME BufType, BufInv, Retries, mu # Free, mu' = Free,
           events' = <<>>, cut' = cut + Len(events), UNCHANGED <<batches, accepted>>
    PROVE  BufType' /\ BufInv' /\ Retries' /\ cut' = accepted
  <1> DEFINE last == Len(batches)
  <1>1. /\ last \in Nat /\ last >= 1 /\ batches[last].evs = events
        /\ Len(events) \in Nat /\ cut \in Nat /\ MaxEvents \in Nat \ {0}
        /\ accepted = cut + Len(events)
    BY LoggerAssumption DEF BufType, BufInv, Closing, Buffered
  <1>2. Gone = last - 1 /\ Gone' = last
    BY DEF Gone
  <1>3. Ids(batches[last].evs) = (cut + 1)..accepted
    BY <1>1, BufferInterval DEF BufInv, BufferIds
  <1> HIDE DEF last
  <1>4. \A i \in 1..(last - 1) : Ids(batches[i].evs) \subseteq 1..cut
    BY <1>2 DEF BufInv, Partition, BatchIds
  <1>5. ASSUME NEW n \in 1..cut' PROVE \E i \in 1..last : n \in Ids(batches[i].evs)
    <2>1. CASE n \in 1..cut
      <3>1. PICK i \in 1..(last - 1) : n \in Ids(batches[i].evs)
        BY <1>2, <2>1 DEF BufInv, Partition, BatchIds
      <3>2. QED
        BY <1>1, <3>1
    <2>2. CASE n \in (cut + 1)..accepted
      <3>1. last \in 1..last /\ n \in Ids(batches[last].evs)
        BY <1>1, <1>3, <2>2
      <3>2. QED
        BY <3>1
    <2>3. QED
      BY <1>1, <2>1, <2>2
  <1>6. ASSUME NEW i \in 1..last PROVE Ids(batches[i].evs) \subseteq 1..cut'
    <2>1. CASE i = last
      <3>1. Ids(batches[i].evs) = (cut + 1)..accepted
        BY <1>3, <2>1
      <3>2. QED
        BY <1>1, <3>1
    <2>2. CASE i \in 1..(last - 1)
      <3>1. Ids(batches[i].evs) \subseteq 1..cut
        BY <1>4, <2>2
      <3>2. 1..cut \subseteq 1..cut'
        BY <1>1
      <3>3. QED
        BY <3>1, <3>2
    <2>3. QED
      BY <1>1, <2>1, <2>2
  <1>7. ASSUME NEW i \in 1..last, NEW j \in 1..last, i # j
        PROVE  Ids(batches[i].evs) \cap Ids(batches[j].evs) = {}
    <2>1. CASE i \in 1..(last - 1) /\ j \in 1..(last - 1)
      BY <1>2, <1>7, <2>1 DEF BufInv, Partition, BatchIds
    <2>2. CASE i = last /\ j \in 1..(last - 1)
      <3>1. Ids(batches[i].evs) = (cut + 1)..accepted /\ Ids(batches[j].evs) \subseteq 1..cut
        BY <1>3, <1>4, <2>2
      <3>2. QED
        BY <1>1, <3>1
    <2>3. CASE j = last /\ i \in 1..(last - 1)
      <3>1. Ids(batches[j].evs) = (cut + 1)..accepted /\ Ids(batches[i].evs) \subseteq 1..cut
        BY <1>3, <1>4, <2>3
      <3>2. QED
        BY <1>1, <3>1
    <2>4. QED
      BY <1>1, <1>7, <2>1, <2>2, <2>3
  <1>8. Partition'
    BY <1>2, <1>5, <1>6, <1>7 DEF Partition, BatchIds
  <1>9. Sizes' /\ Retries' /\ Closing'
    BY DEF BufInv, Sizes, Retries, GoodRequest, Closing
  <1>10. Buffered'
    BY <1>1 DEF Buffered, Numbered
  <1>11. BufType'
    BY <1>1 DEF BufType
  <1>12. QED
    BY <1>1, <1>8, <1>9, <1>10, <1>11 DEF BufInv

\* A step of a request leaves the events of its batch alone.
LEMMA RequestInv ==
    ASSUME BufType, BufInv, Retries, NEW i \in 1..Len(batches),
           NEW r \in Requests, GoodRequest(r),
           batches' = [batches EXCEPT ![i] = [@ EXCEPT !.req = r]],
           UNCHANGED <<events, mu, accepted, cut>>
    PROVE  BufType' /\ BufInv' /\ Retries'
  <1> DEFINE b == [batches[i] EXCEPT !.req = r]
  <1>1. batches[i] \in Batch
    BY DEF BufType
  <1>2. b \in Batch /\ b.evs = batches[i].evs /\ b.req = r
    BY <1>1 DEF Batch
  <1>3. batches' = [batches EXCEPT ![i] = b]
    OBVIOUS
  <1> HIDE DEF b
  <1>4. /\ batches' \in Seq(Batch) /\ Len(batches') = Len(batches)
        /\ batches'[i] = b
        /\ \A j \in 1..Len(batches) : j # i => batches'[j] = batches[j]
    BY <1>2, <1>3, SMTT(30) DEF BufType
  <1>5. \A j \in 1..Len(batches) : batches'[j].evs = batches[j].evs
    BY <1>2, <1>4
  <1>6. Len(batches) \in Nat /\ Gone' = Gone /\ Gone <= Len(batches) /\ Gone \in Int
    BY <1>4 DEF Gone, BufType
  <1>7. \A j \in 1..Gone : Ids(batches'[j].evs) = Ids(batches[j].evs)
    BY <1>5, <1>6
  <1>8. Partition'
    BY <1>6, <1>7 DEF BufInv, Partition, BatchIds
  <1>9. Sizes'
    BY <1>4, <1>5 DEF BufInv, Sizes
  <1>10. Closing'
    BY <1>4, <1>5, <1>6 DEF BufInv, Closing
  <1>11. Retries'
    <2>1. ASSUME NEW j \in 1..Len(batches) PROVE GoodRequest(batches'[j].req)
      <3>1. CASE j = i
        BY <1>2, <1>4, <3>1
      <3>2. CASE j # i
        <4>1. batches'[j] = batches[j] /\ GoodRequest(batches[j].req)
          BY <1>4, <3>2 DEF Retries
        <4>2. QED
          BY <4>1
      <3>3. QED
        BY <3>1, <3>2
    <2>2. QED
      BY <1>4, <2>1 DEF Retries, GoodRequest
  <1>12. Buffered' /\ BufType'
    BY <1>4 DEF BufInv, Buffered, Numbered, BufType
  <1>13. QED
    BY <1>8, <1>9, <1>10, <1>11, <1>12 DEF BufInv

\* Nothing that l.mu guards changes.
LEMMA BufferFrame ==
    ASSUME BufType, BufInv, Retries, UNCHANGED bufferVars
    PROVE  BufType' /\ BufInv' /\ Retries'
  BY DEF bufferVars, BufType, BufInv, Buffered, Numbered, Partition, Gone, BatchIds, Sizes, Closing,
         Retries, GoodRequest

-----------------------------------------------------------------------------
(***************************************************************************)
(* Requests: the number of tries and the retries left.                     *)
(***************************************************************************)
LEMMA StartRequest ==
    ASSUME NEW r \in Requests, GoodRequest(r), r.state = "new", NEW l, NEW m
    PROVE  postRequestInternal(r, l, m) \in Requests /\ GoodRequest(postRequestInternal(r, l, m))
  <1>1. CASE l
    BY <1>1 DEF postRequestInternal, Finish, Requests, GoodRequest
  <1>2. CASE ~l /\ ~m
    BY <1>2 DEF postRequestInternal, Finish, Requests, GoodRequest
  <1>3. CASE ~l /\ m
    BY <1>3 DEF postRequestInternal, Requests, GoodRequest
  <1>4. QED
    BY <1>1, <1>2, <1>3

LEMMA TryType == ASSUME NEW a \in Answers PROVE Try(a).res \in BOOLEAN /\ Try(a).err \in BOOLEAN
  <1>1. a.kind \in {"status", "noResponse", "redirectError"}
        /\ (a.kind = "status" => a.decodes \in BOOLEAN)
    BY DEF Answers
  <1>2. CASE a.kind = "noResponse"
    BY <1>2 DEF Try
  <1>3. CASE a.kind = "redirectError"
    BY <1>3 DEF Try
  <1>4. CASE a.kind = "status" /\ Success(a.code)
    BY <1>1, <1>4 DEF Try
  <1>5. CASE a.kind = "status" /\ ~Success(a.code)
    BY <1>5 DEF Try
  <1>6. QED
    BY <1>1, <1>2, <1>3, <1>4, <1>5

LEMMA AttemptRequest ==
    ASSUME NEW r \in Requests, GoodRequest(r), r.state = "trying", NEW a \in Answers
    PROVE  Attempt(r, a) \in Requests /\ GoodRequest(Attempt(r, a))
  <1>1. r.tries \in Nat /\ r.left \in Nat /\ MaxRetries \in Nat /\ r.tries + r.left = MaxRetries
    BY LoggerAssumption DEF Requests, GoodRequest
  <1>2. Try(a).res \in BOOLEAN /\ Try(a).err \in BOOLEAN
    BY TryType
  <1> DEFINE sent == [r EXCEPT !.tries = @ + 1]
             more == [sent EXCEPT !.left = @ - 1]
             over == Finish(sent, Try(a).res, Try(a).err)
  <1>3. sent \in Requests /\ sent.tries = r.tries + 1 /\ sent.left = r.left
    BY <1>1 DEF Requests
  <1> HIDE DEF sent
  <1>4. CASE Try(a).retry /\ r.left > 0
    <2>1. more \in Requests /\ more.tries = r.tries + 1 /\ more.left = r.left - 1
      BY <1>1, <1>3, <1>4 DEF Requests
    <2>2. Attempt(r, a) = more
      BY <1>4 DEF Attempt, sent
    <2> HIDE DEF more
    <2>3. GoodRequest(more)
      BY <1>1, <1>4, <2>1 DEF GoodRequest
    <2>4. QED
      BY <2>1, <2>2, <2>3
  <1>5. CASE ~(Try(a).retry /\ r.left > 0)
    <2>1. over \in Requests /\ over.tries = r.tries + 1 /\ over.state = "done"
      BY <1>2, <1>3 DEF Finish, Requests
    <2>2. Attempt(r, a) = over
      BY <1>5 DEF Attempt, sent
    <2> HIDE DEF over
    <2>3. GoodRequest(over)
      BY <1>1, <2>1 DEF GoodRequest
    <2>4. QED
      BY <2>1, <2>2, <2>3
  <1>6. QED
    BY <1>4, <1>5

-----------------------------------------------------------------------------
(***************************************************************************)
(* Threads and diagnostics.                                                *)
(***************************************************************************)
ThreadType ==
    /\ ticker \in [on : BOOLEAN, pending : BOOLEAN]
    /\ pc \in [Threads -> PCs]
    /\ call \in [Callers -> Keys \cup {NoKey}]
    /\ ctx \in [Flushers -> Contexts]
    /\ snapshot \in [Flushers -> SUBSET Marker]
    /\ calledAt \in [Closers -> Nat]
    /\ excused \subseteq Nat

LEMMA TypeSplit == TypeOK <=> BufType /\ ThreadType /\ DiagTypeOK
  BY DEF TypeOK, LoggerTypeOK, BufType, ThreadType

LEMMA TypeSplitNext == TypeOK' <=> BufType' /\ ThreadType' /\ DiagTypeOK'
  BY DEF TypeOK, LoggerTypeOK, BufType, ThreadType

\* The kinds of threads are disjoint.
LEMMA ThreadSets ==
    /\ Callers \subseteq Threads /\ Closers \subseteq Threads /\ Ticker \in Threads
    /\ Closers \subseteq Flushers /\ Ticker \in Flushers /\ Flushers \subseteq Threads
    /\ \A t \in Flushers : t \notin Callers
    /\ \A t \in Callers : t \notin Closers
    /\ Ticker \notin Closers /\ Free \notin Closers
  BY LoggerAssumption DEF Threads, Flushers

\* A thread that neither starts nor ends a closing flush.
LEMMA Moves ==
    ASSUME IInv, NEW t \in Threads, NEW l \in PCs \ {"sending", "closed"}, Goto(t, l),
           mu' = mu, calledAt' = calledAt,
           accepted' \in Nat, accepted' >= accepted, cut' \in Nat, cut' >= cut
    PROVE  pc' \in [Threads -> PCs] /\ Sending' /\ Drained'
  <1>1. pc \in [Threads -> PCs] /\ calledAt \in [Closers -> Nat] /\ accepted \in Nat /\ cut \in Nat
    BY TypeSplit DEF IInv, BufType, ThreadType
  <1>2. pc' = [pc EXCEPT ![t] = l]
    BY DEF Goto
  <1>3. pc' \in [Threads -> PCs]
    BY <1>1, <1>2
  <1>4. ASSUME NEW u \in Closers, pc'[u] \in {"sending", "closed"} PROVE pc[u] = pc'[u]
    BY <1>1, <1>2, <1>4, ThreadSets
  <1>5. Sending'
    BY <1>4 DEF IInv, Sending
  <1>6. ASSUME NEW u \in Closers
        PROVE  calledAt'[u] <= accepted' /\ (pc'[u] = "closed" => cut' >= calledAt'[u])
    <2>1. calledAt[u] \in Nat /\ calledAt[u] <= accepted
      BY <1>1 DEF IInv, Drained
    <2>2. pc'[u] = "closed" => cut >= calledAt[u]
      BY <1>4 DEF IInv, Drained
    <2>3. QED
      BY <1>1, <2>1, <2>2
  <1>7. QED
    BY <1>3, <1>5, <1>6 DEF Drained

\* A flusher's step tells callers nothing.
LEMMA FlusherMoves ==
    ASSUME IInv, NEW t \in Flushers, NEW l, Goto(t, l), call' = call
    PROVE  CallKeys'
  <1>1. \A u \in Callers : pc'[u] = pc[u]
    BY ThreadSets, TypeSplit DEF Goto, IInv, ThreadType
  <1>2. QED
    BY <1>1 DEF IInv, CallKeys

\* No thread moves and nothing is closed, accepted or cut.
LEMMA NoMoves ==
    ASSUME IInv, UNCHANGED <<pc, call, calledAt, mu, accepted, cut>>
    PROVE  Sending' /\ Drained' /\ CallKeys'
  BY DEF IInv, Sending, Drained, CallKeys

LEMMA MarkInType ==
    ASSUME DiagTypeOK, excused \subseteq Nat, NEW c \in Contexts, NEW k \in Keys, MarkIn(c, k)
    PROVE  DiagTypeOK' /\ excused' \subseteq Nat
  <1>1. marked + 1 \in Nat /\ [id |-> marked + 1, key |-> k] \in Marker
    BY DEF DiagTypeOK, Marker
  <1>2. DiagTypeOK'
    BY <1>1 DEF MarkIn, mark, DiagTypeOK
  <1>3. excused' \subseteq Nat
    BY <1>1 DEF MarkIn
  <1>4. QED
    BY <1>2, <1>3

LEMMA EndContextMoves ==
    ASSUME ThreadType, NEW t \in Flushers, EndContext(t)
    PROVE  /\ ctx' \in [Flushers -> Contexts]
           /\ \E l \in PCs \ {"sending", "closed"} : Goto(t, l)
  <1>1. ctx[t] \in Contexts /\ ctx \in [Flushers -> Contexts]
    BY DEF ThreadType
  <1>2. NextContext[ctx[t]] \in Contexts
    BY <1>1 DEF NextContext, Contexts
  <1>3. ctx' \in [Flushers -> Contexts]
    BY <1>1, <1>2 DEF EndContext
  <1>4. Goto(t, IF ctx[t] = "api_call" THEN "flush" ELSE "serialize")
    BY DEF EndContext
  <1>5. (IF ctx[t] = "api_call" THEN "flush" ELSE "serialize") \in PCs \ {"sending", "closed"}
    BY DEF PCs
  <1>6. QED
    BY <1>3, <1>4, <1>5

-----------------------------------------------------------------------------
(***************************************************************************)
(* One lemma per group of actions.                                         *)
(***************************************************************************)
LEMMA InitIInv == ASSUME Init PROVE IInv
  <1>1. BufType /\ BufInv /\ Retries
    BY LoggerAssumption
       DEF Init, LoggerInit, BufType, BufInv, Buffered, Numbered, Partition, Gone, BatchIds, Sizes,
           Closing, Retries
  <1>2. ThreadType
    BY DEF Init, LoggerInit, ThreadType, PCs, Contexts, NoKey
  <1>3. DiagTypeOK
    BY DEF Init, DiagInit, DiagTypeOK
  <1>4. Sending /\ CallKeys /\ Drained
    BY ThreadSets DEF Init, LoggerInit, Sending, CallKeys, Drained
  <1>5. QED
    BY <1>1, <1>2, <1>3, <1>4, TypeSplit DEF IInv

\* A step that leaves l.mu and what it guards alone.
LEMMA ThreadOnly ==
    ASSUME IInv, UNCHANGED bufferVars, ThreadType', DiagTypeOK', Sending', CallKeys', Drained'
    PROVE  IInv'
  <1>1. BufType' /\ BufInv' /\ Retries'
    BY BufferFrame, TypeSplit DEF IInv
  <1>2. QED
    BY <1>1, TypeSplitNext DEF IInv

LEMMA BufferSteady ==
    ASSUME IInv, UNCHANGED bufferVars
    PROVE  /\ mu' = mu
           /\ accepted' \in Nat /\ accepted' >= accepted
           /\ cut' \in Nat /\ cut' >= cut
  BY TypeSplit DEF IInv, BufType, bufferVars

LEMMA CallerStepInv ==
    ASSUME IInv, NEW t \in Callers, CallerStep(t)
    PROVE  IInv'
  <1>0. /\ BufType /\ ThreadType /\ DiagTypeOK /\ BufInv /\ Retries
        /\ t \in Threads /\ t \notin Closers
        /\ pc \in [Threads -> PCs] /\ call \in [Callers -> Keys \cup {NoKey}]
    BY TypeSplit, ThreadSets DEF IInv, ThreadType
  <1>1. CASE LogEvent(t)
    <2>1. UNCHANGED bufferVars /\ UNCHANGED diagVars /\ Goto(t, "logEvent")
          /\ UNCHANGED <<ticker, calledAt, excused, call, ctx, snapshot>>
      BY <1>1 DEF LogEvent
    <2>2. pc' \in [Threads -> PCs] /\ Sending' /\ Drained'
      BY <1>0, <2>1, BufferSteady, Moves DEF PCs
    <2>3. CallKeys'
      BY <1>0, <2>1 DEF IInv, CallKeys, Goto
    <2>4. ThreadType' /\ DiagTypeOK'
      BY <1>0, <2>1, <2>2 DEF ThreadType, DiagTypeOK, diagVars
    <2>5. QED
      BY <2>1, <2>2, <2>3, <2>4, ThreadOnly
  <1>2. ASSUME NEW k \in Keys, Check(t, k) PROVE IInv'
    <2>1. UNCHANGED bufferVars /\ MarkIn("api_call", k) /\ Goto(t, "exposure")
          /\ call' = [call EXCEPT ![t] = k]
          /\ UNCHANGED <<ticker, calledAt, ctx, snapshot>>
      BY <1>2 DEF Check
    <2>2. pc' \in [Threads -> PCs] /\ Sending' /\ Drained'
      BY <1>0, <2>1, BufferSteady, Moves DEF PCs
    <2>3. CallKeys'
      BY <1>0, <2>1 DEF IInv, CallKeys, Goto
    <2>4. DiagTypeOK' /\ excused' \subseteq Nat
      BY <1>0, <2>1, MarkInType DEF ThreadType, Contexts
    <2>5. ThreadType'
      BY <1>0, <2>1, <2>2, <2>4 DEF ThreadType
    <2>6. QED
      BY <2>1, <2>2, <2>3, <2>4, <2>5, ThreadOnly
  <1>3. ASSUME NEW ok \in BOOLEAN, Log(t, ok) PROVE IInv'
    <2> DEFINE l == IF pc[t] = "exposure" THEN "endMark" ELSE "idle"
    <2>1. logInternal(t, {}, ok) /\ mu' = mu /\ UNCHANGED diagVars /\ Goto(t, l)
          /\ UNCHANGED <<ticker, calledAt, excused, call, ctx, snapshot>>
      BY <1>3 DEF Log
    <2>2. BufType' /\ BufInv' /\ Retries' /\ accepted' = accepted + 1 /\ cut' >= cut
      BY <1>0, <2>1, LogInternalInv
    <2>3. l \in PCs \ {"sending", "closed"}
      BY DEF PCs
    <2>4. CallKeys'
      BY <1>0, <2>1 DEF IInv, CallKeys, Goto
    <2> HIDE DEF l
    <2>5. accepted' \in Nat /\ accepted' >= accepted /\ cut' \in Nat
      BY <1>0, <2>2 DEF BufType
    <2>6. pc' \in [Threads -> PCs] /\ Sending' /\ Drained'
      BY <1>0, <2>1, <2>2, <2>3, <2>5, Moves
    <2>7. ThreadType' /\ DiagTypeOK'
      BY <1>0, <2>1, <2>6 DEF ThreadType, DiagTypeOK, diagVars
    <2>8. QED
      BY <2>2, <2>4, <2>6, <2>7, TypeSplitNext DEF IInv
  <1>4. CASE SkipLog(t)
    <2>1. UNCHANGED bufferVars /\ UNCHANGED diagVars /\ pc[t] = "exposure" /\ Goto(t, "endMark")
          /\ UNCHANGED <<ticker, calledAt, excused, call, ctx, snapshot>>
      BY <1>4 DEF SkipLog
    <2>2. pc' \in [Threads -> PCs] /\ Sending' /\ Drained'
      BY <1>0, <2>1, BufferSteady, Moves DEF PCs
    <2>3. CallKeys'
      BY <1>0, <2>1 DEF IInv, CallKeys, Goto
    <2>4. ThreadType' /\ DiagTypeOK'
      BY <1>0, <2>1, <2>2 DEF ThreadType, DiagTypeOK, diagVars
    <2>5. QED
      BY <2>1, <2>2, <2>3, <2>4, ThreadOnly
  <1>5. CASE EndMark(t)
    <2>1. UNCHANGED bufferVars /\ MarkIn("api_call", call[t]) /\ Goto(t, "idle")
          /\ call' = [call EXCEPT ![t] = NoKey] /\ pc[t] = "endMark"
          /\ UNCHANGED <<ticker, calledAt, ctx, snapshot>>
      BY <1>5 DEF EndMark
    <2>2. pc' \in [Threads -> PCs] /\ Sending' /\ Drained'
      BY <1>0, <2>1, BufferSteady, Moves DEF PCs
    <2>3. CallKeys'
      BY <1>0, <2>1 DEF IInv, CallKeys, Goto
    <2>4. call[t] \in Keys
      BY <2>1 DEF IInv, CallKeys
    <2>5. DiagTypeOK' /\ excused' \subseteq Nat
      BY <1>0, <2>1, <2>4, MarkInType DEF ThreadType, Contexts
    <2>6. ThreadType'
      BY <1>0, <2>1, <2>2, <2>5 DEF ThreadType
    <2>7. QED
      BY <2>1, <2>2, <2>3, <2>5, <2>6, ThreadOnly
  <1>6. QED
    BY <1>1, <1>2, <1>3, <1>4, <1>5 DEF CallerStep, CallStep

LEMMA FlusherStepInv ==
    ASSUME IInv, NEW t \in Flushers, FlusherStep(t)
    PROVE  IInv'
  <1>0. /\ BufType /\ ThreadType /\ DiagTypeOK /\ BufInv /\ Retries
        /\ t \in Threads /\ ctx[t] \in Contexts /\ snapshot[t] \in SUBSET Marker
        /\ markers[ctx[t]] \in SUBSET Marker
    BY TypeSplit, ThreadSets DEF IInv, ThreadType, DiagTypeOK
  <1>1. ASSUME NEW S, Serialize(t, S) PROVE IInv'
    <2> DEFINE ms == serializeWithSampling(ctx[t], S)
    <2>1. UNCHANGED bufferVars /\ UNCHANGED diagVars /\ UNCHANGED <<ticker, calledAt, call>>
      BY <1>1 DEF Serialize
    <2>2. CASE EndContext(t) /\ UNCHANGED <<snapshot, excused>>
      <3>1. PICK l \in PCs \ {"sending", "closed"} : Goto(t, l)
        BY <1>0, <2>2, EndContextMoves
      <3>2. pc' \in [Threads -> PCs] /\ Sending' /\ Drained'
        BY <1>0, <2>1, <3>1, BufferSteady, Moves
      <3>3. CallKeys'
        BY <2>1, <3>1, FlusherMoves
      <3>4. ctx' \in [Flushers -> Contexts]
        BY <1>0, <2>2, EndContextMoves
      <3>5. ThreadType' /\ DiagTypeOK'
        BY <1>0, <2>1, <2>2, <3>2, <3>4 DEF ThreadType, DiagTypeOK, diagVars
      <3>6. QED
        BY <2>1, <3>2, <3>3, <3>5, ThreadOnly
    <2>3. CASE /\ snapshot' = [snapshot EXCEPT ![t] = ms]
               /\ excused' = excused \cup {m.id : m \in markers[ctx[t]] \ ms}
               /\ Goto(t, "clear")
               /\ UNCHANGED ctx
      <3>1. pc' \in [Threads -> PCs] /\ Sending' /\ Drained'
        BY <1>0, <2>1, <2>3, BufferSteady, Moves DEF PCs
      <3>2. CallKeys'
        BY <2>1, <2>3, FlusherMoves
      <3>3. ms \subseteq Marker
        BY <1>0 DEF serializeWithSampling
      <3>4. \A m \in markers[ctx[t]] : m.id \in Nat
        BY <1>0 DEF Marker
      <3> HIDE DEF ms
      <3>5. snapshot' \in [Flushers -> SUBSET Marker] /\ excused' \subseteq Nat
        BY <1>0, <2>3, <3>3, <3>4 DEF ThreadType
      <3>6. ThreadType' /\ DiagTypeOK'
        BY <1>0, <2>1, <2>3, <3>1, <3>5 DEF ThreadType, DiagTypeOK, diagVars
      <3>7. QED
        BY <2>1, <3>1, <3>2, <3>6, ThreadOnly
    <2>4. QED
      BY <1>1, <2>2, <2>3 DEF Serialize
  <1>2. CASE Clear(t)
    <2>1. UNCHANGED bufferVars /\ clearMarkers(ctx[t]) /\ Goto(t, "logDiag")
          /\ UNCHANGED <<ticker, calledAt, excused, call, ctx, snapshot>>
      BY <1>2 DEF Clear
    <2>2. pc' \in [Threads -> PCs] /\ Sending' /\ Drained'
      BY <1>0, <2>1, BufferSteady, Moves DEF PCs
    <2>3. CallKeys'
      BY <2>1, FlusherMoves
    <2>4. ThreadType' /\ DiagTypeOK'
      BY <1>0, <2>1, <2>2 DEF ThreadType, DiagTypeOK, clearMarkers
    <2>5. QED
      BY <2>1, <2>2, <2>3, <2>4, ThreadOnly
  <1>3. CASE LogDiag(t)
    <2>1. logInternal(t, snapshot[t], TRUE) /\ mu' = mu /\ UNCHANGED diagVars /\ EndContext(t)
          /\ snapshot' = [snapshot EXCEPT ![t] = {}]
          /\ UNCHANGED <<ticker, calledAt, excused, call>>
      BY <1>3 DEF LogDiag
    <2>2. BufType' /\ BufInv' /\ Retries' /\ accepted' = accepted + 1 /\ cut' >= cut
      BY <1>0, <2>1, LogInternalInv
    <2>3. PICK l \in PCs \ {"sending", "closed"} : Goto(t, l)
      BY <1>0, <2>1, EndContextMoves
    <2>4. accepted' \in Nat /\ accepted' >= accepted /\ cut' \in Nat
      BY <1>0, <2>2 DEF BufType
    <2>5. pc' \in [Threads -> PCs] /\ Sending' /\ Drained'
      BY <1>0, <2>1, <2>2, <2>3, <2>4, Moves
    <2>6. CallKeys'
      BY <2>1, <2>3, FlusherMoves
    <2>7. ctx' \in [Flushers -> Contexts]
      BY <1>0, <2>1, EndContextMoves
    <2>8. ThreadType' /\ DiagTypeOK'
      BY <1>0, <2>1, <2>5, <2>7 DEF ThreadType, DiagTypeOK, diagVars
    <2>9. QED
      BY <2>2, <2>5, <2>6, <2>8, TypeSplitNext DEF IInv
  <1>4. QED
    BY <1>1, <1>2, <1>3 DEF FlusherStep

LEMMA TickerStepInv ==
    ASSUME IInv, Tick \/ TickerStep
    PROVE  IInv'
  <1>0. /\ BufType /\ ThreadType /\ DiagTypeOK /\ BufInv /\ Retries
        /\ Ticker \in Threads /\ Ticker \in Flushers
    BY TypeSplit, ThreadSets DEF IInv
  <1>1. CASE Tick
    <2>1. UNCHANGED bufferVars /\ UNCHANGED diagVars /\ UNCHANGED threadVars
          /\ ticker' = [ticker EXCEPT !.pending = TRUE] /\ UNCHANGED <<calledAt, excused>>
      BY <1>1 DEF Tick
    <2>2. Sending' /\ Drained' /\ CallKeys'
      BY <2>1, NoMoves DEF threadVars, bufferVars
    <2>3. ThreadType' /\ DiagTypeOK'
      BY <1>0, <2>1 DEF ThreadType, DiagTypeOK, diagVars, threadVars
    <2>4. QED
      BY <2>1, <2>2, <2>3, ThreadOnly
  <1>2. CASE backgroundFlush
    <2>1. UNCHANGED bufferVars /\ UNCHANGED diagVars /\ Goto(Ticker, "serialize")
          /\ ticker' = [ticker EXCEPT !.pending = FALSE]
          /\ UNCHANGED <<calledAt, excused, call, ctx, snapshot>>
      BY <1>2 DEF backgroundFlush
    <2>2. pc' \in [Threads -> PCs] /\ Sending' /\ Drained'
      BY <1>0, <2>1, BufferSteady, Moves DEF PCs
    <2>3. CallKeys'
      BY <1>0, <2>1, FlusherMoves
    <2>4. ThreadType' /\ DiagTypeOK'
      BY <1>0, <2>1, <2>2 DEF ThreadType, DiagTypeOK, diagVars
    <2>5. QED
      BY <2>1, <2>2, <2>3, <2>4, ThreadOnly
  <1>3. CASE FlushTick
    <2>1. mu = Free /\ mu' = mu /\ flushAsync(events) /\ Goto(Ticker, "idle")
          /\ UNCHANGED <<ticker, calledAt, excused, accepted, call, ctx, snapshot, diagVars>>
      BY <1>3 DEF FlushTick
    <2>2. /\ events \in Seq(Event) /\ Numbered(events, cut) /\ Len(events) <= MaxEvents
          /\ accepted' = cut + Len(events)
      BY <1>0, <2>1, LoggerAssumption DEF BufInv, Buffered, BufType
    <2>3. BufType' /\ BufInv'
      BY <1>0, <2>1, <2>2, FlushAsyncInv
    <2>4. Retries'
      BY <1>0, <2>1, <2>2, FlushAsyncRetries
    <2>5. /\ accepted' \in Nat /\ accepted' >= accepted
          /\ cut' \in Nat /\ cut' >= cut
      BY <1>0, <2>1, <2>3 DEF BufType, flushAsync
    <2>6. pc' \in [Threads -> PCs] /\ Sending' /\ Drained'
      BY <1>0, <2>1, <2>5, Moves DEF PCs
    <2>7. CallKeys'
      BY <1>0, <2>1, FlusherMoves
    <2>8. ThreadType' /\ DiagTypeOK'
      BY <1>0, <2>1, <2>6 DEF ThreadType, DiagTypeOK, diagVars
    <2>9. QED
      BY <2>3, <2>4, <2>6, <2>7, <2>8, TypeSplitNext DEF IInv
  <1>4. CASE FlusherStep(Ticker)
    BY <1>0, <1>4, FlusherStepInv
  <1>5. QED
    BY <1>1, <1>2, <1>3, <1>4 DEF TickerStep

(***************************************************************************)
(* The closing flush.  A closer that finds the buffer empty may return:    *)
(* accepted = cut then, and what it found accepted at the call was less.   *)
(***************************************************************************)
LEMMA ClosingInv ==
    ASSUME IInv, NEW t \in Closers, Shutdown(t) \/ ClosingStep(t)
    PROVE  IInv'
  <1>0. /\ BufType /\ ThreadType /\ DiagTypeOK /\ BufInv /\ Retries
        /\ t \in Threads /\ t \in Flushers /\ t # Free
        /\ pc \in [Threads -> PCs] /\ calledAt \in [Closers -> Nat]
        /\ accepted \in Nat /\ cut \in Nat
        /\ \A u \in Closers : u \in Threads
    BY TypeSplit, ThreadSets DEF IInv, ThreadType, BufType
  <1>1. CASE Shutdown(t)
    <2>1. UNCHANGED bufferVars /\ UNCHANGED diagVars /\ Goto(t, "serialize")
          /\ calledAt' = [calledAt EXCEPT ![t] = accepted]
          /\ UNCHANGED <<ticker, excused, call, ctx, snapshot>>
      BY <1>1 DEF Shutdown
    <2>2. pc' = [pc EXCEPT ![t] = "serialize"] /\ pc' \in [Threads -> PCs]
      BY <1>0, <2>1 DEF Goto, PCs
    <2>3. accepted' = accepted /\ cut' = cut /\ mu' = mu
      BY <2>1 DEF bufferVars
    <2>4. Sending'
      BY <1>0, <2>2, <2>3 DEF IInv, Sending
    <2>5. Drained'
      BY <1>0, <2>1, <2>2, <2>3 DEF IInv, Drained
    <2>6. CallKeys'
      BY <1>0, <2>1, FlusherMoves
    <2>7. ThreadType' /\ DiagTypeOK'
      BY <1>0, <2>1, <2>2 DEF ThreadType, DiagTypeOK, diagVars
    <2>8. QED
      BY <2>1, <2>4, <2>5, <2>6, <2>7, ThreadOnly
  <1>2. CASE FlusherStep(t)
    BY <1>0, <1>2, FlusherStepInv
  <1>3. CASE FlushClosing(t)
    <2>1. mu = Free /\ ticker' = [ticker EXCEPT !.on = FALSE]
          /\ UNCHANGED <<calledAt, excused, events, accepted, cut, call, ctx, snapshot, diagVars>>
      BY <1>3 DEF FlushClosing
    <2>2. CASE events = <<>>
      <3>1. Goto(t, "closed") /\ UNCHANGED bufferVars
        BY <1>3, <2>1, <2>2 DEF FlushClosing, bufferVars
      <3>2. pc' = [pc EXCEPT ![t] = "closed"] /\ pc' \in [Threads -> PCs]
        BY <1>0, <3>1 DEF Goto, PCs
      <3>3. accepted = cut
        BY <1>0, <2>2 DEF BufInv, Buffered
      <3>4. Sending'
        BY <1>0, <3>1, <3>2 DEF IInv, Sending, bufferVars
      <3>5. Drained'
        BY <1>0, <2>1, <3>2, <3>3 DEF IInv, Drained
      <3>6. CallKeys'
        BY <1>0, <2>1, <3>1, FlusherMoves
      <3>7. ThreadType' /\ DiagTypeOK'
        BY <1>0, <2>1, <3>2 DEF ThreadType, DiagTypeOK, diagVars
      <3>8. QED
        BY <3>1, <3>4, <3>5, <3>6, <3>7, ThreadOnly
    <2>3. CASE events # <<>>
      <3>1. mu' = t /\ batches' = Append(batches, NewBatch(events, t)) /\ Goto(t, "sending")
        BY <1>3, <2>3 DEF FlushClosing
      <3>2. BufType' /\ BufInv' /\ Retries'
        BY <1>0, <2>1, <2>3, <3>1, HandOverInv
      <3>3. pc' = [pc EXCEPT ![t] = "sending"] /\ pc' \in [Threads -> PCs]
        BY <1>0, <3>1 DEF Goto, PCs
      <3>4. \A u \in Closers : pc[u] # "sending"
        BY <2>1, ThreadSets DEF IInv, Sending
      <3>5. Sending'
        BY <1>0, <3>1, <3>3, <3>4 DEF Sending
      <3>6. Drained'
        BY <1>0, <2>1, <3>3 DEF IInv, Drained
      <3>7. CallKeys'
        BY <1>0, <2>1, <3>1, FlusherMoves
      <3>8. ThreadType' /\ DiagTypeOK'
        BY <1>0, <2>1, <3>3 DEF ThreadType, DiagTypeOK, diagVars
      <3>9. QED
        BY <3>2, <3>5, <3>6, <3>7, <3>8, TypeSplitNext DEF IInv
    <2>4. QED
      BY <2>2, <2>3
  <1>4. CASE Sent(t)
    <2>1. events' = <<>> /\ cut' = cut + Len(events) /\ mu' = Free /\ Goto(t, "closed")
          /\ pc[t] = "sending"
          /\ UNCHANGED <<ticker, calledAt, excused, batches, accepted, call, ctx, snapshot, diagVars>>
      BY <1>4 DEF Sent
    <2>2. mu = t /\ mu # Free
      BY <1>0, <2>1 DEF IInv, Sending
    <2>3. BufType' /\ BufInv' /\ Retries' /\ cut' = accepted
      BY <1>0, <2>1, <2>2, SentInv
    <2>4. pc' = [pc EXCEPT ![t] = "closed"] /\ pc' \in [Threads -> PCs]
      BY <1>0, <2>1 DEF Goto, PCs
    <2>5. \A u \in Closers : u # t => pc[u] # "sending"
      BY <2>2 DEF IInv, Sending
    <2>6. Sending'
      BY <1>0, <2>4, <2>5 DEF Sending
    <2>7. Drained'
      BY <1>0, <2>1, <2>3, <2>4 DEF IInv, Drained
    <2>8. CallKeys'
      BY <1>0, <2>1, FlusherMoves
    <2>9. ThreadType' /\ DiagTypeOK'
      BY <1>0, <2>1, <2>4 DEF ThreadType, DiagTypeOK, diagVars
    <2>10. QED
      BY <2>3, <2>6, <2>7, <2>8, <2>9, TypeSplitNext DEF IInv
  <1>5. QED
    BY <1>1, <1>2, <1>3, <1>4 DEF ClosingStep

LEMMA SendStepInv ==
    ASSUME IInv, NEW i \in DOMAIN batches, SendStep(i)
    PROVE  IInv'
  <1>0. /\ BufType /\ ThreadType /\ DiagTypeOK /\ BufInv /\ Retries
        /\ i \in 1..Len(batches) /\ batches[i].req \in Requests /\ GoodRequest(batches[i].req)
    <2>1. BufType /\ ThreadType /\ DiagTypeOK /\ BufInv /\ Retries
      BY TypeSplit DEF IInv
    <2>2. i \in 1..Len(batches) /\ batches[i] \in Batch
      BY <2>1 DEF BufType
    <2>3. QED
      BY <2>1, <2>2 DEF Batch, Retries
  <1>1. ASSUME NEW r \in Requests, GoodRequest(r),
               batches' = [batches EXCEPT ![i] = [@ EXCEPT !.req = r]],
               UNCHANGED <<ticker, calledAt, excused, threadVars, diagVars>>,
               UNCHANGED <<events, mu, accepted, cut>>
        PROVE  IInv'
    <2>1. BufType' /\ BufInv' /\ Retries'
      BY <1>0, <1>1, RequestInv
    <2>2. Sending' /\ Drained' /\ CallKeys'
      BY <1>1, NoMoves DEF threadVars
    <2>3. ThreadType' /\ DiagTypeOK'
      BY <1>0, <1>1 DEF ThreadType, DiagTypeOK, diagVars, threadVars
    <2>4. QED
      BY <2>1, <2>2, <2>3, TypeSplitNext DEF IInv
  <1>2. CASE StartSend(i)
    <2> DEFINE m == \A k \in DOMAIN batches[i].evs : batches[i].evs[k].marshals
               r == postRequestInternal(batches[i].req, LocalMode, m)
    <2>1. batches[i].req.state = "new" /\ batches' = [batches EXCEPT ![i] = [@ EXCEPT !.req = r]]
          /\ UNCHANGED <<ticker, calledAt, excused, threadVars, diagVars>>
          /\ UNCHANGED <<events, mu, accepted, cut>>
      BY <1>2 DEF StartSend
    <2>2. r \in Requests /\ GoodRequest(r)
      <3> HIDE DEF m
      <3>1. QED
        BY <1>0, <2>1, StartRequest
    <2> HIDE DEF r
    <2>3. QED
      BY <1>1, <2>1, <2>2
  <1>3. ASSUME NEW a \in Answers, TrySend(i, a) PROVE IInv'
    <2> DEFINE r == Attempt(batches[i].req, a)
    <2>1. batches[i].req.state = "trying" /\ batches' = [batches EXCEPT ![i] = [@ EXCEPT !.req = r]]
          /\ UNCHANGED <<ticker, calledAt, excused, threadVars, diagVars>>
          /\ UNCHANGED <<events, mu, accepted, cut>>
      BY <1>3 DEF TrySend
    <2>2. r \in Requests /\ GoodRequest(r)
      BY <1>0, <2>1, AttemptRequest
    <2> HIDE DEF r
    <2>3. QED
      BY <1>1, <2>1, <2>2
  <1>4. QED
    BY <1>2, <1>3 DEF SendStep

LEMMA StoreStepInv ==
    ASSUME IInv, StoreStep
    PROVE  IInv'
  <1>0. BufType /\ ThreadType /\ DiagTypeOK
    BY TypeSplit DEF IInv
  <1>1. ASSUME UNCHANGED <<ticker, calledAt, threadVars, bufferVars>>,
               DiagTypeOK', excused' \subseteq Nat
        PROVE  IInv'
    <2>1. Sending' /\ Drained' /\ CallKeys'
      BY <1>1, NoMoves DEF threadVars, bufferVars
    <2>2. ThreadType'
      BY <1>0, <1>1 DEF ThreadType, threadVars
    <2>3. QED
      BY <1>1, <2>1, <2>2, ThreadOnly
  <1>2. ASSUME NEW c \in Contexts, NEW k \in Keys, StoreMark(c, k) PROVE IInv'
    <2>1. DiagTypeOK' /\ excused' \subseteq Nat
      BY <1>0, <1>2, MarkInType DEF StoreMark, ThreadType
    <2>2. QED
      BY <1>1, <1>2, <2>1 DEF StoreMark
  <1>3. ASSUME NEW c \in Contexts, NEW rates \in [Keys -> Rates \cup {NoRate}],
               StoreRates(c, rates)
        PROVE  IInv'
    <2>1. DiagTypeOK'
      BY <1>0, <1>3 DEF StoreRates, updateSamplingRates, DiagTypeOK
    <2>2. excused' \subseteq Nat
      BY <1>0, <1>3 DEF StoreRates, ThreadType
    <2>3. QED
      BY <1>1, <1>3, <2>1, <2>2 DEF StoreRates
  <1>4. QED
    BY <1>2, <1>3 DEF StoreStep

LEMMA NextIInv == ASSUME IInv, [Next]_vars PROVE IInv'
  <1>1. CASE UNCHANGED vars
    <2>1. /\ BufType /\ ThreadType /\ DiagTypeOK
          /\ UNCHANGED <<ticker, calledAt, excused, threadVars, bufferVars, diagVars>>
      BY <1>1, TypeSplit DEF IInv, vars
    <2>2. Sending' /\ Drained' /\ CallKeys'
      BY <2>1, NoMoves DEF threadVars, bufferVars
    <2>3. ThreadType' /\ DiagTypeOK'
      BY <2>1 DEF ThreadType, DiagTypeOK, threadVars, diagVars
    <2>4. QED
      BY <2>1, <2>2, <2>3, ThreadOnly
  <1>2. QED
    BY <1>1, CallerStepInv, ClosingInv, SendStepInv, TickerStepInv, StoreStepInv DEF Next

-----------------------------------------------------------------------------
(***************************************************************************)
(* The theorems.                                                           *)
(***************************************************************************)
\* The invariant holds throughout.
THEOREM Invariance == Spec => []IInv
  <1>1. Init => IInv
    BY InitIInv
  <1>2. IInv /\ [Next]_vars => IInv'
    BY NextIInv
  <1>3. QED
    BY <1>1, <1>2, PTL DEF Spec

\* Every step of newLogger, logInternal, flush and the senders keeps the types
\* of the logger's and the diagnostics' state.
THEOREM TypeCorrect == Spec => []TypeOK
  <1>1. IInv => TypeOK
    BY DEF IInv
  <1>2. QED
    BY <1>1, Invariance, PTL

(***************************************************************************)
(* NoEventLostOrDoubled: whatever logInternal, the ticker's flush and any  *)
(* number of closing flushes do in whatever order, every accepted event is *)
(* in the buffer or in exactly one batch.                                  *)
(***************************************************************************)
THEOREM NoLossCorrect == Spec => []NoEventLostOrDoubled
  <1>1. IInv => NoEventLostOrDoubled
    <2> SUFFICES ASSUME IInv PROVE NoEventLostOrDoubled
      OBVIOUS
    <2> DEFINE last == Len(batches)
    <2>1. /\ BufType /\ Buffered /\ Partition /\ Closing
          /\ cut \in Nat /\ accepted \in Nat /\ cut <= accepted
          /\ last \in Nat /\ DOMAIN batches = 1..last
      BY TypeSplit DEF IInv, BufInv, BufType, Buffered
    <2>2. BufferIds = (cut + 1)..accepted
      BY <2>1, BufferInterval
    <2> HIDE DEF last
    <2>3. CASE mu = Free
      <3>1. /\ \A n \in 1..cut : \E i \in 1..last : n \in BatchIds(i)
            /\ \A i \in 1..last : BatchIds(i) \subseteq 1..cut
            /\ \A i, j \in 1..last : i # j => BatchIds(i) \cap BatchIds(j) = {}
        BY <2>1, <2>3 DEF Partition, Gone, last
      <3>2. UNION {BatchIds(i) : i \in 1..last} = 1..cut
        BY <3>1
      <3>3. 1..accepted = BufferIds \cup 1..cut
        BY <2>1, <2>2
      <3>4. \A i \in 1..last : BatchIds(i) \cap BufferIds = {}
        <4>1. 1..cut \cap BufferIds = {}
          BY <2>1, <2>2
        <4>2. QED
          BY <3>1, <4>1
      <3>5. QED
        BY <2>1, <3>1, <3>2, <3>3, <3>4 DEF NoEventLostOrDoubled
    <2>4. CASE mu # Free
      <3>1. /\ \A n \in 1..cut : \E i \in 1..(last - 1) : n \in BatchIds(i)
            /\ \A i \in 1..(last - 1) : BatchIds(i) \subseteq 1..cut
            /\ \A i, j \in 1..(last - 1) : i # j => BatchIds(i) \cap BatchIds(j) = {}
        BY <2>1, <2>4 DEF Partition, Gone, last
      <3>2. last >= 1 /\ BatchIds(last) = BufferIds
        BY <2>1, <2>4 DEF Closing, BatchIds, BufferIds, last
      <3>3. 1..last = 1..(last - 1) \cup {last}
        BY <2>1, <3>2
      <3>4. UNION {BatchIds(i) : i \in 1..last} = 1..cut \cup BufferIds
        BY <3>1, <3>2, <3>3
      <3>5. 1..accepted = BufferIds \cup 1..cut
        BY <2>1, <2>2
      <3>6. 1..cut \cap BufferIds = {}
        BY <2>1, <2>2
      <3>7. ASSUME NEW i \in 1..last, NEW j \in 1..last, i # j
            PROVE  BatchIds(i) \cap BatchIds(j) = {}
        BY <3>1, <3>2, <3>3, <3>6, <3>7
      <3>8. QED
        BY <2>1, <2>4, <3>4, <3>5, <3>7 DEF NoEventLostOrDoubled
    <2>5. QED
      BY <2>3, <2>4
  <1>2. QED
    BY <1>1, Invariance, PTL

\* BufferBounded: the buffer is below maxEvents whenever l.mu is free, and no
\* batch is empty or larger than maxEvents.
THEOREM BufferCorrect == Spec => []BufferBounded
  <1>1. IInv => BufferBounded
    <2> SUFFICES ASSUME IInv PROVE BufferBounded
      OBVIOUS
    <2>1. DOMAIN batches = 1..Len(batches)
      BY TypeSplit DEF IInv, BufType
    <2>2. QED
      BY <2>1 DEF IInv, BufInv, Buffered, Sizes, BufferBounded
  <1>2. QED
    BY <1>1, Invariance, PTL

\* RetriesBounded: retry() puts a batch on the wire at most maxRetries + 1
\* times, whatever the answers.
THEOREM RetriesCorrect == Spec => []RetriesBounded
  <1>1. IInv => RetriesBounded
    <2> SUFFICES ASSUME IInv PROVE RetriesBounded
      OBVIOUS
    <2>1. DOMAIN batches = 1..Len(batches)
      BY TypeSplit DEF IInv, BufType
    <2>2. QED
      BY <2>1 DEF IInv, Retries, GoodRequest, RetriesBounded
  <1>2. QED
    BY <1>1, Invariance, PTL

\* Bounded: whatever callers, ticker, Shutdown and server do, the buffer, the
\* batches and the sends of a batch stay bounded.
THEOREM BoundedCorrect == Spec => []Bounded
  <1>1. BufferBounded /\ RetriesBounded => Bounded
    BY DEF Bounded
  <1>2. QED
    BY <1>1, BufferCorrect, RetriesCorrect, PTL

\* ShutdownDrains: when Shutdown returns, every event accepted before the call
\* has left the buffer.
THEOREM DrainCorrect == Spec => []ShutdownDrains
  <1>1. IInv => ShutdownDrains
    BY DEF IInv, Drained, ShutdownDrains
  <1>2. QED
    BY <1>1, Invariance, PTL

-----------------------------------------------------------------------------
(***************************************************************************)
(* The refinement of EventQueue.  What waits is the buffer while l.mu is   *)
(* free; while a closer sends, it has handed the buffer over already.      *)
(***************************************************************************)
Waiting == IF mu = Free THEN Numbers(events) ELSE <<>>

HandedBatch(b) == [evs |-> Numbers(b.evs), over |-> b.req.state = "done"]

Handed == [i \in DOMAIN batches |-> HandedBatch(batches[i])]

LEMMA SequenceIsFunction ==
    ASSUME NEW S, NEW s \in Seq(S) PROVE s = [i \in DOMAIN s |-> s[i]]
  OBVIOUS

LEMMA NumbersAppend ==
    ASSUME NEW evs \in Seq(Event), NEW e \in Event
    PROVE  /\ Numbers(evs) \in Seq(Nat) /\ Len(Numbers(evs)) = Len(evs)
           /\ Numbers(Append(evs, e)) = Append(Numbers(evs), e.id)
  <1>1. \A k \in 1..Len(evs) : evs[k].id \in Nat
    <2>1. \A k \in 1..Len(evs) : evs[k] \in Event
      OBVIOUS
    <2>2. QED
      BY <2>1 DEF Event
  <1>2. Numbers(evs) \in Seq(Nat) /\ Len(Numbers(evs)) = Len(evs)
    BY <1>1 DEF Numbers
  <1>3. DOMAIN Append(evs, e) = 1..(Len(evs) + 1) /\ Len(evs) \in Nat
    OBVIOUS
  <1>4. ASSUME NEW k \in 1..(Len(evs) + 1)
        PROVE  Append(evs, e)[k].id = Append(Numbers(evs), e.id)[k]
    <2>1. CASE k \in 1..Len(evs)
      <3>1. Append(evs, e)[k] = evs[k] /\ Append(Numbers(evs), e.id)[k] = Numbers(evs)[k]
        BY <1>2, <2>1
      <3>2. QED
        BY <2>1, <3>1 DEF Numbers
    <2>2. CASE k = Len(evs) + 1
      BY <1>2, <1>3, <2>2
    <2>3. k \in 1..Len(evs) \/ k = Len(evs) + 1
      BY <1>3
    <2>4. QED
      BY <2>1, <2>2, <2>3
  <1>5. Numbers(Append(evs, e)) = [k \in 1..(Len(evs) + 1) |-> Append(evs, e)[k].id]
    BY <1>3 DEF Numbers
  <1>6. Append(Numbers(evs), e.id) = [k \in 1..(Len(evs) + 1) |-> Append(Numbers(evs), e.id)[k]]
    BY <1>2
  <1>7. Numbers(Append(evs, e)) = Append(Numbers(evs), e.id)
    BY <1>4, <1>5, <1>6
  <1>8. QED
    BY <1>2, <1>7

LEMMA NumbersEmpty ==
    /\ Numbers(<<>>) = <<>>
    /\ \A evs \in Seq(Event) : Numbers(evs) = <<>> => evs = <<>>
  BY DEF Numbers

\* A batch that is cut is a batch that is handed over.
LEMMA HandedAppend ==
    ASSUME batches \in Seq(Batch), NEW b \in Batch, batches' = Append(batches, b)
    PROVE  Handed' = Append(Handed, HandedBatch(b))
  <1>1. /\ Len(batches) \in Nat /\ DOMAIN batches = 1..Len(batches)
        /\ DOMAIN batches' = 1..(Len(batches) + 1)
        /\ \A i \in 1..Len(batches) : batches'[i] = batches[i]
        /\ batches'[Len(batches) + 1] = b
    OBVIOUS
  <1> DEFINE R == {HandedBatch(batches[i]) : i \in DOMAIN batches} \cup {HandedBatch(b)}
             n == Len(batches)
  <1>2. Handed \in Seq(R) /\ Len(Handed) = n /\ HandedBatch(b) \in R
    BY <1>1 DEF Handed
  <1> HIDE DEF R
  <1>3. /\ DOMAIN Append(Handed, HandedBatch(b)) = 1..(n + 1)
        /\ \A i \in 1..n : Append(Handed, HandedBatch(b))[i] = Handed[i]
        /\ Append(Handed, HandedBatch(b))[n + 1] = HandedBatch(b)
    BY <1>1, <1>2
  <1>4. Handed' = [i \in 1..(n + 1) |-> HandedBatch(batches'[i])]
    BY <1>1 DEF Handed, HandedBatch
  <1>5. \A i \in 1..n : Handed[i] = HandedBatch(batches[i])
    BY <1>1 DEF Handed
  <1> HIDE DEF n
  <1>6. ASSUME NEW i \in 1..(n + 1)
        PROVE  HandedBatch(batches'[i]) = Append(Handed, HandedBatch(b))[i]
    <2>1. CASE i \in 1..n
      <3>1. batches'[i] = batches[i]
        BY <1>1, <2>1 DEF n
      <3>2. QED
        BY <1>3, <1>5, <2>1, <3>1
    <2>2. CASE i = n + 1
      BY <1>1, <1>3, <2>2 DEF n
    <2>3. i \in 1..n \/ i = n + 1
      BY <1>1 DEF n
    <2>4. QED
      BY <2>1, <2>2, <2>3
  <1>7. Append(Handed, HandedBatch(b)) = [i \in 1..(n + 1) |-> Append(Handed, HandedBatch(b))[i]]
    <2>1. Append(Handed, HandedBatch(b)) \in Seq(R)
      BY <1>2
    <2>2. QED
      BY <1>3, <2>1, SequenceIsFunction
  <1>8. QED
    BY <1>4, <1>6, <1>7

\* A new batch is not over.
LEMMA HandedNew ==
    ASSUME BufType, NEW evs \in Seq(Event), NEW by \in Closers \cup {Go},
           batches' = Append(batches, NewBatch(evs, by))
    PROVE  Handed' = Append(Handed, [evs |-> Numbers(evs), over |-> FALSE])
  <1>1. NewBatch(evs, by) \in Batch
    BY NewBatchType
  <1>2. Handed' = Append(Handed, HandedBatch(NewBatch(evs, by)))
    BY <1>1, HandedAppend DEF BufType
  <1>3. HandedBatch(NewBatch(evs, by)) = [evs |-> Numbers(evs), over |-> FALSE]
    BY DEF HandedBatch, NewBatch, NewRequest
  <1>4. QED
    BY <1>2, <1>3

\* The abstract actions, in the terms of this module.
LEMMA QueueSteps ==
    /\ (/\ accepted' = accepted + 1
        /\ IF Len(Append(Waiting, accepted + 1)) >= MaxEvents
           THEN /\ Waiting' = <<>>
                /\ Handed' = Append(Handed, [evs  |-> Append(Waiting, accepted + 1),
                                             over |-> FALSE])
           ELSE Waiting' = Append(Waiting, accepted + 1) /\ Handed' = Handed)
          => Queue!Next
    /\ (/\ Waiting # <<>> /\ Waiting' = <<>> /\ accepted' = accepted
        /\ Handed' = Append(Handed, [evs |-> Waiting, over |-> FALSE]))
          => Queue!Next
    /\ \A i \in DOMAIN batches :
          (/\ ~Handed[i].over
           /\ Handed' = [Handed EXCEPT ![i].over = TRUE]
           /\ accepted' = accepted /\ Waiting' = Waiting)
          => Queue!Next
    /\ (accepted' = accepted /\ Waiting' = Waiting /\ Handed' = Handed) => UNCHANGED Queue!queueVars
  BY DEF Queue!Next, Queue!Accept, Queue!Flush, Queue!End, Queue!HandOver, Queue!queueVars,
         Waiting, Handed, HandedBatch

\* flushInternal(false) empties the buffer buf into a batch, if there is one.
LEMMA FlushAsyncHands ==
    ASSUME BufType, NEW buf \in Seq(Event), mu = Free, mu' = mu, flushAsync(buf)
    PROVE  /\ Waiting' = <<>>
           /\ buf = <<>> => Handed' = Handed
           /\ buf # <<>> => Handed' = Append(Handed, [evs |-> Numbers(buf), over |-> FALSE])
  <1>1. Waiting' = <<>>
    BY NumbersEmpty DEF Waiting, flushAsync
  <1>2. CASE buf = <<>>
    BY <1>1, <1>2 DEF flushAsync, Handed, HandedBatch
  <1>3. CASE buf # <<>>
    <2>1. batches' = Append(batches, NewBatch(buf, Go))
      BY <1>3 DEF flushAsync
    <2>2. QED
      BY <1>1, <1>3, <2>1, HandedNew
  <1>4. QED
    BY <1>2, <1>3

LEMMA LogRefines ==
    ASSUME BufType, mu' = mu, NEW t \in Threads, NEW ms \in SUBSET Marker, NEW ok \in BOOLEAN,
           logInternal(t, ms, ok)
    PROVE  Queue!Next
  <1> DEFINE e == [id |-> accepted + 1, markers |-> ms, by |-> t, marshals |-> ok]
             buf == Append(events, e)
  <1>1. e \in Event /\ e.id = accepted + 1 /\ events \in Seq(Event)
    BY DEF Event, BufType
  <1>2. /\ mu = Free
        /\ accepted' = accepted + 1
        /\ IF Full(buf) THEN flushAsync(buf) ELSE events' = buf /\ UNCHANGED <<batches, cut>>
    BY DEF logInternal
  <1> HIDE DEF e
  <1>3. /\ Numbers(buf) = Append(Numbers(events), accepted + 1)
        /\ Numbers(events) \in Seq(Nat) /\ Len(Numbers(events)) = Len(events)
    BY <1>1, NumbersAppend
  <1>4. buf \in Seq(Event) /\ Len(buf) = Len(events) + 1 /\ buf # <<>>
    BY <1>1
  <1> HIDE DEF buf
  <1>5. Waiting = Numbers(events)
    BY <1>2 DEF Waiting
  <1>6. Numbers(buf) = Append(Waiting, accepted + 1) /\ Len(Append(Waiting, accepted + 1)) = Len(buf)
    BY <1>3, <1>4, <1>5 DEF BufType
  <1>7. CASE Full(buf)
    <2>1. Waiting' = <<>> /\ Handed' = Append(Handed, [evs |-> Numbers(buf), over |-> FALSE])
      BY <1>2, <1>4, <1>7, FlushAsyncHands
    <2>2. QED
      BY <1>2, <1>6, <1>7, <2>1, QueueSteps DEF Full
  <1>8. CASE ~Full(buf)
    <2>1. Waiting' = Numbers(buf) /\ Handed' = Handed
      BY <1>2, <1>8 DEF Waiting, Handed, HandedBatch
    <2>2. QED
      BY <1>2, <1>6, <1>8, <2>1, QueueSteps DEF Full
  <1>9. QED
    BY <1>7, <1>8

\* The ticker's flush, of a buffer that may be empty.
LEMMA FlushTickRefines ==
    ASSUME BufType, FlushTick PROVE Queue!Next \/ UNCHANGED Queue!queueVars
  <1>1. mu = Free /\ mu' = mu /\ flushAsync(events) /\ accepted' = accepted /\ events \in Seq(Event)
    BY DEF FlushTick, BufType
  <1>2. Waiting = Numbers(events)
    BY <1>1 DEF Waiting
  <1>3. CASE events = <<>>
    <2>1. Waiting = <<>> /\ Waiting' = <<>> /\ Handed' = Handed
      BY <1>1, <1>2, <1>3, FlushAsyncHands, NumbersEmpty
    <2>2. QED
      BY <1>1, <2>1, QueueSteps
  <1>4. CASE events # <<>>
    <2>1. /\ Waiting # <<>> /\ Waiting' = <<>>
          /\ Handed' = Append(Handed, [evs |-> Waiting, over |-> FALSE])
      BY <1>1, <1>2, <1>4, FlushAsyncHands, NumbersEmpty
    <2>2. QED
      BY <1>1, <2>1, QueueSteps
  <1>5. QED
    BY <1>3, <1>4

\* The closing flush hands its batch over when it takes l.mu.
LEMMA FlushClosingRefines ==
    ASSUME BufType, NEW t \in Closers, FlushClosing(t)
    PROVE  Queue!Next \/ UNCHANGED Queue!queueVars
  <1>1. mu = Free /\ accepted' = accepted /\ events' = events /\ events \in Seq(Event)
    BY DEF FlushClosing, BufType
  <1>2. Waiting = Numbers(events)
    BY <1>1 DEF Waiting
  <1>3. CASE events = <<>>
    <2>1. UNCHANGED <<mu, batches>>
      BY <1>3 DEF FlushClosing
    <2>2. Waiting' = Waiting /\ Handed' = Handed
      BY <1>1, <2>1 DEF Waiting, Handed, HandedBatch
    <2>3. QED
      BY <1>1, <2>2, QueueSteps
  <1>4. CASE events # <<>>
    <2>1. mu' = t /\ batches' = Append(batches, NewBatch(events, t))
      BY <1>4 DEF FlushClosing
    <2>2. Waiting' = <<>> /\ Waiting # <<>>
      BY <1>1, <1>2, <1>4, <2>1, NumbersEmpty, ThreadSets DEF Waiting
    <2>3. Handed' = Append(Handed, [evs |-> Waiting, over |-> FALSE])
      BY <1>1, <1>2, <2>1, HandedNew
    <2>4. QED
      BY <1>1, <2>2, <2>3, QueueSteps
  <1>5. QED
    BY <1>3, <1>4

\* The end of a closing flush is no step of the queue.
LEMMA SentRefines ==
    ASSUME IInv, NEW t \in Closers, Sent(t) PROVE UNCHANGED Queue!queueVars
  <1>1. mu # Free /\ mu' = Free /\ events' = <<>> /\ UNCHANGED <<accepted, batches>>
    BY ThreadSets DEF IInv, Sending, Sent
  <1>2. Waiting' = Waiting /\ Handed' = Handed
    BY <1>1, NumbersEmpty DEF Waiting, Handed, HandedBatch
  <1>3. QED
    BY <1>1, <1>2, QueueSteps

LEMMA OverRecord ==
    ASSUME NEW ns
    PROVE  /\ [[evs |-> ns, over |-> FALSE] EXCEPT !.over = TRUE] = [evs |-> ns, over |-> TRUE]
           /\ ~[evs |-> ns, over |-> FALSE].over
  <1> DEFINE R == [evs : {ns}, over : BOOLEAN]
             h == [evs |-> ns, over |-> FALSE]
             f == [h EXCEPT !.over = TRUE]
             g == [evs |-> ns, over |-> TRUE]
  <1>1. h \in R /\ g \in R /\ g.evs = ns /\ g.over = TRUE
    OBVIOUS
  <1>2. f \in R /\ f.evs = ns /\ f.over = TRUE
    BY <1>1
  <1>3. ~h.over
    OBVIOUS
  <1> HIDE DEF f, g, h
  <1>4. f = g
    BY <1>1, <1>2
  <1>5. QED
    BY <1>3, <1>4 DEF f, g, h

\* A step of the request of batch i ends it, or shows nothing.
LEMMA RequestRefines ==
    ASSUME BufType, NEW i \in 1..Len(batches), NEW r, batches[i].req.state # "done",
           batches' = [batches EXCEPT ![i] = [@ EXCEPT !.req = r]],
           UNCHANGED <<events, mu, accepted>>
    PROVE  Queue!Next \/ UNCHANGED Queue!queueVars
  <1> DEFINE b == [batches[i] EXCEPT !.req = r]
  <1>1. b.evs = batches[i].evs /\ b.req = r
    <2>1. batches[i] \in Batch
      BY DEF BufType
    <2>2. QED
      BY <2>1 DEF Batch
  <1>2. batches' = [batches EXCEPT ![i] = b] /\ DOMAIN batches = 1..Len(batches)
    BY DEF BufType
  <1> HIDE DEF b
  <1>3. Waiting' = Waiting
    BY DEF Waiting
  <1>4. Handed' = [Handed EXCEPT ![i] = HandedBatch(b)]
    <2>1. Handed' = [j \in DOMAIN batches |-> HandedBatch(batches'[j])]
      BY <1>2 DEF Handed, HandedBatch
    <2>2. \A j \in DOMAIN batches : batches'[j] = IF j = i THEN b ELSE batches[j]
      BY <1>2
    <2>3. QED
      BY <1>2, <2>1, <2>2 DEF Handed
  <1>5. /\ Handed[i] = [evs |-> Numbers(batches[i].evs), over |-> FALSE]
        /\ HandedBatch(b) = [evs |-> Numbers(batches[i].evs), over |-> r.state = "done"]
    BY <1>1, <1>2 DEF Handed, HandedBatch
  <1>6. CASE r.state = "done"
    <2>1. HandedBatch(b) = [Handed[i] EXCEPT !.over = TRUE] /\ ~Handed[i].over
      <3>1. HandedBatch(b) = [evs |-> Numbers(batches[i].evs), over |-> TRUE]
        BY <1>1, <1>6 DEF HandedBatch
      <3>2. QED
        BY <1>5, <3>1, OverRecord
    <2>2. Handed' = [Handed EXCEPT ![i].over = TRUE]
      BY <1>4, <2>1
    <2>3. QED
      BY <1>2, <1>3, <2>1, <2>2, QueueSteps
  <1>7. CASE r.state # "done"
    <2>1. HandedBatch(b) = Handed[i]
      BY <1>5, <1>7
    <2>2. Handed' = Handed
      BY <1>2, <1>4, <2>1 DEF Handed
    <2>3. QED
      BY <1>3, <2>2, QueueSteps
  <1>8. QED
    BY <1>6, <1>7

LEMMA SendRefines ==
    ASSUME BufType, NEW i \in DOMAIN batches, SendStep(i)
    PROVE  Queue!Next \/ UNCHANGED Queue!queueVars
  <1>0. i \in 1..Len(batches)
    BY DEF BufType
  <1>1. \E r : /\ batches[i].req.state # "done"
               /\ batches' = [batches EXCEPT ![i] = [@ EXCEPT !.req = r]]
               /\ UNCHANGED <<events, mu, accepted>>
    BY DEF SendStep, StartSend, TrySend
  <1>2. QED
    BY <1>0, <1>1, RequestRefines

\* Nothing the queue sees changes.
LEMMA BufferStutter ==
    ASSUME UNCHANGED bufferVars PROVE UNCHANGED Queue!queueVars
  <1>1. Waiting' = Waiting /\ Handed' = Handed /\ accepted' = accepted
    BY DEF bufferVars, Waiting, Handed, HandedBatch
  <1>2. QED
    BY <1>1, QueueSteps

LEMMA StepRefines ==
    ASSUME IInv, [Next]_vars PROVE [Queue!Next]_Queue!queueVars
  <1>0. BufType /\ ThreadType
    BY TypeSplit DEF IInv
  <1>1. ASSUME NEW t \in Callers, NEW ok \in BOOLEAN, Log(t, ok) PROVE Queue!Next
    BY <1>0, <1>1, LogRefines, ThreadSets DEF Log
  <1>2. ASSUME NEW t \in Flushers, LogDiag(t) PROVE Queue!Next
    BY <1>0, <1>2, LogRefines, ThreadSets DEF LogDiag, ThreadType
  <1>3. CASE UNCHANGED bufferVars
    BY <1>3, BufferStutter
  <1>4. ASSUME NEW t \in Callers, CallerStep(t)
        PROVE  UNCHANGED bufferVars \/ \E ok \in BOOLEAN : Log(t, ok)
    BY <1>4 DEF CallerStep, CallStep, LogEvent, Check, SkipLog, EndMark
  <1>5. ASSUME NEW t \in Flushers, FlusherStep(t)
        PROVE  UNCHANGED bufferVars \/ LogDiag(t)
    BY <1>5 DEF FlusherStep, Serialize, Clear
  <1>6. Tick \/ backgroundFlush \/ StoreStep \/ UNCHANGED vars
        \/ (\E t \in Closers : Shutdown(t)) => UNCHANGED bufferVars
    BY DEF Tick, backgroundFlush, StoreStep, StoreMark, StoreRates, vars, Shutdown
  <1>7. CASE \E t \in Callers : CallerStep(t)
    BY <1>1, <1>3, <1>4, <1>7
  <1>8. CASE \E t \in Closers : Shutdown(t) \/ ClosingStep(t)
    BY <1>0, <1>2, <1>3, <1>5, <1>6, <1>8, FlushClosingRefines, SentRefines, ThreadSets
    DEF ClosingStep
  <1>9. CASE \E i \in DOMAIN batches : SendStep(i)
    BY <1>0, <1>9, SendRefines
  <1>10. CASE Tick \/ TickerStep \/ StoreStep \/ UNCHANGED vars
    BY <1>0, <1>2, <1>3, <1>5, <1>6, <1>10, FlushTickRefines, ThreadSets DEF TickerStep
  <1>11. QED
    BY <1>7, <1>8, <1>9, <1>10 DEF Next

(***************************************************************************)
(* ImplementsQueue: at every interleaving of any number of callers, the    *)
(* ticker, closers and senders, logInternal accepts, a flush hands over    *)
(* all that waits, the end of a request ends its batch, and every other    *)
(* step shows nothing.                                                     *)
(***************************************************************************)
THEOREM RefinesQueue == Spec => ImplementsQueue
  <1>1. Init => Queue!Init
    BY DEF Init, LoggerInit, Queue!Init, Numbers
  <1>2. IInv /\ [Next]_vars => [Queue!Next]_Queue!queueVars
    BY StepRefines
  <1>3. QED
    BY <1>1, <1>2, Invariance, PTL DEF Spec, ImplementsQueue, Queue!Spec

-----------------------------------------------------------------------------
(***************************************************************************)
(* The markers.  A marker is in one context's list at most.  What a        *)
(* flusher holds between serializing and clearing may still be in the list *)
(* it came from, and in no other; once that is cleared, in none, and what  *)
(* the flusher has reported is in none either, so that it cannot serialize *)
(* it again.  A marker that the clear will take away without the flusher   *)
(* holding it is excused.                                                  *)
(***************************************************************************)
AllEvents ==
    UNION ({{events[k] : k \in DOMAIN events}}
           \cup {{batches[i].evs[k] : k \in DOMAIN batches[i].evs} : i \in DOMAIN batches})

Made == \A c \in Contexts : \A m \in markers[c] : m.id <= marked

MadeElsewhere ==
    /\ \A t \in Flushers : \A m \in snapshot[t] : m.id <= marked
    /\ \A e \in AllEvents : \A m \in e.markers : m.id <= marked

OneList == \A c, d \in Contexts : c # d => markers[c] \cap markers[d] = {}

InHand(t) ==
    /\ pc[t] \notin {"clear", "logDiag"} => snapshot[t] = {}
    /\ \A c \in Contexts :
          pc[t] = "logDiag" \/ c # ctx[t] => snapshot[t] \cap markers[c] = {}
    /\ pc[t] = "clear" => \A m \in markers[ctx[t]] : m \in snapshot[t] \/ m.id \in excused

Reported(t) ==
    \A e \in AllEvents : e.by = t =>
        /\ e.markers \cap snapshot[t] = {}
        /\ \A c \in Contexts : e.markers \cap markers[c] = {}

Once(t) ==
    \A e, f \in AllEvents :
        e.by = t /\ f.by = t /\ e.id # f.id => e.markers \cap f.markers = {}

Found(n) ==
    \/ \E c \in Contexts : \E m \in markers[c] : m.id = n
    \/ \E t \in Flushers : \E m \in snapshot[t] : m.id = n
    \/ \E e \in AllEvents : e.by \in Flushers /\ \E m \in e.markers : m.id = n

MarkInv ==
    /\ Made /\ MadeElsewhere /\ OneList
    /\ \A t \in Flushers : InHand(t) /\ Reported(t) /\ Once(t)
    /\ \A n \in (1..marked) \ excused : Found(n)

\* The events of the buffer and those of the batches.
Elems(s) == {s[k] : k \in DOMAIN s}

BatchEvents == UNION {Elems(batches[i].evs) : i \in DOMAIN batches}

LEMMA EventsSplit == AllEvents = Elems(events) \cup BatchEvents
  BY DEF AllEvents, BatchEvents, Elems

LEMMA EventsSplitNext == AllEvents' = Elems(events') \cup BatchEvents'
  BY DEF AllEvents, BatchEvents, Elems

LEMMA ElemsAppend ==
    /\ Elems(<<>>) = {}
    /\ \A s \in Seq(Event), e \in Event : Elems(Append(s, e)) = Elems(s) \cup {e}
  <1>1. Elems(<<>>) = {}
    BY DEF Elems
  <1>2. ASSUME NEW s \in Seq(Event), NEW e \in Event
        PROVE  Elems(Append(s, e)) = Elems(s) \cup {e}
    <2>1. /\ DOMAIN Append(s, e) = 1..(Len(s) + 1) /\ DOMAIN s = 1..Len(s) /\ Len(s) \in Nat
          /\ \A k \in 1..Len(s) : Append(s, e)[k] = s[k]
          /\ Append(s, e)[Len(s) + 1] = e
      OBVIOUS
    <2>2. \A k : k \in 1..(Len(s) + 1) <=> k \in 1..Len(s) \/ k = Len(s) + 1
      BY <2>1
    <2>3. QED
      BY <2>1, <2>2 DEF Elems
  <1>3. QED
    BY <1>1, <1>2

LEMMA BatchEventsAppend ==
    ASSUME BufType, NEW evs \in Seq(Event), NEW by \in Closers \cup {Go},
           batches' = Append(batches, NewBatch(evs, by))
    PROVE  BatchEvents' = BatchEvents \cup Elems(evs)
  <1> DEFINE b == NewBatch(evs, by)
             n == Len(batches)
  <1>1. b \in Batch /\ b.evs = evs
    BY NewBatchType
  <1>2. batches' = Append(batches, b) /\ batches \in Seq(Batch)
    BY DEF BufType
  <1> HIDE DEF b
  <1>3. /\ DOMAIN batches = 1..n /\ DOMAIN batches' = 1..(n + 1) /\ n \in Nat
        /\ \A i \in 1..n : batches'[i] = batches[i]
        /\ batches'[n + 1] = b
    BY <1>1, <1>2
  <1>4. \A i : i \in 1..(n + 1) <=> i \in 1..n \/ i = n + 1
    BY <1>3
  <1> HIDE DEF n
  <1>5. BatchEvents' = UNION {Elems(batches'[i].evs) : i \in 1..(n + 1)}
    BY <1>3 DEF BatchEvents, Elems
  <1>6. BatchEvents = UNION {Elems(batches[i].evs) : i \in 1..n}
    BY <1>3 DEF BatchEvents
  <1>7. ASSUME NEW e
        PROVE  e \in BatchEvents' <=> e \in BatchEvents \/ e \in Elems(evs)
    <2>1. e \in BatchEvents' <=> \E i \in 1..(n + 1) : e \in Elems(batches'[i].evs)
      BY <1>5
    <2>2. e \in BatchEvents <=> \E i \in 1..n : e \in Elems(batches[i].evs)
      BY <1>6
    <2>3. \A i \in 1..n : Elems(batches'[i].evs) = Elems(batches[i].evs)
      BY <1>3
    <2>4. Elems(batches'[n + 1].evs) = Elems(evs)
      BY <1>1, <1>3
    <2>5. QED
      BY <1>4, <2>1, <2>2, <2>3, <2>4
  <1>8. QED
    BY <1>7

LEMMA EventsType ==
    ASSUME BufType PROVE AllEvents \subseteq Event
  <1>1. \A i \in DOMAIN batches : batches[i] \in Batch
    BY DEF BufType
  <1>2. \A i \in DOMAIN batches : batches[i].evs \in Seq(Event)
    BY <1>1 DEF Batch
  <1>3. \A s \in Seq(Event) : Elems(s) \subseteq Event
    BY DEF Elems
  <1>4. BatchEvents \subseteq Event
    BY <1>2, <1>3 DEF BatchEvents
  <1>5. QED
    BY <1>3, <1>4, EventsSplit DEF BufType

\* Flushing what is in the buffer, or is about to be, loses no event.
LEMMA FlushEvents ==
    ASSUME BufType, NEW buf \in Seq(Event), flushAsync(buf)
    PROVE  AllEvents' = Elems(buf) \cup BatchEvents
  <1>1. AllEvents' = BatchEvents'
    BY EventsSplitNext, ElemsAppend DEF flushAsync
  <1>2. CASE buf = <<>>
    BY <1>1, <1>2, ElemsAppend DEF flushAsync, BatchEvents
  <1>3. CASE buf # <<>>
    <2>1. batches' = Append(batches, NewBatch(buf, Go))
      BY <1>3 DEF flushAsync
    <2>2. QED
      BY <1>1, <2>1, BatchEventsAppend
  <1>4. QED
    BY <1>2, <1>3

\* logInternal adds its event to the others.
LEMMA LogEvents ==
    ASSUME BufType, NEW t \in Threads, NEW ms \in SUBSET Marker, NEW ok \in BOOLEAN,
           logInternal(t, ms, ok)
    PROVE  \E e \in Event : /\ e.id = accepted + 1 /\ e.by = t /\ e.markers = ms
                            /\ AllEvents' = AllEvents \cup {e}
  <1> DEFINE e == [id |-> accepted + 1, markers |-> ms, by |-> t, marshals |-> ok]
             buf == Append(events, e)
  <1>1. e \in Event /\ e.id = accepted + 1 /\ e.by = t /\ e.markers = ms /\ events \in Seq(Event)
    BY DEF Event, BufType
  <1>2. IF Full(buf) THEN flushAsync(buf) ELSE events' = buf /\ UNCHANGED <<batches, cut>>
    BY DEF logInternal
  <1> HIDE DEF e
  <1>3. buf \in Seq(Event) /\ Elems(buf) = Elems(events) \cup {e}
    BY <1>1, ElemsAppend
  <1> HIDE DEF buf
  <1>4. CASE Full(buf)
    <2>1. AllEvents' = Elems(buf) \cup BatchEvents
      BY <1>2, <1>3, <1>4, FlushEvents
    <2>2. AllEvents' = AllEvents \cup {e}
      BY <1>3, <2>1, EventsSplit
    <2>3. QED
      BY <1>1, <2>2
  <1>5. CASE ~Full(buf)
    <2>1. events' = buf /\ BatchEvents' = BatchEvents
      BY <1>2, <1>5 DEF BatchEvents
    <2>2. AllEvents' = AllEvents \cup {e}
      BY <1>3, <2>1, EventsSplit, EventsSplitNext
    <2>3. QED
      BY <1>1, <2>2
  <1>6. QED
    BY <1>4, <1>5

LEMMA SameBuffer == ASSUME UNCHANGED bufferVars PROVE AllEvents' = AllEvents
  BY DEF bufferVars, AllEvents

\* The batch of a closing flush is the buffer, before and after it is sent.
LEMMA ClosingEvents ==
    ASSUME IInv, NEW t \in Closers, FlushClosing(t) \/ Sent(t) PROVE AllEvents' = AllEvents
  <1>0. BufType /\ events \in Seq(Event)
    BY TypeSplit DEF IInv, BufType
  <1>1. CASE FlushClosing(t) /\ events = <<>>
    BY <1>1 DEF FlushClosing, AllEvents
  <1>2. CASE FlushClosing(t) /\ events # <<>>
    <2>1. events' = events /\ batches' = Append(batches, NewBatch(events, t))
      BY <1>2 DEF FlushClosing
    <2>2. QED
      BY <1>0, <2>1, BatchEventsAppend, EventsSplit, EventsSplitNext
  <1>3. CASE Sent(t)
    <2>1. events' = <<>> /\ batches' = batches /\ mu # Free
      BY <1>3, ThreadSets DEF Sent, IInv, Sending
    <2>2. Len(batches) \in DOMAIN batches /\ batches[Len(batches)].evs = events
      BY <1>0, <2>1 DEF IInv, BufInv, Closing, BufType
    <2>3. Elems(events) \subseteq BatchEvents
      <3>1. Elems(events) = Elems(batches[Len(batches)].evs)
        BY <2>2
      <3>2. QED
        BY <2>2, <3>1 DEF BatchEvents
    <2>4. Elems(events') = {} /\ BatchEvents' = BatchEvents
      BY <2>1, ElemsAppend DEF BatchEvents
    <2>5. QED
      BY <2>3, <2>4, EventsSplit, EventsSplitNext
  <1>4. QED
    BY <1>1, <1>2, <1>3

\* A request changes no event.
LEMMA SendEvents ==
    ASSUME BufType, NEW i \in DOMAIN batches, SendStep(i) PROVE AllEvents' = AllEvents
  <1>1. PICK r : batches' = [batches EXCEPT ![i] = [@ EXCEPT !.req = r]] /\ events' = events
    BY DEF SendStep, StartSend, TrySend
  <1>2. \A j \in DOMAIN batches : batches[j] \in Batch
    BY DEF BufType
  <1>3. [batches[i] EXCEPT !.req = r].evs = batches[i].evs
    BY <1>2 DEF Batch
  <1>4. DOMAIN batches' = DOMAIN batches /\ \A j \in DOMAIN batches : batches'[j].evs = batches[j].evs
    BY <1>1, <1>2, <1>3
  <1>5. BatchEvents' = BatchEvents
    <2>1. BatchEvents' = UNION {Elems(batches'[j].evs) : j \in DOMAIN batches}
      BY <1>4 DEF BatchEvents, Elems
    <2>2. QED
      BY <1>4, <2>1 DEF BatchEvents
  <1>6. QED
    BY <1>1, <1>5, EventsSplit, EventsSplitNext

-----------------------------------------------------------------------------
\* What the types say of markers.
LEMMA MarkerFacts ==
    ASSUME IInv
    PROVE  /\ marked \in Nat /\ excused \subseteq Nat
           /\ \A c \in Contexts : markers[c] \subseteq Marker
           /\ \A t \in Flushers : snapshot[t] \subseteq Marker /\ ctx[t] \in Contexts
           /\ \A e \in AllEvents : e.markers \subseteq Marker
           /\ \A m \in Marker : m.id \in Nat
  <1>1. BufType /\ ThreadType /\ DiagTypeOK
    BY TypeSplit DEF IInv
  <1>2. \A e \in AllEvents : e \in Event
    BY <1>1, EventsType
  <1>3. QED
    BY <1>1, <1>2 DEF ThreadType, DiagTypeOK, Event, Marker

\* A new marker has a number of its own, and is excused if a flusher is about
\* to clear its context.
LEMMA MarkStep ==
    ASSUME IInv, MarkInv, NEW c \in Contexts, NEW k \in Keys, MarkIn(c, k),
           AllEvents' = AllEvents, UNCHANGED <<snapshot, ctx>>,
           \A t \in Flushers : pc'[t] = pc[t]
    PROVE  MarkInv'
  <1> DEFINE new == [id |-> marked + 1, key |-> k]
  <1>0. /\ marked \in Nat /\ markers \in [Contexts -> SUBSET Marker]
        /\ \A d \in Contexts : \A m \in markers[d] : m.id \in Nat /\ m.id <= marked
        /\ \A t \in Flushers : \A m \in snapshot[t] : m.id \in Nat /\ m.id <= marked
        /\ \A e \in AllEvents : \A m \in e.markers : m.id \in Nat /\ m.id <= marked
    BY MarkerFacts, TypeSplit DEF MarkInv, Made, MadeElsewhere, IInv, DiagTypeOK
  <1>1. /\ new.id = marked + 1
        /\ marked' = marked + 1
        /\ markers' = [markers EXCEPT ![c] = @ \cup {new}]
        /\ excused' = IF \E t \in Flushers : pc[t] = "clear" /\ ctx[t] = c
                      THEN excused \cup {marked + 1} ELSE excused
    BY DEF MarkIn, mark
  <1> HIDE DEF new
  <1>2. /\ \A d \in Contexts : d # c => markers'[d] = markers[d]
        /\ markers'[c] = markers[c] \cup {new}
    BY <1>0, <1>1
  <1>3. /\ \A d \in Contexts : new \notin markers[d]
        /\ \A t \in Flushers : new \notin snapshot[t]
        /\ \A e \in AllEvents : new \notin e.markers
    BY <1>0, <1>1
  <1>4. Made'
    BY <1>0, <1>1, <1>2 DEF Made
  <1>5. MadeElsewhere'
    BY <1>0, <1>1 DEF MadeElsewhere
  <1>6. OneList'
    BY <1>2, <1>3 DEF MarkInv, OneList
  <1>7. ASSUME NEW t \in Flushers PROVE InHand(t)' /\ Reported(t)' /\ Once(t)'
    <2>0. InHand(t) /\ Reported(t) /\ Once(t) /\ pc'[t] = pc[t] /\ ctx[t] \in Contexts
      BY MarkerFacts DEF MarkInv
    <2>1. pc[t] = "clear" => \A m \in markers'[ctx[t]] : m \in snapshot[t] \/ m.id \in excused'
      BY <1>1, <1>2, <2>0 DEF InHand
    <2>2. InHand(t)'
      BY <1>2, <1>3, <2>0, <2>1 DEF InHand
    <2>3. Reported(t)'
      BY <1>2, <1>3, <2>0 DEF Reported
    <2>4. Once(t)'
      BY <2>0 DEF Once
    <2>5. QED
      BY <2>2, <2>3, <2>4
  <1>8. ASSUME NEW n \in (1..marked') \ excused' PROVE Found(n)'
    <2>1. CASE n = marked + 1
      BY <1>1, <1>2, <2>1 DEF Found
    <2>2. CASE n # marked + 1
      <3>1. Found(n)
        BY <1>0, <1>1, <2>2 DEF MarkInv
      <3>2. QED
        BY <1>2, <3>1 DEF Found
    <2>3. QED
      BY <2>1, <2>2
  <1>9. QED
    BY <1>4, <1>5, <1>6, <1>7, <1>8 DEF MarkInv

\* A step that touches no marker; an event that it logs carries none.
LEMMA QuietStep ==
    ASSUME IInv, MarkInv, UNCHANGED <<markers, marked, excused, snapshot, ctx>>,
           \/ AllEvents' = AllEvents
           \/ \E e : e.markers = {} /\ AllEvents' = AllEvents \cup {e},
           \A t \in Flushers : pc'[t] = pc[t] \/ {pc[t], pc'[t]} \cap {"clear", "logDiag"} = {}
    PROVE  MarkInv'
  <1>1. /\ \A e \in AllEvents : e \in AllEvents'
        /\ \A e \in AllEvents' : e \in AllEvents \/ e.markers = {}
    OBVIOUS
  <1>2. Made' /\ MadeElsewhere' /\ OneList'
    BY <1>1 DEF MarkInv, Made, MadeElsewhere, OneList
  <1>3. ASSUME NEW t \in Flushers PROVE InHand(t)' /\ Reported(t)' /\ Once(t)'
    <2>0. InHand(t) /\ Reported(t) /\ Once(t)
      BY DEF MarkInv
    <2>1. InHand(t)'
      BY <2>0 DEF InHand
    <2>2. Reported(t)' /\ Once(t)'
      BY <1>1, <2>0 DEF Reported, Once
    <2>3. QED
      BY <2>1, <2>2
  <1>4. ASSUME NEW n \in (1..marked') \ excused' PROVE Found(n)'
    BY <1>1 DEF MarkInv, Found
  <1>5. QED
    BY <1>2, <1>3, <1>4 DEF MarkInv

\* What a flusher serializes is in the list of its context, so in no other,
\* and it has not reported it before; what sampling withholds is excused.
LEMMA SerializeMarks ==
    ASSUME IInv, MarkInv, NEW t \in Flushers, NEW S, Serialize(t, S)
    PROVE  MarkInv'
  <1> DEFINE ms == serializeWithSampling(ctx[t], S)
             kept == {m.id : m \in markers[ctx[t]] \ ms}
  <1>0. /\ UNCHANGED <<markers, marked>> /\ AllEvents' = AllEvents /\ pc[t] = "serialize"
        /\ ctx[t] \in Contexts /\ ms \subseteq markers[ctx[t]]
        /\ pc \in [Threads -> PCs] /\ t \in Threads
        /\ snapshot \in [Flushers -> SUBSET Marker] /\ ctx \in [Flushers -> Contexts]
    BY SameBuffer, MarkerFacts, ThreadSets, TypeSplit
    DEF Serialize, serializeWithSampling, diagVars, IInv, ThreadType
  <1>1. snapshot[t] = {}
    BY <1>0 DEF MarkInv, InHand
  <1>2. ASSUME NEW u \in Flushers, u # t
        PROVE  pc'[u] = pc[u] /\ snapshot'[u] = snapshot[u] /\ ctx'[u] = ctx[u]
    BY <1>0, <1>2, ThreadSets DEF Serialize, EndContext, Goto
  <1>3. CASE UNCHANGED <<snapshot, excused>> /\ pc'[t] \in {"flush", "serialize"}
    <2>1. Made' /\ MadeElsewhere' /\ OneList'
      BY <1>0, <1>3 DEF MarkInv, Made, MadeElsewhere, OneList
    <2>2. ASSUME NEW u \in Flushers PROVE InHand(u)' /\ Reported(u)' /\ Once(u)'
      <3>0. InHand(u) /\ Reported(u) /\ Once(u)
        BY DEF MarkInv
      <3>1. CASE u = t
        BY <1>0, <1>1, <1>3, <3>0, <3>1 DEF InHand, Reported, Once
      <3>2. CASE u # t
        BY <1>0, <1>2, <1>3, <3>0, <3>2 DEF InHand, Reported, Once
      <3>3. QED
        BY <3>1, <3>2
    <2>3. ASSUME NEW n \in (1..marked') \ excused' PROVE Found(n)'
      BY <1>0, <1>3 DEF MarkInv, Found
    <2>4. QED
      BY <2>1, <2>2, <2>3 DEF MarkInv
  <1>4. CASE /\ snapshot' = [snapshot EXCEPT ![t] = ms] /\ excused' = excused \cup kept
             /\ pc'[t] = "clear" /\ ctx' = ctx
    <2>1. snapshot'[t] = ms
      BY <1>0, <1>4
    <2> HIDE DEF ms
    <2>2. \A m \in markers[ctx[t]] : m \in ms \/ m.id \in excused'
      BY <1>4
    <2> HIDE DEF kept
    <2>3. \A m : m \in excused => m \in excused'
      BY <1>4
    <2>4. \A u \in Flushers : \A m \in snapshot'[u] : m \in snapshot[u] \/ m \in markers[ctx[t]]
      BY <1>0, <1>2, <2>1
    <2>5. Made' /\ MadeElsewhere' /\ OneList'
      BY <1>0, <2>4 DEF MarkInv, Made, MadeElsewhere, OneList
    <2>6. ASSUME NEW u \in Flushers PROVE InHand(u)' /\ Reported(u)' /\ Once(u)'
      <3>0. InHand(u) /\ Reported(u) /\ Once(u)
        BY DEF MarkInv
      <3>1. CASE u = t
        <4>1. \A d \in Contexts : d # ctx[t] => ms \cap markers[d] = {}
          BY <1>0 DEF MarkInv, OneList
        <4>2. InHand(t)'
          BY <1>0, <1>4, <2>1, <2>2, <4>1 DEF InHand
        <4>3. Reported(t)' /\ Once(t)'
          BY <1>0, <2>1, <3>0, <3>1 DEF Reported, Once
        <4>4. QED
          BY <3>1, <4>2, <4>3
      <3>2. CASE u # t
        BY <1>0, <1>2, <2>3, <3>0, <3>2 DEF InHand, Reported, Once
      <3>3. QED
        BY <3>1, <3>2
    <2>7. ASSUME NEW n \in (1..marked') \ excused' PROVE Found(n)'
      <3>1. Found(n)
        BY <1>0, <2>3 DEF MarkInv
      <3>2. \A u \in Flushers : \A m \in snapshot[u] : m \in snapshot'[u]
        BY <1>1, <1>2
      <3>3. QED
        BY <1>0, <3>1, <3>2 DEF Found
    <2>8. QED
      BY <2>5, <2>6, <2>7 DEF MarkInv
  <1>5. QED
    BY <1>0, <1>3, <1>4 DEF Serialize, EndContext, Goto

\* What the clear takes away is in the flusher's hands or excused.
LEMMA ClearMarks ==
    ASSUME IInv, MarkInv, NEW t \in Flushers, Clear(t)
    PROVE  MarkInv'
  <1>0. /\ UNCHANGED <<marked, excused, snapshot, ctx>> /\ AllEvents' = AllEvents
        /\ pc[t] = "clear" /\ pc' = [pc EXCEPT ![t] = "logDiag"]
        /\ markers' = [markers EXCEPT ![ctx[t]] = {}]
        /\ ctx[t] \in Contexts /\ markers \in [Contexts -> SUBSET Marker]
        /\ pc \in [Threads -> PCs] /\ t \in Threads
    BY SameBuffer, MarkerFacts, ThreadSets, TypeSplit
    DEF Clear, clearMarkers, Goto, IInv, ThreadType, DiagTypeOK
  <1>1. /\ pc'[t] = "logDiag"
        /\ \A u \in Flushers : u # t => pc'[u] = pc[u]
        /\ markers'[ctx[t]] = {}
        /\ \A d \in Contexts : d # ctx[t] => markers'[d] = markers[d]
    BY <1>0, ThreadSets
  <1>2. \A d \in Contexts : markers'[d] \subseteq markers[d]
    BY <1>1
  <1>3. Made' /\ MadeElsewhere' /\ OneList'
    BY <1>0, <1>2 DEF MarkInv, Made, MadeElsewhere, OneList
  <1>4. ASSUME NEW u \in Flushers PROVE InHand(u)' /\ Reported(u)' /\ Once(u)'
    <2>0. InHand(u) /\ Reported(u) /\ Once(u) /\ ctx[u] \in Contexts
      BY MarkerFacts DEF MarkInv
    <2>1. Reported(u)' /\ Once(u)'
      BY <1>0, <1>2, <2>0 DEF Reported, Once
    <2>2. CASE u = t
      <3>1. \A d \in Contexts : snapshot[t] \cap markers'[d] = {}
        BY <1>1, <2>0, <2>2 DEF InHand
      <3>2. QED
        BY <1>0, <1>1, <2>1, <2>2, <3>1 DEF InHand
    <2>3. CASE u # t
      BY <1>0, <1>1, <1>2, <2>0, <2>1, <2>3 DEF InHand
    <2>4. QED
      BY <2>2, <2>3
  <1>5. ASSUME NEW n \in (1..marked') \ excused' PROVE Found(n)'
    <2>1. Found(n) /\ n \notin excused
      BY <1>0 DEF MarkInv
    <2>2. CASE \E m \in markers[ctx[t]] : m.id = n
      <3>1. \E m \in snapshot[t] : m.id = n
        BY <1>0, <2>1, <2>2 DEF MarkInv, InHand
      <3>2. QED
        BY <1>0, <3>1 DEF Found
    <2>3. CASE ~\E m \in markers[ctx[t]] : m.id = n
      BY <1>0, <1>1, <2>1, <2>3 DEF Found
    <2>4. QED
      BY <2>2, <2>3
  <1>6. QED
    BY <1>3, <1>4, <1>5 DEF MarkInv

\* What a flusher logs it holds no longer, and nobody's list has it.
LEMMA LogDiagMarks ==
    ASSUME IInv, MarkInv, NEW t \in Flushers, LogDiag(t)
    PROVE  MarkInv'
  <1>0. /\ UNCHANGED <<markers, marked, excused>> /\ pc[t] = "logDiag"
        /\ BufType /\ t \in Threads /\ snapshot[t] \in SUBSET Marker
        /\ logInternal(t, snapshot[t], TRUE)
        /\ snapshot' = [snapshot EXCEPT ![t] = {}]
        /\ pc \in [Threads -> PCs] /\ ctx \in [Flushers -> Contexts]
        /\ snapshot \in [Flushers -> SUBSET Marker]
    BY ThreadSets, TypeSplit DEF LogDiag, diagVars, IInv, ThreadType
  <1>1. PICK e \in Event : /\ e.by = t /\ e.markers = snapshot[t]
                           /\ AllEvents' = AllEvents \cup {e}
    BY <1>0, LogEvents
  <1>2. /\ snapshot'[t] = {} /\ pc'[t] \in {"flush", "serialize"}
        /\ \A u \in Flushers : u # t => /\ pc'[u] = pc[u] /\ ctx'[u] = ctx[u]
                                        /\ snapshot'[u] = snapshot[u]
    BY <1>0, ThreadSets DEF LogDiag, EndContext, Goto
  <1>3. Made' /\ MadeElsewhere' /\ OneList'
    BY <1>0, <1>1, <1>2 DEF MarkInv, Made, MadeElsewhere, OneList
  <1>4. ASSUME NEW u \in Flushers PROVE InHand(u)' /\ Reported(u)' /\ Once(u)'
    <2>0. InHand(u) /\ Reported(u) /\ Once(u)
      BY DEF MarkInv
    <2>1. CASE u = t
      <3>1. \A d \in Contexts : e.markers \cap markers[d] = {}
        BY <1>0, <1>1, <2>0, <2>1 DEF InHand
      <3>2. \A f \in AllEvents : f.by = t => f.markers \cap e.markers = {}
        BY <1>1, <2>0, <2>1 DEF Reported
      <3>3. InHand(t)'
        BY <1>0, <1>2 DEF InHand
      <3>4. Reported(t)'
        BY <1>0, <1>1, <1>2, <2>0, <2>1, <3>1 DEF Reported
      <3>5. Once(t)'
        BY <1>1, <2>0, <2>1, <3>2 DEF Once
      <3>6. QED
        BY <2>1, <3>3, <3>4, <3>5
    <2>2. CASE u # t
      BY <1>0, <1>1, <1>2, <2>0, <2>2 DEF InHand, Reported, Once
    <2>3. QED
      BY <2>1, <2>2
  <1>5. ASSUME NEW n \in (1..marked') \ excused' PROVE Found(n)'
    <2>1. Found(n)
      BY <1>0 DEF MarkInv
    <2>2. e \in AllEvents' /\ e.by \in Flushers /\ \A f \in AllEvents : f \in AllEvents'
      BY <1>1
    <2>3. \A u \in Flushers : \A m \in snapshot[u] : m \in snapshot'[u] \/ m \in e.markers
      BY <1>1, <1>2
    <2>4. QED
      BY <1>0, <2>1, <2>2, <2>3 DEF Found
  <1>6. QED
    BY <1>3, <1>4, <1>5 DEF MarkInv

LEMMA InitMarks == ASSUME Init PROVE MarkInv
  <1>1. AllEvents = {}
    BY DEF Init, LoggerInit, AllEvents
  <1>2. /\ \A c \in Contexts : markers[c] = {}
        /\ \A t \in Flushers : snapshot[t] = {} /\ pc[t] = "idle"
        /\ marked = 0
    BY ThreadSets DEF Init, LoggerInit, DiagInit
  <1>3. QED
    BY <1>1, <1>2 DEF MarkInv, Made, MadeElsewhere, OneList, InHand, Reported, Once

LEMMA NextMarks == ASSUME IInv, MarkInv, [Next]_vars PROVE MarkInv'
  <1>0. BufType /\ ThreadType /\ pc \in [Threads -> PCs] /\ "api_call" \in Contexts
    BY TypeSplit DEF IInv, ThreadType, Contexts
  <1>1. ASSUME NEW t \in Callers, NEW l, Goto(t, l) PROVE \A u \in Flushers : pc'[u] = pc[u]
    BY <1>0, <1>1, ThreadSets DEF Goto
  <1>2. CASE \E t \in Callers : CallerStep(t)
    <2>0. PICK t \in Callers : CallerStep(t)
      BY <1>2
    <2>1. CASE LogEvent(t) \/ SkipLog(t)
      <3>1. /\ UNCHANGED <<markers, marked, excused, snapshot, ctx>> /\ AllEvents' = AllEvents
            /\ \A u \in Flushers : pc'[u] = pc[u]
        BY <1>1, <2>1, SameBuffer DEF LogEvent, SkipLog, diagVars
      <3>2. QED
        BY <3>1, QuietStep
    <2>2. ASSUME NEW ok \in BOOLEAN, Log(t, ok) PROVE MarkInv'
      <3>1. UNCHANGED <<markers, marked, excused, snapshot, ctx>> /\ \A u \in Flushers : pc'[u] = pc[u]
        BY <1>1, <2>2 DEF Log, diagVars
      <3>2. t \in Threads /\ {} \in SUBSET Marker /\ logInternal(t, {}, ok)
        BY <2>2, ThreadSets DEF Log
      <3>3. \E e : e.markers = {} /\ AllEvents' = AllEvents \cup {e}
        BY <1>0, <3>2, LogEvents
      <3>4. QED
        BY <3>1, <3>3, QuietStep
    <2>3. ASSUME NEW k \in Keys, Check(t, k) PROVE MarkInv'
      <3>1. /\ MarkIn("api_call", k) /\ AllEvents' = AllEvents /\ UNCHANGED <<snapshot, ctx>>
            /\ \A u \in Flushers : pc'[u] = pc[u]
        BY <1>1, <2>3, SameBuffer DEF Check
      <3>2. QED
        BY <1>0, <3>1, MarkStep
    <2>4. CASE EndMark(t)
      <3>1. /\ MarkIn("api_call", call[t]) /\ AllEvents' = AllEvents /\ UNCHANGED <<snapshot, ctx>>
            /\ \A u \in Flushers : pc'[u] = pc[u]
        BY <1>1, <2>4, SameBuffer DEF EndMark
      <3>2. call[t] \in Keys
        BY <2>4 DEF EndMark, IInv, CallKeys
      <3>3. QED
        BY <1>0, <3>1, <3>2, MarkStep
    <2>5. QED
      BY <2>0, <2>1, <2>2, <2>3, <2>4 DEF CallerStep, CallStep
  <1>3. ASSUME NEW t \in Flushers, FlusherStep(t) PROVE MarkInv'
    BY <1>3, SerializeMarks, ClearMarks, LogDiagMarks DEF FlusherStep
  <1>4. ASSUME NEW t \in Flushers, NEW l, Goto(t, l), {pc[t], l} \cap {"clear", "logDiag"} = {},
               UNCHANGED <<markers, marked, excused, snapshot, ctx>>, AllEvents' = AllEvents
        PROVE  MarkInv'
    <2>1. \A u \in Flushers : pc'[u] = pc[u] \/ (u = t /\ pc'[u] = l)
      BY <1>0, <1>4, ThreadSets DEF Goto
    <2>2. QED
      BY <1>4, <2>1, QuietStep
  <1>5. CASE \E t \in Closers : Shutdown(t) \/ ClosingStep(t)
    <2>0. PICK t \in Closers : Shutdown(t) \/ ClosingStep(t)
      BY <1>5
    <2>1. CASE Shutdown(t)
      <3>1. AllEvents' = AllEvents
        BY <2>1, SameBuffer DEF Shutdown
      <3>2. QED
        BY <1>4, <2>1, <3>1, ThreadSets DEF Shutdown, diagVars
    <2>2. CASE FlushClosing(t) \/ Sent(t)
      <3>1. AllEvents' = AllEvents
        BY <2>2, ClosingEvents
      <3>2. UNCHANGED <<markers, marked, excused, snapshot, ctx>> /\ pc[t] \in {"flush", "sending"}
        BY <2>2 DEF FlushClosing, Sent, diagVars
      <3>3. Goto(t, "closed") \/ Goto(t, "sending")
        BY <2>2 DEF FlushClosing, Sent
      <3>4. QED
        BY <1>4, <3>1, <3>2, <3>3, ThreadSets
    <2>3. QED
      BY <1>3, <2>0, <2>1, <2>2, ThreadSets DEF ClosingStep
  <1>6. CASE backgroundFlush
    <2>1. AllEvents' = AllEvents
      BY <1>6, SameBuffer DEF backgroundFlush
    <2>2. QED
      BY <1>4, <1>6, <2>1, ThreadSets DEF backgroundFlush, diagVars
  <1>7. CASE FlushTick
    <2>1. AllEvents' = AllEvents
      BY <1>0, <1>7, FlushEvents, EventsSplit DEF FlushTick, BufType
    <2>2. QED
      BY <1>4, <1>7, <2>1, ThreadSets DEF FlushTick, diagVars
  <1>8. ASSUME NEW i \in DOMAIN batches, SendStep(i) PROVE MarkInv'
    <2>1. AllEvents' = AllEvents
      BY <1>0, <1>8, SendEvents
    <2>2. UNCHANGED <<pc, markers, marked, excused, snapshot, ctx>>
      BY <1>8 DEF SendStep, StartSend, TrySend, threadVars, diagVars
    <2>3. QED
      BY <2>1, <2>2, QuietStep
  <1>9. ASSUME NEW c \in Contexts, NEW k \in Keys, StoreMark(c, k) PROVE MarkInv'
    <2>1. MarkIn(c, k) /\ AllEvents' = AllEvents /\ UNCHANGED <<pc, snapshot, ctx>>
      BY <1>9, SameBuffer DEF StoreMark, threadVars
    <2>2. QED
      BY <2>1, MarkStep
  <1>10. CASE \/ \E c \in Contexts : \E rates \in [Keys -> Rates \cup {NoRate}] : StoreRates(c, rates)
              \/ Tick
              \/ UNCHANGED vars
    <2>1. UNCHANGED bufferVars /\ UNCHANGED <<pc, markers, marked, excused, snapshot, ctx>>
      BY <1>10 DEF StoreRates, updateSamplingRates, Tick, vars, threadVars, diagVars
    <2>2. QED
      BY <2>1, SameBuffer, QuietStep
  <1>11. QED
    BY <1>2, <1>3, <1>5, <1>6, <1>7, <1>8, <1>9, <1>10, ThreadSets DEF Next, TickerStep, StoreStep

LEMMA MarksAccounted == ASSUME IInv, MarkInv PROVE MarkersAccounted
  <1>1. \A t : EventsOf(t) = {e \in AllEvents : e.by = t}
    BY DEF EventsOf, AllEvents
  <1>2. MarkerOncePerFlusher
    BY <1>1 DEF MarkerOncePerFlusher, MarkInv, Once
  <1>3. MarkersLostOnlyInRace
    <2> SUFFICES ASSUME NEW n \in (1..marked) \ excused
                 PROVE  \E m \in UNION ({markers[c] : c \in Contexts}
                                       \cup {snapshot[t] : t \in Flushers}
                                       \cup {e.markers : e \in UNION {EventsOf(t) : t \in Flushers}}) :
                            m.id = n
      BY DEF MarkersLostOnlyInRace
    <2>1. Found(n)
      BY DEF MarkInv
    <2>2. ASSUME NEW e \in AllEvents, e.by \in Flushers
          PROVE  e \in UNION {EventsOf(t) : t \in Flushers}
      BY <1>1, <2>2
    <2>3. QED
      BY <2>1, <2>2 DEF Found
  <1>4. QED
    BY <1>2, <1>3 DEF MarkersAccounted

(***************************************************************************)
(* MarkersAccounted: for any keys, any sampling rates and any              *)
(* number of concurrent flushes, no flusher reports a marker twice, and a  *)
(* marker is lost only to sampling or to the race between a serialize and  *)
(* its clear.                                                              *)
(***************************************************************************)
THEOREM MarkersCorrect == Spec => []MarkersAccounted
  <1>1. Init => MarkInv
    BY InitMarks
  <1>2. IInv /\ MarkInv /\ [Next]_vars => MarkInv'
    BY NextMarks
  <1>3. IInv /\ MarkInv => MarkersAccounted
    BY MarksAccounted
  <1>4. QED
    BY <1>1, <1>2, <1>3, Invariance, PTL DEF Spec
=============================================================================
