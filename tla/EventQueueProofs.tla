-------------------------- MODULE EventQueueProofs --------------------------
(***************************************************************************)
(* Every method of the event queue maps a well-typed queue whose channels  *)
(* respect the cap to another one.  And every method says where it puts    *)
(* the events it moves: a channel whose queue, withheld steers and         *)
(* cancelled batch hold no event twice stays so, and an event only leaves  *)
(* it as part of a batch, knowingly, or shed with a warning.               *)
(***************************************************************************)
EXTENDS EventQueue, SequenceTheorems, WellFoundedInduction, TLAPS

\* A well-formed queue: of the right type and within the cap everywhere.
GoodQueue(q) ==
    /\ q \in QueueState
    /\ \A c \in Channels : Len(q.queues[c]) <= MaxPending

\* The least element of a non-empty set of naturals belongs to it.
LEMMA MinIn ==
    ASSUME NEW S \in SUBSET Nat, S # {}
    PROVE  Min(S) \in S
<1> DEFINE R == OpToRel(<, Nat)
<1>1. IsWellFoundedOn(R, Nat)
  BY NatLessThanWellFounded
<1>2. \A x, y \in Nat : x < y => <<x, y>> \in R
  BY DEF OpToRel
<1> HIDE DEF R
<1>3. PICK x \in S : \A y \in S : ~(<<y, x>> \in R)
  BY <1>1, WFMin, Zenon
<1>4. ASSUME NEW y \in S PROVE x <= y
  <2>1. x \in Nat /\ y \in Nat
    OBVIOUS
  <2>2. ~(y < x)
    BY <1>2, <1>3, <2>1, Zenon
  <2> QED
    BY <2>1, <2>2
<1> QED
  BY <1>4 DEF Min

\* A segment of a sequence of events.
LEMMA SegmentType ==
    ASSUME NEW S, NEW s \in Seq(S), NEW m \in Int, NEW n \in Int,
           1 <= m, n <= Len(s)
    PROVE  /\ SubSeq(s, m, n) \in Seq(S)
           /\ Len(SubSeq(s, m, n)) = IF m <= n THEN n - m + 1 ELSE 0
<1>1. \A i \in m .. n : s[i] \in S
  BY ElementOfSeq
<1> QED
  BY <1>1, SubSeqProperties

\* Trimming keeps a sequence of events within the cap.
LEMMA TrimType ==
    ASSUME NEW s \in Seq(Events)
    PROVE  /\ Trim(s) \in Seq(Events) /\ Len(Trim(s)) <= MaxPending
           /\ Excess(s) \in SUBSET Events
<1>1. /\ Least(Len(s), MaxPending) \in Nat
      /\ Least(Len(s), MaxPending) <= Len(s)
      /\ Least(Len(s), MaxPending) <= MaxPending
  BY QueueAssumption, LenProperties DEF Least
<1>2. /\ Trim(s) \in Seq(Events)
      /\ Len(Trim(s)) <= MaxPending
  BY <1>1, SegmentType, QueueAssumption DEF Trim
<1>3. Excess(s) \in SUBSET Events
  BY ElementOfSeq DEF Excess
<1> QED
  BY <1>2, <1>3

\* Removing an event from a sequence does not make it longer.
LEMMA RemoveFirstType ==
    ASSUME NEW s \in Seq(Events), NEW e
    PROVE  /\ RemoveFirst(s, e) \in Seq(Events)
           /\ Len(RemoveFirst(s, e)) <= Len(s)
<1> DEFINE I == {i \in 1..Len(s) : s[i] = e}
<1>1. CASE I = {}
  <2>1. RemoveFirst(s, e) = s
    BY <1>1 DEF RemoveFirst
  <2> QED
    BY <2>1, LenProperties
<1>2. CASE I # {}
  <2> DEFINE k == SelectInSeq(s, LAMBDA v : v = e)
  <2>1. k = Min(I)
    BY <1>2 DEF SelectInSeq
  <2>2. I \in SUBSET Nat
    BY LenProperties
  <2>3. k \in I
    BY <1>2, <2>1, <2>2, MinIn
  <2>4. k \in 1..Len(s)
    BY <2>3
  <2>5. RemoveFirst(s, e) = SubSeq(s, 1, k - 1) \o SubSeq(s, k + 1, Len(s))
    BY <1>2 DEF RemoveFirst, RemoveAt
  <2> HIDE DEF k
  <2>6. /\ SubSeq(s, 1, k - 1) \in Seq(Events)
        /\ Len(SubSeq(s, 1, k - 1)) = k - 1
    BY <2>4, SegmentType, LenProperties
  <2>7. /\ SubSeq(s, k + 1, Len(s)) \in Seq(Events)
        /\ Len(SubSeq(s, k + 1, Len(s))) = Len(s) - k
    BY <2>4, SegmentType, LenProperties
  <2>8. /\ RemoveFirst(s, e) \in Seq(Events)
        /\ Len(RemoveFirst(s, e)) = (k - 1) + (Len(s) - k)
    BY <2>5, <2>6, <2>7, ConcatProperties
  <2> QED
    BY <2>4, <2>8, LenProperties
<1> QED
  BY <1>1, <1>2

\* A new queue is well formed.
LEMMA NewQueueGood == GoodQueue(NewQueue)
BY QueueAssumption, EmptySeq DEF GoodQueue, QueueState, NewQueue, Instant, NoReason

\* Handing events back to the front of a channel keeps the cap.
LEMMA PushFrontGood ==
    ASSUME NEW q, GoodQueue(q), NEW c \in Channels, NEW s \in Seq(Events)
    PROVE  GoodQueue(PushFront(q, c, s))
<1>1. q.queues[c] \in Seq(Events)
  BY DEF GoodQueue, QueueState
<1>2. s \o q.queues[c] \in Seq(Events)
  BY <1>1, ConcatProperties
<1> QED
  BY <1>2, TrimType DEF GoodQueue, QueueState, PushFront

\* push drops the oldest event of a full queue first.
LEMMA PushGood ==
    ASSUME NEW q, GoodQueue(q), NEW c \in Channels, NEW e \in Events
    PROVE  GoodQueue(Push(q, c, e))
<1> DEFINE s == q.queues[c]
           full == Len(s) >= MaxPending
           room == IF full THEN Tail(s) ELSE s
<1>1. s \in Seq(Events) /\ Len(s) \in Nat /\ Len(s) <= MaxPending
  BY LenProperties DEF GoodQueue, QueueState
<1>2. /\ room \in Seq(Events)
      /\ Len(room) + 1 <= MaxPending
      /\ full => Head(s) \in Events
  <2>1. CASE full
    <3>1. s # <<>>
      BY <2>1, <1>1, QueueAssumption, EmptySeq
    <3> QED
      BY <2>1, <3>1, <1>1, HeadTailProperties, QueueAssumption
  <2>2. CASE ~full
    BY <2>2, <1>1, QueueAssumption
  <2> QED
    BY <2>1, <2>2
<1> DEFINE d == IF full THEN q.dropped \cup {Head(s)} ELSE q.dropped
           n == Append(room, e)
           qs == [q.queues EXCEPT ![c] = n]
<1>3. n \in Seq(Events) /\ Len(n) <= MaxPending
  BY <1>2, AppendProperties
<1>4. d \in SUBSET Events
  BY <1>2 DEF GoodQueue, QueueState
<1>5. Push(q, c, e) = [q EXCEPT !.queues = qs, !.dropped = d]
  BY DEF Push
<1> HIDE DEF d, n
<1>6. /\ qs \in [Channels -> Seq(Events)]
      /\ \A x \in Channels : Len(qs[x]) <= MaxPending
  BY <1>3 DEF GoodQueue, QueueState
<1> HIDE DEF qs
<1> QED
  BY <1>4, <1>5, <1>6 DEF GoodQueue, QueueState

\* The in-flight backstop puts withheld events back within the cap.
LEMMA ExpireInFlightGood ==
    ASSUME NEW q, GoodQueue(q)
    PROVE  GoodQueue(ExpireInFlight(q))
<1> DEFINE back(c) == q.withheld_native_steer[c] \o q.queues[c]
<1>1. \A c \in Channels : back(c) \in Seq(Events)
  BY ConcatProperties DEF GoodQueue, QueueState
<1>2. \A c \in Channels :
        /\ Trim(back(c)) \in Seq(Events) /\ Len(Trim(back(c))) <= MaxPending
        /\ Excess(back(c)) \in SUBSET Events
  BY <1>1, TrimType
<1> DEFINE expired == {c \in Channels : q.in_flight_deadlines[c] = "past"}
           dl == [c \in Channels |-> IF c \in expired THEN "absent"
                                     ELSE q.in_flight_deadlines[c]]
           qs == [c \in Channels |-> IF c \in expired THEN Trim(back(c))
                                     ELSE q.queues[c]]
           wh == [c \in Channels |-> IF c \in expired THEN <<>>
                                     ELSE q.withheld_native_steer[c]]
           dr == q.dropped \cup UNION {Excess(back(c)) : c \in expired}
<1>3. ExpireInFlight(q) =
        [q EXCEPT !.in_flight_channels = @ \ expired,
                  !.in_flight_deadlines = dl, !.queues = qs,
                  !.withheld_native_steer = wh, !.dropped = dr]
  BY DEF ExpireInFlight, Recovered
<1>4. dl \in [Channels -> Instant]
  BY DEF GoodQueue, QueueState, Instant
<1>5. /\ qs \in [Channels -> Seq(Events)]
      /\ \A c \in Channels : Len(qs[c]) <= MaxPending
  BY <1>2 DEF GoodQueue, QueueState
<1>6. wh \in [Channels -> Seq(Events)]
  BY EmptySeq DEF GoodQueue, QueueState
<1>7. dr \in SUBSET Events
  BY <1>2 DEF GoodQueue, QueueState
<1> HIDE DEF dl, qs, wh, dr, expired
<1> QED
  BY <1>3, <1>4, <1>5, <1>6, <1>7 DEF GoodQueue, QueueState

\* What flush_next picks is a channel.
LEMMA FlushChoicesType ==
    ASSUME NEW q
    PROVE  FlushChoices(q) \subseteq Channels
BY DEF FlushChoices, Flushable, CancelledReady

\* flush_next takes no more than the queue holds.
LEMMA DrainCountType ==
    ASSUME NEW q, GoodQueue(q), NEW c \in Channels
    PROVE  DrainCount(q, c) \in Nat /\ DrainCount(q, c) <= Len(q.queues[c])
<1>1. Len(q.queues[c]) \in Nat
  BY LenProperties DEF GoodQueue, QueueState
<1> QED
  BY <1>1, QueueAssumption DEF DrainCount, Least

\* The batch that flush_next builds.
LEMMA FlushedBatchesType ==
    ASSUME NEW q, GoodQueue(q), NEW c \in Channels, NEW b \in FlushedBatches(q, c)
    PROVE  b \in FlushBatch /\ b.channel_id = c
<1> DEFINE s == SubSeq(q.queues[c], 1, DrainCount(q, c))
<1>1. s \in Seq(Events) /\ Len(s) \in Nat
  <2>1. q.queues[c] \in Seq(Events)
    BY DEF GoodQueue, QueueState
  <2>2. s \in Seq(Events)
    BY <2>1, DrainCountType, SegmentType
  <2> QED
    BY <2>2, LenProperties
<1>2. \A t \in StableSorts(s) : t \in Seq(Events)
  <2>1. ToSet(s) \subseteq Events
    BY <1>1, ElementOfSeq DEF ToSet
  <2>2. \A t \in StableSorts(s) : t \in [1..Len(s) -> ToSet(s)]
    BY DEF StableSorts
  <2>3. \A t \in StableSorts(s) : t \in [1..Len(s) -> Events]
    BY <2>1, <2>2
  <2> QED
    BY <1>1, <2>3, SeqDef
<1> HIDE DEF s
<1>3. CASE c \in Flushable(q)
  <2>1. PICK t \in StableSorts(s) :
          b = [channel_id |-> c, events |-> t,
               cancelled_events |-> q.cancelled_batches[c],
               cancel_reason |-> IF q.cancelled_batches[c] = <<>>
                                 THEN NoReason ELSE q.cancel_reasons[c]]
    BY <1>3 DEF FlushedBatches, s
  <2> QED
    BY <2>1, <1>2 DEF FlushBatch, GoodQueue, QueueState
<1>4. CASE c \notin Flushable(q)
  <2>1. b = [channel_id |-> c, events |-> q.cancelled_batches[c],
             cancelled_events |-> <<>>, cancel_reason |-> q.cancel_reasons[c]]
    BY <1>4 DEF FlushedBatches
  <2> QED
    BY <2>1, EmptySeq DEF FlushBatch, GoodQueue, QueueState
<1> QED
  BY <1>3, <1>4

\* flush_next leaves the rest of the queue and marks the channel.
LEMMA AfterFlushGood ==
    ASSUME NEW q, GoodQueue(q), NEW c \in Channels
    PROVE  GoodQueue(AfterFlush(q, c))
<1> DEFINE r == SubSeq(q.queues[c], DrainCount(q, c) + 1, Len(q.queues[c]))
<1>1. q.queues[c] \in Seq(Events) /\ Len(q.queues[c]) <= MaxPending
  BY DEF GoodQueue, QueueState
<1>2. r \in Seq(Events) /\ Len(r) <= MaxPending
  BY <1>1, DrainCountType, SegmentType, LenProperties, QueueAssumption
<1> DEFINE qs == [q.queues EXCEPT ![c] = r]
           dl == [q.in_flight_deadlines EXCEPT ![c] = "future"]
           cb == [q.cancelled_batches EXCEPT ![c] = <<>>]
           cr == [q.cancel_reasons EXCEPT ![c] = NoReason]
           fl == q.in_flight_channels \cup {c}
<1>3. AfterFlush(q, c) =
        [q EXCEPT !.queues = qs, !.in_flight_channels = fl,
                  !.in_flight_deadlines = dl, !.cancelled_batches = cb,
                  !.cancel_reasons = cr]
  BY DEF AfterFlush
<1> HIDE DEF r
<1>4. /\ qs \in [Channels -> Seq(Events)]
      /\ \A x \in Channels : Len(qs[x]) <= MaxPending
  BY <1>2 DEF GoodQueue, QueueState
<1>5. dl \in [Channels -> Instant]
  BY DEF GoodQueue, QueueState, Instant
<1>6. cb \in [Channels -> Seq(Events)]
  BY EmptySeq DEF GoodQueue, QueueState
<1>7. cr \in [Channels -> CancelReason \cup {NoReason}]
  BY DEF GoodQueue, QueueState
<1>8. fl \in SUBSET Channels
  BY DEF GoodQueue, QueueState
<1> HIDE DEF qs, dl, cb, cr, fl
<1> QED
  BY <1>3, <1>4, <1>5, <1>6, <1>7, <1>8 DEF GoodQueue, QueueState

\* Updating one channel's entry keeps the type of the map.
LEMMA EntryType ==
    ASSUME NEW T, NEW f \in [Channels -> T], NEW c \in Channels, NEW v \in T
    PROVE  [f EXCEPT ![c] = v] \in [Channels -> T]
OBVIOUS

\* mark_complete.
LEMMA MarkCompleteGood ==
    ASSUME NEW q, GoodQueue(q), NEW c \in Channels
    PROVE  GoodQueue(MarkComplete(q, c))
<1> DEFINE dl == [q.in_flight_deadlines EXCEPT ![c] = "absent"]
           ra == [q.retry_after EXCEPT ![c] =
                    IF q.retry_after[c] = "future" THEN @ ELSE "absent"]
           rc == [q.retry_counts EXCEPT ![c] =
                    IF q.retry_after[c] = "future" THEN @ ELSE 0]
<1>1. MarkComplete(q, c) =
        [q EXCEPT !.in_flight_channels = @ \ {c}, !.in_flight_deadlines = dl,
                  !.retry_after = ra, !.retry_counts = rc]
  BY DEF MarkComplete
<1>2. dl \in [Channels -> Instant] /\ ra \in [Channels -> Instant]
  BY DEF GoodQueue, QueueState, Instant
<1>3. rc \in [Channels -> 0..MaxRetries]
  BY QueueAssumption DEF GoodQueue, QueueState
<1> HIDE DEF dl, ra, rc
<1> QED
  BY <1>1, <1>2, <1>3 DEF GoodQueue, QueueState

\* A batch put back without retry accounting.
LEMMA RequeuePreserveGood ==
    ASSUME NEW q, GoodQueue(q), NEW b \in FlushBatch
    PROVE  GoodQueue(RequeuePreserveTimestamps(q, b))
BY PushFrontGood DEF RequeuePreserveTimestamps, FlushBatch

\* A batch put back for a retry: the counter never passes its limit.
LEMMA RequeueGood ==
    ASSUME NEW q, GoodQueue(q), NEW b \in FlushBatch
    PROVE  GoodQueue(Requeue(q, b))
<1> DEFINE c == b.channel_id
           p == PushFront(q, c, b.events)
<1>1. c \in Channels /\ b.events \in Seq(Events)
  BY DEF FlushBatch
<1>2. GoodQueue(p)
  BY <1>1, PushFrontGood
<1>3. p.retry_counts = q.retry_counts
  BY DEF PushFront, GoodQueue, QueueState
<1>4. CASE DeadLetters(q, b)
  <2>1. Requeue(q, b) =
          [q EXCEPT !.retry_counts = [@ EXCEPT ![c] = 0],
                    !.retry_after = [@ EXCEPT ![c] = "absent"]]
    BY <1>4 DEF Requeue
  <2>2. /\ [q.retry_counts EXCEPT ![c] = 0] \in [Channels -> 0..MaxRetries]
        /\ [q.retry_after EXCEPT ![c] = "absent"] \in [Channels -> Instant]
    BY <1>1, QueueAssumption DEF GoodQueue, QueueState, Instant
  <2> QED
    BY <2>1, <2>2 DEF GoodQueue, QueueState
<1>5. CASE ~DeadLetters(q, b)
  <2> DEFINE n == p.retry_counts[c] + 1
  <2>1. Requeue(q, b) =
          [p EXCEPT !.retry_counts = [@ EXCEPT ![c] = n],
                    !.retry_after = [@ EXCEPT ![c] = "future"]]
    BY <1>5 DEF Requeue
  <2>2. n \in 0..MaxRetries
    BY <1>1, <1>3, <1>5, QueueAssumption DEF GoodQueue, QueueState, DeadLetters
  <2>3. /\ [p.retry_counts EXCEPT ![c] = n] \in [Channels -> 0..MaxRetries]
        /\ [p.retry_after EXCEPT ![c] = "future"] \in [Channels -> Instant]
    BY <1>1, <1>2, <2>2 DEF GoodQueue, QueueState, Instant
  <2> HIDE DEF p, n
  <2> QED
    BY <1>2, <2>1, <2>3 DEF GoodQueue, QueueState
<1> QED
  BY <1>4, <1>5

\* A cancelled batch waits in a table of its own.
LEMMA RequeueAsCancelledGood ==
    ASSUME NEW q, GoodQueue(q), NEW b \in FlushBatch, NEW reason \in CancelReason
    PROVE  GoodQueue(RequeueAsCancelled(q, b, reason))
<1> DEFINE c == b.channel_id
           s == q.cancelled_batches[c] \o b.cancelled_events \o b.events
           cb == [q.cancelled_batches EXCEPT ![c] = s]
           cr == [q.cancel_reasons EXCEPT ![c] = reason]
<1>1. c \in Channels /\ s \in Seq(Events)
  BY ConcatProperties DEF FlushBatch, GoodQueue, QueueState
<1>2. RequeueAsCancelled(q, b, reason) =
        [q EXCEPT !.cancelled_batches = cb, !.cancel_reasons = cr]
  BY DEF RequeueAsCancelled
<1>3. cb \in [Channels -> Seq(Events)]
  BY <1>1, EntryType DEF GoodQueue, QueueState
<1>4. cr \in [Channels -> CancelReason \cup {NoReason}]
  BY <1>1, EntryType DEF GoodQueue, QueueState
<1> HIDE DEF cb, cr
<1> QED
  BY <1>2, <1>3, <1>4 DEF GoodQueue, QueueState

\* Removal from a channel.
LEMMA DrainChannelGood ==
    ASSUME NEW q, GoodQueue(q), NEW c \in Channels
    PROVE  GoodQueue(DrainChannel(q, c))
<1> DEFINE qs == [q.queues EXCEPT ![c] = <<>>]
           ra == [q.retry_after EXCEPT ![c] = "absent"]
           rc == [q.retry_counts EXCEPT ![c] = 0]
           cb == [q.cancelled_batches EXCEPT ![c] = <<>>]
           cr == [q.cancel_reasons EXCEPT ![c] = NoReason]
           wh == [q.withheld_native_steer EXCEPT ![c] = <<>>]
<1>1. DrainChannel(q, c) =
        [q EXCEPT !.queues = qs, !.retry_after = ra, !.retry_counts = rc,
                  !.cancelled_batches = cb, !.cancel_reasons = cr,
                  !.withheld_native_steer = wh]
  BY DEF DrainChannel
<1>2. <<>> \in Seq(Events) /\ Len(<<>>) <= MaxPending
  BY EmptySeq, QueueAssumption
<1>3. /\ qs \in [Channels -> Seq(Events)]
      /\ \A x \in Channels : Len(qs[x]) <= MaxPending
  BY <1>2 DEF GoodQueue, QueueState
<1>4. /\ cb \in [Channels -> Seq(Events)]
      /\ wh \in [Channels -> Seq(Events)]
  BY <1>2 DEF GoodQueue, QueueState
<1>5. ra \in [Channels -> Instant]
  BY DEF GoodQueue, QueueState, Instant
<1>6. rc \in [Channels -> 0..MaxRetries]
  BY QueueAssumption DEF GoodQueue, QueueState
<1>7. cr \in [Channels -> CancelReason \cup {NoReason}]
  BY DEF GoodQueue, QueueState
<1> HIDE DEF qs, ra, rc, cb, cr, wh
<1> QED
  BY <1>1, <1>3, <1>4, <1>5, <1>6, <1>7 DEF GoodQueue, QueueState

\* A steered event moves to the side table.
LEMMA MarkNativeSteerPendingGood ==
    ASSUME NEW q, GoodQueue(q), NEW c \in Channels, NEW e \in Events
    PROVE  GoodQueue(MarkNativeSteerPending(q, c, e))
<1>1. CASE e \notin ToSet(q.queues[c])
  BY <1>1 DEF MarkNativeSteerPending
<1>2. CASE e \in ToSet(q.queues[c])
  <2> DEFINE qs == [q.queues EXCEPT ![c] = RemoveFirst(q.queues[c], e)]
             wh == [q.withheld_native_steer EXCEPT ![c] =
                      Append(q.withheld_native_steer[c], e)]
  <2>1. MarkNativeSteerPending(q, c, e) =
          [q EXCEPT !.queues = qs, !.withheld_native_steer = wh]
    BY <1>2 DEF MarkNativeSteerPending
  <2>2. q.queues[c] \in Seq(Events) /\ Len(q.queues[c]) <= MaxPending
    BY DEF GoodQueue, QueueState
  <2>3. /\ RemoveFirst(q.queues[c], e) \in Seq(Events)
        /\ Len(RemoveFirst(q.queues[c], e)) <= MaxPending
    BY <2>2, RemoveFirstType, LenProperties, QueueAssumption
  <2>4. /\ qs \in [Channels -> Seq(Events)]
        /\ \A x \in Channels : Len(qs[x]) <= MaxPending
    BY <2>3 DEF GoodQueue, QueueState
  <2>5. wh \in [Channels -> Seq(Events)]
    BY AppendProperties DEF GoodQueue, QueueState
  <2> HIDE DEF qs, wh
  <2> QED
    BY <2>1, <2>4, <2>5 DEF GoodQueue, QueueState
<1> QED
  BY <1>1, <1>2

\* A withheld event goes back to the front of its channel.
LEMMA ReleaseNativeSteerGood ==
    ASSUME NEW q, GoodQueue(q), NEW c \in Channels, NEW e \in Events
    PROVE  GoodQueue(ReleaseNativeSteer(q, c, e))
<1> DEFINE wh == [q.withheld_native_steer EXCEPT ![c] =
                    RemoveFirst(q.withheld_native_steer[c], e)]
           x == [q EXCEPT !.withheld_native_steer = wh]
<1>1. wh \in [Channels -> Seq(Events)]
  BY RemoveFirstType DEF GoodQueue, QueueState
<1>2. GoodQueue(x)
  <2> HIDE DEF wh
  <2> QED
    BY <1>1 DEF GoodQueue, QueueState
<1>3. <<e>> \in Seq(Events)
  OBVIOUS
<1>4. GoodQueue(PushFront(x, c, <<e>>))
  BY <1>2, <1>3, PushFrontGood
<1>5. x = [q EXCEPT !.withheld_native_steer[c] = RemoveFirst(@, e)]
  OBVIOUS
<1> HIDE DEF x
<1> QED
  BY <1>4, <1>5 DEF ReleaseNativeSteer

\* A delivered event leaves the queue for good.
LEMMA RemoveEventGood ==
    ASSUME NEW q, GoodQueue(q), NEW c \in Channels, NEW e \in Events
    PROVE  GoodQueue(RemoveEvent(q, c, e))
<1> DEFINE qs == [q.queues EXCEPT ![c] = RemoveFirst(q.queues[c], e)]
           wh == [q.withheld_native_steer EXCEPT ![c] =
                    RemoveFirst(q.withheld_native_steer[c], e)]
<1>1. RemoveEvent(q, c, e) =
        [q EXCEPT !.withheld_native_steer = wh, !.queues = qs]
  BY DEF RemoveEvent
<1>2. q.queues[c] \in Seq(Events) /\ Len(q.queues[c]) <= MaxPending
  BY DEF GoodQueue, QueueState
<1>3. /\ RemoveFirst(q.queues[c], e) \in Seq(Events)
      /\ Len(RemoveFirst(q.queues[c], e)) <= MaxPending
  BY <1>2, RemoveFirstType, LenProperties, QueueAssumption
<1>4. /\ qs \in [Channels -> Seq(Events)]
      /\ \A x \in Channels : Len(qs[x]) <= MaxPending
  BY <1>3 DEF GoodQueue, QueueState
<1>5. wh \in [Channels -> Seq(Events)]
  BY RemoveFirstType DEF GoodQueue, QueueState
<1> HIDE DEF qs, wh
<1> QED
  BY <1>1, <1>4, <1>5 DEF GoodQueue, QueueState

\* Deadlines only move between their three values.
LEMMA DeadlineGood ==
    ASSUME NEW q, GoodQueue(q), NEW c \in Channels
    PROVE  /\ GoodQueue(ExtendInFlightDeadline(q, c))
           /\ GoodQueue(ThrottleElapses(q, c))
           /\ GoodQueue(DeadlineElapses(q, c))
<1> DEFINE ex == [q.in_flight_deadlines EXCEPT ![c] =
                    IF @ = "absent" THEN @ ELSE "future"]
           dl == [q.in_flight_deadlines EXCEPT ![c] = "past"]
           ra == [q.retry_after EXCEPT ![c] = "past"]
<1>1. /\ ExtendInFlightDeadline(q, c) = [q EXCEPT !.in_flight_deadlines = ex]
      /\ DeadlineElapses(q, c) = [q EXCEPT !.in_flight_deadlines = dl]
      /\ ThrottleElapses(q, c) = [q EXCEPT !.retry_after = ra]
  BY DEF ExtendInFlightDeadline, ThrottleElapses, DeadlineElapses
<1>2. /\ ex \in [Channels -> Instant] /\ dl \in [Channels -> Instant]
      /\ ra \in [Channels -> Instant]
  BY DEF GoodQueue, QueueState, Instant
<1> HIDE DEF ex, dl, ra
<1> QED
  BY <1>1, <1>2 DEF GoodQueue, QueueState

\* Periodic compaction.
LEMMA CompactExpiredStateGood ==
    ASSUME NEW q, GoodQueue(q)
    PROVE  GoodQueue(CompactExpiredState(q))
<1> DEFINE ra == [c \in Channels |-> IF q.retry_after[c] = "past" THEN "absent"
                                     ELSE q.retry_after[c]]
           live(c) == ra[c] # "absent" \/ q.queues[c] # <<>>
                         \/ c \in q.in_flight_channels
           rc == [c \in Channels |-> IF live(c) THEN q.retry_counts[c] ELSE 0]
<1>1. CompactExpiredState(q) =
        [q EXCEPT !.retry_after = ra, !.retry_counts = rc]
  BY DEF CompactExpiredState
<1>2. ra \in [Channels -> Instant]
  BY DEF GoodQueue, QueueState, Instant
<1>3. rc \in [Channels -> 0..MaxRetries]
  BY QueueAssumption DEF GoodQueue, QueueState
<1> HIDE DEF ra, rc
<1> QED
  BY <1>1, <1>2, <1>3 DEF GoodQueue, QueueState

-----------------------------------------------------------------------------
\* The two queues agree on what is in flight, and until when.
SameMarks(q, r) == /\ r.in_flight_channels = q.in_flight_channels
                   /\ r.in_flight_deadlines = q.in_flight_deadlines

\* Neither putting events at the front of a queue ...
LEMMA PushFrontMarks ==
    ASSUME NEW q, GoodQueue(q), NEW c \in Channels, NEW z
    PROVE  SameMarks(q, PushFront(q, c, z))
BY DEF PushFront, SameMarks, GoodQueue, QueueState

\* ... nor pushing one ...
LEMMA PushMarks ==
    ASSUME NEW q, GoodQueue(q), NEW c \in Channels, NEW e
    PROVE  SameMarks(q, Push(q, c, e))
BY DEF Push, SameMarks, GoodQueue, QueueState

\* ... nor putting a batch back touches the marks.
LEMMA RequeueMarks ==
    ASSUME NEW q, GoodQueue(q), NEW b \in FlushBatch, NEW reason
    PROVE  /\ SameMarks(q, Requeue(q, b))
           /\ SameMarks(q, RequeuePreserveTimestamps(q, b))
           /\ SameMarks(q, RequeueAsCancelled(q, b, reason))
<1> DEFINE p == PushFront(q, b.channel_id, b.events)
<1>1. b.channel_id \in Channels /\ b.events \in Seq(Events)
  BY DEF FlushBatch
<1>2. GoodQueue(p) /\ SameMarks(q, p)
  BY <1>1, PushFrontGood, PushFrontMarks
<1>3. SameMarks(q, Requeue(q, b))
  <2>1. CASE DeadLetters(q, b)
    BY <2>1 DEF Requeue, SameMarks, GoodQueue, QueueState
  <2>2. CASE ~DeadLetters(q, b)
    <3>1. Requeue(q, b) = [p EXCEPT !.retry_counts[b.channel_id] = @ + 1,
                                    !.retry_after[b.channel_id] = "future"]
      BY <2>2 DEF Requeue
    <3> HIDE DEF p
    <3> QED BY <1>2, <3>1 DEF SameMarks, GoodQueue, QueueState
  <2> QED BY <2>1, <2>2
<1>4. SameMarks(q, RequeueAsCancelled(q, b, reason))
  BY DEF RequeueAsCancelled, SameMarks, GoodQueue, QueueState
<1> QED BY <1>2, <1>3, <1>4 DEF RequeuePreserveTimestamps

\* Nor do the steer operations ...
LEMMA SteerMarks ==
    ASSUME NEW q, GoodQueue(q), NEW c \in Channels, NEW e \in Events
    PROVE  /\ SameMarks(q, MarkNativeSteerPending(q, c, e))
           /\ SameMarks(q, ReleaseNativeSteer(q, c, e))
           /\ SameMarks(q, RemoveEvent(q, c, e))
<1> DEFINE w == [q EXCEPT !.withheld_native_steer[c] = RemoveFirst(@, e)]
<1>1. SameMarks(q, MarkNativeSteerPending(q, c, e))
  BY DEF MarkNativeSteerPending, SameMarks, GoodQueue, QueueState
<1>2. SameMarks(q, RemoveEvent(q, c, e))
  BY DEF RemoveEvent, SameMarks, GoodQueue, QueueState
<1>3. GoodQueue(w) /\ SameMarks(q, w)
  <2>1. RemoveFirst(q.withheld_native_steer[c], e) \in Seq(Events)
    BY RemoveFirstType DEF GoodQueue, QueueState
  <2> QED BY <2>1 DEF SameMarks, GoodQueue, QueueState
<1>4. SameMarks(w, PushFront(w, c, <<e>>))
  BY <1>3, PushFrontMarks
<1>5. SameMarks(q, ReleaseNativeSteer(q, c, e))
  BY <1>3, <1>4 DEF ReleaseNativeSteer, SameMarks
<1> QED BY <1>1, <1>2, <1>5

\* ... nor draining a channel, compaction and the clock of a throttle.
LEMMA OtherMarks ==
    ASSUME NEW q, GoodQueue(q), NEW c \in Channels
    PROVE  /\ SameMarks(q, DrainChannel(q, c))
           /\ SameMarks(q, CompactExpiredState(q))
           /\ SameMarks(q, ThrottleElapses(q, c))
BY DEF DrainChannel, CompactExpiredState, ThrottleElapses, SameMarks, GoodQueue, QueueState

\* Without a deadline that has passed nothing expires.
LEMMA ExpireMarks ==
    ASSUME NEW q, GoodQueue(q), \A c \in Channels : q.in_flight_deadlines[c] # "past"
    PROVE  SameMarks(q, ExpireInFlight(q))
<1>1. {c \in Channels : q.in_flight_deadlines[c] = "past"} = {}
  OBVIOUS
<1> QED BY <1>1 DEF ExpireInFlight, SameMarks, GoodQueue, QueueState

\* A flush marks its channel, mark_complete unmarks it, a steer that was delivered
\* renews its deadline.
LEMMA FlushMarks ==
    ASSUME NEW q, GoodQueue(q), NEW c \in Channels
    PROVE  /\ AfterFlush(q, c).in_flight_channels = q.in_flight_channels \cup {c}
           /\ AfterFlush(q, c).in_flight_deadlines = [q.in_flight_deadlines EXCEPT ![c] = "future"]
           /\ MarkComplete(q, c).in_flight_channels = q.in_flight_channels \ {c}
           /\ MarkComplete(q, c).in_flight_deadlines = [q.in_flight_deadlines EXCEPT ![c] = "absent"]
           /\ ExtendInFlightDeadline(q, c).in_flight_channels = q.in_flight_channels
           /\ ExtendInFlightDeadline(q, c).in_flight_deadlines =
                [q.in_flight_deadlines EXCEPT ![c] = IF @ = "absent" THEN @ ELSE "future"]
BY DEF AfterFlush, MarkComplete, ExtendInFlightDeadline, GoodQueue, QueueState

\* Only a channel that is not in flight is flushed.
LEMMA FlushedIdle ==
    ASSUME NEW q, NEW c \in FlushChoices(q)
    PROVE  c \in Channels /\ c \notin q.in_flight_channels
BY DEF FlushChoices, Flushable, CancelledReady

-----------------------------------------------------------------------------
(* Sequences without repetition.                                           *)

\* A sequence in which nothing occurs twice.
Distinct(s) == \A i, j \in 1..Len(s) : s[i] = s[j] => i = j

\* What is in a sequence.
LEMMA ToSetElements ==
    ASSUME NEW s \in Seq(Events)
    PROVE  /\ ToSet(s) \subseteq Events
           /\ \A x : x \in ToSet(s) <=> \E i \in 1..Len(s) : s[i] = x
BY LenProperties, ElementOfSeq DEF ToSet

\* A concatenation holds what its parts hold, and repeats nothing if the parts
\* repeat nothing and share nothing.
LEMMA Joined ==
    ASSUME NEW s \in Seq(Events), NEW t \in Seq(Events)
    PROVE  /\ s \o t \in Seq(Events)
           /\ ToSet(s \o t) = ToSet(s) \cup ToSet(t)
           /\ Distinct(s \o t) <=>
                Distinct(s) /\ Distinct(t) /\ ToSet(s) \cap ToSet(t) = {}
<1> DEFINE u == s \o t
           m == Len(s)
           n == Len(t)
<1>1. /\ u \in Seq(Events) /\ Len(u) = m + n /\ m \in Nat /\ n \in Nat
      /\ \A i \in 1..m : i \in 1..Len(u) /\ u[i] = s[i]
      /\ \A i \in 1..n : m + i \in 1..Len(u) /\ u[m + i] = t[i]
      /\ \A i \in 1..Len(u) : i \in 1..m \/ (i - m \in 1..n /\ i = m + (i - m))
  BY ConcatProperties, LenProperties
<1> HIDE DEF u, m, n
<1>2. /\ \A x : x \in ToSet(s) <=> \E i \in 1..m : s[i] = x
      /\ \A x : x \in ToSet(t) <=> \E i \in 1..n : t[i] = x
      /\ \A x : x \in ToSet(u) <=> \E i \in 1..Len(u) : u[i] = x
  BY <1>1, ToSetElements DEF m, n
<1>3. ToSet(u) = ToSet(s) \cup ToSet(t)
  <2>1. ASSUME NEW x \in ToSet(u) PROVE x \in ToSet(s) \cup ToSet(t)
    <3>1. PICK i \in 1..Len(u) : u[i] = x
      BY <1>2, <2>1
    <3>2. CASE i \in 1..m
      BY <1>1, <1>2, <3>1, <3>2
    <3>3. CASE i - m \in 1..n /\ i = m + (i - m)
      BY <1>1, <1>2, <3>1, <3>3
    <3> QED BY <1>1, <3>2, <3>3
  <2>2. ASSUME NEW x \in ToSet(s) \cup ToSet(t) PROVE x \in ToSet(u)
    BY <1>1, <1>2
  <2> QED BY <2>1, <2>2
<1>4. ASSUME Distinct(u) PROVE Distinct(s) /\ Distinct(t) /\ ToSet(s) \cap ToSet(t) = {}
  <2>1. Distinct(s)
    BY <1>1, <1>4 DEF Distinct, m
  <2>2. Distinct(t)
    <3> SUFFICES ASSUME NEW i \in 1..n, NEW j \in 1..n, t[i] = t[j] PROVE i = j
      BY DEF Distinct, n
    <3>1. m + i \in 1..Len(u) /\ m + j \in 1..Len(u) /\ u[m + i] = u[m + j]
      BY <1>1
    <3>2. m + i = m + j
      BY <1>4, <3>1 DEF Distinct
    <3> QED BY <1>1, <3>2
  <2>3. ASSUME NEW x \in ToSet(s) \cap ToSet(t) PROVE FALSE
    <3>1. PICK i \in 1..m : s[i] = x
      BY <1>2, <2>3
    <3>2. PICK j \in 1..n : t[j] = x
      BY <1>2, <2>3
    <3>3. i \in 1..Len(u) /\ m + j \in 1..Len(u) /\ u[i] = u[m + j]
      BY <1>1, <3>1, <3>2
    <3>4. i = m + j
      BY <1>4, <3>3 DEF Distinct
    <3> QED BY <1>1, <3>4
  <2> QED BY <2>1, <2>2, <2>3
<1>5. ASSUME Distinct(s), Distinct(t), ToSet(s) \cap ToSet(t) = {} PROVE Distinct(u)
  <2> SUFFICES ASSUME NEW i \in 1..Len(u), NEW j \in 1..Len(u), u[i] = u[j] PROVE i = j
    BY DEF Distinct
  <2>1. CASE i \in 1..m /\ j \in 1..m
    BY <1>1, <1>5, <2>1 DEF Distinct, m
  <2>2. CASE i - m \in 1..n /\ i = m + (i - m) /\ j - m \in 1..n /\ j = m + (j - m)
    <3>1. t[i - m] = t[j - m]
      BY <1>1, <2>2
    <3>2. i - m = j - m
      BY <1>5, <2>2, <3>1 DEF Distinct, n
    <3> QED BY <2>2, <3>2
  <2>3. CASE i \in 1..m /\ j - m \in 1..n /\ j = m + (j - m)
    <3>1. s[i] = t[j - m]
      BY <1>1, <2>3
    <3> QED BY <1>2, <1>5, <2>3, <3>1
  <2>4. CASE j \in 1..m /\ i - m \in 1..n /\ i = m + (i - m)
    <3>1. s[j] = t[i - m]
      BY <1>1, <2>4
    <3> QED BY <1>2, <1>5, <2>4, <3>1
  <2> QED BY <1>1, <2>1, <2>2, <2>3, <2>4
<1> QED BY <1>1, <1>3, <1>4, <1>5 DEF u

\* One event.
LEMMA Single ==
    ASSUME NEW e \in Events
    PROVE  <<e>> \in Seq(Events) /\ ToSet(<<e>>) = {e} /\ Distinct(<<e>>)
BY DEF ToSet, Distinct

\* No event.
LEMMA Nothing == ToSet(<<>>) = {} /\ Distinct(<<>>) /\ <<>> \in Seq(Events)
BY DEF ToSet, Distinct

\* A sequence cut in two.
LEMMA Cut ==
    ASSUME NEW s \in Seq(Events), NEW k \in Nat, k <= Len(s)
    PROVE  /\ SubSeq(s, 1, k) \in Seq(Events) /\ SubSeq(s, k + 1, Len(s)) \in Seq(Events)
           /\ s = SubSeq(s, 1, k) \o SubSeq(s, k + 1, Len(s))
<1>1. Len(s) \in Nat
  BY LenProperties
<1>2. SubSeq(s, 1, k) \o SubSeq(s, k + 1, Len(s)) = SubSeq(s, 1, Len(s))
  <2>1. 1 \in 1..(Len(s) + 1) /\ k \in (1 - 1)..Len(s) /\ Len(s) \in k..Len(s)
    BY <1>1
  <2> QED BY <2>1, ConcatAdjacentSubSeq
<1>3. SubSeq(s, 1, Len(s)) = s
  BY SubSeqFull
<1>4. SubSeq(s, 1, k) \in Seq(Events) /\ SubSeq(s, k + 1, Len(s)) \in Seq(Events)
  BY <1>1, SegmentType
<1> QED BY <1>2, <1>3, <1>4, Zenon

\* The first event and the others.
LEMMA Headed ==
    ASSUME NEW s \in Seq(Events), s # <<>>
    PROVE  /\ Head(s) \in Events /\ Tail(s) \in Seq(Events)
           /\ s = <<Head(s)>> \o Tail(s)
<1>1. Len(s) \in Nat /\ Len(s) >= 1
  BY LenProperties, EmptySeq
<1>2. s = SubSeq(s, 1, 1) \o SubSeq(s, 1 + 1, Len(s))
  BY <1>1, Cut
<1>3. SubSeq(s, 1, 1) = <<Head(s)>>
  <2>1. SubSeq(s, 1, 1) = <<s[1]>> \o SubSeq(s, 1 + 1, 1)
    BY <1>1, SubSeqRecursiveFirst
  <2>2. SubSeq(s, 1 + 1, 1) = <<>>
    BY SubSeqEmpty
  <2>3. s[1] \in Events
    BY <1>1, ElementOfSeq
  <2>4. <<s[1]>> \in Seq(Events)
    BY <2>3, Single
  <2>5. <<s[1]>> \o <<>> = <<s[1]>>
    BY <2>4, ConcatEmptySeq
  <2>6. Head(s) = s[1]
    OBVIOUS
  <2> QED BY <2>1, <2>2, <2>5, <2>6, Zenon
<1> QED BY <1>2, <1>3, TailIsSubSeq, HeadTailProperties

\* What the cap keeps and what it sheds.
LEMMA Trimmed ==
    ASSUME NEW s \in Seq(Events), Distinct(s)
    PROVE  /\ Trim(s) \in Seq(Events) /\ Distinct(Trim(s))
           /\ ToSet(Trim(s)) \cup Excess(s) = ToSet(s)
<1> DEFINE k == Least(Len(s), MaxPending)
           r == SubSeq(s, k + 1, Len(s))
<1>1. k \in Nat /\ k <= Len(s) /\ Len(s) \in Nat /\ (k = Len(s) \/ k = MaxPending)
  BY QueueAssumption, LenProperties DEF Least
<1>2. Trim(s) \in Seq(Events) /\ r \in Seq(Events) /\ s = Trim(s) \o r
  BY <1>1, Cut DEF Trim
<1>3. Distinct(Trim(s)) /\ ToSet(s) = ToSet(Trim(s)) \cup ToSet(r)
  <2> DEFINE t == Trim(s)
  <2> HIDE DEF t, r
  <2>1. /\ ToSet(t \o r) = ToSet(t) \cup ToSet(r)
        /\ Distinct(t \o r) => Distinct(t)
    BY <1>2, Joined DEF t
  <2>2. t \o r = s
    BY <1>2 DEF t
  <2> QED BY <2>1, <2>2 DEF t
<1>4. ToSet(r) \subseteq Excess(s)
  <2> SUFFICES ASSUME NEW x \in ToSet(r) PROVE x \in Excess(s)
    OBVIOUS
  <2>1. PICK i \in 1..Len(r) : r[i] = x
    BY <1>2, ToSetElements
  <2>2. /\ Len(r) = IF k + 1 <= Len(s) THEN Len(s) - (k + 1) + 1 ELSE 0
        /\ \A j \in 1..(Len(s) - (k + 1) + 1) : r[j] = s[(k + 1) + j - 1]
    <3>1. \A j \in (k + 1)..Len(s) : s[j] \in Events
      BY <1>1, ElementOfSeq
    <3> QED BY <1>1, <3>1, SubSeqProperties
  <2> HIDE DEF r, k
  <2>3. k + i \in 1..Len(s) /\ s[k + i] = x /\ k + 1 <= Len(s)
    BY <1>1, <2>1, <2>2
  <2>4. k = MaxPending \/ FALSE
    BY <1>1, <2>3
  <2>5. k + i > MaxPending
    BY <1>1, <2>1, <2>3, <2>4
  <2> QED BY <2>3, <2>5 DEF Excess
<1>5. Excess(s) \subseteq ToSet(s)
  BY ToSetElements DEF Excess
<1> QED BY <1>2, <1>3, <1>4, <1>5

\* remove the first occurrence of e.
LEMMA Removed ==
    ASSUME NEW s \in Seq(Events), Distinct(s), NEW e
    PROVE  /\ RemoveFirst(s, e) \in Seq(Events) /\ Distinct(RemoveFirst(s, e))
           /\ ToSet(RemoveFirst(s, e)) = ToSet(s) \ {e}
<1> DEFINE I == {i \in 1..Len(s) : s[i] = e}
<1>1. CASE I = {}
  <2>1. RemoveFirst(s, e) = s
    BY <1>1 DEF RemoveFirst
  <2> QED
    BY <1>1, <2>1, ToSetElements
<1>2. CASE I # {}
  <2> DEFINE k == SelectInSeq(s, LAMBDA v : v = e)
             u == SubSeq(s, 1, k - 1)
             v == SubSeq(s, k + 1, Len(s))
  <2>1. k = Min(I)
    BY <1>2 DEF SelectInSeq
  <2>2. I \in SUBSET Nat
    BY LenProperties
  <2>3. k \in I
    BY <1>2, <2>1, <2>2, MinIn
  <2>4. k \in 1..Len(s) /\ s[k] = e /\ Len(s) \in Nat
    BY <2>3, LenProperties
  <2>5. RemoveFirst(s, e) = u \o v
    BY <1>2 DEF RemoveFirst, RemoveAt
  <2> HIDE DEF k
  <2>6. /\ v \in Seq(Events) /\ SubSeq(s, 1, k) \in Seq(Events) /\ s = SubSeq(s, 1, k) \o v
    BY <2>4, Cut
  <2>7. e \in Events /\ u \in Seq(Events)
    BY <2>4, SegmentType, ElementOfSeq
  <2>8. SubSeq(s, 1, k) = u \o <<e>>
    <3>1. k \in 1..Len(s) /\ 1 \in 1..Len(s) /\ k \in 1..Len(s)
      BY <2>4
    <3> QED BY <2>4, <3>1, SubSeqRecursiveSecond
  <2> HIDE DEF u, v
  <2>9. <<e>> \in Seq(Events) /\ ToSet(<<e>>) = {e}
    BY <2>7, Single
  <2>10. /\ ToSet(s) = ToSet(u \o <<e>>) \cup ToSet(v)
         /\ Distinct(u \o <<e>>) /\ Distinct(v) /\ ToSet(u \o <<e>>) \cap ToSet(v) = {}
    <3> DEFINE w == u \o <<e>>
    <3>1. w \in Seq(Events) /\ w \o v = s
      BY <2>6, <2>8
    <3> HIDE DEF w
    <3>2. /\ ToSet(w \o v) = ToSet(w) \cup ToSet(v)
          /\ Distinct(w \o v) => Distinct(w) /\ Distinct(v) /\ ToSet(w) \cap ToSet(v) = {}
      BY <2>6, <3>1, Joined
    <3> QED BY <3>1, <3>2 DEF w
  <2>11. /\ ToSet(u \o <<e>>) = ToSet(u) \cup {e} /\ Distinct(u) /\ e \notin ToSet(u)
    BY <2>7, <2>9, <2>10, Joined
  <2>12. /\ u \o v \in Seq(Events) /\ ToSet(u \o v) = ToSet(u) \cup ToSet(v)
         /\ Distinct(u \o v)
    <3>1. ToSet(u) \cap ToSet(v) = {}
      BY <2>10, <2>11
    <3> QED BY <2>6, <2>7, <2>10, <2>11, <3>1, Joined
  <2> QED BY <2>5, <2>10, <2>11, <2>12
<1> QED BY <1>1, <1>2

\* The sort of a batch.
LEMMA Sorted ==
    ASSUME NEW s \in Seq(Events), Distinct(s), NEW t \in StableSorts(s)
    PROVE  t \in Seq(Events) /\ Distinct(t) /\ ToSet(t) = ToSet(s)
<1> DEFINE D == 1..Len(s)
<1>1. Len(s) \in Nat /\ s \in [D -> Events] /\ DOMAIN s = D
  BY LenProperties
<1>2. PICK p \in Bijection(D, D) : \A i \in D : t[i] = s[p[i]]
  BY DEF StableSorts
<1>3. t \in [D -> Events]
  <2>1. t \in [D -> ToSet(s)] /\ ToSet(s) \subseteq Events
    BY ToSetElements DEF StableSorts
  <2> QED BY <2>1
<1>4. t \in Seq(Events) /\ Len(t) = Len(s) /\ DOMAIN t = D
  <2>1. t \in Seq(Events)
    BY <1>1, <1>3, SeqDef
  <2> QED BY <1>1, <1>3, <2>1, LenProperties
<1>5. /\ p \in [D -> D] /\ \A i, j \in D : p[i] = p[j] => i = j
      /\ \A k \in D : \E i \in D : p[i] = k
  BY <1>2 DEF Bijection, Injection, Surjection, IsInjective
<1>6. Distinct(t)
  <2> SUFFICES ASSUME NEW i \in D, NEW j \in D, t[i] = t[j] PROVE i = j
    BY <1>4 DEF Distinct
  <2>1. p[i] \in D /\ p[j] \in D /\ s[p[i]] = s[p[j]]
    BY <1>2, <1>5
  <2>2. p[i] = p[j]
    BY <2>1 DEF Distinct
  <2> QED BY <1>5, <2>2
<1>7. ToSet(t) = ToSet(s)
  <2>1. \A x : x \in ToSet(t) <=> \E i \in D : t[i] = x
    BY <1>4, ToSetElements
  <2>2. \A x : x \in ToSet(s) <=> \E i \in D : s[i] = x
    BY ToSetElements
  <2>3. ASSUME NEW x \in ToSet(t) PROVE x \in ToSet(s)
    BY <1>2, <1>5, <2>1, <2>2
  <2>4. ASSUME NEW x \in ToSet(s) PROVE x \in ToSet(t)
    <3>1. PICK k \in D : s[k] = x
      BY <2>2
    <3>2. PICK i \in D : p[i] = k
      BY <1>5
    <3> QED BY <1>2, <2>1, <3>1, <3>2
  <2> QED BY <2>3, <2>4
<1> QED BY <1>4, <1>6, <1>7

-----------------------------------------------------------------------------
(* Where the queue holds its events.                                       *)

\* A channel's queue, its withheld steers and its cancelled batch repeat nothing
\* and share nothing.
Neat(u, w, k) ==
    /\ Distinct(u) /\ Distinct(w) /\ Distinct(k)
    /\ ToSet(u) \cap ToSet(w) = {} /\ ToSet(u) \cap ToSet(k) = {}
    /\ ToSet(w) \cap ToSet(k) = {}

\* The same of channel c of queue q.
Tidy(q, c) == Neat(q.queues[c], q.withheld_native_steer[c], q.cancelled_batches[c])

\* q and r hold the same events for channel d, in the same places.
SameHeld(q, r, d) == /\ r.queues[d] = q.queues[d]
                     /\ r.withheld_native_steer[d] = q.withheld_native_steer[d]
                     /\ r.cancelled_batches[d] = q.cancelled_batches[d]

\* q and r hold the same events in the same places.
SameEvents(q, r) == /\ r.queues = q.queues
                    /\ r.withheld_native_steer = q.withheld_native_steer
                    /\ r.cancelled_batches = q.cancelled_batches
                    /\ r.dropped = q.dropped

\* From q to r the events in have been put to channel c and out taken from it;
\* whatever else is gone was shed with a warning.
Moved(q, r, c, in, out) ==
    /\ Tidy(r, c)
    /\ HeldFor(r, c) \subseteq HeldFor(q, c) \cup in
    /\ HeldFor(q, c) \cup in \subseteq HeldFor(r, c) \cup r.dropped \cup out
    /\ q.dropped \subseteq r.dropped
    /\ \A d \in Channels : d # c => SameHeld(q, r, d)

\* The three sequences of a channel.
LEMMA HeldTypes ==
    ASSUME NEW q, GoodQueue(q), NEW c \in Channels
    PROVE  /\ q.queues[c] \in Seq(Events)
           /\ q.withheld_native_steer[c] \in Seq(Events)
           /\ q.cancelled_batches[c] \in Seq(Events)
BY DEF GoodQueue, QueueState

\* How a step is shown to move events: the new sequences of channel c are u, w
\* and k, and x is what was shed.
LEMMA Moving ==
    ASSUME NEW q, NEW r, NEW c, NEW u, NEW w, NEW k, NEW x, NEW in, NEW out,
           r.queues[c] = u, r.withheld_native_steer[c] = w, r.cancelled_batches[c] = k,
           r.dropped = q.dropped \cup x,
           \A d \in Channels : d # c => SameHeld(q, r, d),
           Neat(u, w, k),
           ToSet(u) \cup ToSet(w) \cup ToSet(k) \subseteq HeldFor(q, c) \cup in,
           HeldFor(q, c) \cup in \subseteq ToSet(u) \cup ToSet(w) \cup ToSet(k) \cup x \cup out
    PROVE  Moved(q, r, c, in, out)
<1>1. HeldFor(r, c) = ToSet(u) \cup ToSet(w) \cup ToSet(k)
  BY DEF HeldFor
<1>2. Tidy(r, c)
  BY DEF Tidy
<1> QED BY <1>1, <1>2 DEF Moved

\* Operations that only keep time and count.
LEMMA Counting ==
    ASSUME NEW q, GoodQueue(q), NEW c \in Channels
    PROVE  /\ SameEvents(q, MarkComplete(q, c))
           /\ SameEvents(q, CompactExpiredState(q))
           /\ SameEvents(q, ThrottleElapses(q, c))
           /\ SameEvents(q, DeadlineElapses(q, c))
           /\ SameEvents(q, ExtendInFlightDeadline(q, c))
BY DEF MarkComplete, CompactExpiredState, ThrottleElapses, DeadlineElapses,
       ExtendInFlightDeadline, SameEvents, GoodQueue, QueueState

\* Events that the queue does not hold are put in front.
LEMMA PushFrontMoves ==
    ASSUME NEW q, GoodQueue(q), NEW c \in Channels, Tidy(q, c),
           NEW z \in Seq(Events), Distinct(z), ToSet(z) \cap HeldFor(q, c) = {}
    PROVE  /\ Moved(q, PushFront(q, c, z), c, ToSet(z), {})
           /\ ToSet(PushFront(q, c, z).queues[c]) \subseteq ToSet(z) \cup ToSet(q.queues[c])
           /\ PushFront(q, c, z).cancelled_batches = q.cancelled_batches
           /\ PushFront(q, c, z).withheld_native_steer = q.withheld_native_steer
<1> DEFINE r == PushFront(q, c, z)
           u == q.queues[c]
           w == q.withheld_native_steer[c]
           k == q.cancelled_batches[c]
           v == z \o u
<1>1. u \in Seq(Events) /\ w \in Seq(Events) /\ k \in Seq(Events)
  BY HeldTypes
<1>2. /\ r.queues[c] = Trim(v) /\ r.withheld_native_steer = q.withheld_native_steer
      /\ r.cancelled_batches = q.cancelled_batches /\ r.dropped = q.dropped \cup Excess(v)
      /\ \A d \in Channels : d # c => SameHeld(q, r, d)
  BY DEF PushFront, GoodQueue, QueueState, SameHeld
<1>3. Neat(u, w, k) /\ HeldFor(q, c) = ToSet(u) \cup ToSet(w) \cup ToSet(k)
  BY DEF Tidy, HeldFor
<1> HIDE DEF r, u, w, k
<1>4. v \in Seq(Events) /\ ToSet(v) = ToSet(z) \cup ToSet(u) /\ Distinct(v)
  BY <1>1, <1>3, Joined DEF Neat
<1> HIDE DEF v
<1>5. Distinct(Trim(v)) /\ ToSet(Trim(v)) \cup Excess(v) = ToSet(v)
  BY <1>4, Trimmed
<1>6. Neat(Trim(v), w, k)
  BY <1>3, <1>4, <1>5 DEF Neat
<1>7. Moved(q, r, c, ToSet(z), {})
  <2>1. r.withheld_native_steer[c] = w /\ r.cancelled_batches[c] = k
    BY <1>2 DEF w, k
  <2>2. ToSet(Trim(v)) \cup ToSet(w) \cup ToSet(k) \subseteq HeldFor(q, c) \cup ToSet(z)
    BY <1>3, <1>4, <1>5
  <2>3. HeldFor(q, c) \cup ToSet(z)
          \subseteq ToSet(Trim(v)) \cup ToSet(w) \cup ToSet(k) \cup Excess(v) \cup {}
    BY <1>3, <1>4, <1>5
  <2> QED BY <1>2, <1>6, <2>1, <2>2, <2>3, Moving
<1> QED BY <1>2, <1>4, <1>5, <1>7 DEF r, u

\* push: the event is in the queue, and the oldest may have made room.
LEMMA PushMoves ==
    ASSUME NEW q, GoodQueue(q), NEW c \in Channels, Tidy(q, c),
           NEW e \in Events, e \notin HeldFor(q, c)
    PROVE  /\ Moved(q, Push(q, c, e), c, {e}, {})
           /\ e \in ToSet(Push(q, c, e).queues[c])
           /\ ToSet(Push(q, c, e).queues[c]) \subseteq {e} \cup ToSet(q.queues[c])
           /\ Push(q, c, e).cancelled_batches = q.cancelled_batches
           /\ Push(q, c, e).withheld_native_steer = q.withheld_native_steer
<1> DEFINE r == Push(q, c, e)
           u == q.queues[c]
           w == q.withheld_native_steer[c]
           k == q.cancelled_batches[c]
           full == Len(u) >= MaxPending
           t == IF full THEN Tail(u) ELSE u
           x == IF full THEN {Head(u)} ELSE {}
           v == Append(t, e)
<1>1. u \in Seq(Events) /\ w \in Seq(Events) /\ k \in Seq(Events)
  BY HeldTypes
<1>2. /\ r.queues[c] = v /\ r.withheld_native_steer = q.withheld_native_steer
      /\ r.cancelled_batches = q.cancelled_batches /\ r.dropped = q.dropped \cup x
      /\ \A d \in Channels : d # c => SameHeld(q, r, d)
  BY DEF Push, GoodQueue, QueueState, SameHeld
<1>3. Neat(u, w, k) /\ HeldFor(q, c) = ToSet(u) \cup ToSet(w) \cup ToSet(k)
  BY DEF Tidy, HeldFor
<1> HIDE DEF r, u, w, k
<1>4. t \in Seq(Events) /\ Distinct(t) /\ ToSet(t) \cup x = ToSet(u)
  <2>1. CASE full
    <3>1. u # <<>>
      BY <2>1, EmptySeq, QueueAssumption
    <3> DEFINE h == Head(u)
               a == Tail(u)
    <3>2. h \in Events /\ a \in Seq(Events) /\ u = <<h>> \o a
      BY <1>1, <3>1, Headed
    <3> HIDE DEF h, a
    <3>3. <<h>> \in Seq(Events) /\ ToSet(<<h>>) = {h}
      BY <3>2, Single
    <3>4. /\ ToSet(<<h>> \o a) = ToSet(<<h>>) \cup ToSet(a)
          /\ Distinct(<<h>> \o a) => Distinct(a)
      BY <3>2, <3>3, Joined
    <3>5. Distinct(u)
      BY <1>3 DEF Neat
    <3> QED BY <2>1, <3>2, <3>3, <3>4, <3>5 DEF h, a
  <2>2. CASE ~full
    BY <1>1, <1>3, <2>2 DEF Neat
  <2> QED BY <2>1, <2>2
<1> HIDE DEF t, x
<1>5. v \in Seq(Events) /\ ToSet(v) = ToSet(t) \cup {e} /\ Distinct(v)
  <2>1. v = t \o <<e>>
    BY <1>4, AppendIsConcat
  <2>2. <<e>> \in Seq(Events) /\ ToSet(<<e>>) = {e} /\ Distinct(<<e>>)
    BY Single
  <2>3. e \notin ToSet(t)
    BY <1>3, <1>4
  <2> HIDE DEF v
  <2>4. /\ t \o <<e>> \in Seq(Events) /\ ToSet(t \o <<e>>) = ToSet(t) \cup ToSet(<<e>>)
        /\ Distinct(t) /\ Distinct(<<e>>) /\ ToSet(t) \cap ToSet(<<e>>) = {} => Distinct(t \o <<e>>)
    BY <1>4, <2>2, Joined
  <2> QED BY <1>4, <2>1, <2>2, <2>3, <2>4
<1> HIDE DEF v
<1>6. Neat(v, w, k)
  BY <1>3, <1>4, <1>5 DEF Neat
<1>7. Moved(q, r, c, {e}, {})
  <2>1. r.withheld_native_steer[c] = w /\ r.cancelled_batches[c] = k
    BY <1>2 DEF w, k
  <2>2. ToSet(v) \cup ToSet(w) \cup ToSet(k) \subseteq HeldFor(q, c) \cup {e}
    BY <1>3, <1>4, <1>5
  <2>3. HeldFor(q, c) \cup {e} \subseteq ToSet(v) \cup ToSet(w) \cup ToSet(k) \cup x \cup {}
    BY <1>3, <1>4, <1>5
  <2> QED BY <1>2, <1>6, <2>1, <2>2, <2>3, Moving
<1> QED BY <1>2, <1>4, <1>5, <1>7 DEF r, u

\* The channel's part of an expiry: withheld events go to the front of the queue.
LEMMA ExpireMoves ==
    ASSUME NEW q, GoodQueue(q), NEW c \in Channels, Tidy(q, c)
    PROVE  /\ Tidy(ExpireInFlight(q), c)
           /\ HeldFor(ExpireInFlight(q), c) \subseteq HeldFor(q, c)
           /\ HeldFor(q, c) \subseteq HeldFor(ExpireInFlight(q), c) \cup ExpireInFlight(q).dropped
           /\ q.dropped \subseteq ExpireInFlight(q).dropped
           /\ ExpireInFlight(q).cancelled_batches = q.cancelled_batches
<1> DEFINE r == ExpireInFlight(q)
           u == q.queues[c]
           w == q.withheld_native_steer[c]
           k == q.cancelled_batches[c]
           v == w \o u
           expired == {d \in Channels : q.in_flight_deadlines[d] = "past"}
<1>1. u \in Seq(Events) /\ w \in Seq(Events) /\ k \in Seq(Events)
  BY HeldTypes
<1>2. /\ r.cancelled_batches = q.cancelled_batches
      /\ r.dropped = q.dropped \cup UNION {Excess(Recovered(q, d)) : d \in expired}
      /\ r.queues = [d \in Channels |-> IF d \in expired THEN Trim(Recovered(q, d)) ELSE q.queues[d]]
      /\ r.withheld_native_steer =
           [d \in Channels |-> IF d \in expired THEN <<>> ELSE q.withheld_native_steer[d]]
  BY DEF ExpireInFlight, GoodQueue, QueueState
<1>3. Neat(u, w, k) /\ HeldFor(q, c) = ToSet(u) \cup ToSet(w) \cup ToSet(k)
  BY DEF Tidy, HeldFor
<1> HIDE DEF r
<1>4. r.cancelled_batches[c] = k
  BY <1>2
<1>5. CASE c \in expired
  <2>1. /\ r.queues[c] = Trim(v) /\ r.withheld_native_steer[c] = <<>>
        /\ Excess(v) \subseteq r.dropped
    BY <1>2, <1>5 DEF Recovered
  <2> HIDE DEF u, w, k
  <2>2. v \in Seq(Events) /\ ToSet(v) = ToSet(w) \cup ToSet(u) /\ Distinct(v)
    BY <1>1, <1>3, Joined DEF Neat
  <2> HIDE DEF v
  <2>3. Distinct(Trim(v)) /\ ToSet(Trim(v)) \cup Excess(v) = ToSet(v)
    BY <2>2, Trimmed
  <2>4. Neat(Trim(v), <<>>, k)
    BY <1>3, <2>2, <2>3, Nothing DEF Neat
  <2>5. HeldFor(r, c) = ToSet(Trim(v)) \cup ToSet(k)
    BY <1>4, <2>1, Nothing DEF HeldFor
  <2>6. Tidy(r, c)
    BY <1>4, <2>1, <2>4 DEF Tidy
  <2> QED BY <1>2, <1>3, <2>1, <2>2, <2>3, <2>5, <2>6 DEF r
<1>6. CASE c \notin expired
  <2>1. r.queues[c] = u /\ r.withheld_native_steer[c] = w
    BY <1>2, <1>6
  <2> HIDE DEF u, w, k
  <2>2. HeldFor(r, c) = HeldFor(q, c) /\ Tidy(r, c)
    BY <1>3, <1>4, <2>1 DEF Tidy, HeldFor
  <2> QED BY <1>2, <2>2 DEF r
<1> QED BY <1>5, <1>6

\* Without a deadline that has passed, the expiry does not move anything.
LEMMA ExpireIdle ==
    ASSUME NEW q, GoodQueue(q), \A c \in Channels : q.in_flight_deadlines[c] # "past"
    PROVE  SameEvents(q, ExpireInFlight(q))
<1>1. {c \in Channels : q.in_flight_deadlines[c] = "past"} = {}
  OBVIOUS
<1>2. /\ ExpireInFlight(q).cancelled_batches = q.cancelled_batches
      /\ ExpireInFlight(q).dropped = q.dropped \cup UNION {}
      /\ ExpireInFlight(q).queues = [d \in Channels |-> q.queues[d]]
      /\ ExpireInFlight(q).withheld_native_steer = [d \in Channels |-> q.withheld_native_steer[d]]
  BY <1>1 DEF ExpireInFlight, GoodQueue, QueueState
<1>3. /\ q.queues = [d \in Channels |-> q.queues[d]]
      /\ q.withheld_native_steer = [d \in Channels |-> q.withheld_native_steer[d]]
  BY DEF GoodQueue, QueueState
<1> QED BY <1>2, <1>3 DEF SameEvents

\* The events of a batch: no repetition, and none both new and merged.
TidyBatch(b) == /\ Distinct(b.events) /\ Distinct(b.cancelled_events)
                /\ ToSet(b.events) \cap ToSet(b.cancelled_events) = {}

\* The events of a batch.
Carried(b) == ToSet(b.events) \cup ToSet(b.cancelled_events)

\* flush_next takes the batch out of the queue.
LEMMA FlushMoves ==
    ASSUME NEW q, GoodQueue(q), NEW c \in Channels, Tidy(q, c),
           NEW b \in FlushedBatches(q, c)
    PROVE  /\ Moved(q, AfterFlush(q, c), c, {}, Carried(b))
           /\ TidyBatch(b)
           /\ Carried(b) \subseteq ToSet(q.queues[c]) \cup ToSet(q.cancelled_batches[c])
           /\ Carried(b) \cap HeldFor(AfterFlush(q, c), c) = {}
           /\ ToSet(b.cancelled_events) \subseteq ToSet(q.cancelled_batches[c])
           /\ AfterFlush(q, c).cancelled_batches[c] = <<>>
           /\ ToSet(AfterFlush(q, c).queues[c]) \subseteq ToSet(q.queues[c])
<1> DEFINE r == AfterFlush(q, c)
           u == q.queues[c]
           w == q.withheld_native_steer[c]
           k == q.cancelled_batches[c]
           n == DrainCount(q, c)
           s == SubSeq(u, 1, n)
           t == SubSeq(u, n + 1, Len(u))
<1>1. u \in Seq(Events) /\ w \in Seq(Events) /\ k \in Seq(Events)
  BY HeldTypes
<1>2. /\ r.queues[c] = t /\ r.withheld_native_steer[c] = w /\ r.cancelled_batches[c] = <<>>
      /\ r.dropped = q.dropped \cup {}
      /\ \A d \in Channels : d # c => SameHeld(q, r, d)
  BY DEF AfterFlush, GoodQueue, QueueState, SameHeld
<1>3. Neat(u, w, k) /\ HeldFor(q, c) = ToSet(u) \cup ToSet(w) \cup ToSet(k)
  BY DEF Tidy, HeldFor
<1>4. s \in Seq(Events) /\ t \in Seq(Events) /\ u = s \o t
  <2>1. n \in Nat /\ n <= Len(u)
    BY DrainCountType
  <2> HIDE DEF n, u
  <2> QED BY <1>1, <2>1, Cut
<1>5. \/ b.cancelled_events = k /\ b.events \in StableSorts(s)
      \/ b.cancelled_events = <<>> /\ b.events = k /\ n = 0
  <2>1. CASE c \in Flushable(q)
    <3>1. PICK y \in StableSorts(s) :
            b = [channel_id |-> c, events |-> y, cancelled_events |-> k,
                 cancel_reason |-> IF k = <<>> THEN NoReason ELSE q.cancel_reasons[c]]
      BY <2>1 DEF FlushedBatches
    <3> QED BY <3>1
  <2>2. CASE c \notin Flushable(q)
    <3>1. b = [channel_id |-> c, events |-> k, cancelled_events |-> <<>>,
               cancel_reason |-> q.cancel_reasons[c]]
      BY <2>2 DEF FlushedBatches
    <3>2. n = 0
      BY <2>2 DEF DrainCount
    <3> QED BY <3>1, <3>2
  <2> QED BY <2>1, <2>2
<1> HIDE DEF r, u, w, k, s, t, n
<1>6. ToSet(u) = ToSet(s) \cup ToSet(t) /\ Distinct(s) /\ Distinct(t) /\ ToSet(s) \cap ToSet(t) = {}
  <2>1. Distinct(s \o t)
    BY <1>3, <1>4 DEF Neat
  <2> QED BY <1>4, <2>1, Joined
<1>7. Neat(t, w, <<>>)
  BY <1>3, <1>6, Nothing DEF Neat
<1>8. HeldFor(r, c) = ToSet(t) \cup ToSet(w)
  BY <1>2, Nothing DEF HeldFor
<1>9. /\ TidyBatch(b) /\ ToSet(k) \subseteq Carried(b) /\ ToSet(s) \subseteq Carried(b)
      /\ Carried(b) \subseteq ToSet(s) \cup ToSet(k) /\ ToSet(b.cancelled_events) \subseteq ToSet(k)
  <2>1. CASE b.cancelled_events = k /\ b.events \in StableSorts(s)
    <3>1. Distinct(b.events) /\ ToSet(b.events) = ToSet(s)
      BY <1>4, <1>6, <2>1, Sorted
    <3> QED BY <1>3, <1>6, <2>1, <3>1 DEF TidyBatch, Carried, Neat
  <2>2. CASE b.cancelled_events = <<>> /\ b.events = k /\ n = 0
    <3>1. ToSet(s) = {}
      <4>1. s = <<>>
        BY <2>2, SubSeqEmpty DEF s
      <4> QED BY <4>1, Nothing
    <3> QED BY <1>3, <2>2, <3>1, Nothing DEF TidyBatch, Carried, Neat
  <2> QED BY <1>5, <2>1, <2>2
<1>10. Moved(q, r, c, {}, Carried(b))
  <2>1. ToSet(t) \cup ToSet(w) \cup ToSet(<<>>) \subseteq HeldFor(q, c) \cup {}
    BY <1>3, <1>6, Nothing
  <2>2. HeldFor(q, c) \cup {} \subseteq ToSet(t) \cup ToSet(w) \cup ToSet(<<>>) \cup {} \cup Carried(b)
    BY <1>3, <1>6, <1>9
  <2> QED BY <1>2, <1>7, <2>1, <2>2, Moving
<1>11. Carried(b) \cap HeldFor(r, c) = {}
  BY <1>3, <1>6, <1>8, <1>9 DEF Neat
<1> QED BY <1>2, <1>6, <1>9, <1>10, <1>11 DEF r, u, k

\* requeue_as_cancelled keeps the whole batch.
LEMMA CancelledMoves ==
    ASSUME NEW q, GoodQueue(q), NEW b \in FlushBatch, Tidy(q, b.channel_id), TidyBatch(b),
           Carried(b) \cap HeldFor(q, b.channel_id) = {}, NEW reason
    PROVE  LET r == RequeueAsCancelled(q, b, reason)
               c == b.channel_id
           IN /\ Moved(q, r, c, Carried(b), {})
              /\ ToSet(r.cancelled_batches[c]) = ToSet(q.cancelled_batches[c]) \cup Carried(b)
              /\ r.queues = q.queues /\ r.withheld_native_steer = q.withheld_native_steer
<1> DEFINE r == RequeueAsCancelled(q, b, reason)
           c == b.channel_id
           u == q.queues[c]
           w == q.withheld_native_steer[c]
           k == q.cancelled_batches[c]
           x == b.cancelled_events
           y == b.events
           z == k \o x \o y
<1>0. c \in Channels /\ x \in Seq(Events) /\ y \in Seq(Events)
  BY DEF FlushBatch
<1>1. u \in Seq(Events) /\ w \in Seq(Events) /\ k \in Seq(Events)
  BY <1>0, HeldTypes
<1>2. /\ r.queues = q.queues /\ r.withheld_native_steer = q.withheld_native_steer
      /\ r.cancelled_batches[c] = z /\ r.dropped = q.dropped \cup {}
      /\ \A d \in Channels : d # c => SameHeld(q, r, d)
  BY <1>0 DEF RequeueAsCancelled, GoodQueue, QueueState, SameHeld
<1>3. Neat(u, w, k) /\ HeldFor(q, c) = ToSet(u) \cup ToSet(w) \cup ToSet(k)
  BY DEF Tidy, HeldFor
<1>4. /\ Distinct(x) /\ Distinct(y) /\ ToSet(x) \cap ToSet(y) = {}
      /\ Carried(b) = ToSet(x) \cup ToSet(y)
  BY DEF TidyBatch, Carried
<1>5. Carried(b) \cap HeldFor(q, c) = {}
  OBVIOUS
<1>6. r.queues[c] = u /\ r.withheld_native_steer[c] = w
  BY <1>2
<1> HIDE DEF r, c, u, w, k, x, y
<1>7. Distinct(z) /\ ToSet(z) = ToSet(k) \cup Carried(b)
  <2>1. k \o x \in Seq(Events) /\ ToSet(k \o x) = ToSet(k) \cup ToSet(x) /\ Distinct(k \o x)
    <3>1. ToSet(k) \cap ToSet(x) = {} /\ Distinct(k)
      BY <1>3, <1>4, <1>5 DEF Neat
    <3> QED BY <1>0, <1>1, <1>4, <3>1, Joined
  <2> DEFINE v == k \o x
  <2>2. ToSet(v) \cap ToSet(y) = {}
    BY <1>3, <1>4, <1>5, <2>1
  <2> HIDE DEF v
  <2>3. ToSet(v \o y) = ToSet(v) \cup ToSet(y) /\ Distinct(v \o y)
    BY <1>0, <1>4, <2>1, <2>2, Joined DEF v
  <2> QED BY <1>4, <2>1, <2>3 DEF v
<1> HIDE DEF z
<1>8. Neat(u, w, z)
  BY <1>3, <1>5, <1>7 DEF Neat
<1>9. Moved(q, r, c, Carried(b), {})
  <2>1. ToSet(u) \cup ToSet(w) \cup ToSet(z) \subseteq HeldFor(q, c) \cup Carried(b)
    BY <1>3, <1>7
  <2>2. HeldFor(q, c) \cup Carried(b) \subseteq ToSet(u) \cup ToSet(w) \cup ToSet(z) \cup {} \cup {}
    BY <1>3, <1>7
  <2> QED BY <1>2, <1>6, <1>8, <2>1, <2>2, Moving
<1> QED BY <1>2, <1>7, <1>9 DEF r, c, k

\* requeue and requeue_preserve_timestamps put the batch's own events back and
\* forget the merged ones.
LEMMA RequeueMoves ==
    ASSUME NEW q, GoodQueue(q), NEW b \in FlushBatch, Tidy(q, b.channel_id), TidyBatch(b),
           Carried(b) \cap HeldFor(q, b.channel_id) = {}
    PROVE  /\ DeadLetters(q, b) => SameEvents(q, Requeue(q, b))
           /\ \A r \in {Requeue(q, b), RequeuePreserveTimestamps(q, b)} :
                 \/ r = Requeue(q, b) /\ DeadLetters(q, b)
                 \/ /\ Moved(q, r, b.channel_id, ToSet(b.events), {})
                    /\ ToSet(r.queues[b.channel_id])
                          \subseteq ToSet(b.events) \cup ToSet(q.queues[b.channel_id])
                    /\ r.cancelled_batches = q.cancelled_batches
                    /\ r.withheld_native_steer = q.withheld_native_steer
<1> DEFINE c == b.channel_id
           p == PushFront(q, c, b.events)
<1>1. c \in Channels /\ b.events \in Seq(Events) /\ Distinct(b.events)
      /\ ToSet(b.events) \cap HeldFor(q, c) = {}
  BY DEF FlushBatch, TidyBatch, Carried
<1>2. /\ Moved(q, p, c, ToSet(b.events), {})
      /\ ToSet(p.queues[c]) \subseteq ToSet(b.events) \cup ToSet(q.queues[c])
      /\ p.cancelled_batches = q.cancelled_batches
      /\ p.withheld_native_steer = q.withheld_native_steer
  BY <1>1, PushFrontMoves
<1>3. GoodQueue(p)
  BY <1>1, PushFrontGood
<1>4. ~DeadLetters(q, b) => SameEvents(p, Requeue(q, b))
  BY <1>1, <1>3 DEF Requeue, SameEvents, GoodQueue, QueueState
<1>5. DeadLetters(q, b) => SameEvents(q, Requeue(q, b))
  BY DEF Requeue, SameEvents, GoodQueue, QueueState
<1>6. RequeuePreserveTimestamps(q, b) = p
  BY DEF RequeuePreserveTimestamps
<1> HIDE DEF p, c
<1>7. ASSUME ~DeadLetters(q, b)
      PROVE  /\ Moved(q, Requeue(q, b), c, ToSet(b.events), {})
             /\ ToSet(Requeue(q, b).queues[c]) \subseteq ToSet(b.events) \cup ToSet(q.queues[c])
             /\ Requeue(q, b).cancelled_batches = q.cancelled_batches
             /\ Requeue(q, b).withheld_native_steer = q.withheld_native_steer
  <2> DEFINE r == Requeue(q, b)
  <2>1. SameEvents(p, r)
    BY <1>4, <1>7
  <2> HIDE DEF r
  <2>2. HeldFor(r, c) = HeldFor(p, c) /\ (Tidy(r, c) <=> Tidy(p, c))
    BY <2>1 DEF SameEvents, HeldFor, Tidy
  <2>3. Moved(q, r, c, ToSet(b.events), {})
    BY <1>2, <2>1, <2>2 DEF Moved, SameEvents, SameHeld
  <2> QED BY <1>2, <2>1, <2>3 DEF SameEvents, r
<1> QED BY <1>2, <1>5, <1>6, <1>7 DEF c

\* drain_channel empties the channel.
LEMMA DrainMoves ==
    ASSUME NEW q, GoodQueue(q), NEW c \in Channels, Tidy(q, c)
    PROVE  /\ Moved(q, DrainChannel(q, c), c, {}, HeldFor(q, c))
           /\ DrainChannel(q, c).queues[c] = <<>>
           /\ DrainChannel(q, c).cancelled_batches[c] = <<>>
<1> DEFINE r == DrainChannel(q, c)
<1>1. /\ r.queues[c] = <<>> /\ r.withheld_native_steer[c] = <<>> /\ r.cancelled_batches[c] = <<>>
      /\ r.dropped = q.dropped \cup {}
      /\ \A d \in Channels : d # c => SameHeld(q, r, d)
  BY DEF DrainChannel, GoodQueue, QueueState, SameHeld
<1>2. Neat(<<>>, <<>>, <<>>)
  BY Nothing DEF Neat
<1> HIDE DEF r
<1>3. ToSet(<<>>) \cup ToSet(<<>>) \cup ToSet(<<>>) \subseteq HeldFor(q, c) \cup {}
  BY Nothing
<1>4. HeldFor(q, c) \cup {}
        \subseteq ToSet(<<>>) \cup ToSet(<<>>) \cup ToSet(<<>>) \cup {} \cup HeldFor(q, c)
  OBVIOUS
<1>5. Moved(q, r, c, {}, HeldFor(q, c))
  BY <1>1, <1>2, <1>3, <1>4, Moving
<1> QED BY <1>1, <1>5 DEF r

\* A steered event is withheld: from now on it is not in the queue.
LEMMA WithholdMoves ==
    ASSUME NEW q, GoodQueue(q), NEW c \in Channels, Tidy(q, c), NEW e \in Events
    PROVE  /\ Moved(q, MarkNativeSteerPending(q, c, e), c, {}, {})
           /\ ToSet(MarkNativeSteerPending(q, c, e).queues[c]) = ToSet(q.queues[c]) \ {e}
           /\ MarkNativeSteerPending(q, c, e).cancelled_batches = q.cancelled_batches
<1> DEFINE r == MarkNativeSteerPending(q, c, e)
           u == q.queues[c]
           w == q.withheld_native_steer[c]
           k == q.cancelled_batches[c]
           v == RemoveFirst(u, e)
           y == Append(w, e)
<1>1. u \in Seq(Events) /\ w \in Seq(Events) /\ k \in Seq(Events)
  BY HeldTypes
<1>2. Neat(u, w, k) /\ HeldFor(q, c) = ToSet(u) \cup ToSet(w) \cup ToSet(k)
  BY DEF Tidy, HeldFor
<1>3. CASE e \notin ToSet(u)
  <2>1. r = q
    BY <1>3 DEF MarkNativeSteerPending
  <2>2. Moved(q, q, c, {}, {})
    BY DEF Moved, SameHeld
  <2> QED BY <1>3, <2>1, <2>2
<1>4. CASE e \in ToSet(u)
  <2>1. /\ r.queues[c] = v /\ r.withheld_native_steer[c] = y
        /\ r.cancelled_batches = q.cancelled_batches
        /\ r.dropped = q.dropped \cup {}
        /\ \A d \in Channels : d # c => SameHeld(q, r, d)
    BY <1>4 DEF MarkNativeSteerPending, GoodQueue, QueueState, SameHeld
  <2>2. r.cancelled_batches[c] = k
    BY <2>1
  <2> HIDE DEF r, u, w, k
  <2>3. Distinct(v) /\ ToSet(v) = ToSet(u) \ {e}
    BY <1>1, <1>2, Removed DEF Neat
  <2>4. Distinct(y) /\ ToSet(y) = ToSet(w) \cup {e}
    <3>1. y = w \o <<e>>
      BY <1>1, AppendIsConcat
    <3>2. <<e>> \in Seq(Events) /\ ToSet(<<e>>) = {e} /\ Distinct(<<e>>)
      BY Single
    <3>3. e \notin ToSet(w) /\ Distinct(w)
      BY <1>2, <1>4 DEF Neat
    <3> HIDE DEF y
    <3>4. /\ ToSet(w \o <<e>>) = ToSet(w) \cup ToSet(<<e>>)
          /\ Distinct(w) /\ Distinct(<<e>>) /\ ToSet(w) \cap ToSet(<<e>>) = {}
               => Distinct(w \o <<e>>)
      BY <1>1, <3>2, Joined
    <3> QED BY <3>1, <3>2, <3>3, <3>4
  <2> HIDE DEF v, y
  <2>5. Neat(v, y, k)
    BY <1>2, <1>4, <2>3, <2>4 DEF Neat
  <2>6. ToSet(v) \cup ToSet(y) \cup ToSet(k) \subseteq HeldFor(q, c) \cup {}
    BY <1>2, <1>4, <2>3, <2>4
  <2>7. HeldFor(q, c) \cup {} \subseteq ToSet(v) \cup ToSet(y) \cup ToSet(k) \cup {} \cup {}
    BY <1>2, <2>3, <2>4
  <2>8. Moved(q, r, c, {}, {})
    BY <2>1, <2>2, <2>5, <2>6, <2>7, Moving
  <2> QED BY <2>1, <2>3, <2>8 DEF r, u
<1> QED BY <1>3, <1>4

\* A withheld event goes back to the queue.
LEMMA ReleaseMoves ==
    ASSUME NEW q, GoodQueue(q), NEW c \in Channels, Tidy(q, c), NEW e \in Events
    PROVE  /\ Moved(q, ReleaseNativeSteer(q, c, e), c, {}, {})
           /\ ToSet(ReleaseNativeSteer(q, c, e).queues[c]) \subseteq {e} \cup ToSet(q.queues[c])
           /\ ReleaseNativeSteer(q, c, e).cancelled_batches = q.cancelled_batches
<1> DEFINE r == ReleaseNativeSteer(q, c, e)
           p == [q EXCEPT !.withheld_native_steer[c] = RemoveFirst(@, e)]
           u == q.queues[c]
           w == q.withheld_native_steer[c]
           k == q.cancelled_batches[c]
           v == RemoveFirst(w, e)
<1>1. u \in Seq(Events) /\ w \in Seq(Events) /\ k \in Seq(Events)
  BY HeldTypes
<1>2. Neat(u, w, k) /\ HeldFor(q, c) = ToSet(u) \cup ToSet(w) \cup ToSet(k)
  BY DEF Tidy, HeldFor
<1>3. CASE e \notin ToSet(w)
  <2>1. r = q
    BY <1>3 DEF ReleaseNativeSteer
  <2>2. Moved(q, q, c, {}, {})
    BY DEF Moved, SameHeld
  <2> QED BY <2>1, <2>2
<1>4. CASE e \in ToSet(w)
  <2>1. r = PushFront(p, c, <<e>>)
    BY <1>4 DEF ReleaseNativeSteer
  <2>2. Distinct(v) /\ ToSet(v) = ToSet(w) \ {e} /\ v \in Seq(Events)
    <3> HIDE DEF w, u, k
    <3> QED BY <1>1, <1>2, Removed DEF Neat
  <2>3. /\ p.queues = q.queues /\ p.withheld_native_steer[c] = v
        /\ p.cancelled_batches = q.cancelled_batches /\ p.dropped = q.dropped
        /\ \A d \in Channels : d # c => SameHeld(q, p, d)
    BY DEF GoodQueue, QueueState, SameHeld
  <2>4. GoodQueue(p)
    <3> HIDE DEF v
    <3>1. p = [q EXCEPT !.withheld_native_steer = [q.withheld_native_steer EXCEPT ![c] = v]]
      BY DEF v
    <3>2. [q.withheld_native_steer EXCEPT ![c] = v] \in [Channels -> Seq(Events)]
      BY <2>2, EntryType DEF GoodQueue, QueueState
    <3> QED BY <3>1, <3>2 DEF GoodQueue, QueueState
  <2>5. p.queues[c] = u /\ p.cancelled_batches[c] = k
    BY <2>3
  <2> HIDE DEF p, u, w, k, v
  <2>6. Tidy(p, c) /\ HeldFor(p, c) = HeldFor(q, c) \ {e}
    <3>1. Neat(u, v, k)
      BY <1>2, <2>2 DEF Neat
    <3>2. HeldFor(p, c) = ToSet(u) \cup ToSet(v) \cup ToSet(k)
      BY <2>3, <2>5 DEF HeldFor
    <3> QED BY <1>2, <1>4, <2>2, <2>3, <2>5, <3>1, <3>2 DEF Tidy, Neat
  <2>7. <<e>> \in Seq(Events) /\ ToSet(<<e>>) = {e} /\ Distinct(<<e>>)
    BY Single
  <2>8. ToSet(<<e>>) \cap HeldFor(p, c) = {}
    BY <2>6, <2>7
  <2>9. /\ Moved(p, r, c, ToSet(<<e>>), {})
        /\ ToSet(r.queues[c]) \subseteq ToSet(<<e>>) \cup ToSet(p.queues[c])
        /\ r.cancelled_batches = p.cancelled_batches
    <3> DEFINE z == <<e>>
               f == PushFront(p, c, z)
    <3>1. r = f
      BY <2>1
    <3>2. z \in Seq(Events) /\ Distinct(z) /\ ToSet(z) \cap HeldFor(p, c) = {}
      BY <2>7, <2>8
    <3> HIDE DEF z, r
    <3>3. /\ Moved(p, f, c, ToSet(z), {})
          /\ ToSet(f.queues[c]) \subseteq ToSet(z) \cup ToSet(p.queues[c])
          /\ f.cancelled_batches = p.cancelled_batches
      BY <2>4, <2>6, <3>2, PushFrontMoves
    <3> QED BY <3>1, <3>3 DEF z
  <2> HIDE DEF r
  <2>10. Moved(q, r, c, {}, {})
    <3>1. e \in HeldFor(q, c)
      BY <1>2, <1>4
    <3> QED BY <2>3, <2>6, <2>7, <2>9, <3>1 DEF Moved, SameHeld
  <2> QED BY <2>3, <2>7, <2>9, <2>10 DEF r
<1> QED BY <1>3, <1>4

\* A steered event is delivered and leaves the queue.
LEMMA RemoveMoves ==
    ASSUME NEW q, GoodQueue(q), NEW c \in Channels, Tidy(q, c), NEW e \in Events
    PROVE  /\ Moved(q, RemoveEvent(q, c, e), c, {}, {e})
           /\ ToSet(RemoveEvent(q, c, e).queues[c]) \subseteq ToSet(q.queues[c])
           /\ RemoveEvent(q, c, e).cancelled_batches = q.cancelled_batches
<1> DEFINE r == RemoveEvent(q, c, e)
           u == q.queues[c]
           w == q.withheld_native_steer[c]
           k == q.cancelled_batches[c]
           v == RemoveFirst(u, e)
           y == RemoveFirst(w, e)
<1>1. u \in Seq(Events) /\ w \in Seq(Events) /\ k \in Seq(Events)
  BY HeldTypes
<1>2. Neat(u, w, k) /\ HeldFor(q, c) = ToSet(u) \cup ToSet(w) \cup ToSet(k)
  BY DEF Tidy, HeldFor
<1>3. /\ r.queues[c] = v /\ r.withheld_native_steer[c] = y
      /\ r.cancelled_batches = q.cancelled_batches
      /\ r.dropped = q.dropped \cup {}
      /\ \A d \in Channels : d # c => SameHeld(q, r, d)
  BY DEF RemoveEvent, GoodQueue, QueueState, SameHeld
<1>4. r.cancelled_batches[c] = k
  BY <1>3
<1> HIDE DEF r, u, w, k
<1>5. Distinct(v) /\ ToSet(v) = ToSet(u) \ {e} /\ Distinct(y) /\ ToSet(y) = ToSet(w) \ {e}
  BY <1>1, <1>2, Removed DEF Neat
<1> HIDE DEF v, y
<1>6. Neat(v, y, k)
  BY <1>2, <1>5 DEF Neat
<1>7. ToSet(v) \cup ToSet(y) \cup ToSet(k) \subseteq HeldFor(q, c) \cup {}
  BY <1>2, <1>5
<1>8. HeldFor(q, c) \cup {} \subseteq ToSet(v) \cup ToSet(y) \cup ToSet(k) \cup {} \cup {e}
  BY <1>2, <1>5
<1>9. Moved(q, r, c, {}, {e})
  BY <1>3, <1>4, <1>6, <1>7, <1>8, Moving
<1> QED BY <1>3, <1>5, <1>9 DEF r, u
=============================================================================
