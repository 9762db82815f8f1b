----------------------------- MODULE EventQueue -----------------------------
(***************************************************************************)
(* The per-channel event queue of the agent harness                        *)
(* (crates/buzz-acp/src/queue.rs, struct EventQueue).                      *)
(*                                                                         *)
(* The queue is owned by the harness main loop, whose handlers call        *)
(* several of its methods in a row without yielding.  Its state is         *)
(* therefore one record and every method an operator from record to        *)
(* record, so that a handler is the composition of the calls it makes      *)
(* (module AgentHarness).                                                  *)
(*                                                                         *)
(* Data.  An event is the natural number that orders it by received_at.    *)
(* An Instant that is only ever compared with now is one of "absent" (no   *)
(* map entry), "future" and "past"; the clock moves it from "future" to    *)
(* "past".  A map from channels is a function that is total on Channels:   *)
(* an absent entry is the empty sequence, 0, "absent" or "none", which is  *)
(* what the code's entry().or_default() makes of it.                       *)
(***************************************************************************)
EXTENDS Integers, SequencesExt

CONSTANTS Channels,    \* channels the agent is subscribed to
          Events,      \* events, ordered by received_at
          created_at,  \* the created_at an event's author gave it
          MaxPending,  \* MAX_PENDING_PER_CHANNEL
          MaxBatch,    \* MAX_BATCH_EVENTS
          MaxRetries,  \* MAX_RETRIES
          DedupMode    \* what push does with events of a busy channel

ASSUME QueueAssumption ==
    /\ Events \subseteq Nat
    /\ created_at \in [Events -> Nat]
    /\ MaxPending \in Nat \ {0}
    /\ MaxBatch \in Nat \ {0}
    /\ MaxRetries \in Nat
    /\ DedupMode \in {"Drop", "Queue"}

Instant == {"absent", "future", "past"}
CancelReason == {"Steer", "Interrupt"}
NoReason == "none"

FlushBatch == [channel_id : Channels,
               events : Seq(Events),
               cancelled_events : Seq(Events),
               cancel_reason : CancelReason \cup {NoReason}]

\* in_flight_batch_sizes only feeds a log line and is left out.  dropped
\* stands for the warnings that name an event shed to keep a queue in its cap.
QueueState == [queues : [Channels -> Seq(Events)],
               in_flight_channels : SUBSET Channels,
               in_flight_deadlines : [Channels -> Instant],
               retry_after : [Channels -> Instant],
               retry_counts : [Channels -> 0..MaxRetries],
               cancelled_batches : [Channels -> Seq(Events)],
               cancel_reasons : [Channels -> CancelReason \cup {NoReason}],
               withheld_native_steer : [Channels -> Seq(Events)],
               dropped : SUBSET Events]

\* EventQueue::new
NewQueue ==
    [queues |-> [c \in Channels |-> <<>>],
     in_flight_channels |-> {},
     in_flight_deadlines |-> [c \in Channels |-> "absent"],
     retry_after |-> [c \in Channels |-> "absent"],
     retry_counts |-> [c \in Channels |-> 0],
     cancelled_batches |-> [c \in Channels |-> <<>>],
     cancel_reasons |-> [c \in Channels |-> NoReason],
     withheld_native_steer |-> [c \in Channels |-> <<>>],
     dropped |-> {}]

-----------------------------------------------------------------------------
(* Helpers.                                                                *)

Least(a, b) == IF a <= b THEN a ELSE b

\* while queue.len() > MAX_PENDING_PER_CHANNEL { queue.pop_back() }
Trim(s) == SubSeq(s, 1, Least(Len(s), MaxPending))
Excess(s) == {s[i] : i \in {j \in 1..Len(s) : j > MaxPending}}

\* Mutant: puts a sequence back without looking at the cap.
PushFrontUncapped(q, c, s) == [q EXCEPT !.queues[c] = s \o @]

\* Put a sequence back in front of the channel's queue and enforce the cap.
PushFront(q, c, s) ==
    [q EXCEPT !.queues[c] = Trim(s \o @),
              !.dropped = @ \cup Excess(s \o q.queues[c])]

\* The one stable sort of s by created_at, as the set that holds it.
StableSorts(s) ==
    {t \in [1..Len(s) -> ToSet(s)] :
        \E p \in Bijection(1..Len(s), 1..Len(s)) :
            /\ \A i \in 1..Len(s) : t[i] = s[p[i]]
            /\ \A i, j \in 1..Len(s) : i < j =>
                  \/ created_at[t[i]] < created_at[t[j]]
                  \/ created_at[t[i]] = created_at[t[j]] /\ p[i] < p[j]}

-----------------------------------------------------------------------------
(* push: false in drop mode for a busy channel; at the cap the oldest      *)
(* queued event makes room.                                                *)

PushAccepts(q, c) == ~(DedupMode = "Drop" /\ c \in q.in_flight_channels)

Push(q, c, e) ==
    LET full == Len(q.queues[c]) >= MaxPending IN
    [q EXCEPT !.queues[c] = Append(IF full THEN Tail(@) ELSE @, e),
              !.dropped = IF full THEN @ \cup {Head(q.queues[c])} ELSE @]

(* flush_next, in the order of its steps: expire, pick, drain, mark.       *)

\* Mutant: logs the withheld events of an expired channel instead of
\* recovering them.
ExpireForgetsWithheld(q) ==
    LET expired == {c \in Channels : q.in_flight_deadlines[c] = "past"}
    IN [q EXCEPT
          !.in_flight_channels = @ \ expired,
          !.in_flight_deadlines =
              [c \in Channels |-> IF c \in expired THEN "absent" ELSE @[c]],
          !.withheld_native_steer =
              [c \in Channels |-> IF c \in expired THEN <<>> ELSE @[c]]]

\* recover_withheld_for_expired_channel: the queue before its cap is enforced.
Recovered(q, c) == q.withheld_native_steer[c] \o q.queues[c]

\* The expiry block shared by flush_next and has_flushable_work.
ExpireInFlight(q) ==
    LET expired == {c \in Channels : q.in_flight_deadlines[c] = "past"}
    IN [q EXCEPT
          !.in_flight_channels = @ \ expired,
          !.in_flight_deadlines =
              [c \in Channels |-> IF c \in expired THEN "absent" ELSE @[c]],
          !.queues =
              [c \in Channels |-> IF c \in expired THEN Trim(Recovered(q, c))
                                  ELSE @[c]],
          !.withheld_native_steer =
              [c \in Channels |-> IF c \in expired THEN <<>> ELSE @[c]],
          !.dropped = @ \cup UNION {Excess(Recovered(q, c)) : c \in expired}]

Flushable(q) ==
    {c \in Channels : /\ q.queues[c] # <<>>
                      /\ c \notin q.in_flight_channels
                      /\ q.retry_after[c] # "future"}

CancelledReady(q) ==
    {c \in Channels : /\ q.cancelled_batches[c] # <<>>
                      /\ c \notin q.in_flight_channels}

\* The flushable channel whose head was received first; failing that, any
\* channel whose cancelled batch waits, throttled or not.
FlushChoices(q) ==
    IF Flushable(q) # {}
    THEN {c \in Flushable(q) :
            \A d \in Flushable(q) : Head(q.queues[c]) <= Head(q.queues[d])}
    ELSE CancelledReady(q)

DrainCount(q, c) ==
    IF c \in Flushable(q) THEN Least(MaxBatch, Len(q.queues[c])) ELSE 0

FlushedBatches(q, c) ==
    IF c \in Flushable(q)
    THEN {[channel_id |-> c,
           events |-> t,
           cancelled_events |-> q.cancelled_batches[c],
           cancel_reason |-> IF q.cancelled_batches[c] = <<>>
                             THEN NoReason ELSE q.cancel_reasons[c]] :
          t \in StableSorts(SubSeq(q.queues[c], 1, DrainCount(q, c)))}
    ELSE {[channel_id |-> c,
           events |-> q.cancelled_batches[c],
           cancelled_events |-> <<>>,
           cancel_reason |-> q.cancel_reasons[c]]}

AfterFlush(q, c) ==
    [q EXCEPT !.queues[c] = SubSeq(@, DrainCount(q, c) + 1, Len(@)),
              !.in_flight_channels = @ \cup {c},
              !.in_flight_deadlines[c] = "future",
              !.cancelled_batches[c] = <<>>,
              !.cancel_reasons[c] = NoReason]

HasFlushableWork(q) ==
    LET x == ExpireInFlight(q) IN Flushable(x) # {} \/ CancelledReady(x) # {}

(* mark_complete: an active throttle keeps the retry counter.              *)

\* Mutant: hands withheld events back when the turn ends.
MarkCompleteReleases(q, c) ==
    [q EXCEPT !.in_flight_channels = @ \ {c},
              !.in_flight_deadlines[c] = "absent",
              !.queues[c] = q.withheld_native_steer[c] \o @,
              !.withheld_native_steer[c] = <<>>]

MarkComplete(q, c) ==
    LET throttled == q.retry_after[c] = "future" IN
    [q EXCEPT !.in_flight_channels = @ \ {c},
              !.in_flight_deadlines[c] = "absent",
              !.retry_after[c] = IF throttled THEN @ ELSE "absent",
              !.retry_counts[c] = IF throttled THEN @ ELSE 0]

(* The three ways a batch comes back.                                      *)

\* Mutant: allows one attempt too many.
DeadLettersLate(q, b) == q.retry_counts[b.channel_id] > MaxRetries

DeadLetters(q, b) == q.retry_counts[b.channel_id] + 1 > MaxRetries

Requeue(q, b) ==
    LET c == b.channel_id IN
    IF DeadLetters(q, b)
    THEN [q EXCEPT !.retry_counts[c] = 0, !.retry_after[c] = "absent"]
    ELSE [PushFront(q, c, b.events) EXCEPT !.retry_counts[c] = @ + 1,
                                           !.retry_after[c] = "future"]

RequeuePreserveTimestamps(q, b) == PushFront(q, b.channel_id, b.events)

RequeueAsCancelled(q, b, reason) ==
    [q EXCEPT !.cancelled_batches[b.channel_id] =
                  @ \o b.cancelled_events \o b.events,
              !.cancel_reasons[b.channel_id] = reason]

(* Channel removal and the native-steer side table.                        *)

DrainChannel(q, c) ==
    [q EXCEPT !.queues[c] = <<>>,
              !.retry_after[c] = "absent",
              !.retry_counts[c] = 0,
              !.cancelled_batches[c] = <<>>,
              !.cancel_reasons[c] = NoReason,
              !.withheld_native_steer[c] = <<>>]

\* Mutant: leaves the withheld event in the queue.
MarkPendingKeepsQueued(q, c, e) ==
    [q EXCEPT !.withheld_native_steer[c] = Append(@, e)]

MarkNativeSteerPending(q, c, e) ==
    IF e \notin ToSet(q.queues[c]) THEN q
    ELSE [q EXCEPT !.queues[c] = RemoveFirst(@, e),
                   !.withheld_native_steer[c] = Append(@, e)]

\* Mutant: drops the withheld event.
ReleaseForgets(q, c, e) ==
    [q EXCEPT !.withheld_native_steer[c] = RemoveFirst(@, e)]

ReleaseNativeSteer(q, c, e) ==
    IF e \notin ToSet(q.withheld_native_steer[c]) THEN q
    ELSE PushFront([q EXCEPT !.withheld_native_steer[c] = RemoveFirst(@, e)],
                   c, <<e>>)

RemoveEvent(q, c, e) ==
    [q EXCEPT !.withheld_native_steer[c] = RemoveFirst(@, e),
              !.queues[c] = RemoveFirst(@, e)]

ExtendInFlightDeadline(q, c) ==
    [q EXCEPT !.in_flight_deadlines[c] = IF @ = "absent" THEN @ ELSE "future"]

(* compact_expired_state: retry counters survive only where something can  *)
(* still be retried.                                                       *)

CompactExpiredState(q) ==
    LET after == [c \in Channels |->
                    IF q.retry_after[c] = "past" THEN "absent"
                    ELSE q.retry_after[c]]
        live(c) == \/ after[c] # "absent"
                   \/ q.queues[c] # <<>>
                   \/ c \in q.in_flight_channels
    IN [q EXCEPT !.retry_after = after,
                 !.retry_counts = [c \in Channels |->
                                     IF live(c) THEN @[c] ELSE 0]]

\* The clock passes an Instant of the queue.
ThrottleElapses(q, c) == [q EXCEPT !.retry_after[c] = "past"]
DeadlineElapses(q, c) == [q EXCEPT !.in_flight_deadlines[c] = "past"]

\* Everything the queue holds for channel c.
HeldFor(q, c) == ToSet(q.queues[c]) \cup ToSet(q.withheld_native_steer[c])
                    \cup ToSet(q.cancelled_batches[c])
=============================================================================
