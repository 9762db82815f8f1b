# Verification of Buzz: agent harness, git hosting, push notifications

TLA+ models, TLC runs and TLAPS proofs for this repository: a Nostr-based team
relay (`buzz-relay` and its crates) and the harness that lets coding agents
take part in its channels (`crates/buzz-acp`). Three subsystems are modelled, the
ones in which concurrency, failure and retries decide what users see:

* the **agent harness** (`buzz-acp`): one event loop, a queue per channel, a pool
  of agent processes that crash and are respawned, turns that are steered,
  cancelled and timed out while they run;
* **git on object storage** (`buzz-relay` `api/git`, announcements in
  `handlers/side_effects.rs`, `buzz-db` `git_repo.rs`): pushes and announcements
  on relays that share no lock, only a bucket with conditional writes and a
  database;
* **push notifications** (`buzz-db` `push.rs`, `buzz-relay` `push_runtime.rs`,
  `buzz-push-gateway`): from the insert of an event through a gate, a match queue
  and an outbox to a gateway that talks to APNs.

Every definition is translated from the source; `PROJECT.json` ("map") gives the
lines. Paths below are relative to `src/crates/buzz-acp/src/` unless they name a
crate.

## 1. Inventory

### The harness (`buzz-acp`)

| part | state | operations | interacts with |
|---|---|---|---|
| event queue, `queue.rs` | per channel: queued events, in-flight mark and deadline, retry counter and throttle, batch kept from a cancelled turn, steers withheld for an ack | `push`, `flush_next`, `mark_complete`, three requeues, `drain_channel`, mark / release / remove of a native steer, `extend_in_flight_deadline`, `compact_expired_state` | owned by the main loop |
| slot circuit, `lib.rs` | per slot: crash times, `open_until`, `respawn_in_flight` | `record_crash`, `can_refill`, `mark_spawn_failed` | main loop, respawn tasks |
| agent pool, `pool.rs` | idle agents with their sessions, `task_map` | `try_claim`, `return_agent`, `send_steer`, session invalidation | main loop; prompt tasks return agents over `result_rx` |
| main loop, `lib.rs` | the above, `heartbeat_in_flight`, `removed_channels`, maintenance clock | one biased `select!`: results, panics, steer acks, relay events, heartbeat, presence and typing ticks, observer commands, shutdown | relay connection, tasks |
| prompt task and read loop, `pool.rs`, `acp.rs` | the turn: idle and hard deadlines, control receiver, steer mailbox (capacity 1), request on the wire | `run_prompt_task`, read loop, `cancel_with_cleanup` | agent process (stdin and stdout), main loop |
| lazy pool, `pool_lifecycle.rs` | Listening / Waking / Failed, attempt number, retry time | `start_wake_if_due`, `complete_wake`, `cancel_wake` | wake task, shutdown watch |
| relay connection, `relay.rs` | subscriptions, since-watermarks, reconnect | reconnect, resubscribe, replay | relay |
| configuration, filters, setup mode, usage, observer, engram fetch | parsed settings, counters | parsing, matching, HTTP | main loop |

What makes it correct: a message that was accepted is prompted once, or given up
knowingly; a channel has one turn at a time; a slot has one agent; the breaker
stops crash loops and lets go again; nothing waits for ever; nothing outlives
the harness.

What makes it hard: results, panics and acks of one turn reach the loop in any
order; a control signal and a steer race the end of the turn; a backstop frees a
channel whose turn may still live; a batch is flushed before an agent is claimed;
a shutdown races a start.

### Git on object storage (`buzz-relay`)

| part | state | operations | interacts with |
|---|---|---|---|
| bucket, `store.rs` | packs and manifests under their digests, one pointer per repository | create-only PUT, conditional PUT of the pointer, GET | shared by all relays |
| push, `transport.rs`, `hydrate.rs`, `cas_publish.rs` | a private workspace, the pointer's ETag and the parent manifest read at its start | hydrate, receive-pack, capture or compact, put manifest, compare-and-swap, announce | bucket, database |
| announcement, `handlers/side_effects.rs` | name reservations (`git_repo_names`) | peek, quota, reserve, seed or ensure the pointer, roll back, announce | database, bucket |

What makes it correct: no push overwrites another; a 2xx means published and a
409 means not; what the pointer names can be cloned at every moment; an accepted
announcement leaves a repository that can be cloned, and none resets one that
was pushed to.

What makes it hard: there is no lock; a relay may die between any two uploads; the
answer to the deciding PUT may be lost; compaction replaces every pack; a failed
announcement takes its reservation back while another one relies on it.

### Push notifications (`buzz-db`, `buzz-relay`, `buzz-push-gateway`)

| part | state | operations | interacts with |
|---|---|---|---|
| gate, trigger of migration 0023 | advisory lock, shared by inserts, exclusive for activations | enqueue a match job if some lease is eligible | every insert of an event |
| leases, `push.rs` | per installation: generation, status, endpoint | accept, revoke, expire, disable a generation, backfill | clients, workers |
| match queue and matchers | jobs with claim, claim expiry and attempts | claim, load, match, enqueue wakes, complete, retry, reap | one matcher per relay |
| wake outbox and delivery workers | wakes with claim, claim expiry and attempts | claim, revalidate, check membership, send, complete, retry, fail | one worker per relay, gateway |
| gateway, `http.rs`, `postgres.rs` | delegations, replay fence of request ids, quotas | admit, send, finish with a disposition, reap | workers, APNs |

What makes it correct: an event committed under a live lease leads to a wake; a
wake is settled, once; a notification is sent once as far as the gateway learns;
a stale answer never harms a newer endpoint.

What makes it hard: two transactions that each look for the other's row; claims
that lapse under slow workers; a worker that stops waiting while the gateway goes
on; answers that are older than the lease they are about.

### The rest of the repository

| part | state and operations | what would make it correct |
|---|---|---|
| relay connections and subscriptions (`buzz-relay`: `connection.rs`, `subscription.rs`) | registry of filters with per-channel and per-kind indexes; REQ, CLOSE, disconnect, fan-out, slow-client limits | the indexes agree with the registry; no delivery after CLOSE; no subscription survives its connection |
| ingest and other side effects (`handlers/`) | persist, side effects, fan-out, replay of workflow triggers | nothing is fanned out that is not stored; side effects once per event |
| audit log (`buzz-audit`) | a hash chain per community | the chain is linear under concurrent appends |
| workflow engine (`buzz-workflow`) | runs, approvals, resumption | an approval is used once; a run ends once |
| replica fence (`buzz-db`) | replication positions | read-your-writes |
| pub/sub (`buzz-pubsub`) | Redis subscriptions, cache invalidation | no stale cache after a reconnect |
| relay mesh and tunnels | membership by incarnation, forwarded streams | a dead node is noticed; a newer incarnation wins |
| audio rooms | members per room and node | one live session per member; empty rooms go away |
| device pairing (`buzz-core`, `buzz-pair-relay`) | a session state machine over an unreliable relay | secrets are sent only after both ends have confirmed |
| HTTP API, moderation, media, search | request handlers over a database or a service | mostly input and output |
| coding agent, command-line tools, SDK, applications | none shared with the above | not planned |

The repository has TLA+ of its own under `docs/spec/` (tenant isolation of the
relay, git on object storage). It is design-level and is not used here.

## 2. Modules

| module | models | role |
|---|---|---|
| `EventQueue` | `queue.rs`, `EventQueue` | pure: one record of state, one operator per method |
| `SlotCircuit` | `lib.rs`, `SlotCircuit` | pure: one circuit, one operator per method |
| `AgentHarness` | main loop and pool in `lib.rs` and `pool.rs`, the task side of `pool.rs` and `acp.rs` | composes both with the tasks |
| `MCAgentHarness` | | instance for TLC: author clocks, channel symmetry |
| `TurnBudget` | idle, hard and in-flight deadlines (`acp.rs`, `pool.rs`, `queue.rs`) | one turn in seconds |
| `LazyPool` | `pool_lifecycle.rs` and its blocks in `lib.rs` | lifecycle, wake task, shutdown |
| `GitRefLog` | what a hosted repository promises its clients | abstract: a log of ref states that pushes extend |
| `GitPublish` | pushes: `transport.rs`, `hydrate.rs`, `cas_publish.rs`, `store.rs` of `api/git` | implements `GitRefLog` |
| `GitAnnounce` | repository announcements: `side_effects.rs`, `git_repo.rs` | one name, several owners |
| `PushMatch` | gate, leases, match queue, matchers | event to wake |
| `PushDelivery` | outbox, delivery workers, gateway | wake to notification |
| `MCGitPublish`, `MCGitAnnounce`, `MCPushMatch` | | instances for TLC |
| `EventQueueProofs`, `AgentHarnessProofs`, `TurnBudgetProofs`, `LazyPoolProofs`, `GitPublishProofs`, `GitAnnounceProofs`, `PushMatchProofs`, `PushDeliveryProofs` | | TLAPS proofs |

### EventQueue

The queue is not shared: the loop owns it and a handler calls several methods
in a row without yielding. So the methods are operators from queue to queue and
a handler is their composition, in the code's order. Events are numbers in
the order of `received_at`; `created_at`, by which a flushed batch is sorted, is a
constant function, and the instances make it disagree with the order of arrival.
An `Instant` is "absent", "future" or "past". `dropped` is a history of the
warnings about events shed at the cap. `flush_next` is split into the operators
its steps have: `ExpireInFlight`, `FlushChoices`, `FlushedBatches`, `AfterFlush`.

### AgentHarness

`pc` is the position of the loop. An iteration is `Maintain` (every 30 s: compact,
refill empty slots, dispatch), `CollectRespawns`, then one select arm. Each arm is
one action, with everything it calls: `HandlePromptResult` settles the batch,
marks the channel complete, returns or crashes the agent and decides on the exit;
then `DrainJoinResults` and `DispatchPending` run to their end, one iteration per
action, because the tasks they start run beside them.

A prompt task is a record of `task_map`: its batch, its one-shot control signal,
its mailbox and the steer request on the wire. `TaskReturns`, `TaskCancels` and
`TaskPanics` end it. A `TaskReturns` is possible after a control signal was sent:
the signal came too late. `SteerArm`, `SteerResponse` and `SteerUnanswered` are
the three fates of a steer in the read loop. `RespawnEnds` reports a spawn.
The clock actions move instants from "future" to "past".

An owner's interrupt that arrives after a task has returned and before its result is
handled finds no control in the model: the channel has no running turn, and a rotation
drops the sessions of idle agents. In the code `lib.rs:2791` still takes the entry's
`control_tx` and reports that it fired; the signal goes nowhere, and the sessions stay
until the agent is back.

History variables: `done` (answered, dead-lettered, discarded by a command or with
its channel), `acked`, `failed`, `interrupted`.

Left out: the duplicate and watermark filter in front of membership
notifications (`lib.rs` 1650-1662, 1927-1957); presence, typing, reactions,
metrics, prompt texts; what happens after the loop has ended
(`lib.rs` 2626-2725), except the part in `LazyPool`.

### TurnBudget

One turn from dispatch to `mark_complete`. The phases follow `run_prompt_task`: set-up
RPCs, the initial message of a fresh session, the fetches of the prompt's context, the
prompt, the cleanup after a cancel, the way of the result to the loop. The read loop
looks at its deadlines between two lines; a write to the agent (`WRITE_TIMEOUT`) blocks
it, so a deadline may pass unseen, and a control signal may drop the loop in the middle
of a write. Steers renew the hard deadline at once and the in-flight deadline when the
loop handles the ack. `Expire` is what `flush_next` and `has_flushable_work` do to a
deadline that has passed.

`overhead` is a history: the time that passes outside the cap of the main prompt, or
after a renewal that the queue has not heard of, counted from the dispatch or the last
extension. The code's values are 7200 s by default for `max_turn_duration`, 100 s buffer,
30 s for a write and for the cleanup floor, 60 s for an RPC, 5 s grace for a control
signal; the instances keep their order.

### LazyPool

`work` is `has_flushable_work`. A pool is named by the attempt that started it and
`running` holds the pools whose processes live. The wait of 30 s for the wake task
at shutdown and the abort after it appear as `WakePanics` in `pc = "drain"`: an
aborted task drops its clients, which kills their processes, like a panic does.

### GitRefLog and GitPublish

`GitRefLog` is the promise: `log` is the sequence of published ref states, a push
is opened on a prefix of it and may be added only directly after that prefix; a
client that was told "ok" is in the log, one that was refused is not, and after an
error either may be true. A 409 (`conflict`) is a refusal of its own: it is given
only when the log has grown since the push was opened.

`GitPublish` has one request record per push, which walks through the phases of
`receive_pack` and `finalize_push`: hydrated, captured, stored, won, and then only
its answer. A commit is a set of objects it reaches (`Closure`), a pack is a set of
objects, a digest is an index into the sequence of manifests, which never holds a
content twice. One GET reads the pointer, and the objects behind it never change,
so `Hydrate` is one step. Receive-pack touches only the private workspace and is
one step with the capture of its objects. The pack of a push may be without objects
(section 5), and counts against the limit like any other. Compaction may split the closure into
any packs (`Splits`). `CasAnswerLost` is a PUT that took effect and whose answer
did not arrive; `Fail` is every error and crash before the pointer.

The refinement mapping follows parents: `History(d)`, an entry of the recursive
function `ChainOf(manifests)`, is the sequence of ref states from the first
manifest to the one with digest `d`, `log` is the history of the
pointer and the base of an open push is the length of the history of its ETag.
That the history of the new manifest is the old history plus one entry is what
the chain of `parent` digests promises, and what the refinement checks.

### GitAnnounce

One handler per announcement, at the statement boundaries of
`handle_git_repo_announcement`: between peek, insert, select, pointer read,
pointer write and rollback anything may happen. A pointer is absent, empty or
pushed. Announcements are stored before their side effects run and admit pushes
at once, so `Push` is enabled from the start.

### PushMatch

The trigger's `EXISTS` and the commit of the insert are two steps; the shared lock
between them is the guard of `LockGate`, the exclusive lock is `leaseTx`. A job
carries its claim, whether the claim has lapsed, and its attempts; a matcher
carries the wakes it has matched, which may be stale when it enqueues them. `owed`
records for every commit the generations that were live, and `dropped` the jobs
given up after the last attempt.

### PushDelivery

Relay and gateway share nothing: `calls` are requests on the way to or inside the
gateway, each with the worker that still waits for it, or none. The gateway reads its
clock once, when the request comes in (`CheckExpiry`); the transaction that looks at the
grant and inserts the reservation comes later (`Admit`), and the sweep of another replica,
or of the same, may run in between (`ReapFence`). Clocks are not shared: `late` counts
the replicas on which the expiry of a wake has passed, a request may pass as long as one
replica is behind and the sweep may run as soon as one is ahead, and the relay's database
decides by itself (`VoidWake`). `sweeps` is a history of the reservations swept. `Finish`
is the detached task, which after a transient outcome deletes the reservation of the
request id, whoever made it. What a worker goes by is the attempt it claimed and the
generation of the row; what the gateway goes by is the generation of the grant. `Refuse`
is possible for every request, since the endpoint's quota depends on the clock.
`MaxFaults` bounds crashes, failed statements, and claims that lapse under a slow worker.
The composition with `PushMatch` is by `Enqueue`, which is the insert of
`PushMatch!EnqueueWakes` for one lease.

## 3. Runs

| run | instance | shows |
|---|---|---|
| `HarnessSlots` | 2 slots, 1 channel, 1 event, heartbeats, 2 faults, 2 commands, owner-interrupt mode | `TypeOK`; `SlotExclusive`; `CircuitClosedWhileLive`; `InFlightAccounted`; `HeartbeatAccounted`; `RemovedSessionsStripped`. About 620 000 states |
| `HarnessSteer` | 1 slot, 2 channels, 3 events, 2 faults, steer mode, fairness | `EventInOnePlace`; `AckedNeverRedispatched`; `UninterruptedNotLost`; `QueueBounded`; `EventsSettled`. About 13 000 states |
| `HarnessBackstop` | 2 slots, 1 channel, 2 events, 2 faults; the in-flight deadline may pass under a live turn | `UninterruptedNotLost`, `EventInOnePlace`. About 316 000 states |
| `LazyPool` | 2 failing attempts, fairness | `WakeAccounted`, `OnePool`, `NoAgentOutlivesLoop`, `RetryTimerNeverSpins`, `WorkWakesPool` |
| `TurnBudget` | `MaxTurn` 10, `Buffer` 5, writes of 2, set-up of 7, initial message, 2 steers | `OrphanedOnlyByOverhead`. About 1 817 000 states |
| `TurnInitial` | violation; a buffer of 7 that covers everything but an initial message | with the initial message the backstop gives up a live turn |
| `HarnessLostMerge` | violation | a cancelled batch merged into a flush that meets an exhausted pool is lost |
| `GitPublish` | 3 pushes (symmetric), 2 commits, 2 branches, at most 2 packs | `TypeOK`; `Cloneable`; `HeadExists`; `AnnouncedWasPublished`; `ImplementsRefLog`, the refinement of `GitRefLog`. About 356 000 states |
| `GitAnnounce` | 3 announcements of one name, 2 by the same owner | `AcceptedHasPointer`; `FreshClaimHeld`; `PushedStays`. 4 289 states |
| `PushMatch` | 1 installation with 2 generations, 1 event, 2 matchers, 2 attempts, fairness | `WakeOwed`; `JobsSettle`. About 189 000 states |
| `PushDelivery` | 1 wake, 2 workers, 2 replicas, 2 generations, 2 attempts, 1 fault, fairness | `OneAcceptedPerReservation`; `DisabledWasInvalid`; `SettledStays`; `WakeSettles`. About 961 000 states |
| `PushLapsed` | violation, same instance | a wake whose claim lapsed before its turn is failed without having been sent |

Each property of a passing run has a mutant of a mapped definition that violates
it; mutants stand directly before the definition they change.

### Bounds

`Events`, `MaxFaults` and `MaxCommands` bound what the environment may do: relay
messages, failing turns, panics, failed spawns and backstops, commands. The
code's own limits (queue cap, batch size, retries, breaker threshold) are small so
that they are met: with a cap of 2 and 3 events one event is in the batch that
comes back while two fill its queue; with a batch of 2 there is something to sort
and something to merge; with 1 retry the second failure is a dead letter; with
threshold 2 (`HarnessSlots`) two crashes open the circuit, and with threshold 1
(`HarnessSteer`) one does and a second fault fails the probe. A turn that ends in an
application error is an outcome of `HarnessSlots` and `HarnessBackstop`.
Two slots are needed for two turns of one channel after a backstop and for a
heartbeat beside a turn, two channels for a pool that is exhausted by the other
channel. `HarnessLostMerge` uses symmetry of channels; the liveness runs do not. Initially any non-empty set of slots has an agent: the
harness starts with the agents that came up.

`TurnBudget` keeps the order of the code's values: the turn cap is the longest and the
buffer is shorter than a slow set-up or than several writes, so that the backstop really
fires under a live turn in the run. `TurnInitial` has a buffer that covers the sum of
set-up, fetches, writes, cleanup and latency; with `InitialMessage = FALSE` and everything
else the same, `BackstopAfterTurn` holds (148 808 states), so that the initial message alone makes
the difference. The code's 100 s do not cover that sum either (section 5).

`GitPublish`: three pushes are the least for a push that is based on a push that
raced another one; a commit and its child give deltas, deletions, forced updates
and objects that only an old pack holds; with a threshold and a limit of two packs
the third pack needs compaction and a full manifest refuses a delta; a push changes
one ref (`MaxCommands`), several refs in one push are several entries less.

`GitAnnounce`: two announcements of one owner are needed for a reservation found
and not made, a third by another owner for the name to be taken in between.

`PushMatch`: two generations of one installation make a replacement while an event
is being matched, two matchers make a claim that is taken over, two attempts make a
last one. With two installations that compete for one endpoint and one generation
each (`Installations = {a, b}`, `MaxGeneration = 1`) both properties hold as well:
555 089 states. `PushDelivery`: two workers make a claim that is taken over; two
generations make a stale answer; two attempts a retry and a last attempt; two replicas
a request that one clock lets pass and another sweeps; one fault a crash, a slow worker or a failed statement, and with the time-outs, which are no
faults, any number of orphaned requests within the attempts. A second wake would
share nothing with the first but the lease.

`HarnessBackstop` is not asked for `InFlightAccounted` and
`AckedNeverRedispatched`. Both are false once the backstop has fired under a live
turn, by the design of the backstop; `TurnBudget` is about when it can.

`EventsSettled` counts the exit of the loop as an end, assumes an interval arm that ticks
fairly, and is checked with bounded traffic. So it does not say that the exit is right
when a slot waits for its cooldown, that the loop wakes by itself, or that steady traffic
starves nobody; `PROJECT.json` lists these three hazards without a property.

### Fairness

`AgentHarness!Fairness`: the runtime polls every ready task (weak fairness of the
loop's own steps, of tasks and of spawns); timers fire; every turn ends, because
the idle and hard timeouts end it. The select is `biased` with results, panics
and acks first, hence strong fairness of these arms, which are disabled whenever
the loop is elsewhere. Strong fairness of the interval arms (`Tick`) stands for a
relay whose traffic pauses; without any interval there is no such arm, which is
what section 5 is about. The backstop and the relay have no fairness.

`LazyPool!Fairness` is alike; the shutdown arm is the last of the biased select
and is fair only when relay traffic pauses.

`PushMatch!Fairness` and `PushDelivery!Fairness`: the matcher and worker loops run on
for ever (a relay that died restarts its own), a transaction ends, a claim lapses
with the clock, the sweep of exhausted jobs recurs, and a due row is claimed in the
end by some worker, since claims take the oldest due rows first. A worker that waits
for the gateway goes on because its request has a time-out. Nothing is assumed of
the gateway or of clients. `PushMatch` does not assume that crashes stop:
attempts bound the life of a job. In `PushDelivery` attempts do not bound the claims of
a wake (`claim_due_wakes` has no cap), so `MaxFaults` does.

## 4. Proofs

The assumptions are the named `ASSUME`s of the modules, which TLC evaluates in each
run; sets and bounds are otherwise arbitrary. Every module follows one plan: an
inductive invariant, a lemma per kind of change, a lemma per action that combines
them, and one temporal step.

### Harness (`EventQueueProofs`, `AgentHarnessProofs`, `TurnBudgetProofs`)

* `HarnessInvariant`: `Spec => []HarnessInv`, with
  `HarnessInv == SlotInv /\ RestOK`.
* `TypeCorrect`, `OneAgentPerSlot`, `BreakerNeverOpenOnLive`,
  `QueuesStayBounded` follow for `TypeOK`, `SlotExclusive`,
  `CircuitClosedWhileLive` and `QueueBounded`.
* `TurnsMatched`: `Spec => []TurnInv`; from it `HeartbeatFlagExact` for
  `HeartbeatAccounted` and, for instances without `BackstopFires`, `MarksExact`
  for `InFlightAccounted`.
* `RemovedChannelsForgotten` for `RemovedSessionsStripped`.
* `EventsAccounted`: `Spec => []EventInv`; from it `NeverTwice` for
  `EventInOnePlace` and `NothingLost` for `UninterruptedNotLost`, with the backstop
  as well as without.
* `ConfirmedNotPrompted`: without `BackstopFires`, `Spec =>
  []AckedNeverRedispatched`.
* `BudgetInvariant`: `Spec => []BudgetInv`; from it `BackstopNeedsOverhead` for
  `OrphanedOnlyByOverhead`, with no condition on the constants.

Why the invariant is what it is. `SlotExclusive` is not inductive: the loop takes
a slot from `result_rx` and returns its agent, which is sound only if the slot is
claimed by a task that has returned, and if no other result names it. This is
`TasksAccounted`, the last conjunct of `SlotInv == SlotTypes /\ SlotExclusive /\
CircuitClosedWhileLive /\ TasksAccounted`. The circuit is needed as well: a crash
may start a spawn only because the circuit of a live slot has none under way.
That a respawn report never meets a full channel is lemma
`RespawnChannelHasRoom`: reports name different slots and the reporting slot is
not among them, so there are fewer than slots. `RestOK` holds the types of the
other variables and `GoodQueue(queue)`: the queue is well typed and within its
cap. `EventQueueProofs` has one lemma per queue operation, which preserves
`GoodQueue`; `AgentHarnessProofs` one lemma per kind of change to the slots (a task
goes on, stops, an agent is claimed, returned, crashes, is refilled, collected).

`TurnInv` says of every channel, and of the heartbeat, that it is marked exactly if
some slot's task is for it, and that no two slots' tasks are; and of the deadlines
that they are set exactly for the marked channels and have not passed. Counting
tasks, as `InFlightAccounted` does, is not needed in the induction. A step that
starts or ends no task is `Quiet`; the others start one (`ChannelTurnStarts`), end one
(`ChannelTurnEnds`) or are about the heartbeat (`HeartbeatTurn`). A deadline that
passes under a live turn takes the mark away and leaves the task, so the channels'
part is claimed only of instances without that fault; `BackstopNeedsOverhead`
says what it takes. `RemovedSessionsStripped` is inductive relative to
`SlotExclusive`: only its own task gives an agent sessions, and meanwhile the
agent is not in the pool.

`EventInOnePlace` counts places, and a step that moves an event from one sequence to
another keeps the count only if the event was in one and not yet in the other.
`EventInv` says this with sets. A channel is `Tidy`: its queue, its withheld steers and
its cancelled batch repeat nothing and share nothing; so is a batch that is out. Channels and
slots are `Apart`: none holds what another holds. All they hold has arrived, so that an
event that arrives is new to everybody. What a cancelled turn returned is in `interrupted`;
`Aligned` says that a batch is of its task's channel, so that it goes back to the channel it
came from; and every event that arrived and is not in `interrupted` is held, done or
shed. Only one channel and one slot change in a step, and lemma `Exchange` reduces the
preservation of all this to those two: what they hold afterwards they held before, or it is
new; and what they held before they hold, or it is accounted for. `EventQueueProofs` has
one lemma per queue operation (`...Moves`) that says what enters and what leaves the
channel; they rest on facts about sequences without repetition that are cut, joined,
trimmed, sorted or have an element removed. The flush that finds no agent idle and the
retry lose `cancelled_events` (section 5), which the invariant admits because these are in
`interrupted`.

`AckInv` follows a steer through its life: in one mailbox or on one wire (`Steers`), then its
answer on the way to the loop, then handled. As long as it is in the first state and, if the
agent has confirmed it, ever after, the event is not `Lively`: no queue and no cancelled
batch holds it and no task is out with it. The release of a steer that was not confirmed
is sound because an answer is never for an event that is still being steered, and the
answer for a confirmed event is `Success`. Withheld events come back otherwise only by the
expiry of a deadline, which by `TurnInv` does not happen unless the backstop fires; with
it, `recover_withheld_for_expired_channel` hands back confirmed events too and the property
is false.

`TurnBudgetProofs` shows that a turn the queue still knows is `WithinGrant`: the in-flight
deadline is far enough ahead that the rest of the prompt's cap and what is left of the
buffer fit before it. Time under the cap uses up the cap, other time the buffer, a renewal
that is on its way to the loop counts as other time, and the extension that follows it
resets both. It takes no bound on writes, fetches or set-up, which is why the theorem
holds for the code's own values, and why it says nothing about how long they last.

### Lazy pool (`LazyPoolProofs`)

* `PoolInvariant`: `Spec => []PoolInv`.
* `NoStrayWake`, `OnePoolAtATime`, `EveryAgentReaped` and `NoSpin` follow for
  `WakeAccounted`, `OnePool`, `NoAgentOutlivesLoop` and the action property
  `RetryTimerNeverSpins`.

That a result is the current attempt's depends on there being one task at a time,
and which processes run depends on how that task ended. `PoolInv` therefore says
where the one wake is (`Asleep`, `Starting`, `Panicked`, `Reported`, `Installed`, and
`Reaped` after the loop) and which processes run in each case; every action moves
between these. For the timer it adds that in the select the loop's copy of "work is
pending" is still true of the queue.

### Pushes (`GitPublishProofs`)

* `GitInvariant`: `Spec => []GitInv`.
* `TypeCorrect` (with the limit on the packs a stored manifest names), `AlwaysCloneable`,
  `HeadNeverDangles` and `NothingUnpublishedAnnounced` follow for `TypeOK`, `Cloneable`, `HeadExists` and
  `AnnouncedWasPublished`.
* `RefLogImplemented`: `Spec => ImplementsRefLog`, the refinement.

`GitInv` says, besides the types: the `Bucket` is sound (every stored manifest is
complete: its packs are stored and hold all that its refs reach, its HEAD is present,
and its parent is an earlier manifest); every push is `Sound` (the ETag and the parent it
read are in the bucket, and its draft is complete, has a HEAD and the ETag as its parent,
and once stored is the manifest under its digest) and `Descends` (the ETag of an open push
is the pointer, or the pointer's history is longer than the ETag's; what a push that won has
published is in the pointer's history); and what was announced is `Logged` in that
history. `Cloneable` needs `Bucket` of every manifest and not only of the
pointer's, because a push writes its manifest before it knows whether it will win.

`ChainOf` is recursive over manifests. The provers have no induction over data, so its
equations are proved with a least counterexample: the numbers below which the
recursion has no solution would have a least member (`LeastNat`, from the
well-foundedness of `<` in the library), and the solution for its predecessor extends
to it because parents come before their children (`ParentsFirst`). In the same way, a
manifest that is added does not change the histories of the others (`ChainStable`).

The refinement then maps the seed to `Create`, `Hydrate` to `Open`, the two captures
and the manifest's upload to stuttering, a won compare-and-swap to `Commit` (one whose
answer is lost to `CommitUnseen`), a lost one to `Conflict`, and the other answers to
closing steps. `Commit` needs that the history of the new manifest is that of the ETag and
one entry, which is `Bucket` and `Descends`; `Conflict` that the history of a pointer
that moved away from the ETag is longer, which is that histories only grow.

### Announcements (`GitAnnounceProofs`)

* `AnnounceInvariant`: `Spec => []AnnounceInv`.
* `AcceptedCloneable`, `ClaimUndisturbed` and `NeverReset` follow for
  `AcceptedHasPointer`, `FreshClaimHeld` and `PushedStays`.

`FreshClaimHeld` alone is not inductive: the rollback of a second handler with a
fresh claim would delete the row. `OneFreshClaim` excludes it, because a
reservation is fresh only if the insert found no row; and `FreshSteps` says at which
steps a handler may still hold one. `AcceptedHasPointer` needs the same of the step
before the answer, which is `PointerEstablished`.

### Matching (`PushMatchProofs`)

* `MatchInvariant`: `Spec => []MatchInv`.
* `NoWakeLost` follows for `WakeOwed`.

`WakeOwed` says that a job or a row exists; a job may be deleted by any matcher that
has reached `complete`, so `OwedSafe` adds what every matcher of the event holds: at
`enqueue` the lease is among its wakes, at `complete` its row is in the outbox. A
row of the same endpoint and event would make `enqueue_wakes` skip the wake:
`EndpointsDistinct` and `RowsRight` say that it is the lease's own. `GateSound` says
that no activation fits between the trigger's look at the leases and the commit,
which gives the commit its job. `Unborn` and `BusyHasEvent` connect matchers, jobs
and rows to committed events. Lapsed claims, crashes and overtaking matchers need
no case of their own: nothing in the argument depends on who holds the claim.

### Delivery (`PushDeliveryProofs`)

* `DeliveryInvariant`: `Spec => []DeliveryInv`.
* `OneNotification`, `OnlyInvalidDisabled` and `SettledForGood` follow for
  `OneAcceptedPerReservation`, `DisabledWasInvalid` and `SettledStays`.

`OneAcceptedPerReservation` rests on `FenceHolds`, which counts: the requests of a wake
that are being sent plus its acceptances are at most its swept reservations plus one if a
reservation stands. Admission adds one on either side, the sweep moves the standing
reservation to the swept ones, an acceptance leaves the sum as it is, and a transient
outcome takes one from the left and at most one from the right. No order between the check
of the expiry, the admission and the sweep is needed, and no relation between clocks.
`DisabledWasInvalid` rests on
`AnsweredTruly`: a worker that was answered 410 holds a wake whose generation APNs
reported, and a row keeps its generation (`OutboxStep`, proved once per action). Who
answers whom is `WaitedFor`, and `BusyHasWake` is what the row of a busy worker
allows one to assume.

### Only model-checked

* Liveness (`EventsSettled`, `WorkWakesPool`, `JobsSettle`, `WakeSettles`): TLAPS does
  not handle fairness.
* The three statements that the code violates (section 5) have runs and no theorems.

Every other property of a run is a theorem, `AckedNeverRedispatched` and
`InFlightAccounted` for instances without the backstop, which are also the ones TLC
checks.

## 5. What the models showed about the code

Three disagreements have a run and a finding in `PROJECT.json`, with the lines quoted:

1. `HarnessLostMerge`. `dispatch_pending` requeues only `batch.events` when no agent
   is idle; merged `cancelled_events` are lost. `requeue` has the same gap.
2. `PushLapsed`. `run_delivery_worker` goes through its claims one by one, and a wake
   whose claim lapses before its turn is `Suppressed` by the revalidation; `deliver_one`
   then fails it for good although it was never sent and its lease is current.

3. `TurnInitial`. `max_turn_duration` applies to the initial message and again to the prompt
   (`pool.rs:1692`), the in-flight deadline allows one of them (`queue.rs:168`).

Statements that do not hold and have no run. Each can be reproduced by naming it as
the only `INVARIANT` of a configuration:

4. `AgentHarness!RetryCounterKept`: the same path of `dispatch_pending` runs
   `mark_complete`, which clears the retry counter of a batch whose throttle has
   passed.
5. `GitAnnounce!AcceptedHoldsName`: an announcement that found its owner's row and
   ensured the pointer may be accepted while the handler that made the row fails and
   deletes it, so that another owner can take the name. The comment at
   `side_effects.rs:2636` calls releasing the row "safe and correct". The pointer is
   safe, as `AcceptedHasPointer` and `PushedStays` confirm; the name is not.

Met while reading and modelling, harness:

* Maintenance runs at the top of the loop (`lib.rs:1604`) and nothing wakes the loop
  for it: without a heartbeat or other ticker a throttled retry sleeps until the next
  event.
* Without an initial message the buffer of 100 s is exceeded, too, if everything is slow:
  one set-up RPC takes up to 90 s (a write of 30 s and an answer within 60 s,
  `acp.rs:1047`), and a session may need several; the writes before a drain take up to
  2 x 30 s, and a write during the drain blocks it another 30 s.
* A requeue at the cap pops from the back of the queue, which is the newest end, while
  the comment at `queue.rs:485` says the oldest is dropped.
* The retry jitter spans 0.8 to 0.893, not 0.8 to 1.2: nanoseconds are divided by
  `u32::MAX` (`queue.rs:462`).
* `drain_channel` returns the ids of queued events only (`queue.rs:625`); the reactions
  on withheld and cancelled events stay.
* A channel removed and added again while its batch is out gets the stale batch
  requeued (`lib.rs:1671`).
* The `join_set` arm matches errors only (`lib.rs:1835`), and the shutdown watch is the
  last arm of a biased select (`lib.rs:2344`).

Git:

* `manifest_changed` (`transport.rs:1827`) is always true after a push, since the manifest
  names its parent's digest; `docs/git-on-object-storage.md:456` says that "no-op pushes
  pay no 30618 cost".
* `git pack-objects` is run without `--non-empty` (`cas_publish.rs:526`), so that it writes a
  pack of 32 bytes without objects for a push that only re-points or deletes a ref, where
  the comment at `cas_publish.rs:480` expects empty output. Such a push stores and names
  that pack, and a full manifest compacts for it, or refuses it.
* A push of several refs of which receive-pack accepts some and refuses others publishes
  nothing, but is answered 200 with the report that says "ok" for the accepted ones
  (`transport.rs:1717`). `Refuse` is one answer to the whole push.
* A lost answer to the pointer write is reported as a 500 although the push is
  published. `GitRefLog` therefore promises nothing after an error.
* Two pushes that win in turn may announce their kind 30618 events in the other order.
* The comment at `side_effects.rs:2795` says that a pusher who populates the pointer
  between the read and the seed of a re-announcement counts as an already present
  pointer; `seed_manifest_pointer` makes it a hard error, as the comment at
  `side_effects.rs:2558` says. The announcement fails and the repository is intact.
* The quota of an announcement counts before it reserves, so concurrent announcements of
  one owner may exceed it.

Push:

* A lease activated while an event's job is in `matching` may miss the event: the matcher
  has read the leases before, and the backfill leaves an existing job alone
  (`push.rs:42`).
* A 404 on an attempt after the first counts as delivered (`push_runtime.rs:488`), since
  the request id may have been used up by a request whose answer was lost.
* Attempts may exceed `MAX_ATTEMPTS` through claims that lapse: `claim_due_wakes` has no
  cap.
* A connection that breaks in the middle of an answer fails the wake at once, without a
  retry.
* A lease published again with the same endpoint and a higher generation leaves the rows
  of the old generation unclaimable, and their endpoint and event keep new rows out.
* When the answer of APNs is lost the notification may be sent twice, as documented.
  `OneAcceptedPerReservation` is about the acceptances the gateway learns of.
* A wake may be accepted twice at its expiry. `deliver` compares `expires_at` with the time
  it read when the request came in (`http.rs:586`), the transaction of
  `authorize_delivery` uses that time too (`postgres.rs:319`), and the sweep of any replica
  deletes reservations by a later one (`postgres.rs:370`): a second copy of a request,
  checked before the expiry, is admitted after the sweep took the first copy's reservation.
  `accepted[w] <= 1` instead of `OneAcceptedPerReservation` shows it in the instance of
  `PushDelivery`.
* A transient outcome deletes the reservation by request id (`postgres.rs:348`), not by the
  permit that made it. After a sweep it may take away the reservation of another copy.
* `prune_wake_outbox`, `replace_active_lease` and `revoke_lease` have no callers.

## 6. Not modelled, and plan

Left out of modelled parts: the text of prompts, requests and notifications; parsing,
filters and authorization of lease events and pushes (a relation or a
nondeterministic choice stands for them); enrolment, attestation and keys of the
gateway; the harness' configuration, usage accounting and observer; git reads
(upload-pack serves the hydrated workspace that `Cloneable` is about).

Not modelled, and worth a model: the harness' relay connection (replay, watermark and
membership filter, to be composed with `AgentHarness`), the relay's subscription
registry against fan-out, audit chain, workflow approvals, replica fence, pub/sub,
pairing, mesh, tunnels, audio rooms. Not worth one: HTTP handlers, media, search,
administration and most of `buzz-db`, which are single statements or pure I/O; the
clients, which are user interface; cryptography.

Plan:

1. Harness: an abstract delivery specification (an event is accepted, prompted by one
   turn at a time, and settled) that the harness implements, with `EventInv` as the
   invariant of the refinement proof.
2. Harness: relay connection with replay, watermark and membership filter.
3. Relay: subscription registry against fan-out; audit chain, workflow approvals, replica
   fence.
4. Pairing, mesh, tunnels, audio rooms, pub/sub.
