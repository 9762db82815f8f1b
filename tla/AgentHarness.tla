---------------------------- MODULE AgentHarness ----------------------------
(***************************************************************************)
(* The agent harness (crates/buzz-acp): one main loop that owns the event  *)
(* queue, the agent pool and the slot circuits, and the tasks that run     *)
(* beside it: one prompt task per claimed agent, one watcher per native    *)
(* steer, one background task per respawn.  Tasks talk to the loop only    *)
(* through channels, and the loop runs one select arm at a time.           *)
(*                                                                         *)
(* pc is where the loop is: "maintain" and "collect" are the two blocks at *)
(* the top of an iteration, "select" waits for an arm, "drain" is          *)
(* drain_ready_join_results, "dispatch" one turn of the loop inside        *)
(* dispatch_pending (ret is where that call returns to), "exit" the end.   *)
(* Every arm is one action.  dispatch_pending is one action per iteration  *)
(* because the prompt tasks it starts already run beside the next one.     *)
(***************************************************************************)
EXTENDS EventQueue, SlotCircuit

CONSTANTS Slots,         \* agent slots 0..N-1
          Handling,      \* MultipleEventHandling
          Outcomes,      \* the ways a turn may end in this instance
          Tickers,       \* the interval arms of the select that are configured
          MaxFaults,     \* bound on failing turns, panics and failed spawns
          MaxCommands,   \* bound on owner commands and membership changes
          BackstopFires, \* may a turn outlive its in-flight deadline?
          NoTask, NoBatch, Heartbeat

RequeueOutcomes == {"AgentExited", "IdleTimeout", "HardTimeoutActive",
                    "TransportError", "AppError"}
DeadLetterOutcomes == {"HardTimeoutSilent", "AuthError"}
CancelOutcomes == {"Cancelled", "CancelDrainTimeout"}
\* The agent process is dead or poisoned and is replaced.
FatalOutcomes == {"AgentExited", "IdleTimeout", "HardTimeoutActive",
                  "HardTimeoutSilent", "TransportError", "CancelDrainTimeout"}
AllOutcomes == {"Ok"} \cup RequeueOutcomes \cup DeadLetterOutcomes
                  \cup CancelOutcomes

ASSUME HarnessAssumption ==
    /\ Slots \subseteq Nat /\ Slots # {} /\ IsFiniteSet(Slots)
    /\ Handling \in {"Queue", "Steer", "Interrupt", "OwnerInterrupt"}
    /\ Outcomes \subseteq AllOutcomes
    /\ Tickers \subseteq {"heartbeat", "presence", "typing"}
    /\ MaxFaults \in Nat /\ MaxCommands \in Nat
    /\ BackstopFires \in BOOLEAN
    /\ Heartbeat \notin Channels

VARIABLES
    queue,               \* EventQueue
    agents,              \* slots whose agent sits idle in the pool
    sessions,            \* the channels each slot's agent has a session for
    task_map,            \* the prompt task of each claimed slot
    result_rx,           \* prompt results on their way to the loop
    crash_history,       \* SlotCircuit per slot
    respawn_tasks,       \* background spawns running per slot
    respawn_rx,          \* spawn results on their way to the loop
    steer_ack_rx,        \* steer acks on their way to the loop
    heartbeat_in_flight,
    removed_channels,
    maintenance_due,     \* 30 s since the last maintenance
    pc, ret,
    arrived,             \* events the relay has delivered
    faults, commands,    \* what is left of the bounds
    done,                \* history: events the harness has finished with
    acked,               \* history: steers the agent confirmed
    failed,              \* history: events put back by a failed turn
    interrupted          \* history: events a cancelled turn has returned

loop == <<pc, ret, maintenance_due>>
pool == <<agents, sessions, task_map, result_rx>>
spawn == <<crash_history, respawn_tasks, respawn_rx>>
input == <<arrived, faults, commands>>
history == <<done, acked, failed, interrupted>>
vars == <<queue, pool, spawn, steer_ack_rx, heartbeat_in_flight,
          removed_channels, loop, input, history>>

ControlSignal == {"Cancel", "Interrupt", "Steer", "Rotate", "SwitchModel"}

\* TaskMeta together with the task it describes.  control is "armed" while
\* the loop holds control_tx, then the signal sent, "none" for heartbeats.
\* mail is the capacity-1 steer channel, wire the steer request that waits
\* for the agent's answer.  batch is the dispatched batch and, once the task
\* has returned, the batch its result carries.
Task == [channel_id : Channels \cup {Heartbeat},
         batch : FlushBatch \cup {NoBatch},
         control : ControlSignal \cup {"armed", "none"},
         mail : SUBSET Events,
         wire : SUBSET Events,
         state : {"running", "returned", "panicked"},
         outcome : AllOutcomes]

SteerAck == [channel_id : Channels, event : Events,
             ack : {"Success", "NotLanded", "Neutral"}]

ASSUME AbsenceAssumption == NoTask \notin Task /\ NoBatch \notin FlushBatch

BatchEvents(b) == IF b = NoBatch THEN {}
                  ELSE ToSet(b.events) \cup ToSet(b.cancelled_events)

Claimed == {s \in Slots : task_map[s] # NoTask}
TasksOn(c) == {s \in Claimed : task_map[s].channel_id = c}

Init ==
    /\ queue = NewQueue
    /\ agents \in (SUBSET Slots) \ {{}}
    /\ sessions = [s \in Slots |-> {}]
    /\ task_map = [s \in Slots |-> NoTask]
    /\ result_rx = <<>>
    /\ crash_history = [s \in Slots |-> NewCircuit]
    /\ respawn_tasks = [s \in Slots |-> 0]
    /\ respawn_rx = <<>>
    /\ steer_ack_rx = {}
    /\ heartbeat_in_flight = FALSE
    /\ removed_channels = {}
    /\ maintenance_due = FALSE
    /\ pc = "maintain" /\ ret = "maintain"
    /\ arrived = {}
    /\ faults = MaxFaults /\ commands = MaxCommands
    /\ done = {} /\ acked = {} /\ failed = {} /\ interrupted = {}

-----------------------------------------------------------------------------
(* AgentPool.                                                              *)

\* try_claim: an idle agent with a session for c, else the first idle one.
TryClaim(c) ==
    LET affine == {s \in agents : c \in sessions[s]}
    IN Min(IF affine # {} THEN affine ELSE agents)

LiveCount(idle, tasks) ==
    Cardinality(idle) + Cardinality({s \in Slots : tasks[s] # NoTask})

SlotAlive(s) == s \in agents \/ task_map[s] # NoTask

\* signal_in_flight_task: the one-shot control_tx is spent by the first signal.
SignalInFlightTask(c, signal) ==
    IF TasksOn(c) = {} THEN UNCHANGED task_map
    ELSE \E s \in TasksOn(c) :
           task_map' = [task_map EXCEPT ![s].control =
                           IF @ = "armed" THEN signal ELSE @]

\* Where the loop goes next; a dispatch remembers where it was called from.
Proceed(here) == pc' = here /\ ret' = "maintain"
Dispatch(back) == pc' = "dispatch" /\ ret' = back

-----------------------------------------------------------------------------
(* The top of an iteration.                                                *)

\* Mutant: forgets that a spawn for the slot is already under way.
RefillableAgain == {s \in Slots : ~SlotAlive(s) /\ CanRefill(crash_history[s])}

\* The empty slots for which maintenance starts a spawn.
Refillable == {s \in Slots : /\ ~SlotAlive(s)
                             /\ ~crash_history[s].respawn_in_flight
                             /\ CanRefill(crash_history[s])}

\* compact_expired_state, then a background spawn for every empty slot whose
\* circuit allows one, then a dispatch if anything can be flushed.
Maintain ==
    /\ pc = "maintain"
    /\ IF ~maintenance_due
       THEN /\ Proceed("collect")
            /\ UNCHANGED <<queue, crash_history, respawn_tasks, maintenance_due>>
       ELSE LET refill == Refillable
                compacted == CompactExpiredState(queue)
            IN /\ maintenance_due' = FALSE
               /\ crash_history' = [s \in Slots |->
                      IF s \in refill THEN Refilled(crash_history[s])
                      ELSE crash_history[s]]
               /\ respawn_tasks' = [s \in Slots |->
                      respawn_tasks[s] + (IF s \in refill THEN 1 ELSE 0)]
               /\ queue' = ExpireInFlight(compacted)
               /\ IF HasFlushableWork(compacted)
                  THEN Dispatch("collect")
                  ELSE Proceed("collect")
    /\ UNCHANGED <<pool, respawn_rx, steer_ack_rx, heartbeat_in_flight,
                   removed_channels, input, history>>

\* Take every respawn result off the channel; dispatch if an agent came back.
CollectRespawns ==
    /\ pc = "collect"
    /\ LET back == {respawn_rx[i].slot : i \in 1..Len(respawn_rx)}
           ok == {respawn_rx[i].slot : i \in
                     {j \in 1..Len(respawn_rx) : respawn_rx[j].ok}}
       IN /\ crash_history' = [s \in Slots |->
                 IF s \in back THEN Collected(crash_history[s], s \in ok)
                 ELSE crash_history[s]]
          /\ agents' = agents \cup ok
          /\ sessions' = [s \in Slots |-> IF s \in ok THEN {} ELSE sessions[s]]
          /\ IF ok # {} THEN Dispatch("select") ELSE Proceed("select")
    /\ respawn_rx' = <<>>
    /\ UNCHANGED <<queue, task_map, result_rx, respawn_tasks, steer_ack_rx,
                   heartbeat_in_flight, removed_channels, maintenance_due,
                   input, history>>

-----------------------------------------------------------------------------
(* dispatch_pending, one iteration per action.                             *)

NewTask(c, b) == [channel_id |-> c, batch |-> b,
                  control |-> IF c = Heartbeat THEN "none" ELSE "armed",
                  mail |-> {}, wire |-> {},
                  state |-> "running", outcome |-> "Ok"]

\* What becomes of the flushed batch when no agent is idle.
PoolExhausted(x, b) ==
    MarkComplete(RequeuePreserveTimestamps(x, b), b.channel_id)

DispatchPending ==
    /\ pc = "dispatch"
    /\ LET q == ExpireInFlight(queue) IN
       IF FlushChoices(q) = {}
       THEN /\ queue' = q
            /\ Proceed(ret)
            /\ UNCHANGED <<agents, task_map>>
       ELSE \E c \in FlushChoices(q) : \E b \in FlushedBatches(q, c) :
              IF agents = {}
              THEN /\ queue' = PoolExhausted(AfterFlush(q, c), b)
                   /\ Proceed(ret)
                   /\ UNCHANGED <<agents, task_map>>
              ELSE /\ queue' = AfterFlush(q, c)
                   /\ agents' = agents \ {TryClaim(c)}
                   /\ task_map' = [task_map EXCEPT ![TryClaim(c)] = NewTask(c, b)]
                   /\ UNCHANGED <<pc, ret>>
    /\ UNCHANGED <<sessions, result_rx, spawn, steer_ack_rx, heartbeat_in_flight,
                   removed_channels, maintenance_due, input, history>>

-----------------------------------------------------------------------------
(* Select arms fed by the relay.                                           *)

\* mode_gate_signal; byOwner is whether the resolved owner wrote the event.
ModeGateSignal(byOwner) ==
    CASE Handling = "Queue" -> "none"
      [] Handling = "Steer" -> "Steer"
      [] Handling = "Interrupt" -> "Interrupt"
      [] Handling = "OwnerInterrupt" -> IF byOwner THEN "Interrupt" ELSE "none"

\* send_steer: the task's read loop takes the request if its mailbox is free.
\* The mailbox may also be closed while the task still runs (the read loop
\* that took the receiver has returned), so acceptance is a choice.
SteerTargets(c) == {s \in TasksOn(c) : /\ task_map[s].state = "running"
                                       /\ task_map[s].mail = {}}

\* A channel event passed the author gate and matched a rule: push it, then
\* steer or signal the channel's turn, then dispatch.
RelayEvent(c, e) ==
    /\ pc = "select"
    /\ e \in Events \ arrived /\ \A a \in arrived : a < e
    /\ \A x \in Events \ arrived : e <= x
    /\ arrived' = arrived \cup {e}
    /\ IF ~PushAccepts(queue, c)
       THEN /\ done' = done \cup {e}
            /\ UNCHANGED <<queue, task_map>>
       ELSE LET pushed == Push(queue, c, e) IN
            /\ UNCHANGED done
            /\ \E byOwner \in BOOLEAN :
               LET signal == ModeGateSignal(byOwner) IN
               IF c \notin queue.in_flight_channels \/ signal = "none"
               THEN queue' = pushed /\ UNCHANGED task_map
               ELSE \/ /\ signal = "Steer"
                       /\ \E s \in SteerTargets(c) :
                            task_map' = [task_map EXCEPT ![s].mail = {e}]
                       /\ queue' = MarkNativeSteerPending(pushed, c, e)
                    \/ /\ queue' = pushed
                       /\ SignalInFlightTask(c, signal)
    /\ Dispatch("maintain")
    /\ UNCHANGED <<agents, sessions, result_rx, spawn, steer_ack_rx,
                   heartbeat_in_flight, removed_channels, maintenance_due,
                   faults, commands, acked, failed, interrupted>>

\* !cancel and !rotate (and the observer's cancel_turn): signal the channel's
\* turn; a rotate that reaches no turn drops the idle sessions instead.
OwnerCommand(c, signal) ==
    /\ pc = "select" /\ commands > 0 /\ commands' = commands - 1
    /\ SignalInFlightTask(c, signal)
    /\ sessions' = IF signal = "Rotate" /\ task_map' = task_map
                   THEN [s \in Slots |-> IF s \in agents THEN sessions[s] \ {c}
                                         ELSE sessions[s]]
                   ELSE sessions
    /\ Proceed("maintain")
    /\ UNCHANGED <<queue, agents, result_rx, spawn, steer_ack_rx,
                   heartbeat_in_flight, removed_channels, maintenance_due,
                   arrived, faults, history>>

\* The observer's switch_model: signal a running turn; otherwise the first
\* idle agent with a session for c loses it, unless the model is unsupported.
SwitchModel(c) ==
    /\ pc = "select" /\ commands > 0 /\ commands' = commands - 1
    /\ LET idle == {s \in agents : c \in sessions[s]} IN
       IF TasksOn(c) # {} \/ idle = {}
       THEN SignalInFlightTask(c, "SwitchModel") /\ UNCHANGED sessions
       ELSE /\ sessions' \in {sessions, [sessions EXCEPT ![Min(idle)] = @ \ {c}]}
            /\ UNCHANGED task_map
    /\ Proceed("maintain")
    /\ UNCHANGED <<queue, agents, result_rx, spawn, steer_ack_rx,
                   heartbeat_in_flight, removed_channels, maintenance_due,
                   arrived, faults, history>>

\* A membership notification that passed the duplicate and watermark checks.
MemberRemoved(c) ==
    /\ pc = "select" /\ commands > 0 /\ commands' = commands - 1
    /\ queue' = DrainChannel(queue, c)
    /\ done' = done \cup HeldFor(queue, c)
    /\ sessions' = [s \in Slots |-> IF s \in agents THEN sessions[s] \ {c}
                                     ELSE sessions[s]]
    /\ removed_channels' = removed_channels \cup {c}
    /\ Proceed("maintain")
    /\ UNCHANGED <<agents, task_map, result_rx, spawn, steer_ack_rx,
                   heartbeat_in_flight, maintenance_due, arrived, faults,
                   acked, failed, interrupted>>

MemberAdded(c) ==
    /\ pc = "select" /\ commands > 0 /\ commands' = commands - 1
    /\ removed_channels' = removed_channels \ {c}
    /\ Proceed("maintain")
    /\ UNCHANGED <<queue, pool, spawn, steer_ack_rx, heartbeat_in_flight,
                   maintenance_due, arrived, faults, history>>

-----------------------------------------------------------------------------
(* Select arms fed by the tasks.                                           *)

\* The queue after a result's batch has been dealt with.
AbsorbBatch(q, b, o) ==
    CASE b = NoBatch -> q
      [] b # NoBatch /\ b.channel_id \in removed_channels -> q
      [] b # NoBatch /\ b.channel_id \notin removed_channels ->
           CASE o \in CancelOutcomes ->
                  RequeueAsCancelled(q, b, IF b.cancel_reason = NoReason
                                           THEN "Steer" ELSE b.cancel_reason)
             [] o \in DeadLetterOutcomes -> q
             [] OTHER -> Requeue(q, b)

\* The events of a returned batch that the harness gives up on knowingly.
GivenUp(q, b, o) ==
    IF \/ b = NoBatch
       \/ /\ b.channel_id \notin removed_channels
          /\ o \notin DeadLetterOutcomes
          /\ o \in CancelOutcomes \/ ~DeadLetters(q, b)
    THEN {} ELSE BatchEvents(b)

PutBack(q, b, o) ==
    IF \/ b = NoBatch
       \/ b.channel_id \in removed_channels
       \/ o \notin RequeueOutcomes
       \/ DeadLetters(q, b)
    THEN {} ELSE ToSet(b.events)

\* The slot's crash is recorded; RecordCrash decides on a respawn.
CrashSlot(s) ==
    \E k \in RecordCrash(crash_history[s]) :
        /\ crash_history' = [crash_history EXCEPT ![s] = k]
        /\ respawn_tasks' = [respawn_tasks EXCEPT ![s] =
                                @ + (IF k.respawn_in_flight THEN 1 ELSE 0)]

AllDead(idle, tasks, circuits) ==
    /\ LiveCount(idle, tasks) = 0
    /\ \A s \in Slots : ~circuits[s].respawn_in_flight

\* Mutant: marks the channel complete only when a batch came back.
SettleBatchOnly(q, b, o, c) ==
    IF c = Heartbeat \/ b = NoBatch THEN q ELSE MarkComplete(AbsorbBatch(q, b, o), c)

\* Settle the queue for a task that ended on channel_id c: the batch first,
\* then mark_complete, in that order.
Settle(q, b, o, c) ==
    IF c = Heartbeat THEN q ELSE MarkComplete(AbsorbBatch(q, b, o), c)

\* Mutant: lowers the flag only after a heartbeat that went well.
HeartbeatOverIfOk(t) ==
    heartbeat_in_flight' =
        (heartbeat_in_flight /\ ~(t.channel_id = Heartbeat /\ t.outcome = "Ok"))

\* The heartbeat flag falls with the heartbeat's task, however it ended.
HeartbeatOver(t) ==
    heartbeat_in_flight' = (heartbeat_in_flight /\ t.channel_id # Heartbeat)

\* Mutant: keeps the sessions of channels removed in the meantime.
ReturnAgentAsIs(s) == agents' = agents \cup {s} /\ UNCHANGED sessions

\* A healthy agent goes back to its slot without sessions of removed channels.
ReturnAgent(s) ==
    /\ agents' = agents \cup {s}
    /\ sessions' = [sessions EXCEPT ![s] = @ \ removed_channels]

HandlePromptResult ==
    /\ pc = "select" /\ result_rx # <<>>
    /\ LET s == Head(result_rx)
           t == task_map[s]
       IN /\ task_map' = [task_map EXCEPT ![s] = NoTask]
          /\ queue' = Settle(queue, t.batch, t.outcome, t.channel_id)
          /\ done' = done \cup GivenUp(queue, t.batch, t.outcome)
          /\ failed' = (failed \ GivenUp(queue, t.batch, t.outcome))
                          \cup PutBack(queue, t.batch, t.outcome)
          /\ interrupted' = IF t.outcome \in CancelOutcomes
                             THEN interrupted \cup BatchEvents(t.batch)
                             ELSE interrupted
          /\ HeartbeatOver(t)
          /\ IF t.outcome \in FatalOutcomes
             THEN /\ CrashSlot(s)
                  /\ sessions' = [sessions EXCEPT ![s] = {}]
                  /\ UNCHANGED agents
             ELSE /\ ReturnAgent(s)
                  /\ UNCHANGED <<crash_history, respawn_tasks>>
          /\ Proceed(IF /\ t.outcome \in FatalOutcomes
                        /\ ~crash_history'[s].respawn_in_flight
                        /\ AllDead(agents, task_map', crash_history')
                     THEN "exit" ELSE "drain")
    /\ result_rx' = Tail(result_rx)
    /\ UNCHANGED <<respawn_rx, steer_ack_rx, removed_channels, maintenance_due,
                   input, acked>>

\* recover_panicked_agent and the exit check after it; a panicked task's
\* recoverable_batch exists in queue mode only.
RecoverPanickedAgent(s, next) ==
    /\ task_map[s] # NoTask /\ task_map[s].state = "panicked"
    /\ LET t == task_map[s] IN
       /\ queue' = Settle(queue, t.batch, "AgentExited", t.channel_id)
       /\ done' = done \cup GivenUp(queue, t.batch, "AgentExited")
       /\ failed' = (failed \ GivenUp(queue, t.batch, "AgentExited"))
                       \cup PutBack(queue, t.batch, "AgentExited")
       /\ HeartbeatOver(t)
    /\ task_map' = [task_map EXCEPT ![s] = NoTask]
    /\ sessions' = [sessions EXCEPT ![s] = {}]
    /\ CrashSlot(s)
    /\ IF AllDead(agents, task_map', crash_history')
       THEN Proceed("exit") ELSE next
    /\ UNCHANGED <<agents, result_rx, respawn_rx, steer_ack_rx,
                   removed_channels, maintenance_due, input, acked, interrupted>>

HandlePanic(s) == pc = "select" /\ RecoverPanickedAgent(s, Dispatch("maintain"))

\* drain_ready_join_results: every panic that is ready, then dispatch.
DrainJoinResults ==
    /\ pc = "drain"
    /\ IF \E s \in Claimed : task_map[s].state = "panicked"
       THEN \E s \in Claimed : RecoverPanickedAgent(s, Proceed("drain"))
       ELSE /\ Dispatch("maintain")
            /\ UNCHANGED <<queue, pool, spawn, steer_ack_rx,
                           heartbeat_in_flight, removed_channels,
                           maintenance_due, input, history>>

\* A watcher forwarded the fate of a native steer.
HandleSteerAck(a) ==
    /\ pc = "select" /\ a \in steer_ack_rx
    /\ steer_ack_rx' = steer_ack_rx \ {a}
    /\ LET c == a.channel_id IN
       CASE a.ack = "Success" ->
              /\ queue' = RemoveEvent(ExtendInFlightDeadline(queue, c), c, a.event)
              /\ done' = done \cup {a.event}
              /\ UNCHANGED task_map
         [] a.ack = "NotLanded" ->
              /\ queue' = ReleaseNativeSteer(queue, c, a.event)
              /\ SignalInFlightTask(c, "Steer")
              /\ UNCHANGED done
         [] a.ack = "Neutral" ->
              /\ queue' = ReleaseNativeSteer(queue, c, a.event)
              /\ UNCHANGED <<task_map, done>>
    /\ Dispatch("maintain")
    /\ UNCHANGED <<agents, sessions, result_rx, spawn, heartbeat_in_flight,
                   removed_channels, maintenance_due, input, acked, failed,
                   interrupted>>

\* The heartbeat interval: queued work first, else a heartbeat turn.
HeartbeatTick ==
    /\ pc = "select" /\ "heartbeat" \in Tickers
    /\ queue' = ExpireInFlight(queue)
    /\ IF HasFlushableWork(queue)
       THEN /\ Dispatch("maintain")
            /\ UNCHANGED <<agents, task_map, heartbeat_in_flight>>
       ELSE /\ Proceed("maintain")
            /\ IF agents = {} \/ heartbeat_in_flight
               THEN UNCHANGED <<agents, task_map, heartbeat_in_flight>>
               ELSE /\ agents' = agents \ {Min(agents)}
                    /\ task_map' = [task_map EXCEPT ![Min(agents)] =
                                       NewTask(Heartbeat, NoBatch)]
                    /\ heartbeat_in_flight' = TRUE
    /\ UNCHANGED <<sessions, result_rx, spawn, steer_ack_rx, removed_channels,
                   maintenance_due, input, history>>

\* The presence and typing intervals only wake the loop.
OtherTick ==
    /\ pc = "select" /\ Tickers \cap {"presence", "typing"} # {}
    /\ Proceed("maintain")
    /\ UNCHANGED <<queue, pool, spawn, steer_ack_rx, heartbeat_in_flight,
                   removed_channels, maintenance_due, input, history>>

-----------------------------------------------------------------------------
(* Prompt tasks: run_prompt_task and the ACP read loop.                    *)

RequeueBatchIfQueue(b) == IF DedupMode = "Queue" THEN b ELSE NoBatch

\* requeue_cancelled_batch: steer, interrupt and a model switch keep the
\* batch and stamp why it was cancelled; cancel and rotate discard it.
RequeueCancelledBatch(b, signal) ==
    IF signal \in {"Cancel", "Rotate"} \/ RequeueBatchIfQueue(b) = NoBatch
    THEN NoBatch
    ELSE [b EXCEPT !.cancel_reason =
            IF signal = "Steer" THEN "Steer" ELSE "Interrupt"]

\* Mutant: a steer still in the mailbox gets no answer.
NeutralAcksOnWire(t) ==
    {[channel_id |-> t.channel_id, event |-> e, ack |-> "Neutral"] : e \in t.wire}

\* The steer requests of a task that ends are answered PromptCompletedNeutral
\* (on the wire) or dropped with the mailbox; the loop treats both alike.
NeutralAcks(t) ==
    {[channel_id |-> t.channel_id, event |-> e, ack |-> "Neutral"] :
        e \in t.mail \cup t.wire}

\* The task ends with outcome o and sends back batch b and the agent, whose
\* sessions are then one of kept.
EndTask(s, state, o, b, kept) ==
    LET t == task_map[s] IN
    /\ task_map' = [task_map EXCEPT ![s] =
            [t EXCEPT !.state = state, !.outcome = o, !.batch = b,
                      !.control = "none", !.mail = {}, !.wire = {}]]
    /\ sessions' \in {[sessions EXCEPT ![s] = k] : k \in kept}
    /\ steer_ack_rx' = steer_ack_rx \cup NeutralAcks(t)
    /\ result_rx' = IF state = "returned" THEN Append(result_rx, s) ELSE result_rx
    /\ IF b = NoBatch
       THEN done' = done \cup BatchEvents(t.batch) /\ failed' = failed \ BatchEvents(t.batch)
       ELSE UNCHANGED <<done, failed>>
    /\ UNCHANGED <<queue, agents, spawn, heartbeat_in_flight, removed_channels,
                   loop, arrived, commands, acked, interrupted>>

Running(s) == /\ pc # "exit"
              /\ task_map[s] # NoTask /\ task_map[s].state = "running"

\* The sessions an agent may hold after a turn that leaves its process alive;
\* those of a process that is replaced die with it.
SessionsAfter(s) ==
    LET c == task_map[s].channel_id IN
    IF c = Heartbeat THEN {sessions[s]}
    ELSE {sessions[s] \cup {c}, sessions[s] \ {c}}

\* The turn ends by itself: a success (also when a control signal came too
\* late) or, within the fault bound, one of the failures.
TaskReturns(s, o) ==
    /\ Running(s) /\ o \in Outcomes \ CancelOutcomes
    /\ IF o = "Ok" THEN UNCHANGED faults ELSE faults > 0 /\ faults' = faults - 1
    /\ EndTask(s, "returned", o,
               IF o = "Ok" THEN NoBatch ELSE RequeueBatchIfQueue(task_map[s].batch),
               IF o \in FatalOutcomes THEN {{}} ELSE SessionsAfter(s))

\* The control signal wins the task's select: cancel_with_cleanup_grace drains
\* the turn, or fails and classify_control_cancel_failure says how.
TaskCancels(s, o) ==
    /\ Running(s) /\ task_map[s].control \in ControlSignal
    /\ o \in Outcomes \cap (CancelOutcomes \cup
                {"AgentExited", "IdleTimeout", "TransportError", "AppError"})
    /\ IF o = "Cancelled" THEN UNCHANGED faults ELSE faults > 0 /\ faults' = faults - 1
    /\ EndTask(s, "returned", o,
               RequeueCancelledBatch(task_map[s].batch, task_map[s].control),
               IF o = "AgentExited" THEN {{}}
               ELSE {sessions[s] \ {task_map[s].channel_id}})

TaskPanics(s) ==
    /\ Running(s) /\ faults > 0 /\ faults' = faults - 1
    /\ EndTask(s, "panicked", "AgentExited",
               RequeueBatchIfQueue(task_map[s].batch), {{}})

\* The read loop's steer arm: put the request on the wire, or answer at once
\* that it cannot be written.
SteerArm(s) ==
    /\ Running(s) /\ task_map[s].mail # {} /\ task_map[s].wire = {}
    /\ \/ /\ task_map' = [task_map EXCEPT ![s].mail = {}, ![s].wire = task_map[s].mail]
          /\ UNCHANGED steer_ack_rx
       \/ /\ task_map' = [task_map EXCEPT ![s].mail = {}]
          /\ steer_ack_rx' = steer_ack_rx \cup
                {[channel_id |-> task_map[s].channel_id, event |-> e,
                  ack |-> "NotLanded"] : e \in task_map[s].mail}
    /\ UNCHANGED <<queue, agents, sessions, result_rx, spawn, heartbeat_in_flight,
                   removed_channels, loop, input, history>>

\* The agent answers the steer request: delivered; unknown method or outcome
\* not recognised (NotLanded); any other JSON-RPC error (Neutral).
SteerResponse(s, answer) ==
    /\ Running(s) /\ task_map[s].wire # {}
    /\ task_map' = [task_map EXCEPT ![s].wire = {}]
    /\ steer_ack_rx' = steer_ack_rx \cup
          {[channel_id |-> task_map[s].channel_id, event |-> e, ack |-> answer] :
             e \in task_map[s].wire}
    /\ acked' = IF answer = "Success" THEN acked \cup task_map[s].wire ELSE acked
    /\ UNCHANGED <<queue, agents, sessions, result_rx, spawn, heartbeat_in_flight,
                   removed_channels, loop, input, done, failed, interrupted>>

\* A read loop that held the steer receiver is over (the initial message has
\* ended, or the turn is being cancelled): what it held is answered
\* PromptCompletedNeutral or dropped, while the task goes on.
SteerUnanswered(s) ==
    /\ Running(s) /\ task_map[s].mail \cup task_map[s].wire # {}
    /\ task_map' = [task_map EXCEPT ![s].mail = {}, ![s].wire = {}]
    /\ steer_ack_rx' = steer_ack_rx \cup NeutralAcks(task_map[s])
    /\ UNCHANGED <<queue, agents, sessions, result_rx, spawn, heartbeat_in_flight,
                   removed_channels, loop, input, history>>

\* A background spawn ends and RespawnGuard reports it; a full channel loses
\* the report.
RespawnEnds(s, ok) ==
    /\ pc # "exit" /\ respawn_tasks[s] > 0
    /\ IF ok THEN UNCHANGED faults ELSE faults > 0 /\ faults' = faults - 1
    /\ respawn_tasks' = [respawn_tasks EXCEPT ![s] = @ - 1]
    /\ respawn_rx' = IF Len(respawn_rx) < Cardinality(Slots)
                     THEN Append(respawn_rx, [slot |-> s, ok |-> ok])
                     ELSE respawn_rx
    /\ UNCHANGED <<queue, pool, crash_history, steer_ack_rx, heartbeat_in_flight,
                   removed_channels, loop, arrived, commands, history>>

-----------------------------------------------------------------------------
(* The clock.                                                              *)

ClockThrottle(c) ==
    /\ pc # "exit" /\ queue.retry_after[c] = "future"
    /\ queue' = ThrottleElapses(queue, c)
    /\ UNCHANGED <<pool, spawn, steer_ack_rx, heartbeat_in_flight,
                   removed_channels, loop, input, history>>

ClockBackstop(c) ==
    /\ pc # "exit" /\ BackstopFires /\ queue.in_flight_deadlines[c] = "future"
    /\ faults > 0 /\ faults' = faults - 1
    /\ queue' = DeadlineElapses(queue, c)
    /\ UNCHANGED <<pool, spawn, steer_ack_rx, heartbeat_in_flight,
                   removed_channels, loop, arrived, commands, history>>

ClockCooldown(s) ==
    /\ pc # "exit" /\ crash_history[s].open_until = "future"
    /\ crash_history' = [crash_history EXCEPT ![s] = CooldownElapses(@)]
    /\ UNCHANGED <<queue, pool, respawn_tasks, respawn_rx, steer_ack_rx,
                   heartbeat_in_flight, removed_channels, loop, input, history>>

ClockMaintenance ==
    /\ pc # "exit" /\ ~maintenance_due /\ maintenance_due' = TRUE
    /\ UNCHANGED <<queue, pool, spawn, steer_ack_rx, heartbeat_in_flight,
                   removed_channels, pc, ret, input, history>>

-----------------------------------------------------------------------------
Tick == HeartbeatTick \/ OtherTick

RelayArm ==
    \/ \E c \in Channels, e \in Events : RelayEvent(c, e)
    \/ \E c \in Channels : \E signal \in {"Cancel", "Rotate"} : OwnerCommand(c, signal)
    \/ \E c \in Channels : SwitchModel(c)
    \/ \E c \in Channels : MemberRemoved(c)
    \/ \E c \in Channels : MemberAdded(c)

TaskArm ==
    \/ HandlePromptResult
    \/ \E s \in Slots : HandlePanic(s)
    \/ \E a \in steer_ack_rx : HandleSteerAck(a)

LoopStep == Maintain \/ CollectRespawns \/ DispatchPending \/ DrainJoinResults

TaskEnds(s) == \/ \E o \in Outcomes : TaskReturns(s, o)
               \/ \E o \in Outcomes : TaskCancels(s, o)
               \/ TaskPanics(s)

Steering(s) == \/ SteerArm(s)
               \/ SteerUnanswered(s)
               \/ \E answer \in {"Success", "NotLanded", "Neutral"} :
                      SteerResponse(s, answer)

Clock == \/ \E c \in Channels : ClockThrottle(c) \/ ClockBackstop(c)
         \/ \E s \in Slots : ClockCooldown(s)
         \/ ClockMaintenance

\* The loop has left: the process is over.
Exited == pc = "exit" /\ UNCHANGED vars

Next ==
    \/ LoopStep \/ RelayArm \/ TaskArm \/ Tick \/ Clock \/ Exited
    \/ \E s \in Slots : TaskEnds(s) \/ Steering(s)
    \/ \E s \in Slots, ok \in BOOLEAN : RespawnEnds(s, ok)

Spec == Init /\ [][Next]_vars

\* The runtime polls every ready task, timers fire, and every turn ends (the
\* idle and the hard timeout see to that).  The select is biased towards
\* results, panics and acks, so an arm of these that is ready again and again
\* is taken; an interval arm is taken once the bounded relay traffic pauses.
Fairness ==
    /\ WF_vars(LoopStep)
    /\ SF_vars(HandlePromptResult)
    /\ \A s \in Slots : SF_vars(HandlePanic(s))
    /\ SF_vars(\E a \in steer_ack_rx : HandleSteerAck(a))
    /\ SF_vars(Tick)
    /\ \A s \in Slots : WF_vars(TaskEnds(s))
    /\ \A s \in Slots : WF_vars(\E ok \in BOOLEAN : RespawnEnds(s, ok))
    /\ \A c \in Channels : WF_vars(ClockThrottle(c))
    /\ \A s \in Slots : WF_vars(ClockCooldown(s))
    /\ WF_vars(ClockMaintenance)

FairSpec == Spec /\ Fairness

-----------------------------------------------------------------------------
(* Correctness.                                                            *)

\* Type invariant.
TypeOK ==
    /\ queue \in QueueState
    /\ agents \in SUBSET Slots
    /\ sessions \in [Slots -> SUBSET Channels]
    /\ task_map \in [Slots -> Task \cup {NoTask}]
    /\ result_rx \in Seq(Slots)
    /\ crash_history \in [Slots -> Circuit]
    /\ respawn_tasks \in [Slots -> Nat]
    /\ respawn_rx \in Seq([slot : Slots, ok : BOOLEAN])
    /\ steer_ack_rx \in SUBSET SteerAck
    /\ heartbeat_in_flight \in BOOLEAN
    /\ removed_channels \in SUBSET Channels
    /\ maintenance_due \in BOOLEAN
    /\ pc \in {"maintain", "collect", "select", "drain", "dispatch", "exit"}
    /\ ret \in {"maintain", "collect", "select"}
    /\ arrived \in SUBSET Events
    /\ faults \in 0..MaxFaults /\ commands \in 0..MaxCommands
    /\ done \in SUBSET Events /\ acked \in SUBSET Events
    /\ failed \in SUBSET Events /\ interrupted \in SUBSET Events

Reported(s) == \E i \in 1..Len(respawn_rx) : respawn_rx[i].slot = s

\* A slot has at most one agent: idle in the pool, out with a prompt task,
\* being spawned, or spawned and on its way to the loop.  respawn_in_flight
\* says exactly whether a spawn is under way.  This is what makes
\* return_agent's "slot already occupied" branch and the respawn guard's full
\* channel unreachable although maintenance, crash and panic handling all
\* start spawns.
SlotExclusive ==
    /\ \A i, j \in 1..Len(respawn_rx) :
          respawn_rx[i].slot = respawn_rx[j].slot => i = j
    /\ \A s \in Slots :
          /\ respawn_tasks[s] <= (IF Reported(s) THEN 0 ELSE 1)
          /\ crash_history[s].respawn_in_flight <=>
                respawn_tasks[s] > 0 \/ Reported(s)
          /\ ~(s \in agents /\ task_map[s] # NoTask)
          /\ SlotAlive(s) => ~crash_history[s].respawn_in_flight

\* A slot whose circuit is open, cooling down or not, has no live agent and
\* none being spawned, so record_crash never meets an open circuit and only
\* can_refill or a collected spawn failure moves it; and a closed circuit is
\* below its threshold, so it has not missed a crash.
CircuitClosedWhileLive ==
    \A s \in Slots :
      /\ SlotAlive(s) \/ crash_history[s].respawn_in_flight =>
            crash_history[s].open_until = "absent"
      /\ crash_history[s].open_until = "absent" =>
            crash_history[s].crash_times < Threshold

\* Where event e stands in the sequence s of channel or slot x.
Seats(kind, x, s, e) == {<<kind, x, i>> : i \in {j \in 1..Len(s) : s[j] = e}}

\* Every place an event can be: queued, withheld for a steer, kept from a
\* cancelled turn, or in the batch of a task.
Places(e) ==
    LET out == {s \in Claimed : task_map[s].batch # NoBatch} IN
    UNION ({Seats("queued", c, queue.queues[c], e) : c \in Channels}
      \cup {Seats("withheld", c, queue.withheld_native_steer[c], e) : c \in Channels}
      \cup {Seats("cancelled", c, queue.cancelled_batches[c], e) : c \in Channels}
      \cup {Seats("batch", s, task_map[s].batch.events, e) : s \in out}
      \cup {Seats("merged", s, task_map[s].batch.cancelled_events, e) : s \in out})

\* No event is ever in two places: whatever retries, cancels, steers, panics
\* and backstops happen, no event is prompted twice at once or queued twice.
EventInOnePlace == \A e \in Events : Cardinality(Places(e)) <= 1

\* The queue's in-flight marks and the pool's task map agree, turn for turn: a
\* mark without a task would silence its channel until the backstop, a task
\* without a mark would let a second turn of the channel start beside it.
InFlightAccounted ==
    \A c \in Channels :
      /\ Cardinality(TasksOn(c)) = IF c \in queue.in_flight_channels THEN 1 ELSE 0
      /\ c \in queue.in_flight_channels <=> queue.in_flight_deadlines[c] # "absent"

\* heartbeat_in_flight is exactly the existence of a heartbeat task, through
\* results and panics.
HeartbeatAccounted ==
    heartbeat_in_flight <=> \E s \in Claimed : task_map[s].channel_id = Heartbeat

\* An event the agent has confirmed through a native steer is never prompted
\* again: it may wait in the withheld table for its ack, never in a queue, a
\* cancelled batch or a task's batch.
AckedNeverRedispatched ==
    \A e \in acked : \A p \in Places(e) : p[1] = "withheld"

\* An event whose turn was never cancelled is done, shed by the cap with a
\* warning, or still held somewhere.
UninterruptedNotLost ==
    \A e \in arrived \ interrupted :
        e \in done \cup queue.dropped \/ Places(e) # {}

\* An event that was accepted is done, shed with a warning, or still held.
NoEventLost ==
    \A e \in arrived : e \in done \cup queue.dropped \/ Places(e) # {}

\* No idle agent keeps a session of a channel the agent was removed from, also
\* when the removal came while the agent was out with a task.
RemovedSessionsStripped ==
    \A s \in agents : sessions[s] \cap removed_channels = {}

\* No channel's queue outgrows its cap, whichever way events come back to it.
QueueBounded == \A c \in Channels : Len(queue.queues[c]) <= MaxPending

\* A channel that holds events of a failed turn keeps its retry counter, which
\* backoff and dead-lettering depend on.  Not an invariant of the code: see
\* section 5 of the README.
RetryCounterKept ==
    \A c \in Channels :
        ToSet(queue.queues[c]) \cap failed # {} => queue.retry_counts[c] > 0

\* Every accepted event leaves the harness's hands in the end, or the harness
\* gives up and exits: nothing stays queued, withheld for a steer, kept from a
\* cancelled turn or out with a task forever.
EventsSettled ==
    \A e \in Events : Places(e) # {} ~> (Places(e) = {} \/ pc = "exit")
=============================================================================
