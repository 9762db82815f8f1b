------------------------------ MODULE LazyPool ------------------------------
(***************************************************************************)
(* Deferred start of the agent pool (crates/buzz-acp/src/pool_lifecycle.rs *)
(* and the lazy-pool blocks of the main loop in lib.rs).                   *)
(*                                                                         *)
(* The main loop listens without agents until work is queued, then starts  *)
(* one background task that brings a pool up and sends it back, tagged     *)
(* with the attempt it belongs to.  A failed or panicked attempt is        *)
(* retried after a delay.  A shutdown may come at any moment; the loop     *)
(* then has to reap every agent process that was started.                  *)
(*                                                                         *)
(* work is has_flushable_work: whether the queue holds something to        *)
(* dispatch.  A pool is named by the attempt that started it, and running  *)
(* holds the pools whose agent processes are alive.                        *)
(***************************************************************************)
EXTENDS Integers, FiniteSets, SequencesExt

CONSTANT MaxAttempts   \* bound on wakes that fail by themselves

ASSUME LazyPoolAssumption == MaxAttempts \in Nat \ {0}

VARIABLES
    lifecycle,     \* PoolLifecycle
    pool_ready,
    work,
    lazy_wake_work_pending,
    wake_tasks,    \* the attempts being initialised, and the panicked ones
    wake_rx,       \* wake results on their way to the loop
    shutdown_sent, \* the shutdown watch has fired
    running,       \* pools whose agent processes run
    installed,     \* the pools the loop has taken over, in order
    pc

vars == <<lifecycle, pool_ready, work, lazy_wake_work_pending, wake_tasks,
          wake_rx, shutdown_sent, running, installed, pc>>

Attempts == 1..(MaxAttempts + 1)

Lifecycle == [state : {"Listening", "Waking", "Failed"},
              attempt : Attempts \cup {0},
              retry_at : {"absent", "future", "past"}]

Listening == [state |-> "Listening", attempt |-> 0, retry_at |-> "absent"]
Waking(a) == [state |-> "Waking", attempt |-> a, retry_at |-> "absent"]
Failed(a) == [state |-> "Failed", attempt |-> a, retry_at |-> "future"]

Init ==
    /\ lifecycle = Listening
    /\ pool_ready = FALSE
    /\ work \in BOOLEAN
    /\ lazy_wake_work_pending = FALSE
    /\ wake_tasks = {}
    /\ wake_rx = <<>>
    /\ shutdown_sent = FALSE
    /\ running = {}
    /\ installed = <<>>
    /\ pc = "top"

-----------------------------------------------------------------------------
(* The main loop.                                                          *)

\* Mutant: a wake that is under way does not stop the next one.
WakeDueWhileWaking == lifecycle.retry_at # "future"

\* Mutant: a wake that failed is never tried again.
WakeDueOnce == lifecycle.state = "Listening"

\* start_wake_if_due: whether an attempt starts when there is work.
WakeDue == \/ lifecycle.state = "Listening"
           \/ lifecycle.state = "Failed" /\ lifecycle.retry_at = "past"

\* The top of an iteration: look for work and start a wake if one is due.
LoopTop ==
    /\ pc = "top" /\ pc' = "select"
    /\ lazy_wake_work_pending' = (~pool_ready /\ work)
    /\ IF ~pool_ready /\ work /\ WakeDue /\ lifecycle.attempt <= MaxAttempts
       THEN LET a == lifecycle.attempt + 1 IN
            /\ lifecycle' = Waking(a)
            /\ wake_tasks' = wake_tasks \cup {[attempt |-> a, state |-> "starting"]}
            /\ running' = running \cup {a}
       ELSE UNCHANGED <<lifecycle, wake_tasks, running>>
    /\ UNCHANGED <<pool_ready, work, wake_rx, shutdown_sent, installed>>

\* complete_wake: only the result of the current attempt is taken.
Completes(a) == lifecycle.state = "Waking" /\ lifecycle.attempt = a

\* The Wake arm: a pool is installed and the queue dispatched to it.
HandleWake ==
    /\ pc = "select" /\ ~pool_ready /\ wake_rx # <<>>
    /\ LET m == Head(wake_rx) IN
       CASE ~Completes(m.attempt) ->
              UNCHANGED <<lifecycle, pool_ready, work, installed>>
         [] Completes(m.attempt) /\ m.ok ->
              /\ lifecycle' = Listening
              /\ pool_ready' = TRUE
              /\ installed' = Append(installed, m.attempt)
              /\ work' = FALSE
         [] Completes(m.attempt) /\ ~m.ok ->
              /\ lifecycle' = Failed(m.attempt)
              /\ UNCHANGED <<pool_ready, work, installed>>
    /\ wake_rx' = Tail(wake_rx) /\ pc' = "top"
    /\ UNCHANGED <<lazy_wake_work_pending, wake_tasks, shutdown_sent, running>>

\* Mutant: armed without a look at the buffered work.
RetryTimerUngated ==
    /\ pc = "select"
    /\ lifecycle.state = "Failed" /\ lifecycle.retry_at = "past"
    /\ pc' = "top"
    /\ UNCHANGED <<lifecycle, pool_ready, work, lazy_wake_work_pending,
                   wake_tasks, wake_rx, shutdown_sent, running, installed>>

\* The retry timer, armed only while buffered work was seen at the top.
RetryTimer ==
    /\ pc = "select" /\ lazy_wake_work_pending
    /\ lifecycle.state = "Failed" /\ lifecycle.retry_at = "past"
    /\ pc' = "top"
    /\ UNCHANGED <<lifecycle, pool_ready, work, lazy_wake_work_pending,
                   wake_tasks, wake_rx, shutdown_sent, running, installed>>

\* Mutant: only logs the panic.
WakeTaskFailedIgnored ==
    /\ pc = "select" /\ pc' = "top"
    /\ \E t \in wake_tasks :
         /\ t.state = "panicked"
         /\ wake_tasks' = wake_tasks \ {t}
    /\ UNCHANGED <<lifecycle, pool_ready, work, lazy_wake_work_pending, wake_rx,
                   shutdown_sent, running, installed>>

\* A wake task panicked: cancel_wake fails the attempt that is waking.
WakeTaskFailed ==
    /\ pc = "select"
    /\ \E t \in wake_tasks :
         /\ t.state = "panicked"
         /\ wake_tasks' = wake_tasks \ {t}
    /\ lifecycle' = IF lifecycle.state = "Waking" THEN Failed(lifecycle.attempt)
                    ELSE lifecycle
    /\ pc' = "top"
    /\ UNCHANGED <<pool_ready, work, lazy_wake_work_pending, wake_rx,
                   shutdown_sent, running, installed>>

\* A relay event is queued, and dispatched at once to a pool that is ready.
RelayEvent ==
    /\ pc = "select" /\ pc' = "top"
    /\ work' = ~pool_ready
    /\ UNCHANGED <<lifecycle, pool_ready, lazy_wake_work_pending, wake_tasks,
                   wake_rx, shutdown_sent, running, installed>>

\* Removal from the only channel with queued events drains the queue.
MemberRemoved ==
    /\ pc = "select" /\ pc' = "top"
    /\ work' = FALSE
    /\ UNCHANGED <<lifecycle, pool_ready, lazy_wake_work_pending, wake_tasks,
                   wake_rx, shutdown_sent, running, installed>>

\* The loop ends: on the shutdown watch (a signal, the owner's !shutdown; a dead
\* relay task is taken as one too) or, with a pool, when all agents are dead.
\* It fires the watch itself before it waits for the wake task.
LeaveLoop ==
    /\ pc = "select" /\ (shutdown_sent \/ pool_ready)
    /\ shutdown_sent' = TRUE
    /\ pc' = "drain"
    /\ UNCHANGED <<lifecycle, pool_ready, work, lazy_wake_work_pending,
                   wake_tasks, wake_rx, running, installed>>

\* Mutant: forgets the pool that arrived after the loop had ended.
ReapInstalledOnly ==
    /\ pc = "drain" /\ \A t \in wake_tasks : t.state = "panicked"
    /\ running' = running \ ToSet(installed)
    /\ wake_rx' = <<>> /\ wake_tasks' = {}
    /\ pc' = "stopped"
    /\ UNCHANGED <<lifecycle, pool_ready, work, lazy_wake_work_pending,
                   shutdown_sent, installed>>

\* Every wake task has ended: shut down the pools left in the channel, then
\* the agents of the installed pool.
Reap ==
    /\ pc = "drain" /\ \A t \in wake_tasks : t.state = "panicked"
    /\ running' = running \ ({wake_rx[i].attempt : i \in 1..Len(wake_rx)}
                                \cup ToSet(installed))
    /\ wake_rx' = <<>> /\ wake_tasks' = {}
    /\ pc' = "stopped"
    /\ UNCHANGED <<lifecycle, pool_ready, work, lazy_wake_work_pending,
                   shutdown_sent, installed>>

-----------------------------------------------------------------------------
(* The wake task: initialize_agent_pool and the send of its result.        *)

\* The task reaps what it has started unless it succeeds.
WakeEnds(t, ok) ==
    /\ t.state = "starting"
    /\ ok \/ t.attempt <= MaxAttempts \/ shutdown_sent
    /\ wake_tasks' = wake_tasks \ {t}
    /\ wake_rx' = Append(wake_rx, [attempt |-> t.attempt, ok |-> ok])
    /\ running' = IF ok THEN running ELSE running \ {t.attempt}
    /\ UNCHANGED <<lifecycle, pool_ready, work, lazy_wake_work_pending,
                   shutdown_sent, installed, pc>>

\* A panic, or the abort after the drain's grace period, unwinds the task; the
\* dropped clients kill their processes.
WakePanics(t) ==
    /\ t.state = "starting" /\ (t.attempt <= MaxAttempts \/ pc = "drain")
    /\ wake_tasks' = (wake_tasks \ {t}) \cup {[t EXCEPT !.state = "panicked"]}
    /\ running' = running \ {t.attempt}
    /\ UNCHANGED <<lifecycle, pool_ready, work, lazy_wake_work_pending, wake_rx,
                   shutdown_sent, installed, pc>>

Signal ==
    /\ ~shutdown_sent /\ shutdown_sent' = TRUE
    /\ UNCHANGED <<lifecycle, pool_ready, work, lazy_wake_work_pending,
                   wake_tasks, wake_rx, running, installed, pc>>

RetryElapses ==
    /\ lifecycle.retry_at = "future"
    /\ lifecycle' = [lifecycle EXCEPT !.retry_at = "past"]
    /\ UNCHANGED <<pool_ready, work, lazy_wake_work_pending, wake_tasks,
                   wake_rx, shutdown_sent, running, installed, pc>>

Stopped == pc = "stopped" /\ UNCHANGED vars

Next ==
    \/ LoopTop \/ HandleWake \/ RetryTimer \/ WakeTaskFailed \/ RelayEvent
    \/ MemberRemoved \/ LeaveLoop \/ Reap \/ Signal \/ RetryElapses \/ Stopped
    \/ \E t \in wake_tasks, ok \in BOOLEAN : WakeEnds(t, ok)
    \/ \E t \in wake_tasks : WakePanics(t)

Spec == Init /\ [][Next]_vars

\* Agent initialisation ends (each slot has a 60 s timeout), timers fire and
\* the biased select takes wake results, retries and panics before relay
\* events; the shutdown arm comes last and is taken when relay traffic pauses.
Fairness ==
    /\ WF_vars(LoopTop)
    /\ SF_vars(HandleWake) /\ SF_vars(RetryTimer) /\ SF_vars(WakeTaskFailed)
    /\ WF_vars(RetryElapses) /\ WF_vars(Reap)
    /\ SF_vars(shutdown_sent /\ LeaveLoop)
    /\ WF_vars(\E t \in wake_tasks, ok \in BOOLEAN : WakeEnds(t, ok))

FairSpec == Spec /\ Fairness

-----------------------------------------------------------------------------
\* The attempts whose outcome the loop does not know yet.
Outstanding == {t.attempt : t \in wake_tasks}
                  \cup {wake_rx[i].attempt : i \in 1..Len(wake_rx)}

\* While the loop runs, a wake is under way exactly when the lifecycle says
\* Waking, and it is that attempt's: complete_wake never has to refuse a
\* result, whose agent processes would then have no owner.
WakeAccounted ==
    pc # "stopped" =>
        Outstanding = IF lifecycle.state = "Waking" THEN {lifecycle.attempt} ELSE {}

\* Every pool whose agents run has exactly one owner (a wake task, the channel
\* or the loop), and the loop never replaces a pool it has installed.
OnePool ==
    /\ Cardinality(running) <= 1 /\ Len(installed) <= 1
    /\ pc # "stopped" => running \subseteq Outstanding \cup ToSet(installed)

\* However a shutdown races the wake, no agent process outlives the loop.
NoAgentOutlivesLoop == pc = "stopped" => running = {}

\* The retry timer never fires without work for the retry to dispatch, which
\* would spin the loop on a deadline that stays in the past.
RetryTimerNeverSpins == [][RetryTimer => work /\ WakeDue]_vars

\* Buffered work is met by a pool, drained, or the loop ends.
WorkWakesPool == work ~> (pool_ready \/ ~work \/ pc = "stopped")
=============================================================================
