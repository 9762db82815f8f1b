----------------------------- MODULE TurnBudget -----------------------------
(***************************************************************************)
(* The clocks of one channel turn: the read loop's idle and hard deadlines *)
(* (acp.rs, pool.rs) against the in-flight deadline with which the event   *)
(* queue declares the turn orphaned (queue.rs).                            *)
(*                                                                         *)
(* Time is a natural number and starts at the dispatch.  The phases are    *)
(* those of run_prompt_task: "setup" (session/new and the other RPCs of a  *)
(* session), "initial" (the initial message of a fresh session), "fetch"   *)
(* (the context of the prompt), "prompt", "cleanup" (cancel, then drain),  *)
(* "returned" (metric published, result on its way to the loop) and "done" *)
(* (mark_complete).  Each wait ends at any instant up to its bound.  The   *)
(* read loop looks at its deadlines between two lines; a write to the      *)
(* agent blocks it meanwhile, and a deadline may pass unseen.              *)
(***************************************************************************)
EXTENDS Integers

CONSTANTS MaxTurn,        \* max_turn_duration
          IdleTimeout,    \* idle_timeout
          Buffer,         \* IN_FLIGHT_DEADLINE_BUFFER_SECS
          WriteTimeout,   \* WRITE_TIMEOUT of one write to the agent
          CleanupFloor,   \* the 30 s floor of cancel_with_cleanup
          ControlGrace,   \* CONTROL_CANCEL_GRACE
          CancelWrites,   \* bound on the writes before the drain
          MaxSetup,       \* bound on the RPCs that set a session up
          MaxFetch,       \* bound on the fetches of the prompt's context
          Latency,        \* bound on the way of a result or an ack to the loop
          InitialMessage, \* is an initial message configured?
          MaxSteers       \* bound on steers that land in the turn

ASSUME BudgetAssumption ==
    /\ MaxTurn \in Nat /\ IdleTimeout \in Nat /\ Buffer \in Nat
    /\ WriteTimeout \in Nat /\ CleanupFloor \in Nat /\ ControlGrace \in Nat
    /\ CancelWrites \in Nat /\ MaxSetup \in Nat /\ MaxFetch \in Nat
    /\ Latency \in Nat /\ MaxSteers \in Nat /\ InitialMessage \in BOOLEAN

VARIABLES now,
          phase,
          idle_deadline,
          hard_deadline,      \* current_hard_deadline
          phase_end,          \* when a phase without deadlines must be over
          write_end,          \* when a write under way times out, or NoWrite
          steer_rx,           \* the turn's steer receiver: "held" or "dropped"
          acks,               \* confirmed steers the loop has not handled yet
          steers,             \* what is left of MaxSteers
          in_flight_deadline, \* in_flight_deadlines[channel], or NoDeadline
          overhead            \* history: time that no prompt's cap accounts for

read_loop == <<idle_deadline, hard_deadline, write_end>>
steering == <<steer_rx, acks, steers>>
backstop == <<in_flight_deadline, overhead>>
vars == <<now, phase, read_loop, phase_end, steering, backstop>>

NoWrite == -1
NoDeadline == -1

Later(a, b) == IF a >= b THEN a ELSE b
Sooner(a, b) == IF a <= b THEN a ELSE b

Prompting == phase \in {"initial", "prompt"}

\* The deadline the read loop waits for.
next_deadline == Sooner(idle_deadline, hard_deadline)

\* The read loop has looked at its deadlines and waits for a line.
Reading == Prompting /\ write_end = NoWrite /\ now < next_deadline

\* The next instant at which the turn does something by itself.
Due == IF write_end # NoWrite THEN write_end
       ELSE IF Prompting THEN next_deadline ELSE phase_end

Init ==
    /\ now = 0
    /\ phase = "setup" /\ phase_end = MaxSetup
    /\ idle_deadline = 0 /\ hard_deadline = 0 /\ write_end = NoWrite
    /\ steer_rx = "held" /\ acks = {} /\ steers = MaxSteers
    /\ in_flight_deadline = MaxTurn + Buffer
    /\ overhead = 0

\* The main prompt runs under its cap, and the queue knows the cap.
Capped == phase = "prompt" /\ now < hard_deadline /\ acks = {}

Elapse ==
    /\ phase # "done" /\ now < Due
    /\ \A a \in acks : now < a.due
    /\ now' = now + 1
    /\ overhead' = IF Capped THEN overhead ELSE overhead + 1
    /\ UNCHANGED <<phase, read_loop, phase_end, steering, in_flight_deadline>>

-----------------------------------------------------------------------------
(* run_prompt_task and the read loop.                                      *)

\* A phase that only a bound ends.
Enter(next, bound) ==
    /\ phase' = next /\ phase_end' = now + bound
    /\ write_end' = NoWrite
    /\ UNCHANGED <<now, idle_deadline, hard_deadline, backstop>>

\* session_prompt_blocks_with_idle_timeout: the hard deadline counts from
\* before the prompt is written, the idle deadline from after.
StartPrompt(next) ==
    /\ phase' = next
    /\ hard_deadline' = now + MaxTurn
    /\ write_end' = now + WriteTimeout
    /\ idle_deadline' = now + WriteTimeout + IdleTimeout
    /\ UNCHANGED <<now, phase_end, steering, backstop>>

\* A fresh session gets the initial message first.
SetupEnds ==
    /\ phase = "setup"
    /\ \/ InitialMessage /\ StartPrompt("initial")
       \/ Enter("fetch", MaxFetch) /\ UNCHANGED steering

\* The first read loop took the steer receiver and drops it.
InitialMessageEnds ==
    /\ phase = "initial"
    /\ Enter("fetch", MaxFetch)
    /\ steer_rx' = "dropped"
    /\ UNCHANGED <<acks, steers>>

FetchEnds == phase = "fetch" /\ StartPrompt("prompt")

\* The write under way went through: the prompt's own, which arms the idle
\* deadline, or one from within the read loop.
WriteEnds ==
    /\ write_end # NoWrite /\ write_end' = NoWrite
    /\ idle_deadline' = Sooner(idle_deadline, now + IdleTimeout)
    /\ UNCHANGED <<now, phase, hard_deadline, phase_end, steering, backstop>>

\* A line from the agent renews the idle deadline; a request is answered.
Activity ==
    /\ Reading
    /\ idle_deadline' = now + IdleTimeout
    /\ write_end' \in {NoWrite, now + WriteTimeout}
    /\ UNCHANGED <<now, phase, hard_deadline, phase_end, steering, backstop>>

\* A steer request is written.
SteerWritten ==
    /\ Reading /\ steer_rx = "held" /\ steers > 0
    /\ write_end' = now + WriteTimeout
    /\ UNCHANGED <<now, phase, idle_deadline, hard_deadline, phase_end, steering, backstop>>

\* An injected steer renews the hard deadline; its ack goes to the loop.  A
\* steer that started a new turn is acknowledged without a renewal.
SteerLands(injected) ==
    /\ Reading /\ steer_rx = "held" /\ steers > 0
    /\ steers' = steers - 1
    /\ acks' = acks \cup {[steer |-> steers, due |-> now + Latency]}
    /\ idle_deadline' = now + IdleTimeout
    /\ hard_deadline' = IF injected THEN Later(hard_deadline, now + MaxTurn)
                        ELSE hard_deadline
    /\ UNCHANGED <<now, phase, write_end, phase_end, steer_rx, backstop>>

\* The metric, then send_prompt_result.
Report == Enter("returned", Latency) /\ UNCHANGED steering

\* cancel_with_cleanup and its variant with a grace: the writes, then the
\* drain until the given deadline, which a last write may block.
Cleanup(until) ==
    /\ Enter("cleanup", Later(until + WriteTimeout, now + CancelWrites) - now)
    /\ UNCHANGED steering

\* Setup fails, or a prompt ends in an answer or an error.
TurnEnds == phase \in {"setup", "initial", "prompt"} /\ Report

IdleTimeoutFires ==
    /\ Prompting /\ write_end = NoWrite
    /\ idle_deadline < hard_deadline /\ now >= idle_deadline
    /\ Cleanup(Later(hard_deadline, now + CleanupFloor))

HardTimeoutFires ==
    /\ Prompting /\ write_end = NoWrite
    /\ hard_deadline <= idle_deadline /\ now >= hard_deadline
    /\ Report

\* A control signal wins the select around the main prompt, also in the
\* middle of a write.
ControlCancel == phase = "prompt" /\ Cleanup(now + ControlGrace)

CleanupEnds == phase = "cleanup" /\ Report

-----------------------------------------------------------------------------
(* The main loop and the event queue.                                      *)

\* Mutant: the queue never learns that the turn was prolonged.
AckIgnored(a) ==
    /\ acks' = acks \ {a}
    /\ UNCHANGED <<now, phase, read_loop, phase_end, steer_rx, steers, backstop>>

\* extend_in_flight_deadline, a no-op once the channel is not in flight.
AckHandled(a) ==
    /\ acks' = acks \ {a}
    /\ IF in_flight_deadline = NoDeadline
       THEN UNCHANGED backstop
       ELSE /\ in_flight_deadline' = Later(in_flight_deadline, now + MaxTurn + Buffer)
            /\ overhead' = 0
    /\ UNCHANGED <<now, phase, read_loop, phase_end, steer_rx, steers>>

MarkCompleted ==
    /\ phase = "returned" /\ phase' = "done"
    /\ in_flight_deadline' = NoDeadline
    /\ UNCHANGED <<now, read_loop, phase_end, steering, overhead>>

\* flush_next or has_flushable_work finds the deadline passed.
Expire ==
    /\ in_flight_deadline # NoDeadline /\ now >= in_flight_deadline
    /\ in_flight_deadline' = NoDeadline
    /\ UNCHANGED <<now, phase, read_loop, phase_end, steering, overhead>>

Next ==
    \/ Elapse \/ SetupEnds \/ InitialMessageEnds \/ FetchEnds
    \/ WriteEnds \/ Activity \/ SteerWritten
    \/ \E injected \in BOOLEAN : SteerLands(injected)
    \/ TurnEnds \/ IdleTimeoutFires \/ HardTimeoutFires
    \/ ControlCancel \/ CleanupEnds
    \/ \E a \in acks : AckHandled(a)
    \/ MarkCompleted \/ Expire

Spec == Init /\ [][Next]_vars

-----------------------------------------------------------------------------
\* Type invariant.
TypeOK ==
    /\ now \in Nat
    /\ phase \in {"setup", "initial", "fetch", "prompt", "cleanup", "returned", "done"}
    /\ idle_deadline \in Nat /\ hard_deadline \in Nat
    /\ phase_end \in Nat /\ write_end \in Nat \cup {NoWrite}
    /\ steer_rx \in {"held", "dropped"}
    /\ acks \subseteq [steer : Nat, due : Nat] /\ steers \in Nat
    /\ in_flight_deadline \in Nat \cup {NoDeadline} /\ overhead \in Nat

\* The queue has given up a turn that still lives.
Orphaned == phase # "done" /\ in_flight_deadline = NoDeadline

\* However often steers prolong a turn and however long its parts take, the
\* backstop of the event queue (flush_next, has_flushable_work) gives up a
\* live turn only after the turn has spent the whole buffer outside the cap of
\* its main prompt, counted from its dispatch or from the last extension: the
\* loop's extensions keep up with the read loop's renewals.
OrphanedOnlyByOverhead == Orphaned => overhead >= Buffer

\* The in-flight deadline is "strictly greater than max_turn_duration so a turn
\* running to the hard cap returns via mark_complete before the backstop
\* fires": no live turn is ever given up.
BackstopAfterTurn == ~Orphaned
=============================================================================
