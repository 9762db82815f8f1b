--------------------------- MODULE LazyPoolProofs ---------------------------
(***************************************************************************)
(* Proofs about the deferred start of the pool, for every number of        *)
(* attempts.                                                               *)
(*                                                                         *)
(* None of the invariants is inductive: that a result in the channel is    *)
(* the current attempt's depends on there being one task at a time, and    *)
(* which processes run depends on how that task ended.  The inductive      *)
(* invariant says where the one wake can be (asleep, starting, panicked,   *)
(* in the channel, installed, or reaped) and what runs in each case.       *)
(***************************************************************************)
EXTENDS LazyPool, FiniteSetTheorems, TLAPS

Task(a, s) == [attempt |-> a, state |-> s]
Result(a, ok) == [attempt |-> a, ok |-> ok]

\* No wake is under way and no pool is installed.
Asleep == /\ lifecycle.state # "Waking" /\ ~pool_ready
          /\ wake_tasks = {} /\ wake_rx = <<>> /\ installed = <<>> /\ running = {}

\* The task of the current attempt is bringing agents up, ...
Starting == /\ lifecycle.state = "Waking" /\ ~pool_ready
            /\ wake_tasks = {Task(lifecycle.attempt, "starting")}
            /\ wake_rx = <<>> /\ installed = <<>> /\ running = {lifecycle.attempt}

\* ... or has panicked and taken them down, ...
Panicked == /\ lifecycle.state = "Waking" /\ ~pool_ready
            /\ wake_tasks = {Task(lifecycle.attempt, "panicked")}
            /\ wake_rx = <<>> /\ installed = <<>> /\ running = {}

\* ... or has sent its result, with the agents if it succeeded.
Reported == /\ lifecycle.state = "Waking" /\ ~pool_ready
            /\ wake_tasks = {} /\ installed = <<>>
            /\ \E ok \in BOOLEAN : /\ wake_rx = <<Result(lifecycle.attempt, ok)>>
                                   /\ running = IF ok THEN {lifecycle.attempt} ELSE {}

\* The loop has taken the pool over.
Installed == /\ lifecycle = Listening /\ pool_ready
             /\ wake_tasks = {} /\ wake_rx = <<>>
             /\ \E a \in Attempts : installed = <<a>> /\ running = {a}

\* The loop has ended and reaped everything.
Reaped == /\ wake_tasks = {} /\ wake_rx = <<>> /\ running = {}
          /\ installed = <<>> \/ \E a \in Attempts : installed = <<a>>

PoolInv == /\ lifecycle \in Lifecycle
           /\ pool_ready \in BOOLEAN /\ work \in BOOLEAN
           /\ pc \in {"top", "select", "drain", "stopped"}
           /\ pc # "stopped" => Asleep \/ Starting \/ Panicked \/ Reported \/ Installed
           /\ pc = "stopped" => Reaped
           /\ pc = "select" => lazy_wake_work_pending = (~pool_ready /\ work)
           /\ lifecycle.retry_at # "absent" => lifecycle.state = "Failed"
           /\ lifecycle.state = "Waking" => lifecycle.attempt \in Attempts

-----------------------------------------------------------------------------

LEMMA LifecycleFacts ==
  /\ Listening \in Lifecycle /\ Listening.state = "Listening" /\ Listening.retry_at = "absent"
  /\ \A a \in Attempts : /\ Waking(a) \in Lifecycle /\ Waking(a).state = "Waking"
                         /\ Waking(a).attempt = a /\ Waking(a).retry_at = "absent"
                         /\ Failed(a) \in Lifecycle /\ Failed(a).state = "Failed"
BY DEF Listening, Waking, Failed, Lifecycle

LEMMA RecordFacts ==
  \A a, s, ok : /\ Task(a, s).attempt = a /\ Task(a, s).state = s
                /\ Result(a, ok).attempt = a /\ Result(a, ok).ok = ok
BY DEF Task, Result

\* The one result in the channel, and the one installed pool.
LEMMA OneElement ==
  \A x : /\ <<x>> # <<>> /\ Head(<<x>>) = x /\ Tail(<<x>>) = <<>>
         /\ Append(<<>>, x) = <<x>> /\ Len(<<x>>) = 1 /\ <<x>>[1] = x
         /\ ToSet(<<x>>) = {x}
BY DEF ToSet

LEMMA PoolInit == Init => PoolInv
BY LifecycleFacts DEF Init, PoolInv, Asleep

LEMMA TopStep == PoolInv /\ LoopTop => PoolInv'
<1> SUFFICES ASSUME PoolInv, LoopTop PROVE PoolInv'
  OBVIOUS
<1> USE DEF PoolInv
<1>1. CASE ~pool_ready /\ work /\ WakeDue /\ lifecycle.attempt <= MaxAttempts
  <2> DEFINE a == lifecycle.attempt + 1
  <2>1. a \in Attempts
    BY <1>1, LazyPoolAssumption DEF Attempts, Lifecycle
  <2>2. /\ lifecycle' = Waking(a) /\ running' = running \cup {a}
        /\ wake_tasks' = wake_tasks \cup {Task(a, "starting")}
    BY <1>1 DEF LoopTop, Task
  <2>3. Asleep
    BY <1>1 DEF LoopTop, WakeDue, Starting, Panicked, Reported, Installed
  <2> HIDE DEF a
  <2>4. Starting'
    BY <2>1, <2>2, <2>3, LifecycleFacts DEF LoopTop, Starting, Asleep
  <2> QED BY <2>1, <2>2, <2>4, LifecycleFacts DEF LoopTop
<1>2. CASE ~(~pool_ready /\ work /\ WakeDue /\ lifecycle.attempt <= MaxAttempts)
  BY <1>2 DEF LoopTop, Asleep, Starting, Panicked, Reported, Installed
<1> QED BY <1>1, <1>2

LEMMA WakeStep == PoolInv /\ HandleWake => PoolInv'
<1> SUFFICES ASSUME PoolInv, HandleWake PROVE PoolInv'
  OBVIOUS
<1> USE DEF PoolInv
<1> DEFINE a == lifecycle.attempt
<1>1. Reported
  BY DEF HandleWake, Asleep, Starting, Panicked, Installed
<1>2. PICK ok \in BOOLEAN : wake_rx = <<Result(a, ok)>> /\ running = IF ok THEN {a} ELSE {}
  BY <1>1 DEF Reported
<1>3. a \in Attempts
  BY <1>1 DEF Reported
<1>4. /\ Head(wake_rx).attempt = a /\ Head(wake_rx).ok = ok /\ Completes(a)
      /\ Tail(wake_rx) = <<>>
  BY <1>1, <1>2, OneElement, RecordFacts DEF Reported, Completes
<1>5. CASE ok
  <2>1. /\ lifecycle' = Listening /\ pool_ready' = TRUE
        /\ installed' = Append(installed, a) /\ work' = FALSE
        /\ wake_rx' = <<>> /\ pc' = "top" /\ UNCHANGED <<wake_tasks, running>>
    BY <1>4, <1>5 DEF HandleWake
  <2>2. Installed'
    BY <1>1, <1>2, <1>3, <1>5, <2>1, OneElement DEF Reported, Installed
  <2> QED BY <2>1, <2>2, LifecycleFacts
<1>6. CASE ~ok
  <2>1. /\ lifecycle' = Failed(a) /\ wake_rx' = <<>> /\ pc' = "top"
        /\ UNCHANGED <<pool_ready, installed, work, wake_tasks, running>>
    BY <1>4, <1>6 DEF HandleWake
  <2>2. Asleep'
    BY <1>1, <1>2, <1>3, <1>6, <2>1, LifecycleFacts DEF Reported, Asleep
  <2> QED BY <1>3, <2>1, <2>2, LifecycleFacts
<1> QED BY <1>5, <1>6

LEMMA TaskFailedStep == PoolInv /\ WakeTaskFailed => PoolInv'
<1> SUFFICES ASSUME PoolInv, WakeTaskFailed PROVE PoolInv'
  OBVIOUS
<1> USE DEF PoolInv
<1>1. Panicked
  BY RecordFacts DEF WakeTaskFailed, Asleep, Starting, Reported, Installed
<1>2. /\ lifecycle' = Failed(lifecycle.attempt) /\ wake_tasks' = {} /\ pc' = "top"
      /\ lifecycle.attempt \in Attempts
      /\ UNCHANGED <<pool_ready, work, wake_rx, running, installed>>
  BY <1>1 DEF WakeTaskFailed, Panicked
<1>3. Asleep'
  BY <1>1, <1>2, LifecycleFacts DEF Panicked, Asleep
<1> QED BY <1>2, <1>3, LifecycleFacts

\* The select arms that change the work or leave the loop only.
LEMMA ArmStep ==
  ASSUME PoolInv, RetryTimer \/ RelayEvent \/ MemberRemoved \/ LeaveLoop
  PROVE  PoolInv'
<1>1. /\ UNCHANGED <<lifecycle, pool_ready, wake_tasks, wake_rx, running, installed>>
      /\ pc # "stopped" /\ pc' \in {"top", "drain"} /\ work' \in BOOLEAN
  BY DEF PoolInv, RetryTimer, RelayEvent, MemberRemoved, LeaveLoop
<1> QED BY <1>1 DEF PoolInv, Asleep, Starting, Panicked, Reported, Installed

\* Every task has ended, so what still runs is in the channel or installed.
LEMMA ReapStep == PoolInv /\ Reap => PoolInv'
<1> SUFFICES ASSUME PoolInv, Reap PROVE PoolInv'
  OBVIOUS
<1> USE DEF PoolInv
<1> DEFINE sent == {wake_rx[i].attempt : i \in 1..Len(wake_rx)}
<1>1. /\ wake_tasks' = {} /\ wake_rx' = <<>> /\ pc' = "stopped"
      /\ running' = running \ (sent \cup ToSet(installed))
      /\ UNCHANGED <<lifecycle, pool_ready, work, installed>>
  BY DEF Reap
<1>2. ~Starting
  BY RecordFacts DEF Reap, Starting
<1>3. ASSUME Reported PROVE running \subseteq sent
  <2>1. PICK ok \in BOOLEAN : /\ wake_rx = <<Result(lifecycle.attempt, ok)>>
                              /\ running \subseteq {lifecycle.attempt}
    BY <1>3 DEF Reported
  <2>2. 1 \in 1..Len(wake_rx) /\ wake_rx[1].attempt = lifecycle.attempt
    BY <2>1, OneElement, RecordFacts
  <2> QED BY <2>1, <2>2
<1>4. running \subseteq sent \cup ToSet(installed)
  BY <1>2, <1>3, OneElement DEF Reap, Asleep, Panicked, Installed
<1>5. Reaped'
  <2>1. installed = <<>> \/ \E a \in Attempts : installed = <<a>>
    BY <1>2 DEF Reap, Asleep, Panicked, Reported, Installed
  <2> HIDE DEF sent
  <2> QED BY <1>1, <1>4, <2>1 DEF Reaped
<1> QED BY <1>1, <1>5

LEMMA TaskEnds ==
  ASSUME PoolInv, NEW t \in wake_tasks, NEW ok \in BOOLEAN, WakeEnds(t, ok)
  PROVE  PoolInv'
<1> USE DEF PoolInv
<1> DEFINE a == lifecycle.attempt
<1>1. Starting /\ t = Task(a, "starting") /\ pc # "stopped"
  BY RecordFacts DEF WakeEnds, Asleep, Starting, Panicked, Reported, Installed, Reaped
<1>2. /\ wake_tasks' = {} /\ wake_rx' = <<Result(a, ok)>>
      /\ running' = IF ok THEN {a} ELSE {}
  <2>1. t.attempt = a /\ wake_tasks = {t} /\ wake_rx = <<>> /\ running = {a}
    BY <1>1, RecordFacts DEF Starting
  <2>2. wake_rx' = Append(<<>>, Result(a, ok))
    BY <2>1 DEF WakeEnds, Result
  <2>3. wake_tasks' = {} /\ running' = IF ok THEN {a} ELSE {}
    BY <2>1 DEF WakeEnds
  <2> QED BY <2>2, <2>3, OneElement
<1>3. UNCHANGED <<lifecycle, pool_ready, work, lazy_wake_work_pending, installed, pc>>
  BY DEF WakeEnds
<1>4. Reported'
  BY <1>1, <1>2, <1>3 DEF Starting, Reported
<1> QED BY <1>1, <1>3, <1>4

LEMMA TaskPanics ==
  ASSUME PoolInv, NEW t \in wake_tasks, WakePanics(t)
  PROVE  PoolInv'
<1> USE DEF PoolInv
<1> DEFINE a == lifecycle.attempt
<1>1. Starting /\ t = Task(a, "starting") /\ pc # "stopped"
  BY RecordFacts DEF WakePanics, Asleep, Starting, Panicked, Reported, Installed, Reaped
<1>2. [t EXCEPT !.state = "panicked"] = Task(a, "panicked")
  BY <1>1 DEF Task
<1>3. wake_tasks' = {Task(a, "panicked")} /\ running' = {}
  BY <1>1, <1>2, RecordFacts DEF WakePanics, Starting
<1>4. UNCHANGED <<lifecycle, pool_ready, work, lazy_wake_work_pending, wake_rx, installed, pc>>
  BY DEF WakePanics
<1>5. Panicked'
  BY <1>1, <1>3, <1>4 DEF Starting, Panicked
<1> QED BY <1>1, <1>4, <1>5

LEMMA ElapseStep == PoolInv /\ RetryElapses => PoolInv'
<1> SUFFICES ASSUME PoolInv, RetryElapses PROVE PoolInv'
  OBVIOUS
<1> USE DEF PoolInv
<1>1. /\ lifecycle.state = "Failed" /\ lifecycle' \in Lifecycle
      /\ lifecycle'.state = "Failed" /\ lifecycle'.retry_at = "past"
  BY DEF RetryElapses, Lifecycle
<1>2. UNCHANGED <<pool_ready, work, lazy_wake_work_pending, wake_tasks, wake_rx, running,
                  installed, pc>>
  BY DEF RetryElapses
<1>3. pc # "stopped" => Asleep
  BY <1>1, LifecycleFacts DEF Starting, Panicked, Reported, Installed
<1>4. pc # "stopped" => Asleep'
  BY <1>1, <1>2, <1>3 DEF Asleep
<1> QED BY <1>1, <1>2, <1>4 DEF Reaped

LEMMA PoolNext == PoolInv /\ [Next]_vars => PoolInv'
<1> SUFFICES ASSUME PoolInv, [Next]_vars PROVE PoolInv'
  OBVIOUS
<1>1. CASE Signal \/ Stopped \/ UNCHANGED vars
  <2>1. UNCHANGED <<lifecycle, pool_ready, work, lazy_wake_work_pending, wake_tasks, wake_rx,
                    running, installed, pc>>
    BY <1>1 DEF Signal, Stopped, vars
  <2> QED BY <2>1 DEF PoolInv, Asleep, Starting, Panicked, Reported, Installed, Reaped
<1>2. CASE LoopTop \/ HandleWake \/ RetryTimer \/ WakeTaskFailed \/ RelayEvent
           \/ MemberRemoved \/ LeaveLoop \/ Reap \/ RetryElapses
  BY <1>2, TopStep, WakeStep, TaskFailedStep, ArmStep, ReapStep, ElapseStep
<1>3. CASE \E t \in wake_tasks, ok \in BOOLEAN : WakeEnds(t, ok)
  BY <1>3, TaskEnds
<1>4. CASE \E t \in wake_tasks : WakePanics(t)
  BY <1>4, TaskPanics
<1> QED BY <1>1, <1>2, <1>3, <1>4 DEF Next

-----------------------------------------------------------------------------

\* The inductive invariant of the lifecycle.
THEOREM PoolInvariant == Spec => []PoolInv
BY PoolInit, PoolNext, PTL DEF Spec

\* complete_wake never refuses a result: the wake under way is the lifecycle's.
THEOREM NoStrayWake == Spec => []WakeAccounted
<1>1. PoolInv => WakeAccounted
  <2> SUFFICES ASSUME PoolInv, pc # "stopped"
               PROVE  Outstanding = IF lifecycle.state = "Waking" THEN {lifecycle.attempt} ELSE {}
    BY DEF WakeAccounted
  <2>1. CASE Asleep \/ Installed
    BY <2>1, LifecycleFacts DEF Asleep, Installed, Outstanding
  <2>2. CASE Starting \/ Panicked
    BY <2>2, RecordFacts DEF Starting, Panicked, Outstanding
  <2>3. CASE Reported
    <3>1. wake_tasks = {} /\ lifecycle.state = "Waking"
      BY <2>3 DEF Reported
    <3>2. Len(wake_rx) = 1 /\ wake_rx[1].attempt = lifecycle.attempt
      BY <2>3, OneElement, RecordFacts DEF Reported
    <3> QED BY <3>1, <3>2 DEF Outstanding
  <2> QED BY <2>1, <2>2, <2>3 DEF PoolInv
<1> QED BY <1>1, PoolInvariant, PTL

\* No second pool is ever brought up, and what runs has an owner.
THEOREM OnePoolAtATime == Spec => []OnePool
<1>1. PoolInv => OnePool
  <2> SUFFICES ASSUME PoolInv PROVE OnePool
    OBVIOUS
  <2>1. Len(installed) <= 1
    <3>1. installed = <<>> \/ \E a : installed = <<a>>
      BY DEF PoolInv, Asleep, Starting, Panicked, Reported, Installed, Reaped
    <3>2. CASE installed = <<>>
      BY <3>2
    <3>3. CASE \E a : installed = <<a>>
      BY <3>3, OneElement
    <3> QED BY <3>1, <3>2, <3>3
  <2>2. \E x : running \subseteq {x}
    BY DEF PoolInv, Asleep, Starting, Panicked, Reported, Installed, Reaped
  <2>3. Cardinality(running) <= 1
    <3>1. PICK x : running \subseteq {x}
      BY <2>2
    <3>2. IsFiniteSet({x}) /\ Cardinality({x}) = 1
      BY FS_Singleton
    <3> QED BY <3>1, <3>2, FS_Subset, FS_CardinalityType
  <2>4. ASSUME pc # "stopped" PROVE running \subseteq Outstanding \cup ToSet(installed)
    <3>1. CASE Asleep \/ Panicked \/ Installed
      BY <3>1, OneElement DEF Asleep, Panicked, Installed
    <3>2. CASE Starting
      BY <3>2, RecordFacts DEF Starting, Outstanding
    <3>3. CASE Reported
      <4>1. running \subseteq {lifecycle.attempt}
        BY <3>3 DEF Reported
      <4>2. Len(wake_rx) = 1 /\ wake_rx[1].attempt = lifecycle.attempt
        BY <3>3, OneElement, RecordFacts DEF Reported
      <4> QED BY <4>1, <4>2 DEF Outstanding
    <3> QED BY <2>4, <3>1, <3>2, <3>3 DEF PoolInv
  <2> QED BY <2>1, <2>3, <2>4 DEF OnePool
<1> QED BY <1>1, PoolInvariant, PTL

\* However a shutdown races the wake, no agent process outlives the loop.
THEOREM EveryAgentReaped == Spec => []NoAgentOutlivesLoop
<1>1. PoolInv => NoAgentOutlivesLoop
  BY DEF PoolInv, Reaped, NoAgentOutlivesLoop
<1> QED BY <1>1, PoolInvariant, PTL

\* A retry timer that fires finds work, and a wake that is due.
THEOREM NoSpin == Spec => RetryTimerNeverSpins
<1>1. PoolInv /\ [Next]_vars => [RetryTimer => work /\ WakeDue]_vars
  BY DEF PoolInv, RetryTimer, WakeDue
<1> QED BY <1>1, PoolInvariant, PTL DEF Spec, RetryTimerNeverSpins
=============================================================================
