------------------------- MODULE AgentHarnessProofs -------------------------
(***************************************************************************)
(* The harness keeps its types, its queues within their cap, at most one   *)
(* agent per slot and every live slot's circuit closed, for every number   *)
(* of slots, channels and events and every bound.                          *)
(*                                                                         *)
(* The inductive invariant is the conjunction of these with                *)
(* TasksAccounted, which ties the prompt results on their way to the loop  *)
(* to the task map.  It falls into the part about the slots (SlotInv),     *)
(* which only a handful of ways to touch a slot can disturb, and the types *)
(* of all the other variables (RestOK).                                    *)
(*                                                                         *)
(* Three more invariants rest on it.  TurnInv: every turn has its mark and *)
(* every mark its turn.  EventInv: every event that was accepted is held   *)
(* by one channel of the queue or out with one task, or accounted for.     *)
(* AckInv: an event that is being steered, or that the agent has confirmed *)
(* as a steer, is nowhere from where it could be prompted.                 *)
(***************************************************************************)
EXTENDS AgentHarness, EventQueueProofs, FiniteSetTheorems

\* A prompt result on its way to the loop belongs to a task that has returned
\* and not panicked, no task has two results, and only a channel's task can
\* hold a steer.
TasksAccounted ==
    /\ \A s \in Slots :
          task_map[s] # NoTask /\ task_map[s].channel_id = Heartbeat =>
              task_map[s].mail = {} /\ task_map[s].wire = {}
    /\ \A i \in 1..Len(result_rx) :
          /\ task_map[result_rx[i]] # NoTask
          /\ task_map[result_rx[i]].state = "returned"
    /\ \A i, j \in 1..Len(result_rx) : result_rx[i] = result_rx[j] => i = j

\* The types of the variables that are about the slots.
SlotTypes ==
    /\ agents \in SUBSET Slots
    /\ task_map \in [Slots -> Task \cup {NoTask}]
    /\ result_rx \in Seq(Slots)
    /\ crash_history \in [Slots -> Circuit]
    /\ respawn_tasks \in [Slots -> Nat]
    /\ respawn_rx \in Seq([slot : Slots, ok : BOOLEAN])

\* What holds of the slots.
SlotInv == SlotTypes /\ SlotExclusive /\ CircuitClosedWhileLive /\ TasksAccounted

slotVars == <<agents, task_map, result_rx, crash_history, respawn_tasks, respawn_rx>>

\* The types of the loop's own counters and flags.
CountersOK ==
    /\ heartbeat_in_flight \in BOOLEAN
    /\ maintenance_due \in BOOLEAN
    /\ pc \in {"maintain", "collect", "select", "drain", "dispatch", "exit"}
    /\ ret \in {"maintain", "collect", "select"}
    /\ faults \in 0..MaxFaults /\ commands \in 0..MaxCommands

\* The types of the sets of channels and of the histories.
HistoryOK ==
    /\ removed_channels \in SUBSET Channels
    /\ arrived \in SUBSET Events
    /\ done \in SUBSET Events /\ acked \in SUBSET Events
    /\ failed \in SUBSET Events /\ interrupted \in SUBSET Events

\* What holds of everything but the slots.
RestOK ==
    /\ GoodQueue(queue)
    /\ sessions \in [Slots -> SUBSET Channels]
    /\ steer_ack_rx \in SUBSET SteerAck
    /\ CountersOK
    /\ HistoryOK

\* The inductive invariant.
HarnessInv == SlotInv /\ RestOK

\* The inductive invariant is what the properties and the types need.
LEMMA HarnessInvImplies ==
    HarnessInv => TypeOK /\ QueueBounded /\ SlotExclusive /\ CircuitClosedWhileLive
BY DEF HarnessInv, SlotInv, SlotTypes, RestOK, CountersOK, HistoryOK, TypeOK,
       QueueBounded, GoodQueue

-----------------------------------------------------------------------------
(* The ways to touch a slot.                                               *)

\* A step that leaves the slots alone.
LEMMA SlotStutter ==
    ASSUME SlotInv, UNCHANGED slotVars
    PROVE  SlotInv'
BY DEF slotVars, SlotInv, SlotTypes, SlotExclusive, CircuitClosedWhileLive,
       TasksAccounted, SlotAlive, Reported

\* A task goes on: its slot stays claimed, and nothing is reported twice.
LEMMA TaskGoesOn ==
    ASSUME SlotInv, NEW s \in Slots, task_map[s] # NoTask, NEW t \in Task,
           t.state = task_map[s].state,
           t.channel_id = task_map[s].channel_id,
           t.channel_id = Heartbeat => t.mail = {} /\ t.wire = {},
           task_map' = [task_map EXCEPT ![s] = t],
           UNCHANGED <<agents, result_rx, crash_history, respawn_tasks, respawn_rx>>
    PROVE  SlotInv'
<1>1. t # NoTask
  BY AbsenceAssumption
<1>2. SlotTypes'
  BY DEF SlotInv, SlotTypes
<1>3. \A x \in Slots : task_map'[x] # NoTask <=> task_map[x] # NoTask
  BY <1>1 DEF SlotInv, SlotTypes
<1>4. SlotExclusive'
  BY <1>3 DEF SlotInv, SlotExclusive, SlotAlive, Reported
<1>5. CircuitClosedWhileLive'
  BY <1>3 DEF SlotInv, CircuitClosedWhileLive, SlotAlive
<1>6. \A i \in 1..Len(result_rx) : result_rx[i] \in Slots
  BY ElementOfSeq DEF SlotInv, SlotTypes
<1>7. TasksAccounted'
  BY <1>1, <1>6 DEF SlotInv, SlotTypes, TasksAccounted
<1> QED
  BY <1>2, <1>4, <1>5, <1>7 DEF SlotInv

\* A running task ends and sends a result, or panics and sends none.
LEMMA TaskStops ==
    ASSUME SlotInv, NEW s \in Slots,
           task_map[s] # NoTask, task_map[s].state = "running",
           NEW t \in Task, t.mail = {}, t.wire = {},
           task_map' = [task_map EXCEPT ![s] = t],
           \/ t.state = "returned" /\ result_rx' = Append(result_rx, s)
           \/ t.state = "panicked" /\ UNCHANGED result_rx,
           UNCHANGED <<agents, crash_history, respawn_tasks, respawn_rx>>
    PROVE  SlotInv'
<1>1. t # NoTask
  BY AbsenceAssumption
<1>2. SlotTypes'
  <2>1. result_rx' \in Seq(Slots)
    <3>1. result_rx \in Seq(Slots)
      BY DEF SlotInv, SlotTypes
    <3> QED
      BY <3>1, AppendProperties
  <2> QED
    BY <2>1 DEF SlotInv, SlotTypes
<1>3. \A x \in Slots : task_map'[x] # NoTask <=> task_map[x] # NoTask
  BY <1>1 DEF SlotInv, SlotTypes
<1>4. SlotExclusive'
  BY <1>3 DEF SlotInv, SlotExclusive, SlotAlive, Reported
<1>5. CircuitClosedWhileLive'
  BY <1>3 DEF SlotInv, CircuitClosedWhileLive, SlotAlive
<1>6. \A i \in 1..Len(result_rx) : result_rx[i] \in Slots /\ result_rx[i] # s
  BY ElementOfSeq DEF SlotInv, SlotTypes, TasksAccounted
<1>7. TasksAccounted'
  <2>1. CASE t.state = "panicked" /\ UNCHANGED result_rx
    BY <1>1, <1>6, <2>1 DEF SlotInv, SlotTypes, TasksAccounted
  <2>2. CASE t.state = "returned" /\ result_rx' = Append(result_rx, s)
    <3>1. /\ Len(result_rx') = Len(result_rx) + 1
          /\ \A i \in 1..Len(result_rx) : result_rx'[i] = result_rx[i]
          /\ result_rx'[Len(result_rx) + 1] = s
          /\ Len(result_rx) \in Nat
      BY <2>2, AppendProperties, LenProperties DEF SlotInv, SlotTypes
    <3> QED
      BY <1>1, <1>6, <2>2, <3>1 DEF SlotInv, SlotTypes, TasksAccounted
  <2> QED
    BY <2>1, <2>2
<1> QED
  BY <1>2, <1>4, <1>5, <1>7 DEF SlotInv

\* An idle agent is claimed for a new task.
LEMMA AgentClaimed ==
    ASSUME SlotInv, NEW s \in agents, NEW t \in Task, t.mail = {}, t.wire = {},
           agents' = agents \ {s},
           task_map' = [task_map EXCEPT ![s] = t],
           UNCHANGED <<result_rx, crash_history, respawn_tasks, respawn_rx>>
    PROVE  SlotInv'
<1>1. t # NoTask /\ s \in Slots
  BY AbsenceAssumption DEF SlotInv, SlotTypes
<1>2. SlotTypes'
  BY <1>1 DEF SlotInv, SlotTypes
<1>3. \A x \in Slots : task_map'[x] # NoTask <=> task_map[x] # NoTask \/ x = s
  BY <1>1 DEF SlotInv, SlotTypes
<1>4. SlotExclusive'
  BY <1>1, <1>3 DEF SlotInv, SlotExclusive, SlotAlive, Reported
<1>5. CircuitClosedWhileLive'
  BY <1>1, <1>3 DEF SlotInv, CircuitClosedWhileLive, SlotAlive
<1>6. task_map[s] = NoTask
  BY <1>1 DEF SlotInv, SlotExclusive
<1>7. \A i \in 1..Len(result_rx) : result_rx[i] \in Slots /\ result_rx[i] # s
  BY <1>6, ElementOfSeq DEF SlotInv, SlotTypes, TasksAccounted
<1>8. TasksAccounted'
  BY <1>1, <1>7 DEF SlotInv, SlotTypes, TasksAccounted
<1> QED
  BY <1>2, <1>4, <1>5, <1>8 DEF SlotInv

\* The loop takes the result of a task whose agent lives on.
LEMMA AgentReturned ==
    ASSUME SlotInv, result_rx # <<>>,
           task_map' = [task_map EXCEPT ![Head(result_rx)] = NoTask],
           agents' = agents \cup {Head(result_rx)},
           result_rx' = Tail(result_rx),
           UNCHANGED <<crash_history, respawn_tasks, respawn_rx>>
    PROVE  SlotInv'
<1> DEFINE s == Head(result_rx)
<1>1. /\ s \in Slots /\ s = result_rx[1]
      /\ result_rx' \in Seq(Slots)
      /\ Len(result_rx') = Len(result_rx) - 1
      /\ \A i \in 1..Len(result_rx') : result_rx'[i] = result_rx[i + 1]
      /\ Len(result_rx) \in Nat /\ Len(result_rx) >= 1
  BY HeadTailProperties, LenProperties, EmptySeq DEF SlotInv, SlotTypes
<1>2. task_map[s] # NoTask
  BY <1>1 DEF SlotInv, TasksAccounted
<1> HIDE DEF s
<1>3. SlotTypes'
  BY <1>1 DEF SlotInv, SlotTypes, s
<1>4. \A x \in Slots : /\ task_map'[x] # NoTask <=> task_map[x] # NoTask /\ x # s
                       /\ x \in agents' <=> x \in agents \/ x = s
  BY <1>1 DEF SlotInv, SlotTypes, s
<1>5. SlotExclusive'
  BY <1>1, <1>2, <1>4 DEF SlotInv, SlotExclusive, SlotAlive, Reported
<1>6. CircuitClosedWhileLive'
  BY <1>1, <1>2, <1>4 DEF SlotInv, CircuitClosedWhileLive, SlotAlive
<1>7. \A i \in 1..Len(result_rx') : result_rx'[i] \in Slots /\ result_rx'[i] # s
  <2>1. \A i \in 1..Len(result_rx') : result_rx'[i] \in Slots
    BY <1>1, ElementOfSeq
  <2> QED
    BY <1>1, <2>1 DEF SlotInv, TasksAccounted
<1>8. TasksAccounted'
  <2>1. \A x \in Slots \ {s} : task_map'[x] = task_map[x]
    BY DEF SlotInv, SlotTypes, s
  <2>2. \A i \in 1..Len(result_rx') : i + 1 \in 1..Len(result_rx)
    BY <1>1
  <2>3. \A x \in Slots : task_map'[x] # NoTask => task_map'[x] = task_map[x]
    BY <1>4, <2>1
  <2>4. \A i \in 1..Len(result_rx') : /\ task_map'[result_rx'[i]] # NoTask
                                      /\ task_map'[result_rx'[i]].state = "returned"
    BY <1>1, <1>7, <2>1, <2>2 DEF SlotInv, TasksAccounted
  <2>5. \A i, j \in 1..Len(result_rx') : result_rx'[i] = result_rx'[j] => i = j
    <3>1. ASSUME NEW i \in 1..Len(result_rx'), NEW j \in 1..Len(result_rx'),
                 result_rx'[i] = result_rx'[j]
          PROVE  i = j
      <4>1. i + 1 = j + 1
        BY <1>1, <2>2, <3>1 DEF SlotInv, TasksAccounted
      <4> QED
        BY <1>1, <4>1
    <3> QED
      BY <3>1
  <2> QED
    BY <2>3, <2>4, <2>5 DEF SlotInv, TasksAccounted
<1> QED
  BY <1>3, <1>5, <1>6, <1>8 DEF SlotInv

\* record_crash on the closed circuit of a live slot.
LEMMA RecordCrashType ==
    ASSUME NEW k \in Circuit, k.open_until = "absent", k.crash_times < Threshold,
           k.respawn_in_flight = FALSE, NEW r \in RecordCrash(k)
    PROVE  /\ r \in Circuit
           /\ r.respawn_in_flight => r.open_until = "absent"
           /\ r.open_until = "absent" => r.crash_times < Threshold
<1>1. PICK recent \in 1..(k.crash_times + 1) :
        r = IF recent >= Threshold
            THEN [k EXCEPT !.crash_times = recent, !.open_until = "future"]
            ELSE [k EXCEPT !.crash_times = recent, !.respawn_in_flight = TRUE]
  BY DEF RecordCrash
<1>2. recent \in 0..Threshold
  BY CircuitAssumption DEF Circuit
<1>3. CASE recent >= Threshold
  <2>1. r = [k EXCEPT !.crash_times = recent, !.open_until = "future"]
    BY <1>1, <1>3
  <2>2. r.respawn_in_flight = FALSE
    BY <2>1 DEF Circuit
  <2> QED
    BY <2>1, <2>2, <1>2 DEF Circuit
<1>4. CASE ~(recent >= Threshold)
  <2>1. r = [k EXCEPT !.crash_times = recent, !.respawn_in_flight = TRUE]
    BY <1>1, <1>4
  <2>2. recent < Threshold
    BY <1>2, <1>4, CircuitAssumption
  <2> QED
    BY <2>1, <2>2, <1>2 DEF Circuit
<1> QED
  BY <1>3, <1>4

\* The agent of a claimed slot is gone: its crash is recorded.
LEMMA SlotCrashed ==
    ASSUME SlotInv, NEW s \in Slots, task_map[s] # NoTask,
           CrashSlot(s),
           task_map' = [task_map EXCEPT ![s] = NoTask],
           result_rx' \in Seq(Slots),
           \A i \in 1..Len(result_rx') :
               /\ result_rx'[i] # s
               /\ task_map[result_rx'[i]] # NoTask
               /\ task_map[result_rx'[i]].state = "returned",
           \A i, j \in 1..Len(result_rx') : result_rx'[i] = result_rx'[j] => i = j,
           UNCHANGED <<agents, respawn_rx>>
    PROVE  SlotInv'
<1>1. PICK k \in RecordCrash(crash_history[s]) :
        /\ crash_history' = [crash_history EXCEPT ![s] = k]
        /\ respawn_tasks' = [respawn_tasks EXCEPT ![s] =
                               @ + (IF k.respawn_in_flight THEN 1 ELSE 0)]
  BY DEF CrashSlot
<1>2. /\ crash_history[s] \in Circuit
      /\ crash_history[s].respawn_in_flight = FALSE
      /\ crash_history[s].open_until = "absent"
      /\ crash_history[s].crash_times < Threshold
  BY DEF SlotInv, SlotTypes, SlotExclusive, CircuitClosedWhileLive, SlotAlive, Circuit
<1>3. /\ k \in Circuit
      /\ k.respawn_in_flight => k.open_until = "absent"
      /\ k.open_until = "absent" => k.crash_times < Threshold
  BY <1>2, RecordCrashType
<1>4. respawn_tasks[s] = 0 /\ ~Reported(s)
  BY <1>2 DEF SlotInv, SlotTypes, SlotExclusive
<1>5. respawn_tasks' = [respawn_tasks EXCEPT ![s] =
                          IF k.respawn_in_flight THEN 1 ELSE 0]
  BY <1>1, <1>4
<1>6. SlotTypes'
  BY <1>1, <1>3, <1>5 DEF SlotInv, SlotTypes
<1>7. \A x \in Slots : task_map'[x] # NoTask <=> task_map[x] # NoTask /\ x # s
  BY DEF SlotInv, SlotTypes
<1>8. \A x \in Slots \ {s} : /\ crash_history'[x] = crash_history[x]
                             /\ respawn_tasks'[x] = respawn_tasks[x]
  BY <1>1, <1>5 DEF SlotInv, SlotTypes
<1>9. /\ crash_history'[s] = k
      /\ respawn_tasks'[s] = IF k.respawn_in_flight THEN 1 ELSE 0
      /\ k.respawn_in_flight \in BOOLEAN
  BY <1>1, <1>3, <1>5 DEF SlotInv, SlotTypes, Circuit
<1>10. \A x \in Slots : Reported(x)' <=> Reported(x)
  BY DEF Reported
<1>11. s \notin agents
  BY DEF SlotInv, SlotExclusive
<1>12. SlotExclusive'
  <2>1. ASSUME NEW x \in Slots
        PROVE  /\ respawn_tasks'[x] <= (IF Reported(x) THEN 0 ELSE 1)
               /\ crash_history'[x].respawn_in_flight <=>
                     respawn_tasks'[x] > 0 \/ Reported(x)
               /\ ~(x \in agents /\ task_map'[x] # NoTask)
               /\ x \in agents \/ task_map'[x] # NoTask =>
                     ~crash_history'[x].respawn_in_flight
    <3>1. CASE x = s
      BY <3>1, <1>4, <1>7, <1>9, <1>11
    <3>2. CASE x # s
      BY <3>2, <1>7, <1>8 DEF SlotInv, SlotExclusive, SlotAlive
    <3> QED
      BY <3>1, <3>2
  <2> QED
    BY <2>1, <1>10 DEF SlotInv, SlotExclusive, SlotAlive
<1>13. CircuitClosedWhileLive'
  <2>1. ASSUME NEW x \in Slots
        PROVE  /\ \/ x \in agents \/ task_map'[x] # NoTask
                  \/ crash_history'[x].respawn_in_flight
                  => crash_history'[x].open_until = "absent"
               /\ crash_history'[x].open_until = "absent" =>
                     crash_history'[x].crash_times < Threshold
    <3>1. CASE x = s
      BY <3>1, <1>3, <1>7, <1>9, <1>11
    <3>2. CASE x # s
      BY <3>2, <1>7, <1>8 DEF SlotInv, CircuitClosedWhileLive, SlotAlive
    <3> QED
      BY <3>1, <3>2
  <2> QED
    BY <2>1 DEF CircuitClosedWhileLive, SlotAlive
<1>14. TasksAccounted'
  <2>1. \A i \in 1..Len(result_rx') : result_rx'[i] \in Slots
    BY ElementOfSeq
  <2> QED
    BY <2>1, <1>7 DEF SlotInv, SlotTypes, TasksAccounted
<1> QED
  BY <1>6, <1>12, <1>13, <1>14 DEF SlotInv

\* The channel of spawn reports has room for every spawn that is under way.
LEMMA RespawnChannelHasRoom ==
    ASSUME SlotInv, NEW s \in Slots, respawn_tasks[s] > 0
    PROVE  Len(respawn_rx) < Cardinality(Slots)
<1> DEFINE n == Len(respawn_rx)
           f == [i \in 1..n |-> respawn_rx[i].slot]
<1>1. n \in Nat /\ \A i \in 1..n : respawn_rx[i].slot \in Slots
  <2>1. respawn_rx \in Seq([slot : Slots, ok : BOOLEAN])
    BY DEF SlotInv, SlotTypes
  <2>2. \A i \in 1..n : respawn_rx[i] \in [slot : Slots, ok : BOOLEAN]
    BY <2>1, ElementOfSeq
  <2> QED
    BY <2>1, <2>2, LenProperties
<1>2. ~Reported(s)
  BY DEF SlotInv, SlotTypes, SlotExclusive
<1>3. f \in [1..n -> Slots \ {s}]
  BY <1>1, <1>2 DEF Reported
<1>4. \A i, j \in 1..n : f[i] = f[j] => i = j
  BY DEF SlotInv, SlotExclusive
<1>5. f \in Injection(1..n, Slots \ {s})
  <2> HIDE DEF f
  <2> QED
    BY <1>3, <1>4 DEF Injection, IsInjective
<1>6. IsFiniteSet(Slots \ {s}) /\ Cardinality(Slots \ {s}) = Cardinality(Slots) - 1
  BY HarnessAssumption, FS_RemoveElement
<1>7. Cardinality(1..n) <= Cardinality(Slots) - 1
  <2> HIDE DEF f, n
  <2>1. Cardinality(1..n) <= Cardinality(Slots \ {s})
    BY <1>5, <1>6, FS_Injection, Zenon
  <2> QED
    BY <2>1, <1>6
<1>8. Cardinality(1..n) = n
  <2> HIDE DEF n
  <2>1. 1 \in Int /\ n \in Int
    BY <1>1
  <2>2. Cardinality(1..n) = IF 1 > n THEN 0 ELSE n - 1 + 1
    BY <2>1, FS_Interval, Zenon
  <2> QED
    BY <1>1, <2>2
<1>9. Cardinality(Slots) \in Nat
  BY HarnessAssumption, FS_CardinalityType
<1> QED
  BY <1>1, <1>7, <1>8, <1>9

\* A spawn that ends becomes a report.
LEMMA SpawnReported ==
    ASSUME SlotInv, NEW s \in Slots, NEW ok \in BOOLEAN, RespawnEnds(s, ok)
    PROVE  SlotInv'
<1> DEFINE n == Len(respawn_rx)
<1>1. /\ respawn_tasks[s] > 0
      /\ respawn_tasks' = [respawn_tasks EXCEPT ![s] = @ - 1]
      /\ UNCHANGED <<agents, task_map, result_rx, crash_history>>
  BY DEF RespawnEnds, pool
<1>2. respawn_rx' = Append(respawn_rx, [slot |-> s, ok |-> ok])
  BY <1>1, RespawnChannelHasRoom DEF RespawnEnds
<1>3. ~Reported(s) /\ respawn_tasks[s] = 1
  BY <1>1 DEF SlotInv, SlotTypes, SlotExclusive
<1>4. /\ n \in Nat /\ Len(respawn_rx') = n + 1
      /\ respawn_rx' \in Seq([slot : Slots, ok : BOOLEAN])
      /\ \A i \in 1..n : respawn_rx'[i] = respawn_rx[i]
      /\ respawn_rx'[n + 1].slot = s
  <2>1. respawn_rx \in Seq([slot : Slots, ok : BOOLEAN])
    BY DEF SlotInv, SlotTypes
  <2> QED
    BY <1>2, <2>1, AppendProperties, LenProperties
<1>5. \A x \in Slots : Reported(x)' <=> Reported(x) \/ x = s
  BY <1>4 DEF Reported
<1>6. SlotTypes'
  BY <1>1, <1>3, <1>4 DEF SlotInv, SlotTypes
<1>7. SlotExclusive'
  <2>1. \A i, j \in 1..Len(respawn_rx') :
           respawn_rx'[i].slot = respawn_rx'[j].slot => i = j
    BY <1>3, <1>4 DEF SlotInv, SlotExclusive, Reported
  <2>2. /\ respawn_tasks'[s] = 0
        /\ \A x \in Slots \ {s} : respawn_tasks'[x] = respawn_tasks[x]
    BY <1>1, <1>3 DEF SlotInv, SlotTypes
  <2>3. ASSUME NEW x \in Slots
        PROVE  /\ respawn_tasks'[x] <= (IF Reported(x)' THEN 0 ELSE 1)
               /\ crash_history[x].respawn_in_flight <=>
                     respawn_tasks'[x] > 0 \/ Reported(x)'
    <3>1. CASE x = s
      BY <3>1, <1>3, <1>5, <2>2 DEF SlotInv, SlotExclusive
    <3>2. CASE x # s
      BY <3>2, <1>5, <2>2 DEF SlotInv, SlotExclusive
    <3> QED
      BY <3>1, <3>2
  <2> QED
    BY <1>1, <2>1, <2>3 DEF SlotInv, SlotExclusive, SlotAlive
<1>8. CircuitClosedWhileLive'
  BY <1>1 DEF SlotInv, CircuitClosedWhileLive, SlotAlive
<1>9. TasksAccounted'
  BY <1>1 DEF SlotInv, TasksAccounted
<1> QED
  BY <1>6, <1>7, <1>8, <1>9 DEF SlotInv

\* The cooldown of an open circuit ends.
LEMMA CircuitCooled ==
    ASSUME SlotInv, NEW s \in Slots, ClockCooldown(s)
    PROVE  SlotInv'
<1>1. /\ crash_history[s].open_until = "future"
      /\ crash_history' = [crash_history EXCEPT ![s] = CooldownElapses(@)]
      /\ UNCHANGED <<agents, task_map, result_rx, respawn_tasks, respawn_rx>>
  BY DEF ClockCooldown, pool
<1>2. /\ CooldownElapses(crash_history[s]) \in Circuit
      /\ CooldownElapses(crash_history[s]).respawn_in_flight =
             crash_history[s].respawn_in_flight
  BY DEF CooldownElapses, Circuit, SlotInv, SlotTypes
<1>3. \A x \in Slots :
        /\ crash_history'[x].respawn_in_flight = crash_history[x].respawn_in_flight
        /\ x # s => crash_history'[x] = crash_history[x]
  BY <1>1, <1>2 DEF SlotInv, SlotTypes
<1>4. /\ ~SlotAlive(s) /\ ~crash_history[s].respawn_in_flight
      /\ crash_history'[s].open_until = "past"
  BY <1>1 DEF SlotInv, SlotTypes, Circuit, CircuitClosedWhileLive, CooldownElapses
<1>5. SlotTypes'
  BY <1>1, <1>2 DEF SlotInv, SlotTypes
<1>6. SlotExclusive'
  BY <1>1, <1>3 DEF SlotInv, SlotExclusive, SlotAlive, Reported
<1>7. CircuitClosedWhileLive'
  BY <1>1, <1>3, <1>4 DEF SlotInv, CircuitClosedWhileLive, SlotAlive
<1>8. TasksAccounted'
  BY <1>1 DEF SlotInv, TasksAccounted
<1> QED
  BY <1>5, <1>6, <1>7, <1>8 DEF SlotInv

\* Maintenance starts a spawn for every empty slot whose circuit allows one.
LEMMA SlotsRefilled ==
    ASSUME SlotInv,
           crash_history' = [s \in Slots |->
               IF s \in Refillable THEN Refilled(crash_history[s])
               ELSE crash_history[s]],
           respawn_tasks' = [s \in Slots |->
               respawn_tasks[s] + (IF s \in Refillable THEN 1 ELSE 0)],
           UNCHANGED <<agents, task_map, result_rx, respawn_rx>>
    PROVE  SlotInv'
<1>1. ASSUME NEW s \in Refillable
      PROVE  /\ s \in Slots /\ ~SlotAlive(s) /\ ~Reported(s)
             /\ respawn_tasks[s] = 0
             /\ crash_history'[s] \in Circuit
             /\ crash_history'[s].respawn_in_flight
             /\ crash_history'[s].open_until = "absent"
             /\ crash_history'[s].crash_times < Threshold
             /\ respawn_tasks'[s] = 1
  <2> DEFINE k == crash_history[s]
  <2>1. s \in Slots /\ ~SlotAlive(s) /\ ~k.respawn_in_flight /\ k.open_until # "future"
    BY <1>1 DEF Refillable, CanRefill
  <2>2. k \in Circuit /\ respawn_tasks[s] = 0 /\ ~Reported(s)
    BY <2>1 DEF SlotInv, SlotTypes, SlotExclusive
  <2>3. crash_history'[s] = Refilled(k)
    BY <1>1, <2>1
  <2>4. respawn_tasks'[s] = 1
    BY <1>1, <2>1, <2>2
  <2> HIDE DEF k
  <2>5. k.open_until = "absent" => k.crash_times < Threshold
    BY <2>1 DEF SlotInv, CircuitClosedWhileLive, k
  <2>6. /\ Refilled(k) \in Circuit
        /\ Refilled(k).respawn_in_flight
        /\ Refilled(k).open_until = "absent"
        /\ Refilled(k).crash_times < Threshold
    <3>1. CASE k.open_until = "absent"
      BY <2>2, <2>5, <3>1 DEF Circuit, Refilled
    <3>2. CASE k.open_until = "past"
      <4>1. Threshold - 1 \in 0..Threshold /\ Threshold - 1 < Threshold
        BY CircuitAssumption
      <4>2. Refilled(k) = [k EXCEPT !.crash_times = Threshold - 1,
                                    !.open_until = "absent",
                                    !.respawn_in_flight = TRUE]
        BY <3>2 DEF Refilled, PreSeeded
      <4> QED
        BY <2>2, <4>1, <4>2 DEF Circuit
    <3> QED
      BY <2>1, <2>2, <3>1, <3>2 DEF Circuit
  <2> QED
    BY <2>1, <2>2, <2>3, <2>4, <2>6 DEF k
<1>2. ASSUME NEW s \in Slots, s \notin Refillable
      PROVE  /\ crash_history'[s] = crash_history[s]
             /\ respawn_tasks'[s] = respawn_tasks[s]
  BY <1>2 DEF SlotInv, SlotTypes
<1>3. SlotTypes'
  <2>1. ASSUME NEW s \in Slots
        PROVE  crash_history'[s] \in Circuit /\ respawn_tasks'[s] \in Nat
    <3>1. CASE s \in Refillable
      BY <3>1, <1>1
    <3>2. CASE s \notin Refillable
      BY <3>2, <1>2 DEF SlotInv, SlotTypes
    <3> QED
      BY <3>1, <3>2
  <2> QED
    BY <2>1 DEF SlotInv, SlotTypes
<1>4. \A s \in Slots : (Reported(s)' <=> Reported(s)) /\ (SlotAlive(s)' <=> SlotAlive(s))
  BY DEF Reported, SlotAlive
<1>5. SlotExclusive'
  <2>1. ASSUME NEW s \in Slots
        PROVE  /\ respawn_tasks'[s] <= (IF Reported(s) THEN 0 ELSE 1)
               /\ crash_history'[s].respawn_in_flight <=>
                     respawn_tasks'[s] > 0 \/ Reported(s)
               /\ SlotAlive(s) => ~crash_history'[s].respawn_in_flight
    <3>1. CASE s \in Refillable
      BY <3>1, <1>1
    <3>2. CASE s \notin Refillable
      BY <3>2, <1>2 DEF SlotInv, SlotExclusive
    <3> QED
      BY <3>1, <3>2
  <2> QED
    BY <1>4, <2>1 DEF SlotInv, SlotExclusive
<1>6. CircuitClosedWhileLive'
  <2>1. ASSUME NEW s \in Slots
        PROVE  /\ SlotAlive(s) \/ crash_history'[s].respawn_in_flight =>
                     crash_history'[s].open_until = "absent"
               /\ crash_history'[s].open_until = "absent" =>
                     crash_history'[s].crash_times < Threshold
    <3>1. CASE s \in Refillable
      BY <3>1, <1>1
    <3>2. CASE s \notin Refillable
      BY <3>2, <1>2 DEF SlotInv, CircuitClosedWhileLive
    <3> QED
      BY <3>1, <3>2
  <2> QED
    BY <1>4, <2>1 DEF CircuitClosedWhileLive
<1>7. TasksAccounted'
  BY DEF SlotInv, TasksAccounted
<1> QED
  BY <1>3, <1>5, <1>6, <1>7 DEF SlotInv

\* The loop takes every spawn report off the channel.
LEMMA SpawnsCollected ==
    ASSUME SlotInv, NEW ok \in SUBSET Slots,
           \A s \in ok : Reported(s),
           crash_history' = [s \in Slots |->
               IF Reported(s) THEN Collected(crash_history[s], s \in ok)
               ELSE crash_history[s]],
           agents' = agents \cup ok,
           respawn_rx' = <<>>,
           UNCHANGED <<task_map, result_rx, respawn_tasks>>
    PROVE  SlotInv'
<1>1. ASSUME NEW s \in Slots, Reported(s)
      PROVE  /\ ~SlotAlive(s) /\ respawn_tasks[s] = 0
             /\ crash_history'[s] \in Circuit
             /\ ~crash_history'[s].respawn_in_flight
             /\ s \in ok => crash_history'[s].open_until = "absent"
             /\ crash_history'[s].open_until = "absent" =>
                   crash_history'[s].crash_times < Threshold
  <2> DEFINE k == crash_history[s]
  <2>1. /\ k \in Circuit /\ respawn_tasks[s] = 0
        /\ k.respawn_in_flight /\ ~SlotAlive(s)
    BY <1>1 DEF SlotInv, SlotTypes, SlotExclusive
  <2>2. k.open_until = "absent" /\ k.crash_times < Threshold
    BY <2>1 DEF SlotInv, CircuitClosedWhileLive
  <2>3. crash_history'[s] = Collected(k, s \in ok)
    BY <1>1
  <2> HIDE DEF k
  <2>4. CASE s \in ok
    BY <2>1, <2>2, <2>3, <2>4 DEF Collected, Circuit
  <2>5. CASE s \notin ok
    BY <2>1, <2>2, <2>3, <2>5 DEF Collected, Circuit
  <2> QED
    BY <2>1, <2>4, <2>5
<1>2. ASSUME NEW s \in Slots, ~Reported(s)
      PROVE  /\ crash_history'[s] = crash_history[s]
             /\ s \notin ok
  BY <1>2
<1>3. Len(respawn_rx') = 0 /\ \A s \in Slots : ~Reported(s)'
  BY EmptySeq DEF Reported
<1>4. SlotTypes'
  <2>1. \A s \in Slots : crash_history'[s] \in Circuit
    BY <1>1, <1>2 DEF SlotInv, SlotTypes
  <2>2. respawn_rx' \in Seq([slot : Slots, ok : BOOLEAN])
    BY EmptySeq
  <2> QED
    BY <2>1, <2>2 DEF SlotInv, SlotTypes
<1>5. \A s \in Slots : SlotAlive(s)' <=> SlotAlive(s) \/ s \in ok
  BY DEF SlotAlive
<1>6. SlotExclusive'
  <2>1. ASSUME NEW s \in Slots
        PROVE  /\ respawn_tasks[s] <= 1
               /\ crash_history'[s].respawn_in_flight <=> respawn_tasks[s] > 0
               /\ ~(s \in agents' /\ task_map[s] # NoTask)
               /\ SlotAlive(s) \/ s \in ok => ~crash_history'[s].respawn_in_flight
    <3>1. CASE Reported(s)
      BY <3>1, <1>1 DEF SlotInv, SlotTypes, SlotAlive
    <3>2. CASE ~Reported(s)
      BY <3>2, <1>2 DEF SlotInv, SlotExclusive
    <3> QED
      BY <3>1, <3>2
  <2> QED
    BY <1>3, <1>5, <2>1 DEF SlotExclusive
<1>7. CircuitClosedWhileLive'
  <2>1. ASSUME NEW s \in Slots
        PROVE  /\ \/ SlotAlive(s) \/ s \in ok
                  \/ crash_history'[s].respawn_in_flight
                  => crash_history'[s].open_until = "absent"
               /\ crash_history'[s].open_until = "absent" =>
                     crash_history'[s].crash_times < Threshold
    <3>1. CASE Reported(s)
      BY <3>1, <1>1
    <3>2. CASE ~Reported(s)
      BY <3>2, <1>2 DEF SlotInv, CircuitClosedWhileLive
    <3> QED
      BY <3>1, <3>2
  <2> QED
    BY <1>5, <2>1 DEF CircuitClosedWhileLive
<1>8. TasksAccounted'
  BY DEF SlotInv, TasksAccounted
<1> QED
  BY <1>4, <1>6, <1>7, <1>8 DEF SlotInv

-----------------------------------------------------------------------------
(* Batches, results and signals.                                           *)

\* The events of a batch are events.
LEMMA BatchEventsType ==
    ASSUME NEW b \in FlushBatch \cup {NoBatch}
    PROVE  BatchEvents(b) \in SUBSET Events
<1>1. CASE b = NoBatch
  BY <1>1 DEF BatchEvents
<1>2. CASE b # NoBatch
  <2>1. b.events \in Seq(Events) /\ b.cancelled_events \in Seq(Events)
    BY <1>2 DEF FlushBatch
  <2>2. ToSet(b.events) \in SUBSET Events
    BY <2>1, ElementOfSeq DEF ToSet
  <2>3. ToSet(b.cancelled_events) \in SUBSET Events
    BY <2>1, ElementOfSeq DEF ToSet
  <2> QED
    BY <1>2, <2>2, <2>3 DEF BatchEvents
<1> QED
  BY <1>1, <1>2

\* What the history records of a batch are events too.
LEMMA FateType ==
    ASSUME NEW q, NEW b \in FlushBatch \cup {NoBatch}, NEW o
    PROVE  GivenUp(q, b, o) \in SUBSET Events /\ PutBack(q, b, o) \in SUBSET Events
<1>1. GivenUp(q, b, o) \in SUBSET Events
  BY BatchEventsType DEF GivenUp
<1>2. PutBack(q, b, o) \in SUBSET Events
  <2>1. CASE b = NoBatch
    BY <2>1 DEF PutBack
  <2>2. CASE b # NoBatch
    <3>1. b.events \in Seq(Events)
      BY <2>2 DEF FlushBatch
    <3>2. ToSet(b.events) \in SUBSET Events
      BY <3>1, ElementOfSeq DEF ToSet
    <3> QED
      BY <3>2 DEF PutBack
  <2> QED
    BY <2>1, <2>2
<1> QED
  BY <1>1, <1>2

\* A result settles a well-formed queue into one.
LEMMA SettleGood ==
    ASSUME NEW q, GoodQueue(q), NEW b \in FlushBatch \cup {NoBatch}, NEW o,
           NEW c \in Channels \cup {Heartbeat}
    PROVE  GoodQueue(Settle(q, b, o, c))
<1>1. GoodQueue(AbsorbBatch(q, b, o))
  <2>1. CASE b = NoBatch \/ b.channel_id \in removed_channels
    BY <2>1 DEF AbsorbBatch
  <2>2. CASE b # NoBatch /\ b.channel_id \notin removed_channels
    <3>1. b \in FlushBatch
      BY <2>2
    <3>2. CASE o \in CancelOutcomes
      <4> DEFINE reason == IF b.cancel_reason = NoReason THEN "Steer"
                           ELSE b.cancel_reason
      <4>1. reason \in CancelReason
        BY <3>1 DEF FlushBatch, CancelReason
      <4>2. o \notin DeadLetterOutcomes
        BY <3>2 DEF CancelOutcomes, DeadLetterOutcomes
      <4>3. AbsorbBatch(q, b, o) = RequeueAsCancelled(q, b, reason)
        BY <2>2, <3>2, <4>2 DEF AbsorbBatch
      <4> HIDE DEF reason
      <4> QED
        BY <3>1, <4>1, <4>3, RequeueAsCancelledGood
    <3>3. CASE o \notin CancelOutcomes /\ o \in DeadLetterOutcomes
      BY <2>2, <3>3 DEF AbsorbBatch
    <3>4. CASE o \notin CancelOutcomes /\ o \notin DeadLetterOutcomes
      <4>1. AbsorbBatch(q, b, o) = Requeue(q, b)
        BY <2>2, <3>4 DEF AbsorbBatch
      <4> QED
        BY <3>1, <4>1, RequeueGood
    <3> QED
      BY <3>2, <3>3, <3>4
  <2> QED
    BY <2>1, <2>2
<1>2. CASE c = Heartbeat
  BY <1>2 DEF Settle
<1>3. CASE c # Heartbeat
  BY <1>1, <1>3, MarkCompleteGood DEF Settle
<1> QED
  BY <1>2, <1>3

\* The types of a claimed slot's task.
LEMMA TaskFields ==
    ASSUME SlotInv, NEW s \in Slots, task_map[s] # NoTask
    PROVE  /\ task_map[s] \in Task
           /\ task_map[s].channel_id \in Channels \cup {Heartbeat}
           /\ task_map[s].batch \in FlushBatch \cup {NoBatch}
           /\ task_map[s].mail \in SUBSET Events
           /\ task_map[s].wire \in SUBSET Events
<1>1. task_map[s] \in Task
  BY DEF SlotInv, SlotTypes
<1> QED
  BY <1>1 DEF Task

\* Only a channel's task holds a steer.
LEMMA SteeredTask ==
    ASSUME SlotInv, NEW s \in Slots, task_map[s] # NoTask,
           task_map[s].mail \cup task_map[s].wire # {}
    PROVE  task_map[s].channel_id \in Channels
BY TaskFields DEF SlotInv, TasksAccounted

\* A control signal reaches a task, or none.
LEMMA Signalled ==
    ASSUME SlotInv, NEW c \in Channels, NEW signal \in ControlSignal,
           SignalInFlightTask(c, signal),
           UNCHANGED <<agents, result_rx, crash_history, respawn_tasks, respawn_rx>>
    PROVE  SlotInv'
<1>1. CASE UNCHANGED task_map
  BY <1>1, SlotStutter DEF slotVars
<1>2. CASE ~UNCHANGED task_map
  <2>1. PICK s \in TasksOn(c) :
          task_map' = [task_map EXCEPT ![s].control =
                         IF @ = "armed" THEN signal ELSE @]
    BY <1>2 DEF SignalInFlightTask
  <2>2. s \in Slots /\ task_map[s] # NoTask
    BY <2>1 DEF TasksOn, Claimed
  <2> DEFINE t == [task_map[s] EXCEPT !.control = IF @ = "armed" THEN signal ELSE @]
  <2>3. task_map' = [task_map EXCEPT ![s] = t]
    BY <2>1
  <2>4. /\ t \in Task /\ t.state = task_map[s].state
        /\ t.channel_id = task_map[s].channel_id
        /\ t.mail = task_map[s].mail /\ t.wire = task_map[s].wire
    BY <2>2, TaskFields DEF Task
  <2>5. t.channel_id = Heartbeat => t.mail = {} /\ t.wire = {}
    BY <2>2, <2>4 DEF SlotInv, TasksAccounted
  <2> HIDE DEF t
  <2> QED
    BY <2>2, <2>3, <2>4, <2>5, TaskGoesOn
<1> QED
  BY <1>1, <1>2

\* try_claim and the heartbeat's claim take an idle agent.
LEMMA ClaimType ==
    ASSUME SlotInv, agents # {}, NEW c
    PROVE  TryClaim(c) \in agents /\ Min(agents) \in agents
<1> DEFINE affine == {s \in agents : c \in sessions[s]}
<1>1. agents \in SUBSET Nat
  BY HarnessAssumption DEF SlotInv, SlotTypes
<1>2. affine \in SUBSET Nat
  BY <1>1
<1>3. Min(agents) \in agents
  BY <1>1, MinIn
<1>4. affine # {} => Min(affine) \in affine
  BY <1>2, MinIn
<1> QED
  BY <1>3, <1>4 DEF TryClaim

\* A new task is a task.
LEMMA NewTaskType ==
    ASSUME NEW c \in Channels \cup {Heartbeat}, NEW b \in FlushBatch \cup {NoBatch}
    PROVE  /\ NewTask(c, b) \in Task
           /\ NewTask(c, b).mail = {} /\ NewTask(c, b).wire = {}
BY DEF NewTask, Task, AllOutcomes

-----------------------------------------------------------------------------
(* The actions, the loop's own first.                                      *)

\* Maintenance preserves the invariant.
LEMMA MaintainInv ==
    ASSUME HarnessInv, Maintain
    PROVE  HarnessInv'
<1>1. CASE ~maintenance_due
  <2>1. UNCHANGED <<queue, sessions, steer_ack_rx, heartbeat_in_flight,
                    removed_channels, input, history, slotVars, maintenance_due>>
        /\ pc' = "collect" /\ ret' = "maintain"
    BY <1>1 DEF Maintain, Proceed, pool, spawn, slotVars
  <2>2. SlotInv'
    BY <2>1, SlotStutter DEF HarnessInv
  <2> QED
    BY <2>1, <2>2 DEF HarnessInv, RestOK, CountersOK, HistoryOK, input, history
<1>2. CASE maintenance_due
  <2>1. /\ crash_history' = [s \in Slots |->
              IF s \in Refillable THEN Refilled(crash_history[s])
              ELSE crash_history[s]]
        /\ respawn_tasks' = [s \in Slots |->
              respawn_tasks[s] + (IF s \in Refillable THEN 1 ELSE 0)]
        /\ queue' = ExpireInFlight(CompactExpiredState(queue))
        /\ maintenance_due' = FALSE
        /\ pc' \in {"dispatch", "collect"} /\ ret' \in {"collect", "maintain"}
        /\ UNCHANGED <<agents, sessions, task_map, result_rx, respawn_rx,
                       steer_ack_rx, heartbeat_in_flight, removed_channels,
                       input, history>>
    BY <1>2 DEF Maintain, Proceed, Dispatch, pool
  <2>2. SlotInv'
    BY <2>1, SlotsRefilled DEF HarnessInv
  <2>3. GoodQueue(queue')
    BY <2>1, CompactExpiredStateGood, ExpireInFlightGood DEF HarnessInv, RestOK
  <2>4. GoodQueue(queue)'
    BY <2>3 DEF GoodQueue
  <2> QED
    BY <2>1, <2>2, <2>4 DEF HarnessInv, RestOK, CountersOK, HistoryOK, input, history
<1> QED
  BY <1>1, <1>2

\* Collecting spawn reports preserves the invariant.
LEMMA CollectRespawnsInv ==
    ASSUME HarnessInv, CollectRespawns
    PROVE  HarnessInv'
<1> DEFINE ok == {respawn_rx[i].slot : i \in {j \in 1..Len(respawn_rx) : respawn_rx[j].ok}}
           back == {respawn_rx[i].slot : i \in 1..Len(respawn_rx)}
<1>1. /\ crash_history' = [s \in Slots |->
            IF s \in back THEN Collected(crash_history[s], s \in ok)
            ELSE crash_history[s]]
      /\ agents' = agents \cup ok
      /\ sessions' = [s \in Slots |-> IF s \in ok THEN {} ELSE sessions[s]]
      /\ pc' \in {"dispatch", "select"} /\ ret' \in {"select", "maintain"}
      /\ respawn_rx' = <<>>
      /\ UNCHANGED <<queue, task_map, result_rx, respawn_tasks, steer_ack_rx,
                     heartbeat_in_flight, removed_channels, maintenance_due,
                     input, history>>
  BY DEF CollectRespawns, Proceed, Dispatch
<1>2. \A i \in 1..Len(respawn_rx) : respawn_rx[i].slot \in Slots
  <2>1. respawn_rx \in Seq([slot : Slots, ok : BOOLEAN])
    BY DEF HarnessInv, SlotInv, SlotTypes
  <2>2. \A i \in 1..Len(respawn_rx) : respawn_rx[i] \in [slot : Slots, ok : BOOLEAN]
    BY <2>1, ElementOfSeq
  <2> QED
    BY <2>2
<1>3. ok \in SUBSET Slots /\ (\A s \in ok : Reported(s))
  BY <1>2 DEF Reported
<1>4. \A s \in Slots : s \in back <=> Reported(s)
  BY DEF Reported
<1> HIDE DEF ok, back
<1>5. crash_history' = [s \in Slots |->
        IF Reported(s) THEN Collected(crash_history[s], s \in ok)
        ELSE crash_history[s]]
  BY <1>1, <1>4
<1>6. SlotInv'
  BY <1>1, <1>3, <1>5, SpawnsCollected DEF HarnessInv
<1>7. sessions' \in [Slots -> SUBSET Channels]
  BY <1>1 DEF HarnessInv, RestOK
<1> QED
  BY <1>1, <1>6, <1>7 DEF HarnessInv, RestOK, CountersOK, HistoryOK, GoodQueue,
                          input, history

\* One iteration of dispatch_pending preserves the invariant.
LEMMA DispatchPendingInv ==
    ASSUME HarnessInv, DispatchPending
    PROVE  HarnessInv'
<1> DEFINE q == ExpireInFlight(queue)
<1>1. UNCHANGED <<sessions, result_rx, crash_history, respawn_tasks, respawn_rx,
                  steer_ack_rx, heartbeat_in_flight, removed_channels,
                  maintenance_due, input, history>>
  BY DEF DispatchPending, spawn
<1>2. GoodQueue(q)
  BY ExpireInFlightGood DEF HarnessInv, RestOK
<1>3. SUFFICES /\ SlotInv' /\ GoodQueue(queue')
               /\ pc' \in {"maintain", "collect", "select", "dispatch"}
               /\ ret' \in {"maintain", "collect", "select"}
  BY <1>1, <1>3 DEF HarnessInv, RestOK, CountersOK, HistoryOK, GoodQueue,
                    input, history
<1>4. CASE FlushChoices(q) = {}
  <2>1. /\ queue' = q /\ UNCHANGED <<agents, task_map>>
        /\ pc' = ret /\ ret' = "maintain"
    BY <1>4 DEF DispatchPending, Proceed
  <2>2. SlotInv'
    BY <1>1, <2>1, SlotStutter DEF HarnessInv, slotVars
  <2> QED
    BY <1>2, <2>1, <2>2 DEF HarnessInv, RestOK, CountersOK
<1>5. CASE FlushChoices(q) # {}
  <2>0. PICK c \in FlushChoices(q) : \E b \in FlushedBatches(q, c) :
          IF agents = {}
          THEN /\ queue' = PoolExhausted(AfterFlush(q, c), b)
               /\ Proceed(ret)
               /\ UNCHANGED <<agents, task_map>>
          ELSE /\ queue' = AfterFlush(q, c)
               /\ agents' = agents \ {TryClaim(c)}
               /\ task_map' = [task_map EXCEPT ![TryClaim(c)] = NewTask(c, b)]
               /\ UNCHANGED <<pc, ret>>
    BY <1>5 DEF DispatchPending
  <2>1. PICK b \in FlushedBatches(q, c) :
          IF agents = {}
          THEN /\ queue' = PoolExhausted(AfterFlush(q, c), b)
               /\ Proceed(ret)
               /\ UNCHANGED <<agents, task_map>>
          ELSE /\ queue' = AfterFlush(q, c)
               /\ agents' = agents \ {TryClaim(c)}
               /\ task_map' = [task_map EXCEPT ![TryClaim(c)] = NewTask(c, b)]
               /\ UNCHANGED <<pc, ret>>
    BY <2>0
  <2>2. c \in Channels
    BY <2>0, FlushChoicesType
  <2>3. b \in FlushBatch /\ b.channel_id = c /\ GoodQueue(AfterFlush(q, c))
    BY <1>2, <2>1, <2>2, FlushedBatchesType, AfterFlushGood
  <2> HIDE DEF q
  <2>4. CASE agents = {}
    <3>1. /\ queue' = PoolExhausted(AfterFlush(q, c), b)
          /\ pc' = ret /\ ret' = "maintain" /\ UNCHANGED <<agents, task_map>>
      BY <2>1, <2>4 DEF Proceed
    <3>2. GoodQueue(queue')
      BY <2>2, <2>3, <3>1, RequeuePreserveGood, MarkCompleteGood DEF PoolExhausted
    <3>3. SlotInv'
      BY <1>1, <3>1, SlotStutter DEF HarnessInv, slotVars
    <3> QED
      BY <3>1, <3>2, <3>3 DEF HarnessInv, RestOK, CountersOK
  <2>5. CASE agents # {}
    <3>1. /\ queue' = AfterFlush(q, c)
          /\ agents' = agents \ {TryClaim(c)}
          /\ task_map' = [task_map EXCEPT ![TryClaim(c)] = NewTask(c, b)]
          /\ UNCHANGED <<pc, ret>>
      BY <2>1, <2>5
    <3>2. TryClaim(c) \in agents
      BY <2>5, ClaimType DEF HarnessInv
    <3>3. /\ NewTask(c, b) \in Task
          /\ NewTask(c, b).mail = {} /\ NewTask(c, b).wire = {}
      BY <2>2, <2>3, NewTaskType
    <3>4. SlotInv'
      BY <1>1, <3>1, <3>2, <3>3, AgentClaimed DEF HarnessInv
    <3>5. pc = "dispatch"
      BY DEF DispatchPending
    <3> QED
      BY <2>3, <3>1, <3>4, <3>5 DEF HarnessInv, RestOK, CountersOK
  <2> QED
    BY <2>4, <2>5
<1> QED
  BY <1>4, <1>5

-----------------------------------------------------------------------------
(* The arms fed by the relay.                                              *)

\* A relay event preserves the invariant.
LEMMA RelayEventInv ==
    ASSUME HarnessInv, NEW c \in Channels, NEW e \in Events, RelayEvent(c, e)
    PROVE  HarnessInv'
<1>1. /\ arrived' = arrived \cup {e}
      /\ pc' = "dispatch" /\ ret' = "maintain"
      /\ done' \in {done, done \cup {e}}
      /\ UNCHANGED <<agents, sessions, result_rx, crash_history, respawn_tasks,
                     respawn_rx, steer_ack_rx, heartbeat_in_flight,
                     removed_channels, maintenance_due, faults, commands, acked,
                     failed, interrupted>>
  BY DEF RelayEvent, Dispatch, spawn
<1>2. SUFFICES SlotInv' /\ GoodQueue(queue')
  BY <1>1, <1>2 DEF HarnessInv, RestOK, CountersOK, HistoryOK, GoodQueue
<1>3. CASE UNCHANGED <<queue, task_map>>
  BY <1>1, <1>3, SlotStutter DEF HarnessInv, RestOK, slotVars, GoodQueue
<1> DEFINE pushed == Push(queue, c, e)
<1>4. GoodQueue(pushed)
  BY PushGood DEF HarnessInv, RestOK
<1>5. GoodQueue(MarkNativeSteerPending(pushed, c, e))
  BY <1>4, MarkNativeSteerPendingGood
<1>6. CASE queue' = pushed /\ UNCHANGED task_map
  BY <1>1, <1>4, <1>6, SlotStutter DEF HarnessInv, slotVars
<1>7. ASSUME NEW signal \in ControlSignal, queue' = pushed,
             SignalInFlightTask(c, signal)
      PROVE  SlotInv' /\ GoodQueue(queue')
  BY <1>1, <1>4, <1>7, Signalled DEF HarnessInv
<1>8. ASSUME NEW s \in SteerTargets(c),
             task_map' = [task_map EXCEPT ![s].mail = {e}],
             queue' = MarkNativeSteerPending(pushed, c, e)
      PROVE  SlotInv' /\ GoodQueue(queue')
  <2>1. s \in Slots /\ task_map[s] # NoTask /\ task_map[s].channel_id = c
    BY <1>8 DEF SteerTargets, TasksOn, Claimed
  <2> DEFINE t == [task_map[s] EXCEPT !.mail = {e}]
  <2>2. task_map' = [task_map EXCEPT ![s] = t]
    BY <1>8
  <2>3. /\ t \in Task /\ t.state = task_map[s].state
        /\ t.channel_id = task_map[s].channel_id
    BY <2>1, TaskFields DEF HarnessInv, Task
  <2>4. t.channel_id # Heartbeat
    BY <2>1, <2>3, HarnessAssumption
  <2> HIDE DEF t
  <2>5. SlotInv'
    BY <1>1, <2>1, <2>2, <2>3, <2>4, TaskGoesOn DEF HarnessInv
  <2> QED
    BY <1>5, <1>8, <2>5
<1>9. CASE ~UNCHANGED <<queue, task_map>>
  <2>1. PICK byOwner \in BOOLEAN :
          LET signal == ModeGateSignal(byOwner) IN
          IF c \notin queue.in_flight_channels \/ signal = "none"
          THEN queue' = pushed /\ UNCHANGED task_map
          ELSE \/ /\ signal = "Steer"
                  /\ \E s \in SteerTargets(c) :
                       task_map' = [task_map EXCEPT ![s].mail = {e}]
                  /\ queue' = MarkNativeSteerPending(pushed, c, e)
               \/ /\ queue' = pushed
                  /\ SignalInFlightTask(c, signal)
    BY <1>9 DEF RelayEvent
  <2>2. ModeGateSignal(byOwner) \in ControlSignal \cup {"none"}
    BY HarnessAssumption DEF ModeGateSignal, ControlSignal
  <2> HIDE DEF pushed
  <2> QED
    BY <2>1, <2>2, <1>6, <1>7, <1>8
<1> QED
  BY <1>3, <1>9

\* An owner's command preserves the invariant.
LEMMA OwnerCommandInv ==
    ASSUME HarnessInv, NEW c \in Channels, NEW signal \in {"Cancel", "Rotate"},
           OwnerCommand(c, signal)
    PROVE  HarnessInv'
<1>1. /\ commands > 0 /\ commands' = commands - 1
      /\ SignalInFlightTask(c, signal)
      /\ pc' = "maintain" /\ ret' = "maintain"
      /\ UNCHANGED <<queue, agents, result_rx, crash_history, respawn_tasks,
                     respawn_rx, steer_ack_rx, heartbeat_in_flight,
                     removed_channels, maintenance_due, arrived, faults, done,
                     acked, failed, interrupted>>
  BY DEF OwnerCommand, Proceed, spawn, history
<1>2. SlotInv'
  BY <1>1, Signalled DEF HarnessInv, ControlSignal
<1>3. sessions' \in [Slots -> SUBSET Channels]
  BY DEF OwnerCommand, HarnessInv, RestOK
<1>4. commands' \in 0..MaxCommands
  BY <1>1, HarnessAssumption DEF HarnessInv, RestOK, CountersOK
<1> QED
  BY <1>1, <1>2, <1>3, <1>4 DEF HarnessInv, RestOK, CountersOK, HistoryOK, GoodQueue

\* The observer's model switch preserves the invariant.
LEMMA SwitchModelInv ==
    ASSUME HarnessInv, NEW c \in Channels, SwitchModel(c)
    PROVE  HarnessInv'
<1>1. /\ commands > 0 /\ commands' = commands - 1
      /\ pc' = "maintain" /\ ret' = "maintain"
      /\ UNCHANGED <<queue, agents, result_rx, crash_history, respawn_tasks,
                     respawn_rx, steer_ack_rx, heartbeat_in_flight,
                     removed_channels, maintenance_due, arrived, faults, done,
                     acked, failed, interrupted>>
  BY DEF SwitchModel, Proceed, spawn, history
<1>2. \/ SignalInFlightTask(c, "SwitchModel") /\ UNCHANGED sessions
      \/ \E s : /\ sessions' \in {sessions, [sessions EXCEPT ![s] = @ \ {c}]}
                /\ UNCHANGED task_map
  BY DEF SwitchModel
<1>3. SlotInv'
  BY <1>1, <1>2, Signalled, SlotStutter DEF HarnessInv, ControlSignal, slotVars
<1>4. sessions' \in [Slots -> SUBSET Channels]
  BY <1>2 DEF HarnessInv, RestOK
<1>5. commands' \in 0..MaxCommands
  BY <1>1, HarnessAssumption DEF HarnessInv, RestOK, CountersOK
<1> QED
  BY <1>1, <1>3, <1>4, <1>5 DEF HarnessInv, RestOK, CountersOK, HistoryOK, GoodQueue

\* Membership changes preserve the invariant.
LEMMA MembershipInv ==
    ASSUME HarnessInv, NEW c \in Channels, MemberRemoved(c) \/ MemberAdded(c)
    PROVE  HarnessInv'
<1>1. /\ commands > 0 /\ commands' = commands - 1
      /\ pc' = "maintain" /\ ret' = "maintain"
      /\ UNCHANGED <<slotVars, steer_ack_rx, heartbeat_in_flight,
                     maintenance_due, arrived, faults, acked, failed, interrupted>>
  BY DEF MemberRemoved, MemberAdded, Proceed, spawn, pool, slotVars, history
<1>2. commands' \in 0..MaxCommands
  BY <1>1, HarnessAssumption DEF HarnessInv, RestOK, CountersOK
<1>3. SlotInv'
  BY <1>1, SlotStutter DEF HarnessInv
<1>4. /\ GoodQueue(queue') /\ sessions' \in [Slots -> SUBSET Channels]
      /\ removed_channels' \in SUBSET Channels /\ done' \in SUBSET Events
  <2>1. CASE MemberRemoved(c)
    <3>1. HeldFor(queue, c) \in SUBSET Events
      <4>1. /\ queue.queues[c] \in Seq(Events)
            /\ queue.withheld_native_steer[c] \in Seq(Events)
            /\ queue.cancelled_batches[c] \in Seq(Events)
        BY DEF HarnessInv, RestOK, GoodQueue, QueueState
      <4>2. \A z \in Seq(Events) : ToSet(z) \in SUBSET Events
        BY ElementOfSeq DEF ToSet
      <4> QED
        BY <4>1, <4>2 DEF HeldFor
    <3>2. GoodQueue(queue')
      BY <2>1, DrainChannelGood DEF MemberRemoved, HarnessInv, RestOK
    <3> QED
      BY <2>1, <3>1, <3>2 DEF MemberRemoved, HarnessInv, RestOK, HistoryOK
  <2>2. CASE MemberAdded(c)
    BY <2>2 DEF MemberAdded, HarnessInv, RestOK, HistoryOK, GoodQueue, pool, history
  <2> QED
    BY <2>1, <2>2
<1> QED
  BY <1>1, <1>2, <1>3, <1>4 DEF HarnessInv, RestOK, CountersOK, HistoryOK, GoodQueue

-----------------------------------------------------------------------------
(* The arms fed by the tasks, and the intervals.                           *)

\* A prompt result preserves the invariant.
LEMMA HandlePromptResultInv ==
    ASSUME HarnessInv, HandlePromptResult
    PROVE  HarnessInv'
<1> DEFINE s == Head(result_rx)
           t == task_map[s]
<1>1. /\ result_rx # <<>>
      /\ task_map' = [task_map EXCEPT ![s] = NoTask]
      /\ queue' = Settle(queue, t.batch, t.outcome, t.channel_id)
      /\ done' = done \cup GivenUp(queue, t.batch, t.outcome)
      /\ failed' = (failed \ GivenUp(queue, t.batch, t.outcome))
                      \cup PutBack(queue, t.batch, t.outcome)
      /\ interrupted' \in {interrupted, interrupted \cup BatchEvents(t.batch)}
      /\ heartbeat_in_flight' \in BOOLEAN
      /\ pc' \in {"exit", "drain"} /\ ret' = "maintain"
      /\ result_rx' = Tail(result_rx)
      /\ UNCHANGED <<respawn_rx, steer_ack_rx, removed_channels, maintenance_due,
                     input, acked>>
  BY DEF HandlePromptResult, Proceed, HeartbeatOver
<1>2. \/ /\ CrashSlot(s)
         /\ sessions' = [sessions EXCEPT ![s] = {}]
         /\ UNCHANGED agents
      \/ /\ agents' = agents \cup {s}
         /\ sessions' = [sessions EXCEPT ![s] = @ \ removed_channels]
         /\ UNCHANGED <<crash_history, respawn_tasks>>
  BY DEF HandlePromptResult, ReturnAgent
<1>3. result_rx \in Seq(Slots)
  BY DEF HarnessInv, SlotInv, SlotTypes
<1>4. /\ s \in Slots /\ s = result_rx[1]
      /\ result_rx' \in Seq(Slots)
      /\ Len(result_rx') = Len(result_rx) - 1
      /\ \A i \in 1..Len(result_rx') : result_rx'[i] = result_rx[i + 1]
      /\ Len(result_rx) \in Nat /\ Len(result_rx) >= 1
  BY <1>1, <1>3, HeadTailProperties, LenProperties, EmptySeq
<1>5. t # NoTask
  BY <1>4 DEF HarnessInv, SlotInv, TasksAccounted
<1> HIDE DEF s
<1>6. t.batch \in FlushBatch \cup {NoBatch} /\ t.channel_id \in Channels \cup {Heartbeat}
  BY <1>4, <1>5, TaskFields DEF HarnessInv
<1> HIDE DEF t
<1>7. GoodQueue(queue')
  BY <1>1, <1>6, SettleGood DEF HarnessInv, RestOK
<1>8. /\ done' \in SUBSET Events /\ failed' \in SUBSET Events
      /\ interrupted' \in SUBSET Events
  BY <1>1, <1>6, FateType, BatchEventsType DEF HarnessInv, RestOK, HistoryOK
<1>9. SlotInv'
  <2>1. CASE agents' = agents \cup {s} /\ UNCHANGED <<crash_history, respawn_tasks>>
    BY <1>1, <2>1, AgentReturned DEF HarnessInv, s
  <2>2. CASE CrashSlot(s) /\ UNCHANGED agents
    <3>1. \A i \in 1..Len(result_rx') :
            /\ i + 1 \in 1..Len(result_rx) /\ i + 1 # 1
            /\ result_rx'[i] = result_rx[i + 1]
      BY <1>4
    <3>2. \A i \in 1..Len(result_rx') :
            /\ result_rx'[i] # s
            /\ task_map[result_rx'[i]] # NoTask
            /\ task_map[result_rx'[i]].state = "returned"
      BY <1>4, <3>1 DEF HarnessInv, SlotInv, TasksAccounted
    <3>3. ASSUME NEW i \in 1..Len(result_rx'), NEW j \in 1..Len(result_rx'),
                 result_rx'[i] = result_rx'[j]
          PROVE  i = j
      <4>1. i + 1 = j + 1
        BY <3>1, <3>3 DEF HarnessInv, SlotInv, TasksAccounted
      <4> QED
        BY <1>4, <4>1
    <3> QED
      BY <1>1, <1>4, <1>5, <2>2, <3>2, <3>3, SlotCrashed DEF HarnessInv, t
  <2> QED
    BY <1>2, <2>1, <2>2
<1>10. sessions' \in [Slots -> SUBSET Channels]
  BY <1>2 DEF HarnessInv, RestOK
<1> QED
  BY <1>1, <1>7, <1>8, <1>9, <1>10 DEF HarnessInv, RestOK, CountersOK, HistoryOK,
                                       GoodQueue, input

\* recover_panicked_agent preserves the invariant.
LEMMA RecoverPanickedAgentInv ==
    ASSUME HarnessInv, NEW s \in Slots, NEW p \in {"dispatch", "drain"},
           RecoverPanickedAgent(s, pc' = p /\ ret' = "maintain")
    PROVE  HarnessInv'
<1> DEFINE t == task_map[s]
           o == "AgentExited"
<1>1. /\ t # NoTask /\ t.state = "panicked"
      /\ task_map' = [task_map EXCEPT ![s] = NoTask]
      /\ queue' = Settle(queue, t.batch, o, t.channel_id)
      /\ done' = done \cup GivenUp(queue, t.batch, o)
      /\ failed' = (failed \ GivenUp(queue, t.batch, o)) \cup PutBack(queue, t.batch, o)
      /\ heartbeat_in_flight' \in BOOLEAN
      /\ CrashSlot(s)
      /\ sessions' = [sessions EXCEPT ![s] = {}]
      /\ pc' \in {"exit", p} /\ ret' = "maintain"
      /\ UNCHANGED <<agents, result_rx, respawn_rx, steer_ack_rx, removed_channels,
                     maintenance_due, input, acked, interrupted>>
  BY DEF RecoverPanickedAgent, Proceed, HeartbeatOver
<1>2. t.batch \in FlushBatch \cup {NoBatch} /\ t.channel_id \in Channels \cup {Heartbeat}
  BY <1>1, TaskFields DEF HarnessInv
<1>3. GoodQueue(queue')
  BY <1>1, <1>2, SettleGood DEF HarnessInv, RestOK
<1>4. done' \in SUBSET Events /\ failed' \in SUBSET Events
  BY <1>1, <1>2, FateType DEF HarnessInv, RestOK, HistoryOK
<1>5. \A i \in 1..Len(result_rx) :
        /\ result_rx[i] # s
        /\ task_map[result_rx[i]] # NoTask
        /\ task_map[result_rx[i]].state = "returned"
  BY <1>1 DEF HarnessInv, SlotInv, TasksAccounted
<1>6. /\ result_rx \in Seq(Slots)
      /\ \A i, j \in 1..Len(result_rx) : result_rx[i] = result_rx[j] => i = j
  BY DEF HarnessInv, SlotInv, SlotTypes, TasksAccounted
<1>7. SlotInv'
  BY <1>1, <1>5, <1>6, SlotCrashed DEF HarnessInv
<1>8. sessions' \in [Slots -> SUBSET Channels]
  BY <1>1 DEF HarnessInv, RestOK
<1> QED
  BY <1>1, <1>3, <1>4, <1>7, <1>8 DEF HarnessInv, RestOK, CountersOK, HistoryOK,
                                      GoodQueue, input

\* Panics preserve the invariant, in their arm and in the drain after a result.
LEMMA PanicInv ==
    ASSUME HarnessInv,
           DrainJoinResults \/ \E s \in Slots : HandlePanic(s)
    PROVE  HarnessInv'
<1>1. CASE \E s \in Slots : HandlePanic(s)
  BY <1>1, RecoverPanickedAgentInv DEF HandlePanic, Dispatch
<1>2. CASE DrainJoinResults /\ \E s \in Claimed : task_map[s].state = "panicked"
  <2>1. PICK s \in Claimed : RecoverPanickedAgent(s, pc' = "drain" /\ ret' = "maintain")
    BY <1>2 DEF DrainJoinResults, Proceed
  <2> QED
    BY <2>1, RecoverPanickedAgentInv DEF Claimed
<1>3. CASE DrainJoinResults /\ ~\E s \in Claimed : task_map[s].state = "panicked"
  <2>1. /\ pc' = "dispatch" /\ ret' = "maintain"
        /\ UNCHANGED <<queue, sessions, slotVars, steer_ack_rx,
                       heartbeat_in_flight, removed_channels, maintenance_due,
                       input, history>>
    BY <1>3 DEF DrainJoinResults, Dispatch, pool, spawn, slotVars
  <2>2. SlotInv'
    BY <2>1, SlotStutter DEF HarnessInv
  <2> QED
    BY <2>1, <2>2 DEF HarnessInv, RestOK, CountersOK, HistoryOK, GoodQueue,
                      input, history
<1> QED
  BY <1>1, <1>2, <1>3

\* A steer ack preserves the invariant.
LEMMA HandleSteerAckInv ==
    ASSUME HarnessInv, NEW a \in steer_ack_rx, HandleSteerAck(a)
    PROVE  HarnessInv'
<1>1. /\ steer_ack_rx' = steer_ack_rx \ {a}
      /\ pc' = "dispatch" /\ ret' = "maintain"
      /\ UNCHANGED <<agents, sessions, result_rx, crash_history, respawn_tasks,
                     respawn_rx, heartbeat_in_flight, removed_channels,
                     maintenance_due, input, acked, failed, interrupted>>
  BY DEF HandleSteerAck, Dispatch, spawn
<1>2. a \in SteerAck
  BY DEF HarnessInv, RestOK
<1>3. /\ a.channel_id \in Channels /\ a.event \in Events
      /\ a.ack \in {"Success", "NotLanded", "Neutral"}
  BY <1>2 DEF SteerAck
<1> DEFINE c == a.channel_id
           e == a.event
<1>4. \/ /\ queue' = RemoveEvent(ExtendInFlightDeadline(queue, c), c, e)
         /\ done' = done \cup {e}
         /\ UNCHANGED task_map
      \/ /\ queue' = ReleaseNativeSteer(queue, c, e)
         /\ SignalInFlightTask(c, "Steer")
         /\ UNCHANGED done
      \/ /\ queue' = ReleaseNativeSteer(queue, c, e)
         /\ UNCHANGED <<task_map, done>>
  BY <1>3 DEF HandleSteerAck
<1>5. /\ GoodQueue(RemoveEvent(ExtendInFlightDeadline(queue, c), c, e))
      /\ GoodQueue(ReleaseNativeSteer(queue, c, e))
  BY <1>3, DeadlineGood, RemoveEventGood, ReleaseNativeSteerGood DEF HarnessInv, RestOK
<1>6. GoodQueue(queue') /\ done' \in SUBSET Events
  BY <1>3, <1>4, <1>5 DEF HarnessInv, RestOK, HistoryOK
<1>7. SlotInv'
  <2>1. CASE UNCHANGED task_map
    BY <1>1, <2>1, SlotStutter DEF HarnessInv, slotVars
  <2>2. CASE SignalInFlightTask(c, "Steer")
    BY <1>1, <1>3, <2>2, Signalled DEF HarnessInv, ControlSignal
  <2> QED
    BY <1>4, <2>1, <2>2
<1> QED
  BY <1>1, <1>6, <1>7 DEF HarnessInv, RestOK, CountersOK, HistoryOK, GoodQueue, input

\* The interval arms preserve the invariant.
LEMMA TickInv ==
    ASSUME HarnessInv, Tick
    PROVE  HarnessInv'
<1>1. CASE OtherTick
  <2>1. /\ pc' = "maintain" /\ ret' = "maintain"
        /\ UNCHANGED <<queue, sessions, slotVars, steer_ack_rx,
                       heartbeat_in_flight, removed_channels, maintenance_due,
                       input, history>>
    BY <1>1 DEF OtherTick, Proceed, pool, spawn, slotVars
  <2>2. SlotInv'
    BY <2>1, SlotStutter DEF HarnessInv
  <2> QED
    BY <2>1, <2>2 DEF HarnessInv, RestOK, CountersOK, HistoryOK, GoodQueue,
                      input, history
<1>2. CASE HeartbeatTick
  <2>1. /\ queue' = ExpireInFlight(queue)
        /\ pc' \in {"dispatch", "maintain"} /\ ret' = "maintain"
        /\ heartbeat_in_flight' \in {heartbeat_in_flight, TRUE}
        /\ UNCHANGED <<sessions, result_rx, crash_history, respawn_tasks,
                       respawn_rx, steer_ack_rx, removed_channels,
                       maintenance_due, input, history>>
    BY <1>2 DEF HeartbeatTick, Proceed, Dispatch, spawn
  <2>2. GoodQueue(queue')
    BY <2>1, ExpireInFlightGood DEF HarnessInv, RestOK
  <2>3. CASE UNCHANGED <<agents, task_map>>
    BY <2>1, <2>2, <2>3, SlotStutter
       DEF HarnessInv, RestOK, CountersOK, HistoryOK, GoodQueue, input, history,
           slotVars
  <2>4. CASE ~UNCHANGED <<agents, task_map>>
    <3>1. /\ agents # {} /\ agents' = agents \ {Min(agents)}
          /\ task_map' = [task_map EXCEPT ![Min(agents)] = NewTask(Heartbeat, NoBatch)]
      BY <1>2, <2>4 DEF HeartbeatTick
    <3>2. Min(agents) \in agents
      BY <3>1, ClaimType DEF HarnessInv
    <3>3. SlotInv'
      BY <2>1, <3>1, <3>2, NewTaskType, AgentClaimed DEF HarnessInv
    <3> QED
      BY <2>1, <2>2, <3>3
         DEF HarnessInv, RestOK, CountersOK, HistoryOK, GoodQueue, input, history
  <2> QED
    BY <2>3, <2>4
<1> QED
  BY <1>1, <1>2 DEF Tick

-----------------------------------------------------------------------------
(* The tasks and the clock.                                                *)

\* Acks for the steers of a channel's task are steer acks.
LEMMA AckType ==
    ASSUME NEW c \in Channels, NEW E \in SUBSET Events,
           NEW k \in {"Success", "NotLanded", "Neutral"}
    PROVE  {[channel_id |-> c, event |-> e, ack |-> k] : e \in E} \in SUBSET SteerAck
BY DEF SteerAck

\* The neutral acks of a task that ends.
LEMMA NeutralAcksType ==
    ASSUME SlotInv, NEW s \in Slots, task_map[s] # NoTask
    PROVE  NeutralAcks(task_map[s]) \in SUBSET SteerAck
<1> DEFINE t == task_map[s]
<1>1. CASE t.mail \cup t.wire = {}
  BY <1>1 DEF NeutralAcks
<1>2. CASE t.mail \cup t.wire # {}
  <2>1. t.channel_id \in Channels
    BY <1>2, SteeredTask
  <2>2. t.mail \cup t.wire \in SUBSET Events
    BY TaskFields
  <2> HIDE DEF t
  <2> QED
    BY <2>1, <2>2, AckType DEF NeutralAcks, t
<1> QED
  BY <1>1, <1>2

\* A task that ends preserves the invariant.
LEMMA EndTaskInv ==
    ASSUME HarnessInv, NEW s \in Slots, Running(s),
           NEW state \in {"returned", "panicked"}, NEW o \in AllOutcomes,
           NEW b \in FlushBatch \cup {NoBatch}, NEW kept \in SUBSET SUBSET Channels,
           faults' \in 0..MaxFaults,
           EndTask(s, state, o, b, kept)
    PROVE  HarnessInv'
<1> DEFINE r == task_map[s]
           t == [r EXCEPT !.state = state, !.outcome = o, !.batch = b,
                          !.control = "none", !.mail = {}, !.wire = {}]
<1>1. r # NoTask /\ r.state = "running"
  BY DEF Running
<1>2. /\ task_map' = [task_map EXCEPT ![s] = t]
      /\ sessions' \in {[sessions EXCEPT ![s] = k] : k \in kept}
      /\ steer_ack_rx' = steer_ack_rx \cup NeutralAcks(r)
      /\ result_rx' = IF state = "returned" THEN Append(result_rx, s) ELSE result_rx
      /\ done' \in {done, done \cup BatchEvents(r.batch)}
      /\ failed' \in {failed, failed \ BatchEvents(r.batch)}
      /\ UNCHANGED <<queue, agents, crash_history, respawn_tasks, respawn_rx,
                     heartbeat_in_flight, removed_channels, pc, ret,
                     maintenance_due, arrived, commands, acked, interrupted>>
  BY DEF EndTask, spawn, loop
<1>3. r \in Task /\ r.batch \in FlushBatch \cup {NoBatch}
  BY <1>1, TaskFields DEF HarnessInv
<1>4. BatchEvents(r.batch) \in SUBSET Events
  BY <1>3, BatchEventsType
<1>5. NeutralAcks(r) \in SUBSET SteerAck
  BY <1>1, NeutralAcksType DEF HarnessInv
<1> HIDE DEF r
<1>6. /\ t \in Task /\ t.state = state /\ t.mail = {} /\ t.wire = {}
  BY <1>3 DEF Task
<1> HIDE DEF t
<1>7. SlotInv'
  BY <1>1, <1>2, <1>6, TaskStops DEF HarnessInv, r
<1>8. sessions' \in [Slots -> SUBSET Channels]
  BY <1>2 DEF HarnessInv, RestOK
<1>9. /\ steer_ack_rx' \in SUBSET SteerAck
      /\ done' \in SUBSET Events /\ failed' \in SUBSET Events
  BY <1>2, <1>4, <1>5 DEF HarnessInv, RestOK, HistoryOK
<1> QED
  BY <1>2, <1>7, <1>8, <1>9 DEF HarnessInv, RestOK, CountersOK, HistoryOK, GoodQueue

\* b is nothing, or the batch a with perhaps another reason of cancellation.
BatchBack(b, a) ==
    \/ b = NoBatch
    \/ /\ a # NoBatch /\ b.channel_id = a.channel_id
       /\ b.events = a.events /\ b.cancelled_events = a.cancelled_events

\* Every way a task ends is an EndTask, and gives the batch back or finishes it.
LEMMA TaskEnding ==
    ASSUME HarnessInv, NEW s \in Slots, TaskEnds(s)
    PROVE  /\ Running(s) /\ faults' \in 0..MaxFaults
           /\ \E state \in {"returned", "panicked"}, o \in AllOutcomes,
                 b \in FlushBatch \cup {NoBatch}, kept \in SUBSET SUBSET Channels :
                   EndTask(s, state, o, b, kept) /\ BatchBack(b, task_map[s].batch)
<1> DEFINE r == task_map[s]
<1>1. Running(s)
  BY DEF TaskEnds, TaskReturns, TaskCancels, TaskPanics
<1>2. /\ r.batch \in FlushBatch \cup {NoBatch}
      /\ r.channel_id \in Channels \cup {Heartbeat}
      /\ sessions[s] \in SUBSET Channels
  BY <1>1, TaskFields DEF Running, HarnessInv, RestOK
<1>3. /\ RequeueBatchIfQueue(r.batch) \in FlushBatch \cup {NoBatch}
      /\ BatchBack(RequeueBatchIfQueue(r.batch), r.batch) /\ BatchBack(NoBatch, r.batch)
  BY <1>2 DEF RequeueBatchIfQueue, BatchBack
<1>4. faults' \in 0..MaxFaults
  BY HarnessAssumption DEF TaskEnds, TaskReturns, TaskCancels, TaskPanics,
                           HarnessInv, RestOK, CountersOK
<1>5. ASSUME NEW o \in Outcomes, TaskReturns(s, o)
      PROVE  \E b \in FlushBatch \cup {NoBatch}, kept \in SUBSET SUBSET Channels :
                EndTask(s, "returned", o, b, kept) /\ BatchBack(b, r.batch)
  <2> DEFINE b == IF o = "Ok" THEN NoBatch ELSE RequeueBatchIfQueue(r.batch)
             kept == IF o \in FatalOutcomes THEN {{}} ELSE SessionsAfter(s)
  <2>1. b \in FlushBatch \cup {NoBatch} /\ BatchBack(b, r.batch)
    BY <1>3
  <2>2. kept \in SUBSET SUBSET Channels
    BY <1>2 DEF SessionsAfter
  <2>3. EndTask(s, "returned", o, b, kept)
    BY <1>5 DEF TaskReturns
  <2> HIDE DEF b, kept
  <2> QED
    BY <2>1, <2>2, <2>3
<1>6. ASSUME NEW o \in Outcomes, TaskCancels(s, o)
      PROVE  \E b \in FlushBatch \cup {NoBatch}, kept \in SUBSET SUBSET Channels :
                EndTask(s, "returned", o, b, kept) /\ BatchBack(b, r.batch)
  <2> DEFINE b == RequeueCancelledBatch(r.batch, r.control)
             kept == IF o = "AgentExited" THEN {{}}
                     ELSE {sessions[s] \ {r.channel_id}}
  <2>1. b \in FlushBatch \cup {NoBatch} /\ BatchBack(b, r.batch)
    <3>1. CASE b = NoBatch
      BY <1>3, <3>1
    <3>2. CASE b # NoBatch
      <4>1. /\ RequeueBatchIfQueue(r.batch) # NoBatch
            /\ b = [r.batch EXCEPT !.cancel_reason =
                      IF r.control = "Steer" THEN "Steer" ELSE "Interrupt"]
        BY <3>2 DEF RequeueCancelledBatch
      <4>2. r.batch \in FlushBatch /\ r.batch # NoBatch
        BY <1>2, <4>1 DEF RequeueBatchIfQueue
      <4> QED
        BY <4>1, <4>2 DEF FlushBatch, CancelReason, BatchBack
    <3> QED
      BY <3>1, <3>2
  <2>2. kept \in SUBSET SUBSET Channels
    BY <1>2
  <2>3. EndTask(s, "returned", o, b, kept)
    BY <1>6 DEF TaskCancels
  <2> HIDE DEF b, kept
  <2> QED
    BY <2>1, <2>2, <2>3
<1>7. CASE TaskPanics(s)
  <2>1. EndTask(s, "panicked", "AgentExited", RequeueBatchIfQueue(r.batch), {{}})
    BY <1>7 DEF TaskPanics
  <2>2. "AgentExited" \in AllOutcomes /\ {{}} \in SUBSET SUBSET Channels
    BY DEF AllOutcomes, RequeueOutcomes
  <2> QED
    BY <1>1, <1>3, <1>4, <2>1, <2>2
<1>8. \A o \in Outcomes : o \in AllOutcomes
  BY HarnessAssumption
<1> QED
  BY <1>1, <1>4, <1>5, <1>6, <1>7, <1>8 DEF TaskEnds

\* Every way a task ends preserves the invariant.
LEMMA TaskEndsInv ==
    ASSUME HarnessInv, NEW s \in Slots, TaskEnds(s)
    PROVE  HarnessInv'
BY TaskEnding, EndTaskInv

\* Steering a running task preserves the invariant.
LEMMA SteeringInv ==
    ASSUME HarnessInv, NEW s \in Slots, Steering(s)
    PROVE  HarnessInv'
<1> DEFINE r == task_map[s]
<1>1. r # NoTask /\ r.mail \cup r.wire # {}
  BY DEF Steering, SteerArm, SteerUnanswered, SteerResponse, Running
<1>2. /\ r \in Task /\ r.channel_id \in Channels
      /\ r.mail \in SUBSET Events /\ r.wire \in SUBSET Events
  BY <1>1, TaskFields, SteeredTask DEF HarnessInv
<1>3. r.channel_id # Heartbeat
  BY <1>2, HarnessAssumption
<1>4. UNCHANGED <<queue, agents, sessions, result_rx, crash_history, respawn_tasks,
                  respawn_rx, heartbeat_in_flight, removed_channels, pc, ret,
                  maintenance_due, input, done, failed, interrupted>>
  BY DEF Steering, SteerArm, SteerUnanswered, SteerResponse, spawn, loop, history
<1>5. ASSUME NEW m \in SUBSET Events, NEW w \in SUBSET Events,
             task_map' = [task_map EXCEPT ![s] = [r EXCEPT !.mail = m, !.wire = w]]
      PROVE  SlotInv'
  <2> DEFINE t == [r EXCEPT !.mail = m, !.wire = w]
  <2>1. t \in Task /\ t.state = r.state /\ t.channel_id = r.channel_id
    <3> HIDE DEF r
    <3> QED
      BY <1>2 DEF Task
  <2>2. task_map' = [task_map EXCEPT ![s] = t]
    BY <1>5
  <2> HIDE DEF t
  <2> QED
    BY <1>1, <1>3, <1>4, <2>1, <2>2, TaskGoesOn DEF HarnessInv
<1>6. SlotInv' /\ steer_ack_rx' \in SUBSET SteerAck /\ acked' \in SUBSET Events
  <2>0. steer_ack_rx \in SUBSET SteerAck /\ acked \in SUBSET Events
    BY DEF HarnessInv, RestOK, HistoryOK
  <2>1. CASE SteerArm(s)
    <3>1. UNCHANGED acked
      BY <2>1 DEF SteerArm, history
    <3>2. CASE /\ task_map' = [task_map EXCEPT ![s].mail = {}, ![s].wire = r.mail]
               /\ UNCHANGED steer_ack_rx
      <4>1. task_map' = [task_map EXCEPT ![s] = [r EXCEPT !.mail = {}, !.wire = r.mail]]
        BY <3>2 DEF HarnessInv, SlotInv, SlotTypes
      <4> QED
        BY <1>2, <1>5, <2>0, <3>1, <3>2, <4>1
    <3>3. CASE /\ task_map' = [task_map EXCEPT ![s].mail = {}]
               /\ steer_ack_rx' = steer_ack_rx \cup
                     {[channel_id |-> r.channel_id, event |-> e,
                       ack |-> "NotLanded"] : e \in r.mail}
      <4>1. r = [r EXCEPT !.wire = r.wire]
        BY <1>2 DEF Task
      <4>2. task_map' = [task_map EXCEPT ![s] = [r EXCEPT !.mail = {}, !.wire = r.wire]]
        BY <3>3, <4>1 DEF HarnessInv, SlotInv, SlotTypes
      <4>3. steer_ack_rx' \in SUBSET SteerAck
        BY <1>2, <2>0, <3>3, AckType
      <4> QED
        BY <1>2, <1>5, <2>0, <3>1, <4>2, <4>3
    <3> QED
      BY <2>1, <3>2, <3>3 DEF SteerArm
  <2>2. CASE SteerUnanswered(s)
    <3>1. /\ task_map' = [task_map EXCEPT ![s] = [r EXCEPT !.mail = {}, !.wire = {}]]
          /\ steer_ack_rx' = steer_ack_rx \cup NeutralAcks(r)
          /\ UNCHANGED acked
      BY <2>2 DEF SteerUnanswered, HarnessInv, SlotInv, SlotTypes, history
    <3> QED
      BY <1>1, <1>5, <2>0, <3>1, NeutralAcksType DEF HarnessInv
  <2>3. ASSUME NEW answer \in {"Success", "NotLanded", "Neutral"},
               SteerResponse(s, answer)
        PROVE  /\ SlotInv' /\ steer_ack_rx' \in SUBSET SteerAck
               /\ acked' \in SUBSET Events
    <3>1. r = [r EXCEPT !.mail = r.mail]
      BY <1>2 DEF Task
    <3>2. /\ task_map' = [task_map EXCEPT ![s].wire = {}]
          /\ steer_ack_rx' = steer_ack_rx \cup
                {[channel_id |-> r.channel_id, event |-> e, ack |-> answer] :
                   e \in r.wire}
          /\ acked' \in {acked, acked \cup r.wire}
      BY <2>3 DEF SteerResponse
    <3>3. task_map' = [task_map EXCEPT ![s] = [r EXCEPT !.mail = r.mail, !.wire = {}]]
      BY <3>1, <3>2 DEF HarnessInv, SlotInv, SlotTypes
    <3>4. steer_ack_rx' \in SUBSET SteerAck
      BY <1>2, <2>0, <3>2, AckType
    <3>5. acked' \in SUBSET Events
      BY <1>2, <2>0, <3>2
    <3>6. SlotInv'
      BY <1>2, <1>5, <3>3
    <3> QED
      BY <3>4, <3>5, <3>6
  <2> QED
    BY <2>1, <2>2, <2>3 DEF Steering
<1> QED
  BY <1>4, <1>6 DEF HarnessInv, RestOK, CountersOK, HistoryOK, GoodQueue, input

\* Spawns and the clock preserve the invariant.
LEMMA SpawnAndClockInv ==
    ASSUME HarnessInv,
           \/ \E s \in Slots, ok \in BOOLEAN : RespawnEnds(s, ok)
           \/ Clock
    PROVE  HarnessInv'
<1>1. ASSUME NEW s \in Slots, NEW ok \in BOOLEAN, RespawnEnds(s, ok)
      PROVE  HarnessInv'
  <2>1. UNCHANGED <<queue, sessions, steer_ack_rx, heartbeat_in_flight,
                    removed_channels, pc, ret, maintenance_due, arrived, commands,
                    history>>
    BY <1>1 DEF RespawnEnds, pool, loop
  <2>2. faults' \in 0..MaxFaults
    BY <1>1, HarnessAssumption DEF RespawnEnds, HarnessInv, RestOK, CountersOK
  <2>3. SlotInv'
    BY <1>1, SpawnReported DEF HarnessInv
  <2> QED
    BY <2>1, <2>2, <2>3 DEF HarnessInv, RestOK, CountersOK, HistoryOK, GoodQueue, history
<1>2. ASSUME NEW c \in Channels, ClockThrottle(c) \/ ClockBackstop(c)
      PROVE  HarnessInv'
  <2>1. UNCHANGED <<sessions, slotVars, steer_ack_rx, heartbeat_in_flight,
                    removed_channels, pc, ret, maintenance_due, arrived, commands,
                    history>>
    BY <1>2 DEF ClockThrottle, ClockBackstop, pool, spawn, slotVars, loop, input
  <2>2. faults' \in 0..MaxFaults
    BY <1>2, HarnessAssumption
       DEF ClockThrottle, ClockBackstop, input, HarnessInv, RestOK, CountersOK
  <2>3. GoodQueue(queue')
    BY <1>2, DeadlineGood DEF ClockThrottle, ClockBackstop, HarnessInv, RestOK
  <2>4. SlotInv'
    BY <2>1, SlotStutter DEF HarnessInv
  <2> QED
    BY <2>1, <2>2, <2>3, <2>4
       DEF HarnessInv, RestOK, CountersOK, HistoryOK, GoodQueue, history
<1>3. ASSUME NEW s \in Slots, ClockCooldown(s)
      PROVE  HarnessInv'
  <2>1. UNCHANGED <<queue, sessions, steer_ack_rx, heartbeat_in_flight,
                    removed_channels, pc, ret, maintenance_due, input, history>>
    BY <1>3 DEF ClockCooldown, pool, loop
  <2>2. SlotInv'
    BY <1>3, CircuitCooled DEF HarnessInv
  <2> QED
    BY <2>1, <2>2
       DEF HarnessInv, RestOK, CountersOK, HistoryOK, GoodQueue, input, history
<1>4. CASE ClockMaintenance
  <2>1. /\ maintenance_due' = TRUE
        /\ UNCHANGED <<queue, sessions, slotVars, steer_ack_rx,
                       heartbeat_in_flight, removed_channels, pc, ret, input,
                       history>>
    BY <1>4 DEF ClockMaintenance, pool, spawn, slotVars
  <2>2. SlotInv'
    BY <2>1, SlotStutter DEF HarnessInv
  <2> QED
    BY <2>1, <2>2
       DEF HarnessInv, RestOK, CountersOK, HistoryOK, GoodQueue, input, history
<1> QED
  BY <1>1, <1>2, <1>3, <1>4 DEF Clock

-----------------------------------------------------------------------------
(* The theorems.                                                           *)

\* The invariant holds initially.
LEMMA InitInv == Init => HarnessInv
<1> SUFFICES ASSUME Init PROVE HarnessInv
  OBVIOUS
<1> USE DEF Init
<1>1. NewCircuit \in Circuit /\ NewCircuit.open_until = "absent"
      /\ NewCircuit.respawn_in_flight = FALSE /\ NewCircuit.crash_times = 0
  BY CircuitAssumption DEF NewCircuit, Circuit
<1>2. Len(respawn_rx) = 0 /\ Len(result_rx) = 0
  BY EmptySeq
<1>3. SlotTypes
  BY <1>1, EmptySeq DEF SlotTypes
<1>4. SlotExclusive
  BY <1>1, <1>2 DEF SlotExclusive, Reported, SlotAlive
<1>5. CircuitClosedWhileLive
  BY <1>1, CircuitAssumption DEF CircuitClosedWhileLive
<1>6. TasksAccounted
  BY <1>2 DEF TasksAccounted
<1>7. RestOK
  <2>1. GoodQueue(queue)
    BY NewQueueGood
  <2>2. CountersOK /\ HistoryOK
    <3>1. MaxFaults \in 0..MaxFaults /\ MaxCommands \in 0..MaxCommands
      BY HarnessAssumption
    <3>2. CountersOK
      BY <3>1 DEF CountersOK
    <3>3. HistoryOK
      BY DEF HistoryOK
    <3> QED
      BY <3>2, <3>3
  <2>3. sessions \in [Slots -> SUBSET Channels] /\ steer_ack_rx \in SUBSET SteerAck
    OBVIOUS
  <2> QED
    BY <2>1, <2>2, <2>3 DEF RestOK
<1> QED
  BY <1>3, <1>4, <1>5, <1>6, <1>7 DEF HarnessInv, SlotInv

\* Every step of the harness preserves the invariant.
LEMMA StepInv == HarnessInv /\ [Next]_vars => HarnessInv'
<1> SUFFICES ASSUME HarnessInv, [Next]_vars PROVE HarnessInv'
  OBVIOUS
<1>1. CASE UNCHANGED vars
  <2>1. UNCHANGED <<slotVars, queue, sessions, steer_ack_rx, heartbeat_in_flight,
                    removed_channels, loop, input, history>>
    BY <1>1 DEF vars, pool, spawn, slotVars
  <2>2. SlotInv'
    BY <2>1, SlotStutter DEF HarnessInv
  <2> QED
    BY <2>1, <2>2 DEF HarnessInv, RestOK, CountersOK, HistoryOK, GoodQueue, loop,
                      input, history
<1>2. CASE LoopStep
  BY <1>2, MaintainInv, CollectRespawnsInv, DispatchPendingInv, PanicInv DEF LoopStep
<1>3. CASE RelayArm
  BY <1>3, RelayEventInv, OwnerCommandInv, SwitchModelInv, MembershipInv DEF RelayArm
<1>4. CASE TaskArm
  BY <1>4, HandlePromptResultInv, PanicInv, HandleSteerAckInv DEF TaskArm
<1>5. CASE Tick
  BY <1>5, TickInv
<1>6. CASE Clock \/ \E s \in Slots, ok \in BOOLEAN : RespawnEnds(s, ok)
  BY <1>6, SpawnAndClockInv
<1>7. CASE \E s \in Slots : TaskEnds(s) \/ Steering(s)
  BY <1>7, TaskEndsInv, SteeringInv
<1>8. CASE Exited
  BY <1>1, <1>8 DEF Exited
<1> QED
  BY <1>1, <1>2, <1>3, <1>4, <1>5, <1>6, <1>7, <1>8 DEF Next

\* The harness always satisfies its inductive invariant.
THEOREM HarnessInvariant == Spec => []HarnessInv
BY InitInv, StepInv, PTL DEF Spec

\* Every variable of the harness keeps its type, in particular the retry
\* counters and crash counts their bounds.
THEOREM TypeCorrect == Spec => []TypeOK
BY HarnessInvariant, HarnessInvImplies, PTL

\* No slot ever has two agents, and no spawn is started or lost twice: the
\* respawn guard's channel never overflows.
THEOREM OneAgentPerSlot == Spec => []SlotExclusive
BY HarnessInvariant, HarnessInvImplies, PTL

\* The circuit of a live or spawning slot is closed and below its threshold.
THEOREM BreakerNeverOpenOnLive == Spec => []CircuitClosedWhileLive
BY HarnessInvariant, HarnessInvImplies, PTL

\* No channel's queue outgrows MAX_PENDING_PER_CHANNEL.
THEOREM QueuesStayBounded == Spec => []QueueBounded
BY HarnessInvariant, HarnessInvImplies, PTL

-----------------------------------------------------------------------------
(* Turns and their marks.                                                  *)

\* The channel of the slot's task, as a set: empty if the slot has no task.
ChannelOf(tasks, s) == IF tasks[s] = NoTask THEN {} ELSE {tasks[s].channel_id}

\* If c is among the marks there is exactly one task for it, and otherwise none.
Matched(tasks, c, marks) ==
    /\ c \in marks <=> \E s \in Slots : c \in ChannelOf(tasks, s)
    /\ \A s, r \in Slots :
          c \in ChannelOf(tasks, s) /\ c \in ChannelOf(tasks, r) => s = r

\* The queue's marks, its deadlines and the tasks of the channels agree.
MarksMatched(tasks, q) ==
    \A c \in Channels :
        /\ Matched(tasks, c, q.in_flight_channels)
        /\ c \in q.in_flight_channels <=> q.in_flight_deadlines[c] = "future"
        /\ q.in_flight_deadlines[c] # "past"

\* What the heartbeat flag marks.
Beating(flag) == IF flag THEN {Heartbeat} ELSE {}

\* Every turn has its mark, and every mark its turn.  A deadline that passes while
\* the turn is still out (the backstop) takes the mark away, so for the channels
\* this is only claimed of instances in which that does not happen.
TurnInv == /\ Matched(task_map, Heartbeat, Beating(heartbeat_in_flight))
           /\ BackstopFires \/ MarksMatched(task_map, queue)

\* A step that starts and ends no task.
LEMMA TurnsKept ==
    ASSUME TurnInv, \A s \in Slots : ChannelOf(task_map', s) = ChannelOf(task_map, s),
           heartbeat_in_flight' = heartbeat_in_flight,
           \/ BackstopFires
           \/ /\ queue'.in_flight_channels = queue.in_flight_channels
              /\ \A c \in Channels : queue'.in_flight_deadlines[c] = queue.in_flight_deadlines[c]
    PROVE  TurnInv'
<1>1. Matched(task_map', Heartbeat, Beating(heartbeat_in_flight'))
  BY DEF TurnInv, Matched
<1>2. ASSUME ~BackstopFires PROVE MarksMatched(task_map', queue')
  BY <1>2 DEF TurnInv, MarksMatched, Matched
<1> QED BY <1>1, <1>2 DEF TurnInv

\* A task for c starts, and c is marked.
LEMMA Started ==
    ASSUME NEW tasks, NEW tasks2, NEW s \in Slots, NEW c, NEW marks, c \notin marks, Matched(tasks, c, marks),
           NEW marks2, c \in marks2,
           ChannelOf(tasks2, s) = {c},
           \A r \in Slots : r # s => ChannelOf(tasks2, r) = ChannelOf(tasks, r)
    PROVE  Matched(tasks2, c, marks2)
BY DEF Matched

\* The task for c is over, and c is not marked.
LEMMA Stopped ==
    ASSUME NEW tasks, NEW tasks2, NEW s \in Slots, NEW c, NEW marks, Matched(tasks, c, marks),
           NEW marks2, c \notin marks2,
           ChannelOf(tasks, s) = {c}, ChannelOf(tasks2, s) = {},
           \A r \in Slots : r # s => ChannelOf(tasks2, r) = ChannelOf(tasks, r)
    PROVE  Matched(tasks2, c, marks2)
BY DEF Matched

\* What starts or stops on another channel does not matter to d.
LEMMA Elsewhere ==
    ASSUME NEW tasks, NEW tasks2, NEW s \in Slots, NEW d, NEW marks, Matched(tasks, d, marks),
           NEW marks2, d \in marks <=> d \in marks2,
           d \notin ChannelOf(tasks, s), d \notin ChannelOf(tasks2, s),
           \A r \in Slots : r # s => ChannelOf(tasks2, r) = ChannelOf(tasks, r)
    PROVE  Matched(tasks2, d, marks2)
<1>1. \A r \in Slots : d \in ChannelOf(tasks2, r) <=> d \in ChannelOf(tasks, r)
  OBVIOUS
<1> QED BY <1>1 DEF Matched

\* dispatch_pending starts the task of a channel.
LEMMA ChannelTurnStarts ==
    ASSUME TurnInv, NEW s \in Slots, NEW c \in Channels,
           BackstopFires \/ c \notin queue.in_flight_channels,
           ChannelOf(task_map, s) = {}, ChannelOf(task_map', s) = {c},
           \A r \in Slots : r # s => ChannelOf(task_map', r) = ChannelOf(task_map, r),
           heartbeat_in_flight' = heartbeat_in_flight,
           \/ BackstopFires
           \/ /\ queue'.in_flight_channels = queue.in_flight_channels \cup {c}
              /\ \A d \in Channels : queue'.in_flight_deadlines[d] =
                    IF d = c THEN "future" ELSE queue.in_flight_deadlines[d]
    PROVE  TurnInv'
<1>1. Matched(task_map', Heartbeat, Beating(heartbeat_in_flight'))
  <2>1. Heartbeat \notin ChannelOf(task_map, s) /\ Heartbeat \notin ChannelOf(task_map', s)
    BY HarnessAssumption
  <2>2. Matched(task_map, Heartbeat, Beating(heartbeat_in_flight'))
    BY DEF TurnInv
  <2> QED BY <2>1, <2>2, Elsewhere
<1>2. ASSUME ~BackstopFires PROVE MarksMatched(task_map', queue')
  <2>1. MarksMatched(task_map, queue)
    BY <1>2 DEF TurnInv
  <2>2. ASSUME NEW d \in Channels
        PROVE  /\ Matched(task_map', d, queue'.in_flight_channels)
               /\ d \in queue'.in_flight_channels <=> queue'.in_flight_deadlines[d] = "future"
               /\ queue'.in_flight_deadlines[d] # "past"
    <3>1. CASE d = c
      <4>1. Matched(task_map, c, queue.in_flight_channels)
        BY <2>1 DEF MarksMatched
      <4>2. Matched(task_map', c, queue'.in_flight_channels)
        BY <1>2, <4>1, Started
      <4> QED BY <1>2, <3>1, <4>2
    <3>2. CASE d # c
      <4>1. Matched(task_map, d, queue.in_flight_channels)
        BY <2>1 DEF MarksMatched
      <4>2. /\ d \notin ChannelOf(task_map, s) /\ d \notin ChannelOf(task_map', s)
            /\ d \in queue.in_flight_channels <=> d \in queue'.in_flight_channels
        BY <1>2, <3>2
      <4>3. Matched(task_map', d, queue'.in_flight_channels)
        BY <4>1, <4>2, Elsewhere
      <4> QED BY <1>2, <2>1, <3>2, <4>3 DEF MarksMatched
    <3> QED BY <3>1, <3>2
  <2> QED BY <2>2 DEF MarksMatched
<1> QED BY <1>1, <1>2 DEF TurnInv

\* A channel's task is over and mark_complete has run.
LEMMA ChannelTurnEnds ==
    ASSUME TurnInv, NEW s \in Slots, NEW c \in Channels,
           ChannelOf(task_map, s) = {c}, ChannelOf(task_map', s) = {},
           \A r \in Slots : r # s => ChannelOf(task_map', r) = ChannelOf(task_map, r),
           heartbeat_in_flight' = heartbeat_in_flight,
           \/ BackstopFires
           \/ /\ queue'.in_flight_channels = queue.in_flight_channels \ {c}
              /\ \A d \in Channels : queue'.in_flight_deadlines[d] =
                    IF d = c THEN "absent" ELSE queue.in_flight_deadlines[d]
    PROVE  TurnInv'
<1>1. Matched(task_map', Heartbeat, Beating(heartbeat_in_flight'))
  <2>1. Heartbeat \notin ChannelOf(task_map, s) /\ Heartbeat \notin ChannelOf(task_map', s)
    BY HarnessAssumption
  <2>2. Matched(task_map, Heartbeat, Beating(heartbeat_in_flight'))
    BY DEF TurnInv
  <2> QED BY <2>1, <2>2, Elsewhere
<1>2. ASSUME ~BackstopFires PROVE MarksMatched(task_map', queue')
  <2>1. MarksMatched(task_map, queue)
    BY <1>2 DEF TurnInv
  <2>2. ASSUME NEW d \in Channels
        PROVE  /\ Matched(task_map', d, queue'.in_flight_channels)
               /\ d \in queue'.in_flight_channels <=> queue'.in_flight_deadlines[d] = "future"
               /\ queue'.in_flight_deadlines[d] # "past"
    <3>1. CASE d = c
      <4>1. Matched(task_map, c, queue.in_flight_channels)
        BY <2>1 DEF MarksMatched
      <4>2. Matched(task_map', c, queue'.in_flight_channels)
        BY <1>2, <4>1, Stopped
      <4> QED BY <1>2, <3>1, <4>2
    <3>2. CASE d # c
      <4>1. Matched(task_map, d, queue.in_flight_channels)
        BY <2>1 DEF MarksMatched
      <4>2. /\ d \notin ChannelOf(task_map, s) /\ d \notin ChannelOf(task_map', s)
            /\ d \in queue.in_flight_channels <=> d \in queue'.in_flight_channels
        BY <1>2, <3>2
      <4>3. Matched(task_map', d, queue'.in_flight_channels)
        BY <4>1, <4>2, Elsewhere
      <4> QED BY <1>2, <2>1, <3>2, <4>3 DEF MarksMatched
    <3> QED BY <3>1, <3>2
  <2> QED BY <2>2 DEF MarksMatched
<1> QED BY <1>1, <1>2 DEF TurnInv

\* The heartbeat's task starts, or is over; the queue's marks stay.
LEMMA HeartbeatTurn ==
    ASSUME TurnInv, NEW s \in Slots,
           \/ /\ ~heartbeat_in_flight /\ heartbeat_in_flight' = TRUE
              /\ ChannelOf(task_map, s) = {} /\ ChannelOf(task_map', s) = {Heartbeat}
           \/ /\ heartbeat_in_flight' = FALSE
              /\ ChannelOf(task_map, s) = {Heartbeat} /\ ChannelOf(task_map', s) = {},
           \A r \in Slots : r # s => ChannelOf(task_map', r) = ChannelOf(task_map, r),
           \/ BackstopFires
           \/ /\ queue'.in_flight_channels = queue.in_flight_channels
              /\ \A c \in Channels : queue'.in_flight_deadlines[c] = queue.in_flight_deadlines[c]
    PROVE  TurnInv'
<1>1. Matched(task_map', Heartbeat, Beating(heartbeat_in_flight'))
  <2>1. CASE ~heartbeat_in_flight /\ ChannelOf(task_map', s) = {Heartbeat}
    <3>1. Heartbeat \notin Beating(heartbeat_in_flight) /\ Heartbeat \in Beating(heartbeat_in_flight')
      BY <2>1 DEF Beating
    <3> QED BY <2>1, <3>1, Started DEF TurnInv
  <2>2. CASE ChannelOf(task_map, s) = {Heartbeat} /\ ChannelOf(task_map', s) = {}
    <3>1. Heartbeat \notin Beating(heartbeat_in_flight')
      BY <2>2 DEF Beating
    <3> QED BY <2>2, <3>1, Stopped DEF TurnInv
  <2> QED BY <2>1, <2>2
<1>2. ASSUME ~BackstopFires PROVE MarksMatched(task_map', queue')
  <2>1. MarksMatched(task_map, queue)
    BY <1>2 DEF TurnInv
  <2>2. ASSUME NEW d \in Channels
        PROVE  Matched(task_map', d, queue'.in_flight_channels)
    <3>1. Matched(task_map, d, queue.in_flight_channels) /\ d # Heartbeat
      BY <2>1, HarnessAssumption DEF MarksMatched
    <3>2. d \notin ChannelOf(task_map, s) /\ d \notin ChannelOf(task_map', s)
      BY <3>1
    <3> QED BY <1>2, <3>1, <3>2, Elsewhere
  <2> QED BY <1>2, <2>1, <2>2 DEF MarksMatched
<1> QED BY <1>1, <1>2 DEF TurnInv

\* A task that is replaced by one of the same channel leaves its turn as it is.
LEMMA TaskReplaced ==
    ASSUME SlotInv, NEW s \in Slots, task_map[s] # NoTask, NEW t \in Task,
           t.channel_id = task_map[s].channel_id,
           task_map' = [task_map EXCEPT ![s] = t]
    PROVE  \A r \in Slots : ChannelOf(task_map', r) = ChannelOf(task_map, r)
<1>1. task_map \in [Slots -> Task \cup {NoTask}] /\ t # NoTask
  BY AbsenceAssumption DEF SlotInv, SlotTypes
<1> QED BY <1>1 DEF ChannelOf

\* A signal leaves every turn as it is.
LEMMA TaskSignalled ==
    ASSUME SlotInv, NEW c \in Channels, NEW signal \in ControlSignal,
           SignalInFlightTask(c, signal)
    PROVE  \A r \in Slots : ChannelOf(task_map', r) = ChannelOf(task_map, r)
<1>1. CASE UNCHANGED task_map
  BY <1>1
<1>2. CASE ~UNCHANGED task_map
  <2>1. PICK s \in TasksOn(c) :
          task_map' = [task_map EXCEPT ![s].control = IF @ = "armed" THEN signal ELSE @]
    BY <1>2 DEF SignalInFlightTask
  <2>2. s \in Slots /\ task_map[s] # NoTask
    BY <2>1 DEF TasksOn, Claimed
  <2> DEFINE t == [task_map[s] EXCEPT !.control = IF @ = "armed" THEN signal ELSE @]
  <2>3. task_map' = [task_map EXCEPT ![s] = t]
    BY <2>1
  <2>4. t \in Task /\ t.channel_id = task_map[s].channel_id
    BY <2>2, TaskFields DEF Task
  <2> HIDE DEF t
  <2> QED BY <2>2, <2>3, <2>4, TaskReplaced
<1> QED BY <1>1, <1>2

\* What is to be shown of a step that starts and ends no task.
Quiet == /\ \A s \in Slots : ChannelOf(task_map', s) = ChannelOf(task_map, s)
         /\ heartbeat_in_flight' = heartbeat_in_flight
         /\ \/ BackstopFires
            \/ /\ queue'.in_flight_channels = queue.in_flight_channels
               /\ \A c \in Channels : queue'.in_flight_deadlines[c] = queue.in_flight_deadlines[c]

\* A step that starts and ends no task preserves the invariant.
LEMMA QuietTurns ==
    ASSUME TurnInv, Quiet
    PROVE  TurnInv'
BY TurnsKept DEF Quiet

\* Nothing expires unless the backstop may fire.
LEMMA NothingExpires ==
    ASSUME HarnessInv, TurnInv, ~BackstopFires
    PROVE  /\ SameMarks(queue, ExpireInFlight(queue))
           /\ SameMarks(queue, ExpireInFlight(CompactExpiredState(queue)))
<1> DEFINE q == CompactExpiredState(queue)
<1>1. GoodQueue(queue) /\ \A c \in Channels : queue.in_flight_deadlines[c] # "past"
  BY DEF HarnessInv, RestOK, TurnInv, MarksMatched
<1>2. GoodQueue(q)
  BY <1>1, CompactExpiredStateGood
<1>3. SameMarks(queue, q)
  <2>1. CASE Channels = {}
    BY <1>1, <2>1 DEF CompactExpiredState, SameMarks, GoodQueue, QueueState
  <2>2. CASE Channels # {}
    BY <1>1, <2>2, OtherMarks
  <2> QED BY <2>1, <2>2
<1> HIDE DEF q
<1>4. SameMarks(q, ExpireInFlight(q))
  BY <1>1, <1>2, <1>3, ExpireMarks DEF SameMarks
<1>5. SameMarks(queue, ExpireInFlight(queue))
  BY <1>1, ExpireMarks
<1> QED BY <1>3, <1>4, <1>5 DEF q, SameMarks

\* Maintenance preserves the invariant.
LEMMA MaintainTurns ==
    ASSUME HarnessInv, TurnInv, Maintain
    PROVE  TurnInv'
<1>1. /\ task_map' = task_map /\ heartbeat_in_flight' = heartbeat_in_flight
      /\ queue' = queue \/ queue' = ExpireInFlight(CompactExpiredState(queue))
  BY DEF Maintain, pool
<1>2. Quiet
  BY <1>1, NothingExpires DEF Quiet, SameMarks
<1> QED BY <1>2, QuietTurns

\* dispatch_pending marks the channel whose task it starts, and unmarks it again
\* when no agent is idle.
LEMMA DispatchTurns ==
    ASSUME HarnessInv, TurnInv, DispatchPending
    PROVE  TurnInv'
<1> DEFINE q == ExpireInFlight(queue)
<1>1. heartbeat_in_flight' = heartbeat_in_flight
  BY DEF DispatchPending
<1>2. GoodQueue(q) /\ (BackstopFires \/ SameMarks(queue, q))
  BY ExpireInFlightGood, NothingExpires DEF HarnessInv, RestOK
<1>3. CASE FlushChoices(q) = {}
  <2>1. queue' = q /\ task_map' = task_map
    BY <1>3 DEF DispatchPending
  <2>2. Quiet
    BY <1>1, <1>2, <2>1 DEF Quiet, SameMarks
  <2> QED BY <2>2, QuietTurns
<1>4. CASE FlushChoices(q) # {}
  <2>1. PICK c \in FlushChoices(q) : \E b \in FlushedBatches(q, c) :
          IF agents = {}
          THEN queue' = PoolExhausted(AfterFlush(q, c), b) /\ UNCHANGED task_map
          ELSE /\ queue' = AfterFlush(q, c)
               /\ task_map' = [task_map EXCEPT ![TryClaim(c)] = NewTask(c, b)]
    BY <1>4 DEF DispatchPending
  <2>2. PICK b \in FlushedBatches(q, c) :
          IF agents = {}
          THEN queue' = PoolExhausted(AfterFlush(q, c), b) /\ UNCHANGED task_map
          ELSE /\ queue' = AfterFlush(q, c)
               /\ task_map' = [task_map EXCEPT ![TryClaim(c)] = NewTask(c, b)]
    BY <2>1
  <2>3. c \in Channels /\ c \notin q.in_flight_channels
    BY FlushedIdle
  <2>4. b \in FlushBatch /\ b.channel_id = c /\ GoodQueue(AfterFlush(q, c))
    BY <1>2, <2>2, <2>3, FlushedBatchesType, AfterFlushGood
  <2>5. /\ AfterFlush(q, c).in_flight_channels = q.in_flight_channels \cup {c}
        /\ AfterFlush(q, c).in_flight_deadlines = [q.in_flight_deadlines EXCEPT ![c] = "future"]
    BY <1>2, <2>3, FlushMarks
  <2>6. q.in_flight_deadlines \in [Channels -> Instant]
    BY <1>2 DEF GoodQueue, QueueState
  <2> HIDE DEF q
  <2>7. CASE agents = {}
    <3> DEFINE f == AfterFlush(q, c)
               p == RequeuePreserveTimestamps(f, b)
    <3>1. queue' = MarkComplete(p, c) /\ task_map' = task_map
      BY <2>2, <2>4, <2>7 DEF PoolExhausted
    <3>2. GoodQueue(p) /\ SameMarks(f, p)
      BY <2>4, RequeuePreserveGood, RequeueMarks
    <3>3. /\ queue'.in_flight_channels = p.in_flight_channels \ {c}
          /\ queue'.in_flight_deadlines = [p.in_flight_deadlines EXCEPT ![c] = "absent"]
      BY <2>3, <3>1, <3>2, FlushMarks
    <3> HIDE DEF f, p
    <3>4. ASSUME ~BackstopFires
          PROVE  /\ queue'.in_flight_channels = queue.in_flight_channels
                 /\ \A d \in Channels :
                      queue'.in_flight_deadlines[d] = queue.in_flight_deadlines[d]
      <4>1. SameMarks(queue, q) /\ queue.in_flight_deadlines[c] = "absent"
        <5>1. SameMarks(queue, q)
          BY <1>2, <3>4
        <5>2. /\ queue.in_flight_deadlines[c] # "future"
              /\ queue.in_flight_deadlines[c] # "past"
          BY <2>3, <3>4, <5>1 DEF TurnInv, MarksMatched, SameMarks
        <5> QED BY <2>3, <2>6, <5>1, <5>2 DEF SameMarks, Instant
      <4>2. queue'.in_flight_channels = (queue.in_flight_channels \cup {c}) \ {c}
        BY <2>5, <3>2, <3>3, <4>1 DEF SameMarks, f
      <4>3. queue'.in_flight_deadlines =
              [[queue.in_flight_deadlines EXCEPT ![c] = "future"] EXCEPT ![c] = "absent"]
        BY <2>5, <3>2, <3>3, <4>1 DEF SameMarks, f
      <4> QED BY <2>3, <2>6, <4>1, <4>2, <4>3 DEF SameMarks
    <3>5. Quiet
      BY <1>1, <3>1, <3>4 DEF Quiet
    <3> QED BY <3>5, QuietTurns
  <2>8. CASE agents # {}
    <3> DEFINE s == TryClaim(c)
               t == NewTask(c, b)
    <3>1. queue' = AfterFlush(q, c) /\ task_map' = [task_map EXCEPT ![s] = t]
      BY <2>2, <2>8
    <3>2. s \in agents /\ s \in Slots
      BY <2>8, ClaimType DEF HarnessInv, SlotInv, SlotTypes
    <3>3. task_map[s] = NoTask
      BY <3>2 DEF HarnessInv, SlotInv, SlotExclusive
    <3>4. t \in Task /\ t # NoTask /\ t.channel_id = c
      BY <2>3, <2>4, NewTaskType, AbsenceAssumption DEF NewTask
    <3> HIDE DEF s, t
    <3>5. /\ ChannelOf(task_map, s) = {} /\ ChannelOf(task_map', s) = {c}
          /\ \A r \in Slots : r # s => ChannelOf(task_map', r) = ChannelOf(task_map, r)
      <4>1. task_map \in [Slots -> Task \cup {NoTask}]
        BY DEF HarnessInv, SlotInv, SlotTypes
      <4> QED BY <3>1, <3>2, <3>3, <3>4, <4>1 DEF ChannelOf
    <3>6. BackstopFires \/ c \notin queue.in_flight_channels
      BY <1>2, <2>3 DEF SameMarks
    <3>7. \/ BackstopFires
          \/ /\ queue'.in_flight_channels = queue.in_flight_channels \cup {c}
             /\ \A d \in Channels : queue'.in_flight_deadlines[d] =
                   IF d = c THEN "future" ELSE queue.in_flight_deadlines[d]
      BY <1>2, <2>5, <2>6, <3>1 DEF SameMarks
    <3> QED BY <1>1, <2>3, <3>2, <3>5, <3>6, <3>7, ChannelTurnStarts
  <2> QED BY <2>7, <2>8
<1> QED BY <1>3, <1>4

\* An event's push, steer and signal preserve the invariant.
LEMMA RelayEventTurns ==
    ASSUME HarnessInv, TurnInv, NEW c \in Channels, NEW e \in Events, RelayEvent(c, e)
    PROVE  TurnInv'
<1> DEFINE pushed == Push(queue, c, e)
<1>1. heartbeat_in_flight' = heartbeat_in_flight
  BY DEF RelayEvent
<1>2. queue' = queue \/ queue' = pushed \/ queue' = MarkNativeSteerPending(pushed, c, e)
  BY DEF RelayEvent
<1>3. SameMarks(queue, queue')
  <2>1. GoodQueue(queue) /\ GoodQueue(pushed)
    BY PushGood DEF HarnessInv, RestOK
  <2>2. SameMarks(queue, pushed) /\ SameMarks(pushed, MarkNativeSteerPending(pushed, c, e))
    BY <2>1, PushMarks, SteerMarks
  <2> QED BY <1>2, <2>2 DEF SameMarks
<1>4. \A s \in Slots : ChannelOf(task_map', s) = ChannelOf(task_map, s)
  <2>1. CASE UNCHANGED task_map
    BY <2>1
  <2>2. CASE \E s \in SteerTargets(c) : task_map' = [task_map EXCEPT ![s].mail = {e}]
    <3>1. PICK s \in SteerTargets(c) : task_map' = [task_map EXCEPT ![s].mail = {e}]
      BY <2>2
    <3>2. s \in Slots /\ task_map[s] # NoTask
      BY <3>1 DEF SteerTargets, TasksOn, Claimed
    <3> DEFINE t == [task_map[s] EXCEPT !.mail = {e}]
    <3>3. task_map' = [task_map EXCEPT ![s] = t]
      BY <3>1
    <3>4. t \in Task /\ t.channel_id = task_map[s].channel_id
      BY <3>2, TaskFields DEF HarnessInv, Task
    <3> HIDE DEF t
    <3> QED BY <3>2, <3>3, <3>4, TaskReplaced DEF HarnessInv
  <2>3. CASE \E byOwner \in BOOLEAN :
               /\ ModeGateSignal(byOwner) # "none"
               /\ SignalInFlightTask(c, ModeGateSignal(byOwner))
    <3>1. \A byOwner \in BOOLEAN : ModeGateSignal(byOwner) \in ControlSignal \cup {"none"}
      BY HarnessAssumption DEF ModeGateSignal, ControlSignal
    <3> QED BY <2>3, <3>1, TaskSignalled DEF HarnessInv
  <2> QED BY <2>1, <2>2, <2>3 DEF RelayEvent
<1>5. Quiet
  BY <1>1, <1>3, <1>4 DEF Quiet, SameMarks
<1> QED BY <1>5, QuietTurns

\* Owner commands and membership changes preserve the invariant.
LEMMA CommandTurns ==
    ASSUME HarnessInv, TurnInv, NEW c \in Channels,
           \/ OwnerCommand(c, "Cancel") \/ OwnerCommand(c, "Rotate") \/ SwitchModel(c)
           \/ MemberRemoved(c) \/ MemberAdded(c)
    PROVE  TurnInv'
<1>1. heartbeat_in_flight' = heartbeat_in_flight
  BY DEF OwnerCommand, SwitchModel, MemberRemoved, MemberAdded
<1>2. queue' = queue \/ queue' = DrainChannel(queue, c)
  BY DEF OwnerCommand, SwitchModel, MemberRemoved, MemberAdded
<1>3. SameMarks(queue, queue')
  BY <1>2, OtherMarks DEF SameMarks, HarnessInv, RestOK
<1>4. \/ UNCHANGED task_map
      \/ \E signal \in ControlSignal : SignalInFlightTask(c, signal)
  BY DEF OwnerCommand, SwitchModel, MemberRemoved, MemberAdded, pool, ControlSignal
<1>5. \A s \in Slots : ChannelOf(task_map', s) = ChannelOf(task_map, s)
  BY <1>4, TaskSignalled DEF HarnessInv
<1>6. Quiet
  BY <1>1, <1>3, <1>5 DEF Quiet, SameMarks
<1> QED BY <1>6, QuietTurns

\* A task is taken off the map, and its channel settled.
LEMMA SettleTurns ==
    ASSUME HarnessInv, TurnInv, NEW s \in Slots, task_map[s] # NoTask, NEW o,
           task_map' = [task_map EXCEPT ![s] = NoTask],
           queue' = Settle(queue, task_map[s].batch, o, task_map[s].channel_id),
           HeartbeatOver(task_map[s])
    PROVE  TurnInv'
<1> DEFINE t == task_map[s]
           c == t.channel_id
<1>1. t.batch \in FlushBatch \cup {NoBatch} /\ c \in Channels \cup {Heartbeat}
  BY TaskFields DEF HarnessInv
<1>2. heartbeat_in_flight \in BOOLEAN
  BY DEF HarnessInv, RestOK, CountersOK
<1>3. /\ ChannelOf(task_map, s) = {c} /\ ChannelOf(task_map', s) = {}
      /\ \A r \in Slots : r # s => ChannelOf(task_map', r) = ChannelOf(task_map, r)
  <2>1. task_map \in [Slots -> Task \cup {NoTask}]
    BY DEF HarnessInv, SlotInv, SlotTypes
  <2> QED BY <2>1 DEF ChannelOf
<1>4. CASE c = Heartbeat
  <2>1. queue' = queue /\ heartbeat_in_flight' = FALSE
    BY <1>4 DEF Settle, HeartbeatOver
  <2> QED BY <1>3, <1>4, <2>1, HeartbeatTurn
<1>5. CASE c # Heartbeat
  <2> DEFINE q == AbsorbBatch(queue, t.batch, o)
  <2>1. queue' = MarkComplete(q, c) /\ heartbeat_in_flight' = heartbeat_in_flight /\ c \in Channels
    BY <1>1, <1>2, <1>5 DEF Settle, HeartbeatOver
  <2>2. GoodQueue(queue)
    BY DEF HarnessInv, RestOK
  <2>3. GoodQueue(q) /\ SameMarks(queue, q)
    <3>1. CASE q = queue
      BY <2>2, <3>1 DEF SameMarks
    <3>2. CASE q # queue
      <4>1. t.batch # NoBatch
        BY <3>2 DEF AbsorbBatch
      <4>2. t.batch \in FlushBatch
        BY <1>1, <4>1
      <4>3. \/ q = Requeue(queue, t.batch)
            \/ \E reason \in CancelReason : q = RequeueAsCancelled(queue, t.batch, reason)
        <5> HIDE DEF t
        <5> QED BY <3>2, <4>1, <4>2 DEF AbsorbBatch, FlushBatch, CancelReason
      <4> HIDE DEF q, t
      <4>4. CASE q = Requeue(queue, t.batch)
        BY <2>2, <4>2, <4>4, RequeueGood, RequeueMarks
      <4>5. ASSUME NEW reason \in CancelReason, q = RequeueAsCancelled(queue, t.batch, reason)
            PROVE  GoodQueue(q) /\ SameMarks(queue, q)
        BY <2>2, <4>2, <4>5, RequeueAsCancelledGood, RequeueMarks
      <4> QED BY <4>3, <4>4, <4>5
    <3> QED BY <3>1, <3>2
  <2>4. /\ queue'.in_flight_channels = q.in_flight_channels \ {c}
        /\ queue'.in_flight_deadlines = [q.in_flight_deadlines EXCEPT ![c] = "absent"]
    <3> HIDE DEF q, c
    <3>1. GoodQueue(q) /\ c \in Channels
      BY <2>1, <2>3
    <3>2. /\ MarkComplete(q, c).in_flight_channels = q.in_flight_channels \ {c}
          /\ MarkComplete(q, c).in_flight_deadlines = [q.in_flight_deadlines EXCEPT ![c] = "absent"]
      BY <3>1, FlushMarks
    <3> QED BY <2>1, <3>2
  <2>5. q.in_flight_deadlines \in [Channels -> Instant]
    BY <2>3 DEF GoodQueue, QueueState
  <2> HIDE DEF q
  <2>6. /\ queue'.in_flight_channels = queue.in_flight_channels \ {c}
        /\ \A d \in Channels : queue'.in_flight_deadlines[d] =
              IF d = c THEN "absent" ELSE queue.in_flight_deadlines[d]
    BY <2>1, <2>3, <2>4, <2>5 DEF SameMarks
  <2> HIDE DEF c
  <2> QED BY <1>3, <2>1, <2>6, ChannelTurnEnds
<1> QED BY <1>4, <1>5

\* handle_prompt_result preserves the invariant.
LEMMA ResultTurns ==
    ASSUME HarnessInv, TurnInv, HandlePromptResult
    PROVE  TurnInv'
<1> DEFINE s == Head(result_rx)
<1>1. /\ result_rx # <<>>
      /\ task_map' = [task_map EXCEPT ![s] = NoTask]
      /\ queue' = Settle(queue, task_map[s].batch, task_map[s].outcome, task_map[s].channel_id)
      /\ HeartbeatOver(task_map[s])
  BY DEF HandlePromptResult
<1>2. s \in Slots /\ task_map[s] # NoTask
  <2>1. result_rx \in Seq(Slots)
    BY DEF HarnessInv, SlotInv, SlotTypes
  <2>2. s = result_rx[1] /\ s \in Slots /\ 1 \in 1..Len(result_rx)
    BY <1>1, <2>1, HeadTailProperties, LenProperties, EmptySeq
  <2> QED BY <2>2 DEF HarnessInv, SlotInv, TasksAccounted
<1> HIDE DEF s
<1> QED BY <1>1, <1>2, SettleTurns

\* So does the recovery of a panicked task, in the select and in the drain.
LEMMA PanicTurns ==
    ASSUME HarnessInv, TurnInv, DrainJoinResults \/ \E s \in Slots : HandlePanic(s)
    PROVE  TurnInv'
<1>1. CASE \E s \in Slots : RecoverPanickedAgent(s, pc' = "drain" /\ ret' = "maintain")
                            \/ RecoverPanickedAgent(s, pc' = "dispatch" /\ ret' = "maintain")
  <2>1. PICK s \in Slots :
          /\ task_map[s] # NoTask
          /\ queue' = Settle(queue, task_map[s].batch, "AgentExited", task_map[s].channel_id)
          /\ HeartbeatOver(task_map[s])
          /\ task_map' = [task_map EXCEPT ![s] = NoTask]
    BY <1>1 DEF RecoverPanickedAgent
  <2> QED BY <2>1, SettleTurns
<1>2. CASE UNCHANGED <<queue, task_map, heartbeat_in_flight>>
  <2>1. Quiet
    BY <1>2 DEF Quiet
  <2> QED BY <2>1, QuietTurns
<1>3. CASE \E s \in Slots : HandlePanic(s)
  BY <1>1, <1>3 DEF HandlePanic, Dispatch
<1>4. CASE DrainJoinResults
  BY <1>1, <1>2, <1>4 DEF DrainJoinResults, Claimed, Proceed, pool
<1> QED BY <1>3, <1>4

\* So do steer acks, which move no deadline that has not passed.
LEMMA AckTurns ==
    ASSUME HarnessInv, TurnInv, NEW a \in steer_ack_rx, HandleSteerAck(a)
    PROVE  TurnInv'
<1>1. /\ a.channel_id \in Channels /\ a.event \in Events
      /\ a.ack \in {"Success", "NotLanded", "Neutral"}
  BY DEF HarnessInv, RestOK, SteerAck
<1> DEFINE c == a.channel_id
           e == a.event
           x == ExtendInFlightDeadline(queue, c)
<1>2. heartbeat_in_flight' = heartbeat_in_flight
  BY DEF HandleSteerAck
<1>3. /\ queue' = RemoveEvent(x, c, e) \/ queue' = ReleaseNativeSteer(queue, c, e)
      /\ UNCHANGED task_map \/ SignalInFlightTask(c, "Steer")
  BY <1>1 DEF HandleSteerAck
<1>4. \A s \in Slots : ChannelOf(task_map', s) = ChannelOf(task_map, s)
  BY <1>1, <1>3, TaskSignalled DEF HarnessInv, ControlSignal
<1>5. GoodQueue(queue) /\ GoodQueue(x)
  BY <1>1, DeadlineGood DEF HarnessInv, RestOK
<1>6. SameMarks(queue, ReleaseNativeSteer(queue, c, e)) /\ SameMarks(x, RemoveEvent(x, c, e))
  BY <1>1, <1>5, SteerMarks
<1>7. /\ x.in_flight_channels = queue.in_flight_channels
      /\ x.in_flight_deadlines =
           [queue.in_flight_deadlines EXCEPT ![c] = IF @ = "absent" THEN @ ELSE "future"]
  BY <1>1, <1>5, FlushMarks
<1>8. ASSUME ~BackstopFires
      PROVE  \A d \in Channels : x.in_flight_deadlines[d] = queue.in_flight_deadlines[d]
  <2>1. queue.in_flight_deadlines \in [Channels -> Instant]
    BY <1>5 DEF GoodQueue, QueueState
  <2>2. queue.in_flight_deadlines[c] # "past"
    BY <1>1, <1>8 DEF TurnInv, MarksMatched
  <2> HIDE DEF x
  <2> QED BY <1>1, <1>7, <2>1, <2>2 DEF Instant
<1> HIDE DEF x
<1>9. Quiet
  BY <1>2, <1>3, <1>4, <1>6, <1>7, <1>8 DEF Quiet, SameMarks
<1> QED BY <1>9, QuietTurns

\* So do the intervals, the heartbeat's included.
LEMMA TickTurns ==
    ASSUME HarnessInv, TurnInv, Tick
    PROVE  TurnInv'
<1>1. CASE OtherTick \/ (HeartbeatTick /\ UNCHANGED <<task_map, heartbeat_in_flight>>)
  <2>1. /\ UNCHANGED <<task_map, heartbeat_in_flight>>
        /\ queue' = queue \/ queue' = ExpireInFlight(queue)
    BY <1>1 DEF OtherTick, HeartbeatTick, pool
  <2>2. Quiet
    BY <2>1, NothingExpires DEF Quiet, SameMarks
  <2> QED BY <2>2, QuietTurns
<1>2. CASE HeartbeatTick /\ ~UNCHANGED <<task_map, heartbeat_in_flight>>
  <2> DEFINE s == Min(agents)
             t == NewTask(Heartbeat, NoBatch)
  <2>1. /\ queue' = ExpireInFlight(queue) /\ agents # {} /\ ~heartbeat_in_flight
        /\ task_map' = [task_map EXCEPT ![s] = t] /\ heartbeat_in_flight' = TRUE
    BY <1>2 DEF HeartbeatTick
  <2>2. s \in agents /\ s \in Slots
    BY <2>1, ClaimType DEF HarnessInv, SlotInv, SlotTypes
  <2>3. task_map[s] = NoTask
    BY <2>2 DEF HarnessInv, SlotInv, SlotExclusive
  <2>4. t \in Task /\ t # NoTask /\ t.channel_id = Heartbeat
    BY NewTaskType, AbsenceAssumption DEF NewTask
  <2> HIDE DEF s, t
  <2>5. /\ ChannelOf(task_map, s) = {} /\ ChannelOf(task_map', s) = {Heartbeat}
        /\ \A r \in Slots : r # s => ChannelOf(task_map', r) = ChannelOf(task_map, r)
    <3>1. task_map \in [Slots -> Task \cup {NoTask}]
      BY DEF HarnessInv, SlotInv, SlotTypes
    <3> QED BY <2>1, <2>2, <2>3, <2>4, <3>1 DEF ChannelOf
  <2>6. \/ BackstopFires
        \/ /\ queue'.in_flight_channels = queue.in_flight_channels
           /\ \A c \in Channels : queue'.in_flight_deadlines[c] = queue.in_flight_deadlines[c]
    BY <2>1, NothingExpires DEF SameMarks
  <2> QED BY <2>1, <2>2, <2>5, <2>6, HeartbeatTurn
<1> QED BY <1>1, <1>2 DEF Tick

\* So does what a task does while it runs and when it ends.
LEMMA TaskTurns ==
    ASSUME HarnessInv, TurnInv, NEW s \in Slots, TaskEnds(s) \/ Steering(s)
    PROVE  TurnInv'
<1> DEFINE r == task_map[s]
<1>1. UNCHANGED <<queue, heartbeat_in_flight>> /\ r # NoTask
  BY DEF TaskEnds, TaskReturns, TaskCancels, TaskPanics, EndTask, Running,
         Steering, SteerArm, SteerUnanswered, SteerResponse
<1>2. r \in Task /\ task_map \in [Slots -> Task \cup {NoTask}]
  BY <1>1, TaskFields DEF HarnessInv, SlotInv, SlotTypes
<1>3. \E t \in Task : t.channel_id = r.channel_id /\ task_map' = [task_map EXCEPT ![s] = t]
  <2>1. CASE TaskEnds(s)
    <3>1. PICK state \in {"returned", "panicked"}, o \in AllOutcomes,
               b \in FlushBatch \cup {NoBatch}, kept \in SUBSET SUBSET Channels :
                 EndTask(s, state, o, b, kept)
      BY <2>1, TaskEnding
    <3> DEFINE t == [r EXCEPT !.state = state, !.outcome = o, !.batch = b,
                        !.control = "none", !.mail = {}, !.wire = {}]
    <3>2. task_map' = [task_map EXCEPT ![s] = t]
      BY <3>1 DEF EndTask
    <3>3. t \in Task /\ t.channel_id = r.channel_id
      <4> HIDE DEF r
      <4> QED BY <1>2 DEF Task
    <3> HIDE DEF t
    <3> QED BY <3>2, <3>3
  <2>2. CASE Steering(s)
    <3>1. PICK mail \in SUBSET Events, wire \in SUBSET Events :
             task_map' = [task_map EXCEPT ![s].mail = mail, ![s].wire = wire]
      <4>1. r.mail \in SUBSET Events /\ {} \in SUBSET Events
        BY <1>2 DEF Task
      <4>2. CASE SteerArm(s) \/ SteerUnanswered(s)
        <5>1. \/ task_map' = [task_map EXCEPT ![s].mail = {}, ![s].wire = r.mail]
              \/ task_map' = [task_map EXCEPT ![s].mail = {}]
              \/ task_map' = [task_map EXCEPT ![s].mail = {}, ![s].wire = {}]
          BY <4>2 DEF SteerArm, SteerUnanswered
        <5>2. CASE task_map' = [task_map EXCEPT ![s].mail = {}]
          <6>1. r.wire \in SUBSET Events /\ [task_map EXCEPT ![s].mail = {}, ![s].wire = r.wire]
                  = [task_map EXCEPT ![s].mail = {}]
            BY <1>2 DEF Task
          <6> QED BY <4>1, <5>2, <6>1
        <5> QED BY <4>1, <5>1, <5>2
      <4>3. CASE \E answer \in {"Success", "NotLanded", "Neutral"} : SteerResponse(s, answer)
        <5>1. task_map' = [task_map EXCEPT ![s].wire = {}]
          BY <4>3 DEF SteerResponse
        <5>2. [task_map EXCEPT ![s].mail = r.mail, ![s].wire = {}]
                = [task_map EXCEPT ![s].wire = {}]
          BY <1>2 DEF Task
        <5> QED BY <4>1, <5>1, <5>2
      <4> QED BY <2>2, <4>2, <4>3 DEF Steering
    <3> DEFINE t == [r EXCEPT !.mail = mail, !.wire = wire]
    <3>2. task_map' = [task_map EXCEPT ![s] = t]
      BY <1>2, <3>1
    <3>3. t \in Task /\ t.channel_id = r.channel_id
      <4> HIDE DEF r
      <4> QED BY <1>2 DEF Task
    <3> HIDE DEF t
    <3> QED BY <3>2, <3>3
  <2> QED BY <2>1, <2>2
<1>4. \A q \in Slots : ChannelOf(task_map', q) = ChannelOf(task_map, q)
  BY <1>1, <1>3, TaskReplaced DEF HarnessInv
<1>5. Quiet
  BY <1>1, <1>4 DEF Quiet
<1> QED BY <1>5, QuietTurns

\* So do spawns and the clock.
LEMMA ClockTurns ==
    ASSUME HarnessInv, TurnInv,
           \/ Clock \/ CollectRespawns \/ UNCHANGED vars
           \/ \E s \in Slots, ok \in BOOLEAN : RespawnEnds(s, ok)
    PROVE  TurnInv'
<1>1. UNCHANGED <<task_map, heartbeat_in_flight>>
  BY DEF Clock, ClockThrottle, ClockBackstop, ClockCooldown, ClockMaintenance,
         CollectRespawns, RespawnEnds, vars, pool
<1>2. \/ queue' = queue \/ BackstopFires
      \/ \E c \in Channels : queue' = ThrottleElapses(queue, c)
  BY DEF Clock, ClockThrottle, ClockBackstop, ClockCooldown, ClockMaintenance,
         CollectRespawns, RespawnEnds, vars
<1>3. BackstopFires \/ SameMarks(queue, queue')
  BY <1>2, OtherMarks DEF SameMarks, HarnessInv, RestOK
<1>4. Quiet
  BY <1>1, <1>3 DEF Quiet, SameMarks
<1> QED BY <1>4, QuietTurns

\* The invariant holds initially.
LEMMA TurnInit == Init => TurnInv
<1> SUFFICES ASSUME Init PROVE TurnInv
  OBVIOUS
<1>1. \A s \in Slots : ChannelOf(task_map, s) = {}
  BY DEF Init, ChannelOf
<1>2. /\ queue.in_flight_channels = {}
      /\ \A c \in Channels : queue.in_flight_deadlines[c] = "absent"
  BY DEF Init, NewQueue
<1>3. Beating(heartbeat_in_flight) = {}
  BY DEF Init, Beating
<1> QED BY <1>1, <1>2, <1>3 DEF TurnInv, Matched, MarksMatched

\* Every step preserves it.
LEMMA TurnStep == HarnessInv /\ TurnInv /\ [Next]_vars => TurnInv'
<1> SUFFICES ASSUME HarnessInv, TurnInv, [Next]_vars PROVE TurnInv'
  OBVIOUS
<1>1. CASE LoopStep
  BY <1>1, MaintainTurns, ClockTurns, DispatchTurns, PanicTurns DEF LoopStep
<1>2. CASE RelayArm
  BY <1>2, RelayEventTurns, CommandTurns DEF RelayArm
<1>3. CASE TaskArm
  BY <1>3, ResultTurns, PanicTurns, AckTurns DEF TaskArm
<1>4. CASE Tick
  BY <1>4, TickTurns
<1>5. CASE \E s \in Slots : TaskEnds(s) \/ Steering(s)
  BY <1>5, TaskTurns
<1>6. CASE \/ Clock \/ UNCHANGED vars
           \/ \E s \in Slots, ok \in BOOLEAN : RespawnEnds(s, ok)
  BY <1>6, ClockTurns
<1>7. CASE Exited
  BY <1>6, <1>7 DEF Exited
<1> QED BY <1>1, <1>2, <1>3, <1>4, <1>5, <1>6, <1>7 DEF Next

\* Turns, marks and the heartbeat flag always match.
THEOREM TurnsMatched == Spec => []TurnInv
BY HarnessInvariant, TurnInit, TurnStep, PTL DEF Spec

\* heartbeat_in_flight is up exactly while a heartbeat task exists, through
\* results, failures and panics: no heartbeat is blocked forever by a stale flag
\* and no two run at once.
THEOREM HeartbeatFlagExact == Spec => []HeartbeatAccounted
<1>1. HarnessInv /\ TurnInv => HeartbeatAccounted
  <2> SUFFICES ASSUME HarnessInv, TurnInv PROVE HeartbeatAccounted
    OBVIOUS
  <2>1. Heartbeat \in Beating(heartbeat_in_flight) <=> heartbeat_in_flight
    BY DEF Beating, HarnessInv, RestOK, CountersOK
  <2>2. Heartbeat \in Beating(heartbeat_in_flight)
          <=> \E s \in Slots : Heartbeat \in ChannelOf(task_map, s)
    BY DEF TurnInv, Matched
  <2>3. (\E s \in Slots : Heartbeat \in ChannelOf(task_map, s))
          <=> \E s \in Claimed : task_map[s].channel_id = Heartbeat
    BY DEF ChannelOf, Claimed
  <2> QED BY <2>1, <2>2, <2>3 DEF HeartbeatAccounted
<1> QED BY <1>1, HarnessInvariant, TurnsMatched, PTL

\* Unless the backstop fires while a turn is still out, each channel marked in
\* flight has exactly one task and the others none, through dispatches that find
\* no agent, failures, cancels, panics, dead letters and steers: no channel is
\* left silenced and no channel has two turns.
THEOREM MarksExact == ~BackstopFires => (Spec => []InFlightAccounted)
<1> SUFFICES ASSUME ~BackstopFires PROVE Spec => []InFlightAccounted
  OBVIOUS
<1>1. HarnessInv /\ TurnInv => InFlightAccounted
  <2> SUFFICES ASSUME HarnessInv, TurnInv, NEW c \in Channels
               PROVE  /\ Cardinality(TasksOn(c)) = IF c \in queue.in_flight_channels THEN 1 ELSE 0
                      /\ c \in queue.in_flight_channels <=> queue.in_flight_deadlines[c] # "absent"
    BY DEF InFlightAccounted
  <2>1. MarksMatched(task_map, queue)
    BY DEF TurnInv
  <2>2. \A s \in Slots : s \in TasksOn(c) <=> c \in ChannelOf(task_map, s)
    BY DEF TasksOn, Claimed, ChannelOf
  <2>3. TasksOn(c) \subseteq Slots
    BY DEF TasksOn, Claimed
  <2>4. CASE c \in queue.in_flight_channels
    <3>1. PICK s \in Slots : TasksOn(c) = {s}
      BY <2>1, <2>2, <2>3, <2>4 DEF MarksMatched, Matched
    <3>2. Cardinality(TasksOn(c)) = 1
      BY <3>1, FS_Singleton
    <3> QED BY <2>1, <2>4, <3>2 DEF MarksMatched
  <2>5. CASE c \notin queue.in_flight_channels
    <3>1. TasksOn(c) = {}
      BY <2>1, <2>2, <2>3, <2>5 DEF MarksMatched, Matched
    <3>2. Cardinality(TasksOn(c)) = 0
      BY <3>1, FS_EmptySet
    <3>3. queue.in_flight_deadlines[c] = "absent"
      BY <2>1, <2>5 DEF MarksMatched, HarnessInv, RestOK, GoodQueue, QueueState, Instant
    <3> QED BY <2>5, <3>2, <3>3
  <2> QED BY <2>4, <2>5
<1> QED BY <1>1, HarnessInvariant, TurnsMatched, PTL

-----------------------------------------------------------------------------
\* The only steps that give an agent sessions are those of its own task, which
\* keeps it out of the pool; coming back strips the removed channels.
LEMMA StrippedStep == HarnessInv /\ RemovedSessionsStripped /\ [Next]_vars => RemovedSessionsStripped'
<1> SUFFICES ASSUME HarnessInv, RemovedSessionsStripped, [Next]_vars
             PROVE  RemovedSessionsStripped'
  OBVIOUS
<1> DEFINE Kept == /\ agents' \subseteq agents /\ removed_channels' \subseteq removed_channels
                   /\ \A s \in agents' : sessions'[s] \subseteq sessions[s]
<1>1. ASSUME Kept PROVE RemovedSessionsStripped'
  BY <1>1 DEF RemovedSessionsStripped
<1>2. agents \subseteq Slots /\ sessions \in [Slots -> SUBSET Channels]
  BY DEF HarnessInv, SlotInv, SlotTypes, RestOK
<1> HIDE DEF Kept
<1>3. CASE \/ Maintain \/ DispatchPending \/ Tick \/ Clock \/ UNCHANGED vars
           \/ \E c \in Channels, e \in Events : RelayEvent(c, e)
           \/ \E c \in Channels : MemberAdded(c)
           \/ \E a \in steer_ack_rx : HandleSteerAck(a)
           \/ \E s \in Slots : Steering(s)
           \/ \E s \in Slots, ok \in BOOLEAN : RespawnEnds(s, ok)
  <2>1. UNCHANGED sessions /\ agents' \subseteq agents /\ removed_channels' \subseteq removed_channels
    BY <1>3 DEF Maintain, DispatchPending, Tick, HeartbeatTick, OtherTick, Clock, ClockThrottle,
         ClockBackstop, ClockCooldown, ClockMaintenance, RelayEvent, MemberAdded, HandleSteerAck,
         Steering, SteerArm, SteerUnanswered, SteerResponse, RespawnEnds, vars, pool
  <2> QED BY <1>1, <2>1 DEF Kept
<1>4. CASE CollectRespawns
  <2> DEFINE ok == {respawn_rx[i].slot : i \in {j \in 1..Len(respawn_rx) : respawn_rx[j].ok}}
  <2>1. /\ agents' = agents \cup ok /\ removed_channels' = removed_channels
        /\ sessions' = [s \in Slots |-> IF s \in ok THEN {} ELSE sessions[s]]
    BY <1>4 DEF CollectRespawns
  <2>2. agents' \subseteq Slots
    BY <1>4, CollectRespawnsInv DEF HarnessInv, SlotInv, SlotTypes
  <2> HIDE DEF ok
  <2> QED BY <2>1, <2>2 DEF RemovedSessionsStripped
<1>5. ASSUME NEW c \in Channels, NEW signal, OwnerCommand(c, signal) PROVE Kept
  <2>1. /\ UNCHANGED <<agents, removed_channels>>
        /\ \/ sessions' = sessions
           \/ sessions' = [s \in Slots |-> IF s \in agents THEN sessions[s] \ {c} ELSE sessions[s]]
    BY <1>5 DEF OwnerCommand
  <2> QED BY <1>2, <2>1 DEF Kept
<1>6. ASSUME NEW c \in Channels, SwitchModel(c) PROVE Kept
  <2> DEFINE m == Min({s \in agents : c \in sessions[s]})
  <2>1. /\ UNCHANGED <<agents, removed_channels>>
        /\ sessions' = sessions \/ sessions' = [sessions EXCEPT ![m] = @ \ {c}]
    BY <1>6 DEF SwitchModel
  <2> HIDE DEF m
  <2> QED BY <1>2, <2>1 DEF Kept
<1>7. ASSUME NEW c \in Channels, MemberRemoved(c) PROVE RemovedSessionsStripped'
  BY <1>2, <1>7 DEF MemberRemoved, RemovedSessionsStripped
<1>8. CASE HandlePromptResult
  <2> DEFINE s == Head(result_rx)
  <2>1. /\ UNCHANGED removed_channels
        /\ \/ agents' = agents \cup {s} /\ sessions' = [sessions EXCEPT ![s] = @ \ removed_channels]
           \/ agents' = agents /\ sessions' = [sessions EXCEPT ![s] = {}]
    BY <1>8 DEF HandlePromptResult, ReturnAgent
  <2>2. s \in Slots
    BY <1>8, HeadTailProperties DEF HandlePromptResult, HarnessInv, SlotInv, SlotTypes
  <2> HIDE DEF s
  <2> QED BY <1>2, <2>1, <2>2 DEF RemovedSessionsStripped
<1>9. CASE DrainJoinResults \/ \E s \in Slots : HandlePanic(s)
  <2>1. /\ UNCHANGED <<removed_channels, agents>>
        /\ \/ UNCHANGED sessions
           \/ \E s \in Slots : sessions' = [sessions EXCEPT ![s] = {}]
    BY <1>9 DEF DrainJoinResults, HandlePanic, RecoverPanickedAgent, pool, Claimed
  <2> QED BY <1>1, <1>2, <2>1 DEF Kept
<1>10. ASSUME NEW s \in Slots, TaskEnds(s) PROVE Kept
  <2>1. /\ task_map[s] # NoTask
        /\ UNCHANGED <<agents, removed_channels>>
        /\ \E k : sessions' = [sessions EXCEPT ![s] = k]
    BY <1>10 DEF TaskEnds, TaskReturns, TaskCancels, TaskPanics, EndTask, Running
  <2>2. s \notin agents
    BY <2>1 DEF HarnessInv, SlotInv, SlotExclusive
  <2> QED BY <1>2, <2>1, <2>2 DEF Kept
<1> QED
  BY <1>1, <1>3, <1>4, <1>5, <1>6, <1>7, <1>8, <1>9, <1>10
     DEF Next, LoopStep, RelayArm, TaskArm, Exited

\* No idle agent holds a session of a channel it was removed from, also when the
\* removal arrived while the agent was out with a task.
THEOREM RemovedChannelsForgotten == Spec => []RemovedSessionsStripped
<1>1. Init => RemovedSessionsStripped
  BY DEF Init, RemovedSessionsStripped
<1> QED BY <1>1, StrippedStep, HarnessInvariant, PTL DEF Spec

-----------------------------------------------------------------------------
(* Where events are.                                                       *)

\* The batch of the slot's task, if there is one.
BatchOf(tasks, s) == IF tasks[s] = NoTask THEN NoBatch ELSE tasks[s].batch

\* The events that are out with the slot's task, and those of them that came
\* from a turn that was cancelled.
Out(tasks, s) == BatchEvents(BatchOf(tasks, s))
Merged(b) == IF b = NoBatch THEN {} ELSE ToSet(b.cancelled_events)

\* A batch, if there is one, holds no event twice.
TidyOut(b) == b # NoBatch => TidyBatch(b)

\* What is claimed of the events of one channel and of one slot.
ChannelOK(q, c, arr, intr) == /\ Tidy(q, c) /\ HeldFor(q, c) \subseteq arr
                              /\ ToSet(q.cancelled_batches[c]) \subseteq intr
SlotOK(b, arr, intr) ==
    TidyOut(b) /\ BatchEvents(b) \subseteq arr /\ Merged(b) \subseteq intr

\* Channels and slots share nothing.
Apart(q, tasks) ==
    /\ \A c, d \in Channels : c # d => HeldFor(q, c) \cap HeldFor(q, d) = {}
    /\ \A s, r \in Slots : s # r => Out(tasks, s) \cap Out(tasks, r) = {}
    /\ \A c \in Channels, s \in Slots : HeldFor(q, c) \cap Out(tasks, s) = {}

\* An event is held by a channel, or out.
Somewhere(q, tasks, e) == \/ \E c \in Channels : e \in HeldFor(q, c)
                          \/ \E s \in Slots : e \in Out(tasks, s)

\* Every event is where it belongs: the claim about each channel and each slot,
\* nothing in two of them, and nothing lost that no cancelled turn has returned.
Safe(q, tasks, arr, dn, intr) ==
    /\ \A c \in Channels : ChannelOK(q, c, arr, intr)
    /\ \A s \in Slots : SlotOK(BatchOf(tasks, s), arr, intr)
    /\ Apart(q, tasks)
    /\ \A e \in arr \ intr : e \in dn \cup q.dropped \/ Somewhere(q, tasks, e)

\* A batch is of its task's channel.
Aligned(tasks) ==
    \A s \in Slots : BatchOf(tasks, s) # NoBatch =>
        ChannelOf(tasks, s) = {BatchOf(tasks, s).channel_id}

\* The invariant about the events.
EventInv == /\ Aligned(task_map)
            /\ Safe(queue, task_map, arrived, done, interrupted)

\* Events move between channel c and slot s, or arrive there.
Swap(q, r, c, t, u, s, arr, arr2, dn2, intr2) ==
    /\ Tidy(r, c) /\ \A d \in Channels : d # c => SameHeld(q, r, d)
    /\ TidyOut(BatchOf(u, s))
    /\ \A x \in Slots : x # s => BatchOf(u, x) = BatchOf(t, x)
    /\ HeldFor(r, c) \cap Out(u, s) = {}
    /\ HeldFor(r, c) \cup Out(u, s) \subseteq HeldFor(q, c) \cup Out(t, s) \cup (arr2 \ arr)
    /\ HeldFor(q, c) \cup Out(t, s) \cup (arr2 \ arr)
          \subseteq HeldFor(r, c) \cup Out(u, s) \cup dn2 \cup r.dropped \cup intr2
    /\ ToSet(r.cancelled_batches[c]) \cup Merged(BatchOf(u, s)) \subseteq intr2
    /\ q.dropped \subseteq r.dropped

\* Such a step keeps every event where it belongs: what channel c and slot s hold
\* afterwards they held before or it is new, so it is with nobody else.
LEMMA Exchange ==
    ASSUME NEW q, NEW r, NEW c \in Channels, NEW t, NEW u, NEW s \in Slots,
           NEW arr, NEW arr2, NEW dn, NEW dn2, NEW intr, NEW intr2,
           Safe(q, t, arr, dn, intr), Swap(q, r, c, t, u, s, arr, arr2, dn2, intr2),
           arr \subseteq arr2, dn \subseteq dn2, intr \subseteq intr2
    PROVE  Safe(r, u, arr2, dn2, intr2)
<1>1. \A d \in Channels : d # c => /\ HeldFor(r, d) = HeldFor(q, d) /\ Tidy(r, d) = Tidy(q, d)
                                   /\ r.cancelled_batches[d] = q.cancelled_batches[d]
  BY DEF Swap, SameHeld, HeldFor, Tidy
<1>2. \A x \in Slots : x # s => /\ Out(u, x) = Out(t, x) /\ BatchOf(u, x) = BatchOf(t, x)
  BY DEF Swap, Out
<1>3. HeldFor(q, c) \subseteq arr /\ Out(t, s) \subseteq arr
  BY DEF Safe, ChannelOK, SlotOK, Out
<1>4. ASSUME NEW d \in Channels PROVE ChannelOK(r, d, arr2, intr2)
  <2>1. CASE d = c
    BY <1>3, <2>1 DEF Swap, ChannelOK
  <2>2. CASE d # c
    <3>1. ChannelOK(q, d, arr, intr)
      BY DEF Safe
    <3> QED BY <1>1, <2>2, <3>1 DEF ChannelOK
  <2> QED BY <2>1, <2>2
<1>5. ASSUME NEW x \in Slots PROVE SlotOK(BatchOf(u, x), arr2, intr2)
  <2>1. CASE x = s
    BY <1>3, <2>1 DEF Swap, SlotOK, Out
  <2>2. CASE x # s
    <3>1. SlotOK(BatchOf(t, x), arr, intr)
      BY DEF Safe
    <3> QED BY <1>2, <2>2, <3>1 DEF SlotOK
  <2> QED BY <2>1, <2>2
<1>6. Apart(r, u)
  <2>1. Apart(q, t) /\ \A d \in Channels : HeldFor(q, d) \subseteq arr
        /\ \A x \in Slots : Out(t, x) \subseteq arr
    BY DEF Safe, ChannelOK, SlotOK, Out
  <2>2. HeldFor(r, c) \cap Out(u, s) = {}
        /\ HeldFor(r, c) \cup Out(u, s) \subseteq HeldFor(q, c) \cup Out(t, s) \cup (arr2 \ arr)
    BY DEF Swap
  <2>3. \A d \in Channels : d # c =>
           HeldFor(q, d) \cap (HeldFor(q, c) \cup Out(t, s) \cup (arr2 \ arr)) = {}
    BY <2>1 DEF Apart
  <2>4. \A x \in Slots : x # s =>
           Out(t, x) \cap (HeldFor(q, c) \cup Out(t, s) \cup (arr2 \ arr)) = {}
    BY <2>1 DEF Apart
  <2>5. \A d \in Channels : d # c => HeldFor(r, d) \cap HeldFor(r, c) = {}
                                  /\ HeldFor(r, d) \cap Out(u, s) = {}
    BY <1>1, <2>2, <2>3
  <2>6. \A x \in Slots : x # s => Out(u, x) \cap HeldFor(r, c) = {} /\ Out(u, x) \cap Out(u, s) = {}
    BY <1>2, <2>2, <2>4
  <2>7. ASSUME NEW d \in Channels, NEW f \in Channels, d # f
        PROVE  HeldFor(r, d) \cap HeldFor(r, f) = {}
    BY <1>1, <2>1, <2>5, <2>7 DEF Apart
  <2>8. ASSUME NEW x \in Slots, NEW y \in Slots, x # y
        PROVE  Out(u, x) \cap Out(u, y) = {}
    BY <1>2, <2>1, <2>6, <2>8 DEF Apart
  <2>9. ASSUME NEW d \in Channels, NEW x \in Slots
        PROVE  HeldFor(r, d) \cap Out(u, x) = {}
    <3>1. CASE d = c /\ x = s
      BY <2>2, <3>1
    <3>2. CASE d = c /\ x # s
      BY <2>6, <3>2
    <3>3. CASE d # c /\ x = s
      BY <2>5, <3>3
    <3>4. CASE d # c /\ x # s
      BY <1>1, <1>2, <2>1, <3>4 DEF Apart
    <3> QED BY <3>1, <3>2, <3>3, <3>4
  <2> QED BY <2>7, <2>8, <2>9 DEF Apart
<1>7. ASSUME NEW e \in arr2 \ intr2 PROVE e \in dn2 \cup r.dropped \/ Somewhere(r, u, e)
  <2>1. CASE e \in HeldFor(q, c) \cup Out(t, s) \cup (arr2 \ arr)
    BY <1>7, <2>1 DEF Swap, Somewhere
  <2>2. CASE e \notin HeldFor(q, c) \cup Out(t, s) \cup (arr2 \ arr)
    <3>1. e \in dn \cup q.dropped \/ Somewhere(q, t, e)
      BY <1>7, <2>2 DEF Safe
    <3>2. CASE e \in dn \cup q.dropped
      BY <3>2 DEF Swap
    <3>3. CASE Somewhere(q, t, e)
      BY <1>1, <1>2, <2>2, <3>3 DEF Somewhere
    <3> QED BY <3>1, <3>2, <3>3
  <2> QED BY <2>1, <2>2
<1> QED BY <1>4, <1>5, <1>6, <1>7 DEF Safe

\* Nothing moves, but more may be done or interrupted.
LEMMA Unmoved ==
    ASSUME NEW q, NEW r, NEW t, NEW u, NEW arr, NEW dn, NEW dn2, NEW intr, NEW intr2,
           Safe(q, t, arr, dn, intr), SameEvents(q, r),
           \A s \in Slots : BatchOf(u, s) = BatchOf(t, s),
           dn \subseteq dn2, intr \subseteq intr2
    PROVE  Safe(r, u, arr, dn2, intr2)
<1>1. \A c \in Channels : /\ HeldFor(r, c) = HeldFor(q, c) /\ Tidy(r, c) = Tidy(q, c)
                          /\ r.cancelled_batches[c] = q.cancelled_batches[c]
  BY DEF SameEvents, HeldFor, Tidy
<1>2. \A s \in Slots : Out(u, s) = Out(t, s)
  BY DEF Out
<1>3. \A c \in Channels : ChannelOK(r, c, arr, intr2)
  BY <1>1 DEF Safe, ChannelOK
<1>4. \A s \in Slots : SlotOK(BatchOf(u, s), arr, intr2)
  BY <1>2 DEF Safe, SlotOK
<1>5. Apart(r, u)
  BY <1>1, <1>2 DEF Safe, Apart
<1>6. \A e \in arr \ intr2 : e \in dn2 \cup r.dropped \/ Somewhere(r, u, e)
  BY <1>1, <1>2 DEF Safe, Somewhere, SameEvents
<1> QED BY <1>3, <1>4, <1>5, <1>6 DEF Safe

\* A step of the queue alone.
LEMMA QueueMoves ==
    ASSUME NEW q, NEW r, NEW c \in Channels, NEW t, NEW u, NEW in, NEW out,
           NEW arr, NEW arr2, NEW dn, NEW dn2, NEW intr,
           Safe(q, t, arr, dn, intr), Moved(q, r, c, in, out),
           \A s \in Slots : BatchOf(u, s) = BatchOf(t, s),
           ToSet(r.cancelled_batches[c]) \subseteq ToSet(q.cancelled_batches[c]),
           in \cap arr = {}, arr2 = arr \cup in, dn \cup out \subseteq dn2
    PROVE  Safe(r, u, arr2, dn2, intr)
<1>1. PICK s \in Slots : TRUE
  BY HarnessAssumption
<1>2. /\ HeldFor(q, c) \cap Out(t, s) = {} /\ Out(t, s) \subseteq arr /\ Out(u, s) = Out(t, s)
      /\ ToSet(q.cancelled_batches[c]) \subseteq intr /\ Merged(BatchOf(t, s)) \subseteq intr
      /\ TidyOut(BatchOf(t, s)) /\ BatchOf(u, s) = BatchOf(t, s)
  BY DEF Safe, Apart, ChannelOK, SlotOK, Out
<1>3. /\ HeldFor(r, c) \subseteq HeldFor(q, c) \cup in
      /\ HeldFor(q, c) \cup in \subseteq HeldFor(r, c) \cup r.dropped \cup out
      /\ Tidy(r, c) /\ q.dropped \subseteq r.dropped
      /\ \A d \in Channels : d # c => SameHeld(q, r, d)
  BY DEF Moved
<1>4. Swap(q, r, c, t, u, s, arr, arr2, dn2, intr)
  <2>1. HeldFor(r, c) \cap Out(u, s) = {}
    BY <1>2, <1>3
  <2>2. HeldFor(r, c) \cup Out(u, s) \subseteq HeldFor(q, c) \cup Out(t, s) \cup (arr2 \ arr)
    BY <1>2, <1>3
  <2>3. HeldFor(q, c) \cup Out(t, s) \cup (arr2 \ arr)
          \subseteq HeldFor(r, c) \cup Out(u, s) \cup dn2 \cup r.dropped \cup intr
    BY <1>2, <1>3
  <2>4. ToSet(r.cancelled_batches[c]) \cup Merged(BatchOf(u, s)) \subseteq intr
    BY <1>2
  <2> QED BY <1>2, <1>3, <2>1, <2>2, <2>3, <2>4 DEF Swap
<1> QED BY <1>4, Exchange

\* Two moves in a row.
LEMMA MovedOn ==
    ASSUME NEW q, NEW p, NEW r, NEW c \in Channels, NEW in, NEW out, NEW out2,
           Moved(q, p, c, in, out), Moved(p, r, c, {}, out2)
    PROVE  Moved(q, r, c, in, out \cup out2)
BY DEF Moved, SameHeld

\* A move, and then only counting.
LEMMA MovedSame ==
    ASSUME NEW q, NEW p, NEW r, NEW c \in Channels, NEW in, NEW out,
           \/ Moved(q, p, c, in, out) /\ SameEvents(p, r)
           \/ SameEvents(q, p) /\ Moved(p, r, c, in, out)
    PROVE  Moved(q, r, c, in, out)
<1>1. CASE Moved(q, p, c, in, out) /\ SameEvents(p, r)
  <2>1. HeldFor(r, c) = HeldFor(p, c) /\ Tidy(r, c) = Tidy(p, c)
    BY <1>1 DEF SameEvents, HeldFor, Tidy
  <2> QED BY <1>1, <2>1 DEF Moved, SameHeld, SameEvents
<1>2. CASE SameEvents(q, p) /\ Moved(p, r, c, in, out)
  <2>1. HeldFor(p, c) = HeldFor(q, c)
    BY <1>2 DEF SameEvents, HeldFor
  <2> QED BY <1>2, <2>1 DEF Moved, SameHeld, SameEvents
<1> QED BY <1>1, <1>2

\* An expiry.
LEMMA ExpirySafe ==
    ASSUME NEW q, GoodQueue(q), NEW t, NEW arr, NEW dn, NEW intr, Safe(q, t, arr, dn, intr)
    PROVE  Safe(ExpireInFlight(q), t, arr, dn, intr)
<1> DEFINE r == ExpireInFlight(q)
<1>1. \A c \in Channels : ChannelOK(q, c, arr, intr)
  BY DEF Safe
<1>2. \A c \in Channels : /\ Tidy(r, c) /\ HeldFor(r, c) \subseteq HeldFor(q, c)
                          /\ HeldFor(q, c) \subseteq HeldFor(r, c) \cup r.dropped
                          /\ q.dropped \subseteq r.dropped
                          /\ r.cancelled_batches = q.cancelled_batches
  BY <1>1, ExpireMoves DEF ChannelOK
<1> HIDE DEF r
<1>3. \A c \in Channels : ChannelOK(r, c, arr, intr)
  BY <1>1, <1>2 DEF ChannelOK
<1>4. Apart(r, t)
  <2>1. Apart(q, t)
    BY DEF Safe
  <2> QED BY <1>2, <2>1 DEF Apart
<1>5. q.dropped \subseteq r.dropped
  BY DEF r, ExpireInFlight, GoodQueue, QueueState
<1>6. ASSUME NEW e \in arr \ intr PROVE e \in dn \cup r.dropped \/ Somewhere(r, t, e)
  <2>1. e \in dn \cup q.dropped \/ Somewhere(q, t, e)
    BY DEF Safe
  <2> QED BY <1>2, <1>5, <2>1 DEF Somewhere
<1>7. \A s \in Slots : SlotOK(BatchOf(t, s), arr, intr)
  BY DEF Safe
<1> QED BY <1>3, <1>4, <1>6, <1>7 DEF Safe, r

-----------------------------------------------------------------------------
(* What happens to tasks.                                                  *)

\* The steers that a slot's task holds, in its mailbox or on the wire.
Steers(tasks, s) == IF tasks[s] = NoTask THEN {} ELSE tasks[s].mail \cup tasks[s].wire

\* The mailbox and the wire of a slot share nothing.
OneSteer(tasks, s) == tasks[s] # NoTask => tasks[s].mail \cap tasks[s].wire = {}

\* The slot's task is the same to the events: same channel, batch and steers.
SameTask(t, u, s) == /\ ChannelOf(u, s) = ChannelOf(t, s)
                     /\ BatchOf(u, s) = BatchOf(t, s)
                     /\ Steers(u, s) = Steers(t, s)
                     /\ OneSteer(t, s) => OneSteer(u, s)

\* One slot of the task map changes.
LEMMA SlotChanges ==
    ASSUME SlotInv, NEW s \in Slots, NEW t, task_map' = [task_map EXCEPT ![s] = t]
    PROVE  /\ \A r \in Slots : r # s => SameTask(task_map, task_map', r)
           /\ task_map'[s] = t
<1>1. task_map \in [Slots -> Task \cup {NoTask}]
  BY DEF SlotInv, SlotTypes
<1>2. task_map'[s] = t /\ \A r \in Slots : r # s => task_map'[r] = task_map[r]
  BY <1>1
<1> QED BY <1>2 DEF SameTask, ChannelOf, BatchOf, Steers, OneSteer

\* A signal changes nothing that matters to the events.
LEMMA SignalKeeps ==
    ASSUME SlotInv, NEW c, NEW signal \in ControlSignal, SignalInFlightTask(c, signal)
    PROVE  \A r \in Slots : SameTask(task_map, task_map', r)
<1>1. CASE UNCHANGED task_map
  BY <1>1 DEF SameTask
<1>2. CASE ~UNCHANGED task_map
  <2>1. PICK s \in TasksOn(c) :
          task_map' = [task_map EXCEPT ![s].control = IF @ = "armed" THEN signal ELSE @]
    BY <1>2 DEF SignalInFlightTask
  <2>2. s \in Slots /\ task_map[s] # NoTask
    BY <2>1 DEF TasksOn, Claimed
  <2> DEFINE t == [task_map[s] EXCEPT !.control = IF @ = "armed" THEN signal ELSE @]
  <2>3. task_map' = [task_map EXCEPT ![s] = t]
    BY <2>1
  <2>4. /\ t.channel_id = task_map[s].channel_id /\ t.batch = task_map[s].batch
        /\ t.mail = task_map[s].mail /\ t.wire = task_map[s].wire
    BY <2>2, TaskFields DEF Task
  <2>5. t \in Task /\ t # NoTask
    BY <2>2, TaskFields, AbsenceAssumption DEF Task
  <2> HIDE DEF t
  <2>6. SameTask(task_map, task_map', s)
    BY <2>2, <2>3, <2>4, <2>5, SlotChanges DEF SameTask, ChannelOf, BatchOf, Steers, OneSteer
  <2> QED BY <2>2, <2>3, <2>6, SlotChanges
<1> QED BY <1>1, <1>2

\* A step that leaves every task with its channel and batch.
SameTasks == \A s \in Slots : /\ ChannelOf(task_map', s) = ChannelOf(task_map, s)
                              /\ BatchOf(task_map', s) = BatchOf(task_map, s)

\* A step that starts no task and takes none off keeps batches on their channels.
LEMMA StillAligned ==
    ASSUME EventInv, SameTasks
    PROVE  Aligned(task_map') /\ \A s \in Slots : BatchOf(task_map', s) = BatchOf(task_map, s)
BY DEF EventInv, SameTasks, SameTask, Aligned

\* A step that moves no event.
LEMMA EventsKept ==
    ASSUME EventInv, SameTasks, SameEvents(queue, queue'), arrived' = arrived,
           done \subseteq done', interrupted \subseteq interrupted'
    PROVE  EventInv'
<1>1. Aligned(task_map') /\ \A s \in Slots : BatchOf(task_map', s) = BatchOf(task_map, s)
  BY StillAligned
<1>2. Safe(queue, task_map, arrived, done, interrupted)
  BY DEF EventInv
<1>3. Safe(queue', task_map', arrived, done', interrupted')
  BY <1>1, <1>2, Unmoved
<1> QED BY <1>1, <1>3 DEF EventInv

\* A step that moves events of one channel of the queue.
LEMMA EventsMoved ==
    ASSUME EventInv, SameTasks, NEW c \in Channels, NEW in, NEW out,
           Moved(queue, queue', c, in, out),
           ToSet(queue'.cancelled_batches[c]) \subseteq ToSet(queue.cancelled_batches[c]),
           in \cap arrived = {}, arrived' = arrived \cup in, done \cup out \subseteq done',
           interrupted' = interrupted
    PROVE  EventInv'
<1>1. Aligned(task_map') /\ \A s \in Slots : BatchOf(task_map', s) = BatchOf(task_map, s)
  BY StillAligned
<1>2. Safe(queue, task_map, arrived, done, interrupted)
  BY DEF EventInv
<1>3. Safe(queue', task_map', arrived', done', interrupted)
  BY <1>1, <1>2, QueueMoves
<1> QED BY <1>1, <1>3 DEF EventInv

\* An expiry, and a heartbeat task that starts with it.
LEMMA EventsExpired ==
    ASSUME HarnessInv, EventInv, NEW q, GoodQueue(q), SameEvents(queue, q),
           queue' = ExpireInFlight(q),
           \A s \in Slots : BatchOf(task_map', s) = BatchOf(task_map, s),
           Aligned(task_map'), UNCHANGED <<arrived, done, interrupted>>
    PROVE  EventInv'
<1>1. Safe(queue, task_map, arrived, done, interrupted)
  BY DEF EventInv
<1>2. Safe(q, task_map', arrived, done, interrupted)
  BY <1>1, Unmoved
<1>3. Safe(queue', task_map', arrived, done, interrupted)
  BY <1>2, ExpirySafe
<1> QED BY <1>3 DEF EventInv

\* Maintenance preserves the invariant.
LEMMA MaintainEvents ==
    ASSUME HarnessInv, EventInv, Maintain
    PROVE  EventInv'
<1> DEFINE q == CompactExpiredState(queue)
<1>1. /\ task_map' = task_map /\ UNCHANGED <<arrived, done, interrupted>>
      /\ queue' = queue \/ queue' = ExpireInFlight(q)
  BY DEF Maintain, pool, input, history
<1>2. SameTasks
  BY <1>1 DEF SameTasks, SameTask
<1>3. CASE queue' = queue
  BY <1>1, <1>2, <1>3, EventsKept DEF SameEvents
<1>4. CASE queue' = ExpireInFlight(q)
  <2>1. GoodQueue(queue) /\ GoodQueue(q)
    BY CompactExpiredStateGood DEF HarnessInv, RestOK
  <2>2. SameEvents(queue, q)
    BY <2>1 DEF CompactExpiredState, SameEvents, GoodQueue, QueueState
  <2> HIDE DEF q
  <2> QED BY <1>1, <1>2, <1>4, <2>1, <2>2, StillAligned, EventsExpired
<1> QED BY <1>1, <1>3, <1>4

\* So do owner commands and membership changes: a removal gives up what it drains.
LEMMA CommandEvents ==
    ASSUME HarnessInv, EventInv, NEW c \in Channels,
           \/ OwnerCommand(c, "Cancel") \/ OwnerCommand(c, "Rotate") \/ SwitchModel(c)
           \/ MemberRemoved(c) \/ MemberAdded(c)
    PROVE  EventInv'
<1>1. SameTasks
  <2>1. \/ UNCHANGED task_map
        \/ \E signal \in ControlSignal : SignalInFlightTask(c, signal)
    BY DEF OwnerCommand, SwitchModel, MemberRemoved, MemberAdded, pool, ControlSignal
  <2> QED BY <2>1, SignalKeeps DEF HarnessInv, SameTasks, SameTask
<1>2. UNCHANGED <<arrived, interrupted>>
  BY DEF OwnerCommand, SwitchModel, MemberRemoved, MemberAdded, history
<1>3. CASE MemberRemoved(c)
  <2>1. queue' = DrainChannel(queue, c) /\ done' = done \cup HeldFor(queue, c)
    BY <1>3 DEF MemberRemoved
  <2>2. GoodQueue(queue) /\ Tidy(queue, c)
    BY DEF HarnessInv, RestOK, EventInv, Safe, ChannelOK
  <2>3. Moved(queue, queue', c, {}, HeldFor(queue, c)) /\ queue'.cancelled_batches[c] = <<>>
    BY <2>1, <2>2, DrainMoves
  <2>4. ToSet(queue'.cancelled_batches[c]) = {}
    BY <2>3, Nothing
  <2> QED BY <1>1, <1>2, <2>1, <2>3, <2>4, EventsMoved
<1>4. CASE ~MemberRemoved(c)
  <2>1. queue' = queue /\ done' = done
    BY <1>4 DEF OwnerCommand, SwitchModel, MemberAdded, history
  <2> QED BY <1>1, <1>2, <2>1, EventsKept DEF SameEvents
<1> QED BY <1>3, <1>4

\* So do spawns and the clock.
LEMMA ClockEvents ==
    ASSUME HarnessInv, EventInv,
           \/ Clock \/ CollectRespawns \/ UNCHANGED vars
           \/ \E s \in Slots, ok \in BOOLEAN : RespawnEnds(s, ok)
    PROVE  EventInv'
<1>1. UNCHANGED <<task_map, arrived, done, interrupted>>
  BY DEF Clock, ClockThrottle, ClockBackstop, ClockCooldown, ClockMaintenance,
         CollectRespawns, RespawnEnds, vars, pool, input, history
<1>2. \/ queue' = queue
      \/ \E c \in Channels : \/ queue' = ThrottleElapses(queue, c)
                             \/ queue' = DeadlineElapses(queue, c)
  BY DEF Clock, ClockThrottle, ClockBackstop, ClockCooldown, ClockMaintenance,
         CollectRespawns, RespawnEnds, vars
<1>3. SameEvents(queue, queue')
  BY <1>2, Counting DEF SameEvents, HarnessInv, RestOK
<1>4. SameTasks
  BY <1>1 DEF SameTasks, SameTask
<1> QED BY <1>1, <1>3, <1>4, EventsKept

\* So do the intervals: a heartbeat's task carries no events.
LEMMA TickEvents ==
    ASSUME HarnessInv, EventInv, Tick
    PROVE  EventInv'
<1>0. UNCHANGED <<arrived, done, interrupted>>
  BY DEF Tick, OtherTick, HeartbeatTick, input, history
<1>1. CASE UNCHANGED task_map
  <2>1. queue' = queue \/ queue' = ExpireInFlight(queue)
    BY <1>1 DEF Tick, OtherTick, HeartbeatTick
  <2>2. SameTasks /\ GoodQueue(queue) /\ SameEvents(queue, queue)
    BY <1>1 DEF SameTasks, SameTask, SameEvents, HarnessInv, RestOK
  <2>3. Aligned(task_map') /\ \A s \in Slots : BatchOf(task_map', s) = BatchOf(task_map, s)
    BY <2>2, StillAligned
  <2>4. CASE queue' = queue
    BY <1>0, <2>2, <2>4, EventsKept
  <2>5. CASE queue' = ExpireInFlight(queue)
    BY <1>0, <2>2, <2>3, <2>5, EventsExpired
  <2> QED BY <2>1, <2>4, <2>5
<1>2. CASE ~UNCHANGED task_map
  <2> DEFINE s == Min(agents)
             t == NewTask(Heartbeat, NoBatch)
  <2>1. /\ queue' = ExpireInFlight(queue) /\ agents # {}
        /\ task_map' = [task_map EXCEPT ![s] = t]
    BY <1>2 DEF Tick, OtherTick, HeartbeatTick, pool
  <2>2. s \in agents /\ s \in Slots
    BY <2>1, ClaimType DEF HarnessInv, SlotInv, SlotTypes
  <2>3. task_map[s] = NoTask
    BY <2>2 DEF HarnessInv, SlotInv, SlotExclusive
  <2>4. t.batch = NoBatch
    BY DEF NewTask
  <2> HIDE DEF s, t
  <2>5. /\ \A r \in Slots : r # s => SameTask(task_map, task_map', r)
        /\ task_map'[s] = t
    BY <2>1, <2>2, SlotChanges DEF HarnessInv
  <2>6. BatchOf(task_map', s) = NoBatch /\ BatchOf(task_map, s) = NoBatch
    BY <2>3, <2>4, <2>5 DEF BatchOf
  <2>7. \A r \in Slots : BatchOf(task_map', r) = BatchOf(task_map, r)
    BY <2>5, <2>6 DEF SameTask
  <2>8. Aligned(task_map')
    BY <2>5, <2>6 DEF EventInv, Aligned, SameTask
  <2>9. GoodQueue(queue) /\ SameEvents(queue, queue)
    BY DEF SameEvents, HarnessInv, RestOK
  <2> QED BY <1>0, <2>1, <2>7, <2>8, <2>9, EventsExpired
<1> QED BY <1>1, <1>2

\* A task whose batch stays: what is to be known of the new task.
LEMMA TaskKept ==
    ASSUME SlotInv, NEW s \in Slots, task_map[s] # NoTask, NEW t \in Task,
           t.channel_id = task_map[s].channel_id, t.batch = task_map[s].batch,
           task_map' = [task_map EXCEPT ![s] = t]
    PROVE  SameTasks /\ Steers(task_map', s) = t.mail \cup t.wire
<1>1. t # NoTask
  BY AbsenceAssumption
<1>2. /\ \A r \in Slots : r # s => SameTask(task_map, task_map', r)
      /\ task_map'[s] = t
  BY SlotChanges
<1> QED BY <1>1, <1>2 DEF SameTasks, SameTask, ChannelOf, BatchOf, Steers

\* An event is put to a task's mailbox.
LEMMA Mailed ==
    ASSUME SlotInv, NEW c, NEW s \in SteerTargets(c), NEW e \in Events,
           task_map' = [task_map EXCEPT ![s].mail = {e}]
    PROVE  /\ s \in Slots /\ task_map[s] # NoTask /\ SameTasks
           /\ \A r \in Slots : r # s => SameTask(task_map, task_map', r)
           /\ task_map'[s] # NoTask /\ task_map[s].mail = {}
           /\ task_map'[s].mail = {e} /\ task_map'[s].wire = task_map[s].wire
<1>1. s \in Slots /\ task_map[s] # NoTask /\ task_map[s].mail = {}
  BY DEF SteerTargets, TasksOn, Claimed
<1> DEFINE t == [task_map[s] EXCEPT !.mail = {e}]
<1>2. task_map' = [task_map EXCEPT ![s] = t]
  OBVIOUS
<1>3. /\ t \in Task /\ t # NoTask /\ t.channel_id = task_map[s].channel_id
      /\ t.batch = task_map[s].batch /\ t.mail = {e} /\ t.wire = task_map[s].wire
  BY <1>1, TaskFields, AbsenceAssumption DEF Task
<1> HIDE DEF t
<1>4. \A r \in Slots : r # s => SameTask(task_map, task_map', r)
  BY <1>1, <1>2, SlotChanges
<1>5. task_map'[s] = t
  BY <1>1, <1>2, SlotChanges
<1> QED BY <1>1, <1>2, <1>3, <1>4, <1>5, TaskKept

\* What an event that arrives does to the tasks.
LEMMA RelayTasks ==
    ASSUME HarnessInv, NEW c \in Channels, NEW e \in Events, RelayEvent(c, e)
    PROVE  \/ \A s \in Slots : SameTask(task_map, task_map', s)
           \/ \E s \in SteerTargets(c) :
                 /\ task_map' = [task_map EXCEPT ![s].mail = {e}]
                 /\ queue' = MarkNativeSteerPending(Push(queue, c, e), c, e)
<1>1. CASE UNCHANGED task_map
  BY <1>1 DEF SameTask
<1>2. CASE \E s \in SteerTargets(c) :
                 /\ task_map' = [task_map EXCEPT ![s].mail = {e}]
                 /\ queue' = MarkNativeSteerPending(Push(queue, c, e), c, e)
  BY <1>2
<1>3. CASE \E byOwner \in BOOLEAN :
             /\ ModeGateSignal(byOwner) # "none"
             /\ SignalInFlightTask(c, ModeGateSignal(byOwner))
  <2>1. \A byOwner \in BOOLEAN : ModeGateSignal(byOwner) \in ControlSignal \cup {"none"}
    BY HarnessAssumption DEF ModeGateSignal, ControlSignal
  <2> QED BY <1>3, <2>1, SignalKeeps DEF HarnessInv
<1> QED BY <1>1, <1>2, <1>3 DEF RelayEvent

\* An event that arrives is queued, withheld for a steer or turned away.
LEMMA RelayEvents ==
    ASSUME HarnessInv, EventInv, NEW c \in Channels, NEW e \in Events, RelayEvent(c, e)
    PROVE  EventInv'
<1> DEFINE p == Push(queue, c, e)
<1>1. /\ e \notin arrived /\ arrived' = arrived \cup {e} /\ interrupted' = interrupted
      /\ done' = done \/ done' = done \cup {e}
  BY DEF RelayEvent
<1>2. SameTasks
  <2>1. CASE \A s \in Slots : SameTask(task_map, task_map', s)
    BY <2>1 DEF SameTasks, SameTask
  <2>2. CASE \E s \in SteerTargets(c) : task_map' = [task_map EXCEPT ![s].mail = {e}]
    BY <2>2, Mailed DEF HarnessInv
  <2> QED BY <2>1, <2>2, RelayTasks
<1>3. /\ GoodQueue(queue) /\ Tidy(queue, c) /\ HeldFor(queue, c) \subseteq arrived
  BY DEF HarnessInv, RestOK, EventInv, Safe, ChannelOK
<1>4. /\ Moved(queue, p, c, {e}, {}) /\ p.cancelled_batches = queue.cancelled_batches
      /\ GoodQueue(p) /\ Tidy(p, c)
  BY <1>1, <1>3, PushMoves, PushGood DEF Moved
<1> DEFINE w == MarkNativeSteerPending(p, c, e)
<1>5. Moved(queue, w, c, {e}, {}) /\ w.cancelled_batches = queue.cancelled_batches
  <2> HIDE DEF p
  <2>1. Moved(p, w, c, {}, {}) /\ w.cancelled_batches = p.cancelled_batches
    BY <1>4, WithholdMoves
  <2> HIDE DEF w
  <2>2. Moved(queue, w, c, {e}, {} \cup {})
    BY <1>4, <2>1, MovedOn
  <2> QED BY <1>4, <2>1, <2>2
<1>6. CASE PushAccepts(queue, c)
  <2>1. queue' = p \/ queue' = w
    BY <1>6 DEF RelayEvent
  <2> HIDE DEF p, w
  <2>2. Moved(queue, queue', c, {e}, {}) /\ queue'.cancelled_batches = queue.cancelled_batches
    BY <1>4, <1>5, <2>1
  <2>3. done \cup {} \subseteq done' /\ {e} \cap arrived = {}
    BY <1>1
  <2> QED BY <1>1, <1>2, <2>2, <2>3, EventsMoved
<1>7. CASE ~PushAccepts(queue, c)
  <2>1. queue' = queue /\ done' = done \cup {e}
    BY <1>7 DEF RelayEvent
  <2>2. Moved(queue, queue', c, {e}, {e})
    BY <1>3, <2>1 DEF Moved, SameHeld
  <2>3. done \cup {e} \subseteq done' /\ {e} \cap arrived = {}
    BY <1>1, <2>1
  <2> QED BY <1>1, <1>2, <2>1, <2>2, <2>3, EventsMoved
<1> QED BY <1>6, <1>7

\* A steer's answer releases the event, or is the last of it.
LEMMA AckEvents ==
    ASSUME HarnessInv, EventInv, NEW a \in steer_ack_rx, HandleSteerAck(a)
    PROVE  EventInv'
<1>1. /\ a.channel_id \in Channels /\ a.event \in Events
      /\ a.ack \in {"Success", "NotLanded", "Neutral"}
  BY DEF HarnessInv, RestOK, SteerAck
<1> DEFINE c == a.channel_id
           e == a.event
           x == ExtendInFlightDeadline(queue, c)
<1>2. /\ \/ queue' = RemoveEvent(x, c, e) /\ done' = done \cup {e}
         \/ queue' = ReleaseNativeSteer(queue, c, e) /\ done' = done
      /\ UNCHANGED task_map \/ SignalInFlightTask(c, "Steer")
      /\ UNCHANGED <<arrived, interrupted>>
  BY <1>1 DEF HandleSteerAck, input
<1>3. SameTasks
  BY <1>2, SignalKeeps DEF HarnessInv, SameTasks, SameTask, ControlSignal
<1>4. GoodQueue(queue) /\ GoodQueue(x) /\ SameEvents(queue, x) /\ Tidy(queue, c)
  BY <1>1, DeadlineGood, Counting DEF HarnessInv, RestOK, EventInv, Safe, ChannelOK
<1>5. Tidy(x, c)
  BY <1>4 DEF SameEvents, Tidy
<1> HIDE DEF x
<1>6. CASE queue' = RemoveEvent(x, c, e) /\ done' = done \cup {e}
  <2>1. Moved(x, queue', c, {}, {e}) /\ queue'.cancelled_batches = x.cancelled_batches
    BY <1>1, <1>4, <1>5, <1>6, RemoveMoves
  <2>2. Moved(queue, queue', c, {}, {e}) /\ queue'.cancelled_batches = queue.cancelled_batches
    BY <1>1, <1>4, <2>1, MovedSame DEF SameEvents
  <2> QED BY <1>1, <1>2, <1>3, <1>6, <2>2, EventsMoved
<1>7. CASE queue' = ReleaseNativeSteer(queue, c, e) /\ done' = done
  <2>1. Moved(queue, queue', c, {}, {}) /\ queue'.cancelled_batches = queue.cancelled_batches
    BY <1>1, <1>4, <1>7, ReleaseMoves
  <2> QED BY <1>1, <1>2, <1>3, <1>7, <2>1, EventsMoved
<1> QED BY <1>2, <1>6, <1>7

\* The steers S of slot s are answered with ack.
Answered(s, S, ack) ==
    /\ S \subseteq Steers(task_map, s)
    /\ Steers(task_map', s) \subseteq Steers(task_map, s) \ S
    /\ OneSteer(task_map', s)
    /\ \A a \in steer_ack_rx' : a \in steer_ack_rx \/ (a.event \in S /\ a.ack = ack)
    /\ acked' = acked \cup (IF ack = "Success" THEN S ELSE {})

\* The mailbox and the wire of slot s become m and w.
Steered(s, m, w) ==
    task_map' = [task_map EXCEPT ![s] = [task_map[s] EXCEPT !.mail = m, !.wire = w]]

\* That leaves its channel and batch, and the other slots.
LEMMA SteersChange ==
    ASSUME SlotInv, NEW s \in Slots, task_map[s] # NoTask,
           NEW m \in SUBSET Events, NEW w \in SUBSET Events, m \cap w = {}, Steered(s, m, w)
    PROVE  /\ SameTasks /\ \A x \in Slots : x # s => SameTask(task_map, task_map', x)
           /\ Steers(task_map', s) = m \cup w /\ OneSteer(task_map', s)
<1> DEFINE r == task_map[s]
           t == [r EXCEPT !.mail = m, !.wire = w]
<1>1. r \in Task
  BY TaskFields
<1>2. /\ t \in Task /\ t.channel_id = r.channel_id /\ t.batch = r.batch
      /\ t.mail = m /\ t.wire = w
  <2> HIDE DEF r
  <2> QED BY <1>1 DEF Task
<1>3. task_map' = [task_map EXCEPT ![s] = t]
  BY DEF Steered
<1> HIDE DEF t
<1>4. /\ \A x \in Slots : x # s => SameTask(task_map, task_map', x)
      /\ task_map'[s] = t
  BY <1>3, SlotChanges
<1> QED BY <1>2, <1>3, <1>4, TaskKept DEF OneSteer

\* What steering does: some of the task's steers are answered, all alike.
LEMMA SteeringAnswers ==
    ASSUME HarnessInv, NEW s \in Slots, Steering(s)
    PROVE  /\ SameTasks /\ \A r \in Slots : r # s => SameTask(task_map, task_map', r)
           /\ OneSteer(task_map, s) =>
                \E S, ack : Answered(s, S, ack)
<1> DEFINE r == task_map[s]
<1>1. r # NoTask /\ SlotInv
  BY DEF Steering, SteerArm, SteerUnanswered, SteerResponse, Running, HarnessInv
<1>2. /\ r \in Task /\ r.mail \in SUBSET Events /\ r.wire \in SUBSET Events
      /\ task_map \in [Slots -> Task \cup {NoTask}]
  BY <1>1, TaskFields DEF SlotInv, SlotTypes
<1>3. Steers(task_map, s) = r.mail \cup r.wire
  BY <1>1 DEF Steers
<1>4. CASE SteerArm(s)
  <2>1. r.wire = {} /\ acked' = acked
    BY <1>4 DEF SteerArm, history
  <2>2. CASE /\ task_map' = [task_map EXCEPT ![s].mail = {}, ![s].wire = r.mail]
             /\ UNCHANGED steer_ack_rx
    <3>1. Steered(s, {}, r.mail)
      BY <1>2, <2>2 DEF Steered
    <3>2. /\ SameTasks /\ \A x \in Slots : x # s => SameTask(task_map, task_map', x)
          /\ Steers(task_map', s) = r.mail /\ OneSteer(task_map', s)
      <4>1. {} \cap r.mail = {} /\ {} \cup r.mail = r.mail /\ {} \in SUBSET Events
        OBVIOUS
      <4> QED BY <1>1, <1>2, <3>1, <4>1, SteersChange
    <3>3. Answered(s, {}, "Neutral")
      BY <1>3, <2>1, <2>2, <3>2 DEF Answered
    <3> QED BY <3>2, <3>3
  <2>3. CASE /\ task_map' = [task_map EXCEPT ![s].mail = {}]
             /\ steer_ack_rx' = steer_ack_rx \cup
                   {[channel_id |-> r.channel_id, event |-> e,
                     ack |-> "NotLanded"] : e \in r.mail}
    <3>1. Steered(s, {}, r.wire)
      <4>1. r = [r EXCEPT !.wire = r.wire]
        BY <1>2 DEF Task
      <4> QED BY <1>2, <2>3, <4>1 DEF Steered
    <3>2. /\ SameTasks /\ \A x \in Slots : x # s => SameTask(task_map, task_map', x)
          /\ Steers(task_map', s) = r.wire /\ OneSteer(task_map', s)
      <4>1. {} \cap r.wire = {} /\ {} \cup r.wire = r.wire /\ {} \in SUBSET Events
        OBVIOUS
      <4> QED BY <1>1, <1>2, <3>1, <4>1, SteersChange
    <3>3. \A a \in steer_ack_rx' : a \in steer_ack_rx \/ (a.event \in r.mail /\ a.ack = "NotLanded")
      BY <2>3
    <3>4. Answered(s, r.mail, "NotLanded")
      BY <1>3, <2>1, <3>2, <3>3 DEF Answered
    <3> QED BY <3>2, <3>4
  <2> QED BY <1>4, <2>2, <2>3 DEF SteerArm
<1>5. CASE SteerUnanswered(s)
  <2>1. /\ Steered(s, {}, {})
        /\ steer_ack_rx' = steer_ack_rx \cup NeutralAcks(r) /\ acked' = acked
    BY <1>2, <1>5 DEF SteerUnanswered, Steered, history
  <2>2. /\ SameTasks /\ \A x \in Slots : x # s => SameTask(task_map, task_map', x)
        /\ Steers(task_map', s) = {} /\ OneSteer(task_map', s)
    BY <1>1, <2>1, SteersChange
  <2>3. \A a \in steer_ack_rx' :
           a \in steer_ack_rx \/ (a.event \in r.mail \cup r.wire /\ a.ack = "Neutral")
    BY <2>1 DEF NeutralAcks
  <2>4. Answered(s, r.mail \cup r.wire, "Neutral")
    BY <1>3, <2>1, <2>2, <2>3 DEF Answered
  <2> QED BY <2>2, <2>4
<1>6. ASSUME NEW answer \in {"Success", "NotLanded", "Neutral"}, SteerResponse(s, answer)
      PROVE  /\ SameTasks /\ \A x \in Slots : x # s => SameTask(task_map, task_map', x)
             /\ OneSteer(task_map, s) => Answered(s, r.wire, answer)
  <2>1. /\ task_map' = [task_map EXCEPT ![s].wire = {}]
        /\ steer_ack_rx' = steer_ack_rx \cup
              {[channel_id |-> r.channel_id, event |-> e, ack |-> answer] : e \in r.wire}
        /\ acked' = IF answer = "Success" THEN acked \cup r.wire ELSE acked
    BY <1>6 DEF SteerResponse
  <2>2. Steered(s, r.mail, {})
    <3>1. r = [r EXCEPT !.mail = r.mail]
      BY <1>2 DEF Task
    <3> QED BY <1>2, <2>1, <3>1 DEF Steered
  <2>3. /\ SameTasks /\ \A x \in Slots : x # s => SameTask(task_map, task_map', x)
        /\ Steers(task_map', s) = r.mail /\ OneSteer(task_map', s)
    <3>1. r.mail \cap {} = {} /\ r.mail \cup {} = r.mail /\ {} \in SUBSET Events
      OBVIOUS
    <3> QED BY <1>1, <1>2, <2>2, <3>1, SteersChange
  <2>4. \A a \in steer_ack_rx' : a \in steer_ack_rx \/ (a.event \in r.wire /\ a.ack = answer)
    BY <2>1
  <2>5. ASSUME OneSteer(task_map, s) PROVE Answered(s, r.wire, answer)
    <3>1. r.mail \cap r.wire = {}
      BY <1>1, <2>5 DEF OneSteer
    <3> QED BY <1>3, <2>1, <2>3, <2>4, <3>1 DEF Answered
  <2> QED BY <2>3, <2>5
<1> QED BY <1>4, <1>5, <1>6 DEF Steering

\* Steering moves no event of the queue or of a batch.
LEMMA SteeringEvents ==
    ASSUME HarnessInv, EventInv, NEW s \in Slots, Steering(s)
    PROVE  EventInv'
<1>1. UNCHANGED <<queue, arrived, done, interrupted>>
  BY DEF Steering, SteerArm, SteerUnanswered, SteerResponse, input, history
<1>2. SameEvents(queue, queue')
  BY <1>1 DEF SameEvents
<1> QED BY <1>1, <1>2, SteeringAnswers, EventsKept

\* What the end of a task does: its steers are answered neutrally, and its batch is
\* given back or finished.
LEMMA TaskOver ==
    ASSUME HarnessInv, NEW s \in Slots, TaskEnds(s)
    PROVE  \E b \in FlushBatch \cup {NoBatch} :
              /\ \A r \in Slots : r # s => SameTask(task_map, task_map', r)
              /\ ChannelOf(task_map', s) = ChannelOf(task_map, s)
              /\ BatchOf(task_map', s) = b /\ BatchBack(b, BatchOf(task_map, s))
              /\ done' = IF b = NoBatch THEN done \cup Out(task_map, s) ELSE done
              /\ \E S : Answered(s, S, "Neutral")
              /\ UNCHANGED <<queue, arrived, interrupted>>
<1> DEFINE r == task_map[s]
<1>0. r # NoTask /\ SlotInv
  BY TaskEnding DEF Running, HarnessInv
<1>1. PICK state \in {"returned", "panicked"}, o \in AllOutcomes,
           b \in FlushBatch \cup {NoBatch}, kept \in SUBSET SUBSET Channels :
             EndTask(s, state, o, b, kept) /\ BatchBack(b, r.batch)
  BY TaskEnding
<1> DEFINE t == [r EXCEPT !.state = state, !.outcome = o, !.batch = b,
                    !.control = "none", !.mail = {}, !.wire = {}]
<1>2. /\ task_map' = [task_map EXCEPT ![s] = t]
      /\ steer_ack_rx' = steer_ack_rx \cup NeutralAcks(r)
      /\ done' = IF b = NoBatch THEN done \cup BatchEvents(r.batch) ELSE done
      /\ UNCHANGED <<queue, arrived, acked, interrupted>>
  BY <1>1 DEF EndTask
<1>3. /\ t \in Task /\ t.channel_id = r.channel_id /\ t.batch = b
      /\ t.mail = {} /\ t.wire = {}
  <2>1. r \in Task
    BY <1>0, TaskFields
  <2> HIDE DEF r
  <2> QED BY <2>1 DEF Task
<1> HIDE DEF t
<1>4. /\ \A x \in Slots : x # s => SameTask(task_map, task_map', x)
      /\ task_map'[s] = t
  BY <1>0, <1>2, SlotChanges
<1>5. /\ ChannelOf(task_map', s) = ChannelOf(task_map, s)
      /\ BatchOf(task_map', s) = b /\ BatchOf(task_map, s) = r.batch
      /\ Steers(task_map', s) = {} /\ Steers(task_map, s) = r.mail \cup r.wire
      /\ OneSteer(task_map', s)
  BY <1>0, <1>3, <1>4, AbsenceAssumption DEF ChannelOf, BatchOf, Steers, OneSteer
<1>6. Answered(s, r.mail \cup r.wire, "Neutral")
  <2>1. \A a \in steer_ack_rx' :
           a \in steer_ack_rx \/ (a.event \in r.mail \cup r.wire /\ a.ack = "Neutral")
    BY <1>2 DEF NeutralAcks
  <2> QED BY <1>2, <1>5, <2>1 DEF Answered
<1> QED BY <1>1, <1>2, <1>4, <1>5, <1>6 DEF Out

\* A task that ends keeps its batch for the loop, or its events are done.
LEMMA TaskEndEvents ==
    ASSUME HarnessInv, EventInv, NEW s \in Slots, TaskEnds(s)
    PROVE  EventInv'
<1>1. PICK b \in FlushBatch \cup {NoBatch} :
        /\ \A r \in Slots : r # s => SameTask(task_map, task_map', r)
        /\ ChannelOf(task_map', s) = ChannelOf(task_map, s)
        /\ BatchOf(task_map', s) = b /\ BatchBack(b, BatchOf(task_map, s))
        /\ done' = IF b = NoBatch THEN done \cup Out(task_map, s) ELSE done
        /\ UNCHANGED <<queue, arrived, interrupted>>
  BY TaskOver
<1>2. Aligned(task_map')
  BY <1>1 DEF EventInv, Aligned, SameTask, BatchBack
<1>3. /\ Safe(queue, task_map, arrived, done, interrupted)
      /\ SlotOK(BatchOf(task_map, s), arrived, interrupted)
      /\ \A c \in Channels : ChannelOK(queue, c, arrived, interrupted)
      /\ \A c \in Channels : HeldFor(queue, c) \cap Out(task_map, s) = {}
  BY DEF EventInv, Safe, Apart
<1>4. /\ Out(task_map', s) \subseteq Out(task_map, s)
      /\ Out(task_map, s) \subseteq Out(task_map', s) \cup done'
      /\ TidyOut(b) /\ Merged(b) \subseteq interrupted
  <2>1. CASE b = NoBatch
    BY <1>1, <2>1 DEF Out, BatchEvents, TidyOut, Merged
  <2>2. CASE b # NoBatch
    BY <1>1, <1>3, <2>2 DEF Out, BatchEvents, BatchBack, TidyOut, TidyBatch, Merged, SlotOK
  <2> QED BY <2>1, <2>2
<1>5. CASE \E c \in Channels : TRUE
  <2>1. PICK c \in Channels : TRUE
    BY <1>5
  <2>2. Swap(queue, queue', c, task_map, task_map', s, arrived, arrived', done', interrupted')
    <3>1. Tidy(queue, c) /\ ToSet(queue.cancelled_batches[c]) \subseteq interrupted
      BY <1>3 DEF ChannelOK
    <3>2. \A d \in Channels : d # c => SameHeld(queue, queue', d)
      BY <1>1 DEF SameHeld
    <3>3. \A x \in Slots : x # s => BatchOf(task_map', x) = BatchOf(task_map, x)
      BY <1>1 DEF SameTask
    <3> QED BY <1>1, <1>3, <1>4, <3>1, <3>2, <3>3 DEF Swap
  <2>3. Safe(queue', task_map', arrived', done', interrupted')
    BY <1>1, <1>3, <2>2, Exchange
  <2> QED BY <1>2, <2>3 DEF EventInv
<1>6. CASE ~\E c \in Channels : TRUE
  <2>1. BatchOf(task_map, s) = NoBatch
    <3>1. BatchOf(task_map, s) \in FlushBatch \cup {NoBatch}
      BY TaskFields DEF BatchOf, HarnessInv
    <3> QED BY <1>6, <3>1 DEF FlushBatch
  <2>2. b = NoBatch
    BY <1>1, <2>1 DEF BatchBack
  <2>3. SameTasks /\ SameEvents(queue, queue')
    BY <1>1, <2>1, <2>2 DEF SameTasks, SameTask, SameEvents
  <2> QED BY <1>1, <2>3, EventsKept
<1> QED BY <1>5, <1>6

\* What a channel may dispatch: its queue and its cancelled batch, but not the
\* events withheld for a steer.
Live(q, c) == ToSet(q.queues[c]) \cup ToSet(q.cancelled_batches[c])

\* What a returned batch leaves behind: in is put back, and what is not was given
\* up knowingly or had been merged from a cancelled turn.
Absorbed(q, r, b, o, in) ==
    /\ Moved(q, r, b.channel_id, in, {})
    /\ in \subseteq Carried(b)
    /\ Carried(b) \subseteq in \cup GivenUp(q, b, o) \cup Merged(b)
    /\ ToSet(r.cancelled_batches[b.channel_id]) \subseteq
          ToSet(q.cancelled_batches[b.channel_id])
             \cup (IF o \in CancelOutcomes THEN Carried(b) ELSE {})
    /\ Live(r, b.channel_id) \subseteq Live(q, b.channel_id) \cup Carried(b)

\* A returned batch is put back, kept as cancelled, or given up.
LEMMA BatchAbsorbed ==
    ASSUME NEW q, GoodQueue(q), NEW b \in FlushBatch, Tidy(q, b.channel_id), TidyBatch(b),
           Carried(b) \cap HeldFor(q, b.channel_id) = {}, NEW o
    PROVE  /\ GoodQueue(AbsorbBatch(q, b, o))
           /\ \E in : Absorbed(q, AbsorbBatch(q, b, o), b, o, in)
<1> DEFINE r == AbsorbBatch(q, b, o)
           c == b.channel_id
<1>1. b # NoBatch /\ c \in Channels /\ BatchEvents(b) = Carried(b)
      /\ Merged(b) = ToSet(b.cancelled_events)
  BY AbsenceAssumption DEF FlushBatch, BatchEvents, Carried, Merged
<1>2. ASSUME SameEvents(q, r), GivenUp(q, b, o) = BatchEvents(b)
      PROVE  Absorbed(q, r, b, o, {})
  <2> HIDE DEF r
  <2>1. Moved(q, r, c, {}, {})
    BY <1>2 DEF SameEvents, Moved, SameHeld, Tidy, HeldFor
  <2>2. r.cancelled_batches = q.cancelled_batches /\ Live(r, c) = Live(q, c)
    BY <1>2 DEF SameEvents, Live
  <2> QED BY <1>1, <1>2, <2>1, <2>2 DEF Absorbed
<1>3. CASE c \in removed_channels \/ (o \notin CancelOutcomes /\ o \in DeadLetterOutcomes)
  <2>1. r = q /\ GivenUp(q, b, o) = BatchEvents(b)
    BY <1>1, <1>3 DEF AbsorbBatch, GivenUp
  <2>2. SameEvents(q, r)
    BY <2>1 DEF SameEvents
  <2> QED BY <1>2, <2>1, <2>2
<1>4. CASE c \notin removed_channels /\ o \in CancelOutcomes
  <2> DEFINE reason == IF b.cancel_reason = NoReason THEN "Steer" ELSE b.cancel_reason
  <2>1. r = RequeueAsCancelled(q, b, reason)
    <3>1. o \notin DeadLetterOutcomes
      BY <1>4 DEF CancelOutcomes, DeadLetterOutcomes
    <3> QED BY <1>1, <1>4, <3>1 DEF AbsorbBatch
  <2>2. reason \in CancelReason
    BY DEF FlushBatch, CancelReason
  <2> HIDE DEF reason
  <2>3. /\ Moved(q, r, c, Carried(b), {})
        /\ ToSet(r.cancelled_batches[c]) = ToSet(q.cancelled_batches[c]) \cup Carried(b)
        /\ r.queues = q.queues
    BY <2>1, CancelledMoves
  <2>4. GoodQueue(r)
    BY <2>1, <2>2, RequeueAsCancelledGood
  <2> HIDE DEF r
  <2>5. Absorbed(q, r, b, o, Carried(b))
    BY <1>4, <2>3 DEF Absorbed, Live
  <2> QED BY <2>4, <2>5 DEF r
<1>5. CASE c \notin removed_channels /\ o \notin CancelOutcomes /\ o \notin DeadLetterOutcomes
  <2>1. r = Requeue(q, b)
    BY <1>1, <1>5 DEF AbsorbBatch
  <2>2. GoodQueue(r)
    BY <2>1, RequeueGood
  <2>3. CASE DeadLetters(q, b)
    <3>1. GivenUp(q, b, o) = BatchEvents(b)
      BY <1>1, <1>5, <2>3 DEF GivenUp
    <3>2. SameEvents(q, r)
      BY <2>1, <2>3, RequeueMoves
    <3> QED BY <1>2, <2>2, <3>1, <3>2
  <2>4. CASE ~DeadLetters(q, b)
    <3>1. /\ Moved(q, r, c, ToSet(b.events), {})
          /\ ToSet(r.queues[c]) \subseteq ToSet(b.events) \cup ToSet(q.queues[c])
          /\ r.cancelled_batches = q.cancelled_batches
      BY <2>1, <2>4, RequeueMoves
    <3> HIDE DEF r
    <3>2. Absorbed(q, r, b, o, ToSet(b.events))
      BY <1>1, <3>1 DEF Absorbed, Live, Carried
    <3> QED BY <2>2, <3>2 DEF r
  <2> QED BY <2>3, <2>4
<1> QED BY <1>3, <1>4, <1>5

\* What taking a task off the map does to its slot.
LEMMA SlotCleared ==
    ASSUME SlotInv, NEW s \in Slots, task_map' = [task_map EXCEPT ![s] = NoTask]
    PROVE  /\ \A r \in Slots : r # s => SameTask(task_map, task_map', r)
           /\ ChannelOf(task_map', s) = {} /\ BatchOf(task_map', s) = NoBatch
           /\ Steers(task_map', s) = {} /\ Out(task_map', s) = {} /\ OneSteer(task_map', s)
<1>1. /\ \A r \in Slots : r # s => SameTask(task_map, task_map', r)
      /\ task_map'[s] = NoTask
  BY SlotChanges
<1> QED BY <1>1 DEF ChannelOf, BatchOf, Steers, Out, BatchEvents, OneSteer

\* A task is taken off the map and its channel settled: the queue afterwards.
LEMMA Settled ==
    ASSUME HarnessInv, EventInv, NEW s \in Slots, task_map[s] # NoTask, NEW o,
           queue' = Settle(queue, task_map[s].batch, o, task_map[s].channel_id)
    PROVE  LET b == BatchOf(task_map, s) IN
           IF b = NoBatch THEN SameEvents(queue, queue')
           ELSE /\ b.channel_id \in Channels
                /\ \E in : Absorbed(queue, queue', b, o, in)
<1> DEFINE b == BatchOf(task_map, s)
           c == task_map[s].channel_id
<1>1. b = task_map[s].batch /\ b \in FlushBatch \cup {NoBatch} /\ c \in Channels \cup {Heartbeat}
  BY TaskFields DEF BatchOf, HarnessInv
<1>2. GoodQueue(queue)
  BY DEF HarnessInv, RestOK
<1>3. CASE b = NoBatch
  <2>1. queue' = queue \/ (c \in Channels /\ queue' = MarkComplete(queue, c))
    BY <1>1, <1>3 DEF Settle, AbsorbBatch
  <2>2. SameEvents(queue, queue')
    BY <1>2, <2>1, Counting DEF SameEvents
  <2> QED BY <1>3, <2>2
<1>4. CASE b # NoBatch
  <2>1. b \in FlushBatch /\ b.channel_id = c /\ c \in Channels /\ c # Heartbeat
    <3>1. ChannelOf(task_map, s) = {c}
      BY DEF ChannelOf
    <3>2. {c} = {b.channel_id}
      BY <1>4, <3>1 DEF EventInv, Aligned
    <3> QED BY <1>1, <1>4, <3>2, HarnessAssumption DEF FlushBatch
  <2> DEFINE r == AbsorbBatch(queue, b, o)
  <2>2. queue' = MarkComplete(r, c)
    BY <1>1, <2>1 DEF Settle
  <2>3. /\ Tidy(queue, c) /\ TidyBatch(b) /\ Carried(b) \cap HeldFor(queue, c) = {}
    BY <1>4, <2>1 DEF EventInv, Safe, Apart, ChannelOK, SlotOK, TidyOut, Out, BatchEvents, Carried
  <2> HIDE DEF b, c
  <2>4. GoodQueue(r) /\ \E in : Absorbed(queue, r, b, o, in)
    BY <1>2, <2>1, <2>3, BatchAbsorbed
  <2> HIDE DEF r
  <2>5. PICK in : Absorbed(queue, r, b, o, in)
    BY <2>4
  <2>6. SameEvents(r, queue')
    BY <2>1, <2>2, <2>4, Counting
  <2>7. Moved(queue, queue', c, in, {})
    BY <2>1, <2>5, <2>6, MovedSame DEF Absorbed
  <2>8. Absorbed(queue, queue', b, o, in)
    BY <2>1, <2>5, <2>6, <2>7 DEF Absorbed, SameEvents, Live
  <2> QED BY <1>4, <2>1, <2>8 DEF b
<1> QED BY <1>3, <1>4

\* A step that leaves every event where it is.
LEMMA EventsStay ==
    ASSUME EventInv, Aligned(task_map'),
           \A x \in Slots : BatchOf(task_map', x) = BatchOf(task_map, x),
           SameEvents(queue, queue'), arrived' = arrived,
           done \subseteq done', interrupted \subseteq interrupted'
    PROVE  EventInv'
<1>1. Safe(queue, task_map, arrived, done, interrupted)
  BY DEF EventInv
<1>2. Safe(queue', task_map', arrived, done', interrupted')
  BY <1>1, Unmoved
<1> QED BY <1>2 DEF EventInv

\* Its events are back in the queue, given up, or came from a cancelled turn.
LEMMA SettleEvents ==
    ASSUME HarnessInv, EventInv, NEW s \in Slots, task_map[s] # NoTask, NEW o,
           task_map' = [task_map EXCEPT ![s] = NoTask],
           queue' = Settle(queue, task_map[s].batch, o, task_map[s].channel_id),
           done' = done \cup GivenUp(queue, task_map[s].batch, o),
           interrupted' = IF o \in CancelOutcomes
                          THEN interrupted \cup BatchEvents(task_map[s].batch)
                          ELSE interrupted,
           arrived' = arrived
    PROVE  EventInv'
<1> DEFINE b == BatchOf(task_map, s)
           c == b.channel_id
<1>1. /\ \A r \in Slots : r # s => SameTask(task_map, task_map', r)
      /\ BatchOf(task_map', s) = NoBatch /\ Out(task_map', s) = {}
  BY SlotCleared DEF HarnessInv
<1>2. Aligned(task_map')
  BY <1>1 DEF EventInv, Aligned, SameTask
<1>3. b = task_map[s].batch
  BY DEF BatchOf
<1>4. Safe(queue, task_map, arrived, done, interrupted)
  BY DEF EventInv
<1>5. CASE b = NoBatch
  <2>1. \A x \in Slots : BatchOf(task_map', x) = BatchOf(task_map, x)
    BY <1>1, <1>5 DEF SameTask
  <2>2. SameEvents(queue, queue')
    BY <1>5, Settled
  <2>3. done \subseteq done' /\ interrupted \subseteq interrupted'
    OBVIOUS
  <2> QED BY <1>2, <2>1, <2>2, <2>3, EventsStay
<1>6. CASE b # NoBatch
  <2>1. c \in Channels /\ \E in : Absorbed(queue, queue', b, o, in)
    BY <1>6, Settled
  <2>2. PICK in : Absorbed(queue, queue', b, o, in)
    BY <2>1
  <2>3. Carried(b) = Out(task_map, s) /\ Carried(b) = BatchEvents(b)
    BY <1>6 DEF Out, Carried, BatchEvents
  <2>4. /\ ToSet(queue.cancelled_batches[c]) \subseteq interrupted
        /\ Merged(b) \subseteq interrupted
    BY <1>4, <2>1 DEF Safe, ChannelOK, SlotOK
  <2>5. done' = done \cup GivenUp(queue, b, o)
        /\ interrupted' = IF o \in CancelOutcomes THEN interrupted \cup Carried(b) ELSE interrupted
    BY <1>3, <2>3
  <2>6. TidyOut(NoBatch) /\ Merged(NoBatch) = {}
    BY DEF TidyOut, Merged
  <2> HIDE DEF b, c
  <2>7. /\ Tidy(queue', c) /\ \A d \in Channels : d # c => SameHeld(queue, queue', d)
        /\ HeldFor(queue', c) \subseteq HeldFor(queue, c) \cup in
        /\ HeldFor(queue, c) \cup in \subseteq HeldFor(queue', c) \cup queue'.dropped
        /\ queue.dropped \subseteq queue'.dropped
        /\ in \subseteq Carried(b) /\ Carried(b) \subseteq in \cup GivenUp(queue, b, o) \cup Merged(b)
        /\ ToSet(queue'.cancelled_batches[c]) \subseteq
             ToSet(queue.cancelled_batches[c]) \cup (IF o \in CancelOutcomes THEN Carried(b) ELSE {})
    BY <2>2 DEF Absorbed, Moved, c
  <2>8. Swap(queue, queue', c, task_map, task_map', s, arrived, arrived', done', interrupted')
    <3>1. \A x \in Slots : x # s => BatchOf(task_map', x) = BatchOf(task_map, x)
      BY <1>1 DEF SameTask
    <3>2. HeldFor(queue', c) \cap Out(task_map', s) = {}
      BY <1>1
    <3>3. HeldFor(queue', c) \cup Out(task_map', s)
            \subseteq HeldFor(queue, c) \cup Out(task_map, s) \cup (arrived' \ arrived)
      BY <1>1, <2>3, <2>7
    <3>4. HeldFor(queue, c) \cup Out(task_map, s) \cup (arrived' \ arrived)
            \subseteq HeldFor(queue', c) \cup Out(task_map', s) \cup done'
                        \cup queue'.dropped \cup interrupted'
      BY <2>3, <2>4, <2>5, <2>7
    <3>5. ToSet(queue'.cancelled_batches[c]) \cup Merged(BatchOf(task_map', s)) \subseteq interrupted'
      BY <1>1, <2>4, <2>5, <2>6, <2>7
    <3> QED BY <1>1, <2>6, <2>7, <3>1, <3>2, <3>3, <3>4, <3>5 DEF Swap
  <2>9. Safe(queue', task_map', arrived', done', interrupted')
    BY <1>4, <2>1, <2>5, <2>8, Exchange DEF c
  <2> QED BY <1>2, <2>9 DEF EventInv
<1> QED BY <1>5, <1>6

\* handle_prompt_result preserves the invariant.
LEMMA ResultEvents ==
    ASSUME HarnessInv, EventInv, HandlePromptResult
    PROVE  EventInv'
<1> DEFINE s == Head(result_rx)
           o == task_map[s].outcome
<1>1. /\ result_rx # <<>>
      /\ task_map' = [task_map EXCEPT ![s] = NoTask]
      /\ queue' = Settle(queue, task_map[s].batch, o, task_map[s].channel_id)
      /\ done' = done \cup GivenUp(queue, task_map[s].batch, o)
      /\ interrupted' = IF o \in CancelOutcomes
                        THEN interrupted \cup BatchEvents(task_map[s].batch)
                        ELSE interrupted
      /\ arrived' = arrived
  BY DEF HandlePromptResult, input
<1>2. s \in Slots /\ task_map[s] # NoTask
  <2>1. result_rx \in Seq(Slots)
    BY DEF HarnessInv, SlotInv, SlotTypes
  <2>2. s = result_rx[1] /\ s \in Slots /\ 1 \in 1..Len(result_rx)
    BY <1>1, <2>1, HeadTailProperties, LenProperties, EmptySeq
  <2> QED BY <2>2 DEF HarnessInv, SlotInv, TasksAccounted
<1> HIDE DEF s, o
<1> QED BY <1>1, <1>2, SettleEvents

\* So does the recovery of a panicked task, in the select and in the drain.
LEMMA PanicEvents ==
    ASSUME HarnessInv, EventInv, DrainJoinResults \/ \E s \in Slots : HandlePanic(s)
    PROVE  EventInv'
<1>1. CASE \E s \in Slots : RecoverPanickedAgent(s, pc' = "drain" /\ ret' = "maintain")
                            \/ RecoverPanickedAgent(s, pc' = "dispatch" /\ ret' = "maintain")
  <2> DEFINE o == "AgentExited"
  <2>1. PICK s \in Slots :
          /\ task_map[s] # NoTask
          /\ queue' = Settle(queue, task_map[s].batch, o, task_map[s].channel_id)
          /\ done' = done \cup GivenUp(queue, task_map[s].batch, o)
          /\ task_map' = [task_map EXCEPT ![s] = NoTask]
          /\ UNCHANGED <<arrived, interrupted>>
    BY <1>1 DEF RecoverPanickedAgent, input
  <2>2. o \notin CancelOutcomes
    BY DEF CancelOutcomes
  <2> HIDE DEF o
  <2> QED BY <2>1, <2>2, SettleEvents
<1>2. CASE UNCHANGED <<queue, task_map, arrived, done, interrupted>>
  <2>1. SameTasks /\ SameEvents(queue, queue')
    BY <1>2 DEF SameTasks, SameEvents
  <2> QED BY <1>2, <2>1, EventsKept
<1>3. CASE \E s \in Slots : HandlePanic(s)
  BY <1>1, <1>3 DEF HandlePanic, Dispatch
<1>4. CASE DrainJoinResults
  BY <1>1, <1>2, <1>4 DEF DrainJoinResults, Claimed, Proceed, pool, input, history
<1> QED BY <1>3, <1>4

\* Whom the new task of a flushed batch finds in its slot: nobody.
LEMMA BatchClaimed ==
    ASSUME HarnessInv, NEW c \in Channels, NEW b \in FlushBatch, agents # {},
           task_map' = [task_map EXCEPT ![TryClaim(c)] = NewTask(c, b)]
    PROVE  \E s \in Slots :
              /\ \A r \in Slots : r # s => SameTask(task_map, task_map', r)
              /\ BatchOf(task_map, s) = NoBatch /\ BatchOf(task_map', s) = b
              /\ ChannelOf(task_map', s) = {c}
              /\ Steers(task_map, s) = {} /\ Steers(task_map', s) = {}
              /\ OneSteer(task_map', s)
<1> DEFINE s == TryClaim(c)
           t == NewTask(c, b)
<1>1. s \in agents /\ s \in Slots
  BY ClaimType DEF HarnessInv, SlotInv, SlotTypes
<1>2. task_map[s] = NoTask
  BY <1>1 DEF HarnessInv, SlotInv, SlotExclusive
<1>3. /\ t \in Task /\ t # NoTask /\ t.channel_id = c /\ t.batch = b
      /\ t.mail = {} /\ t.wire = {}
  BY NewTaskType, AbsenceAssumption DEF NewTask
<1>4. task_map' = [task_map EXCEPT ![s] = t]
  OBVIOUS
<1> HIDE DEF s, t
<1>5. /\ \A r \in Slots : r # s => SameTask(task_map, task_map', r)
      /\ task_map'[s] = t
  BY <1>1, <1>4, SlotChanges DEF HarnessInv
<1> QED BY <1>1, <1>2, <1>3, <1>5 DEF BatchOf, ChannelOf, Steers, OneSteer

\* A flushed batch is back in the queue, except for what was merged into it.
LEMMA Unflushed ==
    ASSUME NEW q, GoodQueue(q), NEW c \in Channels, Tidy(q, c), NEW b \in FlushedBatches(q, c)
    PROVE  LET r == PoolExhausted(AfterFlush(q, c), b) IN
           /\ Moved(q, r, c, {}, Merged(b))
           /\ r.cancelled_batches[c] = <<>>
           /\ ToSet(r.queues[c]) \subseteq Live(q, c)
           /\ Merged(b) \subseteq ToSet(q.cancelled_batches[c])
<1> DEFINE f == AfterFlush(q, c)
           p == RequeuePreserveTimestamps(f, b)
           r == PoolExhausted(f, b)
<1>1. b \in FlushBatch /\ b.channel_id = c /\ GoodQueue(f) /\ b # NoBatch
  BY FlushedBatchesType, AfterFlushGood, AbsenceAssumption
<1>2. /\ Moved(q, f, c, {}, Carried(b)) /\ TidyBatch(b)
      /\ Carried(b) \subseteq Live(q, c)
      /\ Carried(b) \cap HeldFor(f, c) = {}
      /\ ToSet(b.cancelled_events) \subseteq ToSet(q.cancelled_batches[c])
      /\ f.cancelled_batches[c] = <<>>
      /\ ToSet(f.queues[c]) \subseteq ToSet(q.queues[c])
  BY FlushMoves DEF Live
<1> HIDE DEF f
<1>3. /\ Moved(f, p, c, ToSet(b.events), {})
      /\ ToSet(p.queues[c]) \subseteq ToSet(b.events) \cup ToSet(f.queues[c])
      /\ p.cancelled_batches = f.cancelled_batches
  <2>1. Tidy(f, c)
    BY <1>2 DEF Moved
  <2>2. /\ b.events \in Seq(Events) /\ Distinct(b.events)
        /\ ToSet(b.events) \cap HeldFor(f, c) = {} /\ p = PushFront(f, c, b.events)
    BY <1>1, <1>2 DEF FlushBatch, TidyBatch, Carried, RequeuePreserveTimestamps
  <2> HIDE DEF p
  <2> QED BY <1>1, <2>1, <2>2, PushFrontMoves
<1>4. GoodQueue(p) /\ r = MarkComplete(p, c)
  BY <1>1, RequeuePreserveGood DEF PoolExhausted
<1> HIDE DEF p, r
<1>5. SameEvents(p, r)
  BY <1>4, Counting
<1>6. Moved(f, r, c, ToSet(b.events), {})
  BY <1>3, <1>5, MovedSame
<1>7. Merged(b) = ToSet(b.cancelled_events) /\ Carried(b) = ToSet(b.events) \cup Merged(b)
  BY <1>1 DEF Merged, Carried
<1>8. Moved(q, r, c, {}, Merged(b))
  <2>1. Tidy(r, c) /\ q.dropped \subseteq r.dropped
        /\ \A d \in Channels : d # c => SameHeld(q, r, d)
    BY <1>2, <1>6 DEF Moved, SameHeld
  <2>2. HeldFor(r, c) \subseteq HeldFor(q, c)
    BY <1>2, <1>6, <1>7 DEF Moved, HeldFor, Live
  <2>3. HeldFor(q, c) \subseteq HeldFor(r, c) \cup r.dropped \cup Merged(b)
    <3>1. HeldFor(q, c) \subseteq HeldFor(f, c) \cup f.dropped \cup Carried(b)
      BY <1>2 DEF Moved
    <3>2. HeldFor(f, c) \cup ToSet(b.events) \subseteq HeldFor(r, c) \cup r.dropped
          /\ f.dropped \subseteq r.dropped
      BY <1>6 DEF Moved
    <3> QED BY <1>7, <3>1, <3>2
  <2> QED BY <2>1, <2>2, <2>3 DEF Moved
<1>9. r.cancelled_batches[c] = <<>> /\ ToSet(r.queues[c]) \subseteq Live(q, c)
  <2>1. r.cancelled_batches = f.cancelled_batches /\ r.queues = p.queues
    BY <1>3, <1>5 DEF SameEvents
  <2>2. ToSet(b.events) \subseteq Live(q, c) /\ ToSet(q.queues[c]) \subseteq Live(q, c)
    BY <1>2, <1>7 DEF Live
  <2> QED BY <1>2, <1>3, <2>1, <2>2
<1> QED BY <1>2, <1>7, <1>8, <1>9 DEF f, r

\* What one iteration of dispatch_pending does, in the queue after the expiry.
LEMMA Dispatched ==
    ASSUME HarnessInv, DispatchPending, FlushChoices(ExpireInFlight(queue)) # {}
    PROVE  LET q == ExpireInFlight(queue) IN
           \E c \in Channels : \E b \in FlushedBatches(q, c) :
              /\ b \in FlushBatch /\ b.channel_id = c /\ c \notin q.in_flight_channels
              /\ \/ queue' = PoolExhausted(AfterFlush(q, c), b) /\ UNCHANGED task_map
                 \/ /\ queue' = AfterFlush(q, c) /\ agents # {}
                    /\ task_map' = [task_map EXCEPT ![TryClaim(c)] = NewTask(c, b)]
<1> DEFINE q == ExpireInFlight(queue)
<1>1. GoodQueue(q)
  BY ExpireInFlightGood DEF HarnessInv, RestOK
<1>2. PICK c \in FlushChoices(q) : \E b \in FlushedBatches(q, c) :
        \/ queue' = PoolExhausted(AfterFlush(q, c), b) /\ UNCHANGED task_map
        \/ /\ queue' = AfterFlush(q, c) /\ agents # {}
           /\ task_map' = [task_map EXCEPT ![TryClaim(c)] = NewTask(c, b)]
  BY DEF DispatchPending
<1> HIDE DEF q
<1>3. PICK b \in FlushedBatches(q, c) :
        \/ queue' = PoolExhausted(AfterFlush(q, c), b) /\ UNCHANGED task_map
        \/ /\ queue' = AfterFlush(q, c) /\ agents # {}
           /\ task_map' = [task_map EXCEPT ![TryClaim(c)] = NewTask(c, b)]
  BY <1>2
<1>4. c \in Channels /\ c \notin q.in_flight_channels
  BY FlushedIdle
<1>5. b \in FlushBatch /\ b.channel_id = c
  BY <1>1, <1>3, <1>4, FlushedBatchesType
<1> QED BY <1>3, <1>4, <1>5 DEF q

\* dispatch_pending preserves the invariant: what it flushes is out with the new
\* task, or back in the queue.
LEMMA DispatchEvents ==
    ASSUME HarnessInv, EventInv, DispatchPending
    PROVE  EventInv'
<1> DEFINE q == ExpireInFlight(queue)
<1>1. UNCHANGED <<arrived, done, interrupted>>
  BY DEF DispatchPending, input, history
<1>2. GoodQueue(queue) /\ GoodQueue(q)
  BY ExpireInFlightGood DEF HarnessInv, RestOK
<1>3. Safe(q, task_map, arrived, done, interrupted)
  BY <1>2, ExpirySafe DEF EventInv
<1>4. CASE FlushChoices(q) = {}
  <2>1. queue' = q /\ task_map' = task_map
    BY <1>4 DEF DispatchPending
  <2> HIDE DEF q
  <2>2. Aligned(task_map)
    BY DEF EventInv
  <2> QED BY <1>1, <1>3, <2>1, <2>2 DEF EventInv
<1>5. CASE FlushChoices(q) # {}
  <2>1. PICK c \in Channels : \E b \in FlushedBatches(q, c) :
          /\ b \in FlushBatch /\ b.channel_id = c
          /\ \/ queue' = PoolExhausted(AfterFlush(q, c), b) /\ UNCHANGED task_map
             \/ /\ queue' = AfterFlush(q, c) /\ agents # {}
                /\ task_map' = [task_map EXCEPT ![TryClaim(c)] = NewTask(c, b)]
    BY <1>5, Dispatched
  <2>2. PICK b \in FlushedBatches(q, c) :
          /\ b \in FlushBatch /\ b.channel_id = c
          /\ \/ queue' = PoolExhausted(AfterFlush(q, c), b) /\ UNCHANGED task_map
             \/ /\ queue' = AfterFlush(q, c) /\ agents # {}
                /\ task_map' = [task_map EXCEPT ![TryClaim(c)] = NewTask(c, b)]
    BY <2>1
  <2>3. /\ Tidy(q, c) /\ ToSet(q.cancelled_batches[c]) \subseteq interrupted
    BY <1>3 DEF Safe, ChannelOK
  <2> HIDE DEF q
  <2>4. CASE queue' = PoolExhausted(AfterFlush(q, c), b) /\ UNCHANGED task_map
    <3>1. /\ Moved(q, queue', c, {}, Merged(b)) /\ queue'.cancelled_batches[c] = <<>>
          /\ Merged(b) \subseteq interrupted
      BY <1>2, <2>2, <2>3, <2>4, Unflushed
    <3>2. ToSet(queue'.cancelled_batches[c]) = {}
      BY <3>1, Nothing
    <3>3. PICK s \in Slots : TRUE
      BY HarnessAssumption
    <3>4. /\ HeldFor(q, c) \cap Out(task_map, s) = {} /\ Merged(BatchOf(task_map, s)) \subseteq interrupted
          /\ TidyOut(BatchOf(task_map, s))
      BY <1>3 DEF Safe, Apart, SlotOK
    <3>5. Swap(q, queue', c, task_map, task_map', s, arrived, arrived', done', interrupted')
      <4>1. /\ HeldFor(queue', c) \subseteq HeldFor(q, c)
            /\ HeldFor(q, c) \subseteq HeldFor(queue', c) \cup queue'.dropped \cup interrupted
        BY <3>1 DEF Moved
      <4> QED BY <1>1, <2>4, <3>1, <3>2, <3>4, <4>1 DEF Swap, Moved
    <3>6. Safe(queue', task_map', arrived', done', interrupted')
      BY <1>1, <1>3, <3>5, Exchange
    <3>7. Aligned(task_map')
      BY <2>4 DEF EventInv
    <3> QED BY <3>6, <3>7 DEF EventInv
  <2>5. CASE /\ queue' = AfterFlush(q, c) /\ agents # {}
             /\ task_map' = [task_map EXCEPT ![TryClaim(c)] = NewTask(c, b)]
    <3>1. PICK s \in Slots :
            /\ \A r \in Slots : r # s => SameTask(task_map, task_map', r)
            /\ BatchOf(task_map, s) = NoBatch /\ BatchOf(task_map', s) = b
            /\ ChannelOf(task_map', s) = {c}
      BY <2>2, <2>5, BatchClaimed
    <3>2. /\ Moved(q, queue', c, {}, Carried(b)) /\ TidyBatch(b)
          /\ Carried(b) \subseteq HeldFor(q, c)
          /\ Carried(b) \cap HeldFor(queue', c) = {}
          /\ ToSet(b.cancelled_events) \subseteq interrupted
          /\ queue'.cancelled_batches[c] = <<>>
      BY <1>2, <2>2, <2>3, <2>5, FlushMoves DEF HeldFor
    <3>3. b # NoBatch
      BY <2>2, AbsenceAssumption
    <3>4. Out(task_map, s) = {} /\ Out(task_map', s) = Carried(b) /\ TidyOut(b)
          /\ Merged(b) \subseteq interrupted
      BY <3>1, <3>2, <3>3 DEF Out, BatchEvents, Carried, TidyOut, Merged
    <3>5. ToSet(queue'.cancelled_batches[c]) = {}
      BY <3>2, Nothing
    <3>6. Swap(q, queue', c, task_map, task_map', s, arrived, arrived', done', interrupted')
      <4>1. /\ HeldFor(queue', c) \subseteq HeldFor(q, c)
            /\ HeldFor(q, c) \subseteq HeldFor(queue', c) \cup queue'.dropped \cup Carried(b)
        BY <3>2 DEF Moved
      <4>2. \A x \in Slots : x # s => BatchOf(task_map', x) = BatchOf(task_map, x)
        BY <3>1 DEF SameTask
      <4> QED BY <1>1, <3>1, <3>2, <3>4, <3>5, <4>1, <4>2 DEF Swap, Moved
    <3>7. Safe(queue', task_map', arrived', done', interrupted')
      BY <1>1, <1>3, <3>6, Exchange
    <3>8. Aligned(task_map')
      BY <2>2, <3>1 DEF EventInv, Aligned, SameTask
    <3> QED BY <3>7, <3>8 DEF EventInv
  <2> QED BY <2>2, <2>4, <2>5
<1> QED BY <1>4, <1>5

\* The invariant holds initially.
LEMMA EventInit == Init => EventInv
<1> SUFFICES ASSUME Init PROVE EventInv
  OBVIOUS
<1>1. \A s \in Slots : BatchOf(task_map, s) = NoBatch /\ Out(task_map, s) = {}
  BY DEF Init, BatchOf, Out, BatchEvents
<1>2. \A c \in Channels : /\ queue.queues[c] = <<>> /\ queue.withheld_native_steer[c] = <<>>
                          /\ queue.cancelled_batches[c] = <<>>
  BY DEF Init, NewQueue
<1>3. ToSet(<<>>) = {} /\ Distinct(<<>>)
  BY Nothing
<1>4. \A c \in Channels : ChannelOK(queue, c, arrived, interrupted) /\ HeldFor(queue, c) = {}
  BY <1>2, <1>3 DEF ChannelOK, Tidy, Neat, HeldFor
<1>5. \A s \in Slots : SlotOK(BatchOf(task_map, s), arrived, interrupted)
  BY <1>1 DEF SlotOK, TidyOut, BatchEvents, Merged
<1>6. Apart(queue, task_map)
  BY <1>1, <1>4 DEF Apart
<1>7. arrived = {} /\ Aligned(task_map)
  BY <1>1 DEF Init, Aligned
<1> QED BY <1>4, <1>5, <1>6, <1>7 DEF EventInv, Safe

\* Every step preserves it.
LEMMA EventStep == HarnessInv /\ EventInv /\ [Next]_vars => EventInv'
<1> SUFFICES ASSUME HarnessInv, EventInv, [Next]_vars PROVE EventInv'
  OBVIOUS
<1>1. CASE LoopStep
  BY <1>1, MaintainEvents, ClockEvents, DispatchEvents, PanicEvents DEF LoopStep
<1>2. CASE RelayArm
  BY <1>2, RelayEvents, CommandEvents DEF RelayArm
<1>3. CASE TaskArm
  BY <1>3, ResultEvents, PanicEvents, AckEvents DEF TaskArm
<1>4. CASE Tick
  BY <1>4, TickEvents
<1>5. CASE \E s \in Slots : TaskEnds(s) \/ Steering(s)
  BY <1>5, TaskEndEvents, SteeringEvents
<1>6. CASE \/ Clock \/ UNCHANGED vars
           \/ \E s \in Slots, ok \in BOOLEAN : RespawnEnds(s, ok)
  BY <1>6, ClockEvents
<1>7. CASE Exited
  BY <1>6, <1>7 DEF Exited
<1> QED BY <1>1, <1>2, <1>3, <1>4, <1>5, <1>6, <1>7 DEF Next

\* Every event is accounted for, always.
THEOREM EventsAccounted == Spec => []EventInv
BY HarnessInvariant, EventInit, EventStep, PTL DEF Spec

\* Where an event stands with a channel, and with a slot.
ChannelSeats(c, e) == Seats("queued", c, queue.queues[c], e)
                        \cup Seats("withheld", c, queue.withheld_native_steer[c], e)
                        \cup Seats("cancelled", c, queue.cancelled_batches[c], e)
SlotSeats(s, e) ==
    IF BatchOf(task_map, s) = NoBatch THEN {}
    ELSE Seats("batch", s, BatchOf(task_map, s).events, e)
           \cup Seats("merged", s, BatchOf(task_map, s).cancelled_events, e)

\* The members of a sequence have a seat in it, and only one if it repeats nothing.
LEMMA Seated ==
    ASSUME NEW s \in Seq(Events), NEW tag, NEW x, NEW e
    PROVE  /\ Seats(tag, x, s, e) # {} <=> e \in ToSet(s)
           /\ Distinct(s) => \A p, r \in Seats(tag, x, s, e) : p = r
           /\ \A p \in Seats(tag, x, s, e) : p[1] = tag
<1>1. \A y : y \in ToSet(s) <=> \E i \in 1..Len(s) : s[i] = y
  BY ToSetElements
<1>2. \A p : p \in Seats(tag, x, s, e) <=> \E i \in 1..Len(s) : s[i] = e /\ p = <<tag, x, i>>
  BY DEF Seats
<1>3. Seats(tag, x, s, e) # {} <=> e \in ToSet(s)
  BY <1>1, <1>2
<1>4. ASSUME Distinct(s), NEW p \in Seats(tag, x, s, e), NEW r \in Seats(tag, x, s, e) PROVE p = r
  BY <1>2, <1>4 DEF Distinct
<1> QED BY <1>2, <1>3, <1>4

\* Every place is a seat.
LEMMA PlacesAreSeats ==
    ASSUME NEW e
    PROVE  Places(e) = (UNION {ChannelSeats(c, e) : c \in Channels})
                          \cup UNION {SlotSeats(s, e) : s \in Slots}
<1> DEFINE T == {s \in Claimed : task_map[s].batch # NoBatch}
           A == {Seats("queued", c, queue.queues[c], e) : c \in Channels}
           B == {Seats("withheld", c, queue.withheld_native_steer[c], e) : c \in Channels}
           C == {Seats("cancelled", c, queue.cancelled_batches[c], e) : c \in Channels}
           D == {Seats("batch", s, task_map[s].batch.events, e) : s \in T}
           E == {Seats("merged", s, task_map[s].batch.cancelled_events, e) : s \in T}
<1>1. Places(e) = UNION (A \cup B \cup C \cup D \cup E)
  BY Zenon DEF Places
<1>2. \A s \in Slots : SlotSeats(s, e) =
         IF s \in T THEN Seats("batch", s, task_map[s].batch.events, e)
                         \cup Seats("merged", s, task_map[s].batch.cancelled_events, e)
         ELSE {}
  BY DEF SlotSeats, Claimed, BatchOf
<1>3. T \subseteq Slots
  BY DEF Claimed
<1> HIDE DEF T
<1>4. (UNION A) \cup (UNION B) \cup (UNION C) = UNION {ChannelSeats(c, e) : c \in Channels}
  BY DEF ChannelSeats
<1>5. (UNION D) \cup (UNION E) = UNION {SlotSeats(s, e) : s \in Slots}
  BY <1>2, <1>3
<1> HIDE DEF A, B, C, D, E
<1> QED BY <1>1, <1>4, <1>5

\* Who has a seat holds the event, and has only one.
LEMMA SeatsMeanHeld ==
    ASSUME HarnessInv, EventInv, NEW e
    PROVE  /\ \A c \in Channels : /\ ChannelSeats(c, e) # {} <=> e \in HeldFor(queue, c)
                                  /\ \A p, r \in ChannelSeats(c, e) : p = r
                                  /\ e \notin Live(queue, c) =>
                                       \A p \in ChannelSeats(c, e) : p[1] = "withheld"
           /\ \A s \in Slots : /\ SlotSeats(s, e) # {} <=> e \in Out(task_map, s)
                               /\ \A p, r \in SlotSeats(s, e) : p = r
<1>1. ASSUME NEW c \in Channels
      PROVE  /\ ChannelSeats(c, e) # {} <=> e \in HeldFor(queue, c)
             /\ \A p, r \in ChannelSeats(c, e) : p = r
             /\ e \notin Live(queue, c) => \A p \in ChannelSeats(c, e) : p[1] = "withheld"
  <2> DEFINE u == queue.queues[c]
             w == queue.withheld_native_steer[c]
             k == queue.cancelled_batches[c]
             U == Seats("queued", c, u, e)
             W == Seats("withheld", c, w, e)
             K == Seats("cancelled", c, k, e)
  <2>1. u \in Seq(Events) /\ w \in Seq(Events) /\ k \in Seq(Events)
    BY HeldTypes DEF HarnessInv, RestOK
  <2>2. Neat(u, w, k)
    BY DEF EventInv, Safe, ChannelOK, Tidy
  <2>3. /\ HeldFor(queue, c) = ToSet(u) \cup ToSet(w) \cup ToSet(k)
        /\ Live(queue, c) = ToSet(u) \cup ToSet(k)
        /\ ChannelSeats(c, e) = U \cup W \cup K
    BY DEF HeldFor, Live, ChannelSeats
  <2> HIDE DEF u, w, k
  <2>4. /\ U # {} <=> e \in ToSet(u)
        /\ \A p, r \in U : p = r
    BY <2>1, <2>2, Seated DEF Neat
  <2>5. /\ W # {} <=> e \in ToSet(w)
        /\ \A p, r \in W : p = r
        /\ \A p \in W : p[1] = "withheld"
    BY <2>1, <2>2, Seated DEF Neat
  <2>6. /\ K # {} <=> e \in ToSet(k)
        /\ \A p, r \in K : p = r
    BY <2>1, <2>2, Seated DEF Neat
  <2> HIDE DEF U, W, K
  <2> QED BY <2>2, <2>3, <2>4, <2>5, <2>6 DEF Neat
<1>2. ASSUME NEW s \in Slots
      PROVE  /\ SlotSeats(s, e) # {} <=> e \in Out(task_map, s)
             /\ \A p, r \in SlotSeats(s, e) : p = r
  <2> DEFINE b == BatchOf(task_map, s)
  <2>1. CASE b = NoBatch
    BY <2>1 DEF SlotSeats, Out, BatchEvents
  <2>2. CASE b # NoBatch
    <3> DEFINE u == b.events
               k == b.cancelled_events
               U == Seats("batch", s, u, e)
               K == Seats("merged", s, k, e)
    <3>1. u \in Seq(Events) /\ k \in Seq(Events)
      <4>1. b \in FlushBatch
        BY <2>2, TaskFields DEF BatchOf, HarnessInv
      <4> QED BY <4>1 DEF FlushBatch
    <3>2. Distinct(u) /\ Distinct(k) /\ ToSet(u) \cap ToSet(k) = {}
      BY <2>2 DEF EventInv, Safe, SlotOK, TidyOut, TidyBatch
    <3>3. Out(task_map, s) = ToSet(u) \cup ToSet(k) /\ SlotSeats(s, e) = U \cup K
      BY <2>2 DEF Out, BatchEvents, SlotSeats
    <3> HIDE DEF u, k
    <3>4. /\ U # {} <=> e \in ToSet(u)
          /\ \A p, r \in U : p = r
      BY <3>1, <3>2, Seated
    <3>5. /\ K # {} <=> e \in ToSet(k)
          /\ \A p, r \in K : p = r
      BY <3>1, <3>2, Seated
    <3> HIDE DEF U, K
    <3> QED BY <3>2, <3>3, <3>4, <3>5
  <2> QED BY <2>1, <2>2
<1> QED BY <1>1, <1>2

\* The invariant leaves no event two places.
LEMMA OnePlace ==
    ASSUME HarnessInv, EventInv, NEW e \in Events
    PROVE  Cardinality(Places(e)) <= 1
<1>1. Apart(queue, task_map)
  BY DEF EventInv, Safe
<1>2. ASSUME NEW p \in Places(e), NEW r \in Places(e) PROVE p = r
  <2>1. /\ \A c, d \in Channels : ChannelSeats(c, e) # {} /\ ChannelSeats(d, e) # {} => c = d
        /\ \A s, x \in Slots : SlotSeats(s, e) # {} /\ SlotSeats(x, e) # {} => s = x
        /\ \A c \in Channels, s \in Slots : ChannelSeats(c, e) = {} \/ SlotSeats(s, e) = {}
    BY <1>1, SeatsMeanHeld DEF Apart
  <2>2. \A x \in Places(e) : \/ \E c \in Channels : x \in ChannelSeats(c, e)
                             \/ \E s \in Slots : x \in SlotSeats(s, e)
    BY PlacesAreSeats
  <2>3. CASE \E c \in Channels : p \in ChannelSeats(c, e)
    <3>1. PICK c \in Channels : p \in ChannelSeats(c, e)
      BY <2>3
    <3>2. r \in ChannelSeats(c, e)
      BY <2>1, <2>2, <3>1
    <3> QED BY <3>1, <3>2, SeatsMeanHeld
  <2>4. CASE \E s \in Slots : p \in SlotSeats(s, e)
    <3>1. PICK s \in Slots : p \in SlotSeats(s, e)
      BY <2>4
    <3>2. r \in SlotSeats(s, e)
      BY <2>1, <2>2, <3>1
    <3> QED BY <3>1, <3>2, SeatsMeanHeld
  <2> QED BY <2>2, <2>3, <2>4
<1>3. CASE Places(e) = {}
  BY <1>3, FS_EmptySet
<1>4. CASE Places(e) # {}
  <2>1. PICK p : p \in Places(e)
    BY <1>4
  <2>2. Places(e) = {p}
    BY <1>2, <2>1
  <2> QED BY <2>2, FS_Singleton
<1> QED BY <1>3, <1>4

\* EventInOnePlace, for every number of channels, slots and events and with the
\* backstop: no interleaving of retries, cancellations, steers, panics, removals
\* and expiries in the harness puts one event in two queues, in two batches, or in
\* a queue and a batch.
THEOREM NeverTwice == Spec => []EventInOnePlace
<1>1. HarnessInv /\ EventInv => EventInOnePlace
  BY OnePlace DEF EventInOnePlace
<1> QED BY <1>1, HarnessInvariant, EventsAccounted, PTL

\* UninterruptedNotLost, likewise: an event that was accepted and whose turn was
\* never cancelled is done, shed with a warning, or still held.
THEOREM NothingLost == Spec => []UninterruptedNotLost
<1>1. HarnessInv /\ EventInv => UninterruptedNotLost
  <2> SUFFICES ASSUME HarnessInv, EventInv, NEW e \in arrived \ interrupted
               PROVE  e \in done \cup queue.dropped \/ Places(e) # {}
    BY DEF UninterruptedNotLost
  <2>1. e \in done \cup queue.dropped \/ Somewhere(queue, task_map, e)
    BY DEF EventInv, Safe
  <2>2. ASSUME Somewhere(queue, task_map, e) PROVE Places(e) # {}
    <3>1. \/ \E c \in Channels : ChannelSeats(c, e) # {}
          \/ \E s \in Slots : SlotSeats(s, e) # {}
      BY <2>2, SeatsMeanHeld DEF Somewhere
    <3> QED BY <3>1, PlacesAreSeats
  <2> QED BY <2>1, <2>2
<1> QED BY <1>1, HarnessInvariant, EventsAccounted, PTL

-----------------------------------------------------------------------------
(* Steers and their answers.                                               *)

\* Event e may still be prompted: a channel may dispatch it, or it is out.
Lively(q, tasks, e) == \/ \E c \in Channels : e \in Live(q, c)
                       \/ \E s \in Slots : e \in Out(tasks, s)

\* Event e waits in a mailbox or on a wire.
Pending(tasks, e) == \E s \in Slots : e \in Steers(tasks, s)

\* The life of a native steer.  An event waits in one mailbox or on one wire, then
\* its answer is on the way to the loop, and all the while, and for good once the
\* agent has confirmed it, it is not to be prompted; the answer of a confirmed event
\* is a success, so the loop does not release it.
AckInv ==
    /\ acked \subseteq arrived
    /\ \A s \in Slots : Steers(task_map, s) \subseteq arrived /\ OneSteer(task_map, s)
    /\ \A s, r \in Slots : s # r => Steers(task_map, s) \cap Steers(task_map, r) = {}
    /\ \A e : Pending(task_map, e) => e \notin acked
    /\ \A e : Lively(queue, task_map, e) => e \notin acked /\ ~Pending(task_map, e)
    /\ \A a \in steer_ack_rx : /\ a.event \in arrived /\ ~Pending(task_map, a.event)
                               /\ a.event \in acked => a.ack = "Success"

\* Events may come to be prompted that could not before: only those of X.
NewlyLive(q, t, r, u, X) == \A e : Lively(r, u, e) => Lively(q, t, e) \/ e \in X

\* Nothing new may be prompted where the sequences and the batches are the same.
LEMMA NoneNewlyLive ==
    ASSUME NEW q, NEW r, NEW t, NEW u, SameEvents(q, r),
           \A s \in Slots : BatchOf(u, s) = BatchOf(t, s)
    PROVE  NewlyLive(q, t, r, u, {})
BY DEF SameEvents, NewlyLive, Lively, Live, Out

\* One channel and one slot change.
LEMMA SomeNewlyLive ==
    ASSUME NEW q, NEW r, NEW c \in Channels, NEW t, NEW u, NEW s \in Slots, NEW X,
           \A d \in Channels : d # c => SameHeld(q, r, d),
           \A x \in Slots : x # s => BatchOf(u, x) = BatchOf(t, x),
           Live(r, c) \cup Out(u, s) \subseteq Live(q, c) \cup Out(t, s) \cup X
    PROVE  NewlyLive(q, t, r, u, X)
<1>1. \A d \in Channels : d # c => Live(r, d) = Live(q, d)
  BY DEF SameHeld, Live
<1>2. \A x \in Slots : x # s => Out(u, x) = Out(t, x)
  BY DEF Out
<1> QED BY <1>1, <1>2 DEF NewlyLive, Lively

\* One channel changes.
LEMMA ChannelNewlyLive ==
    ASSUME NEW q, NEW r, NEW c \in Channels, NEW t, NEW u, NEW X,
           \A d \in Channels : d # c => SameHeld(q, r, d),
           \A x \in Slots : BatchOf(u, x) = BatchOf(t, x),
           Live(r, c) \subseteq Live(q, c) \cup X
    PROVE  NewlyLive(q, t, r, u, X)
<1>1. PICK s \in Slots : TRUE
  BY HarnessAssumption
<1>2. Out(u, s) = Out(t, s)
  BY DEF Out
<1> QED BY <1>2, SomeNewlyLive

\* A step that posts no steer and answers none, and lets none be prompted but X.
Calm(X) ==
    /\ \A s \in Slots : Steers(task_map', s) \subseteq Steers(task_map, s)
    /\ \A s \in Slots : OneSteer(task_map', s)
    /\ steer_ack_rx' \subseteq steer_ack_rx /\ acked' = acked /\ arrived \subseteq arrived'
    /\ NewlyLive(queue, task_map, queue', task_map', X)
    /\ \A e \in X : e \notin acked /\ ~Pending(task_map', e)

\* Such a step preserves the invariant.
LEMMA CalmKeeps ==
    ASSUME AckInv, NEW X, Calm(X)
    PROVE  AckInv'
<1>0. /\ \A s \in Slots : /\ Steers(task_map', s) \subseteq Steers(task_map, s)
                          /\ OneSteer(task_map', s)
      /\ steer_ack_rx' \subseteq steer_ack_rx /\ acked' = acked /\ arrived \subseteq arrived'
      /\ NewlyLive(queue, task_map, queue', task_map', X)
      /\ \A e \in X : e \notin acked /\ ~Pending(task_map', e)
  BY DEF Calm
<1>1. \A e : Pending(task_map', e) => Pending(task_map, e)
  BY <1>0 DEF Pending
<1>2. \A s, r \in Slots : s # r => Steers(task_map', s) \cap Steers(task_map', r) = {}
  BY <1>0 DEF AckInv
<1>3. \A e : Lively(queue', task_map', e) => e \notin acked' /\ ~Pending(task_map', e)
  BY <1>0, <1>1 DEF AckInv, NewlyLive
<1>4. \A a \in steer_ack_rx' : /\ a.event \in arrived' /\ ~Pending(task_map', a.event)
                               /\ a.event \in acked' => a.ack = "Success"
  BY <1>0, <1>1 DEF AckInv
<1>5. \A s \in Slots : Steers(task_map', s) \subseteq arrived' /\ OneSteer(task_map', s)
  BY <1>0 DEF AckInv
<1>6. acked' \subseteq arrived' /\ \A e : Pending(task_map', e) => e \notin acked'
  BY <1>0, <1>1 DEF AckInv
<1> QED BY <1>2, <1>3, <1>4, <1>5, <1>6 DEF AckInv

\* A step that leaves the steers and only moves events the harness may prompt.
LEMMA QuietKeeps ==
    ASSUME AckInv, \A s \in Slots : SameTask(task_map, task_map', s),
           steer_ack_rx' \subseteq steer_ack_rx, acked' = acked, arrived \subseteq arrived',
           NewlyLive(queue, task_map, queue', task_map', {})
    PROVE  AckInv'
<1>1. \A s \in Slots : OneSteer(task_map, s)
  BY DEF AckInv
<1>2. \A s \in Slots : Steers(task_map', s) \subseteq Steers(task_map, s)
  BY DEF SameTask
<1>3. \A s \in Slots : OneSteer(task_map', s)
  BY <1>1 DEF SameTask
<1>4. Calm({})
  BY <1>2, <1>3 DEF Calm
<1> QED BY <1>4, CalmKeeps

\* Without the backstop no deadline has passed, and nothing expires.
LEMMA NoExpiry ==
    ASSUME ~BackstopFires, HarnessInv, TurnInv
    PROVE  /\ SameEvents(queue, ExpireInFlight(queue))
           /\ SameEvents(queue, ExpireInFlight(CompactExpiredState(queue)))
<1> DEFINE q == CompactExpiredState(queue)
<1>1. GoodQueue(queue) /\ GoodQueue(q)
  BY CompactExpiredStateGood DEF HarnessInv, RestOK
<1>2. \A c \in Channels : queue.in_flight_deadlines[c] # "past"
  BY DEF TurnInv, MarksMatched
<1>3. SameEvents(queue, q) /\ q.in_flight_deadlines = queue.in_flight_deadlines
  BY <1>1 DEF CompactExpiredState, SameEvents, GoodQueue, QueueState
<1> HIDE DEF q
<1>4. SameEvents(q, ExpireInFlight(q))
  BY <1>1, <1>2, <1>3, ExpireIdle
<1>5. SameEvents(queue, ExpireInFlight(queue))
  BY <1>1, <1>2, ExpireIdle
<1> QED BY <1>3, <1>4, <1>5 DEF SameEvents, q

\* A step that moves no event and leaves the tasks' steers.
LEMMA StillKeeps ==
    ASSUME AckInv, \A s \in Slots : SameTask(task_map, task_map', s),
           SameEvents(queue, queue'),
           steer_ack_rx' \subseteq steer_ack_rx, acked' = acked, arrived \subseteq arrived'
    PROVE  AckInv'
<1>1. \A s \in Slots : BatchOf(task_map', s) = BatchOf(task_map, s)
  BY DEF SameTask
<1>2. NewlyLive(queue, task_map, queue', task_map', {})
  BY <1>1, NoneNewlyLive
<1> QED BY <1>2, QuietKeeps

\* Maintenance, respawns, the clock and a stutter preserve the invariant.
LEMMA ClockAcks ==
    ASSUME ~BackstopFires, HarnessInv, TurnInv, AckInv,
           \/ Maintain \/ Clock \/ CollectRespawns \/ UNCHANGED vars
           \/ \E s \in Slots, ok \in BOOLEAN : RespawnEnds(s, ok)
    PROVE  AckInv'
<1>1. UNCHANGED <<task_map, arrived, acked, steer_ack_rx>>
  BY DEF Maintain, Clock, ClockThrottle, ClockBackstop, ClockCooldown, ClockMaintenance,
         CollectRespawns, RespawnEnds, vars, pool, input, history
<1>2. \/ queue' = queue
      \/ queue' = ExpireInFlight(CompactExpiredState(queue))
      \/ \E c \in Channels : \/ queue' = ThrottleElapses(queue, c)
                             \/ queue' = DeadlineElapses(queue, c)
  BY DEF Maintain, Clock, ClockThrottle, ClockBackstop, ClockCooldown, ClockMaintenance,
         CollectRespawns, RespawnEnds, vars
<1>3. SameEvents(queue, queue')
  BY <1>2, NoExpiry, Counting DEF SameEvents, HarnessInv, RestOK
<1>4. \A s \in Slots : SameTask(task_map, task_map', s)
  BY <1>1 DEF SameTask
<1> QED BY <1>1, <1>3, <1>4, StillKeeps

\* So do the intervals.
LEMMA TickAcks ==
    ASSUME ~BackstopFires, HarnessInv, TurnInv, AckInv, Tick
    PROVE  AckInv'
<1>0. /\ UNCHANGED <<arrived, acked, steer_ack_rx>>
      /\ queue' = queue \/ queue' = ExpireInFlight(queue)
  BY DEF Tick, OtherTick, HeartbeatTick, input, history
<1>1. SameEvents(queue, queue')
  BY <1>0, NoExpiry DEF SameEvents
<1>2. CASE UNCHANGED task_map
  <2>1. \A s \in Slots : SameTask(task_map, task_map', s)
    BY <1>2 DEF SameTask
  <2> QED BY <1>0, <1>1, <2>1, StillKeeps
<1>3. CASE ~UNCHANGED task_map
  <2> DEFINE s == Min(agents)
             t == NewTask(Heartbeat, NoBatch)
  <2>1. agents # {} /\ task_map' = [task_map EXCEPT ![s] = t]
    BY <1>3 DEF Tick, OtherTick, HeartbeatTick, pool
  <2>2. s \in agents /\ s \in Slots
    BY <2>1, ClaimType DEF HarnessInv, SlotInv, SlotTypes
  <2>3. task_map[s] = NoTask
    BY <2>2 DEF HarnessInv, SlotInv, SlotExclusive
  <2>4. t.batch = NoBatch /\ t.mail = {} /\ t.wire = {}
    BY DEF NewTask
  <2> HIDE DEF s, t
  <2>5. /\ \A r \in Slots : r # s => SameTask(task_map, task_map', r)
        /\ task_map'[s] = t
    BY <2>1, <2>2, SlotChanges DEF HarnessInv
  <2>6. /\ BatchOf(task_map', s) = NoBatch /\ BatchOf(task_map, s) = NoBatch
        /\ Steers(task_map', s) = {} /\ OneSteer(task_map', s)
    BY <2>3, <2>4, <2>5 DEF BatchOf, Steers, OneSteer
  <2>7. \A r \in Slots : BatchOf(task_map', r) = BatchOf(task_map, r)
    BY <2>5, <2>6 DEF SameTask
  <2>8. NewlyLive(queue, task_map, queue', task_map', {})
    BY <1>1, <2>7, NoneNewlyLive
  <2>9. \A r \in Slots : OneSteer(task_map, r)
    BY DEF AckInv
  <2>10. Calm({})
    <3>1. \A r \in Slots : Steers(task_map', r) \subseteq Steers(task_map, r)
      BY <2>5, <2>6 DEF SameTask
    <3>2. \A r \in Slots : OneSteer(task_map', r)
      BY <2>5, <2>6, <2>9 DEF SameTask
    <3> QED BY <1>0, <2>8, <3>1, <3>2 DEF Calm
  <2> QED BY <2>10, CalmKeeps
<1> QED BY <1>2, <1>3

\* So does dispatch_pending: it only dispatches what might be dispatched.
LEMMA DispatchAcks ==
    ASSUME ~BackstopFires, HarnessInv, TurnInv, EventInv, AckInv, DispatchPending
    PROVE  AckInv'
<1> DEFINE q == ExpireInFlight(queue)
<1>1. UNCHANGED <<arrived, acked, steer_ack_rx>>
  BY DEF DispatchPending, input, history
<1>2. GoodQueue(queue) /\ GoodQueue(q) /\ SameEvents(queue, q)
  BY ExpireInFlightGood, NoExpiry DEF HarnessInv, RestOK
<1>3. CASE FlushChoices(q) = {}
  <2>1. queue' = q /\ task_map' = task_map
    BY <1>3 DEF DispatchPending
  <2>2. \A s \in Slots : SameTask(task_map, task_map', s)
    BY <2>1 DEF SameTask
  <2> HIDE DEF q
  <2> QED BY <1>1, <1>2, <2>1, <2>2, StillKeeps
<1>4. CASE FlushChoices(q) # {}
  <2>1. PICK c \in Channels : \E b \in FlushedBatches(q, c) :
          /\ b \in FlushBatch /\ b.channel_id = c
          /\ \/ queue' = PoolExhausted(AfterFlush(q, c), b) /\ UNCHANGED task_map
             \/ /\ queue' = AfterFlush(q, c) /\ agents # {}
                /\ task_map' = [task_map EXCEPT ![TryClaim(c)] = NewTask(c, b)]
    BY <1>4, Dispatched
  <2>2. PICK b \in FlushedBatches(q, c) :
          /\ b \in FlushBatch /\ b.channel_id = c
          /\ \/ queue' = PoolExhausted(AfterFlush(q, c), b) /\ UNCHANGED task_map
             \/ /\ queue' = AfterFlush(q, c) /\ agents # {}
                /\ task_map' = [task_map EXCEPT ![TryClaim(c)] = NewTask(c, b)]
    BY <2>1
  <2> HIDE DEF q
  <2>3. Tidy(queue, c)
    BY DEF EventInv, Safe, ChannelOK
  <2>4. Tidy(q, c) /\ Live(q, c) = Live(queue, c)
        /\ \A d \in Channels : SameHeld(queue, q, d)
    BY <1>2, <2>3 DEF SameEvents, Tidy, Live, SameHeld
  <2>5. CASE queue' = PoolExhausted(AfterFlush(q, c), b) /\ UNCHANGED task_map
    <3>1. /\ Moved(q, queue', c, {}, Merged(b)) /\ queue'.cancelled_batches[c] = <<>>
          /\ ToSet(queue'.queues[c]) \subseteq Live(q, c)
      BY <1>2, <2>2, <2>4, <2>5, Unflushed
    <3>2. Live(queue', c) \subseteq Live(queue, c) \cup {}
      BY <2>4, <3>1, Nothing DEF Live
    <3>3. \A d \in Channels : d # c => SameHeld(queue, queue', d)
      BY <2>4, <3>1 DEF Moved, SameHeld
    <3>4. \A s \in Slots : SameTask(task_map, task_map', s)
      BY <2>5 DEF SameTask
    <3>5. \A s \in Slots : BatchOf(task_map', s) = BatchOf(task_map, s)
      BY <2>5
    <3>6. NewlyLive(queue, task_map, queue', task_map', {})
      BY <3>2, <3>3, <3>5, ChannelNewlyLive
    <3> QED BY <1>1, <3>4, <3>6, QuietKeeps
  <2>6. CASE /\ queue' = AfterFlush(q, c) /\ agents # {}
             /\ task_map' = [task_map EXCEPT ![TryClaim(c)] = NewTask(c, b)]
    <3>1. PICK s \in Slots :
            /\ \A r \in Slots : r # s => SameTask(task_map, task_map', r)
            /\ BatchOf(task_map, s) = NoBatch /\ BatchOf(task_map', s) = b
            /\ Steers(task_map, s) = {} /\ Steers(task_map', s) = {}
            /\ OneSteer(task_map', s)
      BY <2>2, <2>6, BatchClaimed
    <3>2. /\ Moved(q, queue', c, {}, Carried(b))
          /\ Carried(b) \subseteq Live(q, c)
          /\ queue'.cancelled_batches[c] = <<>>
          /\ ToSet(queue'.queues[c]) \subseteq ToSet(q.queues[c])
      BY <1>2, <2>2, <2>4, <2>6, FlushMoves DEF Live
    <3>3. Out(task_map', s) \subseteq Carried(b)
      BY <3>1 DEF Out, BatchEvents, Carried
    <3>4. Live(queue', c) \cup Out(task_map', s)
             \subseteq Live(queue, c) \cup Out(task_map, s) \cup {}
      BY <2>4, <3>2, <3>3, Nothing DEF Live
    <3>5. \A d \in Channels : d # c => SameHeld(queue, queue', d)
      BY <2>4, <3>2 DEF Moved, SameHeld
    <3>6. \A r \in Slots : r # s => BatchOf(task_map', r) = BatchOf(task_map, r)
      BY <3>1 DEF SameTask
    <3>7. NewlyLive(queue, task_map, queue', task_map', {})
      BY <3>4, <3>5, <3>6, SomeNewlyLive
    <3>8. \A r \in Slots : OneSteer(task_map, r)
      BY DEF AckInv
    <3>9. \A r \in Slots : Steers(task_map', r) \subseteq Steers(task_map, r)
      BY <3>1 DEF SameTask
    <3>10. \A r \in Slots : OneSteer(task_map', r)
      BY <3>1, <3>8 DEF SameTask
    <3>11. Calm({})
      BY <1>1, <3>7, <3>9, <3>10 DEF Calm
    <3> QED BY <3>11, CalmKeeps
  <2> QED BY <2>2, <2>5, <2>6
<1> QED BY <1>3, <1>4

\* A task is taken off the map: what its batch may be prompted again is at most
\* what it carried.
LEMMA SettleAcks ==
    ASSUME HarnessInv, EventInv, AckInv, NEW s \in Slots, task_map[s] # NoTask, NEW o,
           task_map' = [task_map EXCEPT ![s] = NoTask],
           queue' = Settle(queue, task_map[s].batch, o, task_map[s].channel_id),
           UNCHANGED <<arrived, acked, steer_ack_rx>>
    PROVE  AckInv'
<1> DEFINE b == BatchOf(task_map, s)
           c == b.channel_id
<1>1. /\ \A r \in Slots : r # s => SameTask(task_map, task_map', r)
      /\ BatchOf(task_map', s) = NoBatch /\ Out(task_map', s) = {}
      /\ Steers(task_map', s) = {} /\ OneSteer(task_map', s)
  BY SlotCleared DEF HarnessInv
<1>2. NewlyLive(queue, task_map, queue', task_map', {})
  <2>0. \A x \in Slots : x # s => BatchOf(task_map', x) = BatchOf(task_map, x)
    BY <1>1 DEF SameTask
  <2>1. CASE b = NoBatch
    <3>1. \A x \in Slots : BatchOf(task_map', x) = BatchOf(task_map, x)
      BY <1>1, <2>0, <2>1
    <3>2. SameEvents(queue, queue')
      BY <2>1, Settled
    <3> QED BY <3>1, <3>2, NoneNewlyLive
  <2>2. CASE b # NoBatch
    <3>1. c \in Channels /\ \E in : Absorbed(queue, queue', b, o, in)
      BY <2>2, Settled
    <3>2. PICK in : Absorbed(queue, queue', b, o, in)
      BY <3>1
    <3>3. Carried(b) = Out(task_map, s)
      BY <2>2 DEF Out, Carried, BatchEvents
    <3>4. /\ Live(queue', c) \subseteq Live(queue, c) \cup Carried(b)
          /\ \A d \in Channels : d # c => SameHeld(queue, queue', d)
      BY <3>2 DEF Absorbed, Moved
    <3> HIDE DEF b, c
    <3>5. Live(queue', c) \cup Out(task_map', s)
            \subseteq Live(queue, c) \cup Out(task_map, s) \cup {}
      BY <1>1, <3>3, <3>4
    <3> QED BY <2>0, <3>1, <3>4, <3>5, SomeNewlyLive
  <2> QED BY <2>1, <2>2
<1>3. \A r \in Slots : OneSteer(task_map, r)
  BY DEF AckInv
<1>4. \A r \in Slots : Steers(task_map', r) \subseteq Steers(task_map, r)
  BY <1>1 DEF SameTask
<1>5. \A r \in Slots : OneSteer(task_map', r)
  BY <1>1, <1>3 DEF SameTask
<1>6. Calm({})
  BY <1>2, <1>4, <1>5 DEF Calm
<1> QED BY <1>6, CalmKeeps

\* handle_prompt_result preserves the invariant.
LEMMA ResultAcks ==
    ASSUME HarnessInv, EventInv, AckInv, HandlePromptResult
    PROVE  AckInv'
<1> DEFINE s == Head(result_rx)
           o == task_map[s].outcome
<1>1. /\ result_rx # <<>>
      /\ task_map' = [task_map EXCEPT ![s] = NoTask]
      /\ queue' = Settle(queue, task_map[s].batch, o, task_map[s].channel_id)
      /\ UNCHANGED <<arrived, acked, steer_ack_rx>>
  BY DEF HandlePromptResult, input
<1>2. s \in Slots /\ task_map[s] # NoTask
  <2>1. result_rx \in Seq(Slots)
    BY DEF HarnessInv, SlotInv, SlotTypes
  <2>2. s = result_rx[1] /\ s \in Slots /\ 1 \in 1..Len(result_rx)
    BY <1>1, <2>1, HeadTailProperties, LenProperties, EmptySeq
  <2> QED BY <2>2 DEF HarnessInv, SlotInv, TasksAccounted
<1> HIDE DEF s, o
<1> QED BY <1>1, <1>2, SettleAcks

\* So does the recovery of a panicked task.
LEMMA PanicAcks ==
    ASSUME HarnessInv, EventInv, AckInv, DrainJoinResults \/ \E s \in Slots : HandlePanic(s)
    PROVE  AckInv'
<1>1. CASE \E s \in Slots : RecoverPanickedAgent(s, pc' = "drain" /\ ret' = "maintain")
                            \/ RecoverPanickedAgent(s, pc' = "dispatch" /\ ret' = "maintain")
  <2> DEFINE o == "AgentExited"
  <2>1. PICK s \in Slots :
          /\ task_map[s] # NoTask
          /\ queue' = Settle(queue, task_map[s].batch, o, task_map[s].channel_id)
          /\ task_map' = [task_map EXCEPT ![s] = NoTask]
          /\ UNCHANGED <<arrived, acked, steer_ack_rx>>
    BY <1>1 DEF RecoverPanickedAgent, input
  <2> HIDE DEF o
  <2> QED BY <2>1, SettleAcks
<1>2. CASE UNCHANGED <<queue, task_map, arrived, acked, steer_ack_rx>>
  <2>1. SameEvents(queue, queue') /\ \A s \in Slots : SameTask(task_map, task_map', s)
    BY <1>2 DEF SameTask, SameEvents
  <2> QED BY <1>2, <2>1, StillKeeps
<1>3. CASE \E s \in Slots : HandlePanic(s)
  BY <1>1, <1>3 DEF HandlePanic, Dispatch
<1>4. CASE DrainJoinResults
  BY <1>1, <1>2, <1>4 DEF DrainJoinResults, Claimed, Proceed, pool, input, history
<1> QED BY <1>3, <1>4

\* So do owner commands and membership changes.
LEMMA CommandAcks ==
    ASSUME HarnessInv, EventInv, AckInv, NEW c \in Channels,
           \/ OwnerCommand(c, "Cancel") \/ OwnerCommand(c, "Rotate") \/ SwitchModel(c)
           \/ MemberRemoved(c) \/ MemberAdded(c)
    PROVE  AckInv'
<1>1. \A s \in Slots : SameTask(task_map, task_map', s)
  <2>1. \/ UNCHANGED task_map
        \/ \E signal \in ControlSignal : SignalInFlightTask(c, signal)
    BY DEF OwnerCommand, SwitchModel, MemberRemoved, MemberAdded, pool, ControlSignal
  <2> QED BY <2>1, SignalKeeps DEF HarnessInv, SameTask
<1>2. UNCHANGED <<arrived, acked, steer_ack_rx>>
  BY DEF OwnerCommand, SwitchModel, MemberRemoved, MemberAdded, history
<1>3. CASE MemberRemoved(c)
  <2>1. queue' = DrainChannel(queue, c)
    BY <1>3 DEF MemberRemoved
  <2>2. GoodQueue(queue) /\ Tidy(queue, c)
    BY DEF HarnessInv, RestOK, EventInv, Safe, ChannelOK
  <2>3. /\ Moved(queue, queue', c, {}, HeldFor(queue, c))
        /\ queue'.queues[c] = <<>> /\ queue'.cancelled_batches[c] = <<>>
    BY <2>1, <2>2, DrainMoves
  <2>4. Live(queue', c) \subseteq Live(queue, c) \cup {}
    BY <2>3, Nothing DEF Live
  <2>5. \A s \in Slots : BatchOf(task_map', s) = BatchOf(task_map, s)
    BY <1>1 DEF SameTask
  <2>6. \A d \in Channels : d # c => SameHeld(queue, queue', d)
    BY <2>3 DEF Moved
  <2>7. NewlyLive(queue, task_map, queue', task_map', {})
    BY <2>4, <2>5, <2>6, ChannelNewlyLive
  <2> QED BY <1>1, <1>2, <2>7, QuietKeeps
<1>4. CASE ~MemberRemoved(c)
  <2>1. queue' = queue
    BY <1>4 DEF OwnerCommand, SwitchModel, MemberAdded, history
  <2>2. SameEvents(queue, queue')
    BY <2>1 DEF SameEvents
  <2> QED BY <1>1, <1>2, <2>2, StillKeeps
<1> QED BY <1>3, <1>4

\* The answer of a steer: a success takes the event away, any other releases it,
\* and then it was not confirmed.
LEMMA HandledAcks ==
    ASSUME HarnessInv, EventInv, AckInv, NEW a \in steer_ack_rx, HandleSteerAck(a)
    PROVE  AckInv'
<1>1. /\ a.channel_id \in Channels /\ a.event \in Events
      /\ a.ack \in {"Success", "NotLanded", "Neutral"}
  BY DEF HarnessInv, RestOK, SteerAck
<1> DEFINE c == a.channel_id
           e == a.event
           x == ExtendInFlightDeadline(queue, c)
<1>2. /\ \/ queue' = RemoveEvent(x, c, e)
         \/ queue' = ReleaseNativeSteer(queue, c, e) /\ a.ack # "Success"
      /\ UNCHANGED task_map \/ SignalInFlightTask(c, "Steer")
      /\ steer_ack_rx' \subseteq steer_ack_rx
      /\ UNCHANGED <<arrived, acked>>
  BY <1>1 DEF HandleSteerAck, input
<1>3. \A s \in Slots : SameTask(task_map, task_map', s)
  BY <1>2, SignalKeeps DEF HarnessInv, SameTask, ControlSignal
<1>4. \A s \in Slots : BatchOf(task_map', s) = BatchOf(task_map, s)
  BY <1>3 DEF SameTask
<1>5. GoodQueue(queue) /\ GoodQueue(x) /\ SameEvents(queue, x) /\ Tidy(queue, c)
  BY <1>1, DeadlineGood, Counting DEF HarnessInv, RestOK, EventInv, Safe, ChannelOK
<1>6. Tidy(x, c) /\ Live(x, c) = Live(queue, c) /\ \A d \in Channels : SameHeld(queue, x, d)
  BY <1>5 DEF SameEvents, Tidy, Live, SameHeld
<1> HIDE DEF x
<1>7. CASE queue' = RemoveEvent(x, c, e)
  <2>1. /\ Moved(x, queue', c, {}, {e}) /\ queue'.cancelled_batches = x.cancelled_batches
        /\ ToSet(queue'.queues[c]) \subseteq ToSet(x.queues[c])
    BY <1>1, <1>5, <1>6, <1>7, RemoveMoves
  <2>2. Live(queue', c) \subseteq Live(queue, c) \cup {}
    BY <1>6, <2>1 DEF Live
  <2>3. \A d \in Channels : d # c => SameHeld(queue, queue', d)
    BY <1>6, <2>1 DEF Moved, SameHeld
  <2>4. NewlyLive(queue, task_map, queue', task_map', {})
    BY <1>1, <1>4, <2>2, <2>3, ChannelNewlyLive
  <2> QED BY <1>2, <1>3, <2>4, QuietKeeps
<1>8. CASE queue' = ReleaseNativeSteer(queue, c, e) /\ a.ack # "Success"
  <2>1. /\ Moved(queue, queue', c, {}, {}) /\ queue'.cancelled_batches = queue.cancelled_batches
        /\ ToSet(queue'.queues[c]) \subseteq {e} \cup ToSet(queue.queues[c])
    BY <1>1, <1>5, <1>8, ReleaseMoves
  <2>2. Live(queue', c) \subseteq Live(queue, c) \cup {e}
    BY <2>1 DEF Live
  <2>3. \A d \in Channels : d # c => SameHeld(queue, queue', d)
    BY <2>1 DEF Moved
  <2>4. NewlyLive(queue, task_map, queue', task_map', {e})
    BY <1>1, <1>4, <2>2, <2>3, ChannelNewlyLive
  <2>5. e \notin acked /\ ~Pending(task_map, e) /\ \A s \in Slots : OneSteer(task_map, s)
    BY <1>8 DEF AckInv
  <2>6. \A s \in Slots : Steers(task_map', s) \subseteq Steers(task_map, s)
    BY <1>3 DEF SameTask
  <2>7. \A s \in Slots : OneSteer(task_map', s)
    BY <1>3, <2>5 DEF SameTask
  <2>8. ~Pending(task_map', e)
    BY <2>5, <2>6 DEF Pending
  <2>9. Calm({e})
    BY <1>2, <2>4, <2>5, <2>6, <2>7, <2>8 DEF Calm
  <2> QED BY <2>9, CalmKeeps
<1> QED BY <1>2, <1>7, <1>8

\* An event that arrives as a steer is in one mailbox and may not be prompted.
LEMMA PostedKeeps ==
    ASSUME AckInv, NEW s \in Slots, NEW e, e \notin arrived, ~Lively(queue, task_map, e),
           arrived' = arrived \cup {e}, acked' = acked, steer_ack_rx' = steer_ack_rx,
           \A r \in Slots : r # s => SameTask(task_map, task_map', r),
           Steers(task_map', s) \subseteq Steers(task_map, s) \cup {e}, OneSteer(task_map', s),
           NewlyLive(queue, task_map, queue', task_map', {})
    PROVE  AckInv'
<1>1. \A r \in Slots : Steers(task_map, r) \subseteq arrived /\ OneSteer(task_map, r)
  BY DEF AckInv
<1>2. \A r \in Slots : r # s => Steers(task_map', r) = Steers(task_map, r) /\ OneSteer(task_map', r)
  BY <1>1 DEF SameTask
<1>3. \A x : Pending(task_map', x) => Pending(task_map, x) \/ x = e
  BY <1>2 DEF Pending
<1>4. \A r \in Slots : Steers(task_map', r) \subseteq arrived' /\ OneSteer(task_map', r)
  BY <1>1, <1>2
<1>5. ASSUME NEW x \in Slots, NEW y \in Slots, x # y
      PROVE  Steers(task_map', x) \cap Steers(task_map', y) = {}
  <2>1. Steers(task_map, x) \cap Steers(task_map, y) = {}
    BY <1>5 DEF AckInv
  <2> QED BY <1>1, <1>2, <1>5, <2>1
<1>6. acked \subseteq arrived /\ \A x : Pending(task_map, x) => x \notin acked
  BY DEF AckInv
<1>7. \A x : Pending(task_map', x) => x \notin acked'
  BY <1>3, <1>6
<1>8. ASSUME NEW x, Lively(queue', task_map', x) PROVE x \notin acked' /\ ~Pending(task_map', x)
  <2>1. Lively(queue, task_map, x)
    BY <1>8 DEF NewlyLive
  <2>2. x # e
    BY <2>1
  <2>3. x \notin acked /\ ~Pending(task_map, x)
    BY <2>1 DEF AckInv
  <2> QED BY <1>3, <2>2, <2>3
<1>9. \A a \in steer_ack_rx' : /\ a.event \in arrived' /\ ~Pending(task_map', a.event)
                               /\ a.event \in acked' => a.ack = "Success"
  BY <1>3 DEF AckInv
<1> QED BY <1>4, <1>5, <1>6, <1>7, <1>8, <1>9 DEF AckInv

\* An event that arrives preserves the invariant.
LEMMA RelayAcks ==
    ASSUME HarnessInv, EventInv, AckInv, NEW c \in Channels, NEW e \in Events, RelayEvent(c, e)
    PROVE  AckInv'
<1> DEFINE p == Push(queue, c, e)
           w == MarkNativeSteerPending(p, c, e)
<1>1. /\ e \notin arrived /\ arrived' = arrived \cup {e}
      /\ acked' = acked /\ steer_ack_rx' = steer_ack_rx
  BY DEF RelayEvent
<1>2. /\ GoodQueue(queue) /\ Tidy(queue, c)
      /\ \A d \in Channels : HeldFor(queue, d) \subseteq arrived
      /\ \A s \in Slots : Out(task_map, s) \subseteq arrived
  BY DEF HarnessInv, RestOK, EventInv, Safe, ChannelOK, SlotOK, Out
<1>3. ~Lively(queue, task_map, e)
  BY <1>1, <1>2 DEF Lively, Live, HeldFor
<1>4. /\ Moved(queue, p, c, {e}, {}) /\ p.cancelled_batches = queue.cancelled_batches
      /\ ToSet(p.queues[c]) \subseteq {e} \cup ToSet(queue.queues[c])
      /\ GoodQueue(p) /\ Tidy(p, c)
  BY <1>1, <1>2, PushMoves, PushGood DEF Moved
<1>5. /\ Live(p, c) \subseteq Live(queue, c) \cup {e}
      /\ \A d \in Channels : d # c => SameHeld(queue, p, d)
  BY <1>4 DEF Live, Moved
<1> HIDE DEF p
<1>6. /\ Moved(p, w, c, {}, {}) /\ ToSet(w.queues[c]) = ToSet(p.queues[c]) \ {e}
      /\ w.cancelled_batches = p.cancelled_batches
  BY <1>4, WithholdMoves
<1> HIDE DEF w
<1>7. /\ Live(w, c) \subseteq Live(queue, c) \cup {}
      /\ \A d \in Channels : d # c => SameHeld(queue, w, d)
  BY <1>4, <1>5, <1>6 DEF Live, Moved, SameHeld
<1>8. CASE \A s \in Slots : SameTask(task_map, task_map', s)
  <2>1. \A s \in Slots : BatchOf(task_map', s) = BatchOf(task_map, s)
    BY <1>8 DEF SameTask
  <2>2. queue' = queue \/ queue' = p \/ queue' = w
    BY DEF RelayEvent, p, w
  <2>3. /\ Live(queue', c) \subseteq Live(queue, c) \cup {e}
        /\ \A d \in Channels : d # c => SameHeld(queue, queue', d)
    BY <1>5, <1>7, <2>2 DEF SameHeld
  <2>4. NewlyLive(queue, task_map, queue', task_map', {e})
    BY <2>1, <2>3, ChannelNewlyLive
  <2>5. \A s \in Slots : Steers(task_map, s) \subseteq arrived /\ OneSteer(task_map, s)
    BY DEF AckInv
  <2>6. \A s \in Slots : Steers(task_map', s) \subseteq Steers(task_map, s)
    BY <1>8 DEF SameTask
  <2>7. \A s \in Slots : OneSteer(task_map', s)
    BY <1>8, <2>5 DEF SameTask
  <2>8. e \notin acked /\ ~Pending(task_map', e)
    BY <1>1, <2>5, <2>6 DEF Pending, AckInv
  <2>9. Calm({e})
    BY <1>1, <2>4, <2>6, <2>7, <2>8 DEF Calm
  <2> QED BY <2>9, CalmKeeps
<1>9. CASE \E s \in SteerTargets(c) :
                 /\ task_map' = [task_map EXCEPT ![s].mail = {e}]
                 /\ queue' = MarkNativeSteerPending(Push(queue, c, e), c, e)
  <2>1. PICK s \in SteerTargets(c) :
                 /\ task_map' = [task_map EXCEPT ![s].mail = {e}]
                 /\ queue' = MarkNativeSteerPending(Push(queue, c, e), c, e)
    BY <1>9
  <2>2. /\ s \in Slots /\ task_map[s] # NoTask /\ SameTasks
        /\ \A r \in Slots : r # s => SameTask(task_map, task_map', r)
        /\ task_map'[s] # NoTask /\ task_map[s].mail = {}
        /\ task_map'[s].mail = {e} /\ task_map'[s].wire = task_map[s].wire
    BY <2>1, Mailed DEF HarnessInv
  <2>3. queue' = w
    BY <2>1 DEF p, w
  <2>4. \A r \in Slots : BatchOf(task_map', r) = BatchOf(task_map, r)
    BY <2>2 DEF SameTasks
  <2>5. NewlyLive(queue, task_map, queue', task_map', {})
    BY <1>7, <2>3, <2>4, ChannelNewlyLive
  <2>6. /\ Steers(task_map, s) = task_map[s].wire
        /\ Steers(task_map', s) = {e} \cup task_map[s].wire
    BY <2>2 DEF Steers
  <2>7. e \notin task_map[s].wire
    BY <1>1, <2>2, <2>6 DEF AckInv
  <2>8. OneSteer(task_map', s) /\ Steers(task_map', s) \subseteq Steers(task_map, s) \cup {e}
    BY <2>2, <2>6, <2>7 DEF OneSteer
  <2> QED BY <1>1, <1>3, <2>2, <2>5, <2>8, PostedKeeps
<1> QED BY <1>8, <1>9, RelayTasks

\* Steers that are answered are gone from the task, and their answers say so.
LEMMA AnsweredKeeps ==
    ASSUME AckInv, NEW s \in Slots, NEW S, NEW ack, Answered(s, S, ack),
           \A r \in Slots : r # s => SameTask(task_map, task_map', r), arrived' = arrived,
           NewlyLive(queue, task_map, queue', task_map', {})
    PROVE  AckInv'
<1>1. /\ S \subseteq Steers(task_map, s)
      /\ Steers(task_map', s) \subseteq Steers(task_map, s) \ S
      /\ OneSteer(task_map', s)
      /\ \A a \in steer_ack_rx' : a \in steer_ack_rx \/ (a.event \in S /\ a.ack = ack)
      /\ acked' \subseteq acked \cup S
      /\ ack # "Success" => acked' = acked
  BY DEF Answered
<1>2. \A r \in Slots : Steers(task_map, r) \subseteq arrived /\ OneSteer(task_map, r)
  BY DEF AckInv
<1>3. \A r \in Slots : r # s => Steers(task_map', r) = Steers(task_map, r) /\ OneSteer(task_map', r)
  BY <1>2 DEF SameTask
<1>4. \A x, y \in Slots : x # y => Steers(task_map, x) \cap Steers(task_map, y) = {}
  BY DEF AckInv
<1>5. \A e : Pending(task_map', e) => Pending(task_map, e) /\ e \notin S
  BY <1>1, <1>3, <1>4 DEF Pending
<1>6. \A e \in S : Pending(task_map, e) /\ e \in arrived /\ e \notin acked
  BY <1>1, <1>2 DEF Pending, AckInv
<1>7. \A r \in Slots : Steers(task_map', r) \subseteq arrived' /\ OneSteer(task_map', r)
  BY <1>1, <1>2, <1>3
<1>8. \A x, y \in Slots : x # y => Steers(task_map', x) \cap Steers(task_map', y) = {}
  BY <1>1, <1>3, <1>4
<1>9. acked' \subseteq arrived' /\ \A e : Pending(task_map', e) => e \notin acked'
  BY <1>1, <1>5, <1>6 DEF AckInv
<1>10. ASSUME NEW e, Lively(queue', task_map', e) PROVE e \notin acked' /\ ~Pending(task_map', e)
  <2>1. Lively(queue, task_map, e)
    BY <1>10 DEF NewlyLive
  <2>2. e \notin acked /\ ~Pending(task_map, e)
    BY <2>1 DEF AckInv
  <2> QED BY <1>1, <1>5, <1>6, <2>2
<1>11. ASSUME NEW a \in steer_ack_rx'
       PROVE  /\ a.event \in arrived' /\ ~Pending(task_map', a.event)
              /\ a.event \in acked' => a.ack = "Success"
  <2>1. CASE a \in steer_ack_rx
    <3>1. /\ a.event \in arrived /\ ~Pending(task_map, a.event)
          /\ a.event \in acked => a.ack = "Success"
      BY <2>1 DEF AckInv
    <3> QED BY <1>1, <1>5, <1>6, <3>1
  <2>2. CASE a.event \in S /\ a.ack = ack
    BY <1>1, <1>5, <1>6, <2>2
  <2> QED BY <1>1, <2>1, <2>2
<1> QED BY <1>7, <1>8, <1>9, <1>10, <1>11 DEF AckInv

\* Steering preserves the invariant.
LEMMA SteeringAcks ==
    ASSUME HarnessInv, AckInv, NEW s \in Slots, Steering(s)
    PROVE  AckInv'
<1>1. UNCHANGED <<queue, arrived>>
  BY DEF Steering, SteerArm, SteerUnanswered, SteerResponse, input
<1>2. SameEvents(queue, queue')
  BY <1>1 DEF SameEvents
<1>3. OneSteer(task_map, s)
  BY DEF AckInv
<1>4. /\ SameTasks /\ \A r \in Slots : r # s => SameTask(task_map, task_map', r)
      /\ \E S, ack : Answered(s, S, ack)
  BY <1>3, SteeringAnswers
<1>5. PICK S, ack : Answered(s, S, ack)
  BY <1>4
<1>6. \A r \in Slots : BatchOf(task_map', r) = BatchOf(task_map, r)
  BY <1>4 DEF SameTasks
<1>7. NewlyLive(queue, task_map, queue', task_map', {})
  BY <1>2, <1>6, NoneNewlyLive
<1> QED BY <1>1, <1>4, <1>5, <1>7, AnsweredKeeps

\* So does the end of a task.
LEMMA TaskEndAcks ==
    ASSUME HarnessInv, AckInv, NEW s \in Slots, TaskEnds(s)
    PROVE  AckInv'
<1>1. PICK b \in FlushBatch \cup {NoBatch} :
        /\ \A r \in Slots : r # s => SameTask(task_map, task_map', r)
        /\ BatchOf(task_map', s) = b /\ BatchBack(b, BatchOf(task_map, s))
        /\ \E S : Answered(s, S, "Neutral")
        /\ UNCHANGED <<queue, arrived>>
  BY TaskOver
<1>2. PICK S : Answered(s, S, "Neutral")
  BY <1>1
<1>3. Out(task_map', s) \subseteq Out(task_map, s)
  BY <1>1 DEF Out, BatchEvents, BatchBack
<1>4. \A r \in Slots : r # s => Out(task_map', r) = Out(task_map, r)
  BY <1>1 DEF Out, SameTask
<1>5. NewlyLive(queue, task_map, queue', task_map', {})
  BY <1>1, <1>3, <1>4 DEF NewlyLive, Lively
<1> QED BY <1>1, <1>2, <1>5, AnsweredKeeps

\* The invariant holds initially.
LEMMA AckInit == Init => AckInv
<1> SUFFICES ASSUME Init PROVE AckInv
  OBVIOUS
<1>1. \A s \in Slots : /\ task_map[s] = NoTask /\ Steers(task_map, s) = {}
                       /\ OneSteer(task_map, s) /\ Out(task_map, s) = {}
  BY DEF Init, Steers, OneSteer, Out, BatchOf, BatchEvents
<1>2. \A c \in Channels : queue.queues[c] = <<>> /\ queue.cancelled_batches[c] = <<>>
  BY DEF Init, NewQueue
<1>3. \A c \in Channels : Live(queue, c) = {}
  BY <1>2, Nothing DEF Live
<1>4. \A e : ~Lively(queue, task_map, e) /\ ~Pending(task_map, e)
  BY <1>1, <1>3 DEF Lively, Pending
<1>5. acked = {} /\ steer_ack_rx = {}
  BY DEF Init
<1> QED BY <1>1, <1>4, <1>5 DEF AckInv

\* Every step preserves it, unless the backstop takes a channel from its turn.
LEMMA AckStep ==
    ASSUME ~BackstopFires
    PROVE  HarnessInv /\ TurnInv /\ EventInv /\ AckInv /\ [Next]_vars => AckInv'
<1> SUFFICES ASSUME HarnessInv, TurnInv, EventInv, AckInv, [Next]_vars PROVE AckInv'
  OBVIOUS
<1>1. CASE LoopStep
  BY <1>1, ClockAcks, DispatchAcks, PanicAcks DEF LoopStep
<1>2. CASE RelayArm
  BY <1>2, RelayAcks, CommandAcks DEF RelayArm
<1>3. CASE TaskArm
  BY <1>3, ResultAcks, PanicAcks, HandledAcks DEF TaskArm
<1>4. CASE Tick
  BY <1>4, TickAcks
<1>5. CASE \E s \in Slots : TaskEnds(s) \/ Steering(s)
  BY <1>5, TaskEndAcks, SteeringAcks
<1>6. CASE \/ Clock \/ UNCHANGED vars
           \/ \E s \in Slots, ok \in BOOLEAN : RespawnEnds(s, ok)
  BY <1>6, ClockAcks
<1>7. CASE Exited
  BY <1>6, <1>7 DEF Exited
<1> QED BY <1>1, <1>2, <1>3, <1>4, <1>5, <1>6, <1>7 DEF Next

\* AckedNeverRedispatched, for every number of channels, slots and events: an event
\* that the agent confirmed through a native steer waits for that answer to reach
\* the loop, or is gone; it is in no queue, no cancelled batch and no task's batch,
\* whatever turns end, fail or are cancelled while the answer is on its way.  Where
\* the in-flight backstop fires, recover_withheld_for_expired_channel hands the
\* withheld events back on purpose, and the property is not claimed.
THEOREM ConfirmedNotPrompted == ~BackstopFires => (Spec => []AckedNeverRedispatched)
<1> SUFFICES ASSUME ~BackstopFires PROVE Spec => []AckedNeverRedispatched
  OBVIOUS
<1>1. HarnessInv /\ TurnInv /\ EventInv /\ AckInv /\ [Next]_vars => AckInv'
  BY AckStep
<1>2. HarnessInv /\ EventInv /\ AckInv => AckedNeverRedispatched
  <2> SUFFICES ASSUME HarnessInv, EventInv, AckInv, NEW e \in acked, NEW p \in Places(e)
               PROVE  p[1] = "withheld"
    BY DEF AckedNeverRedispatched
  <2>1. ~Lively(queue, task_map, e)
    BY DEF AckInv
  <2>2. \A s \in Slots : SlotSeats(s, e) = {}
    BY <2>1, SeatsMeanHeld DEF Lively
  <2>3. PICK c \in Channels : p \in ChannelSeats(c, e)
    BY <2>2, PlacesAreSeats
  <2>4. e \notin Live(queue, c)
    BY <2>1 DEF Lively
  <2> QED BY <2>3, <2>4, SeatsMeanHeld
<1> QED BY <1>1, <1>2, AckInit, HarnessInvariant, TurnsMatched, EventsAccounted, PTL DEF Spec
=============================================================================
