-------------------------- MODULE TurnBudgetProofs --------------------------
(***************************************************************************)
(* For every choice of the durations, the buffer's included: the in-flight *)
(* backstop gives up a live turn only after the turn has used up the       *)
(* buffer outside the cap of its main prompt.                              *)
(***************************************************************************)
EXTENDS TurnBudget, TLAPS

\* What the in-flight deadline grants beside the buffer: one cap from the
\* dispatch or the last extension, moved on by the time that was no cap's.
Granted == in_flight_deadline - Buffer + overhead

\* A turn that the queue has not given up is within what it was granted, and
\* so are the cap that is still to come and the cap that runs.  While an ack is
\* on its way the cap may be beyond it: that time counts as overhead, and the
\* extension then makes up for the renewal.
WithinGrant ==
    /\ now <= Granted
    /\ phase \in {"setup", "initial", "fetch"} => now + MaxTurn <= Granted
    /\ Capped => hard_deadline <= Granted

BudgetInv ==
    /\ TypeOK
    /\ Prompting => hard_deadline <= now + MaxTurn
    /\ in_flight_deadline # NoDeadline => phase # "done" /\ WithinGrant
    /\ OrphanedOnlyByOverhead

\* A turn starts inside its in-flight deadline.
LEMMA InitBudget == Init => BudgetInv
BY BudgetAssumption
   DEF Init, BudgetInv, TypeOK, Prompting, NoWrite, NoDeadline, WithinGrant,
       Granted, Capped, OrphanedOnlyByOverhead, Orphaned

\* Every step keeps the types.
LEMMA NextTypes == ASSUME TypeOK, [Next]_vars PROVE TypeOK'
<1> USE BudgetAssumption DEF TypeOK, NoWrite, NoDeadline, read_loop, steering, backstop
<1>1. CASE Elapse
  BY <1>1 DEF Elapse
<1>2. CASE SetupEnds \/ FetchEnds
  BY <1>2 DEF SetupEnds, FetchEnds, StartPrompt, Enter
<1>3. CASE InitialMessageEnds
  BY <1>3 DEF InitialMessageEnds, Enter
<1>4. CASE WriteEnds \/ Activity \/ SteerWritten
  BY <1>4 DEF WriteEnds, Activity, SteerWritten, Sooner
<1>5. CASE \E injected \in BOOLEAN : SteerLands(injected)
  <2>1. [steer |-> steers, due |-> now + Latency] \in [steer : Nat, due : Nat]
    OBVIOUS
  <2> QED
    BY <1>5, <2>1 DEF SteerLands, Later
<1>6. CASE TurnEnds \/ HardTimeoutFires \/ CleanupEnds
  BY <1>6 DEF TurnEnds, HardTimeoutFires, CleanupEnds, Report, Enter
<1>7. CASE IdleTimeoutFires \/ ControlCancel
  BY <1>7 DEF IdleTimeoutFires, ControlCancel, Cleanup, Enter, Later
<1>8. CASE \E a \in acks : AckHandled(a)
  BY <1>8 DEF AckHandled, Later
<1>9. CASE MarkCompleted \/ Expire
  BY <1>9 DEF MarkCompleted, Expire
<1>10. CASE UNCHANGED vars
  BY <1>10 DEF vars
<1> QED
  BY <1>1, <1>2, <1>3, <1>4, <1>5, <1>6, <1>7, <1>8, <1>9, <1>10 DEF Next

\* What an extension leaves beside the buffer.
LEMMA GrantBesideBuffer ==
    ASSUME NEW n \in Int, NEW m \in Int, NEW b \in Int, NEW d \in Int, d >= n + m + b
    PROVE  n + m <= d - b + 0
OBVIOUS

\* The loop's extension grants a cap from now, and the cap that runs ends before
\* that.
LEMMA ExtensionGrants ==
    ASSUME TypeOK, in_flight_deadline # NoDeadline, phase # "done",
           Prompting => hard_deadline <= now + MaxTurn,
           NEW a \in acks, AckHandled(a)
    PROVE  phase' # "done" /\ WithinGrant'
<1>1. in_flight_deadline' \in Int /\ in_flight_deadline' >= now + MaxTurn + Buffer
  BY BudgetAssumption DEF TypeOK, NoDeadline, AckHandled, Later
<1>2. overhead' = 0
  BY DEF AckHandled
<1>3. now' = now /\ hard_deadline' = hard_deadline /\ phase' = phase
  BY DEF AckHandled, read_loop
<1>4. now + MaxTurn <= Granted'
  <2>1. now \in Int /\ MaxTurn \in Int /\ Buffer \in Int
    BY BudgetAssumption DEF TypeOK
  <2>2. now + MaxTurn <= in_flight_deadline' - Buffer + 0
    BY <1>1, <2>1, GrantBesideBuffer
  <2> QED
    BY <1>2, <2>2 DEF Granted
<1>5. Granted' \in Int
  BY <1>1, <1>2, BudgetAssumption DEF Granted
<1> QED
  BY <1>3, <1>4, <1>5, BudgetAssumption DEF WithinGrant, Capped, Prompting, TypeOK

\* Every step keeps the turn within its grant.
LEMMA NextBudget == ASSUME BudgetInv, [Next]_vars PROVE BudgetInv'
<1>0. TypeOK'
  BY NextTypes DEF BudgetInv
<1> USE <1>0, BudgetAssumption
    DEF BudgetInv, TypeOK, NoDeadline, Prompting, WithinGrant, Granted, Capped,
        OrphanedOnlyByOverhead, Orphaned, read_loop, steering, backstop
<1>1. CASE Elapse
  BY <1>1 DEF Elapse
<1>2. CASE SetupEnds
  <2>1. CASE phase = "setup" /\ StartPrompt("initial")
    BY <2>1 DEF StartPrompt
  <2>2. CASE phase = "setup" /\ Enter("fetch", MaxFetch) /\ UNCHANGED steering
    BY <2>2 DEF Enter
  <2> QED
    BY <1>2, <2>1, <2>2 DEF SetupEnds
<1>3. CASE FetchEnds
  BY <1>3 DEF FetchEnds, StartPrompt
<1>4. CASE InitialMessageEnds
  BY <1>4 DEF InitialMessageEnds, Enter
<1>5. CASE WriteEnds \/ Activity \/ SteerWritten
  BY <1>5 DEF WriteEnds, Activity, SteerWritten
\* The renewal waits for its ack, and until then no cap is counted on.
<1>6. CASE \E injected \in BOOLEAN : SteerLands(injected)
  <2>1. acks' # {}
    BY <1>6 DEF SteerLands
  <2> QED
    BY <1>6, <2>1 DEF SteerLands, Later
<1>7. CASE TurnEnds \/ HardTimeoutFires \/ CleanupEnds
  BY <1>7 DEF TurnEnds, HardTimeoutFires, CleanupEnds, Report, Enter
<1>8. CASE IdleTimeoutFires \/ ControlCancel
  BY <1>8 DEF IdleTimeoutFires, ControlCancel, Cleanup, Enter
<1>9. CASE \E a \in acks : AckHandled(a)
  <2>1. PICK a \in acks : AckHandled(a)
    BY <1>9
  <2>2. CASE in_flight_deadline = NoDeadline
    BY <2>1, <2>2 DEF AckHandled
  <2>3. CASE in_flight_deadline # NoDeadline
    <3> HIDE DEF WithinGrant, Granted, Capped
    <3>1. phase' # "done" /\ WithinGrant'
      BY <2>1, <2>3, ExtensionGrants
    <3>2. now' = now /\ hard_deadline' = hard_deadline /\ phase' = phase
      BY <2>1 DEF AckHandled
    <3>3. in_flight_deadline' # NoDeadline
      BY <2>1, <2>3 DEF AckHandled, Later
    <3> QED
      BY <3>1, <3>2, <3>3
  <2> QED
    BY <2>2, <2>3
<1>10. CASE MarkCompleted
  BY <1>10 DEF MarkCompleted
\* Within the grant, and past the deadline: the overhead is the buffer.
<1>11. CASE Expire
  BY <1>11 DEF Expire
<1>12. CASE UNCHANGED vars
  BY <1>12 DEF vars
<1> QED
  BY <1>1, <1>2, <1>3, <1>4, <1>5, <1>6, <1>7, <1>8, <1>9, <1>10, <1>11,
     <1>12 DEF Next

\* The invariant of the clocks: the state is well-typed, and a turn that the
\* queue still knows is within its grant.
THEOREM BudgetInvariant == Spec => []BudgetInv
<1>1. Init => BudgetInv
  BY InitBudget
<1>2. BudgetInv /\ [Next]_vars => BudgetInv'
  BY NextBudget
<1> QED
  BY <1>1, <1>2, PTL DEF Spec

\* Whatever max_turn_duration, the buffer and the other durations are, and
\* however often steers prolong the turn: the backstop gives up a live turn
\* only after the turn has spent the buffer outside the cap of its main prompt.
THEOREM BackstopNeedsOverhead == Spec => []OrphanedOnlyByOverhead
<1>1. BudgetInv => OrphanedOnlyByOverhead
  BY DEF BudgetInv
<1> QED
  BY <1>1, BudgetInvariant, PTL
=============================================================================
