--------------------------- MODULE PushMatchProofs ---------------------------
(***************************************************************************)
(* Proofs about PushMatch for any number of installations, endpoints,      *)
(* events, matchers, generations and attempts.                             *)
(*                                                                         *)
(* The argument for WakeOwed.  A lease that is live when an event commits  *)
(* was live when its trigger looked, because no activation fits between    *)
(* the two (GateSound), so the event has a job.  Generations never come    *)
(* back to life, so every matcher of the event reads the lease as long as  *)
(* it counts, and carries it to the outbox.  There only a row of the same  *)
(* endpoint could be in the way; since the endpoints of live leases differ *)
(* (EndpointsDistinct), that row is the lease's own.                       *)
(***************************************************************************)
EXTENDS PushMatch, TLAPS

EventState == {"none", "inserting", "stored", "deleted"}
Lease == [gen : Generations, status : {"absent", "live", "disabled", "expired", "revoked"},
          endpoint : Endpoints \union {None}]
Job == [state : {"none", "pending", "matching"}, claim : Matchers \union {None},
        lapsed : BOOLEAN, attempts : 0 .. MaxMatchAttempts]
Matcher == [pc : {"idle", "load", "context", "enqueue", "complete", "retry"},
            event : Events \union {None}, attempt : 0 .. MaxMatchAttempts,
            wakes : SUBSET (Installations \X Generations)]
Row == [endpoint : Endpoints, event : Events, inst : Installations, gen : Generations]

\* A live lease has an endpoint, and no two of them have the same.
EndpointsDistinct ==
  /\ \A i \in Installations : Eligible(i) => leases[i].endpoint \in Endpoints
  /\ \A i, j \in Installations :
       Eligible(i) /\ Eligible(j) /\ leases[i].endpoint = leases[j].endpoint => i = j

\* No insert and activation hold the gate together, and an insert whose trigger
\* found no lease still has none to find.
GateSound ==
  /\ leaseTx # None => \A e \in Events : events[e] # "inserting"
  /\ \A e \in Events : events[e] = "inserting" /\ e \notin gated =>
       \A i \in Installations : ~Eligible(i)

\* Nothing knows of an event that is not committed.
Unborn ==
  \A e \in Events : events[e] \in {"none", "inserting"} =>
    /\ jobs[e] = NoJob
    /\ \A m \in Matchers : matchers[m].event # e
    /\ \A o \in owed : o[3] # e
    /\ \A r \in outbox : r.event # e

\* A matcher at work has an event.
BusyHasEvent == \A m \in Matchers : matchers[m].pc # "idle" => matchers[m].event \in Events

\* The wake o is still owed.
Counts(o) == /\ Eligible(o[1]) /\ leases[o[1]].gen = o[2]
             /\ <<o[1], o[3]>> \in Wants
             /\ events[o[3]] = "stored"
             /\ o[3] \notin dropped

HasRow(o) == \E r \in outbox : /\ r.endpoint = leases[o[1]].endpoint /\ r.event = o[3]
                               /\ r.inst = o[1] /\ r.gen = o[2]

\* No row of another lease is in the way of o's.
RowsRight(o) == \A r \in outbox : r.endpoint = leases[o[1]].endpoint /\ r.event = o[3]
                                    => r.inst = o[1] /\ r.gen = o[2]

\* Every matcher of the event carries o to the outbox.
Carried(o) == \A m \in Matchers : matchers[m].event = o[3] =>
                /\ matchers[m].pc = "enqueue" => <<o[1], o[2]>> \in matchers[m].wakes
                /\ matchers[m].pc = "complete" => HasRow(o)

OwedSafe == \A o \in owed : /\ o[2] <= leases[o[1]].gen
                            /\ Counts(o) => /\ jobs[o[3]] # NoJob \/ HasRow(o)
                                            /\ RowsRight(o)
                                            /\ Carried(o)

MatchInv == /\ TypeOK
            /\ EndpointsDistinct
            /\ GateSound
            /\ Unborn
            /\ BusyHasEvent
            /\ OwedSafe

-----------------------------------------------------------------------------
(* Types *)

LEMMA Types ==
  TypeOK <=> /\ events \in [Events -> EventState]
             /\ gated \subseteq Events
             /\ leases \in [Installations -> Lease]
             /\ leaseTx \in Installations \union {None}
             /\ jobs \in [Events -> Job]
             /\ matchers \in [Matchers -> Matcher]
             /\ outbox \subseteq Row
             /\ owed \subseteq Installations \X Generations \X Events
             /\ dropped \subseteq Events
BY DEF TypeOK, EventState, Lease, Job, Matcher, Row

LEMMA TypesAfter ==
  ASSUME events' \in [Events -> EventState], gated' \subseteq Events,
         leases' \in [Installations -> Lease], leaseTx' \in Installations \union {None},
         jobs' \in [Events -> Job], matchers' \in [Matchers -> Matcher],
         outbox' \subseteq Row, owed' \subseteq Installations \X Generations \X Events,
         dropped' \subseteq Events
  PROVE  TypeOK'
BY DEF TypeOK, EventState, Lease, Job, Matcher, Row

LEMMA JobFacts ==
  /\ NoJob \in Job /\ NoJob.state = "none"
  /\ NewJob \in Job /\ NewJob.state = "pending" /\ NewJob # NoJob
  /\ \A n \in 0 .. MaxMatchAttempts :
       [NewJob EXCEPT !.attempts = n] \in Job /\ [NewJob EXCEPT !.attempts = n] # NoJob
<1>1. NoJob \in Job /\ NoJob.state = "none"
  BY PushMatchAssumption DEF NoJob, Job
<1>2. ASSUME NEW j \in Job PROVE /\ [j EXCEPT !.state = "pending"] \in Job
                                 /\ [j EXCEPT !.state = "pending"].state = "pending"
  BY DEF Job
<1>3. NewJob \in Job /\ NewJob.state = "pending"
  BY <1>1, <1>2 DEF NewJob
<1>4. ASSUME NEW j \in Job, j.state = "pending", NEW n \in 0 .. MaxMatchAttempts
      PROVE  [j EXCEPT !.attempts = n] \in Job /\ [j EXCEPT !.attempts = n].state = "pending"
  BY <1>4 DEF Job
<1> HIDE DEF NoJob, NewJob
<1> QED BY <1>1, <1>3, <1>4

LEMMA IdleFacts == Idle \in Matcher /\ Idle.pc = "idle" /\ Idle.event = None
BY PushMatchAssumption DEF Idle, Matcher

\* An owed triple and its components.
LEMMA OwedTypes ==
  ASSUME TypeOK, NEW o \in owed
  PROVE  /\ o[1] \in Installations /\ o[2] \in Generations /\ o[3] \in Events
         /\ o[2] \in Nat /\ leases[o[1]].gen \in Nat
BY PushMatchAssumption DEF TypeOK, Generations

-----------------------------------------------------------------------------
(* How a step may change the leases, and what that means for owed wakes *)

\* A lease stays, is replaced by a higher generation, or ends.
LeasesMove ==
  \A i \in Installations : \/ leases'[i] = leases[i]
                           \/ leases'[i].gen > leases[i].gen
                           \/ leases'[i].gen = leases[i].gen /\ leases'[i].status # "live"

\* A wake that still counts after a step counted before it.
LEMMA CountedBefore ==
  ASSUME MatchInv, LeasesMove, dropped \subseteq dropped', NEW o \in owed,
         TypeOK', events'[o[3]] = "stored" => events[o[3]] = "stored",
         Counts(o)'
  PROVE  Counts(o) /\ leases'[o[1]] = leases[o[1]]
<1>1. /\ o[1] \in Installations /\ o[2] \in Nat /\ leases[o[1]].gen \in Nat
      /\ o[2] <= leases[o[1]].gen
  BY OwedTypes DEF MatchInv, OwedSafe
<1>2. leases'[o[1]] = leases[o[1]]
  BY <1>1 DEF LeasesMove, Counts, Eligible
<1> QED BY <1>2 DEF Counts, Eligible

\* The generation of an owed wake never runs ahead of its lease.
LEMMA OwedPast ==
  ASSUME MatchInv, LeasesMove, TypeOK', NEW o \in owed
  PROVE  o[2] <= leases'[o[1]].gen
<1>1. /\ o[1] \in Installations /\ o[2] \in Nat /\ leases[o[1]].gen \in Nat
      /\ o[2] <= leases[o[1]].gen
  BY OwedTypes DEF MatchInv, OwedSafe
<1>2. leases'[o[1]].gen \in Nat
  BY <1>1, PushMatchAssumption DEF TypeOK, Generations
<1> QED BY <1>1, <1>2 DEF LeasesMove

\* A step that touches neither matchers nor outbox and takes no job away.
LEMMA OwedFrame ==
  ASSUME MatchInv, TypeOK', LeasesMove, owed' = owed, dropped \subseteq dropped',
         UNCHANGED <<matchers, outbox>>,
         \A e \in Events : events'[e] = "stored" => events[e] = "stored",
         \A e \in Events : jobs[e] # NoJob => jobs'[e] # NoJob \/ e \in dropped'
  PROVE  OwedSafe'
<1>1. ASSUME NEW o \in owed, Counts(o)'
      PROVE  /\ jobs'[o[3]] # NoJob \/ HasRow(o)'
             /\ RowsRight(o)' /\ Carried(o)'
  <2>1. o[3] \in Events
    BY OwedTypes DEF MatchInv
  <2>2. Counts(o) /\ leases'[o[1]] = leases[o[1]]
    BY <1>1, <2>1, CountedBefore
  <2>3. o[3] \notin dropped'
    BY <1>1 DEF Counts
  <2>4. HasRow(o)' <=> HasRow(o)
    BY <2>2 DEF HasRow
  <2>5. RowsRight(o)'
    BY <2>2 DEF RowsRight, MatchInv, OwedSafe
  <2>6. Carried(o)'
    BY <2>2, <2>4 DEF Carried, MatchInv, OwedSafe
  <2> QED BY <2>1, <2>2, <2>3, <2>4, <2>5, <2>6 DEF MatchInv, OwedSafe
<1>2. ASSUME NEW o \in owed PROVE o[2] <= leases'[o[1]].gen
  BY OwedPast
<1> QED BY <1>1, <1>2 DEF OwedSafe

\* A step that leaves the events alone and takes nothing new of an unborn one.
LEMMA UnbornFrame ==
  ASSUME MatchInv, UNCHANGED <<events, owed>>,
         \A e \in Events : events[e] \in {"none", "inserting"} =>
           /\ jobs'[e] = NoJob
           /\ \A m \in Matchers : matchers'[m].event # e
           /\ \A r \in outbox' : r.event # e
  PROVE  Unborn'
BY DEF MatchInv, Unborn

-----------------------------------------------------------------------------
(* Event inserts *)

LEMMA MatchInit == Init => MatchInv
<1> SUFFICES ASSUME Init PROVE MatchInv
  OBVIOUS
<1> USE DEF Init
<1>1. NoLease \in Lease /\ NoLease.status = "absent"
  BY PushMatchAssumption DEF NoLease, Lease, Generations
<1>2. TypeOK
  BY <1>1, JobFacts, IdleFacts, PushMatchAssumption, Types DEF EventState
<1>3. \A i \in Installations : ~Eligible(i)
  BY <1>1 DEF Eligible
<1>4. Unborn
  BY IdleFacts, PushMatchAssumption DEF Unborn
<1>5. BusyHasEvent
  BY IdleFacts DEF BusyHasEvent
<1> QED BY <1>2, <1>3, <1>4, <1>5 DEF MatchInv, EndpointsDistinct, GateSound, OwedSafe

\* An insert begins or fails, or a stored event is deleted.
LEMMA InsertStep ==
  ASSUME MatchInv, NEW e \in Events, InsertEvent(e) \/ RollbackEvent(e) \/ DeleteEvent(e)
  PROVE  MatchInv'
<1> USE DEF MatchInv
<1>1. /\ UNCHANGED <<leases, leaseTx, jobs, matchers, outbox, owed, dropped>>
      /\ \E s \in {"none", "inserting", "deleted"} : events' = [events EXCEPT ![e] = s]
      /\ gated' \subseteq gated \union {e}
  BY DEF InsertEvent, RollbackEvent, DeleteEvent
<1>2. TypeOK'
  BY <1>1, Types, TypesAfter DEF EventState
<1>3. EndpointsDistinct'
  BY <1>1 DEF EndpointsDistinct, Eligible
<1>4. GateSound'
  BY Types DEF GateSound, Eligible, InsertEvent, RollbackEvent, DeleteEvent
<1>5. Unborn'
  BY Types DEF Unborn, InsertEvent, RollbackEvent, DeleteEvent
<1>6. BusyHasEvent'
  BY <1>1 DEF BusyHasEvent
<1>7. OwedSafe'
  <2>1. LeasesMove
    BY <1>1 DEF LeasesMove
  <2>2. \A f \in Events : events'[f] = "stored" => events[f] = "stored"
    BY <1>1, Types
  <2> QED BY <1>1, <1>2, <2>1, <2>2, OwedFrame
<1> QED BY <1>2, <1>3, <1>4, <1>5, <1>6, <1>7

\* The commit: every lease that is live now was seen by the trigger.
LEMMA CommitStep ==
  ASSUME MatchInv, NEW e \in Events, CommitEvent(e)
  PROVE  MatchInv'
<1> USE DEF MatchInv
<1> DEFINE new == {<<i, leases[i].gen, e>> : i \in {i \in Installations : Eligible(i)}}
<1>1. /\ events[e] = "inserting" /\ events' = [events EXCEPT ![e] = "stored"]
      /\ jobs' = IF e \in gated THEN [jobs EXCEPT ![e] = NewJob] ELSE jobs
      /\ gated' = gated \ {e} /\ owed' = owed \union new
      /\ UNCHANGED <<leases, leaseTx, matchers, outbox, dropped>>
  BY DEF CommitEvent
<1>2. \A o \in new : /\ o \in Installations \X Generations \X Events
                     /\ Eligible(o[1]) /\ o[2] = leases[o[1]].gen /\ o[3] = e
  BY Types DEF Lease
<1> HIDE DEF new
<1>3. TypeOK'
  BY <1>1, <1>2, JobFacts, Types, TypesAfter DEF EventState
<1>4. EndpointsDistinct'
  BY <1>1 DEF EndpointsDistinct, Eligible
<1>5. GateSound'
  BY <1>1, Types DEF GateSound, Eligible
<1>6. Unborn'
  BY <1>1, <1>2, Types DEF Unborn
<1>7. BusyHasEvent'
  BY <1>1 DEF BusyHasEvent
<1>8. ASSUME NEW o \in new
      PROVE  /\ o[2] <= leases'[o[1]].gen
             /\ Counts(o)' => /\ jobs'[o[3]] # NoJob \/ HasRow(o)'
                              /\ RowsRight(o)' /\ Carried(o)'
  <2>1. e \in gated
    BY <1>1, <1>2 DEF GateSound
  <2>2. jobs'[o[3]] # NoJob
    BY <1>1, <1>2, <2>1, JobFacts, Types
  <2>3. RowsRight(o)' /\ Carried(o)'
    BY <1>1, <1>2 DEF RowsRight, Carried, Unborn
  <2>4. o[2] <= leases'[o[1]].gen
    BY <1>1, <1>2, PushMatchAssumption, Types DEF Lease, Generations
  <2> QED BY <2>2, <2>3, <2>4
<1>9. ASSUME NEW o \in owed
      PROVE  /\ o[2] <= leases'[o[1]].gen
             /\ Counts(o)' => /\ jobs'[o[3]] # NoJob \/ HasRow(o)'
                              /\ RowsRight(o)' /\ Carried(o)'
  <2>1. o[3] \in Events /\ o[3] # e
    BY <1>1, OwedTypes DEF Unborn
  <2>2. events'[o[3]] = events[o[3]] /\ jobs'[o[3]] = jobs[o[3]]
    BY <1>1, <2>1, Types
  <2>3. Counts(o)' <=> Counts(o)
    BY <1>1, <2>2 DEF Counts, Eligible
  <2>4. (HasRow(o)' <=> HasRow(o)) /\ (RowsRight(o)' <=> RowsRight(o))
    BY <1>1 DEF HasRow, RowsRight
  <2>5. Carried(o)' <=> Carried(o)
    BY <1>1, <2>4 DEF Carried
  <2> QED BY <1>1, <2>2, <2>3, <2>4, <2>5 DEF OwedSafe
<1> QED BY <1>1, <1>3, <1>4, <1>5, <1>6, <1>7, <1>8, <1>9 DEF OwedSafe

-----------------------------------------------------------------------------
(* Leases *)

\* The gate is locked or released.
LEMMA GateStep ==
  ASSUME MatchInv, (\E i \in Installations : LockGate(i)) \/ RefuseLease
  PROVE  MatchInv'
<1> USE DEF MatchInv
<1>1. UNCHANGED <<events, gated, leases, jobs, matchers, outbox, owed, dropped>>
  BY DEF LockGate, RefuseLease
<1>2. TypeOK'
  BY <1>1, Types, TypesAfter DEF LockGate, RefuseLease
<1>3. GateSound'
  BY <1>1 DEF GateSound, Eligible, LockGate, RefuseLease
<1>4. OwedSafe'
  BY <1>1, <1>2, OwedFrame DEF LeasesMove
<1> QED BY <1>1, <1>2, <1>3, <1>4 DEF EndpointsDistinct, Eligible, Unborn, BusyHasEvent

\* An activation: the new generation is owed nothing yet, its endpoint is not
\* that of another live lease, and the backfill only adds jobs.
LEMMA ActivateStep ==
  ASSUME MatchInv, Activate
  PROVE  MatchInv'
<1> USE DEF MatchInv
<1>1. leaseTx \in Installations
  BY Types DEF Activate
<1>2. PICK p \in Endpoints, R \in SUBSET {e \in Events : events[e] = "stored"} :
        /\ leases[leaseTx].gen < MaxGeneration
        /\ \A j \in ActiveBeside(leaseTx) : leases[j].endpoint # p
        /\ leases' = [leases EXCEPT ![leaseTx] =
                        [gen |-> leases[leaseTx].gen + 1, status |-> "live", endpoint |-> p]]
        /\ jobs' = Backfill(R)
  BY Types, <1>1 DEF Activate
<1>3. /\ leaseTx' = None
      /\ UNCHANGED <<events, gated, matchers, outbox, owed, dropped>>
  BY DEF Activate
<1>4. leases[leaseTx].gen \in Nat
  BY <1>1, PushMatchAssumption, Types DEF Lease, Generations
<1>5. leases' \in [Installations -> Lease]
  <2>1. [gen |-> leases[leaseTx].gen + 1, status |-> "live", endpoint |-> p] \in Lease
    BY <1>2, <1>4, PushMatchAssumption DEF Lease, Generations
  <2> QED BY <1>1, <1>2, <2>1, Types
<1>6. /\ jobs' \in [Events -> Job]
      /\ \A e \in Events : jobs[e] # NoJob => jobs'[e] = jobs[e]
      /\ \A e \in Events : events[e] # "stored" => jobs'[e] = jobs[e]
  BY <1>2, JobFacts, Types DEF Backfill
<1>7. TypeOK'
  BY <1>3, <1>5, <1>6, Types, TypesAfter
<1>8. EndpointsDistinct'
  <2>1. \A j \in Installations \ {leaseTx} : leases'[j] = leases[j]
    BY <1>1, <1>2, Types
  <2>2. \A j \in Installations \ {leaseTx} : Eligible(j)' => leases[j].endpoint # p
    BY <1>2, <2>1 DEF ActiveBeside, Eligible
  <2>3. leases'[leaseTx].endpoint = p
    BY <1>1, <1>2, Types
  <2> QED BY <1>1, <1>2, <2>1, <2>2, <2>3 DEF EndpointsDistinct, Eligible
<1>9. GateSound'
  BY <1>1, <1>3, PushMatchAssumption DEF GateSound
<1>10. Unborn'
  BY <1>3, <1>6, UnbornFrame DEF Unborn
<1>11. BusyHasEvent'
  BY <1>3 DEF BusyHasEvent
<1>12. LeasesMove
  BY <1>1, <1>2, <1>4, Types DEF LeasesMove
<1>13. OwedSafe'
  BY <1>3, <1>6, <1>7, <1>12, OwedFrame
<1> QED BY <1>7, <1>8, <1>9, <1>10, <1>11, <1>13

\* A lease is revoked, expires or is disabled.
LEMMA LeaseEnds ==
  ASSUME MatchInv, NEW i \in Installations,
         RevokeLease(i) \/ ExpireLease(i) \/ DisableEndpoint(i)
  PROVE  MatchInv'
<1> USE DEF MatchInv
<1>1. UNCHANGED <<events, gated, leaseTx, jobs, matchers, outbox, owed, dropped>>
  BY DEF RevokeLease, ExpireLease, DisableEndpoint
<1>2. leases[i] \in Lease /\ leases[i].gen \in Nat
  BY PushMatchAssumption, Types DEF Lease, Generations
<1>3. PICK l \in Lease : /\ leases' = [leases EXCEPT ![i] = l]
                         /\ l.status # "live"
                         /\ l.gen > leases[i].gen \/ l.gen = leases[i].gen
  <2>1. CASE RevokeLease(i)
    <3> DEFINE r == [gen |-> leases[i].gen + 1, status |-> "revoked", endpoint |-> None]
    <3>1. r \in Lease /\ r.status # "live" /\ r.gen > leases[i].gen
      BY <1>2, <2>1, PushMatchAssumption DEF RevokeLease, Lease, Generations
    <3>2. leases' = [leases EXCEPT ![i] = r]
      BY <2>1, Types DEF RevokeLease
    <3> HIDE DEF r
    <3> QED BY <3>1, <3>2
  <2>2. CASE ExpireLease(i) \/ DisableEndpoint(i)
    <3>1. PICK s \in {"expired", "disabled"} : leases' = [leases EXCEPT ![i].status = s]
      BY <2>2 DEF ExpireLease, DisableEndpoint
    <3> DEFINE r == [leases[i] EXCEPT !.status = s]
    <3>2. r \in Lease /\ r.status # "live" /\ r.gen = leases[i].gen
      BY <1>2 DEF Lease
    <3>3. leases' = [leases EXCEPT ![i] = r]
      BY <3>1, Types
    <3> HIDE DEF r
    <3> QED BY <3>2, <3>3
  <2> QED BY <2>1, <2>2
<1>4. \A j \in Installations : leases'[j] = IF j = i THEN l ELSE leases[j]
  BY <1>3, Types
<1>5. TypeOK'
  BY <1>1, <1>3, Types, TypesAfter
<1>6. EndpointsDistinct' /\ GateSound'
  BY <1>1, <1>3, <1>4 DEF EndpointsDistinct, GateSound, Eligible
<1>7. LeasesMove
  BY <1>3, <1>4 DEF LeasesMove
<1>8. OwedSafe'
  BY <1>1, <1>5, <1>7, OwedFrame
<1> QED BY <1>1, <1>5, <1>6, <1>8 DEF Unborn, BusyHasEvent

-----------------------------------------------------------------------------
(* Matchers *)

\* A matcher step: events, gate and leases stay, and o is still carried.
LEMMA MatcherFrame ==
  ASSUME MatchInv, UNCHANGED <<events, gated, leases, leaseTx, owed>>,
         jobs' \in [Events -> Job], outbox' \subseteq Row, dropped' \subseteq Events,
         dropped \subseteq dropped',
         NEW m \in Matchers, NEW n \in Matcher, matchers' = [matchers EXCEPT ![m] = n],
         n.pc # "idle" => n.event \in Events,
         n.event # None => n.event = matchers[m].event \/ jobs[n.event] # NoJob,
         \A e \in Events : jobs[e] = NoJob => jobs'[e] = NoJob,
         \A r \in outbox' : r \in outbox \/ r.event = matchers[m].event,
         \A o \in owed : Counts(o) /\ Counts(o)' =>
           /\ jobs'[o[3]] # NoJob \/ HasRow(o)'
           /\ RowsRight(o)'
           /\ HasRow(o) => HasRow(o)'
           /\ n.event = o[3] /\ n.pc = "enqueue" => <<o[1], o[2]>> \in n.wakes
           /\ n.event = o[3] /\ n.pc = "complete" => HasRow(o)'
  PROVE  MatchInv'
<1> USE DEF MatchInv
<1>1. \A k \in Matchers : matchers'[k] = IF k = m THEN n ELSE matchers[k]
  BY Types
<1>2. TypeOK'
  BY Types, TypesAfter
<1>3. EndpointsDistinct' /\ GateSound'
  BY DEF EndpointsDistinct, GateSound, Eligible
<1>4. BusyHasEvent'
  BY <1>1 DEF BusyHasEvent
<1>5. Unborn'
  <2>1. ASSUME NEW e \in Events, events[e] \in {"none", "inserting"}
        PROVE  /\ jobs'[e] = NoJob
               /\ \A k \in Matchers : matchers'[k].event # e
               /\ \A r \in outbox' : r.event # e
    BY <1>1, <2>1, PushMatchAssumption DEF Unborn
  <2> QED BY <2>1, UnbornFrame
<1>6. LeasesMove
  BY DEF LeasesMove
<1>7. ASSUME NEW o \in owed, Counts(o)'
      PROVE  /\ jobs'[o[3]] # NoJob \/ HasRow(o)'
             /\ RowsRight(o)' /\ Carried(o)'
  <2>1. Counts(o)
    BY <1>2, <1>6, <1>7, CountedBefore
  <2>2. Carried(o)
    BY <2>1 DEF OwedSafe
  <2>3. Carried(o)'
    BY <1>1, <1>7, <2>1, <2>2 DEF Carried
  <2> QED BY <1>7, <2>1, <2>3
<1>8. \A o \in owed : o[2] <= leases'[o[1]].gen
  BY <1>2, <1>6, OwedPast
<1>9. OwedSafe'
  BY <1>7, <1>8 DEF OwedSafe
<1> QED BY <1>2, <1>3, <1>4, <1>5, <1>9

\* What the frame asks of a step that adds no row and takes no job away.
LEMMA RowsFrame ==
  ASSUME MatchInv, UNCHANGED <<leases, outbox>>, NEW o \in owed, Counts(o)
  PROVE  RowsRight(o)' /\ (HasRow(o) => HasRow(o)')
BY DEF MatchInv, OwedSafe, RowsRight, HasRow

\* A claim.
LEMMA ClaimStep ==
  ASSUME MatchInv, NEW m \in Matchers, NEW e \in Events, ClaimMatch(m, e)
  PROVE  MatchInv'
<1> DEFINE n == [pc |-> "load", event |-> e, attempt |-> jobs[e].attempts + 1, wakes |-> {}]
           j == [state |-> "matching", claim |-> m, lapsed |-> FALSE,
                 attempts |-> jobs[e].attempts + 1]
<1> USE DEF MatchInv
<1>1. /\ jobs[e].state \in {"pending", "matching"} /\ jobs[e].attempts < MaxMatchAttempts
      /\ jobs' = [jobs EXCEPT ![e] = j] /\ matchers' = [matchers EXCEPT ![m] = n]
      /\ UNCHANGED <<events, gated, leases, leaseTx, outbox, owed, dropped>>
  BY Types DEF ClaimMatch, Lapsed
<1>2. jobs[e] # NoJob
  BY <1>1, JobFacts
<1>3. jobs[e].attempts \in 0 .. MaxMatchAttempts
  BY Types DEF Job
<1>4. n \in Matcher /\ n.pc = "load" /\ n.event = e
  BY <1>1, <1>3, PushMatchAssumption DEF Matcher
<1>5. j \in Job /\ j.state = "matching"
  BY <1>1, <1>3, PushMatchAssumption DEF Job
<1> HIDE DEF n, j
<1>6. /\ jobs' \in [Events -> Job]
      /\ \A f \in Events : jobs[f] = NoJob => jobs'[f] = NoJob
      /\ \A f \in Events : jobs[f] # NoJob => jobs'[f] # NoJob
  BY <1>1, <1>2, <1>5, JobFacts, Types
<1>7. \A o \in owed : Counts(o) =>
        /\ jobs'[o[3]] # NoJob \/ HasRow(o)'
        /\ RowsRight(o)' /\ (HasRow(o) => HasRow(o)')
  BY <1>1, <1>6, RowsFrame, OwedTypes DEF OwedSafe
<1> QED BY <1>1, <1>2, <1>4, <1>6, <1>7, MatcherFrame, Types

\* A job that a matcher settles: it changes only under the matcher's claim.
LEMMA SetJobStep ==
  ASSUME MatchInv, NEW m \in Matchers, NEW job \in Job, SetJob(m, job),
         matchers[m].event \in Events
  PROVE  /\ jobs' \in [Events -> Job]
         /\ \A f \in Events : jobs[f] = NoJob => jobs'[f] = NoJob
         /\ \A f \in Events : jobs'[f] = jobs[f] \/ (f = matchers[m].event /\ jobs'[f] = job)
<1>1. HoldsClaim(m) => jobs[matchers[m].event] # NoJob
  BY JobFacts DEF HoldsClaim
<1> QED BY <1>1, Types DEF SetJob, MatchInv

\* A matcher gives its job back, or rests.
LEMMA RestStep ==
  ASSUME MatchInv, NEW m \in Matchers, Rest(m),
         UNCHANGED <<events, gated, leases, leaseTx, outbox, owed, dropped>>,
         jobs' \in [Events -> Job],
         \A f \in Events : jobs[f] = NoJob => jobs'[f] = NoJob,
         \A o \in owed : Counts(o) => jobs'[o[3]] # NoJob \/ HasRow(o)
  PROVE  MatchInv'
<1>1. matchers' = [matchers EXCEPT ![m] = Idle]
  BY DEF Rest
<1>2. \A o \in owed : Counts(o) =>
        /\ jobs'[o[3]] # NoJob \/ HasRow(o)'
        /\ RowsRight(o)' /\ (HasRow(o) => HasRow(o)')
  BY RowsFrame
<1> QED BY <1>1, <1>2, IdleFacts, MatcherFrame, Types DEF MatchInv

\* The claimed event is loaded; the job of a deleted one goes.
LEMMA LoadEventStep ==
  ASSUME MatchInv, NEW m \in Matchers, LoadEvent(m)
  PROVE  MatchInv'
<1> USE DEF MatchInv
<1>0. matchers[m].event \in Events /\ matchers[m] \in Matcher
  BY Types DEF BusyHasEvent, LoadEvent
<1>1. CASE Goto(m, "context") /\ UNCHANGED jobs
  <2> DEFINE n == [matchers[m] EXCEPT !.pc = "context"]
  <2>1. n \in Matcher /\ n.pc = "context" /\ n.event = matchers[m].event
    BY <1>0 DEF Matcher
  <2>2. matchers' = [matchers EXCEPT ![m] = n]
    BY <1>1, Types DEF Goto
  <2> HIDE DEF n
  <2>3. UNCHANGED <<events, gated, leases, leaseTx, outbox, owed, dropped, jobs>>
    BY <1>1 DEF LoadEvent
  <2>4. \A o \in owed : Counts(o) =>
          /\ jobs'[o[3]] # NoJob \/ HasRow(o)'
          /\ RowsRight(o)' /\ (HasRow(o) => HasRow(o)')
    BY <2>3, RowsFrame DEF OwedSafe
  <2> QED BY <1>0, <2>1, <2>2, <2>3, <2>4, MatcherFrame, Types
<1>2. CASE /\ events[matchers[m].event] = "deleted"
           /\ SetJob(m, NoJob) /\ Rest(m)
  <2>1. UNCHANGED <<events, gated, leases, leaseTx, outbox, owed, dropped>>
    BY DEF LoadEvent
  <2>2. \A o \in owed : Counts(o) => o[3] \in Events /\ o[3] # matchers[m].event
    BY <1>2, OwedTypes DEF Counts
  <2>3. /\ jobs' \in [Events -> Job]
        /\ \A f \in Events : jobs[f] = NoJob => jobs'[f] = NoJob
        /\ \A f \in Events : jobs'[f] = jobs[f] \/ f = matchers[m].event
    BY <1>0, <1>2, JobFacts, SetJobStep
  <2>4. \A o \in owed : Counts(o) => jobs'[o[3]] # NoJob \/ HasRow(o)
    BY <2>2, <2>3 DEF OwedSafe
  <2> QED BY <1>2, <2>1, <2>3, <2>4, RestStep
<1> QED BY <1>1, <1>2 DEF LoadEvent

\* A failed job goes back, or its event is written off.
LEMMA FailStep ==
  ASSUME MatchInv, NEW m \in Matchers, matchers[m].event \in Events, FailJob(m),
         UNCHANGED <<events, gated, leases, leaseTx, jobs, outbox, owed>>
  PROVE  MatchInv'
<1> USE DEF MatchInv
<1>1. matchers[m] \in Matcher
  BY Types
<1>2. PICK pc \in {"complete", "retry"} :
        /\ matchers' = [matchers EXCEPT ![m].pc = pc]
        /\ dropped \subseteq dropped' /\ dropped' \subseteq Events
        /\ pc = "complete" => matchers[m].event \in dropped'
  BY Types DEF FailJob, Goto
<1> DEFINE n == [matchers[m] EXCEPT !.pc = pc]
<1>3. n \in Matcher /\ n.pc = pc /\ n.event = matchers[m].event
  BY <1>1 DEF Matcher
<1>4. matchers' = [matchers EXCEPT ![m] = n]
  BY <1>2, Types
<1> HIDE DEF n
<1>5. \A o \in owed : Counts(o) =>
        /\ jobs'[o[3]] # NoJob \/ HasRow(o)'
        /\ RowsRight(o)' /\ (HasRow(o) => HasRow(o)')
  BY RowsFrame DEF OwedSafe
<1>6. \A o \in owed : Counts(o)' /\ n.event = o[3] => n.pc # "complete"
  BY <1>2, <1>3 DEF Counts
<1> QED BY <1>2, <1>3, <1>4, <1>5, <1>6, MatcherFrame, Types

\* The leases are read and matched: every wake that counts is among them.
LEMMA LoadContextStep ==
  ASSUME MatchInv, NEW m \in Matchers, LoadContext(m)
  PROVE  MatchInv'
<1> DEFINE e == matchers[m].event
           matched == {<<i, leases[i].gen>> :
                         i \in {i \in Installations : Eligible(i) /\ <<i, e>> \in Wants}}
<1> USE DEF MatchInv
<1>0. e \in Events /\ matchers[m] \in Matcher
  BY Types DEF BusyHasEvent, LoadContext
<1>1. UNCHANGED <<events, gated, leases, leaseTx, jobs, outbox, owed>>
  BY DEF LoadContext
<1>2. matched \subseteq Installations \X Generations
  <2>1. \A i \in Installations : leases[i].gen \in Generations
    BY Types DEF Lease
  <2>2. ASSUME NEW w \in matched PROVE w \in Installations \X Generations
    <3>1. PICK i \in Installations : w = <<i, leases[i].gen>>
      OBVIOUS
    <3> QED BY <2>1, <3>1
  <2> QED BY <2>2
<1>3. \A o \in owed : Counts(o) =>
        /\ jobs'[o[3]] # NoJob \/ HasRow(o)'
        /\ RowsRight(o)' /\ (HasRow(o) => HasRow(o)')
  BY <1>1, RowsFrame DEF OwedSafe
<1>4. \A o \in owed : Counts(o) /\ o[3] = e => <<o[1], o[2]>> \in matched
  BY OwedTypes DEF Counts
<1>5. CASE /\ matchers' = [matchers EXCEPT
                             ![m].pc = IF matched = {} THEN "complete" ELSE "enqueue",
                             ![m].wakes = matched]
           /\ UNCHANGED dropped
  <2> HIDE DEF matched
  <2> DEFINE pc == IF matched = {} THEN "complete" ELSE "enqueue"
             n == [matchers[m] EXCEPT !.pc = pc, !.wakes = matched]
  <2>1. n \in Matcher /\ n.pc = pc /\ n.event = e /\ n.wakes = matched
    BY <1>0, <1>2 DEF Matcher
  <2>2. matchers' = [matchers EXCEPT ![m] = n]
    BY <1>5, Types
  <2>3. \A o \in owed : Counts(o) /\ n.event = o[3] =>
          n.pc = "enqueue" /\ <<o[1], o[2]>> \in n.wakes
    BY <1>4, <2>1
  <2> HIDE DEF n
  <2> QED BY <1>0, <1>1, <1>3, <1>5, <2>1, <2>2, <2>3, MatcherFrame, Types
<1>6. CASE Goto(m, "retry") /\ UNCHANGED dropped
  <2> DEFINE n == [matchers[m] EXCEPT !.pc = "retry"]
  <2>1. n \in Matcher /\ n.pc = "retry" /\ n.event = e
    BY <1>0 DEF Matcher
  <2>2. matchers' = [matchers EXCEPT ![m] = n]
    BY <1>6, Types DEF Goto
  <2> HIDE DEF n
  <2> QED BY <1>0, <1>1, <1>3, <1>6, <2>1, <2>2, MatcherFrame, Types
<1>7. CASE FailJob(m)
  BY <1>0, <1>1, <1>7, FailStep
<1> QED BY <1>5, <1>6, <1>7 DEF LoadContext

\* The wakes are inserted, where the endpoint has no row for the event.
LEMMA EnqueueStep ==
  ASSUME MatchInv, NEW m \in Matchers, EnqueueWakes(m)
  PROVE  MatchInv'
<1> DEFINE e == matchers[m].event
<1> USE DEF MatchInv
<1>0. e \in Events /\ matchers[m] \in Matcher /\ matchers[m].pc = "enqueue"
  BY Types DEF BusyHasEvent, EnqueueWakes
<1>1. UNCHANGED <<events, gated, leases, leaseTx, jobs, owed>>
  BY DEF EnqueueWakes
<1>2. CASE FailJob(m) /\ UNCHANGED outbox
  BY <1>0, <1>1, <1>2, FailStep
<1>3. CASE /\ outbox' = outbox \union NewWakes(m)
           /\ Goto(m, "complete") /\ UNCHANGED dropped
  <2> DEFINE n == [matchers[m] EXCEPT !.pc = "complete"]
  <2>1. n \in Matcher /\ n.pc = "complete" /\ n.event = e
    BY <1>0 DEF Matcher
  <2>2. matchers' = [matchers EXCEPT ![m] = n]
    BY <1>3, Types DEF Goto
  <2> HIDE DEF n
  <2>3. ASSUME NEW r \in NewWakes(m)
        PROVE  /\ r \in Row /\ r.event = e /\ Eligible(r.inst)
               /\ r.endpoint = leases[r.inst].endpoint /\ r.gen = leases[r.inst].gen
    <3>1. PICK w \in matchers[m].wakes :
            /\ Eligible(w[1]) /\ leases[w[1]].gen = w[2]
            /\ r = [endpoint |-> leases[w[1]].endpoint, event |-> e, inst |-> w[1], gen |-> w[2]]
      BY DEF NewWakes
    <3>2. w[1] \in Installations /\ w[2] \in Generations
      BY <1>0 DEF Matcher
    <3>3. leases[w[1]].endpoint \in Endpoints
      BY <3>1, <3>2 DEF EndpointsDistinct
    <3> QED BY <1>0, <3>1, <3>2, <3>3 DEF Row
  <2>4. outbox' \subseteq Row
    BY <1>3, <2>3, Types
  <2>5. ASSUME NEW o \in owed, Counts(o)
        PROVE  RowsRight(o)' /\ (HasRow(o) => HasRow(o)')
    <3>1. o[1] \in Installations
      BY OwedTypes
    <3>2. \A r \in NewWakes(m) : r.endpoint = leases[o[1]].endpoint =>
            r.inst = o[1] /\ r.gen = o[2]
      BY <2>3, <2>5, <3>1 DEF Counts, EndpointsDistinct, Row
    <3>3. RowsRight(o)
      BY <2>5 DEF OwedSafe
    <3> QED BY <1>1, <1>3, <3>2, <3>3 DEF RowsRight, HasRow
  <2>6. ASSUME NEW o \in owed, Counts(o), o[3] = e
        PROVE  HasRow(o)'
    <3>1. <<o[1], o[2]>> \in matchers[m].wakes
      BY <1>0, <2>6 DEF OwedSafe, Carried
    <3>2. RowsRight(o)
      BY <2>6 DEF OwedSafe
    <3>3. CASE \E r \in outbox : r.endpoint = leases[o[1]].endpoint /\ r.event = e
      BY <1>1, <1>3, <2>6, <3>2, <3>3 DEF RowsRight, HasRow
    <3>4. CASE \A r \in outbox : ~(r.endpoint = leases[o[1]].endpoint /\ r.event = e)
      <4> DEFINE w == <<o[1], o[2]>>
                 r == [endpoint |-> leases[o[1]].endpoint, event |-> e,
                       inst |-> o[1], gen |-> o[2]]
      <4>1. w[1] = o[1] /\ w[2] = o[2]
        OBVIOUS
      <4>2. r \in NewWakes(m)
        BY <2>6, <3>1, <3>4, <4>1 DEF NewWakes, Counts
      <4>3. /\ r.endpoint = leases[o[1]].endpoint /\ r.event = e
            /\ r.inst = o[1] /\ r.gen = o[2]
        OBVIOUS
      <4> HIDE DEF r
      <4> QED BY <1>1, <1>3, <2>6, <4>2, <4>3 DEF HasRow
    <3> QED BY <3>3, <3>4
  <2>7. \A o \in owed : Counts(o) => jobs'[o[3]] # NoJob \/ HasRow(o)'
    BY <1>1, <2>5 DEF OwedSafe
  <2>8. \A r \in outbox' : r \in outbox \/ r.event = e
    BY <1>3, <2>3
  <2>9. \A o \in owed : Counts(o) /\ Counts(o)' =>
          /\ jobs'[o[3]] # NoJob \/ HasRow(o)'
          /\ RowsRight(o)'
          /\ HasRow(o) => HasRow(o)'
          /\ n.event = o[3] /\ n.pc = "enqueue" => <<o[1], o[2]>> \in n.wakes
          /\ n.event = o[3] /\ n.pc = "complete" => HasRow(o)'
    BY <2>1, <2>5, <2>6, <2>7
  <2>10. /\ jobs' \in [Events -> Job] /\ dropped' \subseteq Events /\ dropped \subseteq dropped'
         /\ \A f \in Events : jobs[f] = NoJob => jobs'[f] = NoJob
    BY <1>1, <1>3, Types
  <2> QED BY <1>0, <1>1, <2>1, <2>2, <2>4, <2>8, <2>9, <2>10, MatcherFrame
<1> QED BY <1>2, <1>3 DEF EnqueueWakes

\* A matched job is deleted: its wakes are in the outbox.
LEMMA CompleteStep ==
  ASSUME MatchInv, NEW m \in Matchers, CompleteMatch(m)
  PROVE  MatchInv'
<1> USE DEF MatchInv
<1>0. matchers[m].event \in Events
  BY DEF BusyHasEvent, CompleteMatch
<1>1. /\ jobs' \in [Events -> Job]
      /\ \A f \in Events : jobs[f] = NoJob => jobs'[f] = NoJob
      /\ \A f \in Events : jobs'[f] = jobs[f] \/ f = matchers[m].event
  BY <1>0, JobFacts, SetJobStep DEF CompleteMatch
<1>2. \A o \in owed : Counts(o) => jobs'[o[3]] # NoJob \/ HasRow(o)
  BY <1>1, OwedTypes DEF CompleteMatch, OwedSafe, Carried
<1> QED BY <1>1, <1>2, RestStep DEF CompleteMatch

\* A job goes back to the queue.
LEMMA RetryStep ==
  ASSUME MatchInv, NEW m \in Matchers, RetryMatch(m)
  PROVE  MatchInv'
<1> USE DEF MatchInv
<1> DEFINE job == [NewJob EXCEPT !.attempts = jobs[matchers[m].event].attempts]
<1>0. matchers[m].event \in Events
  BY DEF BusyHasEvent, RetryMatch
<1>1. jobs[matchers[m].event].attempts \in 0 .. MaxMatchAttempts
  BY <1>0, Types DEF Job
<1>2. job \in Job /\ job # NoJob
  BY <1>1, JobFacts
<1>3. SetJob(m, job)
  BY DEF RetryMatch
<1> HIDE DEF job
<1>4. /\ jobs' \in [Events -> Job]
      /\ \A f \in Events : jobs[f] = NoJob => jobs'[f] = NoJob
      /\ \A f \in Events : jobs[f] # NoJob => jobs'[f] # NoJob
  BY <1>0, <1>2, <1>3, SetJobStep
<1>5. \A o \in owed : Counts(o) => jobs'[o[3]] # NoJob \/ HasRow(o)
  BY <1>4, OwedTypes DEF OwedSafe
<1> QED BY <1>4, <1>5, RestStep DEF RetryMatch

\* A matcher dies.
LEMMA CrashStep ==
  ASSUME MatchInv, NEW m \in Matchers, CrashMatcher(m)
  PROVE  MatchInv'
<1>1. \A o \in owed : Counts(o) => jobs'[o[3]] # NoJob \/ HasRow(o)
  BY DEF CrashMatcher, MatchInv, OwedSafe
<1> QED BY <1>1, RestStep, Types DEF CrashMatcher, MatchInv

\* A claim lapses, or an exhausted job is reaped and its event written off.
LEMMA QueueStep ==
  ASSUME MatchInv, NEW e \in Events, LapseMatch(e) \/ Reap(e)
  PROVE  MatchInv'
<1> USE DEF MatchInv
<1>1. UNCHANGED <<events, gated, leases, leaseTx, matchers, outbox, owed>>
  BY DEF LapseMatch, Reap
<1>2. /\ jobs' \in [Events -> Job] /\ dropped' \subseteq Events /\ dropped \subseteq dropped'
      /\ \A f \in Events : jobs[f] = NoJob => jobs'[f] = NoJob
      /\ \A f \in Events : jobs[f] # NoJob => jobs'[f] # NoJob \/ f \in dropped'
  <2>1. CASE LapseMatch(e)
    <3> DEFINE j == [jobs[e] EXCEPT !.lapsed = TRUE]
    <3>1. j \in Job /\ j.state = "matching"
      BY <2>1, Types DEF Job, LapseMatch
    <3>2. jobs' = [jobs EXCEPT ![e] = j] /\ jobs[e].state = "matching" /\ dropped' = dropped
      BY <2>1, Types DEF LapseMatch
    <3> HIDE DEF j
    <3> QED BY <3>1, <3>2, JobFacts, Types
  <2>2. CASE Reap(e)
    BY <2>2, JobFacts, Types DEF Reap
  <2> QED BY <2>1, <2>2
<1>3. TypeOK'
  BY <1>1, <1>2, Types, TypesAfter
<1>4. EndpointsDistinct' /\ GateSound' /\ BusyHasEvent'
  BY <1>1 DEF EndpointsDistinct, GateSound, Eligible, BusyHasEvent
<1>5. Unborn'
  BY <1>1, <1>2, UnbornFrame DEF Unborn
<1>6. OwedSafe'
  BY <1>1, <1>2, <1>3, OwedFrame DEF LeasesMove
<1> QED BY <1>3, <1>4, <1>5, <1>6

LEMMA MatchNext == MatchInv /\ [Next]_vars => MatchInv'
<1> SUFFICES ASSUME MatchInv, [Next]_vars PROVE MatchInv'
  OBVIOUS
<1>1. CASE UNCHANGED vars
  <2>1. UNCHANGED <<events, gated, leases, leaseTx, jobs, matchers, outbox, owed, dropped>>
    BY <1>1 DEF vars
  <2>2. TypeOK'
    BY <2>1, Types, TypesAfter DEF MatchInv
  <2>3. OwedSafe'
    BY <2>1, <2>2, OwedFrame DEF LeasesMove
  <2> QED BY <2>1, <2>2, <2>3 DEF MatchInv, EndpointsDistinct, GateSound, Eligible, Unborn, BusyHasEvent
<1>2. CASE Next
  BY <1>2, InsertStep, CommitStep, GateStep, ActivateStep, LeaseEnds, ClaimStep,
     LoadEventStep, LoadContextStep, EnqueueStep, CompleteStep, RetryStep, CrashStep,
     QueueStep DEF Next, MatcherStep
<1> QED BY <1>1, <1>2

-----------------------------------------------------------------------------

\* The inductive invariant of matching.
THEOREM MatchInvariant == Spec => []MatchInv
BY MatchInit, MatchNext, PTL DEF Spec

\* No wake falls through between the gate of the trigger and the outbox: while a
\* lease that was live at an event's commit stays live, the event has a job or
\* the lease its row, unless the job was given up after its last attempt.
THEOREM NoWakeLost == Spec => []WakeOwed
<1>1. MatchInv => WakeOwed
  <2> SUFFICES ASSUME MatchInv, NEW o \in owed, Counts(o)
               PROVE  jobs[o[3]] # NoJob \/ HasRow(o)
    BY DEF WakeOwed, Counts, HasRow
  <2> QED BY DEF MatchInv, OwedSafe
<1> QED BY <1>1, MatchInvariant, PTL
=============================================================================
