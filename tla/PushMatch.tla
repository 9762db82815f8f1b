------------------------------ MODULE PushMatch ------------------------------
(***************************************************************************)
(* From an accepted event to a durable wake: the gate in the events        *)
(* trigger (migrations/0023_push_match_gate.sql), lease acceptance and the *)
(* match queue of buzz-db push.rs, and the matcher loop of buzz-relay      *)
(* push_runtime.rs.  Every relay of a deployment runs one matcher against  *)
(* the same database.                                                      *)
(*                                                                         *)
(* One community is modelled, and the leases of one author: every key and  *)
(* lock leads with the community, and the author only scopes the quota and *)
(* the endpoint's uniqueness.  Which events a lease wants (filters,        *)
(* read authorization, membership) is the constant relation Wants; the     *)
(* send-time membership check is PushDelivery's.  A claimed batch is one   *)
(* job: jobs of a batch share a claim and failures, and nothing else.      *)
(***************************************************************************)
EXTENDS Naturals, FiniteSets

CONSTANTS Installations,    \* lease addresses
          Endpoints,        \* endpoint hashes
          Events,           \* events of the push kinds
          Matchers,         \* run_matcher tasks, one per relay
          Wants,            \* the pairs <<installation, event>> match_job matches
          MaxGeneration,    \* bound on the generations clients publish
          MaxMatchAttempts, \* MAX_MATCH_ATTEMPTS
          MaxActiveLeases,  \* max_active_leases
          None

ASSUME PushMatchAssumption ==
  /\ MaxGeneration \in Nat \ {0} /\ MaxMatchAttempts \in Nat \ {0}
  /\ MaxActiveLeases \in Nat
  /\ Wants \subseteq Installations \X Events
  /\ None \notin Installations \union Endpoints \union Events \union Matchers

VARIABLES events,   \* what the events table holds of each event
          gated,    \* inserts in progress whose EXISTS found a lease
          leases,   \* push_leases
          leaseTx,  \* the address whose activation holds the gate lock exclusively, or None
          jobs,     \* push_match_queue
          matchers, \* what each matcher holds of its claim
          outbox,   \* rows of push_wake_outbox, keyed by endpoint and event
          owed,     \* <<i, g, e>>: e was committed while generation g of i was live
          dropped   \* events whose job was given up after its last attempt

vars == <<events, gated, leases, leaseTx, jobs, matchers, outbox, owed, dropped>>

NoLease == [gen |-> 0, status |-> "absent", endpoint |-> None]
NoJob == [state |-> "none", claim |-> None, lapsed |-> FALSE, attempts |-> 0]
NewJob == [NoJob EXCEPT !.state = "pending"]
Idle == [pc |-> "idle", event |-> None, attempt |-> 0, wakes |-> {}]

Generations == 0 .. MaxGeneration

TypeOK ==
  /\ events \in [Events -> {"none", "inserting", "stored", "deleted"}]
  /\ gated \subseteq Events
  /\ leases \in [Installations ->
                   [gen : Generations,
                    status : {"absent", "live", "disabled", "expired", "revoked"},
                    endpoint : Endpoints \union {None}]]
  /\ leaseTx \in Installations \union {None}
  /\ jobs \in [Events -> [state : {"none", "pending", "matching"},
                          claim : Matchers \union {None}, lapsed : BOOLEAN,
                          attempts : 0 .. MaxMatchAttempts]]
  /\ matchers \in [Matchers ->
                     [pc : {"idle", "load", "context", "enqueue", "complete", "retry"},
                      event : Events \union {None}, attempt : 0 .. MaxMatchAttempts,
                      wakes : SUBSET (Installations \X Generations)]]
  /\ outbox \subseteq [endpoint : Endpoints, event : Events,
                       inst : Installations, gen : Generations]
  /\ owed \subseteq Installations \X Generations \X Events
  /\ dropped \subseteq Events

Init == /\ events = [e \in Events |-> "none"]
        /\ gated = {}
        /\ leases = [i \in Installations |-> NoLease]
        /\ leaseTx = None
        /\ jobs = [e \in Events |-> NoJob]
        /\ matchers = [m \in Matchers |-> Idle]
        /\ outbox = {}
        /\ owed = {}
        /\ dropped = {}

\* active AND endpoint_enabled AND not expired: the trigger, the matcher and
\* the enqueue transaction ask the same of a lease.
Eligible(i) == leases[i].status = "live"

-----------------------------------------------------------------------------
(* Event inserts: the trigger takes the gate lock shared, to commit *)

\* enqueue_push_match_job, up to its EXISTS.
InsertEvent(e) ==
  /\ events[e] = "none"
  /\ leaseTx = None
  /\ events' = [events EXCEPT ![e] = "inserting"]
  /\ gated' = IF \E i \in Installations : Eligible(i) THEN gated \union {e} ELSE gated
  /\ UNCHANGED <<leases, leaseTx, jobs, matchers, outbox, owed, dropped>>

CommitEvent(e) ==
  /\ events[e] = "inserting"
  /\ events' = [events EXCEPT ![e] = "stored"]
  /\ jobs' = IF e \in gated THEN [jobs EXCEPT ![e] = NewJob] ELSE jobs
  /\ gated' = gated \ {e}
  /\ owed' = owed \union {<<i, leases[i].gen, e>> : i \in {i \in Installations : Eligible(i)}}
  /\ UNCHANGED <<leases, leaseTx, matchers, outbox, dropped>>

\* The insert's transaction fails: no event, and no job.
RollbackEvent(e) ==
  /\ events[e] = "inserting"
  /\ events' = [events EXCEPT ![e] = "none"]
  /\ gated' = gated \ {e}
  /\ UNCHANGED <<leases, leaseTx, jobs, matchers, outbox, owed, dropped>>

\* Soft deletion of the event.
DeleteEvent(e) ==
  /\ events[e] = "stored"
  /\ events' = [events EXCEPT ![e] = "deleted"]
  /\ UNCHANGED <<gated, leases, leaseTx, jobs, matchers, outbox, owed, dropped>>

-----------------------------------------------------------------------------
(* Leases *)

\* Mutant: an activation does not wait for the inserts that hold the lock.
LockGateLate(i) ==
  /\ leaseTx = None
  /\ leaseTx' = i
  /\ UNCHANGED <<events, gated, leases, jobs, matchers, outbox, owed, dropped>>

\* accept_lease_event with an active body, up to acquire_push_gate_lock: the
\* exclusive lock waits for every insert that holds it shared.
LockGate(i) ==
  /\ leaseTx = None
  /\ \A e \in Events : events[e] # "inserting"
  /\ leaseTx' = i
  /\ UNCHANGED <<events, gated, leases, jobs, matchers, outbox, owed, dropped>>

\* The rows an activation counts: expired ones were switched off before.
ActiveBeside(i) ==
  {j \in Installations \ {i} : leases[j].status \in {"live", "disabled"}}

\* backfill_push_match_jobs over the events R of its window; existing jobs stay
\* as they are (ON CONFLICT DO NOTHING).
Backfill(R) ==
  [e \in Events |-> IF e \in R /\ jobs[e] = NoJob THEN NewJob ELSE jobs[e]]

\* The rest of accept_lease_event.  Of the replacement's ordering only the
\* generation is kept: accepted ones grow in both.  What the clock leaves in
\* the backfill's window is any set of stored events.
Activate ==
  /\ leaseTx # None
  /\ \E p \in Endpoints : LET i == leaseTx IN
        /\ leases[i].gen < MaxGeneration
        /\ Cardinality(ActiveBeside(i)) < MaxActiveLeases
        /\ \A j \in ActiveBeside(i) : leases[j].endpoint # p
        /\ leases' = [leases EXCEPT ![i] =
                        [gen |-> @.gen + 1, status |-> "live", endpoint |-> p]]
        /\ \E R \in SUBSET {e \in Events : events[e] = "stored"} : jobs' = Backfill(R)
  /\ leaseTx' = None
  /\ UNCHANGED <<events, gated, matchers, outbox, owed, dropped>>

\* Stale, over quota, endpoint already leased, a constraint, or a failure.
RefuseLease ==
  /\ leaseTx # None
  /\ leaseTx' = None
  /\ UNCHANGED <<events, gated, leases, jobs, matchers, outbox, owed, dropped>>

\* accept_lease_event with an inactive body: no gate lock, but the author's.
RevokeLease(i) ==
  /\ leaseTx = None
  /\ leases[i].gen < MaxGeneration
  /\ leases' = [leases EXCEPT ![i] =
                  [gen |-> @.gen + 1, status |-> "revoked", endpoint |-> None]]
  /\ UNCHANGED <<events, gated, leaseTx, jobs, matchers, outbox, owed, dropped>>

\* expires_at passes.
ExpireLease(i) ==
  /\ leases[i].status \in {"live", "disabled"}
  /\ leases' = [leases EXCEPT ![i].status = "expired"]
  /\ UNCHANGED <<events, gated, leaseTx, jobs, matchers, outbox, owed, dropped>>

\* disable_endpoint_generation, called by the delivery worker.
DisableEndpoint(i) ==
  /\ Eligible(i)
  /\ leases' = [leases EXCEPT ![i].status = "disabled"]
  /\ UNCHANGED <<events, gated, leaseTx, jobs, matchers, outbox, owed, dropped>>

-----------------------------------------------------------------------------
(* Matchers *)

Lapsed(e) == jobs[e].state = "matching" /\ jobs[e].lapsed

\* The claim statement of claim_due_match_batch.
ClaimMatch(m, e) ==
  /\ matchers[m] = Idle
  /\ jobs[e].state = "pending" \/ Lapsed(e)
  /\ jobs[e].attempts < MaxMatchAttempts
  /\ jobs' = [jobs EXCEPT ![e] = [state |-> "matching", claim |-> m, lapsed |-> FALSE,
                                  attempts |-> @.attempts + 1]]
  /\ matchers' = [matchers EXCEPT ![m] = [pc |-> "load", event |-> e,
                                          attempt |-> jobs[e].attempts + 1, wakes |-> {}]]
  /\ UNCHANGED <<events, gated, leases, leaseTx, outbox, owed, dropped>>

\* The fence of every later statement on the job: claim_id and 'matching'.
HoldsClaim(m) == /\ jobs[matchers[m].event].state = "matching"
                 /\ jobs[matchers[m].event].claim = m

SetJob(m, job) ==
  jobs' = IF HoldsClaim(m) THEN [jobs EXCEPT ![matchers[m].event] = job] ELSE jobs

Goto(m, pc) == matchers' = [matchers EXCEPT ![m].pc = pc]
Rest(m) == matchers' = [matchers EXCEPT ![m] = Idle]

\* The load of the claimed events; the job of a deleted event is deleted.
LoadEvent(m) ==
  /\ matchers[m].pc = "load"
  /\ \/ /\ events[matchers[m].event] = "stored"
        /\ Goto(m, "context")
        /\ UNCHANGED jobs
     \/ /\ events[matchers[m].event] = "deleted"
        /\ SetJob(m, NoJob)
        /\ Rest(m)
  /\ UNCHANGED <<events, gated, leases, leaseTx, outbox, owed, dropped>>

\* match_job, or the enqueue, failed: the last attempt gives the job up.
FailJob(m) ==
  IF matchers[m].attempt >= MaxMatchAttempts
  THEN Goto(m, "complete") /\ dropped' = dropped \union {matchers[m].event}
  ELSE Goto(m, "retry") /\ UNCHANGED dropped

\* load_match_context, then match_job for every lease it read.
LoadContext(m) ==
  LET e == matchers[m].event
      matched == {<<i, leases[i].gen>> :
                    i \in {i \in Installations : Eligible(i) /\ <<i, e>> \in Wants}}
  IN /\ matchers[m].pc = "context"
     /\ \/ /\ matchers' = [matchers EXCEPT
                             ![m].pc = IF matched = {} THEN "complete" ELSE "enqueue",
                             ![m].wakes = matched]
           /\ UNCHANGED dropped
        \/ Goto(m, "retry") /\ UNCHANGED dropped
        \/ FailJob(m)
     /\ UNCHANGED <<events, gated, leases, leaseTx, jobs, outbox, owed>>

\* The rows enqueue_wakes inserts: the lease is still eligible at the matched
\* generation, and its endpoint has no row for the event yet.
NewWakes(m) ==
  LET e == matchers[m].event
      current == {w \in matchers[m].wakes : Eligible(w[1]) /\ leases[w[1]].gen = w[2]}
  IN {[endpoint |-> leases[w[1]].endpoint, event |-> e, inst |-> w[1], gen |-> w[2]] :
        w \in {w \in current :
                 \A r \in outbox : ~(r.endpoint = leases[w[1]].endpoint /\ r.event = e)}}

\* enqueue_wakes, one transaction.  An activation in progress has written
\* nothing that it could read; waiting for its row lock only orders the two.
EnqueueWakes(m) ==
  /\ matchers[m].pc = "enqueue"
  /\ \/ /\ outbox' = outbox \union NewWakes(m)
        /\ Goto(m, "complete")
        /\ UNCHANGED dropped
     \/ FailJob(m) /\ UNCHANGED outbox
  /\ UNCHANGED <<events, gated, leases, leaseTx, jobs, owed>>

\* complete_match_batch
CompleteMatch(m) ==
  /\ matchers[m].pc = "complete"
  /\ SetJob(m, NoJob)
  /\ Rest(m)
  /\ UNCHANGED <<events, gated, leases, leaseTx, outbox, owed, dropped>>

\* retry_match_batch
RetryMatch(m) ==
  /\ matchers[m].pc = "retry"
  /\ SetJob(m, [NewJob EXCEPT !.attempts = jobs[matchers[m].event].attempts])
  /\ Rest(m)
  /\ UNCHANGED <<events, gated, leases, leaseTx, outbox, owed, dropped>>

\* The relay dies, or a statement on the job fails: the claim is left to lapse.
CrashMatcher(m) ==
  /\ matchers[m] # Idle
  /\ Rest(m)
  /\ UNCHANGED <<events, gated, leases, leaseTx, jobs, outbox, owed, dropped>>

\* CLAIM_SECS pass.
LapseMatch(e) ==
  /\ jobs[e].state = "matching" /\ ~jobs[e].lapsed
  /\ jobs' = [jobs EXCEPT ![e].lapsed = TRUE]
  /\ UNCHANGED <<events, gated, leases, leaseTx, matchers, outbox, owed, dropped>>

\* Mutant: the sweep forgets the claims of dead matchers.
ReapPending(e) ==
  /\ jobs[e].attempts >= MaxMatchAttempts
  /\ jobs[e].state = "pending"
  /\ jobs' = [jobs EXCEPT ![e] = NoJob]
  /\ dropped' = dropped \union {e}
  /\ UNCHANGED <<events, gated, leases, leaseTx, matchers, outbox, owed>>

\* reap_exhausted_matches
Reap(e) ==
  /\ jobs[e].attempts >= MaxMatchAttempts
  /\ jobs[e].state = "pending" \/ Lapsed(e)
  /\ jobs' = [jobs EXCEPT ![e] = NoJob]
  /\ dropped' = dropped \union {e}
  /\ UNCHANGED <<events, gated, leases, leaseTx, matchers, outbox, owed>>

-----------------------------------------------------------------------------

MatcherStep(m) == \/ LoadEvent(m)
                  \/ LoadContext(m)
                  \/ EnqueueWakes(m)
                  \/ CompleteMatch(m)
                  \/ RetryMatch(m)

Next ==
  \/ \E e \in Events : \/ InsertEvent(e)
                       \/ CommitEvent(e)
                       \/ RollbackEvent(e)
                       \/ DeleteEvent(e)
                       \/ LapseMatch(e)
                       \/ Reap(e)
  \/ \E i \in Installations : \/ LockGate(i)
                              \/ RevokeLease(i)
                              \/ ExpireLease(i)
                              \/ DisableEndpoint(i)
  \/ Activate
  \/ RefuseLease
  \/ \E m \in Matchers : \/ \E e \in Events : ClaimMatch(m, e)
                         \/ MatcherStep(m)
                         \/ CrashMatcher(m)

Spec == Init /\ [][Next]_vars

\* The matcher loops run on, transactions end, claims lapse with the clock and
\* the sweep recurs every REAP_INTERVAL.  Crashes are not assumed to stop.
Fairness ==
  /\ WF_vars(Activate \/ RefuseLease)
  /\ \A m \in Matchers : WF_vars(MatcherStep(m))
  /\ \A e \in Events : /\ WF_vars(\E m \in Matchers : ClaimMatch(m, e))
                       /\ WF_vars(LapseMatch(e))
                       /\ WF_vars(Reap(e))

FairSpec == Spec /\ Fairness

-----------------------------------------------------------------------------
(* Properties *)

\* No wake is lost in the gate: an event committed while a lease was live has,
\* as long as that generation stays live, a job in the queue or a wake in the
\* outbox that the delivery worker can claim for this generation, unless its
\* job was given up after the last attempt (or the event was deleted).
WakeOwed ==
  \A o \in owed :
    LET i == o[1]
        e == o[3]
    IN /\ Eligible(i) /\ leases[i].gen = o[2]
       /\ <<i, e>> \in Wants
       /\ events[e] = "stored"
       /\ e \notin dropped
       => \/ jobs[e] # NoJob
          \/ \E r \in outbox : /\ r.endpoint = leases[i].endpoint /\ r.event = e
                               /\ r.inst = i /\ r.gen = o[2]

\* Whatever dies, and on whichever attempt, a job leaves the queue: a job that
\* stays pins the retention of its event's outbox rows.
JobsSettle == \A e \in Events : (jobs[e] # NoJob) ~> (jobs[e] = NoJob)
=============================================================================
