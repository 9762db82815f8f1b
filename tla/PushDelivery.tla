---------------------------- MODULE PushDelivery ----------------------------
(***************************************************************************)
(* From a durable wake to a notification: the wake outbox (buzz-db         *)
(* push.rs), the delivery workers of the relays (buzz-relay                *)
(* push_runtime.rs, run_delivery_worker and deliver_one) and the push      *)
(* gateway's delivery handler and authority store (buzz-push-gateway       *)
(* http.rs, postgres.rs).  The two sides share no state: a worker sends    *)
(* the wake's id as request_id and the lease's grant, and waits at most    *)
(* push_gateway_timeout; the gateway goes on without it.                   *)
(*                                                                         *)
(* One installation of one community is modelled.  Its lease generation is *)
(* the generation of the grant the lease carries.  Every attempt signs a   *)
(* new NIP-98 event, so the replay table of authorization events never     *)
(* refuses anything and is left out.  A worker claims up to 16 wakes at    *)
(* once and delivers them one after the other: that is a claim of each,    *)
(* and a wait before its delivery during which the claim may lapse.        *)
(*                                                                         *)
(* Nobody shares a clock.  The relay's database looks at the expiry of a   *)
(* wake by its own; each replica of the gateway by its own, and a request  *)
(* is admitted by the time read when it came in.                           *)
(***************************************************************************)
EXTENDS Naturals

CONSTANTS Wakes,          \* ids of outbox rows, each also a request_id
          Workers,        \* delivery workers, one per relay
          Replicas,       \* number of processes of the push gateway
          MaxGeneration,  \* bound on the generations clients obtain
          MaxAttempts,    \* MAX_ATTEMPTS
          MaxFaults,      \* bound on crashes, failed statements and slow workers
          None

ASSUME PushDeliveryAssumption ==
  /\ MaxGeneration \in Nat \ {0} /\ MaxAttempts \in Nat \ {0}
  /\ MaxFaults \in Nat /\ Replicas \in Nat \ {0}
  /\ None \notin Wakes \union Workers

VARIABLES lease,    \* the installation's row of push_leases
          member,   \* is the author in the wakes' channel
          outbox,   \* push_wake_outbox
          worker,   \* what each delivery worker is doing
          granted,  \* the last generation the gateway delegated
          honoured, \* the generation the gateway accepts, 0 for none
          fence,    \* request ids in push_gateway_delivery_request_replays
          late,     \* for each wake, on how many replicas expires_at has passed
          calls,    \* delivery requests on the way to, or inside, the gateway
          accepted, \* how often APNs told the gateway that it accepted each wake
          invalid,  \* generations APNs reported permanently invalid
          tried,    \* wakes that were ever sent to the gateway
          sweeps,   \* how often the sweep dropped the reservation of each wake
          faults    \* crashes and failed statements so far

relay == <<lease, member, outbox, worker>>
gateway == <<granted, honoured, fence, late>>
ghosts == <<invalid, tried, sweeps>>
vars == <<relay, gateway, calls, accepted, ghosts, faults>>

NoWake == [state |-> "none", gen |-> 0, claim |-> None, lapsed |-> FALSE,
           attempts |-> 0, void |-> FALSE]
Answers == {"accepted", "invalid_endpoint", "invalid_grant", "invalid_request",
            "unavailable", "broken"}
Idle == [pc |-> "idle", wake |-> None, attempt |-> 0, answer |-> None]

Init == /\ lease = [gen |-> 1, status |-> "live"]
        /\ member = TRUE
        /\ outbox = [w \in Wakes |-> NoWake]
        /\ worker = [k \in Workers |-> Idle]
        /\ granted = 1
        /\ honoured = 1
        /\ fence = {}
        /\ late = [w \in Wakes |-> 0]
        /\ calls = {}
        /\ accepted = [w \in Wakes |-> 0]
        /\ invalid = {}
        /\ tried = {}
        /\ sweeps = [w \in Wakes |-> 0]
        /\ faults = 0

-----------------------------------------------------------------------------
(* The installation: delegations at the gateway, leases at the relay *)

\* upsert_delegation: a higher generation replaces the delegation.
Delegate ==
  /\ granted < MaxGeneration
  /\ granted' = granted + 1
  /\ honoured' = granted + 1
  /\ UNCHANGED <<relay, fence, late, calls, accepted, ghosts, faults>>

\* revoke_delegation, rotate_endpoint or revoke_installation: no grant handed out
\* so far is accepted again.  (A delegation outlives every request sent under it:
\* deliver refuses an expires_at beyond that of the grant.)
Undelegate ==
  /\ honoured # 0
  /\ honoured' = 0
  /\ UNCHANGED <<relay, granted, fence, late, calls, accepted, ghosts, faults>>

\* accept_lease_event: a lease carrying the newest grant, or the revocation
\* that takes its generation.
ReplaceLease ==
  /\ lease.gen < granted
  /\ \E s \in {"live", "ended"} : lease' = [gen |-> granted, status |-> s]
  /\ UNCHANGED <<member, outbox, worker, gateway, calls, accepted, ghosts, faults>>

\* expires_at of the lease passes.
ExpireLease ==
  /\ lease.status # "ended"
  /\ lease' = [lease EXCEPT !.status = "ended"]
  /\ UNCHANGED <<member, outbox, worker, gateway, calls, accepted, ghosts, faults>>

\* The author leaves the channel.  Only CheckMember looks at that, so it is
\* enough to let it happen while a worker is about to.
Leave ==
  /\ member
  /\ \E k \in Workers : worker[k].pc = "member"
  /\ member' = FALSE
  /\ UNCHANGED <<lease, outbox, worker, gateway, calls, accepted, ghosts, faults>>

\* enqueue_wakes, for the current generation of the lease.
Enqueue(w) ==
  /\ outbox[w] = NoWake
  /\ lease.status = "live"
  /\ outbox' = [outbox EXCEPT ![w] = [NoWake EXCEPT !.state = "pending", !.gen = lease.gen]]
  /\ UNCHANGED <<lease, member, worker, gateway, calls, accepted, ghosts, faults>>

\* expires_at of the row passes on the clock of the relay's database, or the
\* wake's event is deleted.
VoidWake(w) ==
  /\ outbox[w].state \in {"pending", "sending"} /\ ~outbox[w].void
  /\ outbox' = [outbox EXCEPT ![w].void = TRUE]
  /\ UNCHANGED <<lease, member, worker, gateway, calls, accepted, ghosts, faults>>

-----------------------------------------------------------------------------
(* Claims *)

\* The join with push_leases and events that claim and revalidation share.
Current(w) == /\ lease.status = "live"
              /\ lease.gen = outbox[w].gen
              /\ ~outbox[w].void

\* Mutant: claims of dead workers are not recovered.
DuePending(w) == /\ Current(w)
                 /\ outbox[w].state = "pending"

Due(w) == /\ Current(w)
          /\ \/ outbox[w].state = "pending"
             \/ outbox[w].state = "sending" /\ outbox[w].lapsed

\* claim_due_wakes.  The attempt a worker goes by is the one it claimed.
ClaimWake(k, w) ==
  /\ worker[k] = Idle
  /\ Due(w)
  /\ outbox' = [outbox EXCEPT ![w].state = "sending", ![w].claim = k,
                              ![w].lapsed = FALSE, ![w].attempts = @ + 1]
  /\ worker' = [worker EXCEPT ![k] = [pc |-> "claimed", wake |-> w,
                                      attempt |-> outbox[w].attempts + 1, answer |-> None]]
  /\ UNCHANGED <<lease, member, gateway, calls, accepted, ghosts, faults>>

\* CLAIM_SECS pass.  That happens to every claim a worker died on or gave up;
\* a worker that is only slow counts as a fault.
LapseClaim(w) ==
  /\ outbox[w].state = "sending" /\ ~outbox[w].lapsed
  /\ IF worker[outbox[w].claim].wake = w
     THEN faults < MaxFaults /\ faults' = faults + 1
     ELSE UNCHANGED faults
  /\ outbox' = [outbox EXCEPT ![w].lapsed = TRUE]
  /\ UNCHANGED <<lease, member, worker, gateway, calls, accepted, ghosts>>

Holds(k, w) == outbox[w].state = "sending" /\ outbox[w].claim = k

\* Mutant: a worker settles its wake without looking at the claim.
SettleUnfenced(k, w, state) ==
  outbox' = [outbox EXCEPT ![w].state = state, ![w].claim = None, ![w].lapsed = FALSE]

\* complete_wake, fail_wake and retry_wake: nothing happens to a row whose
\* claim is no longer the worker's.
Settle(k, w, state) ==
  outbox' = IF Holds(k, w)
            THEN [outbox EXCEPT ![w].state = state, ![w].claim = None, ![w].lapsed = FALSE]
            ELSE outbox

\* deliver_one returned.
Done(k) == worker' = [worker EXCEPT ![k] = Idle]

Goto(k, pc) == worker' = [worker EXCEPT ![k].pc = pc]

-----------------------------------------------------------------------------
(* deliver_one *)

\* revalidate_wake_for_send: the claim is held and has not lapsed, and the
\* lease is still the wake's.
Valid(k, w) == Holds(k, w) /\ ~outbox[w].lapsed /\ Current(w)

Revalidate(k) ==
  LET w == worker[k].wake
  IN /\ worker[k].pc = "claimed"
     /\ IF Valid(k, w)
        THEN Goto(k, "member") /\ UNCHANGED outbox
        ELSE Settle(k, w, "failed") /\ Done(k)
     /\ UNCHANGED <<lease, member, gateway, calls, accepted, ghosts, faults>>

CheckMember(k) ==
  /\ worker[k].pc = "member"
  /\ IF member
     THEN Goto(k, "final") /\ UNCHANGED outbox
     ELSE Settle(k, worker[k].wake, "failed") /\ Done(k)
  /\ UNCHANGED <<lease, member, gateway, calls, accepted, ghosts, faults>>

\* is_member failed: the wake goes back to the queue.
MemberUnknown(k) ==
  /\ worker[k].pc = "member"
  /\ faults < MaxFaults
  /\ faults' = faults + 1
  /\ Settle(k, worker[k].wake, "pending")
  /\ Done(k)
  /\ UNCHANGED <<lease, member, gateway, calls, accepted, ghosts>>

\* The final revalidation, the last statement before send_gateway_request.
RevalidateFinal(k) ==
  LET w == worker[k].wake
  IN /\ worker[k].pc = "final"
     /\ IF Valid(k, w)
        THEN /\ calls' = calls \union {[wake |-> w, attempt |-> worker[k].attempt,
                                          stage |-> "arriving", waiter |-> k]}
             /\ tried' = tried \union {w}
             /\ Goto(k, "wait")
             /\ UNCHANGED outbox
        ELSE Settle(k, w, "failed") /\ Done(k) /\ UNCHANGED <<calls, tried>>
     /\ UNCHANGED <<lease, member, gateway, accepted, invalid, sweeps, faults>>

\* A revalidation statement failed, or the request could not be signed:
\* deliver_one returns, the claim stays.
RevalidateError(k) ==
  /\ worker[k].pc \in {"claimed", "final"}
  /\ faults < MaxFaults
  /\ faults' = faults + 1
  /\ Done(k)
  /\ UNCHANGED <<lease, member, outbox, gateway, calls, accepted, ghosts>>

\* retry_or_fail
RetryOrFail(k) == IF worker[k].attempt >= MaxAttempts THEN "failed" ELSE "pending"

\* push_gateway_timeout passes or no connection came about, which is retried,
\* or the connection broke, which is not: the worker stops waiting, and the
\* request may or may not go on without it.
GiveUpWaiting(k) ==
  /\ worker[k].pc = "wait"
  /\ \E c \in calls :
       /\ c.waiter = k
       /\ \/ calls' = (calls \ {c}) \union {[c EXCEPT !.waiter = None]}
          \/ c.stage # "sending" /\ calls' = calls \ {c}
  /\ \E s \in {RetryOrFail(k), "failed"} : Settle(k, worker[k].wake, s)
  /\ Done(k)
  /\ UNCHANGED <<lease, member, gateway, accepted, ghosts, faults>>

\* The state an answer leaves the wake in.  A refusal of a later attempt counts
\* as delivered: an earlier one may have burned the request id.
StateAfter(k) ==
  CASE worker[k].answer = "accepted" -> "delivered"
    [] worker[k].answer = "unavailable" -> RetryOrFail(k)
    [] worker[k].answer = "invalid_grant" /\ worker[k].attempt > 1 -> "delivered"
    [] OTHER -> "failed"

\* Mutant: the answer disables whatever generation is current.
DisableAny(k) == [lease EXCEPT !.status = "disabled"]

\* disable_endpoint_generation: only the generation the answer is about.
Disable(k) ==
  IF outbox[worker[k].wake].gen = lease.gen /\ lease.status = "live"
  THEN [lease EXCEPT !.status = "disabled"]
  ELSE lease

LeaseAfter(k) == IF worker[k].answer = "invalid_endpoint" THEN Disable(k) ELSE lease

HandleAnswer(k) ==
  /\ worker[k].pc = "answered"
  /\ lease' = LeaseAfter(k)
  /\ Settle(k, worker[k].wake, StateAfter(k))
  /\ Done(k)
  /\ UNCHANGED <<member, gateway, calls, accepted, ghosts, faults>>

\* One of the two statements failed, which nobody looks at.
HandleAnswerPartly(k) ==
  /\ worker[k].pc = "answered"
  /\ faults < MaxFaults
  /\ faults' = faults + 1
  /\ \/ lease' = LeaseAfter(k) /\ UNCHANGED outbox
     \/ Settle(k, worker[k].wake, StateAfter(k)) /\ UNCHANGED lease
  /\ Done(k)
  /\ UNCHANGED <<member, gateway, calls, accepted, ghosts>>

\* The relay dies, or its statement on the wake fails: the claim is left to
\* lapse.
CrashWorker(k) ==
  /\ worker[k] # Idle
  /\ faults < MaxFaults
  /\ faults' = faults + 1
  /\ worker' = [worker EXCEPT ![k] = Idle]
  /\ calls' = {IF c.waiter = k THEN [c EXCEPT !.waiter = None] ELSE c : c \in calls}
  /\ UNCHANGED <<lease, member, outbox, gateway, accepted, ghosts>>

-----------------------------------------------------------------------------
(* The gateway *)

Answer(c, a) ==
  worker' = IF c.waiter = None THEN worker
            ELSE [worker EXCEPT ![c.waiter].pc = "answered", ![c.waiter].answer = a]

\* expires_at of a wake passes on the clock of one more replica.
PassExpiry(w) ==
  /\ outbox[w].state # "none" /\ late[w] < Replicas
  /\ late' = [late EXCEPT ![w] = @ + 1]
  /\ UNCHANGED <<relay, granted, honoured, fence, calls, accepted, ghosts, faults>>

\* deliver reads the clock of its replica once; what follows goes by that time.
CheckExpiry(c) ==
  /\ c.stage = "arriving"
  /\ late[c.wake] < Replicas
  /\ calls' = (calls \ {c}) \union {[c EXCEPT !.stage = "checked"]}
  /\ UNCHANGED <<relay, gateway, accepted, ghosts, faults>>

\* Mutant: admits a request id that is already reserved.
AdmissibleTwice(c) == honoured = outbox[c.wake].gen

\* authorize_delivery, whose transaction begins and gets its two row locks some
\* time later: the grant is honoured (a row keeps its generation) and the
\* request's id is not reserved.
Admissible(c) == honoured = outbox[c.wake].gen /\ c.wake \notin fence

\* Admission commits the reservation before anything is sent.
Admit(c) ==
  /\ c.stage = "checked"
  /\ Admissible(c)
  /\ fence' = fence \union {c.wake}
  /\ calls' = (calls \ {c}) \union {[c EXCEPT !.stage = "sending"]}
  /\ UNCHANGED <<relay, granted, honoured, late, accepted, ghosts, faults>>

\* 404: the request has expired or is not admissible, or the endpoint's quota
\* is used up, which depends on the clock and on other relays.  503: the store
\* failed.
Refuse(c) ==
  /\ \/ c.stage = "arriving" /\ late[c.wake] > 0 /\ Answer(c, "invalid_grant")
     \/ c.stage = "checked" /\ Answer(c, "invalid_grant")
     \/ c.stage = "checked" /\ Answer(c, "unavailable")
  /\ calls' = calls \ {c}
  /\ UNCHANGED <<lease, member, outbox, gateway, accepted, ghosts, faults>>

\* Outcomes that are DeliveryDisposition::Terminal keep the request id.
TerminalOutcomes == {"accepted", "invalid_endpoint", "invalid_request"}

\* APNs answered the detached task, which finishes the permit and then answers
\* a worker that still waits.  A retryable outcome deletes the reservation of the
\* request's id, whoever made it.
Finish(c, outcome) ==
  /\ c.stage = "sending"
  /\ accepted' = IF outcome = "accepted" THEN [accepted EXCEPT ![c.wake] = @ + 1] ELSE accepted
  /\ invalid' = IF outcome = "invalid_endpoint" THEN invalid \union {outbox[c.wake].gen} ELSE invalid
  /\ fence' = IF outcome \in TerminalOutcomes THEN fence ELSE fence \ {c.wake}
  /\ Answer(c, outcome)
  /\ calls' = calls \ {c}
  /\ UNCHANGED <<lease, member, outbox, granted, honoured, late, tried, sweeps, faults>>

\* The gateway dies between admission and disposition, or cannot store the
\* disposition: the reservation stays, whatever APNs did.
Abandon(c) ==
  /\ c.stage = "sending"
  /\ faults < MaxFaults
  /\ faults' = faults + 1
  /\ \/ UNCHANGED accepted
     \/ accepted' = [accepted EXCEPT ![c.wake] = @ + 1]
  /\ Answer(c, "unavailable") \/ Answer(c, "broken")
  /\ calls' = calls \ {c}
  /\ UNCHANGED <<lease, member, outbox, gateway, ghosts>>

\* reap_expired, on any replica and by its clock: reservations of expired
\* requests, also of those that are still being sent or are about to be
\* admitted again.
ReapFence(w) ==
  /\ w \in fence
  /\ late[w] > 0
  /\ fence' = fence \ {w}
  /\ sweeps' = [sweeps EXCEPT ![w] = @ + 1]
  /\ UNCHANGED <<relay, granted, honoured, late, calls, accepted, invalid, tried, faults>>

-----------------------------------------------------------------------------

TypeOK ==
  /\ lease \in [gen : 1 .. MaxGeneration, status : {"live", "disabled", "ended"}]
  /\ member \in BOOLEAN
  /\ outbox \in [Wakes -> [state : {"none", "pending", "sending", "delivered", "failed"},
                           gen : 0 .. MaxGeneration, claim : Workers \union {None},
                           lapsed : BOOLEAN, attempts : Nat, void : BOOLEAN]]
  /\ worker \in [Workers -> [pc : {"idle", "claimed", "member", "final", "wait", "answered"},
                             wake : Wakes \union {None}, attempt : Nat,
                             answer : Answers \union {None}]]
  /\ granted \in 1 .. MaxGeneration /\ honoured \in 0 .. MaxGeneration
  /\ fence \subseteq Wakes
  /\ late \in [Wakes -> 0 .. Replicas]
  /\ calls \subseteq [wake : Wakes, attempt : Nat, stage : {"arriving", "checked", "sending"},
                      waiter : Workers \union {None}]
  /\ accepted \in [Wakes -> Nat]
  /\ invalid \subseteq 0 .. MaxGeneration
  /\ tried \subseteq Wakes
  /\ sweeps \in [Wakes -> Nat]
  /\ faults \in 0 .. MaxFaults

WorkerStep(k) == \/ Revalidate(k)
                 \/ CheckMember(k)
                 \/ RevalidateFinal(k)
                 \/ GiveUpWaiting(k)
                 \/ HandleAnswer(k)

GatewayStep == \E c \in calls :
                 \/ CheckExpiry(c)
                 \/ Admit(c)
                 \/ Refuse(c)
                 \/ \E o \in TerminalOutcomes \union {"unavailable"} : Finish(c, o)

Next == \/ Delegate
        \/ Undelegate
        \/ ReplaceLease
        \/ ExpireLease
        \/ Leave
        \/ \E w \in Wakes : \/ Enqueue(w)
                            \/ VoidWake(w)
                            \/ LapseClaim(w)
                            \/ PassExpiry(w)
                            \/ ReapFence(w)
        \/ \E k \in Workers : \/ \E w \in Wakes : ClaimWake(k, w)
                              \/ WorkerStep(k)
                              \/ MemberUnknown(k)
                              \/ RevalidateError(k)
                              \/ HandleAnswerPartly(k)
                              \/ CrashWorker(k)
        \/ GatewayStep
        \/ \E c \in calls : Abandon(c)

Spec == Init /\ [][Next]_vars

\* The worker loops run on (a crashed relay restarts its own), their requests
\* are answered or time out, and claims lapse with the clock.
Fairness == /\ \A k \in Workers : WF_vars(WorkerStep(k))
            /\ \A w \in Wakes : /\ WF_vars(LapseClaim(w))
                               /\ WF_vars(\E k \in Workers : ClaimWake(k, w))

FairSpec == Spec /\ Fairness

-----------------------------------------------------------------------------
(* Properties *)

\* One notification per reservation: however workers retry, time out, lose their
\* claims and send the same wake again, the gateway learns at most once that
\* APNs accepted it, as long as its reservation is not swept; and each sweep, by
\* whatever clock, lets at most one more through, although a request that was
\* checked before the sweep is admitted after it and a retryable outcome
\* deletes reservations that are not its own.  (An acceptance whose answer is
\* lost on the way from APNs is a transient outcome to the gateway, and is sent
\* again.)
OneAcceptedPerReservation == \A w \in Wakes : accepted[w] <= 1 + sweeps[w]

\* A late or stale 410 never switches off a newer generation: the lease is
\* disabled only for a generation that APNs reported invalid.
DisabledWasInvalid == lease.status = "disabled" => lease.gen \in invalid

\* A settled wake stays settled: no worker whose claim was taken over brings it
\* back or changes its outcome.
SettledStays ==
  [][\A w \in Wakes : outbox[w].state \in {"delivered", "failed"}
                        => outbox'[w].state = outbox[w].state]_vars

\* Every wake of a live lease is settled in the end, whichever workers die.
WakeSettles ==
  \A w \in Wakes :
    (outbox[w].state \in {"pending", "sending"})
      ~> (outbox[w].state \in {"delivered", "failed"} \/ ~Current(w))

\* A wake whose author may still be woken fails only after it was sent: a claim
\* that lapsed before the wake's turn leaves it to the next claim.
FailedWasTried ==
  [][\A w \in Wakes :
       (outbox[w].state = "sending" /\ outbox'[w].state = "failed" /\ w \notin tried)
         => ~Current(w) \/ ~member]_vars
=============================================================================
