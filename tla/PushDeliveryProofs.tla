------------------------- MODULE PushDeliveryProofs -------------------------
(***************************************************************************)
(* Proofs about PushDelivery for any number of wakes, workers, attempts,   *)
(* generations and faults.                                                 *)
(*                                                                         *)
(* The argument for OneAcceptedPerReservation counts: the requests of a    *)
(* wake that are being sent, together with those APNs accepted, are no     *)
(* more than the reservations that were swept plus the one that stands.    *)
(* Admission adds one to both sides, the sweep moves the standing one to   *)
(* the swept ones, and a retryable outcome takes at least as much from the *)
(* left as from the right. For DisabledWasInvalid: a worker that was       *)
(* answered 410 works on a wake whose generation APNs has reported, and a  *)
(* row of the outbox keeps its generation.                                 *)
(***************************************************************************)
EXTENDS PushDelivery, FiniteSets, FiniteSetTheorems, TLAPS

RowStates == {"none", "pending", "sending", "delivered", "failed"}
Row == [state : RowStates, gen : 0 .. MaxGeneration, claim : Workers \union {None},
        lapsed : BOOLEAN, attempts : Nat, void : BOOLEAN]
WorkerState == [pc : {"idle", "claimed", "member", "final", "wait", "answered"},
                wake : Wakes \union {None}, attempt : Nat, answer : Answers \union {None}]
Call == [wake : Wakes, attempt : Nat, stage : {"arriving", "checked", "sending"},
         waiter : Workers \union {None}]

\* A call nobody waits for any more.
Orphan(c) == [c EXCEPT !.waiter = None]

\* What every step does to the outbox.
OutboxStep ==
  /\ outbox' \in [Wakes -> Row]
  /\ \A w \in Wakes :
       /\ outbox[w].state # "none" => /\ outbox'[w].state # "none"
                                      /\ outbox'[w].gen = outbox[w].gen
       /\ outbox[w].state \in {"delivered", "failed"} => outbox'[w].state = outbox[w].state

\* A busy worker has a wake that is in the outbox.
BusyHasWake ==
  \A k \in Workers : worker[k].pc # "idle" =>
    worker[k].wake \in Wakes /\ outbox[worker[k].wake].state # "none"

\* A request somebody waits for is the one request of that worker.
WaitedFor ==
  /\ \A c \in calls : c.waiter # None => /\ worker[c.waiter].pc = "wait"
                                         /\ worker[c.waiter].wake = c.wake
  /\ \A c, d \in calls : c.waiter # None /\ c.waiter = d.waiter => c = d

\* A worker that was answered 410 was answered about its wake's generation.
AnsweredTruly ==
  \A k \in Workers : worker[k].pc = "answered" /\ worker[k].answer = "invalid_endpoint"
    => outbox[worker[k].wake].gen \in invalid

\* The requests of a wake that were admitted and not answered by APNs yet, and
\* the reservation of its id that stands.
Sent(w) == {c \in calls : c.stage = "sending" /\ c.wake = w}
Reserved(w) == IF w \in fence THEN 1 ELSE 0

FenceHolds ==
  /\ IsFiniteSet(calls)
  /\ \A w \in Wakes : Cardinality(Sent(w)) + accepted[w] <= sweeps[w] + Reserved(w)

DeliveryInv == /\ TypeOK
               /\ BusyHasWake
               /\ WaitedFor
               /\ AnsweredTruly
               /\ FenceHolds
               /\ DisabledWasInvalid

-----------------------------------------------------------------------------

\* The rows and workers of TypeOK by the names used here.
LEMMA Types ==
  TypeOK <=> /\ lease \in [gen : 1 .. MaxGeneration, status : {"live", "disabled", "ended"}]
             /\ member \in BOOLEAN
             /\ outbox \in [Wakes -> Row]
             /\ worker \in [Workers -> WorkerState]
             /\ granted \in 1 .. MaxGeneration /\ honoured \in 0 .. MaxGeneration
             /\ fence \subseteq Wakes
             /\ late \in [Wakes -> 0 .. Replicas]
             /\ calls \subseteq Call
             /\ accepted \in [Wakes -> Nat]
             /\ invalid \subseteq 0 .. MaxGeneration
             /\ tried \subseteq Wakes
             /\ sweeps \in [Wakes -> Nat]
             /\ faults \in 0 .. MaxFaults
BY DEF TypeOK, Row, RowStates, WorkerState, Call

\* A step that replaces one row by a legal successor of it.
LEMMA RowStep ==
  ASSUME TypeOK, NEW w \in Wakes, NEW row \in Row,
         outbox' = [outbox EXCEPT ![w] = row],
         outbox[w].state # "none" => row.state # "none" /\ row.gen = outbox[w].gen,
         outbox[w].state \in {"delivered", "failed"} => row.state = outbox[w].state
  PROVE  OutboxStep
<1>1. outbox \in [Wakes -> Row]
  BY Types
<1>2. outbox' \in [Wakes -> Row]
  BY <1>1
<1>3. \A v \in Wakes : outbox'[v] = IF v = w THEN row ELSE outbox[v]
  BY <1>1
<1> QED BY <1>2, <1>3 DEF OutboxStep

\* Settling a wake is a legal step of the outbox, whoever tries it.
LEMMA SettleStep ==
  ASSUME TypeOK, NEW k \in Workers, NEW w \in Wakes,
         NEW s \in {"pending", "delivered", "failed"}, Settle(k, w, s)
  PROVE  OutboxStep
<1> DEFINE row == [outbox[w] EXCEPT !.state = s, !.claim = None, !.lapsed = FALSE]
<1>1. outbox[w] \in Row
  BY Types
<1>2. row \in Row /\ row.state = s /\ row.gen = outbox[w].gen
  BY <1>1 DEF Row, RowStates
<1>3. CASE Holds(k, w)
  <2>1. outbox' = [outbox EXCEPT ![w] = row]
    BY <1>3, Types DEF Settle
  <2>2. outbox[w].state = "sending"
    BY <1>3 DEF Holds
  <2> HIDE DEF row
  <2> QED BY <1>2, <2>1, <2>2, RowStep
<1>4. CASE ~Holds(k, w)
  BY <1>4, Types DEF Settle, OutboxStep
<1> QED BY <1>3, <1>4

\* An unchanged outbox is a legal step.
LEMMA SameOutbox ==
  ASSUME TypeOK, UNCHANGED outbox
  PROVE  OutboxStep
BY Types DEF OutboxStep

\* The states a worker can leave its wake in.
LEMMA OutcomeStates ==
  ASSUME NEW k \in Workers
  PROVE  /\ RetryOrFail(k) \in {"pending", "delivered", "failed"}
         /\ StateAfter(k) \in {"pending", "delivered", "failed"}
BY DEF RetryOrFail, StateAfter

\* Every step is a legal step of the outbox.
LEMMA OutboxMoves ==
  ASSUME DeliveryInv, [Next]_vars
  PROVE  OutboxStep
<1> USE DEF DeliveryInv
<1>1. ASSUME NEW w \in Wakes, Enqueue(w) PROVE OutboxStep
  <2> DEFINE row == [NoWake EXCEPT !.state = "pending", !.gen = lease.gen]
  <2>a. lease.gen \in 0 .. MaxGeneration
    BY Types, PushDeliveryAssumption
  <2>b. outbox[w].state = "none"
    BY <1>1 DEF Enqueue, NoWake
  <2>c. NoWake \in Row
    BY PushDeliveryAssumption DEF NoWake, Row, RowStates
  <2>1. row \in Row /\ row.state = "pending"
    BY <2>a, <2>c DEF Row, RowStates
  <2>2. outbox' = [outbox EXCEPT ![w] = row]
    BY <1>1 DEF Enqueue
  <2> HIDE DEF row
  <2> QED BY <2>1, <2>2, <2>b, RowStep
<1>2. ASSUME NEW w \in Wakes, VoidWake(w) \/ LapseClaim(w) PROVE OutboxStep
  <2>0. outbox[w] \in Row
    BY Types
  <2>1. CASE VoidWake(w)
    <3> DEFINE row == [outbox[w] EXCEPT !.void = TRUE]
    <3>1. row \in Row /\ row.state = outbox[w].state /\ row.gen = outbox[w].gen
      BY <2>0 DEF Row
    <3>2. outbox' = [outbox EXCEPT ![w] = row]
      BY <2>1, Types DEF VoidWake
    <3> HIDE DEF row
    <3> QED BY <3>1, <3>2, RowStep
  <2>2. CASE LapseClaim(w)
    <3> DEFINE row == [outbox[w] EXCEPT !.lapsed = TRUE]
    <3>1. row \in Row /\ row.state = outbox[w].state /\ row.gen = outbox[w].gen
      BY <2>0 DEF Row
    <3>2. outbox' = [outbox EXCEPT ![w] = row]
      BY <2>2, Types DEF LapseClaim
    <3> HIDE DEF row
    <3> QED BY <3>1, <3>2, RowStep
  <2> QED BY <1>2, <2>1, <2>2
<1>3. ASSUME NEW k \in Workers, NEW w \in Wakes, ClaimWake(k, w) PROVE OutboxStep
  BY <1>3, Types DEF ClaimWake, Due, OutboxStep, Row, RowStates
<1>4. ASSUME NEW k \in Workers, worker[k].pc # "idle" PROVE worker[k].wake \in Wakes
  BY <1>4 DEF BusyHasWake
<1>5. ASSUME NEW k \in Workers, WorkerStep(k) PROVE OutboxStep
  <2> USE <1>4, SettleStep, SameOutbox, OutcomeStates
  <2>1. CASE Revalidate(k)
    BY <2>1 DEF Revalidate
  <2>2. CASE CheckMember(k)
    BY <2>2 DEF CheckMember
  <2>3. CASE RevalidateFinal(k)
    BY <2>3 DEF RevalidateFinal
  <2>4. CASE GiveUpWaiting(k)
    BY <2>4 DEF GiveUpWaiting
  <2>5. CASE HandleAnswer(k)
    BY <2>5 DEF HandleAnswer
  <2> QED BY <1>5, <2>1, <2>2, <2>3, <2>4, <2>5 DEF WorkerStep
<1>6. ASSUME NEW k \in Workers, MemberUnknown(k) \/ HandleAnswerPartly(k) PROVE OutboxStep
  BY <1>6, <1>4, SettleStep, SameOutbox, OutcomeStates DEF MemberUnknown, HandleAnswerPartly
<1>7. ASSUME UNCHANGED outbox PROVE OutboxStep
  BY <1>7, SameOutbox
<1> QED
  BY <1>1, <1>2, <1>3, <1>5, <1>6, <1>7
  DEF Next, vars, relay, gateway, Delegate, Undelegate, ReplaceLease, ExpireLease, Leave,
      PassExpiry, ReapFence, RevalidateError, CrashWorker, GatewayStep, CheckExpiry, Admit,
      Refuse, Finish, Abandon

-----------------------------------------------------------------------------

\* A worker moves on, and the calls are as they were.
LEMMA WorkerTypes ==
  ASSUME TypeOK, NEW k \in Workers
  PROVE  /\ [worker EXCEPT ![k] = Idle] \in [Workers -> WorkerState]
         /\ \A pc \in {"member", "final", "wait"} :
              [worker EXCEPT ![k].pc = pc] \in [Workers -> WorkerState]
<1>1. worker \in [Workers -> WorkerState] /\ worker[k] \in WorkerState
  BY Types
<1>2. Idle \in WorkerState
  BY DEF Idle, WorkerState
<1>3. \A pc \in {"member", "final", "wait"} : [worker[k] EXCEPT !.pc = pc] \in WorkerState
  BY <1>1 DEF WorkerState
<1> QED BY <1>1, <1>2, <1>3

\* An answer leaves the workers well typed.
LEMMA AnswerTypes ==
  ASSUME TypeOK, NEW c \in calls, NEW a \in Answers, Answer(c, a)
  PROVE  worker' \in [Workers -> WorkerState]
<1>1. worker \in [Workers -> WorkerState] /\ c.waiter \in Workers \union {None}
  BY Types DEF Call
<1>2. CASE c.waiter = None
  BY <1>1, <1>2 DEF Answer
<1>3. CASE c.waiter # None
  <2> DEFINE k == c.waiter
             new == [worker[k] EXCEPT !.pc = "answered", !.answer = a]
  <2>1. k \in Workers /\ worker[k] \in WorkerState
    BY <1>1, <1>3
  <2>2. new \in WorkerState
    BY <2>1 DEF WorkerState
  <2>3. worker' = [worker EXCEPT ![k] = new]
    BY <1>1, <1>3 DEF Answer
  <2> HIDE DEF k, new
  <2> QED BY <1>1, <2>2, <2>3
<1> QED BY <1>2, <1>3

\* The shape of a call.
LEMMA CallShape ==
  ASSUME TypeOK, NEW c \in calls
  PROVE  c \in Call /\ c.wake \in Wakes /\ c.waiter \in Workers \union {None}
BY Types DEF Call

\* A call that goes on unattended, and a call that comes to its next stage.
LEMMA CallEdits ==
  ASSUME NEW c \in Call
  PROVE  /\ Orphan(c) \in Call
         /\ Orphan(c).wake = c.wake
         /\ Orphan(c).stage = c.stage
         /\ Orphan(c).waiter = None
         /\ \A s \in {"checked", "sending"} :
              /\ [c EXCEPT !.stage = s] \in Call
              /\ [c EXCEPT !.stage = s].wake = c.wake
              /\ [c EXCEPT !.stage = s].stage = s
              /\ [c EXCEPT !.stage = s].waiter = c.waiter
BY DEF Call, Orphan

\* At most so many elements, when one is replaced, and when one is added.
LEMMA ReplaceOne ==
  ASSUME NEW S, IsFiniteSet(S), NEW x \in S, NEW y, NEW T \in SUBSET ((S \ {x}) \union {y})
  PROVE  IsFiniteSet(T) /\ Cardinality(T) <= Cardinality(S)
<1>1. IsFiniteSet(S \ {x}) /\ Cardinality(S \ {x}) = Cardinality(S) - 1
  BY FS_RemoveElement
<1>2. /\ IsFiniteSet((S \ {x}) \union {y})
      /\ Cardinality((S \ {x}) \union {y}) \in {Cardinality(S) - 1, Cardinality(S) - 1 + 1}
  BY <1>1, FS_AddElement
<1>3. IsFiniteSet(T) /\ Cardinality(T) <= Cardinality((S \ {x}) \union {y})
  BY <1>2, FS_Subset
<1>4. Cardinality(S) \in Nat /\ Cardinality(T) \in Nat
  BY <1>3, FS_CardinalityType
<1> QED BY <1>2, <1>3, <1>4

LEMMA AddOne ==
  ASSUME NEW S, IsFiniteSet(S), NEW y, NEW T \in SUBSET (S \union {y})
  PROVE  IsFiniteSet(T) /\ Cardinality(T) <= Cardinality(S) + 1
<1>1. /\ IsFiniteSet(S \union {y})
      /\ Cardinality(S \union {y}) \in {Cardinality(S), Cardinality(S) + 1}
  BY FS_AddElement
<1>2. IsFiniteSet(T) /\ Cardinality(T) <= Cardinality(S \union {y})
  BY <1>1, FS_Subset
<1>3. Cardinality(S) \in Nat /\ Cardinality(T) \in Nat
  BY <1>2, FS_CardinalityType
<1> QED BY <1>1, <1>2, <1>3

\* What is being sent is finite, so that it can be counted.
LEMMA SentFinite ==
  ASSUME DeliveryInv, NEW w \in Wakes
  PROVE  IsFiniteSet(Sent(w)) /\ Cardinality(Sent(w)) \in Nat
<1>1. Sent(w) \in SUBSET calls /\ IsFiniteSet(calls)
  BY DEF Sent, DeliveryInv, FenceHolds
<1> QED BY <1>1, FS_Subset, FS_CardinalityType

\* The fence while reservations and outcomes stay, and no more is being sent.
LEMMA FenceFrame ==
  ASSUME DeliveryInv, UNCHANGED <<fence, accepted, sweeps>>, IsFiniteSet(calls'),
         \A w \in Wakes : Cardinality(Sent(w)') <= Cardinality(Sent(w))
  PROVE  FenceHolds'
<1>1. ASSUME NEW w \in Wakes
      PROVE  Cardinality(Sent(w)') + accepted'[w] <= sweeps'[w] + Reserved(w)'
  <2> DEFINE new == Cardinality(Sent(w)')
             old == Cardinality(Sent(w))
  <2>1. Sent(w)' \in SUBSET calls'
    BY DEF Sent
  <2>2. new \in Nat /\ old \in Nat /\ new <= old
    BY <2>1, SentFinite, FS_Subset, FS_CardinalityType
  <2>3. /\ accepted'[w] = accepted[w] /\ accepted[w] \in Nat
        /\ sweeps'[w] = sweeps[w] /\ sweeps[w] \in Nat
        /\ Reserved(w)' = Reserved(w) /\ Reserved(w) \in Nat
    BY Types DEF DeliveryInv, Reserved
  <2>4. old + accepted[w] <= sweeps[w] + Reserved(w)
    BY DEF DeliveryInv, FenceHolds
  <2> HIDE DEF new, old
  <2>5. new + accepted'[w] <= sweeps'[w] + Reserved(w)'
    BY <2>2, <2>3, <2>4
  <2> QED BY <2>5 DEF new
<1> QED BY <1>1 DEF FenceHolds

\* The same, when calls only leave.
LEMMA CallsLeave ==
  ASSUME DeliveryInv, UNCHANGED <<fence, accepted, sweeps>>, calls' \in SUBSET calls
  PROVE  FenceHolds'
<1>1. IsFiniteSet(calls')
  BY FS_Subset DEF DeliveryInv, FenceHolds
<1>2. ASSUME NEW w \in Wakes PROVE Cardinality(Sent(w)') <= Cardinality(Sent(w))
  <2>1. Sent(w)' \in SUBSET Sent(w)
    BY DEF Sent
  <2> QED BY <2>1, SentFinite, FS_Subset
<1> QED BY <1>1, <1>2, FenceFrame

\* The same, when a call is replaced by one that is not being sent if it was not.
LEMMA CallReplaced ==
  ASSUME DeliveryInv, UNCHANGED <<fence, accepted, sweeps>>, NEW c \in calls, NEW n,
         calls' = (calls \ {c}) \union {n}, n.wake = c.wake,
         n.stage = "sending" => c.stage = "sending"
  PROVE  FenceHolds'
<1>1. IsFiniteSet(calls')
  BY ReplaceOne DEF DeliveryInv, FenceHolds
<1>2. ASSUME NEW w \in Wakes PROVE Cardinality(Sent(w)') <= Cardinality(Sent(w))
  <2>1. CASE c \in Sent(w)
    <3>1. Sent(w)' \in SUBSET ((Sent(w) \ {c}) \union {n})
      BY DEF Sent
    <3> QED BY <2>1, <3>1, SentFinite, ReplaceOne
  <2>2. CASE c \notin Sent(w)
    <3>1. Sent(w)' \in SUBSET Sent(w)
      BY <2>2 DEF Sent
    <3> QED BY <3>1, SentFinite, FS_Subset
  <2> QED BY <2>1, <2>2
<1> QED BY <1>1, <1>2, FenceFrame

\* Steps that leave the workers, the calls and the gateway's outcomes alone.
LEMMA QuietStep ==
  ASSUME DeliveryInv, OutboxStep, UNCHANGED <<worker, fence, calls, accepted, sweeps, invalid>>
  PROVE  BusyHasWake' /\ WaitedFor' /\ AnsweredTruly' /\ FenceHolds'
<1> USE DEF DeliveryInv
<1>1. BusyHasWake'
  BY DEF BusyHasWake, OutboxStep
<1>2. WaitedFor'
  BY DEF WaitedFor
<1>3. AnsweredTruly'
  BY DEF AnsweredTruly, BusyHasWake, OutboxStep
<1>4. FenceHolds'
  BY CallsLeave
<1> QED BY <1>1, <1>2, <1>3, <1>4

\* A worker moves within deliver_one, or leaves it, without a call.
LEMMA WorkerMoves ==
  ASSUME DeliveryInv, OutboxStep, NEW k \in Workers, worker[k].pc # "wait",
         NEW new \in WorkerState, worker' = [worker EXCEPT ![k] = new],
         new.pc # "idle" => new.wake \in Wakes /\ outbox'[new.wake].state # "none",
         new.pc # "answered",
         UNCHANGED <<fence, calls, accepted, sweeps, invalid>>
  PROVE  BusyHasWake' /\ WaitedFor' /\ AnsweredTruly' /\ FenceHolds'
<1> USE DEF DeliveryInv
<1>0. worker \in [Workers -> WorkerState]
  BY Types
<1>1. BusyHasWake'
  BY <1>0 DEF BusyHasWake, OutboxStep
<1>2. WaitedFor'
  BY <1>0, CallShape DEF WaitedFor
<1>3. AnsweredTruly'
  BY <1>0 DEF AnsweredTruly, BusyHasWake, OutboxStep
<1>4. FenceHolds'
  BY CallsLeave
<1> QED BY <1>1, <1>2, <1>3, <1>4

\* A worker stops waiting: its call goes on without it, or is lost.
LEMMA WorkerLeaves ==
  ASSUME DeliveryInv, OutboxStep, NEW k \in Workers,
         worker' = [worker EXCEPT ![k] = Idle],
         \/ calls' = calls /\ \A c \in calls : c.waiter # k
         \/ \E c \in calls : /\ c.waiter = k
                             /\ \/ calls' = calls \ {c}
                                \/ calls' = (calls \ {c}) \union {Orphan(c)},
         UNCHANGED <<fence, accepted, sweeps, invalid>>
  PROVE  BusyHasWake' /\ WaitedFor' /\ AnsweredTruly' /\ FenceHolds' /\ calls' \subseteq Call
<1> USE DEF DeliveryInv
<1>0. worker \in [Workers -> WorkerState]
  BY Types
<1>1. \A c \in calls' : /\ c \in Call
                        /\ c.waiter # None => c \in calls /\ c.waiter # k
  <2>1. CASE calls' = calls /\ \A c \in calls : c.waiter # k
    BY <2>1, CallShape
  <2>2. CASE \E d \in calls : /\ d.waiter = k
                              /\ \/ calls' = calls \ {d}
                                 \/ calls' = (calls \ {d}) \union {Orphan(d)}
    <3>0. PICK d \in calls : /\ d.waiter = k
                             /\ \/ calls' = calls \ {d}
                                \/ calls' = (calls \ {d}) \union {Orphan(d)}
      BY <2>2
    <3>1. d \in Call
      BY CallShape
    <3>2. Orphan(d) \in Call /\ Orphan(d).waiter = None
      BY <3>1, CallEdits
    <3>3. \A c \in calls \ {d} : c.waiter # k
      BY <3>0, PushDeliveryAssumption DEF WaitedFor
    <3>4. \A c \in calls' : c \in calls \ {d} \/ c = Orphan(d)
      BY <3>0
    <3>5. \A c \in calls \ {d} : c \in Call
      BY CallShape
    <3> QED BY <3>2, <3>3, <3>4, <3>5
  <2> QED BY <2>1, <2>2
<1>2. BusyHasWake'
  BY <1>0 DEF BusyHasWake, OutboxStep, Idle
<1>3. WaitedFor'
  BY <1>0, <1>1, CallShape DEF WaitedFor
<1>4. AnsweredTruly'
  BY <1>0 DEF AnsweredTruly, BusyHasWake, OutboxStep, Idle
<1>5. FenceHolds'
  <2>1. CASE calls' \in SUBSET calls
    BY <2>1, CallsLeave
  <2>2. ASSUME NEW c \in calls, calls' = (calls \ {c}) \union {Orphan(c)}
        PROVE  FenceHolds'
    <3>1. c \in Call
      BY CallShape
    <3>2. Orphan(c).wake = c.wake /\ Orphan(c).stage = c.stage
      BY <3>1, CallEdits
    <3> QED BY <2>2, <3>2, CallReplaced
  <2> QED BY <2>1, <2>2
<1>6. calls' \subseteq Call
  BY <1>1
<1> QED BY <1>2, <1>3, <1>4, <1>5, <1>6

\* A call is answered.
LEMMA CallAnswered ==
  ASSUME DeliveryInv, UNCHANGED outbox, NEW c \in calls, NEW a \in Answers, Answer(c, a),
         calls' = calls \ {c}, invalid \subseteq invalid',
         a = "invalid_endpoint" => outbox[c.wake].gen \in invalid'
  PROVE  BusyHasWake' /\ WaitedFor' /\ AnsweredTruly'
<1> USE DEF DeliveryInv
<1>0. worker \in [Workers -> WorkerState]
  BY Types
<1>1. CASE c.waiter = None
  <2>1. UNCHANGED worker
    BY <1>1 DEF Answer
  <2> QED BY <2>1 DEF BusyHasWake, WaitedFor, AnsweredTruly
<1>2. CASE c.waiter # None
  <2> DEFINE k == c.waiter
             new == [worker[k] EXCEPT !.pc = "answered", !.answer = a]
  <2>1. k \in Workers /\ worker[k].pc = "wait" /\ worker[k].wake = c.wake /\ c.wake \in Wakes
    BY <1>2, CallShape DEF WaitedFor
  <2>2. new.pc = "answered" /\ new.answer = a /\ new.wake = c.wake
    BY <1>0, <2>1 DEF WorkerState
  <2>3. worker' = [worker EXCEPT ![k] = new]
    BY <1>0, <1>2 DEF Answer
  <2>4. \A d \in calls' : d.waiter # k
    BY <1>2 DEF WaitedFor
  <2> HIDE DEF new
  <2>5. BusyHasWake'
    BY <1>0, <2>1, <2>2, <2>3 DEF BusyHasWake
  <2>6. WaitedFor'
    BY <1>0, <2>3, <2>4, CallShape DEF WaitedFor
  <2>7. AnsweredTruly'
    BY <1>0, <2>2, <2>3 DEF AnsweredTruly
  <2> QED BY <2>5, <2>6, <2>7
<1> QED BY <1>1, <1>2

\* The final revalidation adds a call that nobody has admitted.
LEMMA CallSent ==
  ASSUME DeliveryInv, OutboxStep, NEW k \in Workers, NEW n \in Call,
         worker[k].pc = "final", worker' = [worker EXCEPT ![k].pc = "wait"],
         n.stage = "arriving", n.waiter = k, n.wake = worker[k].wake,
         calls' = calls \union {n}, UNCHANGED <<fence, accepted, sweeps, invalid>>
  PROVE  BusyHasWake' /\ WaitedFor' /\ AnsweredTruly' /\ FenceHolds'
<1> USE DEF DeliveryInv
<1>0. worker \in [Workers -> WorkerState]
  BY Types
<1>1. /\ worker'[k].pc = "wait" /\ worker'[k].wake = worker[k].wake
      /\ \A l \in Workers \ {k} : worker'[l] = worker[l]
  <2>1. worker[k] \in WorkerState
    BY <1>0
  <2>2. [worker[k] EXCEPT !.pc = "wait"].pc = "wait" /\ [worker[k] EXCEPT !.pc = "wait"].wake = worker[k].wake
    BY <2>1 DEF WorkerState
  <2>3. worker' = [worker EXCEPT ![k] = [worker[k] EXCEPT !.pc = "wait"]]
    BY <1>0
  <2> QED BY <1>0, <2>2, <2>3
<1>2. BusyHasWake'
  BY <1>1 DEF BusyHasWake, OutboxStep
<1>3. WaitedFor'
  <2>1. \A c \in calls : c.waiter # k
    BY PushDeliveryAssumption DEF WaitedFor
  <2> QED BY <1>1, <2>1, CallShape DEF WaitedFor
<1>4. AnsweredTruly'
  BY <1>1 DEF AnsweredTruly, BusyHasWake, OutboxStep
<1>5. FenceHolds'
  <2>1. IsFiniteSet(calls')
    BY FS_AddElement DEF FenceHolds
  <2>2. ASSUME NEW w \in Wakes PROVE Cardinality(Sent(w)') <= Cardinality(Sent(w))
    <3>1. Sent(w)' \in SUBSET Sent(w)
      BY DEF Sent
    <3> QED BY <3>1, SentFinite, FS_Subset
  <2> QED BY <2>1, <2>2, FenceFrame
<1> QED BY <1>2, <1>3, <1>4, <1>5

-----------------------------------------------------------------------------
(* One lemma per action or group of actions *)

\* What is left to show of a step once the outbox is done.
RestOK ==
  /\ lease' \in [gen : 1 .. MaxGeneration, status : {"live", "disabled", "ended"}]
  /\ member' \in BOOLEAN
  /\ worker' \in [Workers -> WorkerState]
  /\ granted' \in 1 .. MaxGeneration /\ honoured' \in 0 .. MaxGeneration
  /\ fence' \subseteq Wakes
  /\ late' \in [Wakes -> 0 .. Replicas]
  /\ calls' \subseteq Call
  /\ accepted' \in [Wakes -> Nat]
  /\ invalid' \subseteq 0 .. MaxGeneration
  /\ tried' \subseteq Wakes
  /\ sweeps' \in [Wakes -> Nat]
  /\ faults' \in 0 .. MaxFaults

\* The parts of the invariant after a step, put together.
LEMMA Assemble ==
  ASSUME OutboxStep, RestOK,
         BusyHasWake', WaitedFor', AnsweredTruly', FenceHolds', DisabledWasInvalid'
  PROVE  DeliveryInv'
BY DEF OutboxStep, RestOK, DeliveryInv, TypeOK, Row, RowStates, WorkerState, Call

\* Installations, the clock and stuttering.
LEMMA EnvironmentStep ==
  ASSUME DeliveryInv, OutboxStep,
         \/ Delegate \/ Undelegate \/ ReplaceLease \/ ExpireLease \/ Leave
         \/ \E w \in Wakes : Enqueue(w) \/ VoidWake(w) \/ LapseClaim(w) \/ PassExpiry(w)
         \/ UNCHANGED vars
  PROVE  DeliveryInv'
<1> USE DEF DeliveryInv
<1>1. UNCHANGED <<worker, fence, calls, accepted, sweeps, invalid>>
  BY DEF Delegate, Undelegate, ReplaceLease, ExpireLease, Leave, Enqueue, VoidWake,
         LapseClaim, PassExpiry, relay, gateway, ghosts, vars
<1>2. /\ lease' \in [gen : 1 .. MaxGeneration, status : {"live", "disabled", "ended"}]
      /\ lease' = lease \/ lease'.status # "disabled"
  <2>1. ASSUME ReplaceLease PROVE <1>2!1 /\ <1>2!2
    BY <2>1, Types DEF ReplaceLease
  <2>2. ASSUME ExpireLease PROVE <1>2!1 /\ <1>2!2
    BY <2>2, Types DEF ExpireLease
  <2>3. ASSUME UNCHANGED lease PROVE <1>2!1 /\ <1>2!2
    BY <2>3, Types
  <2> QED
    BY <2>1, <2>2, <2>3
    DEF Delegate, Undelegate, Leave, Enqueue, VoidWake, LapseClaim, PassExpiry, relay, vars
<1>3. /\ member' \in BOOLEAN /\ tried' \subseteq Wakes /\ faults' \in 0 .. MaxFaults
      /\ granted' \in 1 .. MaxGeneration /\ honoured' \in 0 .. MaxGeneration
      /\ late' \in [Wakes -> 0 .. Replicas]
  <2>0. /\ member \in BOOLEAN /\ tried \subseteq Wakes /\ faults \in 0 .. MaxFaults
        /\ granted \in 1 .. MaxGeneration /\ honoured \in 0 .. MaxGeneration
        /\ MaxGeneration \in Nat /\ MaxFaults \in Nat
        /\ late \in [Wakes -> 0 .. Replicas] /\ Replicas \in Nat
    BY Types, PushDeliveryAssumption
  <2>1. CASE Delegate \/ Undelegate
    BY <2>0, <2>1 DEF Delegate, Undelegate, relay, ghosts
  <2>2. CASE Leave
    BY <2>0, <2>2 DEF Leave, gateway, ghosts
  <2>3. ASSUME NEW w \in Wakes, LapseClaim(w) PROVE <1>3!1 /\ <1>3!2 /\ <1>3!3
    BY <2>0, <2>3 DEF LapseClaim, gateway, ghosts
  <2>4. ASSUME UNCHANGED <<member, gateway, ghosts, faults>>
        PROVE <1>3!1 /\ <1>3!2 /\ <1>3!3
    BY <2>0, <2>4 DEF gateway, ghosts
  <2>5. CASE UNCHANGED vars
    BY <2>4, <2>5 DEF vars, relay
  <2>6. ASSUME NEW w \in Wakes, PassExpiry(w) PROVE <1>3!1 /\ <1>3!2 /\ <1>3!3
    <3>1. late[w] + 1 \in 0 .. Replicas
      BY <2>0, <2>6 DEF PassExpiry
    <3> QED BY <2>0, <2>6, <3>1 DEF PassExpiry, relay, ghosts
  <2> QED
    BY <2>1, <2>2, <2>3, <2>4, <2>5, <2>6
    DEF ReplaceLease, ExpireLease, Enqueue, VoidWake
<1>4. RestOK
  BY <1>1, <1>2, <1>3, Types DEF RestOK
<1>5. DisabledWasInvalid'
  BY <1>1, <1>2 DEF DisabledWasInvalid
<1> QED BY <1>1, <1>4, <1>5, QuietStep, Assemble

\* A worker that goes on without touching a call.
LEMMA WorkerGoesOn ==
  ASSUME DeliveryInv, OutboxStep, NEW k \in Workers, worker[k].pc # "wait",
         NEW new \in WorkerState, worker' = [worker EXCEPT ![k] = new],
         new.pc # "idle" => new.wake \in Wakes /\ outbox'[new.wake].state # "none",
         new.pc # "answered",
         lease' \in [gen : 1 .. MaxGeneration, status : {"live", "disabled", "ended"}],
         DisabledWasInvalid',
         faults' \in 0 .. MaxFaults,
         UNCHANGED <<member, gateway, calls, accepted, ghosts>>
  PROVE  DeliveryInv'
<1>1. UNCHANGED <<granted, honoured, fence, late, invalid, tried, sweeps>>
  BY DEF gateway, ghosts
<1>2. RestOK
  BY <1>1, Types DEF RestOK, DeliveryInv
<1> QED BY <1>1, <1>2, WorkerMoves, Assemble

\* Claims.
LEMMA ClaimStep ==
  ASSUME DeliveryInv, OutboxStep, NEW k \in Workers, NEW w \in Wakes, ClaimWake(k, w)
  PROVE  DeliveryInv'
<1> DEFINE new == [pc |-> "claimed", wake |-> w, attempt |-> outbox[w].attempts + 1,
                   answer |-> None]
<1> USE DEF DeliveryInv
<1>1. outbox \in [Wakes -> Row] /\ outbox[w].attempts \in Nat
  BY Types DEF Row
<1>2. new \in WorkerState /\ new.pc = "claimed" /\ new.wake = w
  BY <1>1 DEF WorkerState
<1>3. outbox'[w].state # "none"
  BY <1>1 DEF ClaimWake, Due, OutboxStep
<1>4. worker[k].pc # "wait" /\ worker' = [worker EXCEPT ![k] = new]
  BY DEF ClaimWake, Idle
<1>5. UNCHANGED <<lease, member, gateway, calls, accepted, ghosts, faults>>
  BY DEF ClaimWake
<1>6. lease' \in [gen : 1 .. MaxGeneration, status : {"live", "disabled", "ended"}]
  BY <1>5, Types
<1>7. DisabledWasInvalid' /\ faults' \in 0 .. MaxFaults
  BY <1>5, Types DEF DisabledWasInvalid, ghosts
<1> HIDE DEF new
<1> QED BY <1>2, <1>3, <1>4, <1>5, <1>6, <1>7, WorkerGoesOn

\* The workers' own steps that send nothing.
LEMMA DeliverStep ==
  ASSUME DeliveryInv, OutboxStep, NEW k \in Workers,
         \/ Revalidate(k) \/ CheckMember(k) \/ MemberUnknown(k) \/ RevalidateError(k)
         \/ HandleAnswer(k) \/ HandleAnswerPartly(k)
         \/ RevalidateFinal(k) /\ worker'[k] = Idle
  PROVE  DeliveryInv'
<1> USE DEF DeliveryInv
<1>1. worker \in [Workers -> WorkerState] /\ worker[k] \in WorkerState
  BY Types
<1>2. worker[k].pc \notin {"idle", "wait"} /\ worker[k].wake \in Wakes
      /\ outbox'[worker[k].wake].state # "none"
  BY DEF Revalidate, CheckMember, MemberUnknown, RevalidateError, HandleAnswer,
         HandleAnswerPartly, RevalidateFinal, BusyHasWake, OutboxStep
<1> DEFINE Moves(new) == /\ worker' = [worker EXCEPT ![k] = new]
                         /\ new.pc # "idle" => new.wake = worker[k].wake
                         /\ new.pc # "answered"
<1>3. \E new \in WorkerState : Moves(new)
  <2>1. Idle \in WorkerState /\ Idle.pc = "idle"
    BY DEF Idle, WorkerState
  <2>2. ASSUME Done(k) PROVE \E new \in WorkerState : Moves(new)
    BY <2>1, <2>2 DEF Done
  <2>3. ASSUME NEW pc \in {"member", "final"}, Goto(k, pc)
        PROVE  \E new \in WorkerState : Moves(new)
    <3> DEFINE n == [worker[k] EXCEPT !.pc = pc]
    <3>1. n \in WorkerState /\ n.pc = pc /\ n.wake = worker[k].wake
      BY <1>1 DEF WorkerState
    <3>2. worker' = [worker EXCEPT ![k] = n]
      BY <1>1, <2>3 DEF Goto
    <3> HIDE DEF n
    <3> QED BY <3>1, <3>2
  <2>4. ASSUME RevalidateFinal(k), worker'[k] = Idle PROVE Done(k)
    <3>1. [worker[k] EXCEPT !.pc = "wait"].pc = "wait"
      BY <1>1 DEF WorkerState
    <3>2. ~Goto(k, "wait")
      BY <1>1, <2>1, <2>4, <3>1 DEF Goto
    <3> QED BY <2>4, <3>2 DEF RevalidateFinal
  <2> QED
    BY <2>2, <2>3, <2>4 DEF Revalidate, CheckMember, MemberUnknown, RevalidateError,
                            HandleAnswer, HandleAnswerPartly
<1>4. UNCHANGED <<member, gateway, accepted, ghosts, calls>>
  <2>1. ASSUME RevalidateFinal(k), worker'[k] = Idle PROVE UNCHANGED <<calls, tried>>
    <3>1. [worker[k] EXCEPT !.pc = "wait"].pc = "wait" /\ Idle.pc = "idle"
      BY <1>1 DEF WorkerState, Idle
    <3>2. ~Goto(k, "wait")
      BY <1>1, <2>1, <3>1 DEF Goto
    <3> QED BY <2>1, <3>2 DEF RevalidateFinal
  <2> QED
    BY <2>1 DEF Revalidate, CheckMember, MemberUnknown, RevalidateError, HandleAnswer,
                HandleAnswerPartly, RevalidateFinal, ghosts
<1>5. faults' \in 0 .. MaxFaults
  <2>1. faults \in 0 .. MaxFaults /\ MaxFaults \in Nat
    BY Types, PushDeliveryAssumption
  <2> QED
    BY <2>1 DEF Revalidate, CheckMember, MemberUnknown, RevalidateError, HandleAnswer,
                HandleAnswerPartly, RevalidateFinal
<1>6. lease' = lease \/ (worker[k].pc = "answered" /\ lease' = LeaseAfter(k))
  BY DEF Revalidate, CheckMember, MemberUnknown, RevalidateError, HandleAnswer,
         HandleAnswerPartly, RevalidateFinal
<1>7. /\ lease' \in [gen : 1 .. MaxGeneration, status : {"live", "disabled", "ended"}]
      /\ DisabledWasInvalid'
  <2>0. invalid' = invalid /\ lease \in [gen : 1 .. MaxGeneration, status : {"live", "disabled", "ended"}]
    BY <1>4, Types DEF ghosts
  <2>1. CASE lease' = lease
    BY <2>0, <2>1 DEF DisabledWasInvalid
  <2>2. CASE /\ worker[k].pc = "answered" /\ worker[k].answer = "invalid_endpoint"
             /\ outbox[worker[k].wake].gen = lease.gen
             /\ lease' = [lease EXCEPT !.status = "disabled"]
    BY <2>0, <2>2 DEF DisabledWasInvalid, AnsweredTruly
  <2> QED BY <1>6, <2>1, <2>2 DEF LeaseAfter, Disable
<1> QED BY <1>2, <1>3, <1>4, <1>5, <1>7, WorkerGoesOn

\* A worker is told that its wake may be sent, and sends it.
LEMMA SendStep ==
  ASSUME DeliveryInv, OutboxStep, NEW k \in Workers, RevalidateFinal(k), worker'[k] # Idle
  PROVE  DeliveryInv'
<1> DEFINE n == [wake |-> worker[k].wake, attempt |-> worker[k].attempt,
                 stage |-> "arriving", waiter |-> k]
<1> USE DEF DeliveryInv
<1>1. worker \in [Workers -> WorkerState] /\ worker[k] \in WorkerState
  BY Types
<1>2. worker[k].pc = "final" /\ worker[k].wake \in Wakes /\ worker[k].attempt \in Nat
  BY <1>1 DEF RevalidateFinal, BusyHasWake, WorkerState
<1>3. ~Done(k)
  BY <1>1 DEF Done
<1>4. /\ calls' = calls \union {n}
      /\ tried' = tried \union {worker[k].wake}
      /\ worker' = [worker EXCEPT ![k].pc = "wait"]
      /\ UNCHANGED <<lease, member, gateway, accepted, invalid, sweeps, faults>>
  BY <1>3 DEF RevalidateFinal, Goto
<1>5. n \in Call /\ n.stage = "arriving" /\ n.waiter = k /\ n.wake = worker[k].wake
  BY <1>2 DEF Call
<1>6. worker' \in [Workers -> WorkerState]
  BY <1>4, WorkerTypes
<1> HIDE DEF n
<1>7. RestOK
  BY <1>2, <1>4, <1>5, <1>6, Types DEF RestOK, gateway
<1>8. DisabledWasInvalid'
  BY <1>4 DEF DisabledWasInvalid
<1>9. UNCHANGED <<fence, accepted, sweeps, invalid>>
  BY <1>4 DEF gateway
<1> QED BY <1>2, <1>4, <1>5, <1>7, <1>8, <1>9, CallSent, Assemble

\* A worker gives up waiting, or dies.
LEMMA LeaveStep ==
  ASSUME DeliveryInv, OutboxStep, NEW k \in Workers, GiveUpWaiting(k) \/ CrashWorker(k)
  PROVE  DeliveryInv'
<1> USE DEF DeliveryInv
<1>1. worker' = [worker EXCEPT ![k] = Idle]
  BY DEF GiveUpWaiting, CrashWorker, Done
<1>2. UNCHANGED <<lease, member, gateway, accepted, ghosts>>
  BY DEF GiveUpWaiting, CrashWorker
<1>3. faults' \in 0 .. MaxFaults
  BY Types, PushDeliveryAssumption DEF GiveUpWaiting, CrashWorker
<1>4. \/ calls' = calls /\ \A c \in calls : c.waiter # k
      \/ \E c \in calls : /\ c.waiter = k
                          /\ \/ calls' = calls \ {c}
                             \/ calls' = (calls \ {c}) \union {Orphan(c)}
  <2>1. CASE GiveUpWaiting(k)
    BY <2>1 DEF GiveUpWaiting, Orphan
  <2>2. CASE CrashWorker(k)
    <3>1. calls' = {IF c.waiter = k THEN Orphan(c) ELSE c : c \in calls}
      BY <2>2 DEF CrashWorker, Orphan
    <3>2. CASE \A c \in calls : c.waiter # k
      BY <3>1, <3>2
    <3>3. ASSUME NEW c \in calls, c.waiter = k
          PROVE  calls' = (calls \ {c}) \union {Orphan(c)}
      <4>1. \A d \in calls \ {c} : d.waiter # k
        BY <3>3, PushDeliveryAssumption DEF WaitedFor
      <4> QED BY <3>1, <3>3, <4>1
    <3> QED BY <3>2, <3>3
  <2> QED BY <2>1, <2>2
<1>5. UNCHANGED <<granted, honoured, fence, late, accepted, invalid, tried, sweeps>>
  BY <1>2 DEF gateway, ghosts
<1>6. /\ BusyHasWake' /\ WaitedFor' /\ AnsweredTruly' /\ FenceHolds'
      /\ calls' \subseteq Call
  BY <1>1, <1>4, <1>5, WorkerLeaves
<1>7. RestOK
  BY <1>1, <1>2, <1>3, <1>5, <1>6, Types, WorkerTypes DEF RestOK
<1>8. DisabledWasInvalid'
  BY <1>2, <1>5 DEF DisabledWasInvalid
<1> QED BY <1>6, <1>7, <1>8, Assemble

\* A replica lets a request pass that has not expired by its clock.
LEMMA CheckStep ==
  ASSUME DeliveryInv, OutboxStep, NEW c \in calls, CheckExpiry(c)
  PROVE  DeliveryInv'
<1> DEFINE n == [c EXCEPT !.stage = "checked"]
<1> USE DEF DeliveryInv
<1>1. calls' = (calls \ {c}) \union {n}
  BY DEF CheckExpiry
<1>2. UNCHANGED <<lease, member, outbox, worker, granted, honoured, fence, late, accepted,
                  invalid, tried, sweeps, faults>>
  BY DEF CheckExpiry, relay, gateway, ghosts
<1>3. /\ c \in Call /\ n \in Call
      /\ n.wake = c.wake /\ n.stage = "checked" /\ n.waiter = c.waiter
  BY CallShape, CallEdits
<1> HIDE DEF n
<1>4. RestOK
  BY <1>1, <1>2, <1>3, Types DEF RestOK
<1>5. BusyHasWake' /\ AnsweredTruly' /\ DisabledWasInvalid'
  BY <1>2 DEF BusyHasWake, AnsweredTruly, DisabledWasInvalid
<1>6. WaitedFor'
  BY <1>1, <1>2, <1>3 DEF WaitedFor
<1>7. FenceHolds'
  BY <1>1, <1>2, <1>3, CallReplaced
<1> QED BY <1>4, <1>5, <1>6, <1>7, Assemble

\* The gateway admits a request whose id was free: one more is being sent, and
\* one more reservation stands.
LEMMA AdmitStep ==
  ASSUME DeliveryInv, OutboxStep, NEW c \in calls, Admit(c)
  PROVE  DeliveryInv'
<1> DEFINE n == [c EXCEPT !.stage = "sending"]
<1> USE DEF DeliveryInv
<1>1. /\ c.stage = "checked" /\ c.wake \notin fence
      /\ fence' = fence \union {c.wake}
      /\ calls' = (calls \ {c}) \union {n}
  BY DEF Admit, Admissible
<1>2. UNCHANGED <<lease, member, outbox, worker, granted, honoured, late, accepted, invalid,
                  tried, sweeps, faults>>
  BY DEF Admit, relay, ghosts
<1>3. /\ c \in Call /\ c.wake \in Wakes /\ n \in Call
      /\ n.wake = c.wake /\ n.stage = "sending" /\ n.waiter = c.waiter
  BY CallShape, CallEdits
<1> HIDE DEF n
<1>4. RestOK
  BY <1>1, <1>2, <1>3, Types DEF RestOK
<1>5. BusyHasWake' /\ AnsweredTruly' /\ DisabledWasInvalid'
  BY <1>2 DEF BusyHasWake, AnsweredTruly, DisabledWasInvalid
<1>6. WaitedFor'
  BY <1>1, <1>2, <1>3 DEF WaitedFor
<1>7. IsFiniteSet(calls')
  BY <1>1, ReplaceOne DEF FenceHolds
<1>8. ASSUME NEW w \in Wakes
      PROVE  Cardinality(Sent(w)') + accepted'[w] <= sweeps'[w] + Reserved(w)'
  <2> DEFINE new == Cardinality(Sent(w)')
             old == Cardinality(Sent(w))
  <2>1. Sent(w)' \in SUBSET calls'
    BY DEF Sent
  <2>2. new \in Nat /\ old \in Nat
    BY <1>7, <2>1, SentFinite, FS_Subset, FS_CardinalityType
  <2>3. new <= old + Reserved(w)' - Reserved(w)
    <3>1. CASE w = c.wake
      <4>1. Sent(w)' \in SUBSET (Sent(w) \union {n})
        BY <1>1 DEF Sent
      <4>2. new <= old + 1
        BY <4>1, SentFinite, AddOne
      <4> QED BY <1>1, <2>2, <3>1, <4>2 DEF Reserved
    <3>2. CASE w # c.wake
      <4>1. Sent(w)' \in SUBSET Sent(w)
        BY <1>1, <1>3, <3>2 DEF Sent
      <4>2. new <= old
        BY <4>1, SentFinite, FS_Subset
      <4>3. Reserved(w)' = Reserved(w)
        BY <1>1, <3>2 DEF Reserved
      <4> QED BY <2>2, <4>2, <4>3 DEF Reserved
    <3> QED BY <3>1, <3>2
  <2>4. /\ accepted'[w] = accepted[w] /\ accepted[w] \in Nat
        /\ sweeps'[w] = sweeps[w] /\ sweeps[w] \in Nat
        /\ Reserved(w)' \in Nat /\ Reserved(w) \in Nat
    BY <1>2, Types DEF Reserved
  <2>5. old + accepted[w] <= sweeps[w] + Reserved(w)
    BY DEF FenceHolds
  <2> HIDE DEF new, old
  <2>6. new + accepted'[w] <= sweeps'[w] + Reserved(w)'
    BY <2>2, <2>3, <2>4, <2>5
  <2> QED BY <2>6 DEF new
<1>9. FenceHolds'
  BY <1>7, <1>8 DEF FenceHolds
<1> QED BY <1>4, <1>5, <1>6, <1>9, Assemble

\* The gateway answers a request it does not admit.
LEMMA RefuseStep ==
  ASSUME DeliveryInv, OutboxStep, NEW c \in calls, Refuse(c)
  PROVE  DeliveryInv'
<1> USE DEF DeliveryInv
<1>1. PICK a \in {"invalid_grant", "unavailable"} : Answer(c, a)
  BY DEF Refuse
<1>2. /\ calls' = calls \ {c}
      /\ UNCHANGED <<lease, member, outbox, granted, honoured, fence, late, accepted,
                     invalid, tried, sweeps, faults>>
  BY DEF Refuse, gateway, ghosts
<1>3. a \in Answers /\ a # "invalid_endpoint"
  BY DEF Answers
<1>4. BusyHasWake' /\ WaitedFor' /\ AnsweredTruly' /\ worker' \in [Workers -> WorkerState]
  BY <1>1, <1>2, <1>3, CallAnswered, AnswerTypes
<1>5. RestOK
  BY <1>2, <1>4, Types DEF RestOK
<1>6. FenceHolds'
  BY <1>2, CallsLeave
<1>7. DisabledWasInvalid'
  BY <1>2 DEF DisabledWasInvalid
<1> QED BY <1>4, <1>5, <1>6, <1>7, Assemble

\* A request that was being sent ends: at most one acceptance more, exactly one
\* request less being sent, and at most one reservation less if it was not
\* accepted.
LEMMA FinishStep ==
  ASSUME DeliveryInv, OutboxStep, NEW c \in calls,
         \/ \E o \in TerminalOutcomes \union {"unavailable"} : Finish(c, o)
         \/ Abandon(c)
  PROVE  DeliveryInv'
<1> USE DEF DeliveryInv
<1>1. /\ c.stage = "sending" /\ calls' = calls \ {c}
      /\ UNCHANGED <<lease, member, outbox, granted, honoured, late, tried, sweeps>>
  BY DEF Finish, Abandon, gateway, ghosts
<1>2. \E a \in Answers : /\ Answer(c, a)
                         /\ a = "invalid_endpoint" => outbox[c.wake].gen \in invalid'
  BY DEF Finish, Abandon, Answers, TerminalOutcomes
<1>3. /\ c \in Call /\ c.wake \in Wakes
      /\ outbox[c.wake].gen \in 0 .. MaxGeneration /\ accepted \in [Wakes -> Nat]
  BY CallShape, Types DEF Row
<1>4. invalid \subseteq invalid' /\ invalid' \subseteq 0 .. MaxGeneration
  BY <1>3, Types DEF Finish, Abandon, ghosts
<1>5. BusyHasWake' /\ WaitedFor' /\ AnsweredTruly' /\ worker' \in [Workers -> WorkerState]
  BY <1>1, <1>2, <1>4, CallAnswered, AnswerTypes
<1>6. \/ accepted' = accepted /\ fence' \in {fence, fence \ {c.wake}}
      \/ accepted' = [accepted EXCEPT ![c.wake] = @ + 1] /\ fence' = fence
  BY DEF Finish, Abandon, gateway, TerminalOutcomes
<1>7. accepted' \in [Wakes -> Nat] /\ fence' \subseteq Wakes
  BY <1>3, <1>6, Types
<1>8. faults' \in 0 .. MaxFaults
  BY Types, PushDeliveryAssumption DEF Finish, Abandon
<1>9. RestOK
  BY <1>1, <1>4, <1>5, <1>7, <1>8, Types DEF RestOK
<1>10. IsFiniteSet(calls')
  BY <1>1, FS_RemoveElement DEF FenceHolds
<1>11. ASSUME NEW w \in Wakes
       PROVE  Cardinality(Sent(w)') + accepted'[w] <= sweeps'[w] + Reserved(w)'
  <2> DEFINE new == Cardinality(Sent(w)')
             old == Cardinality(Sent(w))
  <2>1. Sent(w)' \in SUBSET calls' /\ Sent(w)' = Sent(w) \ {c}
    BY <1>1 DEF Sent
  <2>2. new \in Nat /\ old \in Nat
    BY <1>10, <2>1, SentFinite, FS_Subset, FS_CardinalityType
  <2>3. new = IF w = c.wake THEN old - 1 ELSE old
    <3>1. c \in Sent(w) <=> w = c.wake
      BY <1>1 DEF Sent
    <3> QED BY <2>1, <3>1, SentFinite, FS_RemoveElement
  <2>4. /\ accepted[w] \in Nat /\ accepted'[w] \in Nat
        /\ sweeps'[w] = sweeps[w] /\ sweeps[w] \in Nat
        /\ Reserved(w)' \in Nat /\ Reserved(w) \in Nat
    BY <1>1, <1>7, Types DEF Reserved
  <2>5. old + accepted[w] <= sweeps[w] + Reserved(w)
    BY DEF FenceHolds
  <2>6. \/ accepted'[w] = accepted[w] /\ Reserved(w)' = Reserved(w)
        \/ w = c.wake /\ accepted'[w] = accepted[w] + 1 /\ Reserved(w)' = Reserved(w)
        \/ w = c.wake /\ accepted'[w] = accepted[w] /\ Reserved(w)' >= Reserved(w) - 1
    BY <1>3, <1>6 DEF Reserved
  <2> HIDE DEF new, old
  <2>7. new + accepted'[w] <= sweeps'[w] + Reserved(w)'
    BY <2>2, <2>3, <2>4, <2>5, <2>6
  <2> QED BY <2>7 DEF new
<1>12. FenceHolds'
  BY <1>10, <1>11 DEF FenceHolds
<1>13. DisabledWasInvalid'
  BY <1>1, <1>4 DEF DisabledWasInvalid
<1> QED BY <1>5, <1>9, <1>12, <1>13, Assemble

\* The reservation that stands becomes one that was swept.
LEMMA ReapStep ==
  ASSUME DeliveryInv, OutboxStep, NEW w \in Wakes, ReapFence(w)
  PROVE  DeliveryInv'
<1> USE DEF DeliveryInv
<1>1. /\ w \in fence /\ fence' = fence \ {w}
      /\ sweeps' = [sweeps EXCEPT ![w] = @ + 1]
      /\ UNCHANGED <<lease, member, outbox, worker, granted, honoured, late, calls, accepted,
                     invalid, tried, faults>>
  BY DEF ReapFence, relay
<1>2. RestOK
  BY <1>1, Types DEF RestOK
<1>3. BusyHasWake' /\ WaitedFor' /\ AnsweredTruly' /\ DisabledWasInvalid'
  BY <1>1 DEF BusyHasWake, WaitedFor, AnsweredTruly, DisabledWasInvalid
<1>4. ASSUME NEW v \in Wakes
      PROVE  Cardinality(Sent(v)') + accepted'[v] <= sweeps'[v] + Reserved(v)'
  <2>1. Sent(v)' = Sent(v) /\ accepted'[v] = accepted[v]
    BY <1>1 DEF Sent
  <2>2. sweeps'[v] + Reserved(v)' = sweeps[v] + Reserved(v)
    BY <1>1, Types DEF Reserved
  <2>3. Cardinality(Sent(v)) + accepted[v] <= sweeps[v] + Reserved(v)
    BY DEF FenceHolds
  <2> QED BY <2>1, <2>2, <2>3
<1>5. FenceHolds'
  BY <1>1, <1>4 DEF FenceHolds
<1> QED BY <1>2, <1>3, <1>5, Assemble

-----------------------------------------------------------------------------

\* The invariant holds at the start.
LEMMA DeliveryInit == Init => DeliveryInv
<1> SUFFICES ASSUME Init PROVE DeliveryInv
  OBVIOUS
<1>1. NoWake \in Row /\ NoWake.state = "none"
  BY PushDeliveryAssumption DEF NoWake, Row, RowStates
<1>2. Idle \in WorkerState /\ Idle.pc = "idle"
  BY DEF Idle, WorkerState
<1>3. TypeOK
  BY <1>1, <1>2, Types, PushDeliveryAssumption DEF Init
<1>4. BusyHasWake /\ WaitedFor /\ AnsweredTruly /\ DisabledWasInvalid
  <2>1. /\ calls = {} /\ lease.status = "live"
        /\ \A k \in Workers : worker[k].pc = "idle"
    BY <1>2 DEF Init
  <2> QED BY <2>1 DEF BusyHasWake, WaitedFor, AnsweredTruly, DisabledWasInvalid
<1>5. FenceHolds
  <2>1. IsFiniteSet(calls) /\ \A w \in Wakes : Sent(w) = {}
    BY FS_EmptySet DEF Init, Sent
  <2>2. \A w \in Wakes : accepted[w] = 0 /\ sweeps[w] = 0 /\ Reserved(w) = 0
    BY DEF Init, Reserved
  <2> QED BY <2>1, <2>2, FS_EmptySet DEF FenceHolds
<1> QED BY <1>3, <1>4, <1>5 DEF DeliveryInv

\* The invariant is inductive.
LEMMA DeliveryNext == DeliveryInv /\ [Next]_vars => DeliveryInv'
<1> SUFFICES ASSUME DeliveryInv, [Next]_vars PROVE DeliveryInv'
  OBVIOUS
<1>0. OutboxStep
  BY OutboxMoves
<1>1. ASSUME NEW k \in Workers, RevalidateFinal(k) PROVE DeliveryInv'
  BY <1>0, <1>1, DeliverStep, SendStep
<1>2. ASSUME NEW k \in Workers,
             \/ \E w \in Wakes : ClaimWake(k, w)
             \/ WorkerStep(k) \/ MemberUnknown(k) \/ RevalidateError(k)
             \/ HandleAnswerPartly(k) \/ CrashWorker(k)
      PROVE  DeliveryInv'
  BY <1>0, <1>1, <1>2, ClaimStep, DeliverStep, LeaveStep DEF WorkerStep
<1>3. ASSUME GatewayStep \/ \E c \in calls : Abandon(c) PROVE DeliveryInv'
  BY <1>0, <1>3, CheckStep, AdmitStep, RefuseStep, FinishStep DEF GatewayStep
<1>4. ASSUME \/ Delegate \/ Undelegate \/ ReplaceLease \/ ExpireLease \/ Leave
             \/ \E w \in Wakes : \/ Enqueue(w) \/ VoidWake(w)
                                 \/ LapseClaim(w) \/ PassExpiry(w)
             \/ UNCHANGED vars
      PROVE  DeliveryInv'
  BY <1>0, <1>4, EnvironmentStep
<1>5. ASSUME NEW w \in Wakes, ReapFence(w) PROVE DeliveryInv'
  BY <1>0, <1>5, ReapStep
<1> QED BY <1>2, <1>3, <1>4, <1>5 DEF Next

\* The inductive invariant of wake delivery: every variable keeps its type, the
\* requests that are being sent or were accepted are covered by the reservation
\* that stands and those that were swept, and a 410 answer is about the
\* generation of its wake.
THEOREM DeliveryInvariant == Spec => []DeliveryInv
BY DeliveryInit, DeliveryNext, PTL DEF Spec

\* authorize_delivery, finish_delivery and reap_expired together: however many
\* workers claim, time out, crash and send the same wake again, and whichever
\* replica's clock the sweep goes by, the gateway learns of at most one
\* acceptance more than it swept reservations of that wake.
THEOREM OneNotification == Spec => []OneAcceptedPerReservation
<1>1. DeliveryInv => OneAcceptedPerReservation
  <2>1. ASSUME DeliveryInv, NEW w \in Wakes PROVE accepted[w] <= 1 + sweeps[w]
    <3>1. /\ accepted[w] \in Nat /\ sweeps[w] \in Nat /\ Reserved(w) \in 0 .. 1
          /\ Cardinality(Sent(w)) \in Nat
      BY <2>1, Types, SentFinite DEF DeliveryInv, Reserved
    <3>2. Cardinality(Sent(w)) + accepted[w] <= sweeps[w] + Reserved(w)
      BY <2>1 DEF DeliveryInv, FenceHolds
    <3> QED BY <3>1, <3>2
  <2> QED BY <2>1 DEF OneAcceptedPerReservation
<1> QED BY <1>1, DeliveryInvariant, PTL

\* disable_endpoint_generation never switches off a generation that APNs did not
\* report, however late the 410 of an older generation arrives.
THEOREM OnlyInvalidDisabled == Spec => []DisabledWasInvalid
<1>1. DeliveryInv => DisabledWasInvalid
  BY DEF DeliveryInv
<1> QED BY <1>1, DeliveryInvariant, PTL

\* The claim fence of complete_wake, retry_wake and fail_wake: no step changes a
\* delivered or failed wake.
THEOREM SettledForGood == Spec => SettledStays
<1>1. DeliveryInv /\ [Next]_vars =>
        [\A w \in Wakes : outbox[w].state \in {"delivered", "failed"}
                           => outbox'[w].state = outbox[w].state]_vars
  BY OutboxMoves DEF OutboxStep
<1> QED BY <1>1, DeliveryInvariant, PTL DEF Spec, SettledStays
=============================================================================
