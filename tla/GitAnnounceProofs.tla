-------------------------- MODULE GitAnnounceProofs --------------------------
(***************************************************************************)
(* Proofs about repository announcements, for every number of              *)
(* announcements and owners.                                               *)
(*                                                                         *)
(* FreshClaimHeld is inductive only together with the fact that at most    *)
(* one handler is in the middle of a fresh claim: the rollback of another  *)
(* one would take the row away.                                            *)
(***************************************************************************)
EXTENDS GitAnnounce, TLAPS

\* The steps a handler takes while it owns a fresh reservation.
Claiming == {"seed", "reread", "emit", "rollback"}

\* Only the steps after the reservation have a fresh outcome, and the two
\* steps that follow from one have it.
FreshSteps ==
  /\ \A a \in fresh : ann[a] \in Claiming \union Ends
  /\ \A a \in Announces : ann[a] \in {"emit", "rollback"} => a \in fresh

\* At most one handler is in the middle of a fresh claim.
OneFreshClaim ==
  \A a, b \in fresh : ann[a] \in Claiming /\ ann[b] \in Claiming => a = b

\* A handler that is past the pointer has one.
PointerEstablished ==
  \A a \in Announces : ann[a] \in {"emit", "accepted"} => ptr[OwnerOf[a]] # "absent"

AnnounceInv == /\ TypeOK
               /\ FreshSteps
               /\ OneFreshClaim
               /\ FreshClaimHeld
               /\ PointerEstablished

-----------------------------------------------------------------------------

LEMMA AnnounceInit == Init => AnnounceInv
BY AnnounceAssumption DEF Init, AnnounceInv, TypeOK, FreshSteps, OneFreshClaim,
     FreshClaimHeld, PointerEstablished, Steps, Ends, Claiming

\* A handler without a fresh claim moves on, and the row stays.
LEMMA HandlerMoves ==
  ASSUME AnnounceInv, NEW a \in Announces, a \notin fresh,
         NEW step \in (Steps \union Ends) \ {"emit", "rollback"},
         Goto(a, step), UNCHANGED <<row, fresh>>,
         ptr' \in [Owners -> {"absent", "empty", "pushed"}],
         \A o \in Owners : ptr[o] # "absent" => ptr'[o] # "absent",
         step = "accepted" => ptr'[OwnerOf[a]] # "absent"
  PROVE  AnnounceInv'
<1> USE AnnounceAssumption DEF AnnounceInv, Goto
<1>1. TypeOK'
  BY DEF TypeOK
<1>2. FreshSteps'
  BY DEF TypeOK, FreshSteps
<1>3. OneFreshClaim' /\ FreshClaimHeld'
  BY DEF TypeOK, OneFreshClaim, FreshClaimHeld
<1>4. PointerEstablished'
  BY DEF TypeOK, PointerEstablished
<1> QED BY <1>1, <1>2, <1>3, <1>4

\* The handler of a fresh claim moves on and keeps the row.
LEMMA ClaimMoves ==
  ASSUME AnnounceInv, NEW a \in fresh, ann[a] \in Claiming,
         NEW step \in Claiming \union Ends,
         Goto(a, step), UNCHANGED <<row, fresh>>,
         ptr' \in [Owners -> {"absent", "empty", "pushed"}],
         \A o \in Owners : ptr[o] # "absent" => ptr'[o] # "absent",
         step \in {"emit", "accepted"} => ptr'[OwnerOf[a]] # "absent"
  PROVE  AnnounceInv'
<1> USE AnnounceAssumption DEF AnnounceInv, Goto
<1>0. a \in Announces
  BY DEF TypeOK
<1>1. TypeOK'
  BY <1>0 DEF TypeOK, Claiming, Steps, Ends
<1>2. FreshSteps'
  BY <1>0 DEF TypeOK, FreshSteps
<1>3. OneFreshClaim'
  BY <1>0 DEF TypeOK, OneFreshClaim
<1>4. FreshClaimHeld'
  BY <1>0 DEF TypeOK, FreshClaimHeld, Claiming
<1>5. PointerEstablished'
  BY <1>0 DEF TypeOK, PointerEstablished
<1> QED BY <1>1, <1>2, <1>3, <1>4, <1>5

\* What Accept and Reject lead to, depending on how the name was obtained.
LEMMA PointerSettled ==
  ASSUME AnnounceInv, NEW a \in Announces, ann[a] \in {"ensure", "seed", "reread"},
         (Accept(a) /\ ptr'[OwnerOf[a]] # "absent") \/ Reject(a),
         UNCHANGED <<row, fresh>>,
         ptr' \in [Owners -> {"absent", "empty", "pushed"}],
         \A o \in Owners : ptr[o] # "absent" => ptr'[o] # "absent"
  PROVE  AnnounceInv'
<1>1. CASE a \in fresh
  <2>1. ann[a] \in Claiming
    BY <1>1 DEF AnnounceInv, FreshSteps, Ends, Claiming
  <2>2. CASE Accept(a) /\ ptr'[OwnerOf[a]] # "absent"
    BY <1>1, <2>1, <2>2, ClaimMoves DEF Accept, Claiming
  <2>3. CASE Reject(a)
    BY <1>1, <2>1, <2>3, ClaimMoves DEF Reject, Claiming
  <2> QED BY <2>2, <2>3
<1>2. CASE a \notin fresh
  <2>2. CASE Accept(a) /\ ptr'[OwnerOf[a]] # "absent"
    BY <1>2, <2>2, HandlerMoves DEF Accept, Ends
  <2>3. CASE Reject(a)
    BY <1>2, <2>3, HandlerMoves DEF Reject, Ends
  <2> QED BY <2>2, <2>3
<1> QED BY <1>1, <1>2

-----------------------------------------------------------------------------
(* One lemma per action *)

\* The peek only moves a handler that has not reserved anything.
LEMMA PeekStep ==
  ASSUME AnnounceInv, NEW a \in Announces, Peek(a) PROVE AnnounceInv'
<1>1. a \notin fresh
  BY DEF AnnounceInv, FreshSteps, Peek, Ends, Claiming
<1>2. PICK step \in {"reserve", "failed", "ensure"} : Goto(a, step)
  BY DEF Peek
<1> QED BY <1>1, <1>2, HandlerMoves DEF Peek, AnnounceInv, TypeOK, Steps, Ends

\* The insert succeeds only when the row is free, so no other claim is under way.
LEMMA ReserveStep ==
  ASSUME AnnounceInv, NEW a \in Announces, Reserve(a) PROVE AnnounceInv'
<1>0. a \notin fresh
  BY DEF AnnounceInv, FreshSteps, Reserve, Ends, Claiming
<1>1. CASE row # Nobody
  BY <1>0, <1>1, HandlerMoves DEF Reserve, AnnounceInv, TypeOK, Steps, Ends
<1>2. CASE row = Nobody
  <2> USE AnnounceAssumption DEF AnnounceInv
  <2>1. /\ row' = OwnerOf[a] /\ fresh' = fresh \union {a}
        /\ ann' = [ann EXCEPT ![a] = "seed"] /\ ptr' = ptr
    BY <1>2 DEF Reserve, Goto
  <2>2. \A b \in fresh : ann[b] \notin Claiming
    BY <1>2 DEF FreshClaimHeld, Claiming, TypeOK
  <2>3. TypeOK'
    BY <2>1 DEF TypeOK, Steps
  <2>4. FreshSteps'
    BY <2>1 DEF TypeOK, FreshSteps, Claiming
  <2>5. OneFreshClaim' /\ FreshClaimHeld'
    BY <1>0, <2>1, <2>2 DEF TypeOK, OneFreshClaim, FreshClaimHeld, Claiming
  <2>6. PointerEstablished'
    BY <2>1 DEF TypeOK, PointerEstablished
  <2> QED BY <2>3, <2>4, <2>5, <2>6
<1> QED BY <1>1, <1>2

\* The select after a conflict.
LEMMA ClassifyStep ==
  ASSUME AnnounceInv, NEW a \in Announces, Classify(a) PROVE AnnounceInv'
<1>1. a \notin fresh
  BY DEF AnnounceInv, FreshSteps, Classify, Ends, Claiming
<1> QED BY <1>1, HandlerMoves DEF Classify, AnnounceInv, TypeOK, Steps, Ends

\* ensure_manifest_pointer
LEMMA EnsureStep ==
  ASSUME AnnounceInv, NEW a \in Announces, Ensure(a) PROVE AnnounceInv'
<1>1. a \notin fresh
  BY DEF AnnounceInv, FreshSteps, Ensure, Ends, Claiming
<1>2. ptr' = ptr /\ ptr \in [Owners -> {"absent", "empty", "pushed"}]
  BY DEF Ensure, AnnounceInv, TypeOK
<1>3. CASE ptr[OwnerOf[a]] = "absent"
  BY <1>1, <1>2, <1>3, HandlerMoves DEF Ensure, Steps
<1>4. CASE ptr[OwnerOf[a]] # "absent"
  BY <1>2, <1>4, PointerSettled DEF Ensure
<1> QED BY <1>3, <1>4

\* The conditional write of the pointer, and its lost answer.
LEMMA SeedStep ==
  ASSUME AnnounceInv, NEW a \in Announces, Seed(a) PROVE AnnounceInv'
<1>0. ptr \in [Owners -> {"absent", "empty", "pushed"}] /\ OwnerOf[a] \in Owners
  BY AnnounceAssumption DEF AnnounceInv, TypeOK
<1>1. CASE ptr[OwnerOf[a]] = "absent"
  BY <1>0, <1>1, PointerSettled DEF Seed
<1>2. CASE ptr[OwnerOf[a]] # "absent"
  <2>1. CASE a \in fresh
    BY <1>0, <1>2, <2>1, ClaimMoves DEF Seed, Claiming
  <2>2. CASE a \notin fresh
    BY <1>0, <1>2, <2>2, HandlerMoves DEF Seed, Steps
  <2> QED BY <2>1, <2>2
<1> QED BY <1>1, <1>2

\* The pointer is read again after a lost race, or the bucket fails.
LEMMA RereadStep ==
  ASSUME AnnounceInv, NEW a \in Announces, Reread(a) \/ StoreError(a) PROVE AnnounceInv'
<1>1. ptr' = ptr /\ ptr \in [Owners -> {"absent", "empty", "pushed"}]
  BY DEF Reread, StoreError, AnnounceInv, TypeOK
<1>2. (Accept(a) /\ ptr'[OwnerOf[a]] # "absent") \/ Reject(a)
  BY <1>1 DEF Reread, StoreError
<1> QED BY <1>1, <1>2, PointerSettled DEF Reread, StoreError

\* The rollback frees the row of the only fresh claim.
LEMMA RollbackStep ==
  ASSUME AnnounceInv, NEW a \in Announces, Rollback(a) PROVE AnnounceInv'
<1> USE AnnounceAssumption DEF AnnounceInv
<1>1. a \in fresh /\ ann[a] \in Claiming
  BY DEF FreshSteps, Rollback, Claiming
<1>2. /\ row' \in {row, Nobody} /\ ann' = [ann EXCEPT ![a] = "failed"]
      /\ UNCHANGED <<ptr, fresh>>
  BY DEF Rollback, Goto
<1>3. TypeOK'
  BY <1>2 DEF TypeOK, Ends
<1>4. FreshSteps'
  BY <1>2 DEF TypeOK, FreshSteps, Ends
<1>5. \A b \in fresh' : ann'[b] \notin Claiming
  BY <1>1, <1>2 DEF TypeOK, OneFreshClaim, Claiming
<1>6. OneFreshClaim' /\ FreshClaimHeld'
  BY <1>5 DEF OneFreshClaim, FreshClaimHeld, Claiming
<1>7. PointerEstablished'
  BY <1>2 DEF TypeOK, PointerEstablished
<1> QED BY <1>3, <1>4, <1>6, <1>7

\* The handler ends.
LEMMA EndStep ==
  ASSUME AnnounceInv, NEW a \in Announces, Emit(a) \/ Abandon(a) PROVE AnnounceInv'
<1>0. ptr' = ptr /\ ptr \in [Owners -> {"absent", "empty", "pushed"}]
  BY DEF Emit, Abandon, AnnounceInv, TypeOK
<1>1. CASE Emit(a)
  <2>1. a \in fresh /\ ann[a] \in Claiming /\ ptr[OwnerOf[a]] # "absent"
    BY <1>1 DEF AnnounceInv, FreshSteps, PointerEstablished, Emit, Claiming
  <2> QED BY <1>0, <1>1, <2>1, ClaimMoves DEF Emit, Ends
<1>2. CASE Abandon(a) /\ a \in fresh
  <2>1. ann[a] \in Claiming
    BY <1>2 DEF AnnounceInv, FreshSteps, Abandon, Steps, Ends, Claiming
  <2> QED BY <1>0, <1>2, <2>1, ClaimMoves DEF Abandon, Ends
<1>3. CASE Abandon(a) /\ a \notin fresh
  BY <1>0, <1>3, HandlerMoves DEF Abandon, Ends
<1> QED BY <1>1, <1>2, <1>3

\* A push only moves a pointer further.
LEMMA PushStep ==
  ASSUME AnnounceInv, NEW o \in Owners, Push(o) PROVE AnnounceInv'
BY AnnounceAssumption DEF Push, AnnounceInv, TypeOK, FreshSteps, OneFreshClaim,
     FreshClaimHeld, PointerEstablished

LEMMA AnnounceNext == AnnounceInv /\ [Next]_vars => AnnounceInv'
<1> SUFFICES ASSUME AnnounceInv, [Next]_vars PROVE AnnounceInv'
  OBVIOUS
<1>1. CASE UNCHANGED vars
  BY <1>1 DEF vars, AnnounceInv, TypeOK, FreshSteps, OneFreshClaim,
       FreshClaimHeld, PointerEstablished
<1>2. CASE Next
  BY <1>2, PeekStep, ReserveStep, ClassifyStep, EnsureStep, SeedStep, RereadStep,
     RollbackStep, EndStep, PushStep DEF Next
<1> QED BY <1>1, <1>2

-----------------------------------------------------------------------------

\* The inductive invariant of announcements.
THEOREM AnnounceInvariant == Spec => []AnnounceInv
BY AnnounceInit, AnnounceNext, PTL DEF Spec

\* An accepted announcement has a pointer, however it obtained the name and
\* however its siblings failed: the repository can be cloned.
THEOREM AcceptedCloneable == Spec => []AcceptedHasPointer
<1>1. AnnounceInv => AcceptedHasPointer
  BY DEF AnnounceInv, PointerEstablished, AcceptedHasPointer
<1> QED BY <1>1, AnnounceInvariant, PTL

\* While a handler seeds the pointer for a name it has just reserved, no
\* rollback and no other claim takes the row away.
THEOREM ClaimUndisturbed == Spec => []FreshClaimHeld
<1>1. AnnounceInv => FreshClaimHeld
  BY DEF AnnounceInv
<1> QED BY <1>1, AnnounceInvariant, PTL

\* The create-only write of seed_manifest_pointer never resets a repository
\* that has been pushed to.
THEOREM NeverReset == Spec => PushedStays
<1>1. AnnounceInv /\ [Next]_vars =>
        [\A o \in Owners : ptr[o] = "pushed" => ptr'[o] = "pushed"]_vars
  <2> SUFFICES ASSUME AnnounceInv, Next, NEW o \in Owners, ptr[o] = "pushed"
               PROVE  ptr'[o] = "pushed"
    OBVIOUS
  <2>1. ASSUME NEW a \in Announces, Seed(a) PROVE ptr'[o] = "pushed"
    BY <2>1, AnnounceAssumption DEF Seed, AnnounceInv, TypeOK
  <2>2. ASSUME NEW p \in Owners, Push(p) PROVE ptr'[o] = "pushed"
    BY <2>2 DEF Push, AnnounceInv, TypeOK
  <2> QED BY <2>1, <2>2 DEF Next, Peek, Reserve, Classify, Ensure, Reread,
            StoreError, Rollback, Emit, Abandon
<1> QED BY <1>1, AnnounceInvariant, PTL DEF Spec, PushedStays
=============================================================================
