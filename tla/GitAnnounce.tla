----------------------------- MODULE GitAnnounce -----------------------------
(***************************************************************************)
(* Announcing a repository (kind:30617): the relay reserves the name in    *)
(* the database, seeds the pointer in the bucket, and takes the            *)
(* reservation back when that fails (buzz-relay handlers/side_effects.rs,  *)
(* handle_git_repo_announcement; buzz-db git_repo.rs).  Announcements of   *)
(* one name by the same and by other owners run concurrently on several    *)
(* relays, and the owner may push in between: the announcement event is    *)
(* stored before its side effects run, and it is all the push policy asks  *)
(* for.                                                                    *)
(*                                                                         *)
(* One name is modelled.  The pointer's key contains the owner, the row    *)
(* and the kind:30618 address do not.  What a pointer holds is reduced to  *)
(* absent, the empty manifest, or a pushed one; how pushes race each other *)
(* is GitPublish's subject.                                                *)
(***************************************************************************)
EXTENDS Naturals

CONSTANTS Announces,  \* announcement events being handled
          Owners,     \* public keys
          OwnerOf,    \* the author of each announcement
          Nobody

ASSUME AnnounceAssumption == /\ OwnerOf \in [Announces -> Owners]
                             /\ Nobody \notin Owners

VARIABLES row,    \* owner_pubkey of the name in git_repo_names, or Nobody
          ptr,    \* the pointer of each owner's repository of this name
          ann,    \* the handlers: the step each is about to take, or its end
          fresh   \* the handlers whose outcome was ReserveOutcome::Reserved

vars == <<row, ptr, ann, fresh>>

Steps == {"start", "reserve", "classify", "ensure", "seed", "reread", "rollback", "emit"}
Ends == {"accepted", "failed"}

TypeOK == /\ row \in Owners \union {Nobody}
          /\ ptr \in [Owners -> {"absent", "empty", "pushed"}]
          /\ ann \in [Announces -> Steps \union Ends]
          /\ fresh \subseteq Announces

Init == /\ row = Nobody
        /\ ptr = [o \in Owners |-> "absent"]
        /\ ann = [a \in Announces |-> "start"]
        /\ fresh = {}

Goto(a, step) == ann' = [ann EXCEPT ![a] = step]

-----------------------------------------------------------------------------
(* The name *)

\* repo_name_owner: the peek that separates a re-announcement from a claim.
\* The quota of the owner's other names, checked after it, may refuse the claim.
Peek(a) ==
  /\ ann[a] = "start"
  /\ \/ row = Nobody /\ Goto(a, "reserve")
     \/ row = Nobody /\ Goto(a, "failed")
     \/ row = OwnerOf[a] /\ Goto(a, "ensure")
     \/ row \notin {Nobody, OwnerOf[a]} /\ Goto(a, "failed")
  /\ UNCHANGED <<row, ptr, fresh>>

\* reserve_repo_name, INSERT ... ON CONFLICT DO NOTHING.
Reserve(a) ==
  /\ ann[a] = "reserve"
  /\ \/ /\ row = Nobody
        /\ row' = OwnerOf[a]
        /\ fresh' = fresh \union {a}
        /\ Goto(a, "seed")
     \/ /\ row # Nobody
        /\ Goto(a, "classify")
        /\ UNCHANGED <<row, fresh>>
  /\ UNCHANGED ptr

\* reserve_repo_name, the SELECT after a conflict: the row may be gone again,
\* and then the name counts as taken.
Classify(a) ==
  /\ ann[a] = "classify"
  /\ Goto(a, IF row = OwnerOf[a] THEN "ensure" ELSE "failed")
  /\ UNCHANGED <<row, ptr, fresh>>

-----------------------------------------------------------------------------
(* The pointer *)

Accept(a) == Goto(a, IF a \in fresh THEN "emit" ELSE "accepted")

\* Mutant: a failed attempt always takes the reservation back.
RejectReleasing(a) == Goto(a, "rollback")

\* Only a reservation this attempt made is taken back.
Reject(a) == Goto(a, IF a \in fresh THEN "rollback" ELSE "failed")

\* Mutant: takes the row of the same owner as proof that the pointer exists.
EnsureTrusting(a) ==
  /\ ann[a] = "ensure"
  /\ Accept(a)
  /\ UNCHANGED <<row, ptr, fresh>>

\* ensure_manifest_pointer: any pointer is left alone, an absent one is seeded.
Ensure(a) ==
  /\ ann[a] = "ensure"
  /\ IF ptr[OwnerOf[a]] = "absent" THEN Goto(a, "seed") ELSE Accept(a)
  /\ UNCHANGED <<row, ptr, fresh>>

\* Mutant: writes the pointer without If-None-Match.
SeedAnyway(a) ==
  /\ ann[a] = "seed"
  /\ ptr' = [ptr EXCEPT ![OwnerOf[a]] = "empty"]
  /\ Accept(a)
  /\ UNCHANGED <<row, fresh>>

\* seed_manifest_pointer: put_pointer with If-None-Match: *.  The answer to a
\* PUT that took effect may be lost, which is an error like any other.
Seed(a) ==
  /\ ann[a] = "seed"
  /\ IF ptr[OwnerOf[a]] = "absent"
     THEN /\ ptr' = [ptr EXCEPT ![OwnerOf[a]] = "empty"]
          /\ Accept(a) \/ Reject(a)
     ELSE /\ Goto(a, "reread")
          /\ UNCHANGED ptr
  /\ UNCHANGED <<row, fresh>>

\* seed_manifest_pointer after LostRace: only the empty manifest is a success.
Reread(a) ==
  /\ ann[a] = "reread"
  /\ IF ptr[OwnerOf[a]] = "empty" THEN Accept(a) ELSE Reject(a)
  /\ UNCHANGED <<row, ptr, fresh>>

\* The bucket cannot be reached.
StoreError(a) ==
  /\ ann[a] \in {"ensure", "seed", "reread"}
  /\ Reject(a)
  /\ UNCHANGED <<row, ptr, fresh>>

-----------------------------------------------------------------------------
(* The end *)

\* release_repo_name deletes the row if the owner still holds it; a failure to
\* do so is only logged.
Rollback(a) ==
  /\ ann[a] = "rollback"
  /\ \/ row' = IF row = OwnerOf[a] THEN Nobody ELSE row
     \/ UNCHANGED row
  /\ Goto(a, "failed")
  /\ UNCHANGED <<ptr, fresh>>

\* emit_initial_ref_state, only after a fresh claim; its failure is logged.
Emit(a) ==
  /\ ann[a] = "emit"
  /\ Goto(a, "accepted")
  /\ UNCHANGED <<row, ptr, fresh>>

\* The database fails, or the relay dies, and the handler ends where it is.
Abandon(a) ==
  /\ ann[a] \in Steps
  /\ Goto(a, "failed")
  /\ UNCHANGED <<row, ptr, fresh>>

\* A push of the owner, admitted by the stored announcement event.
Push(o) ==
  /\ ptr[o] # "pushed"
  /\ \E a \in Announces : OwnerOf[a] = o
  /\ ptr' = [ptr EXCEPT ![o] = "pushed"]
  /\ UNCHANGED <<row, ann, fresh>>

Next == \/ \E a \in Announces : \/ Peek(a)
                                \/ Reserve(a)
                                \/ Classify(a)
                                \/ Ensure(a)
                                \/ Seed(a)
                                \/ Reread(a)
                                \/ StoreError(a)
                                \/ Rollback(a)
                                \/ Emit(a)
                                \/ Abandon(a)
        \/ \E o \in Owners : Push(o)

Spec == Init /\ [][Next]_vars

-----------------------------------------------------------------------------
(* Properties *)

\* An announcement that was accepted leaves a repository that can be cloned:
\* its pointer exists, also when the reservation was found and not made.
AcceptedHasPointer ==
  \A a \in Announces : ann[a] = "accepted" => ptr[OwnerOf[a]] # "absent"

\* No announcement sets a repository that has been pushed to back to empty.
PushedStays == [][\A o \in Owners : ptr[o] = "pushed" => ptr'[o] = "pushed"]_vars

\* A handler on its way to seed or confirm a pointer for a fresh claim holds
\* the name: nobody else's rollback or claim takes it away.
FreshClaimHeld ==
  \A a \in fresh : ann[a] \in {"seed", "reread", "emit", "rollback"} =>
    row = OwnerOf[a]

\* An accepted announcement owns its name, so that no other owner can claim the
\* same kind:30618 address: what the comment above the rollback takes for
\* granted when it calls releasing the row safe.  Not an invariant of the code:
\* see section 5 of the README.
AcceptedHoldsName ==
  \A a \in Announces : ann[a] = "accepted" => row = OwnerOf[a]
=============================================================================
