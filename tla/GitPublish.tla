----------------------------- MODULE GitPublish ------------------------------
(***************************************************************************)
(* Git repositories kept in object storage: concurrent pushes to one       *)
(* repository, handled by relays that share nothing but the bucket and the *)
(* database (buzz-relay, api/git: transport.rs, hydrate.rs, cas_publish.rs,*)
(* store.rs, manifest.rs, manifest_event.rs).                              *)
(*                                                                         *)
(* The bucket holds immutable packs and manifests, whose keys are digests  *)
(* of their content, and one mutable pointer, whose body is the digest of  *)
(* the current manifest.  A push reads the pointer, runs git receive-pack  *)
(* in a private directory filled from the manifest it found, uploads a     *)
(* pack and a manifest, and moves the pointer with a conditional PUT.      *)
(* There is no lock: the conditional PUT is the only serialisation.        *)
(*                                                                         *)
(* Abstractions.  An object of git is a member of Commits and a pack is    *)
(* the set of objects in it.  The digest of a manifest is its place in     *)
(* `manifests', which never holds one content twice.  Objects are never    *)
(* deleted, so reading the manifest and packs behind a pointer commutes    *)
(* with every other step and Hydrate reads them with the pointer.  Idx     *)
(* sidecars, the pack cache and metrics are left out: nothing they do can  *)
(* be seen by a push that succeeds.                                        *)
(***************************************************************************)
EXTENDS Naturals, Sequences, FiniteSets

CONSTANTS
  Pushes,            \* push requests, each on any relay
  Commits,           \* git objects
  Closure,           \* Closure[c]: the objects reachable from c
  RefNames,          \* branch names
  Main,              \* refs/heads/main
  NoOid,             \* an unset ref
  CompactThreshold,  \* PACK_COMPACTION_THRESHOLD
  MaxManifestPacks,  \* MAX_MANIFEST_PACKS
  MaxCommands        \* bound: refs one push changes

ASSUME GitAssumption ==
  /\ Closure \in [Commits -> SUBSET Commits]
  /\ \A c \in Commits : c \in Closure[c]
  /\ Main \in RefNames
  /\ NoOid \notin Commits
  /\ CompactThreshold \in Nat /\ MaxManifestPacks \in Nat \ {0}
  /\ MaxCommands \in Nat

VARIABLES
  packs,      \* the packs stored in the bucket
  manifests,  \* the manifests stored in the bucket; a digest is an index
  pointer,    \* the body of the pointer, a digest; 0 while it is absent
  push,       \* the requests
  events      \* the ref states announced in kind:30618 events

vars == <<packs, manifests, pointer, push, events>>

-----------------------------------------------------------------------------
(* Data *)

RefStates == [RefNames -> Commits \union {NoOid}]
Packs == SUBSET Commits

\* What a manifest may name: Manifest::validate counts the packs.
PackSets == {ks \in SUBSET Packs : IsFiniteSet(ks) /\ Cardinality(ks) <= MaxManifestPacks}

Manifests == [refs : RefStates, head : RefNames, packs : PackSets, parent : Nat]

NoRefs == [r \in RefNames |-> NoOid]

\* The manifest seed_manifest_pointer writes for an announced repository.  It
\* is also what a push starts from when there is no pointer: ParentState::fresh,
\* in a workspace whose HEAD init_bare_repo has set to main.
EmptyManifest == [refs |-> NoRefs, head |-> Main, packs |-> {}, parent |-> 0]

Present(refs) == {r \in RefNames : refs[r] # NoOid}
Reach(refs) == UNION {Closure[refs[r]] : r \in Present(refs)}

Live == {"hydrated", "captured", "stored", "won"}

\* The answers: 2xx; git's own report of a declined push, 400 or 413; 409; 500
\* or a broken connection.
Results == {"ok", "refused", "conflict", "error"}

\* A finished request keeps only its answer.
Requests ==
  [phase : {"idle"} \union Live \union Results,
   etag : Nat,              \* ParentState.if_match and parent_digest; 0 is None
   parent : Manifests,      \* ParentState.parent
   mf : Manifests,          \* the draft of m_after
   digest : Nat]            \* its key, once put_manifest answered

Blank(phase) == [phase |-> phase, etag |-> 0, parent |-> EmptyManifest,
                 mf |-> EmptyManifest, digest |-> 0]

Answer(p, result) == push' = [push EXCEPT ![p] = Blank(result)]

\* Type invariant.  No draft and no manifest names more packs than a clone may
\* have to fetch, so Manifest::validate never refuses one for its packs: the
\* delta path looks at the limit first, and so does compaction.
TypeOK == /\ packs \subseteq Packs
          /\ manifests \in Seq(Manifests)
          /\ pointer \in 0..Len(manifests)
          /\ push \in [Pushes -> Requests]
          /\ events \subseteq RefStates

\* put_immutable is create-only under a digest: an existing key is success.
PutImmutable(m) == IF \E d \in DOMAIN manifests : manifests[d] = m
                   THEN manifests
                   ELSE Append(manifests, m)
Digest(ms, m) == CHOOSE d \in DOMAIN ms : ms[d] = m

Init == /\ packs = {}
        /\ manifests = <<>>
        /\ pointer = 0
        /\ push = [p \in Pushes |-> Blank("idle")]
        /\ events = {}

\* handle_git_repo_announcement creates the pointer; its announcement is stored
\* first, so the hook may let a push through while the pointer is still absent.
Seed == /\ pointer = 0
        /\ manifests' = PutImmutable(EmptyManifest)
        /\ pointer' = Digest(manifests', EmptyManifest)
        /\ UNCHANGED <<packs, push, events>>

-----------------------------------------------------------------------------
(* Reading the published state and running receive-pack *)

\* hydrate_for_write: one GET gives the ETag and the digest; the ETag of a
\* pointer is a function of its body, so the digest stands for both.
Hydrate(p) ==
  /\ push[p].phase = "idle"
  /\ push' = [push EXCEPT ![p].phase = "hydrated",
                          ![p].etag = pointer,
                          ![p].parent = IF pointer = 0 THEN EmptyManifest
                                                       ELSE manifests[pointer]]
  /\ UNCHANGED <<packs, manifests, pointer, events>>

\* Mutant: publishes the HEAD of the workspace as it is.
KeepWorkspaceHead(refs, head) == head

\* resolve_published_head; the workspace's HEAD is the one it was hydrated with.
ResolvePublishedHead(refs, head) ==
  IF head \in Present(refs) THEN head
  ELSE IF Main \in Present(refs) THEN Main
  ELSE IF Present(refs) # {} THEN CHOOSE r \in Present(refs) : TRUE
  ELSE head

\* receive-pack leads from the hydrated refs to another ref state: the pack a
\* client sends is complete, which git verifies.
Received(p) ==
  {after \in RefStates :
     Cardinality({r \in RefNames : after[r] # push[p].parent.refs[r]}) <= MaxCommands}

\* The push ends with a 4xx or with git's report before the manifest is
\* written: a ref is declined by the hook or git fails (finalize_push publishes
\* nothing, also when git's report says ok for other refs), a pack or the repository is over its byte limit, the manifest is
\* full and cannot be compacted, or Manifest::validate refuses the draft.
Refuse(p) ==
  /\ push[p].phase \in {"hydrated", "captured"}
  /\ Answer(p, "refused")
  /\ UNCHANGED <<packs, manifests, pointer, events>>

-----------------------------------------------------------------------------
(* cas_publish.  Receive-pack, which touches only the workspace, and the       *)
(* capture of its objects are one step.                                        *)

\* The objects that no ref of the parent reaches (capture_pack).
NewObjects(p, after) == Reach(after) \ Reach(push[p].parent.refs)

\* compose_after and compose_compacted_after: the draft names its parent.
Compose(p, after, keys) ==
  push' = [push EXCEPT
             ![p].phase = "captured",
             ![p].mf = [refs |-> after,
                        head |-> ResolvePublishedHead(after, push[p].parent.head),
                        packs |-> keys,
                        parent |-> push[p].etag]]

\* capture_pack: pack-objects runs without --non-empty, and for a push that
\* only moves refs among known objects it writes a pack without objects, which
\* counts like any other.  Only a push that leaves no ref brings no pack.
CapturePack(p, after) ==
  IF Present(after) = {} THEN {} ELSE {NewObjects(p, after)}

\* Mutant: the limit is looked at one pack too late.
CaptureDeltaFull(p) ==
  /\ push[p].phase = "hydrated"
  /\ \E after \in Received(p) :
       LET new == CapturePack(p, after)
       IN  /\ new # {} => Cardinality(push[p].parent.packs) <= MaxManifestPacks
           /\ packs' = packs \union new
           /\ Compose(p, after, push[p].parent.packs \union new)
  /\ UNCHANGED <<manifests, pointer, events>>

\* The normal path, and the fallback when compaction was tried and failed: the
\* pack of the push is added, unless the manifest is full.
CaptureDelta(p) ==
  /\ push[p].phase = "hydrated"
  /\ \E after \in Received(p) :
       LET new == CapturePack(p, after)
       IN  /\ new # {} => Cardinality(push[p].parent.packs) < MaxManifestPacks
           /\ packs' = packs \union new
           /\ Compose(p, after, push[p].parent.packs \union new)
  /\ UNCHANGED <<manifests, pointer, events>>

ShouldCompact(p) == Cardinality(push[p].parent.packs) >= CompactThreshold

CompactedPackSetIsUsable(before, after) ==
  \/ after < before
  \/ before >= MaxManifestPacks /\ after <= MaxManifestPacks

\* The pack sets pack-objects can split the whole closure into, within the
\* limit that capture_compacted_packs sets.
Splits(objects) ==
  {ks \in PackSets : /\ UNION ks = objects /\ {} \notin ks
                    /\ \A k1, k2 \in ks : k1 = k2 \/ k1 \intersect k2 = {}}

\* Mutant: compacts with the parent's tips as negative revisions.
CaptureCompactedDelta(p) ==
  /\ push[p].phase = "hydrated"
  /\ ShouldCompact(p)
  /\ \E after \in Received(p) : \E keys \in Splits(NewObjects(p, after)) :
       /\ CompactedPackSetIsUsable(Cardinality(push[p].parent.packs), Cardinality(keys))
       /\ packs' = packs \union keys
       /\ Compose(p, after, keys)
  /\ UNCHANGED <<manifests, pointer, events>>

\* prepare_compaction: the closure of the refs after the push replaces every
\* pack of the parent.
CaptureCompacted(p) ==
  /\ push[p].phase = "hydrated"
  /\ ShouldCompact(p)
  /\ \E after \in Received(p) : \E keys \in Splits(Reach(after)) :
       /\ CompactedPackSetIsUsable(Cardinality(push[p].parent.packs), Cardinality(keys))
       /\ packs' = packs \union keys
       /\ Compose(p, after, keys)
  /\ UNCHANGED <<manifests, pointer, events>>

\* put_manifest.
PutManifest(p) ==
  /\ push[p].phase = "captured"
  /\ Cardinality(push[p].mf.packs) <= MaxManifestPacks
  /\ manifests' = PutImmutable(push[p].mf)
  /\ push' = [push EXCEPT ![p].phase = "stored",
                          ![p].digest = Digest(manifests', push[p].mf)]
  /\ UNCHANGED <<packs, pointer, events>>

\* Mutant: re-reads the pointer just before the conditional PUT.
PrecondReread(p) == TRUE

\* put_pointer's precondition: If-Match the ETag read, or If-None-Match: *.
Precond(p) == pointer = push[p].etag

CasWon(p) ==
  /\ push[p].phase = "stored"
  /\ Precond(p)
  /\ pointer' = push[p].digest
  /\ push' = [push EXCEPT ![p].phase = "won"]
  /\ UNCHANGED <<packs, manifests, events>>

\* 412: 409 to the client, no retry.
CasLost(p) ==
  /\ push[p].phase = "stored"
  /\ ~Precond(p)
  /\ Answer(p, "conflict")
  /\ UNCHANGED <<packs, manifests, pointer, events>>

\* The PUT takes effect, but its answer is lost or has no ETag (500), or the
\* relay dies first.  A PUT that is still under way when the 500 is sent is
\* this step too, taken when it reaches the bucket.
CasAnswerLost(p) ==
  /\ push[p].phase = "stored"
  /\ Precond(p)
  /\ pointer' = push[p].digest
  /\ Answer(p, "error")
  /\ UNCHANGED <<packs, manifests, events>>

-----------------------------------------------------------------------------
(* After the commit *)

\* manifest_changed: the new digest differs from the parent's.
ManifestChanged(p) == push[p].digest # push[p].etag

\* Mutant: announces before the pointer is moved.
FinishEarly(p) ==
  /\ push[p].phase = "stored"
  /\ events' = events \union {push[p].mf.refs}
  /\ Answer(p, "ok")
  /\ UNCHANGED <<packs, manifests, pointer>>

\* The rest of finalize_push: kind:30618 is built from the committed manifest
\* and inserted, where a failure is only logged, and then the 2xx is built, the
\* only one of a push that published something.  The connection may break
\* before the client has it.
Finish(p) ==
  /\ push[p].phase = "won"
  /\ \/ ManifestChanged(p) /\ events' = events \union {push[p].mf.refs}
     \/ UNCHANGED events
  /\ \E r \in {"ok", "error"} : Answer(p, r)
  /\ UNCHANGED <<packs, manifests, pointer>>

\* A store or git error before the pointer is written, or while the winner is
\* read after a lost race (500), or, at any point, the relay dies or drops the
\* request.  The bucket keeps what it has.
Fail(p) ==
  /\ push[p].phase \in {"idle", "hydrated", "captured", "stored"}
  /\ Answer(p, "error")
  /\ UNCHANGED <<packs, manifests, pointer, events>>

PushStep(p) ==
  \/ Hydrate(p)
  \/ Refuse(p)
  \/ CaptureDelta(p)
  \/ CaptureCompacted(p)
  \/ PutManifest(p)
  \/ CasWon(p)
  \/ CasLost(p)
  \/ CasAnswerLost(p)
  \/ Finish(p)
  \/ Fail(p)

Next == Seed \/ \E p \in Pushes : PushStep(p)

Spec == Init /\ [][Next]_vars

-----------------------------------------------------------------------------
(* Properties *)

\* The ref states from the first manifest to each of ms, found by following the
\* parents.
ChainOf(ms) ==
  LET chain[n \in 0..Len(ms)] ==
        IF n = 0 THEN <<>> ELSE Append(chain[ms[n].parent], ms[n].refs)
  IN  chain

History(d) == ChainOf(manifests)[d]

\* How a request appears to its client: its status, and what it is based on.
ClientStatus(phase) ==
  CASE phase = "idle" -> "idle"
    [] phase \in {"hydrated", "captured", "stored"} -> "open"
    [] phase = "won" -> "committed"
    [] phase = "ok" -> "ok"
    [] phase = "refused" -> "refused"
    [] phase = "conflict" -> "conflict"
    [] phase = "error" -> "unknown"

ClientBase(request) ==
  IF request.phase \in Live THEN Len(History(request.etag)) ELSE 0

RefLog == INSTANCE GitRefLog WITH
            log <- History(pointer),
            status <- [p \in Pushes |-> ClientStatus(push[p].phase)],
            base <- [p \in Pushes |-> ClientBase(push[p])]

\* Concurrent pushes on relays that share no lock implement one growing log of
\* ref states: no update is lost or derived from a state other than the one
\* before it, the chain of parents is the whole history, a 2xx means
\* published, 4xx and 409 mean not published, and a 409 means that another
\* push was published in the meantime.
ImplementsRefLog == RefLog!Spec

\* The repository can always be cloned: the pointer names a stored manifest,
\* whose packs are stored and hold every object its refs reach, also after
\* branches were deleted and packs compacted, and after crashes between the
\* uploads.
Cloneable ==
  pointer # 0 => /\ manifests[pointer].packs \subseteq packs
                 /\ Reach(manifests[pointer].refs) \subseteq UNION manifests[pointer].packs

\* A repository with a branch never advertises a HEAD that does not exist,
\* whichever branch was pushed first and whichever was deleted.
HeadExists ==
  pointer # 0 => LET m == manifests[pointer]
                 IN  Present(m.refs) # {} => m.head \in Present(m.refs)

\* Every announced ref state was published by the pointer first: a refused or
\* lost push announces nothing.
AnnouncedWasPublished ==
  \A e \in events : \E i \in DOMAIN History(pointer) : History(pointer)[i] = e
=============================================================================
