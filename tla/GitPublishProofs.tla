-------------------------- MODULE GitPublishProofs --------------------------
(***************************************************************************)
(* Proofs about pushes to object storage, for every number of pushes,      *)
(* commits and branches, every reachability relation and every limit.      *)
(*                                                                         *)
(* ChainOf is a recursive function over the manifests.  What it computes   *)
(* is proved by looking at a least counterexample: parents come before     *)
(* their children in the bucket (ParentsFirst), so the definition is well  *)
(* founded and later manifests do not change the history of earlier ones.  *)
(***************************************************************************)
EXTENDS GitPublish, WellFoundedInduction, SequenceTheorems, FiniteSetTheorems, TLAPS

-----------------------------------------------------------------------------
(* Histories *)

LEMMA LeastNat ==
  ASSUME NEW S \in SUBSET Nat, S # {}
  PROVE  \E n \in S : \A k \in S : n <= k
<1>1. PICK n \in S : \A k \in S : <<k, n>> \notin OpToRel(<, Nat)
  BY WFMin, NatLessThanWellFounded, Zenon
<1>2. \A k \in S : ~(k < n)
  BY <1>1, Zenon DEF OpToRel
<1> QED BY <1>2

\* Every manifest was written after its parent.
ParentsFirst(ms) == \A n \in 1..Len(ms) : ms[n].parent \in 0..(n - 1)

\* One entry of the chain, given the earlier ones.
Entry(g, ms, n) == IF n = 0 THEN <<>> ELSE Append(g[ms[n].parent], ms[n].refs)

\* There is a function that satisfies the equations up to any manifest.
LEMMA ChainExists ==
  ASSUME NEW ms \in Seq(Manifests), ParentsFirst(ms), NEW k \in 0..Len(ms)
  PROVE  \E g : g = [n \in 0..k |-> Entry(g, ms, n)]
<1> DEFINE Ex(i) == \E g : g = [n \in 0..i |-> Entry(g, ms, n)]
           Bad == {i \in 0..Len(ms) : ~Ex(i)}
<1>1. SUFFICES ASSUME Bad # {} PROVE FALSE
  OBVIOUS
<1>2. PICK i \in Bad : \A j \in Bad : i <= j
  <2>1. Bad \in SUBSET Nat
    OBVIOUS
  <2> HIDE DEF Bad
  <2> QED BY <1>1, <2>1, LeastNat
<1>3. i \in 0..Len(ms) /\ ~Ex(i)
  BY <1>2
<1>4. i # 0
  <2> DEFINE g == [n \in 0..0 |-> <<>>]
  <2>1. g = [n \in 0..0 |-> Entry(g, ms, n)]
    BY DEF Entry
  <2> HIDE DEF g
  <2>2. Ex(0)
    BY <2>1
  <2> QED BY <1>3, <2>2
<1>5. Ex(i - 1)
  BY <1>2, <1>3, <1>4
<1>6. PICK g : g = [n \in 0..(i - 1) |-> Entry(g, ms, n)]
  BY <1>5
<1> DEFINE h == [n \in 0..i |-> IF n < i THEN g[n] ELSE Entry(g, ms, i)]
<1>7. ASSUME NEW n \in 0..i PROVE h[n] = Entry(h, ms, n)
  <2>1. n # 0 => ms[n].parent \in 0..(n - 1)
    BY <1>3 DEF ParentsFirst
  <2>2. n # 0 => h[ms[n].parent] = g[ms[n].parent]
    BY <1>3, <2>1
  <2>3. h[n] = Entry(g, ms, n)
    BY <1>3, <1>6
  <2> QED BY <2>2, <2>3 DEF Entry
<1>8. h = [n \in 0..i |-> Entry(h, ms, n)]
  BY <1>7
<1> HIDE DEF h
<1>9. Ex(i)
  BY <1>8
<1> QED BY <1>3, <1>9

\* The recursive definition of ChainOf does define it.
LEMMA ChainDef ==
  ASSUME NEW ms \in Seq(Manifests), ParentsFirst(ms)
  PROVE  ChainOf(ms) = [n \in 0..Len(ms) |-> Entry(ChainOf(ms), ms, n)]
<1> DEFINE P(g) == g = [n \in 0..Len(ms) |-> Entry(g, ms, n)]
<1>1. \E g : P(g)
  <2>1. Len(ms) \in 0..Len(ms)
    OBVIOUS
  <2> QED BY <2>1, ChainExists
<1>2. ChainOf(ms) = CHOOSE g : P(g)
  BY DEF ChainOf, Entry
<1>3. P(ChainOf(ms))
  <2> HIDE DEF P
  <2> QED BY <1>1, <1>2
<1> QED BY <1>3

LEMMA ChainEntries ==
  ASSUME NEW ms \in Seq(Manifests), ParentsFirst(ms)
  PROVE  /\ ChainOf(ms)[0] = <<>>
         /\ \A n \in 1..Len(ms) :
              ChainOf(ms)[n] = Append(ChainOf(ms)[ms[n].parent], ms[n].refs)
<1> DEFINE c == ChainOf(ms)
<1>1. c = [n \in 0..Len(ms) |-> Entry(c, ms, n)]
  BY ChainDef
<1> HIDE DEF c
<1>2. \A n \in 0..Len(ms) : c[n] = Entry(c, ms, n)
  BY <1>1
<1>3. c[0] = <<>>
  <2>1. 0 \in 0..Len(ms)
    BY LenProperties
  <2> QED BY <1>2, <2>1 DEF Entry
<1>4. ASSUME NEW n \in 1..Len(ms)
      PROVE  c[n] = Append(c[ms[n].parent], ms[n].refs)
  <2>1. n \in 0..Len(ms) /\ n # 0
    BY LenProperties
  <2> QED BY <1>2, <2>1, Zenon DEF Entry
<1> QED BY <1>3, <1>4 DEF c

LEMMA ChainType ==
  ASSUME NEW ms \in Seq(Manifests), ParentsFirst(ms), NEW d \in 0..Len(ms)
  PROVE  ChainOf(ms)[d] \in Seq(RefStates)
<1> DEFINE Bad == {n \in 0..Len(ms) : ChainOf(ms)[n] \notin Seq(RefStates)}
<1>1. SUFFICES ASSUME Bad # {} PROVE FALSE
  OBVIOUS
<1>2. PICK n \in Bad : \A k \in Bad : n <= k
  <2>1. Bad \in SUBSET Nat
    OBVIOUS
  <2> HIDE DEF Bad
  <2> QED BY <1>1, <2>1, LeastNat
<1>3. n # 0
  <2>1. <<>> \in Seq(RefStates)
    OBVIOUS
  <2> QED BY <1>2, <2>1, ChainEntries
<1>4. n \in 1..Len(ms) /\ ms[n].parent \in 0..(n - 1) /\ ms[n].refs \in RefStates
  <2>1. n \in 1..Len(ms)
    BY <1>2, <1>3
  <2>2. ms[n] \in Manifests
    BY <2>1, ElementOfSeq
  <2> QED BY <2>1, <2>2 DEF ParentsFirst, Manifests
<1>5. ChainOf(ms)[ms[n].parent] \in Seq(RefStates)
  BY <1>2, <1>4
<1>6. ChainOf(ms)[n] \in Seq(RefStates)
  <2>1. ChainOf(ms)[n] = Append(ChainOf(ms)[ms[n].parent], ms[n].refs)
    BY <1>4, ChainEntries, Zenon
  <2>2. \A h \in Seq(RefStates), r \in RefStates : Append(h, r) \in Seq(RefStates)
    BY AppendProperties
  <2> QED BY <1>4, <1>5, <2>1, <2>2, Zenon
<1> QED BY <1>2, <1>6

\* Later manifests do not change the history of an earlier one.
LEMMA ChainStable ==
  ASSUME NEW ms \in Seq(Manifests), ParentsFirst(ms),
         NEW more \in Seq(Manifests), ParentsFirst(more),
         Len(ms) <= Len(more), \A n \in 1..Len(ms) : more[n] = ms[n],
         NEW d \in 0..Len(ms)
  PROVE  ChainOf(more)[d] = ChainOf(ms)[d]
<1> DEFINE Bad == {n \in 0..Len(ms) : ChainOf(more)[n] # ChainOf(ms)[n]}
<1>1. SUFFICES ASSUME Bad # {} PROVE FALSE
  OBVIOUS
<1>2. PICK n \in Bad : \A k \in Bad : n <= k
  <2>1. Bad \in SUBSET Nat
    OBVIOUS
  <2> HIDE DEF Bad
  <2> QED BY <1>1, <2>1, LeastNat
<1>3. n # 0
  BY <1>2, ChainEntries
<1>4. n \in 1..Len(ms) /\ n \in 1..Len(more) /\ ms[n].parent \in 0..(n - 1)
  BY <1>2, <1>3 DEF ParentsFirst
<1>5. ChainOf(more)[ms[n].parent] = ChainOf(ms)[ms[n].parent]
  BY <1>2, <1>4
<1>6. ChainOf(more)[n] = ChainOf(ms)[n]
  <2>1. ChainOf(ms)[n] = Append(ChainOf(ms)[ms[n].parent], ms[n].refs)
    BY <1>4, ChainEntries, Zenon
  <2>2. ChainOf(more)[n] = Append(ChainOf(more)[more[n].parent], more[n].refs)
    BY <1>4, ChainEntries, Zenon
  <2>3. more[n] = ms[n]
    BY <1>4
  <2> QED BY <1>5, <2>1, <2>2, <2>3, Zenon
<1> QED BY <1>2, <1>6

-----------------------------------------------------------------------------
(* The inductive invariant *)

\* The packs of m are stored in ps and hold what its refs reach.
Complete(m, ps) == m.packs \subseteq ps /\ Reach(m.refs) \subseteq UNION m.packs

HeadPresent(m) == Present(m.refs) # {} => m.head \in Present(m.refs)

\* The packs ps and the manifests ms are a bucket as pushes leave it.
Bucket(ps, ms) == /\ ms \in Seq(Manifests)
                  /\ ParentsFirst(ms)
                  /\ \A d \in 1..Len(ms) : Complete(ms[d], ps) /\ HeadPresent(ms[d])

\* What the request q knows is in the bucket, and its draft can be published.
Sound(q, ps, ms) ==
  /\ q.etag \in 0..Len(ms)
  /\ q.phase \in Live => q.parent = IF q.etag = 0 THEN EmptyManifest ELSE ms[q.etag]
  /\ q.phase \in {"captured", "stored", "won"} =>
       Complete(q.mf, ps) /\ HeadPresent(q.mf) /\ q.mf.parent = q.etag
  /\ q.phase \in {"stored", "won"} => q.digest \in 1..Len(ms) /\ ms[q.digest] = q.mf

Logged(refs, log) == \E i \in DOMAIN log : log[i] = refs

\* Either nothing was published since the request read the pointer, or the log
\* is longer now; and a request that won is in the log.
Descends(q, ms, pt) ==
  /\ q.phase \in Live /\ q.etag # pt => Len(ChainOf(ms)[q.etag]) < Len(ChainOf(ms)[pt])
  /\ q.phase = "won" => Logged(q.mf.refs, ChainOf(ms)[pt])

GitInv == /\ TypeOK
          /\ Bucket(packs, manifests)
          /\ \A p \in Pushes : /\ Sound(push[p], packs, manifests)
                               /\ Descends(push[p], manifests, pointer)
          /\ \A e \in events : Logged(e, ChainOf(manifests)[pointer])

-----------------------------------------------------------------------------
(* Data *)

LEMMA EmptyFacts ==
  /\ EmptyManifest \in Manifests /\ EmptyManifest.parent = 0
  /\ \A ps : Complete(EmptyManifest, ps)
  /\ HeadPresent(EmptyManifest)
<1>1. NoRefs \in RefStates /\ Present(NoRefs) = {}
  BY DEF NoRefs, RefStates, Present
<1>2. Reach(NoRefs) = {}
  BY <1>1 DEF Reach
<1>3. {} \in PackSets
  BY FS_EmptySet, GitAssumption DEF PackSets
<1> QED BY <1>1, <1>2, <1>3, GitAssumption DEF EmptyManifest, Manifests, Complete, HeadPresent

LEMMA BlankFacts ==
  ASSUME NEW phase \in {"idle"} \union Live \union Results
  PROVE  /\ Blank(phase) \in Requests /\ Blank(phase).phase = phase /\ Blank(phase).etag = 0
BY EmptyFacts DEF Blank, Requests

LEMMA ReachType ==
  ASSUME NEW refs \in RefStates
  PROVE  Reach(refs) \subseteq Commits
BY GitAssumption DEF RefStates, Reach, Present

\* put_immutable adds m unless it is there, and its digest is a place of m.
LEMMA PutFacts ==
  ASSUME TypeOK, NEW m \in Manifests, manifests' = PutImmutable(m)
  PROVE  /\ manifests' \in Seq(Manifests) /\ Len(manifests) <= Len(manifests')
         /\ \A d \in 1..Len(manifests) : manifests'[d] = manifests[d]
         /\ \A d \in 1..Len(manifests') :
              d \in 1..Len(manifests) \/ (d = Len(manifests) + 1 /\ manifests'[d] = m)
         /\ Digest(manifests', m) \in 1..Len(manifests')
         /\ manifests'[Digest(manifests', m)] = m
<1>1. manifests \in Seq(Manifests) /\ DOMAIN manifests = 1..Len(manifests)
  BY LenProperties DEF TypeOK
<1>2. /\ manifests' \in Seq(Manifests) /\ Len(manifests) <= Len(manifests')
      /\ \A d \in 1..Len(manifests) : manifests'[d] = manifests[d]
      /\ \A d \in 1..Len(manifests') :
           d \in 1..Len(manifests) \/ (d = Len(manifests) + 1 /\ manifests'[d] = m)
      /\ \E d \in 1..Len(manifests') : manifests'[d] = m
  <2>1. CASE \E d \in DOMAIN manifests : manifests[d] = m
    BY <1>1, <2>1 DEF PutImmutable
  <2>2. CASE ~\E d \in DOMAIN manifests : manifests[d] = m
    <3>1. manifests' = Append(manifests, m)
      BY <2>2 DEF PutImmutable
    <3> QED BY <1>1, <3>1, AppendProperties, LenProperties
  <2> QED BY <2>1, <2>2
<1>3. DOMAIN manifests' = 1..Len(manifests')
  BY <1>2, LenProperties
<1>4. \E d \in DOMAIN manifests' : manifests'[d] = m
  BY <1>2, <1>3
<1>5. /\ Digest(manifests', m) \in DOMAIN manifests'
      /\ manifests'[Digest(manifests', m)] = m
  BY <1>4, Zenon DEF Digest
<1> QED BY <1>2, <1>3, <1>5

-----------------------------------------------------------------------------
(* What a step may do to the bucket, and what that leaves true *)

\* Nothing is deleted or overwritten.
Grows(ps, ms, ps2, ms2) ==
  ps \subseteq ps2 /\ Len(ms) <= Len(ms2) /\ \A d \in 1..Len(ms) : ms2[d] = ms[d]

\* The pointer stays, or moves to a child of the manifest it named.
Advances(pt, ms2, pt2) == pt2 = pt \/ (pt2 \in 1..Len(ms2) /\ ms2[pt2].parent = pt)

\* One step of the bucket and its pointer.
Moves(ps, ms, pt, ps2, ms2, pt2) ==
  /\ Bucket(ps, ms) /\ Bucket(ps2, ms2) /\ Grows(ps, ms, ps2, ms2)
  /\ pt \in 0..Len(ms) /\ Advances(pt, ms2, pt2)

LEMMA SoundKept ==
  ASSUME NEW ps, NEW ms \in Seq(Manifests), NEW ps2, NEW ms2 \in Seq(Manifests),
         Grows(ps, ms, ps2, ms2), NEW q \in Requests, Sound(q, ps, ms)
  PROVE  Sound(q, ps2, ms2)
<1>1. Len(ms) \in Nat /\ Len(ms2) \in Nat
  BY LenProperties
<1> QED BY <1>1 DEF Sound, Complete, Grows

\* The log stays or gets the refs of the manifest the pointer moved to.
LEMMA LogMoves ==
  ASSUME NEW ps, NEW ms, NEW pt, NEW ps2, NEW ms2, NEW pt2,
         Moves(ps, ms, pt, ps2, ms2, pt2)
  PROVE  /\ ChainOf(ms)[pt] \in Seq(RefStates)
         /\ \A d \in 0..Len(ms) : ChainOf(ms2)[d] = ChainOf(ms)[d]
         /\ pt2 = pt => ChainOf(ms2)[pt2] = ChainOf(ms)[pt]
         /\ pt2 # pt => /\ ms2[pt2].refs \in RefStates
                        /\ ChainOf(ms2)[pt2] = Append(ChainOf(ms)[pt], ms2[pt2].refs)
<1> USE DEF Moves
<1>1. \A d \in 0..Len(ms) : ChainOf(ms2)[d] = ChainOf(ms)[d]
  BY ChainStable DEF Bucket, Grows
<1>2. ChainOf(ms)[pt] \in Seq(RefStates)
  BY ChainType DEF Bucket
<1>3. ASSUME pt2 # pt
      PROVE  /\ ms2[pt2].refs \in RefStates
             /\ ChainOf(ms2)[pt2] = Append(ChainOf(ms)[pt], ms2[pt2].refs)
  <2>1. pt2 \in 1..Len(ms2) /\ ms2[pt2].parent = pt
    BY <1>3 DEF Advances
  <2>2. ms2[pt2] \in Manifests
    BY <2>1, ElementOfSeq DEF Bucket
  <2>3. ChainOf(ms2)[pt2] = Append(ChainOf(ms2)[pt], ms2[pt2].refs)
    BY <2>1, ChainEntries, Zenon DEF Bucket
  <2>4. ChainOf(ms2)[pt] = ChainOf(ms)[pt]
    BY <1>1
  <2>5. ms2[pt2].refs \in RefStates
    BY <2>2 DEF Manifests
  <2> QED BY <2>3, <2>4, <2>5
<1> QED BY <1>1, <1>2, <1>3

LEMMA AppendedLog ==
  ASSUME NEW log \in Seq(RefStates), NEW r \in RefStates
  PROVE  /\ Len(Append(log, r)) = Len(log) + 1 /\ Len(log) \in Nat
         /\ Logged(r, Append(log, r))
         /\ \A refs : Logged(refs, log) => Logged(refs, Append(log, r))
<1> DEFINE new == Append(log, r)
<1>1. /\ new \in Seq(RefStates) /\ Len(new) = Len(log) + 1 /\ Len(log) \in Nat
      /\ \A i \in 1..Len(log) : new[i] = log[i]
      /\ new[Len(log) + 1] = r
  BY AppendProperties, LenProperties
<1>2. DOMAIN log = 1..Len(log) /\ DOMAIN new = 1..Len(new)
  BY <1>1, LenProperties
<1> HIDE DEF new
<1>3. Logged(r, new) /\ \A refs : Logged(refs, log) => Logged(refs, new)
  BY <1>1, <1>2 DEF Logged
<1> QED BY <1>1, <1>3 DEF new

LEMMA LoggedKept ==
  ASSUME NEW ps, NEW ms, NEW pt, NEW ps2, NEW ms2, NEW pt2,
         Moves(ps, ms, pt, ps2, ms2, pt2),
         NEW refs, Logged(refs, ChainOf(ms)[pt])
  PROVE  Logged(refs, ChainOf(ms2)[pt2])
<1>1. /\ ChainOf(ms)[pt] \in Seq(RefStates)
      /\ pt2 = pt => ChainOf(ms2)[pt2] = ChainOf(ms)[pt]
      /\ pt2 # pt => /\ ms2[pt2].refs \in RefStates
                     /\ ChainOf(ms2)[pt2] = Append(ChainOf(ms)[pt], ms2[pt2].refs)
  BY LogMoves
<1>2. CASE pt2 = pt
  BY <1>1, <1>2, Zenon
<1>3. CASE pt2 # pt
  <2>1. Logged(refs, Append(ChainOf(ms)[pt], ms2[pt2].refs))
    BY <1>1, <1>3, AppendedLog, Zenon
  <2> QED BY <1>1, <1>3, <2>1, Zenon
<1> QED BY <1>2, <1>3

LEMMA DescendsKept ==
  ASSUME NEW ps, NEW ms, NEW pt, NEW ps2, NEW ms2, NEW pt2,
         Moves(ps, ms, pt, ps2, ms2, pt2),
         NEW q \in Requests, Sound(q, ps, ms), Descends(q, ms, pt)
  PROVE  Descends(q, ms2, pt2)
<1> DEFINE old == ChainOf(ms)[pt]
           own == ChainOf(ms)[q.etag]
           now == ChainOf(ms2)[pt2]
<1>1. q.etag \in 0..Len(ms)
  BY DEF Sound
<1>2. /\ old \in Seq(RefStates)
      /\ pt2 = pt => now = old
      /\ pt2 # pt => /\ ms2[pt2].refs \in RefStates
                     /\ now = Append(old, ms2[pt2].refs)
  BY LogMoves
<1>3. ChainOf(ms2)[q.etag] = own
  BY <1>1, LogMoves
<1>4. own \in Seq(RefStates)
  BY <1>1, ChainType DEF Moves, Bucket
<1>5. q.phase = "won" => Logged(q.mf.refs, now)
  <2> HAVE q.phase = "won"
  <2>1. Logged(q.mf.refs, ChainOf(ms)[pt])
    BY DEF Descends
  <2> QED BY <2>1, LoggedKept
<1>6. ASSUME q.phase \in Live, q.etag # pt2
      PROVE  Len(own) < Len(now)
  <2>1. q.etag # pt => Len(own) < Len(old)
    BY <1>6 DEF Descends
  <2>2. CASE pt2 = pt
    BY <1>2, <1>6, <2>1, <2>2, Zenon
  <2>3. CASE pt2 # pt
    <3>1. Len(now) = Len(old) + 1
      BY <1>2, <2>3, AppendedLog, Zenon
    <3>2. q.etag = pt => own = old
      OBVIOUS
    <3>3. Len(old) \in Nat /\ Len(own) \in Nat
      BY <1>2, <1>4, LenProperties, Zenon
    <3> HIDE DEF old, own, now
    <3> QED BY <2>1, <3>1, <3>2, <3>3
  <2> QED BY <2>2, <2>3
<1> QED BY <1>3, <1>5, <1>6, Zenon DEF Descends

-----------------------------------------------------------------------------
(* The steps preserve the invariant *)

\* A step that moves the bucket and changes only requests that are sound
\* afterwards.
LEMMA InvKept ==
  ASSUME GitInv, packs' \subseteq Packs, Bucket(packs', manifests'),
         Grows(packs, manifests, packs', manifests'),
         pointer' \in 0..Len(manifests'), Advances(pointer, manifests', pointer'),
         push' \in [Pushes -> Requests],
         \A r \in Pushes : \/ push'[r] = push[r]
                           \/ /\ Sound(push'[r], packs', manifests')
                              /\ Descends(push'[r], manifests', pointer'),
         \A e \in events' : \/ e \in events
                            \/ e \in RefStates /\ Logged(e, ChainOf(manifests')[pointer'])
  PROVE  GitInv'
<1>1. Moves(packs, manifests, pointer, packs', manifests', pointer')
  BY DEF Moves, GitInv, TypeOK
<1>2. manifests \in Seq(Manifests) /\ manifests' \in Seq(Manifests)
  BY DEF GitInv, Bucket
<1>3. ASSUME NEW r \in Pushes
      PROVE  Sound(push'[r], packs', manifests') /\ Descends(push'[r], manifests', pointer')
  <2>1. CASE push'[r] = push[r]
    <3>1. push[r] \in Requests /\ Sound(push[r], packs, manifests)
          /\ Descends(push[r], manifests, pointer)
      BY DEF GitInv, TypeOK
    <3>2. Sound(push[r], packs', manifests')
      BY <1>2, <3>1, SoundKept
    <3>3. Descends(push[r], manifests', pointer')
      BY <1>1, <3>1, DescendsKept
    <3> QED BY <2>1, <3>2, <3>3
  <2> QED BY <2>1
<1>4. ASSUME NEW e \in events'
      PROVE  e \in RefStates /\ Logged(e, ChainOf(manifests')[pointer'])
  <2>1. CASE e \in events
    <3>1. e \in RefStates /\ Logged(e, ChainOf(manifests)[pointer])
      BY <2>1 DEF GitInv, TypeOK
    <3> QED BY <1>1, <3>1, LoggedKept
  <2> QED BY <2>1
<1>5. TypeOK'
  BY <1>2, <1>4 DEF TypeOK
<1> QED BY <1>3, <1>4, <1>5 DEF GitInv

\* A step of one request that leaves the bucket alone.
LEMMA RequestInv ==
  ASSUME GitInv, NEW p \in Pushes, NEW q \in Requests, push' = [push EXCEPT ![p] = q],
         Sound(q, packs, manifests), Descends(q, manifests, pointer),
         UNCHANGED <<packs, manifests, pointer, events>>
  PROVE  GitInv'
<1>1. Grows(packs, manifests, packs', manifests')
  BY DEF Grows, GitInv, TypeOK
<1>2. push' \in [Pushes -> Requests] /\ \A r \in Pushes : push'[r] = push[r] \/ push'[r] = q
  BY DEF GitInv, TypeOK
<1>3. /\ packs' \subseteq Packs /\ Bucket(packs', manifests')
      /\ pointer' \in 0..Len(manifests') /\ Advances(pointer, manifests', pointer')
  BY DEF GitInv, TypeOK, Advances
<1> QED BY <1>1, <1>2, <1>3, InvKept

LEMMA BlankSound ==
  ASSUME NEW phase \in Results, NEW ps, NEW ms \in Seq(Manifests), NEW pt
  PROVE  /\ Blank(phase) \in Requests
         /\ Sound(Blank(phase), ps, ms) /\ Descends(Blank(phase), ms, pt)
<1>1. Blank(phase) \in Requests /\ Blank(phase).phase = phase /\ Blank(phase).etag = 0
  BY BlankFacts
<1>2. phase \notin Live /\ phase \notin {"captured", "stored", "won"}
  BY DEF Results, Live
<1>3. 0 \in 0..Len(ms)
  BY LenProperties
<1> QED BY <1>1, <1>2, <1>3 DEF Sound, Descends, Live

LEMMA AnswerInv ==
  ASSUME GitInv, NEW p \in Pushes, NEW result \in Results, Answer(p, result),
         UNCHANGED <<packs, manifests, pointer, events>>
  PROVE  GitInv'
<1>1. manifests \in Seq(Manifests)
  BY DEF GitInv, TypeOK
<1> QED BY <1>1, BlankSound, RequestInv DEF Answer

LEMMA PutBucket ==
  ASSUME GitInv, NEW m \in Manifests, manifests' = PutImmutable(m),
         Complete(m, packs), HeadPresent(m), m.parent \in 0..Len(manifests)
  PROVE  /\ Bucket(packs, manifests') /\ Grows(packs, manifests, packs, manifests')
         /\ Digest(manifests', m) \in 1..Len(manifests')
         /\ manifests'[Digest(manifests', m)] = m
<1>1. /\ manifests' \in Seq(Manifests) /\ Len(manifests) <= Len(manifests')
      /\ \A d \in 1..Len(manifests) : manifests'[d] = manifests[d]
      /\ \A d \in 1..Len(manifests') :
           d \in 1..Len(manifests) \/ (d = Len(manifests) + 1 /\ manifests'[d] = m)
      /\ Digest(manifests', m) \in 1..Len(manifests')
      /\ manifests'[Digest(manifests', m)] = m
  BY PutFacts DEF GitInv
<1>2. Len(manifests) \in Nat
  BY LenProperties DEF GitInv, TypeOK
<1>3. Bucket(packs, manifests)
  BY DEF GitInv
<1>4. ParentsFirst(manifests')
  BY <1>1, <1>2, <1>3 DEF ParentsFirst, Bucket
<1>5. \A d \in 1..Len(manifests') : Complete(manifests'[d], packs) /\ HeadPresent(manifests'[d])
  BY <1>1, <1>3 DEF Bucket
<1> QED BY <1>1, <1>4, <1>5 DEF Bucket, Grows

LEMMA SeedInv ==
  ASSUME GitInv, Seed
  PROVE  GitInv'
<1>1. /\ Bucket(packs, manifests') /\ Grows(packs, manifests, packs, manifests')
      /\ pointer' \in 1..Len(manifests') /\ manifests'[pointer'] = EmptyManifest
  <2>1. 0 \in 0..Len(manifests)
    BY LenProperties DEF GitInv, TypeOK
  <2> QED BY <2>1, EmptyFacts, PutBucket DEF Seed
<1>2. pointer' \in 0..Len(manifests') /\ Advances(pointer, manifests', pointer')
  <2>1. manifests'[pointer'].parent = pointer
    BY <1>1, EmptyFacts DEF Seed
  <2> QED BY <1>1, <2>1 DEF Advances
<1>3. packs' = packs /\ push' = push /\ events' = events
  BY DEF Seed
<1>4. packs' \subseteq Packs /\ push' \in [Pushes -> Requests]
  BY <1>3 DEF GitInv, TypeOK
<1> QED BY <1>1, <1>2, <1>3, <1>4, InvKept

LEMMA HydrateInv ==
  ASSUME GitInv, NEW p \in Pushes, Hydrate(p)
  PROVE  GitInv'
<1> DEFINE m == IF pointer = 0 THEN EmptyManifest ELSE manifests[pointer]
<1>1. m \in Manifests
  BY EmptyFacts, ElementOfSeq DEF GitInv, TypeOK
<1> HIDE DEF m
<1> DEFINE q == [push[p] EXCEPT !.phase = "hydrated", !.etag = pointer, !.parent = m]
<1>2. push' = [push EXCEPT ![p] = q]
  BY DEF Hydrate, m, GitInv, TypeOK
<1>3. /\ q \in Requests /\ q.phase = "hydrated" /\ q.etag = pointer /\ q.parent = m
  <2>1. push[p] \in Requests
    BY DEF GitInv, TypeOK
  <2>2. pointer \in Nat
    BY LenProperties DEF GitInv, TypeOK
  <2> QED BY <1>1, <2>1, <2>2 DEF Requests, Live
<1> HIDE DEF q
<1>4. Sound(q, packs, manifests)
  BY <1>3 DEF Sound, GitInv, TypeOK, m
<1>5. Descends(q, manifests, pointer)
  BY <1>3 DEF Descends
<1> QED BY <1>2, <1>3, <1>4, <1>5, RequestInv DEF Hydrate

LEMMA HeadResolved ==
  ASSUME NEW refs \in RefStates, NEW head \in RefNames
  PROVE  /\ ResolvePublishedHead(refs, head) \in RefNames
         /\ Present(refs) # {} => ResolvePublishedHead(refs, head) \in Present(refs)
<1>1. Present(refs) \subseteq RefNames
  BY DEF Present
<1>2. Present(refs) # {} => (CHOOSE r \in Present(refs) : TRUE) \in Present(refs)
  OBVIOUS
<1> QED BY <1>1, <1>2, Zenon DEF ResolvePublishedHead

\* What a request holds is a stored manifest, or stands for none.
LEMMA ParentComplete ==
  ASSUME GitInv, NEW p \in Pushes, push[p].phase = "hydrated"
  PROVE  /\ push[p].parent \in Manifests
         /\ Complete(push[p].parent, packs)
         /\ push[p].etag \in 0..Len(manifests)
<1>1. /\ push[p].etag \in 0..Len(manifests)
      /\ push[p].parent = IF push[p].etag = 0 THEN EmptyManifest ELSE manifests[push[p].etag]
  BY DEF GitInv, Sound, Live
<1>2. push[p].parent \in Manifests
  BY DEF GitInv, TypeOK, Requests
<1>3. CASE push[p].etag = 0
  BY <1>1, <1>2, <1>3, EmptyFacts
<1>4. CASE push[p].etag # 0
  <2>1. push[p].etag \in 1..Len(manifests)
    BY <1>1, <1>4, LenProperties DEF GitInv, TypeOK
  <2> QED BY <1>1, <1>2, <1>4, <2>1 DEF GitInv, Bucket
<1> QED BY <1>3, <1>4

\* A draft over stored packs that hold what its refs reach.
LEMMA ComposeInv ==
  ASSUME GitInv, NEW p \in Pushes, push[p].phase = "hydrated", NEW after \in RefStates,
         NEW keys \in PackSets, Compose(p, after, keys),
         packs' \subseteq Packs, packs \subseteq packs', keys \subseteq packs',
         Reach(after) \subseteq UNION keys, UNCHANGED <<manifests, pointer, events>>
  PROVE  GitInv'
<1> DEFINE m == [refs |-> after, head |-> ResolvePublishedHead(after, push[p].parent.head),
                 packs |-> keys, parent |-> push[p].etag]
<1>1. push[p] \in Requests /\ push[p].etag \in Nat /\ push[p].parent.head \in RefNames
  BY DEF GitInv, TypeOK, Requests, Manifests
<1>2. m \in Manifests /\ Complete(m, packs') /\ HeadPresent(m) /\ m.parent = push[p].etag
  BY <1>1, HeadResolved DEF Manifests, Complete, HeadPresent
<1> DEFINE q == [push[p] EXCEPT !.phase = "captured", !.mf = m]
<1>3. push' = [push EXCEPT ![p] = q]
  BY DEF Compose, GitInv, TypeOK
<1> HIDE DEF m
<1>4. /\ q \in Requests /\ q.phase = "captured" /\ q.mf = m
      /\ q.etag = push[p].etag /\ q.parent = push[p].parent
  BY <1>1, <1>2 DEF Requests, Live
<1> HIDE DEF q
<1>5. Sound(push[p], packs, manifests) /\ Descends(push[p], manifests, pointer)
  BY DEF GitInv
<1>6. Sound(q, packs', manifests)
  BY <1>2, <1>4, <1>5 DEF Sound, Live
<1>7. Descends(q, manifests, pointer)
  BY <1>4, <1>5 DEF Descends, Live
<1>8. Bucket(packs', manifests') /\ Grows(packs, manifests, packs', manifests')
  <2>1. Len(manifests) \in Nat
    BY LenProperties DEF GitInv, TypeOK
  <2>2. \A d \in 1..Len(manifests) : Complete(manifests[d], packs)
    BY DEF GitInv, Bucket
  <2>3. \A d \in 1..Len(manifests) : Complete(manifests[d], packs')
    BY <2>2 DEF Complete
  <2>4. Bucket(packs', manifests)
    BY <2>3 DEF GitInv, Bucket
  <2> QED BY <2>1, <2>4 DEF Grows
<1>9. push' \in [Pushes -> Requests] /\ \A r \in Pushes : push'[r] = push[r] \/ push'[r] = q
  BY <1>3, <1>4 DEF GitInv, TypeOK
<1>10. pointer' \in 0..Len(manifests') /\ Advances(pointer, manifests', pointer')
  BY DEF GitInv, TypeOK, Advances
<1> QED BY <1>6, <1>7, <1>8, <1>9, <1>10, InvKept

\* One more pack, where there was room for it.
LEMMA OneMorePack ==
  ASSUME NEW ks \in PackSets, NEW k \in Packs, Cardinality(ks) < MaxManifestPacks
  PROVE  ks \union {k} \in PackSets
<1>1. IsFiniteSet(ks) /\ Cardinality(ks) \in Nat
  BY FS_CardinalityType DEF PackSets
<1>2. /\ IsFiniteSet(ks \union {k})
      /\ Cardinality(ks \union {k}) = IF k \in ks THEN Cardinality(ks) ELSE Cardinality(ks) + 1
  BY <1>1, FS_AddElement
<1>3. Cardinality(ks \union {k}) <= MaxManifestPacks
  BY <1>1, <1>2, GitAssumption
<1>4. ks \union {k} \in SUBSET Packs
  BY DEF PackSets
<1> QED BY <1>2, <1>3, <1>4 DEF PackSets

LEMMA CaptureDeltaInv ==
  ASSUME GitInv, NEW p \in Pushes, CaptureDelta(p)
  PROVE  GitInv'
<1>1. PICK after \in Received(p) :
        /\ CapturePack(p, after) # {} => Cardinality(push[p].parent.packs) < MaxManifestPacks
        /\ packs' = packs \union CapturePack(p, after)
        /\ Compose(p, after, push[p].parent.packs \union CapturePack(p, after))
  BY DEF CaptureDelta
<1> DEFINE new == CapturePack(p, after)
           old == push[p].parent.packs
           keys == old \union new
<1>2. after \in RefStates
  BY DEF Received
<1>3. /\ old \in PackSets /\ old \subseteq packs
      /\ Reach(push[p].parent.refs) \subseteq UNION old
  BY ParentComplete DEF CaptureDelta, Complete, Manifests
<1>4. NewObjects(p, after) \in Packs
  BY <1>2, ReachType DEF NewObjects, Packs
<1>5. new = {} \/ new = {NewObjects(p, after)}
  BY DEF CapturePack
\* A state without refs reaches nothing.
<1>6. new = {} => Reach(after) = {}
  BY DEF CapturePack, Reach
<1>7. Reach(after) \subseteq UNION keys
  <2>1. CASE new = {}
    BY <1>6, <2>1
  <2>2. CASE new = {NewObjects(p, after)}
    <3>1. keys = old \union {NewObjects(p, after)}
      BY <2>2
    <3> HIDE DEF keys, old, new
    <3>2. UNION keys = (UNION old) \union NewObjects(p, after)
      BY <3>1
    <3> QED BY <1>3, <3>2 DEF NewObjects
  <2> QED BY <1>5, <2>1, <2>2
<1>8. keys \in PackSets
  <2>1. CASE new = {}
    <3>1. keys = old
      BY <2>1
    <3> QED BY <1>3, <3>1
  <2>2. CASE new = {NewObjects(p, after)}
    <3>1. keys = old \union {NewObjects(p, after)}
      BY <2>2
    <3>2. Cardinality(old) < MaxManifestPacks
      BY <1>1, <2>2
    <3> HIDE DEF keys, old, new
    <3> QED BY <1>3, <1>4, <3>1, <3>2, OneMorePack
  <2> QED BY <1>5, <2>1, <2>2
<1>9. new \subseteq Packs
  BY <1>4, <1>5
<1>10. packs \subseteq packs' /\ packs' \subseteq Packs /\ keys \subseteq packs'
  BY <1>1, <1>3, <1>9 DEF GitInv, TypeOK
<1>11. Compose(p, after, keys)
  BY <1>1
<1> HIDE DEF keys
<1> QED BY <1>2, <1>7, <1>8, <1>10, <1>11, ComposeInv DEF CaptureDelta

LEMMA CaptureCompactedInv ==
  ASSUME GitInv, NEW p \in Pushes, CaptureCompacted(p)
  PROVE  GitInv'
<1>0. PICK after \in Received(p) :
        \E keys \in Splits(Reach(after)) :
          packs' = packs \union keys /\ Compose(p, after, keys)
  BY DEF CaptureCompacted
<1>1. PICK keys \in Splits(Reach(after)) :
        packs' = packs \union keys /\ Compose(p, after, keys)
  BY <1>0
<1>2. after \in RefStates
  BY DEF Received
<1>3. keys \in PackSets /\ keys \in SUBSET Packs /\ Reach(after) \subseteq UNION keys
  BY DEF Splits, PackSets
<1>4. packs \subseteq packs' /\ packs' \subseteq Packs /\ keys \subseteq packs'
  BY <1>1, <1>3 DEF GitInv, TypeOK
<1> QED BY <1>1, <1>2, <1>3, <1>4, ComposeInv DEF CaptureCompacted

LEMMA PutManifestInv ==
  ASSUME GitInv, NEW p \in Pushes, PutManifest(p)
  PROVE  GitInv'
<1> DEFINE m == push[p].mf
           d == Digest(manifests', m)
<1>1. push[p] \in Requests /\ m \in Manifests
  BY DEF GitInv, TypeOK, Requests
<1>2. /\ Sound(push[p], packs, manifests) /\ Descends(push[p], manifests, pointer)
      /\ push[p].phase = "captured"
  BY DEF GitInv, PutManifest
<1>3. /\ Complete(m, packs) /\ HeadPresent(m) /\ m.parent = push[p].etag
      /\ push[p].etag \in 0..Len(manifests)
  BY <1>2 DEF Sound
<1>4. manifests' = PutImmutable(m) /\ packs' = packs /\ pointer' = pointer /\ events' = events
  BY DEF PutManifest
<1>5. /\ Bucket(packs, manifests') /\ Grows(packs, manifests, packs, manifests')
      /\ d \in 1..Len(manifests') /\ manifests'[d] = m
  <2> HIDE DEF m
  <2> QED BY <1>1, <1>3, <1>4, PutBucket
<1> DEFINE q == [push[p] EXCEPT !.phase = "stored", !.digest = d]
<1>6. push' = [push EXCEPT ![p] = q]
  BY DEF PutManifest, GitInv, TypeOK
<1> HIDE DEF d
<1>7. manifests' \in Seq(Manifests) /\ Len(manifests') \in Nat /\ d \in Nat
  BY <1>5, LenProperties DEF Bucket
<1>8. /\ q \in Requests /\ q.phase = "stored" /\ q.mf = m /\ q.digest = d
      /\ q.etag = push[p].etag /\ q.parent = push[p].parent
  BY <1>1, <1>7 DEF Requests, Live
<1> HIDE DEF q
<1>9. Moves(packs, manifests, pointer, packs', manifests', pointer')
  BY <1>4, <1>5 DEF Moves, GitInv, TypeOK, Advances
<1>10. /\ Sound(push[p], packs', manifests') /\ Descends(push[p], manifests', pointer')
  <2>1. manifests \in Seq(Manifests)
    BY DEF GitInv, TypeOK
  <2>2. Sound(push[p], packs', manifests')
    BY <1>1, <1>2, <1>4, <1>5, <1>7, <2>1, SoundKept
  <2> QED BY <1>1, <1>2, <1>9, <2>2, DescendsKept
<1>11. Sound(q, packs', manifests')
  BY <1>2, <1>5, <1>8, <1>10 DEF Sound, Live
<1>12. Descends(q, manifests', pointer')
  BY <1>2, <1>8, <1>10 DEF Descends, Live
<1>13. push' \in [Pushes -> Requests] /\ \A r \in Pushes : push'[r] = push[r] \/ push'[r] = q
  BY <1>6, <1>8 DEF GitInv, TypeOK
<1>14. /\ pointer' \in 0..Len(manifests') /\ packs' \subseteq Packs
       /\ Advances(pointer, manifests', pointer')
  <2>1. pointer \in 0..Len(manifests) /\ Len(manifests) \in Nat
    BY LenProperties DEF GitInv, TypeOK
  <2> QED BY <1>4, <1>5, <1>7, <2>1 DEF Grows, Advances, GitInv, TypeOK
<1> QED BY <1>4, <1>5, <1>11, <1>12, <1>13, <1>14, InvKept

\* The conditional PUT of p moves the pointer to a child of what it named.
LEMMA PutPointer ==
  ASSUME GitInv, NEW p \in Pushes, push[p].phase = "stored", Precond(p),
         pointer' = push[p].digest, UNCHANGED <<packs, manifests>>
  PROVE  /\ pointer' \in 0..Len(manifests') /\ pointer' # pointer
         /\ Moves(packs, manifests, pointer, packs', manifests', pointer')
         /\ manifests'[pointer'].refs = push[p].mf.refs
<1>1. /\ push[p].digest \in 1..Len(manifests) /\ manifests[push[p].digest] = push[p].mf
      /\ push[p].mf.parent = pointer
  BY DEF GitInv, Sound, Precond
<1>2. Bucket(packs, manifests) /\ pointer \in 0..Len(manifests) /\ Len(manifests) \in Nat
  BY LenProperties DEF GitInv, TypeOK
<1>3. pointer < push[p].digest
  BY <1>1, <1>2 DEF Bucket, ParentsFirst
<1>4. Grows(packs, manifests, packs', manifests') /\ Advances(pointer, manifests', pointer')
  BY <1>1, <1>2 DEF Grows, Advances
<1> QED BY <1>1, <1>2, <1>3, <1>4 DEF Moves

LEMMA CasWonInv ==
  ASSUME GitInv, NEW p \in Pushes, CasWon(p)
  PROVE  GitInv'
<1>1. /\ pointer' \in 0..Len(manifests') /\ pointer' # pointer
      /\ Moves(packs, manifests, pointer, packs', manifests', pointer')
      /\ manifests'[pointer'].refs = push[p].mf.refs
  BY PutPointer DEF CasWon
<1>2. /\ ChainOf(manifests)[pointer] \in Seq(RefStates) /\ push[p].mf.refs \in RefStates
      /\ ChainOf(manifests')[pointer'] = Append(ChainOf(manifests)[pointer], push[p].mf.refs)
      /\ ChainOf(manifests')[pointer] = ChainOf(manifests)[pointer]
  <2>1. pointer \in 0..Len(manifests)
    BY DEF GitInv, TypeOK
  <2> QED BY <1>1, <2>1, LogMoves
<1> DEFINE q == [push[p] EXCEPT !.phase = "won"]
<1>3. push' = [push EXCEPT ![p] = q]
  BY DEF CasWon, GitInv, TypeOK
<1>4. push[p] \in Requests /\ Sound(push[p], packs, manifests) /\ push[p].etag = pointer
      /\ push[p].phase = "stored"
  BY DEF GitInv, TypeOK, CasWon, Precond
<1>5. /\ q \in Requests /\ q.phase = "won" /\ q.mf = push[p].mf /\ q.digest = push[p].digest
      /\ q.etag = pointer /\ q.parent = push[p].parent
  BY <1>4 DEF Requests, Live
<1> HIDE DEF q
<1>6. Sound(q, packs, manifests)
  BY <1>4, <1>5 DEF Sound, Live
<1>7. Descends(q, manifests', pointer')
  <2>1. /\ Len(Append(ChainOf(manifests)[pointer], push[p].mf.refs))
             = Len(ChainOf(manifests)[pointer]) + 1
        /\ Len(ChainOf(manifests)[pointer]) \in Nat
        /\ Logged(push[p].mf.refs, Append(ChainOf(manifests)[pointer], push[p].mf.refs))
    BY <1>2, AppendedLog, Zenon
  <2>2. Logged(q.mf.refs, ChainOf(manifests')[pointer'])
    BY <1>2, <1>5, <2>1, Zenon
  <2>3. Len(ChainOf(manifests')[q.etag]) < Len(ChainOf(manifests')[pointer'])
    BY <1>2, <1>5, <2>1
  <2> QED BY <2>2, <2>3 DEF Descends
<1>8. push' \in [Pushes -> Requests] /\ \A r \in Pushes : push'[r] = push[r] \/ push'[r] = q
  BY <1>3, <1>5 DEF GitInv, TypeOK
<1>9. packs' = packs /\ manifests' = manifests /\ events' = events /\ packs' \subseteq Packs
  BY DEF CasWon, GitInv, TypeOK
<1> QED BY <1>1, <1>6, <1>7, <1>8, <1>9, InvKept DEF Moves

LEMMA CasAnswerLostInv ==
  ASSUME GitInv, NEW p \in Pushes, CasAnswerLost(p)
  PROVE  GitInv'
<1>1. /\ pointer' \in 0..Len(manifests')
      /\ Moves(packs, manifests, pointer, packs', manifests', pointer')
  BY PutPointer DEF CasAnswerLost
<1> DEFINE q == Blank("error")
<1>2. packs' = packs /\ manifests' = manifests /\ events' = events /\ packs' \subseteq Packs
      /\ manifests' \in Seq(Manifests)
  BY DEF CasAnswerLost, GitInv, TypeOK
<1>3. q \in Requests /\ Sound(q, packs', manifests') /\ Descends(q, manifests', pointer')
  BY <1>2, BlankSound DEF Results
<1>4. push' \in [Pushes -> Requests] /\ \A r \in Pushes : push'[r] = push[r] \/ push'[r] = q
  BY <1>3 DEF CasAnswerLost, Answer, GitInv, TypeOK
<1> HIDE DEF q
<1> QED BY <1>1, <1>2, <1>3, <1>4, InvKept DEF Moves

LEMMA FinishInv ==
  ASSUME GitInv, NEW p \in Pushes, Finish(p)
  PROVE  GitInv'
<1>1. PICK result \in {"ok", "error"} : Answer(p, result)
  BY DEF Finish
<1> DEFINE q == Blank(result)
<1>2. packs' = packs /\ manifests' = manifests /\ pointer' = pointer
  BY DEF Finish
<1>3. /\ packs' \subseteq Packs /\ Bucket(packs', manifests') /\ manifests' \in Seq(Manifests)
      /\ pointer' \in 0..Len(manifests') /\ Advances(pointer, manifests', pointer')
      /\ Grows(packs, manifests, packs', manifests')
  <2>1. Len(manifests) \in Nat
    BY LenProperties DEF GitInv, TypeOK
  <2> QED BY <1>2, <2>1 DEF GitInv, TypeOK, Advances, Grows
<1>4. q \in Requests /\ Sound(q, packs', manifests') /\ Descends(q, manifests', pointer')
  BY <1>3, BlankSound DEF Results
<1>5. push' \in [Pushes -> Requests] /\ \A r \in Pushes : push'[r] = push[r] \/ push'[r] = q
  BY <1>1, <1>4 DEF Answer, GitInv, TypeOK
<1>6. \A e \in events' :
        e \in events \/ (e \in RefStates /\ Logged(e, ChainOf(manifests')[pointer']))
  <2>1. push[p].mf.refs \in RefStates
    BY DEF GitInv, TypeOK, Requests, Manifests
  <2>2. Logged(push[p].mf.refs, ChainOf(manifests)[pointer])
    BY DEF GitInv, Descends, Finish
  <2> QED BY <1>2, <2>1, <2>2 DEF Finish
<1> HIDE DEF q
<1> QED BY <1>3, <1>4, <1>5, <1>6, InvKept

LEMMA GitInit ==
  ASSUME Init
  PROVE  GitInv
<1>1. manifests = <<>> /\ manifests \in Seq(Manifests) /\ Len(manifests) = 0 /\ pointer = 0
  BY DEF Init
<1>2. Bucket(packs, manifests)
  BY <1>1 DEF Bucket, ParentsFirst
<1>3. ASSUME NEW p \in Pushes
      PROVE  /\ push[p] \in Requests /\ push[p].phase = "idle" /\ push[p].etag = 0
  BY BlankFacts DEF Init
<1>4. TypeOK
  <2>1. Blank("idle") \in Requests
    BY BlankFacts
  <2> QED BY <1>1, <2>1 DEF Init, TypeOK
<1>5. \A p \in Pushes : Sound(push[p], packs, manifests) /\ Descends(push[p], manifests, pointer)
  BY <1>1, <1>3 DEF Sound, Descends, Live
<1>6. events = {}
  BY DEF Init
<1> QED BY <1>2, <1>4, <1>5, <1>6 DEF GitInv

LEMMA GitNext ==
  ASSUME GitInv, [Next]_vars
  PROVE  GitInv'
<1>1. CASE Seed
  BY <1>1, SeedInv
<1>2. CASE UNCHANGED vars
  BY <1>2 DEF vars, GitInv, TypeOK
<1>3. ASSUME NEW p \in Pushes, PushStep(p) PROVE GitInv'
  <2>1. CASE Hydrate(p)
    BY <2>1, HydrateInv
  <2>2. CASE Refuse(p)
    BY <2>2, AnswerInv DEF Refuse, Results
  <2>3. CASE CaptureDelta(p)
    BY <2>3, CaptureDeltaInv
  <2>4. CASE CaptureCompacted(p)
    BY <2>4, CaptureCompactedInv
  <2>5. CASE PutManifest(p)
    BY <2>5, PutManifestInv
  <2>6. CASE CasWon(p)
    BY <2>6, CasWonInv
  <2>7. CASE CasLost(p)
    BY <2>7, AnswerInv DEF CasLost, Results
  <2>8. CASE CasAnswerLost(p)
    BY <2>8, CasAnswerLostInv
  <2>9. CASE Finish(p)
    BY <2>9, FinishInv
  <2>10. CASE Fail(p)
    BY <2>10, AnswerInv DEF Fail, Results
  <2> QED
    BY <1>3, <2>1, <2>2, <2>3, <2>4, <2>5, <2>6, <2>7, <2>8, <2>9, <2>10 DEF PushStep
<1> QED BY <1>1, <1>2, <1>3 DEF Next

-----------------------------------------------------------------------------
(* What holds of every repository *)

\* GitInv holds in every state: what is stored is complete, parents come
\* first, every request knows a stored manifest that the log still contains,
\* and everything announced is in the log.
THEOREM GitInvariant == Spec => []GitInv
<1>1. Init => GitInv
  BY GitInit
<1>2. GitInv /\ [Next]_vars => GitInv'
  BY GitNext
<1> QED BY <1>1, <1>2, PTL DEF Spec

\* The state stays well formed; in particular the pointer always names a
\* manifest that is stored, and neither a delta nor a compaction ever drafts a
\* manifest that Manifest::validate would refuse for its number of packs.
THEOREM TypeCorrect == Spec => []TypeOK
<1>1. GitInv => TypeOK
  BY DEF GitInv
<1> QED BY <1>1, GitInvariant, PTL

\* The repository can be cloned after any interleaving of pushes, compactions,
\* deletions and crashes, whatever the reachability relation and the limits.
THEOREM AlwaysCloneable == Spec => []Cloneable
<1>1. GitInv => Cloneable
  <2> SUFFICES ASSUME GitInv, pointer # 0
               PROVE  /\ manifests[pointer].packs \subseteq packs
                      /\ Reach(manifests[pointer].refs) \subseteq UNION manifests[pointer].packs
    BY DEF Cloneable
  <2>1. pointer \in 1..Len(manifests)
    BY LenProperties DEF GitInv, TypeOK
  <2> QED BY <2>1 DEF GitInv, Bucket, Complete
<1> QED BY <1>1, GitInvariant, PTL

\* The published HEAD exists as soon as there is a branch.
THEOREM HeadNeverDangles == Spec => []HeadExists
<1>1. GitInv => HeadExists
  <2> SUFFICES ASSUME GitInv, pointer # 0
               PROVE  HeadPresent(manifests[pointer])
    BY DEF HeadExists, HeadPresent
  <2>1. pointer \in 1..Len(manifests)
    BY LenProperties DEF GitInv, TypeOK
  <2> QED BY <2>1 DEF GitInv, Bucket
<1> QED BY <1>1, GitInvariant, PTL

\* A kind:30618 event only ever announces a ref state that the pointer has
\* published, and that is still in the history.
THEOREM NothingUnpublishedAnnounced == Spec => []AnnouncedWasPublished
<1>1. GitInv => AnnouncedWasPublished
  BY DEF GitInv, AnnouncedWasPublished, Logged, History
<1> QED BY <1>1, GitInvariant, PTL

-----------------------------------------------------------------------------
(* Refinement: the requests implement the log of ref states *)

\* The abstract state, as the bucket and the requests represent it.
Log == ChainOf(manifests)[pointer]
Status == [p \in Pushes |-> ClientStatus(push[p].phase)]
Base == [p \in Pushes |-> ClientBase(push[p])]

BaseOf(q, ms) == IF q.phase \in Live THEN Len(ChainOf(ms)[q.etag]) ELSE 0

\* The step of p changes only the status and the base of p.
LEMMA MapRequest ==
  ASSUME GitInv, GitInv', Moves(packs, manifests, pointer, packs', manifests', pointer'),
         NEW p \in Pushes, \A r \in Pushes : r # p => push'[r] = push[r]
  PROVE  /\ Status' = [Status EXCEPT ![p] = ClientStatus(push'[p].phase)]
         /\ Base' = [Base EXCEPT ![p] = BaseOf(push'[p], manifests')]
<1>1. \A r \in Pushes : ClientBase(push[r]) = BaseOf(push[r], manifests)
  BY DEF ClientBase, BaseOf, History
<1>2. \A r \in Pushes : ClientBase(push[r])' = BaseOf(push'[r], manifests')
  BY DEF ClientBase, BaseOf, History
<1>3. ASSUME NEW r \in Pushes, r # p PROVE BaseOf(push'[r], manifests') = BaseOf(push[r], manifests)
  <2>1. push[r].etag \in 0..Len(manifests)
    BY DEF GitInv, Sound
  <2>2. ChainOf(manifests')[push[r].etag] = ChainOf(manifests)[push[r].etag]
    BY <2>1, LogMoves
  <2> QED BY <1>3, <2>2 DEF BaseOf
<1>4. Status' = [Status EXCEPT ![p] = ClientStatus(push'[p].phase)]
  BY DEF Status
<1>5. Base' = [Base EXCEPT ![p] = BaseOf(push'[p], manifests')]
  BY <1>1, <1>2, <1>3 DEF Base
<1> QED BY <1>4, <1>5

\* Every step moves the bucket as LogMoves says, and only a conditional PUT
\* moves the pointer.
LEMMA StepMoves ==
  ASSUME GitInv, GitInv', NEW p \in Pushes, PushStep(p)
  PROVE  /\ Moves(packs, manifests, pointer, packs', manifests', pointer')
         /\ CasWon(p) \/ CasAnswerLost(p) \/ pointer' = pointer
         /\ \A r \in Pushes : r # p => push'[r] = push[r]
<1>1. \A r \in Pushes : r # p => push'[r] = push[r]
  <2>1. push \in [Pushes -> Requests]
    BY DEF GitInv, TypeOK
  <2> QED
    BY <2>1 DEF PushStep, Hydrate, Refuse, CaptureDelta, CaptureCompacted, PutManifest,
                CasWon, CasLost, CasAnswerLost, Finish, Fail, Answer, Compose
<1>2. Bucket(packs, manifests) /\ Bucket(packs', manifests') /\ pointer \in 0..Len(manifests)
  BY DEF GitInv, TypeOK
<1>3. Len(manifests) \in Nat
  BY <1>2, LenProperties DEF Bucket
<1>4. CASE CasWon(p) \/ CasAnswerLost(p)
  BY <1>1, <1>4, PutPointer DEF CasWon, CasAnswerLost
<1>5. CASE PutManifest(p)
  <2>1. push[p].mf \in Manifests /\ TypeOK
    BY DEF GitInv, TypeOK, Requests
  <2>2. Grows(packs, manifests, packs', manifests')
    BY <1>5, <2>1, PutFacts DEF PutManifest, Grows
  <2> QED BY <1>1, <1>2, <1>5, <2>2 DEF PutManifest, Moves, Advances
<1>6. CASE CaptureDelta(p) \/ CaptureCompacted(p)
  <2>1. packs \subseteq packs' /\ manifests' = manifests /\ pointer' = pointer
    BY <1>6 DEF CaptureDelta, CaptureCompacted
  <2> QED BY <1>1, <1>2, <1>3, <2>1 DEF Moves, Advances, Grows
<1>7. CASE Hydrate(p) \/ Refuse(p) \/ CasLost(p) \/ Finish(p) \/ Fail(p)
  <2>1. packs' = packs /\ manifests' = manifests /\ pointer' = pointer
    BY <1>7 DEF Hydrate, Refuse, CasLost, Finish, Fail
  <2> QED BY <1>1, <1>2, <1>3, <2>1 DEF Moves, Advances, Grows
<1> QED BY <1>4, <1>5, <1>6, <1>7 DEF PushStep

\* The log, read through the moves of the bucket.
LEMMA MapLog ==
  ASSUME GitInv, GitInv', Moves(packs, manifests, pointer, packs', manifests', pointer')
  PROVE  /\ Log \in Seq(RefStates)
         /\ pointer' = pointer => Log' = Log
         /\ pointer' # pointer => /\ manifests'[pointer'].refs \in RefStates
                                  /\ Log' = Append(Log, manifests'[pointer'].refs)
BY LogMoves DEF Log

LEMMA MapInit ==
  ASSUME Init
  PROVE  Log = <<>> /\ Status = [p \in Pushes |-> "idle"] /\ Base = [p \in Pushes |-> 0]
<1>1. GitInv /\ pointer = 0
  BY GitInit DEF Init
<1>2. Log = <<>>
  BY <1>1, ChainEntries DEF Log, GitInv, Bucket
<1>3. \A p \in Pushes : push[p].phase = "idle"
  BY BlankFacts DEF Init
<1>4. Status = [p \in Pushes |-> "idle"]
  BY <1>3 DEF Status, ClientStatus
<1>5. Base = [p \in Pushes |-> 0]
  BY <1>3 DEF Base, ClientBase, Live
<1> QED BY <1>2, <1>4, <1>5

\* Creating the pointer is creating the log.
LEMMA SeedCreates ==
  ASSUME GitInv, GitInv', Seed
  PROVE  /\ Log = <<>> /\ \E r \in RefStates : Log' = <<r>>
         /\ Status' = Status /\ Base' = Base
<1>1. /\ Bucket(packs, manifests') /\ Grows(packs, manifests, packs, manifests')
      /\ pointer' \in 1..Len(manifests') /\ manifests'[pointer'] = EmptyManifest
  <2>1. 0 \in 0..Len(manifests)
    BY LenProperties DEF GitInv, TypeOK
  <2> QED BY <2>1, EmptyFacts, PutBucket DEF Seed
<1>2. pointer = 0 /\ pointer' # 0 /\ packs' = packs /\ push' = push
  BY <1>1 DEF Seed
<1>3. Moves(packs, manifests, pointer, packs', manifests', pointer')
  <2>1. manifests'[pointer'].parent = pointer
    BY <1>1, <1>2, EmptyFacts
  <2> QED BY <1>1, <1>2, <2>1 DEF Moves, Advances, GitInv, TypeOK
<1>4. Log = <<>>
  BY <1>2, ChainEntries DEF Log, GitInv, Bucket
<1>5. \E r \in RefStates : Log' = <<r>>
  <2>1. PICK r \in RefStates : Log' = Append(Log, r)
    BY <1>2, <1>3, MapLog
  <2> QED BY <1>4, <2>1
<1>6. Status' = Status
  BY <1>2 DEF Status
<1>7. ASSUME NEW p \in Pushes PROVE ClientBase(push[p])' = ClientBase(push[p])
  <2>1. push[p].etag \in 0..Len(manifests)
    BY DEF GitInv, Sound
  <2>2. ChainOf(manifests')[push[p].etag] = ChainOf(manifests)[push[p].etag]
    BY <1>3, <2>1, LogMoves
  <2> QED BY <1>2, <2>2 DEF ClientBase, History
<1>8. Base' = Base
  BY <1>7 DEF Base
<1> QED BY <1>4, <1>5, <1>6, <1>8

\* The answer to p, as its client sees it.
LEMMA Answered ==
  ASSUME GitInv, NEW p \in Pushes, NEW result \in Results, Answer(p, result)
  PROVE  push'[p].phase = result /\ BaseOf(push'[p], manifests') = 0
<1>1. push'[p] = Blank(result)
  BY DEF Answer, GitInv, TypeOK
<1>2. Blank(result).phase = result /\ result \notin Live
  BY BlankFacts DEF Results, Live
<1> QED BY <1>1, <1>2 DEF BaseOf

\* How the phases of one request map, before and after its step.
LEMMA MapPhase ==
  ASSUME NEW p \in Pushes
  PROVE  /\ Status[p] = ClientStatus(push[p].phase)
         /\ Base[p] = BaseOf(push[p], manifests)
BY DEF Status, Base, ClientBase, BaseOf, History

LEMMA StepMaps ==
  ASSUME GitInv, GitInv', NEW p \in Pushes, PushStep(p)
  PROVE  /\ Status[p] = ClientStatus(push[p].phase) /\ Base[p] = BaseOf(push[p], manifests)
         /\ Status' = [Status EXCEPT ![p] = ClientStatus(push'[p].phase)]
         /\ Base' = [Base EXCEPT ![p] = BaseOf(push'[p], manifests')]
         /\ pointer' = pointer => Log' = Log
<1>1. /\ Moves(packs, manifests, pointer, packs', manifests', pointer')
      /\ \A r \in Pushes : r # p => push'[r] = push[r]
  BY StepMoves
<1> QED BY <1>1, MapPhase, MapRequest, MapLog

LEMMA HydrateOpens ==
  ASSUME GitInv, GitInv', NEW p \in Pushes, Hydrate(p)
  PROVE  RefLog!Open(p)
<1>1. push'[p].phase = "hydrated" /\ push'[p].etag = pointer /\ push[p].phase = "idle"
  BY DEF Hydrate, GitInv, TypeOK, Requests
<1>2. /\ Status[p] = ClientStatus(push[p].phase)
      /\ Status' = [Status EXCEPT ![p] = ClientStatus(push'[p].phase)]
      /\ Base' = [Base EXCEPT ![p] = BaseOf(push'[p], manifests')]
      /\ Log' = Log /\ manifests' = manifests
  BY StepMaps DEF Hydrate, PushStep
<1>3. Status[p] = "idle" /\ Status' = [Status EXCEPT ![p] = "open"]
  BY <1>1, <1>2 DEF ClientStatus
<1>4. Base' = [Base EXCEPT ![p] = Len(Log)]
  BY <1>1, <1>2 DEF BaseOf, Live, Log
<1> QED BY <1>2, <1>3, <1>4, Zenon DEF RefLog!Open, Log, Status, Base, History

\* The draft and its upload are invisible to the clients.
LEMMA DraftStutters ==
  ASSUME GitInv, GitInv', NEW p \in Pushes,
         CaptureDelta(p) \/ CaptureCompacted(p) \/ PutManifest(p)
  PROVE  UNCHANGED RefLog!vars
<1>1. /\ push[p].phase \in {"hydrated", "captured"} /\ push'[p].etag = push[p].etag
      /\ push'[p].phase \in {"captured", "stored"}
  BY DEF CaptureDelta, CaptureCompacted, Compose, PutManifest, GitInv, TypeOK, Requests
<1>2. /\ Status[p] = ClientStatus(push[p].phase) /\ Base[p] = BaseOf(push[p], manifests)
      /\ Status' = [Status EXCEPT ![p] = ClientStatus(push'[p].phase)]
      /\ Base' = [Base EXCEPT ![p] = BaseOf(push'[p], manifests')]
      /\ Log' = Log
  <2>1. pointer' = pointer
    BY DEF CaptureDelta, CaptureCompacted, PutManifest
  <2> QED BY <2>1, StepMaps DEF PushStep
<1>3. ClientStatus(push'[p].phase) = Status[p]
  BY <1>1, <1>2 DEF ClientStatus
<1>4. BaseOf(push'[p], manifests') = Base[p]
  <2>1. push[p].etag \in 0..Len(manifests)
    BY DEF GitInv, Sound
  <2>2. Moves(packs, manifests, pointer, packs', manifests', pointer')
    BY StepMoves DEF PushStep
  <2>3. ChainOf(manifests')[push[p].etag] = ChainOf(manifests)[push[p].etag]
    BY <2>1, <2>2, LogMoves
  <2> QED BY <1>1, <1>2, <2>3 DEF BaseOf, Live
<1>5. Status' = Status
  BY <1>2, <1>3 DEF Status
<1>6. Base' = Base
  BY <1>2, <1>4 DEF Base
<1> QED BY <1>2, <1>5, <1>6, Zenon DEF RefLog!vars, Log, Status, Base, History

LEMMA AnswerCloses ==
  ASSUME GitInv, GitInv', NEW p \in Pushes, PushStep(p), NEW result \in Results, Answer(p, result)
  PROVE  RefLog!Close(p, ClientStatus(result))
<1>1. /\ Status' = [Status EXCEPT ![p] = ClientStatus(push'[p].phase)]
      /\ Base' = [Base EXCEPT ![p] = BaseOf(push'[p], manifests')]
  BY StepMaps
<1>2. push'[p].phase = result /\ BaseOf(push'[p], manifests') = 0
  BY Answered
<1>3. /\ Status' = [Status EXCEPT ![p] = ClientStatus(result)]
      /\ Base' = [Base EXCEPT ![p] = 0]
  BY <1>1, <1>2
<1> QED BY <1>3, Zenon DEF RefLog!Close, Status, Base

\* A request that is refused, fails, or is answered after its commit.
LEMMA AnswerSteps ==
  ASSUME GitInv, GitInv', NEW p \in Pushes, Refuse(p) \/ Fail(p) \/ Finish(p)
  PROVE  RefLog!PushStep(p)
<1>1. PushStep(p) /\ pointer' = pointer
  BY DEF PushStep, Refuse, Fail, Finish
<1>2. Status[p] = ClientStatus(push[p].phase) /\ Log' = Log
  BY <1>1, StepMaps
<1>3. ASSUME Refuse(p) PROVE RefLog!Reject(p)
  <2>1. RefLog!Close(p, "refused")
    BY <1>1, <1>3, AnswerCloses DEF Refuse, Results, ClientStatus
  <2>2. Status[p] = "open"
    BY <1>2, <1>3 DEF Refuse, ClientStatus
  <2> QED BY <1>2, <2>1, <2>2, Zenon DEF RefLog!Reject, Status, Log, History
<1>4. ASSUME Fail(p) PROVE RefLog!Abort(p)
  <2>1. RefLog!Close(p, "unknown")
    BY <1>1, <1>4, AnswerCloses DEF Fail, Results, ClientStatus
  <2>2. Status[p] \in {"idle", "open", "committed"}
    BY <1>2, <1>4 DEF Fail, ClientStatus
  <2> QED BY <1>2, <2>1, <2>2, Zenon DEF RefLog!Abort, Status, Log, History
<1>5. ASSUME Finish(p) PROVE RefLog!Ack(p) \/ RefLog!Abort(p)
  <2>1. RefLog!Close(p, "ok") \/ RefLog!Close(p, "unknown")
    <3>1. CASE Answer(p, "ok")
      BY <1>1, <3>1, AnswerCloses DEF Results, ClientStatus
    <3>2. CASE Answer(p, "error")
      BY <1>1, <3>2, AnswerCloses DEF Results, ClientStatus
    <3> QED BY <1>5, <3>1, <3>2 DEF Finish
  <2>2. Status[p] = "committed"
    BY <1>2, <1>5 DEF Finish, ClientStatus
  <2> QED BY <1>2, <2>1, <2>2, Zenon DEF RefLog!Ack, RefLog!Abort, Status, Log, History
<1> QED BY <1>3, <1>4, <1>5, Zenon DEF RefLog!PushStep

\* A lost race: the log has grown since the request was based on it.
LEMMA CasLostConflicts ==
  ASSUME GitInv, GitInv', NEW p \in Pushes, CasLost(p)
  PROVE  RefLog!Conflict(p)
<1>1. PushStep(p) /\ pointer' = pointer
  BY DEF PushStep, CasLost
<1>2. /\ Status[p] = ClientStatus(push[p].phase) /\ Base[p] = BaseOf(push[p], manifests)
      /\ Log' = Log
  BY <1>1, StepMaps
<1>3. RefLog!Close(p, "conflict")
  BY <1>1, AnswerCloses DEF CasLost, Results, ClientStatus
<1>4. Status[p] = "open"
  BY <1>2 DEF CasLost, ClientStatus
<1>5. Len(Log) > Base[p]
  <2>1. push[p].phase = "stored" /\ push[p].etag # pointer
    BY DEF CasLost, Precond
  <2>2. Len(ChainOf(manifests)[push[p].etag]) < Len(Log)
    BY <2>1 DEF GitInv, Descends, Live, Log
  <2>3. Base[p] = Len(ChainOf(manifests)[push[p].etag])
    BY <1>2, <2>1 DEF BaseOf, Live
  <2> QED BY <2>2, <2>3
<1> QED BY <1>2, <1>3, <1>4, <1>5, Zenon DEF RefLog!Conflict, Status, Base, Log, History

\* The conditional PUT adds the draft right after the entry it is based on.
LEMMA PutExtends ==
  ASSUME GitInv, GitInv', NEW p \in Pushes, CasWon(p) \/ CasAnswerLost(p)
  PROVE  RefLog!Extend(p)
<1>1. /\ push[p].phase = "stored" /\ push[p].etag = pointer
      /\ pointer' # pointer
      /\ Moves(packs, manifests, pointer, packs', manifests', pointer')
  BY PutPointer DEF CasWon, CasAnswerLost, Precond
<1>2. Status[p] = "open"
  BY <1>1, MapPhase DEF ClientStatus
<1>3. Base[p] = Len(Log)
  BY <1>1, MapPhase DEF BaseOf, Live, Log
<1>4. \E r \in RefStates : Log' = Append(Log, r)
  BY <1>1, MapLog
<1> QED BY <1>2, <1>3, <1>4, Zenon DEF RefLog!Extend, Status, Base, Log, History

LEMMA PutCommits ==
  ASSUME GitInv, GitInv', NEW p \in Pushes, CasWon(p) \/ CasAnswerLost(p)
  PROVE  RefLog!PushStep(p)
<1>1. RefLog!Extend(p) /\ PushStep(p)
  BY PutExtends DEF PushStep
<1>2. ASSUME CasWon(p) PROVE RefLog!Commit(p)
  <2>1. /\ push'[p].phase = "won" /\ push'[p].etag = push[p].etag /\ manifests' = manifests
        /\ push[p].phase = "stored"
    BY <1>2 DEF CasWon, GitInv, TypeOK, Requests
  <2>2. /\ Base[p] = BaseOf(push[p], manifests)
        /\ Status' = [Status EXCEPT ![p] = ClientStatus(push'[p].phase)]
        /\ Base' = [Base EXCEPT ![p] = BaseOf(push'[p], manifests')]
    BY <1>1, StepMaps
  <2>3. Status' = [Status EXCEPT ![p] = "committed"]
    BY <2>1, <2>2 DEF ClientStatus
  <2>4. BaseOf(push'[p], manifests') = Base[p]
    BY <2>1, <2>2 DEF BaseOf, Live
  <2>5. Base' = Base
    BY <2>2, <2>4 DEF Base
  <2> QED BY <1>1, <2>3, <2>5, Zenon DEF RefLog!Commit, Status, Base
<1>3. ASSUME CasAnswerLost(p) PROVE RefLog!CommitUnseen(p)
  <2>1. RefLog!Close(p, "unknown")
    BY <1>1, <1>3, AnswerCloses DEF CasAnswerLost, Results, ClientStatus
  <2> QED BY <1>1, <2>1 DEF RefLog!CommitUnseen
<1> QED BY <1>2, <1>3, Zenon DEF RefLog!PushStep

LEMMA RefLogInit ==
  ASSUME Init
  PROVE  RefLog!Init
BY MapInit, Zenon DEF RefLog!Init, Log, Status, Base, History

LEMMA RefLogNext ==
  ASSUME GitInv, GitInv', [Next]_vars
  PROVE  [RefLog!Next]_(RefLog!vars)
<1>1. CASE Seed
  <2>1. /\ Log = <<>> /\ \E r \in RefStates : Log' = <<r>>
        /\ Status' = Status /\ Base' = Base
    BY <1>1, SeedCreates
  <2>2. RefLog!Create
    BY <2>1, Zenon DEF RefLog!Create, Log, Status, Base, History
  <2> QED BY <2>2 DEF RefLog!Next
<1>2. CASE UNCHANGED vars
  BY <1>2 DEF vars, RefLog!vars, History, ClientBase
<1>3. ASSUME NEW p \in Pushes, PushStep(p) PROVE [RefLog!Next]_(RefLog!vars)
  <2>1. CASE Hydrate(p)
    BY <2>1, HydrateOpens, Zenon DEF RefLog!PushStep, RefLog!Next
  <2>2. CASE CaptureDelta(p) \/ CaptureCompacted(p) \/ PutManifest(p)
    BY <2>2, DraftStutters, Zenon
  <2>3. CASE CasWon(p) \/ CasAnswerLost(p)
    BY <2>3, PutCommits, Zenon DEF RefLog!Next
  <2>4. CASE CasLost(p)
    BY <2>4, CasLostConflicts, Zenon DEF RefLog!PushStep, RefLog!Next
  <2>5. CASE Refuse(p) \/ Fail(p) \/ Finish(p)
    BY <2>5, AnswerSteps, Zenon DEF RefLog!Next
  <2> QED BY <1>3, <2>1, <2>2, <2>3, <2>4, <2>5 DEF PushStep
<1> QED BY <1>1, <1>2, <1>3 DEF Next

\* Pushes on relays that share only the bucket implement one log of ref states
\* that grows entry by entry: each published state follows the one its push
\* was based on, a 2xx means published, a refusal or a 409 means not
\* published, and a 409 is only given when the log has grown in between.
THEOREM RefLogImplemented == Spec => ImplementsRefLog
<1>1. Init => RefLog!Init
  BY RefLogInit
<1>2. GitInv /\ GitInv' /\ [Next]_vars => [RefLog!Next]_(RefLog!vars)
  BY RefLogNext
<1> QED BY <1>1, <1>2, GitInvariant, PTL DEF Spec, RefLog!Spec, ImplementsRefLog
=============================================================================
