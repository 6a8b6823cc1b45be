---------------------------- MODULE SourceSetProofs ----------------------------
(***************************************************************************)
(* What the follower of a set of writers keeps of their claims, for every  *)
(* set of sources, heads, documents, records and rosters, and wherever     *)
(* crashes, failures and the operator come between its durable steps.      *)
(***************************************************************************)
EXTENDS SourceSet, FiniteSetTheorems, WellFoundedInduction, TLAPS

\* The roster in force, and the sources it bound.
Rostered ==
  /\ marker \in 0 .. Len(Rosters)
  /\ pc # "down" => marker > 0
  /\ marker > 0 => \A s \in Source : Rosters[marker][s] # {} => s \in bound

\* What may become the publication of a source: one that its key signed.
Signed(s, d) == d \in Docs /\ d.src = s
Floored == \A s \in Source : pubFloor[s] # None => Signed(s, pubFloor[s])
Fetched ==
  /\ got = [s \in Source |-> got[s]]
  /\ \A s \in Source : got[s].doc # None => Signed(s, got[s].doc) /\ s \in bound

\* A candidate was checked against the floor, which then moves to nothing but it.
Admitted ==
  \A s \in Source : docs[s] # None =>
    Signed(s, docs[s]) /\ s \in bound /\ ~Stale(s, docs[s]) /\ ~Equivocates(s, docs[s])
Pooled == \A h \in FinHeads : pool[h] \subseteq {s \in Source : docs[s] # None}

\* Every checkpoint is one that a restart can attribute.
Attributed ==
  \A h \in Heads : cp[h] # None =>
    /\ cp[h] \in [ver : {3, 4}, doc : Docs, sel : BOOLEAN]
    /\ marker = 0 => cp[h].ver = 3
    /\ cp[h].ver = 4 => Provenance(h)

\* A contradiction in the pool is latched before anything is planned from it.
Evident ==
  pc \in {"latched", "recovered"} =>
    \A h \in FinHeads : ConflictPairs(Observed(h)) # {} => latch[h] # None

IInv == Rostered /\ Floored /\ Fetched /\ Admitted /\ Pooled /\ Attributed /\ Evident

-----------------------------------------------------------------------------
\* Arbitration.

\* A claim covers itself.
LEMMA CoversItself == ASSUME NEW c PROVE Covers(c, c)
<1>1. CompareRoots(c, c) = "equivalent" /\ CompareManifests(c, c) = "equivalent"
  BY Zenon DEF CompareRoots, CompareManifests
<1> QED BY <1>1 DEF Covers, Relation

\* The identifier that names the winners is one of theirs (selectFinalizedClaim).
LEMMA RepresentativeWins ==
  ASSUME NEW obs, DOMAIN obs \subseteq Nat, Winners(obs) # {}
  PROVE  Representative(obs) \in Winners(obs)
<1> DEFINE W == Winners(obs)
<1>1. W \subseteq DOMAIN obs BY Zenon DEF Winners
<1>2. W \subseteq Nat BY Zenon, <1>1
<1>3. W # {} BY Zenon
<1> HIDE DEF W
<1>4. PICK s \in W : \A t \in W : ~(<<t, s>> \in OpToRel(<, Nat))
  BY Zenon, <1>2, <1>3, NatLessThanWellFounded, WFMin
<1>5. \A t \in W : s <= t
  <2> TAKE t \in W
  <2>1. s \in Nat /\ t \in Nat BY Zenon, <1>2
  <2>2. ~(t < s) BY Zenon, <1>4, <2>1 DEF OpToRel
  <2> QED BY <2>1, <2>2
<1> QED BY Zenon, <1>5 DEF Representative, W

\* A mutable head has an owner (normalizeSourceConfigs).
LEMMA OwnerIsASource ==
  ASSUME NEW i \in 1 .. Len(Rosters)
  PROVE  Owner(i) \in Source
<1> DEFINE S == {s \in Source : Mut \in Rosters[i][s]}
<1>1. Cardinality(S) = 1 BY Zenon, SourceSetAssumption DEF SourceSetAssumption, RosterValid
<1>2. S # {} BY <1>1, FS_EmptySet
<1> QED BY Zenon, <1>2 DEF Owner

\* Of the two documents of one source the fresher is one of them (fresherCandidate).
LEMMA FreshestIsOne ==
  ASSUME NEW a, NEW b, NEW F \in SUBSET {a, b}, F # {}, \A d \in F : d.rev \in Nat
  PROVE  Freshest(F) \in F
<1>1. \E d \in F : \A e \in F : e.rev <= d.rev
  <2>1. CASE F = {a, b}
    <3>1. a.rev \in Nat /\ b.rev \in Nat BY Zenon, <2>1
    <3>2. CASE a.rev <= b.rev BY <2>1, <3>1, <3>2
    <3>3. CASE b.rev <= a.rev BY <2>1, <3>1, <3>3
    <3> QED BY <3>1, <3>2, <3>3
  <2>2. CASE F = {a} BY <2>2
  <2>3. CASE F = {b} BY <2>3
  <2> QED BY Zenon, <2>1, <2>2, <2>3
<1> QED BY Zenon, <1>1 DEF Freshest

\* Only what is in the pool takes part in a contradiction or wins.
LEMMA ObservedFrom ==
  ASSUME IInv, NEW h \in FinHeads
  PROVE  /\ DOMAIN Observed(h) = pool[h] /\ Winners(Observed(h)) \subseteq pool[h] /\ pool[h] \subseteq Source
         /\ \A s \in pool[h] : docs[s] # None /\ Signed(s, docs[s])
<1>1. DOMAIN Observed(h) = pool[h] BY Zenon DEF Observed
<1>2. \A obs : Winners(obs) \subseteq DOMAIN obs BY Zenon DEF Winners
<1> QED BY Zenon, <1>1, <1>2 DEF IInv, Pooled, Admitted

\* The sources that contradict each other are among the observed, and there are some
\* when a pair does.
LEMMA ParticipantsFrom ==
  ASSUME IInv, NEW h \in FinHeads
  PROVE  /\ Participants(h) \subseteq pool[h]
         /\ ConflictPairs(Observed(h)) # {} => Participants(h) # {}
<1>1. DOMAIN Observed(h) = pool[h] /\ Winners(Observed(h)) \subseteq pool[h] BY Zenon, ObservedFrom
<1> DEFINE pairs == ConflictPairs(Observed(h))
<1>2. \A p \in pairs : p[1] \in pool[h] /\ p[2] \in pool[h] BY Zenon, <1>1 DEF ConflictPairs
<1> HIDE DEF pairs
<1>3. CASE pairs # {}
  <2>1. Participants(h) = {p[1] : p \in pairs} \cup {p[2] : p \in pairs} BY Zenon, <1>3 DEF pairs, Participants
  <2> QED BY Zenon, <1>2, <1>3, <2>1
<1>4. CASE pairs = {}
  <2>1. Participants(h) \subseteq Winners(Observed(h)) BY Zenon, <1>4 DEF pairs, Participants
  <2> QED BY Zenon, <1>1, <1>4, <2>1 DEF pairs
<1> QED BY Zenon, <1>3, <1>4

-----------------------------------------------------------------------------
\* The floors.

\* Publication f of a source is a floor under its publication d, or d may replace f.
Under(f, d) == f # None /\ ~(f.rev < d.rev) /\ (f.rev = d.rev => f = d)
Replaces(f, d) == ~(f # None /\ d.rev < f.rev) /\ ~(f # None /\ d.rev = f.rev /\ d # f)

\* A floor stays where it is or moves to the poll's candidate.
Moved == \A s \in Source : pubFloor'[s] = pubFloor[s] \/ (docs[s] # None /\ pubFloor'[s] = docs[s])

\* Moving so, it stays under all it was under, and may still be replaced by the candidate.
LEMMA FloorsMove ==
  ASSUME IInv, Moved, NEW s \in Source
  PROVE  /\ pubFloor'[s] # None => Signed(s, pubFloor'[s])
         /\ \A d \in Docs : Under(pubFloor[s], d) => Under(pubFloor'[s], d)
         /\ docs[s] # None => Replaces(pubFloor'[s], docs[s])
<1>1. CASE pubFloor'[s] = pubFloor[s] BY Zenon, <1>1 DEF IInv, Floored, Admitted, Stale, Equivocates, Replaces
<1>2. CASE docs[s] # None /\ pubFloor'[s] = docs[s]
  <2>1. Signed(s, docs[s]) /\ Replaces(pubFloor[s], docs[s])
    BY Zenon, <1>2 DEF IInv, Admitted, Stale, Equivocates, Replaces
  <2>2. docs[s].rev \in Nat BY Zenon, <2>1, SourceSetAssumption DEF SourceSetAssumption, Signed
  <2>3. ASSUME NEW d \in Docs, Under(pubFloor[s], d) PROVE Under(docs[s], d)
    <3>1. pubFloor[s] # None /\ pubFloor[s] \in Docs BY Zenon, <2>3 DEF Under, IInv, Floored, Signed
    <3>2. pubFloor[s].rev \in Nat /\ d.rev \in Nat BY Zenon, <3>1, SourceSetAssumption DEF SourceSetAssumption
    <3> QED BY <1>2, <2>1, <2>2, <2>3, <3>1, <3>2 DEF Under, Replaces
  <2> QED BY <1>2, <2>1, <2>2, <2>3 DEF Replaces
<1> QED BY Zenon, <1>1, <1>2 DEF Moved

\* A checkpoint that is not written stays attributable.
LEMMA StaysAttributed ==
  ASSUME IInv, Moved, UNCHANGED <<marker, bound>>, NEW h \in Heads, cp'[h] = cp[h], cp[h] # None, cp[h].ver = 4
  PROVE  Provenance(h)'
<1> DEFINE d == cp[h].doc
<1>1. d \in Docs /\ d.src \in Source BY Zenon, SourceSetAssumption DEF IInv, Attributed, SourceSetAssumption
<1>2. /\ d.src \in bound /\ Under(pubFloor[d.src], d) /\ (h = Mut => d.src = Owner(marker))
  BY Zenon DEF IInv, Attributed, Provenance, Under
<1>3. Under(pubFloor'[d.src], d) BY Zenon, <1>1, <1>2, FloorsMove
<1>4. Owner(marker)' = Owner(marker) BY Zenon DEF Owner
<1> QED BY Zenon, <1>2, <1>3, <1>4 DEF Provenance, Under

\* Steps that write no checkpoint.
LEMMA DurableKeeps ==
  ASSUME IInv, Moved, UNCHANGED <<marker, bound>>, \A h \in Heads : cp'[h] = cp[h]
  PROVE  Floored' /\ Attributed'
<1>1. Floored' BY Zenon, FloorsMove DEF Floored, Signed
<1>2. ASSUME NEW h \in Heads, cp'[h] # None
      PROVE  /\ cp'[h] \in [ver : {3, 4}, doc : Docs, sel : BOOLEAN]
             /\ marker' = 0 => cp'[h].ver = 3
             /\ cp'[h].ver = 4 => Provenance(h)'
  BY Zenon, <1>2, StaysAttributed DEF IInv, Attributed
<1> QED BY Zenon, <1>1, <1>2 DEF Attributed

\* The candidates are kept to the end of the poll, and then dropped.
LEMMA PollKeeps ==
  ASSUME IInv, Moved, UNCHANGED bound, UNCHANGED <<docs, pool>> \/ (docs' = NoDocs /\ pool' = NoPool)
  PROVE  Admitted' /\ Pooled'
<1>1. CASE UNCHANGED <<docs, pool>>
  <2>1. ASSUME NEW s \in Source, docs'[s] # None
        PROVE  (Signed(s, docs[s]) /\ s \in bound /\ ~Stale(s, docs[s]) /\ ~Equivocates(s, docs[s]))'
    <3>1. Replaces(pubFloor'[s], docs[s]) BY Zenon, <1>1, <2>1, FloorsMove
    <3> QED BY Zenon, <1>1, <2>1, <3>1 DEF IInv, Admitted, Replaces, Stale, Equivocates, Signed
  <2>2. Pooled' BY Zenon, <1>1 DEF IInv, Pooled
  <2> QED BY Zenon, <2>1, <2>2 DEF Admitted
<1>2. CASE docs' = NoDocs /\ pool' = NoPool BY Zenon, <1>2 DEF NoDocs, NoPool, Admitted, Pooled
<1> QED BY Zenon, <1>1, <1>2

\* The evidence stays while the poll and the latches do.
LEMMA EvidentKeeps ==
  ASSUME IInv, UNCHANGED <<docs, pool, latch>>, pc' \in {"latched", "recovered"} => pc \in {"latched", "recovered"}
  PROVE  Evident'
<1>1. \A h \in FinHeads : Observed(h)' = Observed(h) BY Zenon DEF Observed
<1> QED BY Zenon, <1>1 DEF IInv, Evident

\* The channels' results are kept or dropped.
LEMMA FetchedKeeps ==
  ASSUME IInv, UNCHANGED bound, UNCHANGED got \/ got' = [s \in Source |-> Nothing]
  PROVE  Fetched'
<1>1. CASE UNCHANGED got BY Zenon, <1>1 DEF IInv, Fetched, Signed
<1>2. CASE got' = [s \in Source |-> Nothing] BY Zenon, <1>2 DEF Fetched, Nothing
<1> QED BY Zenon, <1>1, <1>2

-----------------------------------------------------------------------------
\* The serving transaction.

\* Dropping heads from a set of plans changes no other plan.
LEMMA WithoutNarrows ==
  ASSUME NEW f, NEW hs
  PROVE  DOMAIN Without(f, hs) \subseteq DOMAIN f /\ \A x \in DOMAIN Without(f, hs) : Without(f, hs)[x] = f[x]
BY Zenon DEF Without

\* Nor does omitting a mutable plan (omitInvalidProspectiveMutableBoundaries).
LEMMA OmittingNarrows ==
  ASSUME NEW f
  PROVE  DOMAIN OmitInvalid(f) \subseteq DOMAIN f /\ \A x \in DOMAIN OmitInvalid(f) : OmitInvalid(f)[x] = f[x]
<1>1. PICK hs : OmitInvalid(f) = Without(f, hs) BY Zenon DEF OmitInvalid
<1> QED BY <1>1, WithoutNarrows

\* What survives is planned.
LEMMA SurvivorsArePlans ==
  ASSUME NEW plans, NEW lost, NEW h \in DOMAIN Survivors(plans, lost)
  PROVE  h \in DOMAIN plans /\ Survivors(plans, lost)[h] = plans[h]
<1>1. PICK valid : valid = OmitInvalid(plans) BY Zenon
<1>2. PICK closed : closed = Without(valid, lost) BY Zenon
<1>3. Survivors(plans, lost) = OmitInvalid(closed) BY Zenon, <1>1, <1>2 DEF Survivors
<1>4. h \in DOMAIN closed /\ Survivors(plans, lost)[h] = closed[h] BY Zenon, <1>3, OmittingNarrows
<1>5. h \in DOMAIN valid /\ closed[h] = valid[h] BY Zenon, <1>2, <1>4, WithoutNarrows
<1>6. h \in DOMAIN plans /\ valid[h] = plans[h] BY Zenon, <1>1, <1>5, OmittingNarrows
<1> QED BY Zenon, <1>4, <1>5, <1>6

\* One batch writes the planned checkpoints and the admitted floors, or neither.
LEMMA Transacted ==
  ASSUME NEW plans, NEW A, Transact(plans, A)
  PROVE  /\ \A s \in Source : pubFloor'[s] = pubFloor[s] \/ (A[s] # None /\ pubFloor'[s] = A[s])
         /\ \A h \in Heads : \/ cp'[h] = cp[h]
                             \/ /\ h \in DOMAIN plans /\ plans[h].write
                                /\ cp'[h] = [ver |-> 4, doc |-> plans[h].doc, sel |-> plans[h].sel]
                                /\ \A s \in Source : A[s] # None => pubFloor'[s] = A[s]
<1>1. CASE Coherent(plans)
  <2>1. /\ cp' = [h \in Heads |-> IF h \in DOMAIN plans /\ plans[h].write
                                  THEN [ver |-> 4, doc |-> plans[h].doc, sel |-> plans[h].sel] ELSE cp[h]]
        /\ pubFloor' = Raised(A)
    BY Zenon, <1>1 DEF Transact
  <2>2. \A s \in Source : pubFloor'[s] = IF A[s] # None THEN A[s] ELSE pubFloor[s] BY Zenon, <2>1 DEF Raised
  <2> QED BY Zenon, <2>1, <2>2
<1>2. CASE ~Coherent(plans) BY Zenon, <1>2 DEF Transact
<1> QED BY Zenon, <1>1, <1>2

\* What is served again is not written again.
LEMMA Restored ==
  ASSUME NEW plans, \A h \in DOMAIN plans : plans[h] = Restore(h), Transact(plans, NoDocs)
  PROVE  Moved /\ \A h \in Heads : cp'[h] = cp[h]
<1>1. \A h \in DOMAIN plans : ~plans[h].write BY DEF Restore
<1>2. PICK A : A = NoDocs BY Zenon
<1>3. \A s \in Source : A[s] = None BY Zenon, <1>2 DEF NoDocs
<1>4. Transact(plans, A) BY Zenon, <1>2
<1>5. \A s \in Source : pubFloor'[s] = pubFloor[s] \/ (A[s] # None /\ pubFloor'[s] = A[s]) BY <1>4, Transacted
<1>6. \A h \in Heads : cp'[h] = cp[h] \/ (h \in DOMAIN plans /\ plans[h].write) BY Zenon, <1>4, Transacted
<1> QED BY Zenon, <1>1, <1>3, <1>5, <1>6 DEF Moved

-----------------------------------------------------------------------------
\* The steps.

\* Steps that leave the floors and the checkpoints alone.
LEMMA QuietKeeps ==
  ASSUME IInv, UNCHANGED <<marker, bound, pubFloor, cp>>, UNCHANGED got \/ got' = [s \in Source |-> Nothing],
         UNCHANGED <<docs, pool>> \/ (docs' = NoDocs /\ pool' = NoPool), Evident', pc' # "down" => pc # "down"
  PROVE  IInv'
<1>1. Moved BY Zenon DEF Moved
<1>2. Floored' /\ Attributed' BY Zenon, <1>1, DurableKeeps
<1>3. Admitted' /\ Pooled' BY Zenon, <1>1, PollKeeps
<1>4. Fetched' BY Zenon, FetchedKeeps
<1>5. Rostered' BY Zenon DEF IInv, Rostered
<1> QED BY Zenon, <1>2, <1>3, <1>4, <1>5 DEF IInv

\* A start binds the roster's sources and keeps a mutable head with its own (New).
LEMMA StartKeeps ==
  ASSUME IInv, NEW i \in 1 .. Len(Rosters), Start(i)
  PROVE  IInv'
<1>1. /\ marker' = i /\ bound' = bound \cup {s \in Source : Rosters[i][s] # {}} /\ pc' = "resume"
      /\ UNCHANGED <<pubFloor, cp, latch, got, docs, pool>> /\ (cp[Mut] # None => cp[Mut].doc.src = Owner(i))
  BY Zenon DEF Start, poll
<1>2. Len(Rosters) \in Nat BY SourceSetAssumption DEF SourceSetAssumption
<1>3. Rostered' BY <1>1, <1>2 DEF Rostered
<1>4. Floored' BY Zenon, <1>1 DEF IInv, Floored, Signed
<1>5. Fetched' BY Zenon, <1>1 DEF IInv, Fetched, Signed
<1>6. Admitted' /\ Pooled' BY Zenon, <1>1 DEF IInv, Admitted, Pooled, Signed, Stale, Equivocates
<1>7. ASSUME NEW h \in Heads, cp[h] # None, cp[h].ver = 4 PROVE Provenance(h)'
  <2>1. Provenance(h) BY Zenon, <1>7 DEF IInv, Attributed
  <2>2. h = Mut => cp[h].doc.src = Owner(i) BY Zenon, <1>1, <1>7
  <2>3. Owner(marker)' = Owner(i) BY Zenon, <1>1 DEF Owner
  <2> QED BY Zenon, <1>1, <2>1, <2>2, <2>3 DEF Provenance
<1>8. Attributed'
  <2>1. i # 0 BY <1>2
  <2> QED BY Zenon, <1>1, <1>7, <2>1 DEF IInv, Attributed
<1>9. Evident' BY Zenon, <1>1 DEF Evident
<1> QED BY Zenon, <1>3, <1>4, <1>5, <1>6, <1>8, <1>9 DEF IInv

\* Resume and the recovery of a poll serve again what is durable
\* (resumeSourceCheckpoints, restoreDarkSourceCheckpoints).
LEMMA RestoreKeeps ==
  ASSUME IInv, UNCHANGED <<marker, bound, latch, poll>>, pc # "down",
         pc' \in {"latched", "recovered"} => pc \in {"latched", "recovered"},
         \/ UNCHANGED <<cp, pubFloor>>
         \/ \E plans : (\A h \in DOMAIN plans : plans[h] = Restore(h)) /\ Transact(plans, NoDocs)
  PROVE  IInv' /\ \A h \in Heads : cp'[h] = cp[h]
<1>1. Moved /\ \A h \in Heads : cp'[h] = cp[h] BY Zenon, Restored DEF Moved
<1>2. Floored' /\ Attributed' BY Zenon, <1>1, DurableKeeps
<1>3. Admitted' /\ Pooled' /\ Fetched' /\ Evident' BY Zenon, <1>1, PollKeeps, FetchedKeeps, EvidentKeeps DEF poll
<1>4. Rostered' BY Zenon DEF IInv, Rostered
<1> QED BY Zenon, <1>1, <1>2, <1>3, <1>4 DEF IInv

\* A restart serves every selected checkpoint, or none (resumeSourceCheckpoints).
LEMMA ResumeKeeps ==
  ASSUME IInv, Resume
  PROVE  IInv' /\ \A h \in Heads : cp'[h] = cp[h]
<1> DEFINE plans == [h \in {h \in Heads : Selected(h)} |-> Restore(h)]
<1>1. Transact(plans, NoDocs) \/ UNCHANGED <<cp, pubFloor>> BY Zenon DEF Resume
<1>2. \A h \in DOMAIN plans : plans[h] = Restore(h) BY Zenon
<1> HIDE DEF plans
<1>3. pc = "resume" /\ pc' = "idle" /\ UNCHANGED <<marker, bound, latch, poll>> BY Zenon DEF Resume
<1> QED BY Zenon, <1>1, <1>2, <1>3, RestoreKeeps

\* A poll serves what a restart left dark (restoreDarkSourceCheckpoints).
LEMMA RecoverKeeps ==
  ASSUME IInv, NEW lost, Recover(lost)
  PROVE  IInv' /\ \A h \in Heads : cp'[h] = cp[h]
<1> DEFINE dark == [h \in {h \in Heads : Dark(h)} |-> Restore(h)]
           plans == Survivors(dark, lost)
<1>1. Transact(plans, NoDocs) \/ UNCHANGED <<cp, pubFloor>> BY Zenon DEF Recover
<1>2. \A h \in DOMAIN plans : h \in DOMAIN dark /\ plans[h] = dark[h] BY Zenon, SurvivorsArePlans
<1>3. \A h \in DOMAIN plans : plans[h] = Restore(h) BY Zenon, <1>2
<1> HIDE DEF plans
<1>4. pc = "latched" /\ pc' \in {"idle", "recovered"} /\ UNCHANGED <<marker, bound, latch, poll>> BY Zenon DEF Recover
<1> QED BY Zenon, <1>1, <1>3, <1>4, RestoreKeeps

\* A source's channels only yield what its key signed (resolveSource).
LEMMA ResolveKeeps ==
  ASSUME IInv, NEW s \in Source, NEW d \in Docs \cup {None}, NEW r \in Records \cup {None},
         d # None => d.src = s, r # None => r[1].src = s, Resolve(s, d, r)
  PROVE  IInv'
<1> DEFINE ipns  == IF Followed(s, r) THEN r[1] ELSE None
           fresh == {e \in {d, ipns} \ {None} : ~Stale(s, e)}
           bad   == (\E e \in fresh : Equivocates(s, e)) \/ Disagree(fresh)
           best  == IF bad \/ fresh = {} THEN None ELSE Freshest(fresh)
           x     == [doc |-> best, ch |-> IF best = d THEN "https" ELSE "ipns",
                     seq |-> IF Followed(s, r) THEN r[2] ELSE 0, bad |-> bad]
<1>1. /\ pc = "idle" /\ Rosters[marker][s] # {} /\ got' = [got EXCEPT ![s] = x]
      /\ UNCHANGED <<durable, pc, docs, pool>>
  BY Zenon DEF Resolve
<1>2. \A e \in fresh : Signed(s, e) /\ e.rev \in Nat
  <2>1. ipns # None => ipns \in Docs /\ ipns.src = s BY Zenon, SourceSetAssumption DEF SourceSetAssumption, Followed
  <2>2. \A e \in Docs : e.rev \in Nat BY Zenon, SourceSetAssumption DEF SourceSetAssumption
  <2> QED BY Zenon, <2>1, <2>2 DEF Signed
<1>3. best # None => Signed(s, best)
  <2>1. fresh \in SUBSET {d, ipns} BY Zenon
  <2> HIDE DEF fresh, bad, ipns
  <2>2. fresh # {} => Freshest(fresh) \in fresh BY Zenon, <1>2, <2>1, FreshestIsOne
  <2> QED BY Zenon, <1>2, <2>2
<1>4. s \in bound BY Zenon, <1>1 DEF IInv, Rostered
<1>5. x.doc = best BY Zenon
<1> HIDE DEF best, x
<1>6. Fetched'
  <2>1. got' = [t \in Source |-> IF t = s THEN x ELSE got[t]] BY Zenon, <1>1 DEF IInv, Fetched
  <2>2. bound' = bound BY Zenon, <1>1 DEF durable
  <2> QED BY Zenon, <1>3, <1>4, <1>5, <2>1, <2>2 DEF IInv, Fetched, Signed
<1>7. UNCHANGED <<marker, bound, pubFloor, cp, latch>> BY Zenon, <1>1 DEF durable
<1>8. Moved /\ Rostered' BY Zenon, <1>1, <1>7 DEF Moved, IInv, Rostered
<1>9. Floored' /\ Attributed' /\ Admitted' /\ Pooled' /\ Evident'
  BY Zenon, <1>1, <1>7, <1>8, DurableKeeps, PollKeeps, EvidentKeeps
<1> QED BY Zenon, <1>6, <1>8, <1>9 DEF IInv

\* Under the lock a result is checked against the floors again (commitSourceObservations).
LEMMA ObserveKeeps ==
  ASSUME IInv, NEW rejected, Observe(rejected)
  PROVE  IInv'
<1> DEFINE admitted == {s \in Source : Usable(s) /\ ~Omitted(s, rejected)}
<1>1. /\ pc = "idle" /\ pc' = "observed" /\ got' = [s \in Source |-> Nothing]
      /\ docs' = [s \in Source |-> IF s \in admitted THEN Current(s) ELSE None]
      /\ pool' = [h \in FinHeads |-> {s \in admitted : h \in Proved(s, rejected)}]
      /\ UNCHANGED <<marker, bound, pubFloor, cp, latch>>
  BY Zenon DEF Observe
<1>2. \A s \in admitted : /\ s \in Source /\ Current(s) # None /\ Current(s) = got[s].doc
                          /\ ~Stale(s, Current(s)) /\ ~Equivocates(s, Current(s))
  BY Zenon DEF Usable, Bad, Current
<1> HIDE DEF admitted
<1>3. Moved /\ Rostered' /\ Evident' BY Zenon, <1>1 DEF Moved, IInv, Rostered, Evident
<1>4. Floored' /\ Attributed' /\ Fetched' BY Zenon, <1>1, <1>3, DurableKeeps, FetchedKeeps
<1>5. \A s \in Source : docs'[s] # None => s \in admitted /\ docs'[s] = Current(s) BY Zenon, <1>1
<1>6. \A s \in Source : docs'[s] # None =>
        Signed(s, docs'[s]) /\ s \in bound /\ ~Stale(s, docs'[s]) /\ ~Equivocates(s, docs'[s])
  BY Zenon, <1>2, <1>5 DEF IInv, Fetched
<1>7. Admitted' BY Zenon, <1>1, <1>6 DEF Admitted, Signed, Stale, Equivocates
<1>8. Pooled' BY Zenon, <1>1, <1>2 DEF Pooled
<1> QED BY Zenon, <1>3, <1>4, <1>7, <1>8 DEF IInv

\* Every contradiction of the pool is latched, with its publications as floors
\* (persistFinalizedConflicts).
LEMMA LatchKeeps ==
  ASSUME IInv, Latch
  PROVE  IInv'
<1> DEFINE hit == {h \in FinHeads : latch[h] = None /\ Participants(h) # {}}
           signers == UNION {Participants(h) : h \in hit}
           A == [s \in Source |-> IF s \in signers THEN docs[s] ELSE None]
<1>1. /\ pc = "observed" /\ pc' = "latched" /\ StageLatches(hit) /\ pubFloor' = Raised(A)
      /\ UNCHANGED <<marker, bound, cp, docs, pool, got>>
  BY Zenon DEF Latch, poll
<1>2. Moved
  <2>1. \A s \in Source : A[s] # None => A[s] = docs[s] BY Zenon
  <2> HIDE DEF A
  <2>2. \A s \in Source : pubFloor'[s] = IF A[s] # None THEN A[s] ELSE pubFloor[s] BY Zenon, <1>1 DEF Raised
  <2> QED BY Zenon, <2>1, <2>2 DEF Moved
<1>3. ASSUME NEW h \in FinHeads, ConflictPairs(Observed(h)) # {} PROVE latch'[h] # None
  <2>1. Participants(h) # {} /\ Participants(h) \subseteq pool[h] BY Zenon, <1>3, ParticipantsFrom
  <2>2. latch' = [g \in FinHeads |-> IF g \in hit THEN [roster |-> marker, by |-> {docs[s] : s \in Participants(g)}]
                                     ELSE latch[g]]
    BY Zenon, <1>1 DEF StageLatches
  <2>3. CASE latch[h] # None BY Zenon, <2>2, <2>3
  <2>4. CASE latch[h] = None
    <3> DEFINE B == {docs[s] : s \in Participants(h)}
    <3>1. latch'[h] = [roster |-> marker, by |-> B] BY Zenon, <2>1, <2>2, <2>4
    <3>2. B \in SUBSET Docs BY <2>1, ObservedFrom DEF Signed
    <3> HIDE DEF B
    <3>3. marker \in Nat BY SourceSetAssumption DEF SourceSetAssumption, IInv, Rostered
    <3>4. None \notin [roster : Nat, by : SUBSET Docs] BY Zenon, SourceSetAssumption DEF SourceSetAssumption
    <3> QED BY <3>1, <3>2, <3>3, <3>4
  <2> QED BY Zenon, <2>3, <2>4
<1>4. Evident'
  <2>1. \A h \in FinHeads : Observed(h)' = Observed(h) BY Zenon, <1>1 DEF Observed
  <2> QED BY Zenon, <1>3, <2>1 DEF Evident
<1> HIDE DEF A, hit
<1>5. Floored' /\ Attributed' /\ Admitted' /\ Pooled' /\ Fetched' BY Zenon, <1>1, <1>2, DurableKeeps, PollKeeps, FetchedKeeps
<1>6. Rostered' BY Zenon, <1>1 DEF IInv, Rostered
<1> QED BY Zenon, <1>4, <1>5, <1>6 DEF IInv

\* A checkpoint is written from an admitted candidate: for a finalized head one that covers
\* what it replaces, and none while the head is latched; for a mutable head its owner's
\* (preflightFinalizedHead, preflightMutableHead).
LEMMA PlanWrites ==
  ASSUME IInv, pc = "recovered", NEW h \in Heads, Plan(h) # None, Plan(h).write
  PROVE  \E s \in Source : /\ docs[s] # None /\ Plan(h).doc = docs[s] /\ Plan(h).sel \in BOOLEAN
                           /\ h = Mut => s = Owner(marker)
                           /\ h \in FinHeads => latch[h] = None
                           /\ h \in FinHeads /\ cp[h] # None => Covers(docs[s].fin[h], Claim(cp[h], h))
<1>1. CASE h = Mut
  <2>1. marker \in 1 .. Len(Rosters) BY SourceSetAssumption DEF SourceSetAssumption, IInv, Rostered
  <2>2. Owner(marker) \in Source BY Zenon, <2>1, OwnerIsASource
  <2>3. h \notin FinHeads BY Zenon, <1>1, SourceSetAssumption DEF SourceSetAssumption
  <2>4. docs[Owner(marker)] # None /\ Plan(h).doc = docs[Owner(marker)] /\ Plan(h).sel \in BOOLEAN
    BY Zenon, <1>1 DEF Plan, MutablePlan
  <2> QED BY Zenon, <2>2, <2>3, <2>4
<1>2. CASE h # Mut
  <2>1. h \in FinHeads BY Zenon, <1>2 DEF Heads
  <2> DEFINE obs == Observed(h)
             s == Representative(obs)
             rel == IF cp[h] = None THEN "left" ELSE Relation(docs[s].fin[h], Claim(cp[h], h))
  <2>2. Plan(h) = FinalizedPlan(h) BY Zenon, <1>2 DEF Plan
  <2>3. ~Restore(h).write BY Zenon DEF Restore
  <2>4. /\ latch[h] = None /\ Winners(obs) # {} /\ rel \in {"left", "equivalent"}
        /\ Plan(h) = [doc |-> docs[s], write |-> TRUE, sel |-> TRUE]
    BY Zenon, <2>2, <2>3 DEF FinalizedPlan
  <2>5. s \in Source /\ docs[s] # None
    <3>1. DOMAIN obs \subseteq Nat BY <2>1, ObservedFrom, SourceSetAssumption DEF SourceSetAssumption
    <3>2. s \in Winners(obs) BY Zenon, <2>4, <3>1, RepresentativeWins
    <3> QED BY Zenon, <2>1, <3>2, ObservedFrom
  <2>6. cp[h] # None => Covers(docs[s].fin[h], Claim(cp[h], h)) BY Zenon, <2>4 DEF Covers
  <2> HIDE DEF s, obs
  <2>7. Plan(h).doc = docs[s] /\ Plan(h).sel \in BOOLEAN BY <2>4
  <2> QED BY Zenon, <1>2, <2>4, <2>5, <2>6, <2>7
<1> QED BY Zenon, <1>1, <1>2

\* What ContentOnlyExtends and ContradictionLatched say of one step.
Extending == \A h \in FinHeads : cp[h] # None => cp'[h] # None /\ Covers(Claim(cp'[h], h), Claim(cp[h], h))
Latching ==
  \A h \in FinHeads : pc = "recovered" /\ ConflictPairs(Observed(h)) # {} => latch'[h] # None /\ cp'[h] = cp[h]

\* Steps that write no checkpoint and clear no latch under a poll.
LEMMA ExtendsNothing ==
  ASSUME IInv, \A h \in Heads : cp'[h] = cp[h], UNCHANGED latch \/ pc # "recovered"
  PROVE  Extending /\ Latching
<1>1. Extending BY Zenon, CoversItself DEF Extending, Claim, Heads
<1> QED BY Zenon, <1>1 DEF IInv, Evident, Latching, Heads

\* The batch of a poll: each checkpoint with the floor it was admitted at
\* (commitPlansWithStageFiltered).
LEMMA CommitKeeps ==
  ASSUME IInv, NEW lost, Commit(lost)
  PROVE  IInv' /\ Extending /\ Latching
<1> DEFINE all == [h \in {h \in Heads : Plan(h) # None} |-> Plan(h)]
           plans == Survivors(all, lost)
<1>1. /\ pc = "recovered" /\ pc' = "idle" /\ Transact(plans, docs) /\ docs' = NoDocs /\ pool' = NoPool
      /\ UNCHANGED <<marker, bound, latch, got>>
  BY Zenon DEF Commit
<1>2. \A h \in DOMAIN plans : h \in DOMAIN all /\ plans[h] = all[h] BY Zenon, SurvivorsArePlans
<1>3. \A h \in DOMAIN plans : h \in Heads /\ Plan(h) # None /\ plans[h] = Plan(h) BY Zenon, <1>2
<1> HIDE DEF all, plans
<1>4. Moved BY <1>1, Transacted DEF Moved
<1>5. ASSUME NEW h \in Heads, cp'[h] # cp[h]
      PROVE  \E s \in Source : /\ docs[s] # None /\ pubFloor'[s] = docs[s] /\ cp'[h].ver = 4 /\ cp'[h].doc = docs[s]
                               /\ cp'[h] \in [ver : {3, 4}, doc : Docs, sel : BOOLEAN]
                               /\ h = Mut => s = Owner(marker)
                               /\ h \in FinHeads => latch[h] = None
                               /\ h \in FinHeads /\ cp[h] # None => Covers(docs[s].fin[h], Claim(cp[h], h))
  <2>1. /\ h \in DOMAIN plans /\ plans[h].write /\ cp'[h] = [ver |-> 4, doc |-> plans[h].doc, sel |-> plans[h].sel]
        /\ \A s \in Source : docs[s] # None => pubFloor'[s] = docs[s]
    BY <1>1, <1>5, Transacted
  <2>2. Plan(h) # None /\ Plan(h).write /\ plans[h] = Plan(h) BY Zenon, <1>3, <2>1
  <2>3. PICK s \in Source : /\ docs[s] # None /\ Plan(h).doc = docs[s] /\ Plan(h).sel \in BOOLEAN
                            /\ h = Mut => s = Owner(marker)
                            /\ h \in FinHeads => latch[h] = None
                            /\ h \in FinHeads /\ cp[h] # None => Covers(docs[s].fin[h], Claim(cp[h], h))
    BY Zenon, <1>1, <2>2, PlanWrites
  <2>4. docs[s] \in Docs BY Zenon, <2>3 DEF IInv, Admitted, Signed
  <2>5. cp'[h] = [ver |-> 4, doc |-> docs[s], sel |-> Plan(h).sel] BY Zenon, <2>1, <2>2, <2>3
  <2>6. /\ cp'[h].ver = 4 /\ cp'[h].doc = docs[s] /\ cp'[h] \in [ver : {3, 4}, doc : Docs, sel : BOOLEAN]
    BY <2>3, <2>4, <2>5
  <2> QED BY Zenon, <2>1, <2>3, <2>6
<1>6. Rostered' /\ Evident' BY Zenon, <1>1 DEF IInv, Rostered, Evident
<1>7. Admitted' /\ Pooled' /\ Fetched' BY Zenon, <1>1, <1>4, PollKeeps, FetchedKeeps
<1>8. Floored' BY Zenon, <1>4, FloorsMove DEF Floored, Signed
<1>9. Attributed'
  <2>1. ASSUME NEW h \in Heads, cp'[h] # None
        PROVE  /\ cp'[h] \in [ver : {3, 4}, doc : Docs, sel : BOOLEAN]
               /\ marker' # 0 /\ (cp'[h].ver = 4 => Provenance(h)')
    <3>1. marker' # 0 BY <1>1 DEF IInv, Rostered
    <3>2. CASE cp'[h] = cp[h]
      <4>1. cp[h].ver = 4 => Provenance(h)' BY Zenon, <1>1, <1>4, <2>1, <3>2, StaysAttributed
      <4> QED BY Zenon, <2>1, <3>1, <3>2, <4>1 DEF IInv, Attributed
    <3>3. CASE cp'[h] # cp[h]
      <4>1. PICK s \in Source : /\ docs[s] # None /\ pubFloor'[s] = docs[s] /\ cp'[h].doc = docs[s]
                                /\ cp'[h] \in [ver : {3, 4}, doc : Docs, sel : BOOLEAN]
                                /\ h = Mut => s = Owner(marker)
        BY Zenon, <1>5, <3>3
      <4>2. docs[s].src = s /\ s \in bound BY Zenon, <4>1 DEF IInv, Admitted, Signed
      <4>3. docs[s].rev \in Nat BY Zenon, <4>1, SourceSetAssumption DEF SourceSetAssumption, IInv, Admitted, Signed
      <4>4. Owner(marker)' = Owner(marker) BY Zenon, <1>1 DEF Owner
      <4>5. Provenance(h)' BY <1>1, <4>1, <4>2, <4>3, <4>4 DEF Provenance
      <4> QED BY Zenon, <3>1, <4>1, <4>5
    <3> QED BY Zenon, <3>2, <3>3
  <2> QED BY Zenon, <2>1 DEF Attributed
<1>10. Extending
  <2>1. ASSUME NEW h \in FinHeads, cp[h] # None PROVE cp'[h] # None /\ Covers(Claim(cp'[h], h), Claim(cp[h], h))
    <3>1. CASE cp'[h] = cp[h] BY Zenon, <2>1, <3>1, CoversItself DEF Claim
    <3>2. CASE cp'[h] # cp[h]
      <4>1. h \in Heads BY Zenon DEF Heads
      <4>2. PICK s \in Source : /\ cp'[h].doc = docs[s] /\ cp'[h] \in [ver : {3, 4}, doc : Docs, sel : BOOLEAN]
                                /\ Covers(docs[s].fin[h], Claim(cp[h], h))
        BY Zenon, <1>5, <2>1, <3>2, <4>1
      <4>3. cp'[h] # None BY Zenon, <4>2, SourceSetAssumption DEF SourceSetAssumption
      <4> QED BY Zenon, <4>2, <4>3 DEF Claim
    <3> QED BY Zenon, <3>1, <3>2
  <2> QED BY Zenon, <2>1 DEF Extending
<1>11. Latching BY Zenon, <1>1, <1>5 DEF Latching, IInv, Evident, Heads
<1> QED BY Zenon, <1>6, <1>7, <1>8, <1>9, <1>10, <1>11 DEF IInv

\* The failures, the quarantine and the operator move no floor and no checkpoint.
LEMMA OthersKeep ==
  ASSUME IInv, ResumeFails \/ CommitFails \/ Crash \/ (\E h \in Heads : Quarantine(h)) \/ (\E h \in FinHeads : Clear(h))
  PROVE  IInv' /\ UNCHANGED cp /\ (UNCHANGED latch \/ pc # "recovered")
<1> USE DEF durable, poll
<1>1. CASE ResumeFails
  <2>1. /\ UNCHANGED <<marker, bound, pubFloor, cp, latch, got, docs, pool>> /\ pc = "resume" /\ pc' = "idle"
    BY Zenon, <1>1 DEF ResumeFails
  <2>2. Evident' BY Zenon, <2>1 DEF Evident
  <2> QED BY Zenon, <2>1, <2>2, QuietKeeps
<1>2. CASE CommitFails
  <2>1. /\ UNCHANGED <<marker, bound, pubFloor, cp, latch, got>> /\ docs' = NoDocs /\ pool' = NoPool
        /\ pc # "down" /\ pc' = "idle"
    BY Zenon, <1>2 DEF CommitFails
  <2>2. Evident' BY Zenon, <2>1 DEF Evident
  <2> QED BY Zenon, <2>1, <2>2, QuietKeeps
<1>3. CASE Crash
  <2>1. /\ UNCHANGED <<marker, bound, pubFloor, cp, latch>> /\ got' = [s \in Source |-> Nothing]
        /\ docs' = NoDocs /\ pool' = NoPool /\ pc' = "down"
    BY Zenon, <1>3 DEF Crash
  <2>2. Evident' BY Zenon, <2>1 DEF Evident
  <2> QED BY Zenon, <2>1, <2>2, QuietKeeps
<1>4. CASE \E h \in Heads : Quarantine(h)
  <2>1. UNCHANGED <<marker, bound, pubFloor, cp, latch, got, docs, pool, pc>> BY Zenon, <1>4 DEF Quarantine
  <2>2. Evident' BY Zenon, <2>1, EvidentKeeps
  <2> QED BY Zenon, <2>1, <2>2, QuietKeeps
<1>5. CASE \E h \in FinHeads : Clear(h)
  <2>1. UNCHANGED <<marker, bound, pubFloor, cp, got, docs, pool, pc>> /\ pc = "down" BY Zenon, <1>5 DEF Clear
  <2>2. Evident' BY Zenon, <2>1 DEF Evident
  <2> QED BY Zenon, <2>1, <2>2, QuietKeeps
<1> QED BY Zenon, <1>1, <1>2, <1>3, <1>4, <1>5

\* Every step.
LEMMA StepKeeps ==
  ASSUME IInv, [Next]_vars
  PROVE  IInv' /\ Extending /\ Latching
<1>1. ASSUME NEW i \in 1 .. Len(Rosters), Start(i) PROVE IInv' /\ Extending /\ Latching
  <2>1. UNCHANGED <<cp, latch>> BY Zenon, <1>1 DEF Start
  <2> QED BY Zenon, <1>1, <2>1, StartKeeps, ExtendsNothing
<1>2. CASE Resume
  <2>1. UNCHANGED latch BY Zenon, <1>2 DEF Resume
  <2> QED BY Zenon, <1>2, <2>1, ResumeKeeps, ExtendsNothing
<1>3. ASSUME NEW s \in Source, NEW d \in Docs \cup {None}, NEW r \in Records \cup {None},
             d # None => d.src = s, r # None => r[1].src = s, Resolve(s, d, r)
      PROVE  IInv' /\ Extending /\ Latching
  <2>1. UNCHANGED <<cp, latch>> BY Zenon, <1>3 DEF Resolve, durable
  <2>2. IInv' BY Zenon, <1>3, ResolveKeeps
  <2> QED BY Zenon, <2>1, <2>2, ExtendsNothing
<1>4. ASSUME NEW rejected, Observe(rejected) PROVE IInv' /\ Extending /\ Latching
  <2>1. UNCHANGED <<cp, latch>> BY Zenon, <1>4 DEF Observe
  <2> QED BY Zenon, <1>4, <2>1, ObserveKeeps, ExtendsNothing
<1>5. CASE Latch
  <2>1. UNCHANGED cp /\ pc # "recovered" BY Zenon, <1>5 DEF Latch
  <2> QED BY Zenon, <1>5, <2>1, LatchKeeps, ExtendsNothing
<1>6. ASSUME NEW lost, Recover(lost) PROVE IInv' /\ Extending /\ Latching
  <2>1. UNCHANGED latch BY Zenon, <1>6 DEF Recover
  <2> QED BY Zenon, <1>6, <2>1, RecoverKeeps, ExtendsNothing
<1>7. ASSUME NEW lost, Commit(lost) PROVE IInv' /\ Extending /\ Latching BY Zenon, <1>7, CommitKeeps
<1>8. CASE ResumeFails \/ CommitFails \/ Crash \/ (\E h \in Heads : Quarantine(h)) \/ (\E h \in FinHeads : Clear(h))
  BY Zenon, <1>8, OthersKeep, ExtendsNothing
<1>9. CASE UNCHANGED vars
  <2>1. UNCHANGED <<marker, bound, pubFloor, cp, latch, got, docs, pool, pc>> BY Zenon, <1>9 DEF vars
  <2>2. IInv' BY Zenon, <2>1, EvidentKeeps, QuietKeeps
  <2> QED BY Zenon, <2>1, <2>2, ExtendsNothing
<1> QED BY <1>1, <1>2, <1>3, <1>4, <1>5, <1>6, <1>7, <1>8, <1>9 DEF Next

\* A store that is fresh or was used by a single-source follower.
LEMMA InitEstablishes == Init => IInv
<1> SUFFICES ASSUME Init PROVE IInv BY Zenon
<1>1. /\ marker = 0 /\ pc = "down" /\ got = [s \in Source |-> Nothing] /\ docs = NoDocs /\ pool = NoPool
  BY Zenon DEF Init
<1>2. PICK d \in Legacy \cup {None} :
        /\ cp = [h \in Heads |-> IF d = None \/ (h = Mut /\ ~d.mut) THEN None ELSE [ver |-> 3, doc |-> d, sel |-> TRUE]]
        /\ pubFloor = [s \in Source |-> IF d # None /\ s = d.src THEN d ELSE None]
  BY Zenon DEF Init
<1>3. d # None => d \in Docs BY Zenon, SourceSetAssumption DEF SourceSetAssumption
<1>4. Len(Rosters) \in Nat BY SourceSetAssumption DEF SourceSetAssumption
<1>5. Rostered /\ Evident BY <1>1, <1>4 DEF Rostered, Evident
<1>6. Floored BY Zenon, <1>2, <1>3 DEF Floored, Signed
<1>7. Fetched /\ Admitted /\ Pooled BY Zenon, <1>1 DEF Fetched, Nothing, Admitted, NoDocs, Pooled, NoPool
<1>8. Attributed
  <2>1. ASSUME NEW h \in Heads, cp[h] # None
        PROVE  cp[h] \in [ver : {3, 4}, doc : Docs, sel : BOOLEAN] /\ cp[h].ver = 3
    <3>1. d # None /\ cp[h] = [ver |-> 3, doc |-> d, sel |-> TRUE] BY Zenon, <1>2, <2>1
    <3> QED BY <1>3, <3>1
  <2> QED BY <2>1 DEF Attributed
<1> QED BY Zenon, <1>5, <1>6, <1>7, <1>8 DEF IInv

\* The invariant the theorems rest on.
THEOREM Invariance == Spec => []IInv
<1>1. IInv /\ [Next]_vars => IInv' BY Zenon, StepKeeps
<1> QED BY <1>1, InitEstablishes, PTL DEF Spec

\* Wherever a crash falls, a restart can attribute every checkpoint to a bound source and
\* to the publication floor it was admitted at (validateSourceCheckpointProvenance).
THEOREM RestartsAttribute == Spec => []CheckpointsResumable
<1>1. IInv => CheckpointsResumable BY Zenon DEF IInv, Attributed, CheckpointsResumable, ProvenanceValid
<1> QED BY <1>1, Invariance, PTL

\* No step takes back a finalized slot or manifest that was durably selected, whatever the
\* sources sign, replay or contradict (preflightFinalizedHead, ClearConflictLatch).
THEOREM SelectionExtends == Spec => ContentOnlyExtends
<1>1. IInv /\ [Next]_vars => [Extending]_vars BY Zenon, StepKeeps
<1> QED BY <1>1, Invariance, PTL DEF Spec, ContentOnlyExtends, Extending

\* A head whose sources were proved to contradict each other is latched before the poll
\* that proved it selects anything, and that poll leaves its selection alone
\* (selectFinalizedClaim, persistFinalizedConflicts).
THEOREM ContradictionsLatch == Spec => ContradictionLatched
<1>1. IInv /\ [Next]_vars => [Latching]_vars BY Zenon, StepKeeps
<1> QED BY <1>1, Invariance, PTL DEF Spec, ContradictionLatched, Latching
================================================================================
