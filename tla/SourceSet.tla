------------------------------- MODULE SourceSet -------------------------------
(***************************************************************************)
(* Following one logical archive from a set of independent writers         *)
(* (follow/source_*.go, follow/conflict_*.go and the serving transaction   *)
(* of follow/follow.go and server/heads.go).                               *)
(*                                                                         *)
(* Every source signs its own publications; a finalized head is arbitrated *)
(* among all of them by content, a mutable head belongs to one source.     *)
(* Two proved claims that contradict each other latch the head durably.    *)
(* A poll is four durable steps under the transition lock: channel floors, *)
(* conflict evidence, recovery of what a restart left dark, and the one    *)
(* batch that selects and serves.  A crash may fall between any two.       *)
(***************************************************************************)
EXTENDS FinalizedClaims, FiniteSets

CONSTANTS
  Source,       \* source identifiers, ordered
  FinHeads,     \* the finalized heads followed
  Mut,          \* the mutable head followed
  Boundary,     \* the finalized head that bounds it
  HandoffLocal, \* whether Boundary is the mutable head's handoff itself; otherwise it is
                \* a filtered overlay, and the handoff is a signed line that is not selected
  Docs,         \* the publications the writers sign: [src, rev, fin, mut]
  Records,      \* the IPNS records they publish: <<document, sequence>>
  Rosters,      \* the configured source sets, by revision: [Source -> SUBSET Heads]
  Legacy,       \* publications a single-source follower of this store may have left behind
  MaxFaults,    \* bound: crashes, failed commits, rejected claims and lost closures
  None

Heads == FinHeads \cup {Mut}
Covered(d, h) == IF h = Mut THEN d.mut ELSE d.fin[h].log # <<>>

\* validateAndCloneSourceSet, normalizeSourceConfigs: every head has a source, and
\* a mutable head exactly one.
RosterValid(roster) ==
  /\ roster \in [Source -> SUBSET Heads]
  /\ \A h \in FinHeads : \E s \in Source : h \in roster[s]
  /\ Cardinality({s \in Source : Mut \in roster[s]}) = 1

ASSUME SourceSetAssumption ==
  /\ Source \subseteq Nat /\ Mut \notin FinHeads /\ Boundary \in FinHeads /\ None \notin Docs
  /\ \A d \in Docs : /\ d.src \in Source /\ d.rev \in Nat \ {0} /\ d.mut \in BOOLEAN
                     /\ d.mut => Covered(d, Boundary)
  /\ \A r \in Records : r[1] \in Docs /\ r[2] \in Nat \ {0}
  /\ Rosters \in Seq([Source -> SUBSET Heads]) /\ \A i \in 1 .. Len(Rosters) : RosterValid(Rosters[i])
  /\ Legacy \subseteq Docs /\ MaxFaults \in Nat
  /\ None \notin [ver : {3, 4}, doc : Docs, sel : BOOLEAN] \cup [roster : Nat, by : SUBSET Docs]

VARIABLES
  marker,   \* durable: the roster revision activated last, 0 before the first
  aware,    \* durable: the marker's conflict-latch feature bit
  bound,    \* durable: the sources bound to their keys
  pubFloor, \* durable: per source, the publication admitted last
  seqFloor, \* durable: per source, the highest IPNS sequence observed
  cp,       \* durable: per head, the checkpoint [ver, doc, sel] or None
  latch,    \* durable: per finalized head, the active conflict evidence or None
  seqno,    \* durable: per finalized head, the sequence of the last latch
  cleared,  \* durable: per finalized head, the last sequence in the operator history
  pc,       \* "down", "resume", "idle" and the poll's steps
  got,      \* per source, what its channels resolved to: [doc, ch, seq, bad]
  docs,     \* the poll's admitted candidates: [Source -> Docs \cup {None}]
  pool,     \* the poll's proven observations: [FinHeads -> SUBSET Source]
  served,   \* registry: per finalized head, the claim adopted, or None
  mut,      \* registry: the mutable publication adopted, or None
  live,     \* registry: whether the mutable head's handoff proof holds
  quar,     \* heads quarantined in this process
  refused,  \* history: the registry refused a serving transaction as incoherent
  faults

durable == <<marker, aware, bound, pubFloor, seqFloor, cp, latch, seqno, cleared>>
registry == <<served, mut, live>>
poll == <<got, docs, pool>>
vars == <<marker, aware, bound, pubFloor, seqFloor, cp, latch, seqno, cleared, pc, got, docs, pool,
          served, mut, live, quar, refused, faults>>

Nothing == [doc |-> None, ch |-> "https", seq |-> 0, bad |-> FALSE]
NoDocs == [s \in Source |-> None]
NoPool == [h \in FinHeads |-> {}]
Allows(s, h) == h \in Rosters[marker][s]
Owner(i) == CHOOSE s \in Source : Mut \in Rosters[i][s]
Claim(c, h) == c.doc.fin[h]
Selected(h) == cp[h] # None /\ cp[h].ver = 4 /\ cp[h].sel

Stale(s, d) == pubFloor[s] # None /\ d.rev < pubFloor[s].rev
Equivocates(s, d) == pubFloor[s] # None /\ d.rev = pubFloor[s].rev /\ d # pubFloor[s]

--------------------------------------------------------------------------------
(* Activation and resume *)

\* A store is fresh, or was used by a single-source follower.
Init ==
  /\ marker = 0 /\ aware = FALSE /\ bound = {} /\ seqFloor = [s \in Source |-> 0]
  /\ \E d \in Legacy \cup {None} :
       /\ cp = [h \in Heads |-> IF d = None \/ (h = Mut /\ ~d.mut) THEN None
                                ELSE [ver |-> 3, doc |-> d, sel |-> TRUE]]
       /\ pubFloor = [s \in Source |-> IF d # None /\ s = d.src THEN d ELSE None]
  /\ latch = [h \in FinHeads |-> None] /\ seqno = [h \in FinHeads |-> 0]
  /\ cleared = [h \in FinHeads |-> 0]
  /\ pc = "down" /\ got = [s \in Source |-> Nothing] /\ docs = NoDocs /\ pool = NoPool
  /\ served = [h \in FinHeads |-> None] /\ mut = None /\ live = FALSE /\ quar = {}
  /\ refused = FALSE /\ faults = 0

\* validateConflictState, loadConflictLatches.
ConflictStateValid ==
  /\ aware <=> \E h \in FinHeads : seqno[h] # 0
  /\ \A h \in FinHeads :
       IF latch[h] # None THEN seqno[h] > 0 /\ cleared[h] = seqno[h] - 1 /\ latch[h].roster <= marker
       ELSE cleared[h] = seqno[h]

\* stageSourceSetActivation: the roster never rolls back.
Activates(i) == i >= marker

\* buildLegacySourceMigration: the floor a single-source follower left behind
\* becomes the floor of the source with its key, which the roster must name.
Migrates(i) == marker = 0 => \A s \in Source : pubFloor[s] # None => Rosters[i][s] # {}

\* New: the conflict state is loaded, a durable mutable head is not handed to
\* another source, and the bindings of sources to their keys only grow.
Start(i) ==
  /\ pc = "down"
  /\ ConflictStateValid /\ Activates(i) /\ Migrates(i)
  /\ cp[Mut] # None => cp[Mut].doc.src = Owner(i)
  /\ marker' = i
  /\ bound' = bound \cup {s \in Source : Rosters[i][s] # {}}
  /\ pc' = "resume"
  /\ UNCHANGED <<aware, pubFloor, seqFloor, cp, latch, seqno, cleared, poll, registry, quar, refused, faults>>

\* validateSourceCheckpointProvenance.
Provenance(h) ==
  /\ cp[h].doc.src \in bound
  /\ pubFloor[cp[h].doc.src] # None
  /\ ~(pubFloor[cp[h].doc.src].rev < cp[h].doc.rev)
  /\ pubFloor[cp[h].doc.src].rev = cp[h].doc.rev => pubFloor[cp[h].doc.src] = cp[h].doc
  /\ h = Mut => cp[h].doc.src = Owner(marker)

ProvenanceValid == \A h \in Heads : cp[h] # None /\ cp[h].ver = 4 => Provenance(h)

--------------------------------------------------------------------------------
(* The serving transaction *)

\* A plan adopts, restores or withdraws one head from a publication: a set of
\* plans is a function from heads to [doc, write, sel].
Planned(plans, h) == h \in DOMAIN plans /\ plans[h].sel
NextServed(plans) == [h \in FinHeads |-> IF h \in DOMAIN plans THEN plans[h].doc.fin[h] ELSE served[h]]

\* stageSourceAdmission: the floors of the admitted publications.
RaisedLater(admitted) == pubFloor
Raised(admitted) == [s \in Source |-> IF admitted[s] # None THEN admitted[s] ELSE pubFloor[s]]

\* AdoptBatch binds a mutable head's proof to a handoff entry of the registry
\* only at the exact root its publication names; with the handoff unselected the
\* signed line is witness enough.
Coherent(plans) ==
  Planned(plans, Mut) /\ HandoffLocal =>
    /\ Boundary \notin quar /\ NextServed(plans)[Boundary] # None
    /\ NextServed(plans)[Boundary].log = plans[Mut].doc.fin[Boundary].log

\* commitPlansWithStageFiltered and AdoptBatch: one batch persists the checkpoints
\* and the admitted floors, and one registry snapshot becomes visible.  A finalized
\* head that moves to another root starts a new lineage, and a mutable head bound
\* to the old one stops being servable.
Transact(plans, admitted) ==
  IF Coherent(plans)
  THEN /\ cp' = [h \in Heads |-> IF h \in DOMAIN plans /\ plans[h].write
                                 THEN [ver |-> 4, doc |-> plans[h].doc, sel |-> plans[h].sel] ELSE cp[h]]
       /\ pubFloor' = Raised(admitted)
       /\ served' = NextServed(plans)
       /\ mut' = IF Mut \notin DOMAIN plans THEN mut ELSE IF plans[Mut].sel THEN plans[Mut].doc ELSE None
       /\ live' = IF Mut \in DOMAIN plans THEN plans[Mut].sel
                  ELSE live /\ (HandoffLocal => NextServed(plans)[Boundary].log = served[Boundary].log)
       /\ UNCHANGED refused
  ELSE refused' = TRUE /\ UNCHANGED <<cp, pubFloor, registry>>

\* validateProspectiveMutableBoundary, validateResumedMutableBoundary: the boundary
\* is the one these plans select, or the durable one the registry serves.
Prospective(plans) ==
  IF Boundary \in DOMAIN plans THEN plans[Boundary].doc.fin[Boundary]
  ELSE IF /\ Selected(Boundary) /\ Boundary \notin quar /\ served[Boundary] # None
          /\ served[Boundary].log = Claim(cp[Boundary], Boundary).log
       THEN Claim(cp[Boundary], Boundary)
       ELSE None

BoundaryExact(plans) ==
  Planned(plans, Mut) => Prospective(plans) = plans[Mut].doc.fin[Boundary]

BoundaryCovered(plans) ==
  Planned(plans, Mut) =>
    Prospective(plans) # None /\ Covers(Prospective(plans), plans[Mut].doc.fin[Boundary])

Without(plans, hs) == [h \in (DOMAIN plans) \ hs |-> plans[h]]
OmitInvalid(plans) == Without(plans, IF BoundaryCovered(plans) THEN {} ELSE {Mut})

\* The heads that lost their closure, anchor or collection token are dropped, and
\* the boundaries are checked again over the survivors.
Survivors(plans, lost) ==
  LET closed == Without(OmitInvalid(plans), lost) IN OmitInvalid(closed)

Restore(h) == [doc |-> cp[h].doc, write |-> FALSE, sel |-> TRUE]

\* resumeSourceCheckpoints: every attributed checkpoint is served again, or none.
Resume ==
  /\ pc = "resume" /\ pc' = "idle"
  /\ \E plans \in {[h \in {h \in Heads : Selected(h)} |-> Restore(h)]} :
         IF ProvenanceValid /\ (Planned(plans, Mut) => Planned(plans, Boundary)) /\ BoundaryCovered(plans)
         THEN Transact(plans, NoDocs)
         ELSE UNCHANGED <<cp, pubFloor, registry, refused>>
  /\ UNCHANGED <<marker, aware, bound, seqFloor, latch, seqno, cleared, poll, quar, faults>>

\* A block could not be read: nothing is served, and the daemon goes on polling.
ResumeFails ==
  /\ pc = "resume" /\ pc' = "idle"
  /\ UNCHANGED <<durable, poll, registry, quar, refused, faults>>

--------------------------------------------------------------------------------
(* One poll *)

\* resolveSourceIPNS: a record below the sequence floor is not followed; the
\* sequence of any other counts even when its document is refused.
Followed(s, record) == record # None /\ record[2] >= seqFloor[s]

\* fresherCandidate: the higher revision; two publications of one are equivocation.
Disagree(candidates) == \E d, e \in candidates : d.rev = e.rev /\ d # e
Freshest(candidates) == CHOOSE d \in candidates : \A e \in candidates : e.rev <= d.rev

\* resolveSource, outside every lock: the HTTPS document and the IPNS record's are
\* checked against the floors as they stand now, and the fresher one is kept.
Resolve(s, https, record) ==
  LET ipns  == IF Followed(s, record) THEN record[1] ELSE None
      fresh == {d \in {https, ipns} \ {None} : ~Stale(s, d)}
      bad   == (\E d \in fresh : Equivocates(s, d)) \/ Disagree(fresh)
      best  == IF bad \/ fresh = {} THEN None ELSE Freshest(fresh)
  IN  /\ pc = "idle" /\ Rosters[marker][s] # {} /\ got[s] = Nothing
      /\ got' = [got EXCEPT ![s] = [doc |-> best, ch |-> IF best = https THEN "https" ELSE "ipns",
                                    seq |-> IF Followed(s, record) THEN record[2] ELSE 0, bad |-> bad]]
      /\ UNCHANGED <<durable, pc, docs, pool, registry, quar, refused, faults>>

\* commitSourceObservations: the candidate left of a result at the locked floors.
Current(s) == IF got[s].ch = "ipns" /\ got[s].seq < seqFloor[s] THEN None ELSE got[s].doc
Bad(s) == got[s].bad \/ (Current(s) # None /\ Equivocates(s, Current(s)))

\* quarantineMutableEquivocationForSourceLocked: an equivocating source loses its
\* mutable head.
Caught == {Mut} \cap UNION {Rosters[marker][s] : s \in {s \in Source : Bad(s)}}

\* refuseQuarantinedSourceDocument: a document that still publishes a quarantined
\* head is refused whole.
Usable(s) ==
  /\ Current(s) # None /\ ~Bad(s) /\ ~Stale(s, Current(s))
  /\ \A h \in quar \cup Caught : ~(Allows(s, h) /\ Covered(Current(s), h))

\* preflightFinalizedHead, up to the arbitration: the claims whose proof could be
\* read (all but the rejected ones).
Claims(s) == {h \in FinHeads : Allows(s, h) /\ Covered(Current(s), h)}
Proved(s, rejected) == {h \in Claims(s) : latch[h] = None /\ <<s, h>> \notin rejected}

\* omitSourcesWithOnlyRejectedFinalizedClaims: nothing is left of the document.
Omitted(s, rejected) ==
  /\ Claims(s) # {} /\ \A h \in Claims(s) : latch[h] = None /\ <<s, h>> \in rejected
  /\ ~(Allows(s, Mut) /\ Current(s).mut)

\* stageSourceIPNSSeq: what was observed of a source's name never lowers its floor.
StagedSeq(s) == IF got[s].seq > seqFloor[s] THEN got[s].seq ELSE seqFloor[s]

\* The first half of admitSourceResults, under the transition lock: the channel
\* floors are raised durably whatever becomes of the documents, and the publication
\* floors are read again.
Observe(rejected) ==
  LET admitted == {s \in Source : Usable(s) /\ ~Omitted(s, rejected)}
  IN  /\ pc = "idle" /\ pc' = "observed"
      /\ seqFloor' = [s \in Source |-> StagedSeq(s)]
      /\ docs' = [s \in Source |-> IF s \in admitted THEN Current(s) ELSE None]
      /\ pool' = [h \in FinHeads |-> {s \in admitted : h \in Proved(s, rejected)}]
      /\ got' = [s \in Source |-> Nothing]
      /\ quar' = quar \cup Caught
      /\ live' = (live /\ Mut \notin Caught)
      /\ faults' = IF rejected = {} THEN faults ELSE faults + 1
      /\ UNCHANGED <<marker, aware, bound, pubFloor, cp, latch, seqno, cleared, served, mut, refused>>

Observed(h) == [s \in pool[h] |-> docs[s].fin[h]]

ParticipantsOfLastGood(h) ==
  LET obs == Observed(h)
  IN  IF /\ Winners(obs) # {} /\ cp[h] # None
         /\ Relation(obs[Representative(obs)], Claim(cp[h], h)) = "conflict"
      THEN Winners(obs) ELSE {}

\* What the arbiter and the continuity check prove against a head: the sources
\* whose claims contradict each other, or the winners the checkpoint contradicts.
Participants(h) ==
  LET obs == Observed(h)
      pairs == ConflictPairs(obs)
      winners == Winners(obs)
  IN  IF pairs # {} THEN {p[1] : p \in pairs} \cup {p[2] : p \in pairs}
      ELSE IF /\ winners # {} /\ cp[h] # None
              /\ Relation(obs[Representative(obs)], Claim(cp[h], h)) = "conflict"
           THEN {s \in winners : Relation(obs[Representative(obs)], obs[s]) = "equivalent"}
      ELSE {}

\* stageConflictLatch, of every head hit: the evidence names the active roster, the
\* sequence goes up, and the marker becomes one that only a latch-aware build opens.
StageLatches(hit) ==
  /\ latch' = [h \in FinHeads |-> IF h \in hit
                  THEN [roster |-> marker, by |-> {docs[s] : s \in Participants(h)}] ELSE latch[h]]
  /\ seqno' = [h \in FinHeads |-> IF h \in hit THEN seqno[h] + 1 ELSE seqno[h]]
  /\ aware' = (aware \/ hit # {})

\* persistFinalizedConflicts: every new latch and the exact publication floors of
\* its participants in one batch, before anything that can fail.
Latch ==
  LET hit == {h \in FinHeads : latch[h] = None /\ Participants(h) # {}}
      signers == UNION {Participants(h) : h \in hit}
  IN  /\ pc = "observed" /\ pc' = "latched"
      /\ StageLatches(hit)
      /\ pubFloor' = Raised([s \in Source |-> IF s \in signers THEN docs[s] ELSE None])
      /\ UNCHANGED <<marker, bound, seqFloor, cp, cleared, poll, registry, quar, refused, faults>>

\* restoreDarkSourceCheckpoints: what a restart left dark is served again from the
\* durable selection before anything fresh is planned; a refusal ends the poll.
Dark(h) == Selected(h) /\ h \notin quar /\ (IF h = Mut THEN mut # cp[h].doc ELSE served[h] # Claim(cp[h], h))

Recover(lost) ==
  /\ pc = "latched"
  /\ \E plans \in {Survivors([h \in {h \in Heads : Dark(h)} |-> Restore(h)], lost)} :
       IF ~ProvenanceValid THEN pc' = "idle" /\ UNCHANGED <<cp, pubFloor, registry, refused>>
       ELSE /\ Transact(plans, NoDocs)
            /\ pc' = IF Coherent(plans) THEN "recovered" ELSE "idle"
  /\ faults' = IF lost = {} THEN faults ELSE faults + 1
  /\ UNCHANGED <<marker, aware, bound, seqFloor, latch, seqno, cleared, poll, quar>>

FinalizedPlanFresh(h) ==
  IF latch[h] # None \/ Winners(Observed(h)) = {} THEN None
  ELSE [doc |-> docs[Representative(Observed(h))], write |-> TRUE, sel |-> TRUE]

\* preflightFinalizedHead after arbitration: only a proved extension of the durable
\* claim is adopted; an equal or ahead durable claim is kept, with its source.
FinalizedPlan(h) ==
  LET obs == Observed(h)
      doc == docs[Representative(obs)]
      rel == IF cp[h] = None THEN "left" ELSE Relation(doc.fin[h], Claim(cp[h], h))
  IN  IF latch[h] # None \/ Winners(obs) = {} THEN None
      ELSE IF rel = "left" \/ (rel = "equivalent" /\ ~Selected(h)) THEN [doc |-> doc, write |-> TRUE, sel |-> TRUE]
      ELSE IF rel \in {"equivalent", "right"} /\ Dark(h) THEN Restore(h)
      ELSE None

\* preflightMutableHead: an outage keeps the last good one, an authenticated
\* omission withdraws it, and every new revision is adopted again.
MutablePlan ==
  LET doc == docs[Owner(marker)]
  IN  IF doc = None THEN None
      ELSE IF ~doc.mut THEN [doc |-> doc, write |-> TRUE, sel |-> FALSE]
      ELSE IF mut = doc /\ Selected(Mut) /\ cp[Mut].doc = doc THEN None
      ELSE [doc |-> doc, write |-> TRUE, sel |-> TRUE]

Plan(h) == IF h = Mut THEN MutablePlan ELSE FinalizedPlan(h)

\* The second half of admitSourceResults: every head's plan, the coherent subset of
\* them, and the floors of every admitted document in one batch.
Commit(lost) ==
  /\ pc = "recovered" /\ pc' = "idle"
  /\ \E plans \in {Survivors([h \in {h \in Heads : Plan(h) # None} |-> Plan(h)], lost)} : Transact(plans, docs)
  /\ docs' = NoDocs /\ pool' = NoPool
  /\ faults' = IF lost = {} THEN faults ELSE faults + 1
  /\ UNCHANGED <<marker, aware, bound, seqFloor, latch, seqno, cleared, got, quar>>

--------------------------------------------------------------------------------
(* Faults and the operator *)

\* The batch, an external retention step or a gate check fails as a whole.
CommitFails ==
  /\ pc \in {"latched", "recovered"} /\ faults < MaxFaults
  /\ pc' = "idle" /\ docs' = NoDocs /\ pool' = NoPool /\ faults' = faults + 1
  /\ UNCHANGED <<durable, got, registry, quar, refused>>

\* quarantine: a served body did not verify.
Quarantine(h) ==
  /\ pc = "idle" /\ h \notin quar
  /\ IF h = Mut THEN mut # None ELSE served[h] # None
  /\ quar' = quar \cup {h}
  /\ live' = (live /\ h # Mut /\ ~(HandoffLocal /\ h = Boundary))
  /\ UNCHANGED <<durable, pc, poll, served, mut, refused, faults>>

Crash ==
  /\ pc # "down" /\ faults < MaxFaults
  /\ pc' = "down" /\ faults' = faults + 1
  /\ got' = [s \in Source |-> Nothing] /\ docs' = NoDocs /\ pool' = NoPool
  /\ served' = [h \in FinHeads |-> None] /\ mut' = None /\ live' = FALSE /\ quar' = {}
  /\ UNCHANGED <<durable, refused>>

\* ClearConflictLatch, with the daemon stopped: the evidence moves to the history.
\* No claim is selected by it and no floor moves.
Clear(h) ==
  /\ pc = "down" /\ latch[h] # None
  /\ latch' = [latch EXCEPT ![h] = None]
  /\ cleared' = [cleared EXCEPT ![h] = seqno[h]]
  /\ UNCHANGED <<marker, aware, bound, pubFloor, seqFloor, cp, seqno, pc, poll, registry, quar, refused, faults>>

Losses == IF faults < MaxFaults THEN SUBSET Heads ELSE {{}}
Rejections == IF faults < MaxFaults THEN {{}} \cup {{p} : p \in Source \X FinHeads} ELSE {{}}

Next ==
  \/ \E i \in 1 .. Len(Rosters) : Start(i)
  \/ Resume
  \/ ResumeFails
  \/ \E s \in Source, d \in Docs \cup {None}, r \in Records \cup {None} :
       /\ d # None => d.src = s
       /\ r # None => r[1].src = s
       /\ Resolve(s, d, r)
  \/ \E rejected \in Rejections : Observe(rejected)
  \/ Latch
  \/ \E lost \in Losses : Recover(lost) \/ Commit(lost)
  \/ CommitFails
  \/ \E h \in Heads : Quarantine(h)
  \/ Crash
  \/ \E h \in FinHeads : Clear(h)

\* The daemon is restarted, and its poll loop goes on.  Every state enables exactly one
\* of Start, Resume, Observe({}), Latch, Recover({}) and Commit({}), all of which move pc,
\* and the other steps that move it are bounded: weak fairness of those six is this.
Progress == []<><<pc' # pc>>_vars

Spec == Init /\ [][Next]_vars /\ Progress

--------------------------------------------------------------------------------
(* Properties *)

\* What the follower has durably selected is only ever extended: no crash, restart,
\* roster change, replayed document, latch or cleared latch takes a finalized slot or
\* manifest back (preflightFinalizedHead's continuity check, ClearConflictLatch).
ContentOnlyExtends ==
  [][\A h \in FinHeads : cp[h] # None => cp'[h] # None /\ Covers(Claim(cp'[h], h), Claim(cp[h], h))]_vars

\* validateSourceCheckpointProvenance never refuses what the follower itself wrote:
\* wherever a crash falls, every attributed checkpoint is covered by the publication
\* floor of a bound source, so a restart can serve it again.
CheckpointsResumable == marker > 0 => ProvenanceValid

\* A poll that proved two sources' claims contradictory ends with the head latched
\* and its selection untouched (selectFinalizedClaim, persistFinalizedConflicts).
ContradictionLatched ==
  [][\A h \in FinHeads : pc = "recovered" /\ ConflictPairs(Observed(h)) # {} =>
        latch'[h] # None /\ cp'[h] = cp[h]]_vars

\* Whatever was durably selected and is not quarantined is served again after every
\* crash and every failed resume, with all writers unreachable; only a mutable head whose
\* boundary is quarantined may stay dark, until a restart ends the quarantine
\* (restoreDarkSourceCheckpoints, preflightDarkSourceCheckpoints).
SelectionServed == []<>(\A h \in Heads : Dark(h) => h = Mut /\ Boundary \in quar)

\* No serving transaction is refused as a whole: omitting the incoherent mutable
\* plans leaves one that the registry accepts, so that a mutable head cannot abort
\* the finalized heads beside it (source_poll.go, omitInvalidProspectiveMutableBoundaries).
BatchesAccepted == ~refused
================================================================================
