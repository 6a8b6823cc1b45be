------------------------------ MODULE Retention ------------------------------
(***************************************************************************)
(* What the archive keeps: written heads, their pins, staged blobs, HTTP   *)
(* readers and the garbage collector over one shared blockstore.           *)
(*                                                                         *)
(* Heads publish roots; Need[r] is the set of blocks that marking the pins *)
(* of r's policy reaches.  A mutation Op[m] is a record: the head, the     *)
(* root it replaces, the root it publishes, the blocks it reads and writes *)
(* through the application blockstore, in order, and the blobs its rows    *)
(* name.  HeadIndex computes both from the engine's code; OpsCovered is    *)
(* what it guarantees about them.                                          *)
(*                                                                         *)
(* The collector takes the gate exclusively for a consistent cut, then     *)
(* marks and sweeps while traffic goes on (OnlineGC), sparing every block  *)
(* that a successful application operation touched since the cut; without  *)
(* an epoch coordinator it keeps the gate until the sweep is over.         *)
(***************************************************************************)
EXTENDS Naturals, Sequences

CONSTANTS
  Block,      \* multihashes
  Blob,       \* those of blobs
  Heads,      \* the written heads; each has one indexer, named after it
  Root,       \* the roots a head may publish
  InitRoot,   \* [Heads -> Root]
  Need,       \* [Root -> SUBSET Block]: what the root's pin policy retains
  Mutation,   \* the mutations
  Op,         \* [Mutation -> [head, from, to, steps, refs]]
  Puts,       \* the blob sets a blobs POST may carry
  Readers,    \* HTTP readers
  OnlineGC,   \* whether the collector has an epoch coordinator
  None

\* The blocks of a mutation's reads and writes.
Steps(m) == {Op[m].steps[k].block : k \in 1 .. Len(Op[m].steps)}

ASSUME ConstantTypes ==
  /\ Blob \subseteq Block
  /\ InitRoot \in [Heads -> Root]
  /\ Need \in [Root -> SUBSET Block]
  /\ Puts \subseteq SUBSET Blob
  /\ OnlineGC \in BOOLEAN
  /\ None \notin Root /\ None \notin Heads /\ None \notin Mutation
  /\ Op \in [Mutation -> [head : Heads, from : Root, to : Root, refs : SUBSET Blob,
                          steps : Seq([kind : {"get", "put"}, block : Block])]]

\* The guarantee of the head engine (CandidateCovered in HeadEngine).
ASSUME OpsCovered ==
  \A m \in Mutation : Need[Op[m].to] \subseteq Need[Op[m].from] \cup Steps(m)

VARIABLES
  \* durable
  blocks,     \* the blockstore
  catalog,    \* blobs whose versioned hash resolves to their CID
  durable,    \* RootStore: [Heads -> Root]
  ledger,     \* pin ledger: [Heads -> Root], the root whose pins the rows are
  staging,    \* the blobs with a staging row
  \* volatile
  target,     \* the engine the reconciler holds: [Heads -> Root]
  shown,      \* the registry readers load: [Heads -> Root]
  pc, mut, at, \* a head's mutation: where it is, which it is, its next step
  ing,        \* a blobs POST: [put, stored, named], or None
  rd,         \* the root a reader holds a lease on, or None
  gc,         \* "idle", "waiting", "mark" or "sweep"
  live,       \* the closure of the pins snapshotted at the cut
  touched,    \* multihashes touched since the cut
  \* the indexers' side
  acked       \* <<h, b>>: h's indexer was told b is stored, its refs are pending

store == <<blocks, touched>>
writer == <<pc, mut, at>>
roots == <<durable, target, shown>>
collector == <<gc, live>>
vars == <<blocks, catalog, durable, ledger, staging, target, shown, pc, mut, at, ing, rd,
          gc, live, touched, acked>>

-----------------------------------------------------------------------------
\* The gate (pinning/gate.go) and the epoch store (store/epoch.go)

Collecting == gc \in {"mark", "sweep"}

\* Slip: a waiting collector does not hold newcomers back.
CanEnterPast == Collecting => OnlineGC

\* Enter: the shared side is open unless a collector waits for or holds the
\* exclusive side.
CanEnter == gc # "waiting" /\ (Collecting => OnlineGC)

\* Slip: readers hold no lease on the gate.
DrainedOfWriters == \A h \in Heads : pc[h] = "idle" /\ ing[h] = None

\* The shared side is free.
Drained == /\ \A h \in Heads : pc[h] = "idle" /\ ing[h] = None
           /\ \A r \in Readers : rd[r] = None

\* What a successful application operation on the blocks B adds to the epoch.
\* Marked blocks are left out: the sweep asks only about unmarked ones.
Touch(B) == IF Collecting /\ OnlineGC THEN touched \cup (B \ live) ELSE touched

\* Slip: only writes are recorded in the epoch.
GetUntouched(b) == b \in blocks /\ UNCHANGED store

Get(b) == b \in blocks /\ touched' = Touch({b}) /\ UNCHANGED blocks
Put(b) == blocks' = blocks \cup {b} /\ touched' = Touch({b})

-----------------------------------------------------------------------------
\* Ingest: POST blobs (ingest.PutBlobs)

IngBegin(h) ==
  /\ ing[h] = None /\ CanEnter
  /\ \E S \in Puts : ing' = [ing EXCEPT ![h] = [put |-> S, stored |-> {}, named |-> {}]]
  /\ UNCHANGED <<store, catalog, roots, ledger, staging, writer, rd, collector, acked>>

IngStore(h) ==
  /\ ing[h] # None /\ ing[h].stored = ing[h].named
  /\ \E b \in ing[h].put \ ing[h].stored :
       /\ Put(b)
       /\ ing' = [ing EXCEPT ![h] = [put |-> @.put, stored |-> @.stored \cup {b}, named |-> @.named]]
  /\ UNCHANGED <<catalog, roots, ledger, staging, writer, rd, collector, acked>>

IngName(h) ==
  /\ ing[h] # None
  /\ \E b \in ing[h].stored \ ing[h].named :
       /\ catalog' = catalog \cup {b}
       /\ ing' = [ing EXCEPT ![h] = [put |-> @.put, stored |-> @.stored, named |-> @.named \cup {b}]]
  /\ UNCHANGED <<store, roots, ledger, staging, writer, rd, collector, acked>>

\* The ledger's batches: one synced write each, idempotent both ways.
AddBatch(pins) == staging' = staging \cup pins
RemoveBatch(pins) == staging' = staging \ pins

\* Staging.Pin, then the 200.
IngPin(h) ==
  /\ ing[h] # None /\ ing[h].named = ing[h].put
  /\ AddBatch(ing[h].put)
  /\ acked' = acked \cup ({h} \X ing[h].put)
  /\ ing' = [ing EXCEPT ![h] = None]
  /\ UNCHANGED <<store, catalog, roots, ledger, writer, rd, collector>>

\* An I/O error or a cancelled request; what was stored stays stored.
IngAbort(h) ==
  /\ ing[h] # None
  /\ ing' = [ing EXCEPT ![h] = None]
  /\ UNCHANGED <<store, catalog, roots, ledger, staging, writer, rd, collector, acked>>

-----------------------------------------------------------------------------
\* Mutations: Heads.ApplyRefs and Heads.Truncate

Locked(h) == pc[h] \in {"build", "persisted", "retargeted", "exposed"}

\* The request enters the gate, then waits for Heads.mu.
WrEnter(h) ==
  /\ pc[h] = "idle" /\ CanEnter
  /\ pc' = [pc EXCEPT ![h] = "entered"]
  /\ UNCHANGED <<store, catalog, roots, ledger, staging, mut, at, ing, rd, collector, acked>>

\* With Heads.mu, it builds a candidate over the head's durable root.
WrLock(h) ==
  /\ pc[h] = "entered" /\ \A g \in Heads : ~Locked(g)
  /\ \E m \in Mutation : /\ Op[m].head = h /\ Op[m].from = durable[h]
                         /\ mut' = [mut EXCEPT ![h] = m]
  /\ at' = [at EXCEPT ![h] = 1]
  /\ pc' = [pc EXCEPT ![h] = "build"]
  /\ UNCHANGED <<store, catalog, roots, ledger, staging, ing, rd, collector, acked>>

\* One read or write of the engine; a blob is read only if it resolves.
WrStep(h) ==
  /\ pc[h] = "build" /\ at[h] <= Len(Op[mut[h]].steps)
  /\ LET s == Op[mut[h]].steps[at[h]]
     IN \/ s.kind = "get" /\ (s.block \in Blob => s.block \in catalog) /\ Get(s.block)
        \/ s.kind = "put" /\ Put(s.block)
  /\ at' = [at EXCEPT ![h] = @ + 1]
  /\ UNCHANGED <<catalog, roots, ledger, staging, pc, mut, ing, rd, collector, acked>>

Built(h) == pc[h] = "build" /\ at[h] > Len(Op[mut[h]].steps)

\* commitCandidate: Roots.Put, then the reconciler's engine, then the registry.
WrPersist(h) ==
  /\ Built(h) /\ Op[mut[h]].to # Op[mut[h]].from
  /\ durable' = [durable EXCEPT ![h] = Op[mut[h]].to]
  /\ pc' = [pc EXCEPT ![h] = "persisted"]
  /\ UNCHANGED <<store, catalog, target, shown, ledger, staging, mut, at, ing, rd, collector, acked>>

\* Slip: the reconciler keeps the engine of the replaced root.
WrRetargetLost(h) ==
  /\ pc[h] = "persisted"
  /\ pc' = [pc EXCEPT ![h] = "retargeted"]
  /\ UNCHANGED <<store, catalog, roots, ledger, staging, mut, at, ing, rd, collector, acked>>

WrRetarget(h) ==
  /\ pc[h] = "persisted"
  /\ target' = [target EXCEPT ![h] = Op[mut[h]].to]
  /\ pc' = [pc EXCEPT ![h] = "retargeted"]
  /\ UNCHANGED <<store, catalog, durable, shown, ledger, staging, mut, at, ing, rd, collector, acked>>

WrExpose(h) ==
  /\ pc[h] = "retargeted"
  /\ shown' = [shown EXCEPT ![h] = Op[mut[h]].to]
  /\ pc' = [pc EXCEPT ![h] = "exposed"]
  /\ UNCHANGED <<store, catalog, durable, target, ledger, staging, mut, at, ing, rd, collector, acked>>

\* The request returns: Heads.mu and the gate are released.
Leave(h) ==
  /\ pc' = [pc EXCEPT ![h] = "idle"]
  /\ mut' = [mut EXCEPT ![h] = None]
  /\ at' = [at EXCEPT ![h] = 1]

\* The handoff: the head's own pins retain these blobs from here.
DropRefs(refs) == RemoveBatch(refs) \/ UNCHANGED staging

\* dropStaging once the rows are durable, or were already (a replay); its
\* failure is only logged.  Then the gate is left.
WrDrop(h) ==
  /\ pc[h] = "exposed" \/ (Built(h) /\ Op[mut[h]].to = Op[mut[h]].from)
  /\ DropRefs(Op[mut[h]].refs)
  /\ acked' = acked \ ({h} \X Op[mut[h]].refs)
  /\ Leave(h)
  /\ UNCHANGED <<store, catalog, roots, ledger, ing, rd, collector>>

\* A refusal, a missing blob, an I/O error or a publication that cannot be
\* built, all before the root is durable.
WrAbort(h) ==
  /\ pc[h] = "build" \/ (pc[h] = "entered" /\ \A g \in Heads : ~Locked(g))
  /\ Leave(h)
  /\ UNCHANGED <<store, catalog, roots, ledger, staging, ing, rd, collector, acked>>

-----------------------------------------------------------------------------
\* HTTP readers: a lease from the choice of a root to the last block read

RdBegin(r) ==
  /\ rd[r] = None /\ CanEnter
  /\ \E h \in Heads : rd' = [rd EXCEPT ![r] = shown[h]]
  /\ UNCHANGED <<store, catalog, roots, ledger, staging, writer, ing, collector, acked>>

\* The blocks the answer needs are read, each one touching the epoch.
RdRead(r) ==
  /\ rd[r] # None /\ Need[rd[r]] \subseteq blocks
  /\ touched' = Touch(Need[rd[r]])
  /\ UNCHANGED <<blocks, catalog, roots, ledger, staging, writer, ing, rd, collector, acked>>

RdEnd(r) ==
  /\ rd[r] # None
  /\ rd' = [rd EXCEPT ![r] = None]
  /\ UNCHANGED <<store, catalog, roots, ledger, staging, writer, ing, collector, acked>>

-----------------------------------------------------------------------------
\* The background reconciler: a pass makes a head's ledger rows the ones its
\* engine's root asks for.  Reconciler models the pass in detail; the reads it
\* may make of the index could only add to touched.

Reconcile(h) ==
  /\ CanEnter
  /\ ledger' = [ledger EXCEPT ![h] = target[h]]
  /\ UNCHANGED <<store, catalog, roots, staging, writer, ing, rd, collector, acked>>

-----------------------------------------------------------------------------
\* The collector (pinning/gc.go)

GcAsk ==
  /\ gc = "idle"
  /\ gc' = "waiting"
  /\ UNCHANGED <<store, catalog, roots, ledger, staging, writer, ing, rd, live, acked>>

\* DropExpired: the rows whose TTL has run out by now, and the indexers'
\* claims with them.
DropExpired(E) ==
  /\ RemoveBatch(E)
  /\ acked' = {a \in acked : a[2] \notin E}

\* Slip: the pins are snapshotted without reconciling first.
GcCutStale ==
  /\ gc = "waiting" /\ Drained
  /\ \E E \in SUBSET staging : DropExpired(E)
  /\ live' = staging' \cup UNION {Need[ledger[h]] : h \in Heads}
  /\ touched' = {}
  /\ gc' = "mark"
  /\ UNCHANGED <<blocks, catalog, roots, ledger, writer, ing, rd>>

\* prepare under the exclusive gate: every head is reconciled, expired staging
\* rows are dropped, the pins are snapshotted and the epoch begins.
GcCut ==
  /\ gc = "waiting" /\ Drained
  /\ ledger' = target
  /\ \E E \in SUBSET staging : DropExpired(E)
  /\ live' = staging' \cup UNION {Need[ledger'[h]] : h \in Heads}
  /\ touched' = {}
  /\ gc' = "mark"
  /\ UNCHANGED <<blocks, catalog, roots, writer, ing, rd>>

\* prepare fails after reconciling some heads, or before expiring the rows.
GcCutFail ==
  /\ gc = "waiting" /\ Drained
  /\ \E S \in SUBSET Heads : ledger' = [h \in Heads |-> IF h \in S THEN target[h] ELSE ledger[h]]
  /\ \E E \in SUBSET staging : DropExpired(E)
  /\ gc' = "idle"
  /\ UNCHANGED <<store, catalog, roots, writer, ing, rd, live>>

\* mark: every block of a written head's closure must be present.
GcMark ==
  /\ gc = "mark" /\ live \subseteq blocks
  /\ gc' = "sweep"
  /\ UNCHANGED <<store, catalog, roots, ledger, staging, writer, ing, rd, live, acked>>

\* DeleteCandidate of an unmarked key: spared if the epoch has touched it.
GcSweep(b) ==
  /\ gc = "sweep" /\ b \in blocks \ live
  /\ b \notin touched
  /\ blocks' = blocks \ {b}
  /\ UNCHANGED <<catalog, roots, ledger, staging, writer, ing, rd, collector, touched, acked>>

\* The run ends: the sweep is over or failed, or the mark failed.
GcEnd ==
  /\ Collecting
  /\ gc' = "idle" /\ live' = {} /\ touched' = {}
  /\ UNCHANGED <<blocks, catalog, roots, ledger, staging, writer, ing, rd, acked>>

-----------------------------------------------------------------------------
\* A crash keeps what is durable; the restarted daemon opens the durable roots.
Crash ==
  /\ target' = durable /\ shown' = durable
  /\ pc' = [h \in Heads |-> "idle"] /\ mut' = [h \in Heads |-> None] /\ at' = [h \in Heads |-> 1]
  /\ ing' = [h \in Heads |-> None]
  /\ rd' = [r \in Readers |-> None]
  /\ gc' = "idle" /\ live' = {} /\ touched' = {}
  /\ UNCHANGED <<blocks, catalog, durable, ledger, staging, acked>>

Init ==
  /\ blocks = UNION {Need[InitRoot[h]] : h \in Heads}
  /\ catalog = {} /\ staging = {}
  /\ durable = InitRoot /\ target = InitRoot /\ shown = InitRoot /\ ledger = InitRoot
  /\ pc = [h \in Heads |-> "idle"] /\ mut = [h \in Heads |-> None] /\ at = [h \in Heads |-> 1]
  /\ ing = [h \in Heads |-> None] /\ rd = [r \in Readers |-> None]
  /\ gc = "idle" /\ live = {} /\ touched = {}
  /\ acked = {}

Next ==
  \/ \E h \in Heads : \/ IngBegin(h) \/ IngStore(h) \/ IngName(h) \/ IngPin(h) \/ IngAbort(h)
                      \/ WrEnter(h) \/ WrLock(h) \/ WrStep(h) \/ WrPersist(h) \/ WrRetarget(h)
                      \/ WrExpose(h) \/ WrDrop(h) \/ WrAbort(h)
                      \/ Reconcile(h)
  \/ \E r \in Readers : RdBegin(r) \/ RdRead(r) \/ RdEnd(r)
  \/ GcAsk \/ GcCut \/ GcCutFail \/ GcMark \/ GcEnd
  \/ \E b \in Block : GcSweep(b)
  \/ Crash

Spec == Init /\ [][Next]_vars

\* Whatever holds the shared gate runs to completion, and a collector whose
\* turn has come takes its cut: goroutines are scheduled and every request
\* has a deadline.
Fairness ==
  /\ \A h \in Heads :
       /\ WF_vars(WrLock(h) \/ WrStep(h) \/ WrPersist(h) \/ WrRetarget(h) \/ WrExpose(h)
                    \/ WrDrop(h) \/ WrAbort(h))
       /\ WF_vars(IngStore(h) \/ IngName(h) \/ IngPin(h) \/ IngAbort(h))
  /\ \A r \in Readers : WF_vars(RdEnd(r))
  /\ WF_vars(GcCut \/ GcCutFail)

FairSpec == Spec /\ Fairness

-----------------------------------------------------------------------------
\* Properties

Ing == [put : Puts, stored : SUBSET Blob, named : SUBSET Blob]

\* Type invariant.
TypeOK ==
  /\ blocks \subseteq Block /\ catalog \subseteq Blob /\ staging \subseteq Blob
  /\ durable \in [Heads -> Root] /\ target \in [Heads -> Root] /\ shown \in [Heads -> Root]
  /\ ledger \in [Heads -> Root]
  /\ pc \in [Heads -> {"idle", "entered", "build", "persisted", "retargeted", "exposed"}]
  /\ mut \in [Heads -> Mutation \cup {None}] /\ at \in [Heads -> Nat]
  /\ ing \in [Heads -> Ing \cup {None}]
  /\ rd \in [Readers -> Root \cup {None}]
  /\ gc \in {"idle", "waiting", "mark", "sweep"}
  /\ live \subseteq Block /\ touched \subseteq Block
  /\ acked \subseteq Heads \X Blob

\* No collection ever removes a block that the pin policy of a published root
\* retains, whichever copy of the root is asked: the durable one a restart
\* opens, the reconciler's or the registry's.
RetainedPresent ==
  \A h \in Heads : Need[durable[h]] \cup Need[target[h]] \cup Need[shown[h]] \subseteq blocks

\* A reader that selected a root finds every block of it that was retained,
\* even after the root has been replaced and unpinned (reader_lease.go).
SnapshotReadable == \A r \in Readers : rd[r] # None => Need[rd[r]] \subseteq blocks

\* A blob with a staging row is in the store, so that marking it cannot fail
\* and the refs it waits for find it (staging.go).
StagedPresent == staging \subseteq blocks

\* When a candidate is complete, everything its root will retain is present,
\* although nothing pins it yet and a sweep may be running.
CandidatePresent == \A h \in Heads : Built(h) => Need[Op[mut[h]].to] \subseteq blocks

\* The mark of the pin snapshot never meets a missing block.
MarkComplete == Collecting => live \subseteq blocks

\* Somebody counts on block x: a copy of a root retains it, a mutation has
\* read or written it, a blobs POST has stored it, a reader's snapshot names
\* it or a staging row holds it.
InUse(x) ==
  \/ \E h \in Heads :
       \/ x \in Need[durable[h]] \/ x \in Need[target[h]] \/ x \in Need[shown[h]]
       \/ pc[h] = "build" /\ \E k \in 1 .. at[h] - 1 : x = Op[mut[h]].steps[k].block
       \/ ing[h] # None /\ x \in ing[h].stored
  \/ \E r \in Readers : rd[r] # None /\ x \in Need[rd[r]]
  \/ x \in staging

\* From the cut to the end of a collection, every block in use was marked at
\* the cut or touched since (the collection theorem of policy.go: an operation
\* is wholly before the cut and in M, or after it and in T).
Protected ==
  Collecting => \A x \in Block : x \in live \/ x \in touched \/ ~InUse(x)

\* The three copies of a head's root agree unless a mutation is between its
\* commit points, and then they differ by that mutation alone: Roots.Put, the
\* reconciler's engine and the registry move in this order (commitCandidate).
CommitOrder ==
  \A h \in Heads :
    /\ pc[h] \in {"idle", "entered"} => durable[h] = target[h] /\ target[h] = shown[h]
    /\ Locked(h) => /\ mut[h] \in Mutation
                    /\ Op[mut[h]].head = h
                    /\ at[h] \in 1 .. Len(Op[mut[h]].steps) + 1
                    /\ durable[h] = IF pc[h] = "build" THEN Op[mut[h]].from ELSE Op[mut[h]].to
                    /\ target[h] = IF pc[h] \in {"build", "persisted"} THEN Op[mut[h]].from
                                   ELSE Op[mut[h]].to
                    /\ shown[h] = IF pc[h] = "exposed" THEN Op[mut[h]].to ELSE Op[mut[h]].from

\* A waiting collector gets its cut however much traffic there is: Enter holds
\* new requests back and the ones inside leave (gate.go).
CutEventually == gc = "waiting" ~> gc # "waiting"

\* A blobs POST that was answered 200 promises that the blobs will still be
\* there when the refs arrive, until the staging TTL runs out (staging.go).
StagingPromise == \A a \in acked : a[2] \in blocks
==============================================================================
