# Formal models of bloar

TLA+ specifications of the daemons in this repository (`src/`), model checked with TLC
and, where the provers reach, proved with TLAPS for every value of the constants. The
source is the reference: every definition of a component module translates the lines
that `PROJECT.json` maps it to.

## The system

bloar archives EIP-4844 blobs in a content-addressed store. For each *head* (a named
selection of blobs) it keeps an index from slots to versioned hashes whose nodes and
blobs are blocks named by hash; a head's *root* names everything it answers. Indexers
post blobs and then the rows that refer to them; a collector deletes what no pin policy
retains; a writer signs *publication documents* that name its roots, and IPNS records
that name the documents; followers admit documents, fetch what they name and serve it.

| Part | What it keeps | What makes it hard | Modules |
|---|---|---|---|
| `archive/`, `core/`, `schema/` | the index of one head | directory growth and shrinking, seals, replay, touching what a rewind retains again | `HeadIndex`, `HeadEngine`, `BlobLog` |
| `store/epoch.go` | blocks and the collection epoch | an operation racing a deletion | `BlockEpochs`, `ProtectedStore` |
| `ingest/`, `catalog/`, `pinning/`, `server/` (commits, leases) | staging and pin rows, gate, roots | the consistent cut, commit order, crashes between any two writes | `Retention` |
| `pinning/reconcile.go` | registrations and ledger rows | add before remove, lost wake-ups, withdrawals | `Reconciler` |
| `server/` (generations, manifests) | the registry and its lineage | compare-and-swap, retries after a lost answer | `HeadRegistry` |
| `index/` | cursors, the selected branch | reorganizations, feeds with gaps, stale anchors and prefetches | `BeaconChain`, `BeaconIndexer`, `UnfinalizedTracker`, `ChainIndexer` |
| `server/publications.go`, `p2p/ipns.go` | revision and sequence counters | failures and restarts between two writes | `Publications` |
| `follow/` | checkpoints, floors, latches | replays, racing polls, several writers, crashes | `Follower`, `FollowSync`, `FinalizedClaims`, `SourceSet`, `WriterPromotion` |
| `replica/`, `cmd/bloar-kubo-replica` | ledger of pins, health gate | remote calls that fail after they took effect | `ReplicaController`, `ReplicaRuntime` |
| `p2p/edge`, `p2p/pointerhint`, `cmd/bloard/pointer_hints.go` | floors, schedules of DHT pointers | late requests, half-done replacements | `EdgeRelay`, `PointerSchedule`, `PointerHints` |
| `p2p/identity.go`, `p2p/rendezvous_service.go`, `server/public_read_limiter.go` | key file; rounds and dials; token buckets | power loss and racing starts; signals lost in one slot; cancellation | `IdentityFile`, `Rendezvous`, `ReadLimiter` |

## Modules

Three compositions put components together: `Retention` (the write path, readers and
the collector over one store), `WriterNode` (registry, indexers, tracker and manifest
publisher over one chain) and `ReaderNode` (publisher, edge, follower, collector, sync
worker, replica, hints, promotion and the services of a host). The `MC*` modules hold
finite instances. In the two node compositions a *site*, chosen in `Init`, says which
parts are deployed and which faults happen there (`faulty`, at most `limit` of them); one
run explores all sites. The proof modules are `RetentionProofs`, `BlockEpochsProofs`,
`ReconcilerProofs` and `SourceSetProofs`, and for the reader node `RelayProofs`,
`AdoptionProofs` and `HostProofs`, whose lemmas are about components, and `FollowerProofs`,
which puts them together.

### HeadIndex, HeadEngine, BlobLog

A CID is modelled by the value it addresses, so equal blocks have equal CIDs and nothing
else does. A mutation returns the next state together with the blocks it writes (`puts`)
and the ones it reads through the application blockstore (`gets`); reads that the
decoded-node cache may answer are not counted, which is the pessimistic choice for
retention. Slots, ordinals, path digits, canonical depth and page counts are computed as
in `arith.go`; slot numbers are naturals (the 64-bit edges of `capacity` and
`canonicalDepth` are not reached). `Enumerate` contains the checks a loader makes.
`Canonical` compares the state with `FreshBuild`, a top-down definition of the index a
single apply would build, written independently of the incremental code. `ImplementsLog`
is the refinement of `BlobLog` under `rows <- [x |-> Lookup(st, x).vhs]`.

### Retention

`Need[r]` is the set of blocks that marking the pins of root `r` reaches and `Op[m]` the
reads and writes of mutation `m` in order. The assumptions state their types and
`OpsCovered`: what the new root retains was retained by the old one or went through the
application blockstore in the mutation. That is `CandidateCovered`, which `head_engine`
checks of the engine in every pin mode; `MCRetention` lists concrete values and has TLC
evaluate that they are the ones `HeadIndex` computes.

Each request is a sequence of actions: enter the gate, take `Heads.mu`, read or write one
block at a time, `Roots.Put`, retarget the reconciler, expose the registry entry, drop
staging. The gate is Go's `RWMutex`: a waiting collector holds newcomers back and gets
the exclusive side when it is drained. Readers hold the shared side from the choice of a
root to the last block read. The collector reconciles, expires any subset of the staging
rows, snapshots the pins, begins the epoch and releases the gate (`OnlineGC`), or keeps
the gate for the whole run. A crash may happen anywhere and keeps what is durable. The
mark's walk is one step because nothing in it changes state for written heads; `touched`
leaves out marked blocks because the sweep asks only about unmarked ones.

### BlockEpochs, ProtectedStore

`Retention` takes a read with its touch, a write with its touch and a deletion with its
check as single steps. `BlockEpochs` takes them apart: the lifecycle `RWMutex`, the shard
locks that exist only during an epoch and that `PutMany` takes in ascending order, the
store access (block by block for a batch, which may fail half-way), the touch, and the
unlock. A collector keeps its handle after `End` and may try to use it. `proof` is a
history variable: the generation at which an operation last found or stored a key.
`ProtectedStore` is the promise: accesses are atomic, and a collection sweeps no block
found or stored since it began. `ImplementsStore` is the refinement under
`stored <- base`, `collecting <- active # 0`, `known <- {k : proof[k] = nextID}`.

### Reconciler

The loop of `Run`, `Notify` split into its lock section and its channel send, and a pass
split into ledger writes. A pass reads the registration once and then writes; swaps go on
meanwhile. The collector's and the start-up passes exclude the loop's through the gate.
Failures of enumeration, the manifest lookup or a ledger write end a pass anywhere. After
a restart written heads are registered with their durable root, under the policies of a
possibly edited configuration; followed heads are registered again when the follower
resumes them. `safe` is a history variable, the last complete pin set of each head; a
restart takes from it the rows that the edited policy asks to reach less (`Narrows`). The
code drains names in sorted order and the model in any order.

### WriterNode

`BeaconChain` is the external chain: a tree of blocks, a head that reorganizes above
finality and a finalized block that moves to descendants. `HeadRegistry` holds an ALL
head, a filtered head bound to its manifest tip and the generation record of a mutable
head. A head is durable before it is visible, and what differs from the disk in a running
process is the lineage token and, for a mutable head, the generation its registry entry
serves (`entry`): an exact retry works on the copy of the selector it read before the
registry lock (`RetryGeneration`). `BeaconIndexer` plans, seeds, walks (anchored or mirroring), prefetches
and posts; `UnfinalizedTracker` makes every read of a step a request of its own;
`ChainIndexer` has the filtered indexer and the manifest publisher. Answers are lost and
requests repeated, processes and the node restart, the operator truncates a head.

### SourceSet, FinalizedClaims

Following one archive from several writers. A claim about a finalized head is the two
histories it commits to (slots and manifests); `FinalizedClaims` compares and arbitrates
claims as `equivalence.go` and `arbitration.go` do. A poll is four durable steps under the
transition lock: channel floors, conflict evidence, recovery of what a restart left dark,
and the batch that selects and serves. A crash may fall between any two. The operator
changes the roster and clears latches; that the operator has inspected the evidence being
cleared is taken as given. A head may fail to resume or be quarantined at any time.
A latch keeps all participants where the durable record keeps
one canonical pair.

### ReaderNode

`Publications` builds documents (`[n, auth, rev, fin, mut]`, a *line* being a head's
coverage or root) and puts records, in steps or, at sites about the reader, at once.
`Follower` resolves any past document over both channels, judges it again under the
transition lock, preflights, protects, commits in one batch and then serves; two polls may
race, because `Poll` is exported, although `RunAfterResume` makes one. `FollowSync` runs
the online collector against the sync worker and the walk that protects an adoption: a
closure is an index block and a blob, everything a cut does under the gate is one step,
and a mark heals a followed head's missing block and fails closed on a written head's. A
scrub lists the keys it will read and holds only the maintenance lock. `ReplicaController`
runs Prepare, Commit and Recover on a copy of the ledger; each Kubo call may fail before
or after it took effect. `ReplicaRuntime` adds the audit, the health gate and a gateway
request. `WriterPromotion` makes the followed head a written one.

`EdgeRelay` has the writer's client and the edge: provide the document, keep the record
as the durable floor, put it, then schedule its pointers; a caller that gave up does not
take its request back. `PointerSchedule` is the schedule, the retained documents and the
provider's worker; `PointerHints` the daemon's owner of such a schedule, which hears from
the follower (a document admitted, a head quarantined by a poll or by the sync worker) and
from the registry. What the registry can render (`Renders`) is what is adopted and not
quarantined, and a live head only while its handoff is rendered too and still of the
lineage the live head was bound to (`adrift` says that it is not). `IdentityFile` models inodes, names, `flock`s and what
survives a power loss. `Rendezvous` keeps of time what it is compared for: a task is due,
due again soon, or later. `ReadLimiter` counts time in ticks and both buckets refill one
token a tick.

## Runs

| Run | Shows | Bounds |
|---|---|---|
| `head_engine` | `Canonical`, `PolicyRetains`, `CandidateCovered`, `ImplementsLog` | 8 slots, windows of 2, fan-out 2: four windows give directory depths 0 to 2 with growth and shrinking; two kinds of rows |
| `retention_online` | `RetainedPresent`, `SnapshotReadable`, `CandidatePresent`, `Protected` | one window-policy head over three roots, apply, replay and a truncation that re-retains a blob; one reader; unbounded collections and crashes |
| `shared_blob` | `CutEventually`, with two heads that share a blob | two heads, a collector that keeps the gate |
| `reconciler` | `CrashSafe`, `CutExact`, `Converges` | a written and a followed head, all pin modes and any edit of them at a restart, two registrations, one fault |
| `block_epochs` | `NoCircularWait`, `ImplementsStore`, `Returns` | two keys on two shards, two goroutines, one collector, one epoch; the theorems cover any number |
| `source_set` | `CheckpointsResumable`, `ContentOnlyExtends`, `ContradictionLatched`, `SelectionServed` | two writers, six publications (lagging, ahead, branch, equivocation, withdrawal), three rosters; two faults, not counting failed resumes and quarantines |
| `writer_node` | `NoFalseAbsence`, `LiveViewIsAChain`, `FilterIsItsManifest` | a chain with a missed slot and a fork; seven sites; batches of 2; up to two faults; two lost answers, which a retry overtaken by the next generation needs, at a site whose chain has one branch |
| `writer_progress` | `AllReachesFinality`, `TipIsServed` under fairness | five sites with fewer faults, no lost answers |
| `reader_node` | sixteen properties, by part below | fourteen sites, three documents, up to three faults |
| `staging_promise`, `source_boundary`, `replica_pending` | violations, see findings | the smallest site that shows each |

`reader_node`, by part: publisher `RecordsOrdered`; admission `ServedIsDurable`,
`OneDocument`, `Resumable`, `NoReplayedRecord`, `CoverageStays`; sync and collection
`FetchedIsHeld`; replica `NoOrphanPins`, `LeasedStaysPinned`; edge and hints
`RelayNeverRegresses`, `NoLostWakeup`, `HintsMatchRegistry`; promotion `NeverRewound`;
identity `IdentityStays`; rendezvous `RecordsFollowAddresses`; limiter `RetryIsHonest`.

Some properties are stated in the modules and proved, and no run checks them: the type
invariants and `NoLostWake`, `ProofHolds`, `CommitOrder`, `StagedPresent`, `MarkComplete`,
`DocumentsOrdered` (of sites whose database is not restored from a backup),
`FreshIsProvided`, `CompleteIsVerified`, `ScrubTellsTrue`, `HealthIsCurrent`,
`PromotedIsHeld`, `NeverBlank`, `LiveTempKept`, `DialsSpared`, `ClosedIsQuiet` and
`RefusalsSpendNothing`.

Bounds are enough because the interesting cases need few actors: each retention property
is about one block, one collection and the traffic that meets it; a replay needs two
documents and a refusal a third; a lost update needs two writers. Each `Max...` constant
bounds one counter and is named in the module that declares it. The theorems below remove
the bounds for what they cover.

Fairness. `Retention`: what is inside the gate runs to completion (requests have deadlines
and may abort) and a collector whose turn has come takes it; nothing is assumed of
newcomers or of crashes stopping. `Reconciler`: the loop and its ticker, a notifier
between its two steps and a pass over every head are scheduled; swaps, collections and
faults are bounded and not forced. `BlockEpochs`: a goroutine inside the lifecycle lock
goes on, store accesses return and enumerations are drained or cancelled; a shard lock is
granted to whoever keeps waiting for it (`sync.Mutex` hands over to a starving waiter).
`WriterNode`: indexers, tracker and filter poll for ever under their supervisor and the
server finishes what it is asked; nothing makes the chain move or an operator act.
`SourceSet`: the daemon is restarted and its poll loop goes on.

## Findings

* `staging_promise`: staging rows are keyed by CID alone; the refs of one head release the
  row another head's pending refs rely on (`pinning/staging.go:148`).
* `source_boundary`: with the handoff head itself followed from two writers, the mutable
  plan passes the boundary filter but not the registry's pair check, which refuses the
  whole serving transaction (`server/heads.go:1466`).
* `replica_pending`: when the promotion of a served generation fails, preparing the next
  one retires the pending pin and unpins what is served (`replica/controller.go:239`).

Observed while modelling, without a run: a policy changed away from `full` rewrites the
recursive root pin to a direct one before the other pins exist (`pinning/reconcile.go:486`),
so a crash between the two does leave live blocks unpinned, against the comment at
`pinning/reconcile.go:364`, until the start-up pass or the collector's own pass, which come
before any mark; `CrashSafe` excepts the rows such an edit narrows, and only those. An exact
retry that read the selector of generation N before N + 1 was committed and takes the lock
after can expose N again in the registry (`server/heads.go:2005`), if the finalized head
still is N's handoff; the selector stays at N + 1, the status then says that it is not
exposed, and the tracker's next retry heals it. `LiveViewIsAChain` holds meanwhile. A live
head whose finalized boundary is quarantined stays dark, as `follow/source_poll.go:453` says,
and `SelectionServed` excepts it. Also: an anchored indexer whose batch is
no longer than a run of missed slots commits nothing; after a truncation and replay of the
ALL head in one process the mutable head stays dark until its source changes or the node
restarts; a quarantined mutable head holds back whole documents until a restart or its
withdrawal; a rendezvous pass cut off by its timeout between two keys counts as good until
the next interval.

## Proofs

All theorems hold for every value of the constants that satisfies the named assumptions.

*Retention.* `RetentionProofs` proves `[]TypeOK`, `[]CommitOrder`, `[]RetainedPresent`,
`[]SnapshotReadable`, `[]StagedPresent`, `[]CandidatePresent`, `[]MarkComplete` and
`[]Protected` for any heads, roots, mutations and readers, online or not. The invariants are
not inductive alone. `Inv` conjoins the type invariant, `CommitOrder`, the order of a POST's
writes (`IngOrder`), the fact that nobody is inside the gate when a collector holds it
exclusively (`Quiet`), `Present` (every block in use is in the store), `MarkComplete` and
`Covered` (`Protected`, stated over the set `Used`; `CoveredProtected` shows they agree). An
application step that is *careful* (it keeps blocks, and every block that becomes in use was
in use before, or is present and, during an epoch, marked or touched) preserves `Present`
and `Covered`; every action of the traffic is careful (`TrafficCareful`, where `OpsCovered`
is used for the commit); the collector's own steps preserve them because the cut finds
nobody inside and the sweep removes only blocks neither marked nor touched.

*Epoch blockstore.* `BlockEpochsProofs` proves `[]TypeOK`, `[]ProofHolds`,
`[]NoCircularWait` and the refinement `ImplementsStore` for any keys, shards, goroutines and
collectors. Its `Inv` says that from its first access to its touch an operation owns the
shards of its keys (`AppOK`), that a deletion owns the candidate's shard and a candidate
past the check is untouched (`ColOK`), and that during an epoch every presence proof is
touched or pending in some operation (`Accounted`). `CandidateUnproved` is the heart: a
proof of the candidate would be touched, which the check excluded, or pending in an
operation that owns the shard the deletion owns. That `Retention`'s store is
`ProtectedStore` is by reading: the two are not composed. For `NoCircularWait` the invariant
is `LockOrder`: the shards an operation has lie below those it is missing, and a deletion
that waits has none. In a circle of waiters, the owner of the last shard waited for would
wait for a later one.

*Reconciler.* `ReconcilerProofs` proves `[]TypeOK`, `[]NoLostWake`, `[]CrashSafe` and
`[]CutExact` for any heads, roots, policies and faults. Marked heads are `Awaited` also
between the loop's receive and its take. For `CrashSafe` each row of the last complete pin
set is still in the ledger or rewritten to one that reaches as much (`Covered`), because the
policy in force does not narrow it (`Asked`) and the pass under way works for this policy
(`Working`). Configurations may be edited in any way; `FlagAssumption` says that one policy
gives each purpose one flag, as `Desired` does. For `CutExact`, under the exclusive gate no swap is in progress and every head neither left
nor under way is exact (`Flushing`).

*Source set.* `SourceSetProofs` proves `[]CheckpointsResumable`, `ContentOnlyExtends` and
`ContradictionLatched` for any sources, heads, documents, records and rosters. The steps of
a poll are durable one by one and a crash may fall between any two, so the invariant is
about what each leaves for the next: a candidate was signed by its source's key and is
neither stale nor equivocal against a floor that then moves to nothing but it (`Admitted`,
`Floored`); every checkpoint is of a source the roster in force has bound, at a publication
its floor has reached (`Attributed`, `Rostered`); and a contradiction in the pool is latched
before anything is planned from it (`Evident`). That the freshest of a source's two answers
and the representative of equivalent claims exist is proved for any finite or infinite set of
sources, from the order of the naturals. `SourceSetAssumption` says what the validation of
a source set and of a document refuses otherwise.

*Reader node.* The other modules prove theorems of `ReaderNode`'s own `Spec`, so of every
composition of sites, for any signers, pollers, faults and bounds. `SitesAssumption`,
`NoneAssumption` and `KeysAssumption` say that `None` is none of the values it is compared
with; `HeadsAssumption` that a Kubo replica has no collector and no full verification and
that what is promoted is followed, as the configuration loaders have it;
`HintsAssumption` that a schedule has one owner, an edge's or a daemon's, and that the
daemon does not promote a head, which `PointerHints` does not model; `LimiterAssumption`
what `newPublicReadLimiter` refuses otherwise.

* Publications and relay (`RelayProofs`): `[]RecordsOrdered`, `[]DocumentsOrdered`,
  `RelayNeverRegresses`, `[]NoLostWakeup`, `[]FreshIsProvided`. The order of records alone
  is not inductive: `Numbering` states it of all that is issued (put, in a request, queued,
  in a transaction, or the edge's memory and disk) and relates it to the signer's counters:
  no issued number is above the signer's, the pending document is no older than any issued,
  and the number in use names nothing older than what it was last used for. `Dating` is the
  same for revisions. `Floored`: a transaction past its check is at or above the floor, is
  the floor once kept, and what the DHT was last given is not above what a restart loads.
  `Working`: an update not yet applied has filled the wake slot, and the call under way for
  a pointer still scheduled began after it was.
* Admission (`AdoptionProofs`): `CoverageStays`, from `IInv`: between the preflight and the
  commit of a document nothing moves the coverage it was compared with (`Preflighted`),
  because one poll at a time is past the transition lock (`Exclusive`).
* Serving, collection and promotion (`AdoptionProofs`): `[]NoReplayedRecord`,
  `[]ServedIsDurable`, `NeverRewound`, `[]FetchedIsHeld`, `[]ScrubTellsTrue`,
  `[]CompleteIsVerified`, `[]PromotedIsHeld`, from `SInv`. A poll past the lock is not below
  its name's sequence floor (`Authenticated`); what is about to be served is recorded before
  (`Serving`); the mirror goes with the checkpoint until the handover retires it
  (`Mirroring`); what a walk or its memo has proved in this collection generation is present
  and, during an epoch, marked or touched (`Guarded`, `Walking`), so that no sweep takes it
  (`Collecting`), and a completion stamped in that generation is held (`Fetching`).
* Pointer hints (`RelayProofs`): `[]HintsMatchRegistry`. The schedule is the union of two
  parts that different goroutines replace. `HintInv`: what is scheduled is what the owner
  has installed, or is about to record (`Scheduled`); a replacement in progress carries the
  other's part unchanged (`OthersPart`); and until a replacement fails each part is current,
  on its way, or still reported (`Reaching`): a report is not taken back before its
  replacement has settled, and a rendered document that is not pending was already taken. A
  change of what is adopted, quarantined or adrift is reported in the step that makes it.
* Replica (`AdoptionProofs`): `[]NoOrphanPins`, because every copy of the ledger that may be
  saved records every pin (`Safe`), also between the write that displaces a pending entry
  and the call that follows (`Displaced`); and `[]HealthIsCurrent`, because an audit that
  nothing overtook is about the served generation (`Watched`). `[]LeasedStaysPinned` takes
  both sides of `Retention.Commit`. The current generation is pinned, and a commit works on
  the ledger its own Prepare tidied, so what it promotes is not what it cleans up
  (`Anchored`); the operation in progress is that of the poll that waits for it (`Driven`);
  what a poll installed is in the generation it goes on to commit (`Retaining`), so what is
  served meanwhile is too (`Going`); and the barrier drains the requests on anything else
  before the promotion begins, so a firm request reads what stays current (`Leased`).
* Identity (`HostProofs`): `[]IdentityStays`, `[]NeverBlank`, `[]LiveTempKept`. A creator
  holds the sidecar lock from its recheck on (`Serialized`), nobody else has its inode open
  (`Private`), and what a reader has checked is durable if the path still names it
  (`PathHolds`).
* Rendezvous (`RelayProofs`): `[]RecordsFollowAddresses`, `[]DialsSpared`, `[]ClosedIsQuiet`.
  With no unanswered change of address a pass is due, in progress and so far complete, or
  was good (`Following`); what a round started ends with it (`Joining`); who is dialled was
  found once in this round and was free (`Sparing`).
* Limiter (`HostProofs`): `[]RetryIsHonest`, `[]RefusalsSpendNothing`. `ReserveIs` and
  `CancelIs` are about the token bucket: a reservation that is undone before another is made
  leaves the refill of every later moment as it was. A request holds the lock between its
  two steps and its reservations are the last thing that happened to both buckets
  (`Locking`), so with them undone the shared bucket is the one that only the admitted took
  from (`Balanced`) and both cover the last advice (`Advised`); eviction and expiry only
  replace a client's bucket by a full one.

Many leaves name Zenon: they follow by first-order reasoning over opaque definitions, and the
translation of a context of this size for the SMT solver costs more than the proof.

Only model-checked:

* all liveness, which needs `ENABLED`;
* the engine, whose recursive definitions are out of the provers' reach;
* the writer node, whose properties relate the answers of the chain over several requests
  of an indexer to what the registry holds by the end, and have not been proved; that the
  tip is served is checked without lost answers, whose graph is too large for a check of
  liveness beside the other sites;
* `OneDocument` and `Resumable` of the reader node, which have an exception. A legacy
  document is judged against its own authority's floor only, so a rotation of the DNSLink
  to an authority that publishes legacy documents can leave its checkpoints beside those of
  a revisioned document, which resume refuses. `Mixed` describes that state, one site reaches
  it, and both properties are about every other.

## Not modelled

Not modelled at all: byte encodings, KZG verification, HTTP parsing, rendering and
authorization, configuration parsing, metrics, the census, the network libraries, the Kubo
client, and the external stores, of which a single write is assumed to be durable. In the
modelled parts these are left out:

* engine: the enumeration caches and the size limits of index nodes; epochs: the
  collector's key enumeration and the wrap-around of the 64-bit epoch id;
* writer node: the header budget of the ancestry proof, JSON-RPC paging, retry timing,
  the order of rows inside a slot (a set);
* follower: document parsing and limits, manifest ancestry, the announcer, failed database
  writes, old record versions; every build is assumed to
  have a date of its own; staging rows, which only spare a fetch (`Retention` has them);
* promotion: parameter mismatches, the manifest chain, a demotion after the handover; an
  append of the promoted writer is one step;
* replica: pins an operator made, so ownership is always the controller's; the audit of
  Kubo's own policy, which only reads;
* edge: mirror mode, the refusal of a document that omits a required head, the history of
  past documents, which may only keep more than the active ones. The provider's
  interleavings are explored at one site;
* pointer finder: a query without state of its own;
* identity: read-only file systems, the bound of eight attempts, an operator who replaces
  the key during its creation; rendezvous: timers, the order of eviction, and which result a
  budget drops (any);
* limiter: how a client is told from its request.
