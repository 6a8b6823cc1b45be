------------------------------- MODULE FollowSync ------------------------------
(***************************************************************************)
(* A follower's retained closures against the online collector             *)
(* (follow/sync.go, follow/run.go, pinning/gc.go).  A root's closure is    *)
(* one index block and one blob.  Everything a cut does under Gate is one  *)
(* step, and so is what a walk does under Gate to stamp its completion.    *)
(* Staging rows are left out: they only spare a fetch once the generation  *)
(* token is compared (Retention models them).                              *)
(***************************************************************************)
EXTENDS Publications

CONSTANTS
  Mislabelled, \* roots with a blob whose versioned hash is not the one its row claims
  MaxCuts      \* collections
ASSUME NoneAssumption == None \notin Nat \cup Mislabelled

VARIABLES
  adopted,  \* head -> the root it is registered at, or None
  fetched,  \* head -> the root whose closure is known held, or None
  quar,     \* the heads quarantined in this process
  have,     \* the blocks held, where a collector runs
  col,      \* the collector: [gen, stage, mark, touched] and the keys a scrub listed, or None
  memo,     \* root -> the collection generation its walk completed in (Follower.walked)
  walk      \* the sync worker: [pc, head, root, gen]

syncVars == <<adopted, fetched, quar, have, col, memo, walk>>

Index(r) == <<r, "index">>
Blob(r) == <<r, "blob">>
Closure(r) == {Index(r), Blob(r)}
Kinds == {"fin", "mut"}
IdleWalk == [pc |-> "idle", head |-> None, root |-> None, gen |-> 0]
IdleCol(gen) == [gen |-> gen, stage |-> "idle", mark |-> {}, touched |-> {}, scrub |-> None]
EmptyMemo == [r \in {} |-> 0]

SyncInit ==
  /\ adopted = [h \in Kinds |-> None] /\ fetched = [h \in Kinds |-> None] /\ quar = {}
  /\ have = {} /\ col = IdleCol(0) /\ memo = EmptyMemo /\ walk = IdleWalk

Active == col.stage # "idle"
Visible(h) == IF h \in quar THEN None ELSE adopted[h]

\* A block read or written through the application view joins the active epoch.
Touched(c, blocks) == IF c.stage = "idle" THEN c ELSE [c EXCEPT !.touched = @ \cup blocks]
Obtain(blocks) == have' = have \cup blocks /\ col' = Touched(col, blocks)

-----------------------------------------------------------------------------
\* The collector.

\* acquireMaintenance: a collection and a scrub never overlap.
Maintains == ~Active /\ col.scrub = None

\* runOnline's cut: the reconciler is flushed, so the pins are the registered roots.
Cut ==
  /\ site.gc /\ Maintains /\ col.gen < MaxCuts
  /\ col' = [gen |-> col.gen + 1, stage |-> "marking", touched |-> {}, scrub |-> col.scrub,
             mark |-> UNION {Closure(adopted[h]) : h \in {h \in site.heads : adopted[h] # None}}]
  /\ UNCHANGED <<adopted, fetched, quar, have, memo, walk>>

\* GCFetch: a followed head's missing block may be fetched again, a written head's not.
Healable(follows) == IF follows THEN col.mark ELSE {}

\* mark: every pinned block is read, or the run ends unswept.
Mark(follows) ==
  /\ col.stage = "marking"
  /\ \/ /\ col.mark \subseteq have \cup Healable(follows) /\ have' = have \cup col.mark
        /\ col' = [col EXCEPT !.stage = "sweeping"] /\ Calm
     \/ /\ ~(col.mark \subseteq have) /\ col' = IdleCol(col.gen) /\ UNCHANGED have
        /\ IF follows THEN Fault("fetch") ELSE Calm
  /\ UNCHANGED <<adopted, fetched, quar, memo, walk>>

\* sweepOnline: every candidate is checked against the epoch once more.
SweepBlock ==
  /\ col.stage = "sweeping"
  /\ \E b \in have \ (col.mark \cup col.touched) : have' = have \ {b}
  /\ UNCHANGED <<adopted, fetched, quar, col, memo, walk>>

EndEpoch ==
  /\ col.stage = "sweeping" /\ col' = IdleCol(col.gen)
  /\ UNCHANGED <<adopted, fetched, quar, have, memo, walk>>

\* Scrub, outside Gate and every epoch: each block listed is read and hashed, and one
\* that cannot be read fails the pass.
ScrubBegin ==
  /\ site.gc /\ Maintains /\ col' = [col EXCEPT !.scrub = have]
  /\ UNCHANGED <<adopted, fetched, quar, have, memo, walk>>

ScrubEnd ==
  /\ col.scrub # None /\ col' = [col EXCEPT !.scrub = None]
  /\ UNCHANGED <<adopted, fetched, quar, have, memo, walk>>

-----------------------------------------------------------------------------
\* The sync worker.

\* syncCurrent, sync: snapshot the head and the generation.
SyncStart(h) ==
  /\ walk.pc = "idle" /\ Visible(h) # None /\ adopted[h] # fetched[h]
  /\ walk' = [pc |-> "index", head |-> h, root |-> adopted[h], gen |-> col.gen]
  /\ UNCHANGED <<adopted, fetched, quar, have, col, memo>>

\* done: the subtree was walked in this collection generation.
Known(r, gen) == r \in DOMAIN memo /\ memo[r] = gen

\* Enumerate and the recursion's first step.
SyncIndex ==
  /\ walk.pc = "index"
  /\ IF Known(walk.root, walk.gen)
     THEN walk' = [walk EXCEPT !.pc = "stamp"] /\ UNCHANGED <<have, col>>
     ELSE walk' = [walk EXCEPT !.pc = "blob"] /\ Obtain({Index(walk.root)})
  /\ UNCHANGED <<adopted, fetched, quar, memo>>

\* commit: only a walk that stayed within one collection generation is remembered.
CommitMemo(m, r, gen) == IF col.gen = gen THEN [x \in DOMAIN m \cup {r} |-> IF x = r THEN gen ELSE m[x]] ELSE m

\* Heads.Quarantine: one-way for the life of the process.
Quarantined(h) == quar' = quar \cup {h}

\* segment: the blobs are ensured and, under full verification, checked against
\* their rows; a mismatch quarantines the head, once the transition lock is free.
SyncBlob(lockFree) ==
  /\ walk.pc = "blob" /\ Obtain({Blob(walk.root)})
  /\ IF site.full /\ walk.root \in Mislabelled
     THEN lockFree /\ Quarantined(walk.head) /\ walk' = IdleWalk /\ UNCHANGED memo
     ELSE memo' = CommitMemo(memo, walk.root, walk.gen) /\ walk' = [walk EXCEPT !.pc = "stamp"] /\ UNCHANGED quar
  /\ UNCHANGED <<adopted, fetched>>

\* A block did not come: the pass ends and the next poll asks again.
SyncFails ==
  /\ walk.pc \in {"index", "blob"} /\ Fault("fetch") /\ walk' = IdleWalk
  /\ UNCHANGED <<adopted, fetched, quar, have, col, memo>>

\* Slip: a walk that crossed a cut stamps its root all the same.
StampAcross(f, w) == IF adopted[w.head] = w.root THEN [f EXCEPT ![w.head] = w.root] ELSE f

\* The completion stamp: same collection generation, same adopted root.
Stamp(f, w) == IF col.gen = w.gen /\ adopted[w.head] = w.root THEN [f EXCEPT ![w.head] = w.root] ELSE f

SyncStamp ==
  /\ walk.pc = "stamp" /\ fetched' = Stamp(fetched, walk) /\ walk' = IdleWalk
  /\ UNCHANGED <<adopted, quar, have, col, memo>>

-----------------------------------------------------------------------------
\* What adoption does to a head's state.

\* installHeadPlans: a root change forgets the completion of the one before it, unless
\* an external archive store already holds the new closure.
Installed(h, r) == IF site.external THEN r ELSE IF adopted[h] = r THEN fetched[h] ELSE None

\* protectAdoptionClosure walks links only and commits nothing (noMemoCommit).
Protected(m, roots, gen) == m
================================================================================
