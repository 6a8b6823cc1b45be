----------------------------- MODULE BeaconIndexer -----------------------------
(***************************************************************************)
(* The finalized indexer that writes the ALL head (index/beacon): plan a   *)
(* batch from the archive's coverage, walk its slots, put the blobs, post  *)
(* the refs, with one batch of lookahead.                                  *)
(*                                                                         *)
(* In anchored mode a block feed says which slots have blocks.  The feed   *)
(* may answer 404 for a block it has yet to backfill, so absence counts    *)
(* only once a later block chains over it.  In mirror mode the upstream is *)
(* an archive and a slot it has not covered ends the batch.  More than one *)
(* indexer may run by mistake; the process is stateless and restarts.      *)
(***************************************************************************)
EXTENDS HeadRegistry

CONSTANTS
  Indexer,       \* the indexer processes
  BatchSize,     \* slots per batch
  SeedWalkBound  \* headers the seeding walk may read

VARIABLE ix \* [Indexer -> [pc, seeded, anchor, resume, plan, batch, ahead]]

\* beacon.New
FreshIndexer == [pc |-> "plan", seeded |-> FALSE, anchor |-> None, resume |-> 0,
                 plan |-> None, batch |-> None, ahead |-> None]

IndexerInit == ix = [i \in Indexer |-> FreshIndexer]

\* The blocks of a slot range that the feed shows: all of them, or fewer.
Blocks(lo, hi) == {b \in Ancestry[headBlk] : lo <= SlotOf[b] /\ SlotOf[b] <= hi}
Shows(blocks, seen) == /\ seen \subseteq blocks
                       /\ IF seen = blocks THEN UNCHANGED faults ELSE Fault("indexer")

\* resume
Resume == IF all.synced = Uncovered THEN Origin ELSE all.synced + 1

-----------------------------------------------------------------------------
\* seedContinuity's fast path: the anchor belongs to one resume slot.
Cached(x, start) == x.seeded /\ x.resume = start

\* Where the seeding walk may stop: the checkpoint, or a block the feed shows.
SeedStops(lo, start, seen) ==
  {b \in seen : lo <= SlotOf[b] /\ SlotOf[b] < start}
    \cup {b \in {site.checkpoint} \ {None} : lo <= SlotOf[b] /\ SlotOf[b] < start}

\* seedContinuity: walk back from start - 1.  "ready" carries the anchor; "wait"
\* is slot 0 reached with nothing; "fail" is the walk's bound or a checkpoint
\* that is not below the first slot.
Seed(start, seen) ==
  LET lo == IF start > SeedWalkBound THEN start - SeedWalkBound ELSE 0
      stops == SeedStops(lo, start, seen)
  IN CASE site.checkpoint # None /\ SlotOf[site.checkpoint] >= start -> [kind |-> "fail", anchor |-> None]
       [] start = 0 /\ site.checkpoint = None -> [kind |-> "ready", anchor |-> None]
       [] OTHER -> IF stops # {}
                   THEN [kind |-> "ready", anchor |-> CHOOSE b \in stops : \A c \in stops : SlotOf[c] <= SlotOf[b]]
                   ELSE [kind |-> IF lo = 0 THEN "wait" ELSE "fail", anchor |-> None]

\* Slip: the finalized slot itself is left for the next pass.
PlanOfShort(start, anchor) ==
  LET f == SlotOf[finBlk]
  IN [start |-> start, end |-> IF f < start + BatchSize THEN f - 1 ELSE start + BatchSize - 1,
      fin |-> f, anchor |-> anchor]

\* plan's range: up to finality, at most one batch.
PlanOf(start, anchor) ==
  LET f == SlotOf[finBlk]
  IN [start |-> start, end |-> IF f < start + BatchSize - 1 THEN f ELSE start + BatchSize - 1,
      fin |-> f, anchor |-> anchor]

Planned(x, start, anchor) ==
  [x EXCEPT !.pc = "fetch", !.seeded = TRUE, !.anchor = anchor, !.resume = start,
            !.plan = PlanOf(start, anchor)]

\* plan: finality, coverage, and in anchored mode the continuity anchor.  A pass that
\* is caught up, or cannot seed yet, polls again.
Plan(i) ==
  LET x == ix[i]
      start == Resume
  IN /\ x.pc = "plan"
     /\ \/ start > SlotOf[finBlk] /\ UNCHANGED <<ix, faults>>
        \/ /\ start <= SlotOf[finBlk] /\ (site.mirror \/ Cached(x, start))
           /\ ix' = [ix EXCEPT ![i] = Planned(x, start, x.anchor)]
           /\ UNCHANGED faults
        \/ /\ start <= SlotOf[finBlk] /\ ~site.mirror /\ ~Cached(x, start)
           /\ \E seen \in SUBSET Blocks(0, start - 1) :
                /\ Shows(Blocks(0, start - 1), seen)
                /\ LET r == Seed(start, seen)
                   IN ix' = [ix EXCEPT ![i] =
                        CASE r.kind = "ready" -> Planned(x, start, r.anchor)
                          [] r.kind = "wait" -> [x EXCEPT !.seeded = FALSE, !.anchor = None]
                          [] r.kind = "fail" -> FreshIndexer]
     /\ UNCHANGED <<all, stored>>

-----------------------------------------------------------------------------
RowsOf(blocks) == [s \in {SlotOf[b] : b \in {c \in blocks : RowOf[c] # {}}} |->
                     RowOf[CHOOSE b \in blocks : SlotOf[b] = s]]
Latest(blocks) == CHOOSE b \in blocks : \A c \in blocks : SlotOf[c] <= SlotOf[b]

\* The block a present block must name as its parent: the one seen before it.
Before(p, seen, b) ==
  LET older == {c \in seen : SlotOf[c] < SlotOf[b]}
  IN IF older = {} THEN p.anchor ELSE Latest(older)

\* Slip: trailing slots without a block are committed as absent.
ReassembleWhole(p, seen) ==
  CASE seen = {} -> [kind |-> "wait"]
    [] seen # {} /\ \E b \in seen : Before(p, seen, b) = None /\ SlotOf[b] # 0 -> [kind |-> "wait"]
    [] OTHER -> IF \E b \in seen : Before(p, seen, b) # None /\ ParentOf[b] # Before(p, seen, b)
                THEN [kind |-> "break"]
                ELSE [kind |-> "batch", rows |-> RowsOf(seen), last |-> p.end, out |-> Latest(seen)]

\* reassembleAnchored: only genesis needs no anchor; every other present slot
\* chains to the one before; coverage ends at the last present slot.
Reassemble(p, seen) ==
  CASE seen = {} -> [kind |-> "wait"]
    [] seen # {} /\ \E b \in seen : Before(p, seen, b) = None /\ SlotOf[b] # 0 -> [kind |-> "wait"]
    [] OTHER -> IF \E b \in seen : Before(p, seen, b) # None /\ ParentOf[b] # Before(p, seen, b)
                THEN [kind |-> "break"]
                ELSE [kind |-> "batch", rows |-> RowsOf(seen), last |-> SlotOf[Latest(seen)], out |-> Latest(seen)]

\* walkMirror, classifyMirror, stopEarly: copied up to the first uncovered slot.
Mirrored(p, stop) ==
  IF stop < p.start THEN [kind |-> "wait"]
  ELSE [kind |-> "batch", rows |-> RowsOf(Blocks(p.start, stop)), last |-> stop, out |-> None]

\* maybePrefetch: the next batch, if this one was whole and it too is final.
Prefetch(p, r) ==
  IF r.last # p.end \/ p.end + BatchSize > p.fin THEN None
  ELSE [start |-> p.end + 1, end |-> p.end + BatchSize, fin |-> p.fin, anchor |-> r.out]

Walked(x, r) ==
  CASE r.kind = "wait" -> [x EXCEPT !.pc = "plan", !.plan = None]
    [] r.kind = "break" -> FreshIndexer
    [] r.kind = "batch" -> [x EXCEPT !.pc = "put", !.batch = r, !.ahead = Prefetch(x.plan, r)]

\* fetch
Fetch(i) ==
  LET x == ix[i]
      p == x.plan
  IN /\ x.pc = "fetch"
     /\ IF site.mirror
        THEN \E stop \in (p.start - 1) .. p.end :
               /\ IF stop = p.end THEN UNCHANGED faults ELSE Fault("indexer")
               /\ ix' = [ix EXCEPT ![i] = Walked(x, Mirrored(p, stop))]
        ELSE \E seen \in SUBSET Blocks(p.start, p.end) :
               /\ Shows(Blocks(p.start, p.end), seen)
               /\ ix' = [ix EXCEPT ![i] = Walked(x, Reassemble(p, seen))]
     /\ UNCHANGED <<all, stored>>

\* put
Put(i) ==
  /\ ix[i].pc = "put"
  /\ PutBlobs(UNION {ix[i].batch.rows[s] : s \in DOMAIN ix[i].batch.rows})
  /\ ix' = [ix EXCEPT ![i].pc = "post"]
  /\ UNCHANGED <<faults, all>>

\* post on success: the anchor moves to the batch's last block and its resume slot;
\* a lookahead becomes the next batch without another look at the archive.
Posted(x) ==
  [x EXCEPT !.pc = IF x.ahead = None THEN "plan" ELSE "fetch", !.anchor = x.batch.out,
            !.resume = x.batch.last + 1, !.plan = x.ahead, !.batch = None, !.ahead = None]

\* post: refused, the process ends; accepted with the answer lost, the client posts again.
Post(i) ==
  LET x == ix[i]
  IN /\ x.pc = "post"
     /\ \/ /\ ApplyAll(x.batch.rows, x.batch.last)
           /\ \/ ix' = [ix EXCEPT ![i] = Posted(x)] /\ UNCHANGED faults
              \/ Fault("indexer") /\ UNCHANGED ix
        \/ /\ ~Applies(all, x.batch.rows, x.batch.last)
           /\ ix' = [ix EXCEPT ![i] = FreshIndexer] /\ UNCHANGED <<faults, all>>
     /\ UNCHANGED stored

\* Run: a finalized read that stays execution-optimistic drops the batch in hand and
\* its lookahead, keeps the anchor, and plans again.
Optimistic(i) ==
  /\ ix[i].pc = "fetch" /\ ~site.mirror /\ Fault("indexer")
  /\ ix' = [ix EXCEPT ![i].pc = "plan", ![i].plan = None]
  /\ UNCHANGED <<all, stored>>

\* An outage or a crash ends the process; the supervisor starts a fresh one.
IndexerRestart(i) ==
  /\ ix[i] # FreshIndexer /\ Fault("indexer")
  /\ ix' = [ix EXCEPT ![i] = FreshIndexer]
  /\ UNCHANGED <<all, stored>>

IndexerStep(i) == Plan(i) \/ Fetch(i) \/ Put(i) \/ Post(i) \/ Optimistic(i) \/ IndexerRestart(i)
================================================================================
