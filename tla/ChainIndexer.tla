------------------------------ MODULE ChainIndexer -----------------------------
(***************************************************************************)
(* The indexer of a filtered head (index/chain) and the publisher of its   *)
(* manifest.  A manifest is a schedule: a list of sources, each selecting  *)
(* one poster's blobs over a range of L1 blocks.  The indexer runs only    *)
(* the schedule its head's manifest tip attests, binds every batch to that *)
(* tip, and references blobs the ALL head has covered or fetches them      *)
(* itself.  An upgrade may change nothing the head has already covered.    *)
(***************************************************************************)
EXTENDS HeadRegistry

CONSTANTS
  PostedBy,   \* [poster -> the blobs it posted]
  Schedules,  \* the schedules an operator may configure: sequences of [who, from, until]
  BlockRange, \* L1 blocks per scan
  MaxTips     \* bound: manifests published

VARIABLES
  ci, \* the indexer: [pc, sched, tip, hint, batch]
  mp  \* the publisher: [pc, sched, head, tip]

filterVars == <<ci, mp>>

StoppedIndexer == [pc |-> "off", sched |-> None, tip |-> None, hint |-> None, batch |-> None]
IdlePublisher == [pc |-> "off", sched |-> None, head |-> None, tip |-> None]
FilterInit == ci = StoppedIndexer /\ mp = IdlePublisher

-----------------------------------------------------------------------------
\* Schedules

Active(src, n) == src.from <= n /\ n <= src.until

\* ValidateSources: at least one source, none ending before it starts.
WellOrdered(sched) == sched # <<>> /\ \A i \in DOMAIN sched : sched[i].from <= sched[i].until

\* ValidateSources, requireContiguous: no hole between two sources.
ValidSchedule(sched) ==
  /\ WellOrdered(sched)
  /\ \A i \in DOMAIN sched :
       \/ \A j \in DOMAIN sched : sched[i].from <= sched[j].from
       \/ \E j \in DOMAIN sched : sched[j].from < sched[i].from /\ sched[i].from <= sched[j].until + 1

\* scanBlobTxs: the blobs of one block that a source's senders posted.
Selects(src, b) == RowOf[b] \cap PostedBy[src.who]

\* scan: the union of the active sources.
Picked(sched, b) ==
  UNION {Selects(sched[i], b) : i \in {k \in DOMAIN sched : Active(sched[k], Number(b))}}

CoveredSources(sched, pos) == SelectSeq(sched, LAMBDA src : src.from <= pos)
CoveredEnd(src, pos) == IF src.until < pos THEN src.until ELSE pos

\* ValidateUpgrade: the covered sources match one for one, with the same covered ground.
ValidUpgrade(old, new, pos) ==
  LET c == CoveredSources(old, pos)
      p == CoveredSources(new, pos)
  IN /\ Len(c) = Len(p)
     /\ \A i \in DOMAIN c : /\ c[i].who = p[i].who /\ c[i].from = p[i].from
                            /\ CoveredEnd(c[i], pos) = CoveredEnd(p[i], pos)

TipSchedule == tip[Len(tip)]

-----------------------------------------------------------------------------
\* The indexer

\* chain.New with some configured schedule.
StartFilter(sched) ==
  /\ ci.pc = "off" /\ ValidSchedule(sched)
  /\ ci' = [StoppedIndexer EXCEPT !.pc = "check", !.sched = sched]
  /\ UNCHANGED <<faults, regVars, mp>>

\* CheckSchedule: exactly the published tip's schedule, or the process ends.
CheckSchedule ==
  /\ ci.pc = "check"
  /\ ci' = IF tip # <<>> /\ TipSchedule = ci.sched THEN [ci EXCEPT !.pc = "step", !.tip = tip]
           ELSE StoppedIndexer
  /\ UNCHANGED <<faults, regVars, mp>>

\* reconcileManifestTip, at the top of every cycle.
ReconcileTip ==
  /\ ci.pc = "poll"
  /\ ci' = [ci EXCEPT !.pc = IF ci.tip = tip THEN "step" ELSE "check"]
  /\ UNCHANGED <<faults, regVars, mp>>

\* The finalized L1 block with a number, as a node that finalized f sees it.
ByNumber(f, n) == CHOOSE b \in Ancestry[f] : Number(b) = n

\* blockAtOrAfterSlot: the first finalized block at a slot or later.
FirstAtOrAfter(f, slot) == Cardinality({b \in Ancestry[f] : SlotOf[b] < slot})

\* resume: the hint only if the archive still stands where the hint was taken.
ResumeBlock ==
  IF ci.hint # None /\ ci.hint.slot = chn.synced THEN ci.hint.block + 1
  ELSE FirstAtOrAfter(finBlk, IF chn.synced = Uncovered THEN Origin ELSE chn.synced + 1)

\* rowBuilder
FilterRows(hits) == [s \in {SlotOf[b] : b \in hits} |-> Picked(ci.sched, CHOOSE b \in hits : SlotOf[b] = s)]

\* scanRange [from, to]: what to record, and the slot it covers through.
Scan(from, to) ==
  LET blocks == {b \in Ancestry[finBlk] : from <= Number(b) /\ Number(b) <= to}
  IN [rows |-> FilterRows({b \in blocks : Picked(ci.sched, b) # {}}),
      target |-> SlotOf[ByNumber(finBlk, to)], block |-> to]

\* Step up to the scanned batch; a caught-up pass, or one that has not reached the
\* origin, polls again.
ScanRange ==
  LET from == ResumeBlock
      last == Number(finBlk)
      to == IF last < from + BlockRange - 1 THEN last ELSE from + BlockRange - 1
  IN /\ ci.pc = "step"
     /\ ci' = IF from > last \/ Scan(from, to).target < Origin THEN [ci EXCEPT !.pc = "poll"]
              ELSE [ci EXCEPT !.pc = "blobs", !.batch = Scan(from, to)]
     /\ UNCHANGED <<faults, regVars, mp>>

\* waitForAll's condition.
Reached(target) == all.synced >= target

\* waitForAll, or fetchAndPut.
HaveBlobs ==
  /\ ci.pc = "blobs"
  /\ IF site.fetch THEN PutBlobs(UNION {ci.batch.rows[s] : s \in DOMAIN ci.batch.rows})
     ELSE Reached(ci.batch.target) /\ UNCHANGED stored
  /\ ci' = [ci EXCEPT !.pc = "post"]
  /\ UNCHANGED <<faults, all, chn, tip, gen, entry, link, calls, reply, mp>>

\* PostRefs bound to the tip.  A refusal ends the process; a lost answer is posted again.
PostFiltered ==
  /\ ci.pc = "post"
  /\ \/ /\ ApplyChn(ci.batch.rows, ci.batch.target, ci.tip)
        /\ \/ /\ ci' = [ci EXCEPT !.pc = "poll", !.batch = None,
                                  !.hint = [slot |-> ci.batch.target, block |-> ci.batch.block]]
              /\ UNCHANGED faults
           \/ Fault("filter") /\ UNCHANGED ci
     \/ /\ ~(BoundTo(ci.tip) /\ Applies(chn, ci.batch.rows, ci.batch.target))
        /\ ci' = StoppedIndexer /\ UNCHANGED <<faults, chn>>
  /\ UNCHANGED <<all, tip, gen, entry, link, stored, calls, reply, mp>>

StopFilter ==
  /\ ci.pc # "off" /\ Fault("filter") /\ ci' = StoppedIndexer
  /\ UNCHANGED <<regVars, mp>>

-----------------------------------------------------------------------------
\* The publisher: preflightManifest reads the head, then the tip, then posts.

PublishStart(sched) ==
  /\ mp.pc = "off" /\ Len(tip) < MaxTips /\ ValidSchedule(sched)
  /\ mp' = [mp EXCEPT !.pc = "head", !.sched = sched]
  /\ UNCHANGED <<faults, regVars, ci>>

PreflightHead ==
  /\ mp.pc = "head"
  /\ mp' = [mp EXCEPT !.pc = "tip", !.head = chn]
  /\ UNCHANGED <<faults, regVars, ci>>

\* positionOfSlot refuses when this node has not finalized what the head covers.
Placed(f, synced) == SlotOf[f] >= synced

\* The last finalized block at or below the coverage.
PositionOfSlot(f, synced) ==
  LET beyond == FirstAtOrAfter(f, synced + 1) IN IF beyond = 0 THEN 0 ELSE beyond - 1

\* One attempt of the append-only check.  f is what the publisher's L1 node has
\* finalized, which may lag the indexer's.
PreflightTip(f) ==
  /\ mp.pc = "tip" /\ f \in Ancestry[finBlk]
  /\ mp' = IF \/ tip = <<>> \/ mp.head.synced = Uncovered
              \/ /\ Placed(f, mp.head.synced)
                 /\ ValidUpgrade(TipSchedule, mp.sched, PositionOfSlot(f, mp.head.synced))
           THEN [mp EXCEPT !.pc = "post", !.tip = tip]
           ELSE IdlePublisher
  /\ UNCHANGED <<faults, regVars, ci>>

\* PostManifest.  A conflict runs the preflight again; so does an answer lost after
\* the manifest was stored, because the retry no longer names the tip.
PostManifest ==
  /\ mp.pc = "post"
  /\ \/ /\ SetManifest(mp.tip, mp.head, mp.sched)
        /\ \/ mp' = IdlePublisher /\ UNCHANGED faults
           \/ /\ Fault("filter") /\ Len(tip') < MaxTips
              /\ mp' = [mp EXCEPT !.pc = "head", !.head = None, !.tip = None]
     \/ /\ ~ManifestCAS(mp.tip, mp.head)
        /\ mp' = [mp EXCEPT !.pc = "head", !.head = None, !.tip = None]
        /\ UNCHANGED <<faults, tip>>
  /\ UNCHANGED <<all, chn, gen, entry, link, stored, calls, reply, ci>>

FilterStep ==
  \/ \E sched \in Schedules : StartFilter(sched)
  \/ CheckSchedule \/ ReconcileTip \/ ScanRange \/ HaveBlobs \/ PostFiltered \/ StopFilter
PublishStep ==
  \/ \E sched \in Schedules : PublishStart(sched)
  \/ PreflightHead \/ (\E f \in Block : PreflightTip(f)) \/ PostManifest
================================================================================
