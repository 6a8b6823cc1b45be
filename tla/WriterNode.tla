------------------------------- MODULE WriterNode ------------------------------
(***************************************************************************)
(* A writer node and its clients over one moving chain: the finalized      *)
(* indexer (or two, started by mistake), the unfinalized tracker, the      *)
(* filtered head's indexer and publisher, and an operator who truncates a  *)
(* head while the indexers that write it are stopped.                      *)
(***************************************************************************)
EXTENDS BeaconIndexer, UnfinalizedTracker, ChainIndexer

CONSTANT Sites \* the deployments considered: see HeadRegistry!site

vars == <<chainVars, site, faults, regVars, ix, tr, filterVars>>

Init ==
  /\ site \in Sites /\ faults = 0
  /\ ChainInit /\ RegistryInit /\ IndexerInit /\ TrackerInit /\ FilterInit

ChainStep ==
  /\ \E b \in site.blocks : HeadMoves(b) \/ Finalizes(b)
  /\ UNCHANGED <<site, faults, regVars, ix, tr, filterVars>>

IndexStep ==
  /\ \E i \in site.indexers : IndexerStep(i)
  /\ UNCHANGED <<chainVars, site, chn, tip, gen, entry, link, calls, reply, tr, filterVars>>

TrackStep ==
  /\ "tracker" \in site.clients /\ TrackerStep
  /\ UNCHANGED <<chainVars, site, ix, filterVars>>

ChainFilterStep ==
  /\ "filter" \in site.clients /\ FilterStep
  /\ UNCHANGED <<chainVars, site, ix, tr>>

ManifestStep ==
  /\ "filter" \in site.clients /\ PublishStep
  /\ UNCHANGED <<chainVars, site, ix, tr>>

ServerStep ==
  /\ \E c \in calls : BeginGeneration(c) \/ RetryGeneration(c) \/ FinishGeneration(c)
  /\ UNCHANGED <<chainVars, site, faults, ix, tr, filterVars>>

Crash ==
  /\ Fault("node") /\ NodeRestart
  /\ UNCHANGED <<chainVars, site, ix, tr, filterVars>>

\* Truncate, with every indexer of the head stopped for it.
Rewrite ==
  /\ Fault("operator") /\ ci.pc = "off"
  /\ \E to \in Slot : TruncateAll(to) \/ TruncateChn(to)
  /\ ix' = [i \in Indexer |-> FreshIndexer]
  /\ UNCHANGED <<chainVars, site, tr, filterVars>>

Next == \/ ChainStep \/ IndexStep \/ TrackStep \/ ChainFilterStep \/ ManifestStep
        \/ ServerStep \/ Crash \/ Rewrite

Spec == Init /\ [][Next]_vars

\* Every process polls for ever under its supervisor and the server finishes what it
\* is asked; nothing makes the chain move or an operator act.
FairSpec ==
        /\ Spec
        /\ WF_vars(IndexStep) /\ WF_vars(TrackStep) /\ WF_vars(ServerStep) /\ WF_vars(ChainFilterStep)

-----------------------------------------------------------------------------
\* Coverage is proof: every slot the ALL head covers holds exactly the blobs of
\* the finalized chain there, an absent slot included (reassembleAnchored,
\* seedContinuity and ApplyRefs), whatever the block feed failed to show.
NoFalseAbsence ==
  /\ all.synced <= SlotOf[finBlk]
  /\ \A s \in Origin .. all.synced : all.rows[s] = RowAt(finBlk, s)

\* One live view is one chain: whatever the finalized head and the generation above
\* it answer together (resolveLiveSlot, mutableProofValid) belongs to a single branch.
LiveViewIsAChain ==
  \E b \in Block : \A s \in Slot : Answered(s) => LiveRow(s) = RowAt(b, s)

\* A filtered head is what its current manifest selects, for everything it covers,
\* whichever manifests and batches raced to get there (PublishManifest, SetManifest,
\* checkManifestBinding).
FilterIsItsManifest ==
  \A s \in Origin .. chn.synced :
    tip # <<>> /\ chn.rows[s] = UNION {Picked(TipSchedule, b) : b \in At(finBlk, s)}

\* The ALL head ends where finality does, through refused batches, unseen blocks,
\* restarts and a second writer (Run, plan, seedContinuity, post).
AllReachesFinality ==
  <>[](site.indexers # {} => Resume > SlotOf[finBlk])

\* A chain that stops moving is served to its head: the generation selected last is
\* the canonical head's, and it is exposed.  Excepted are a head beyond the window and
\* a rewrite of the finalized head within the process (Step, finishGenerationRetry).
TipIsServed ==
  <>[]("tracker" \in site.clients /\ link # "stale"
         /\ SlotOf[headBlk] - WindowStart(all.synced) < MaxWindow
       => Exposed /\ gen.claim.head = headBlk)
================================================================================
