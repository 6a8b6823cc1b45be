------------------------------- MODULE ReaderNode ------------------------------
(***************************************************************************)
(* A writer's publications, the edge that may relay them, and one node     *)
(* that follows them: an embedded follower with its collector, its sync    *)
(* worker and its pointer hints, which may be promoted to a writer, or a   *)
(* Kubo replica with its controller, audit and gateway.  Beside them, the  *)
(* identity key the daemons of a host share, their rendezvous service and  *)
(* the limiter of their read API.                                          *)
(***************************************************************************)
EXTENDS PointerHints, EdgeRelay, WriterPromotion, IdentityFile, Rendezvous, ReadLimiter

\* The deployments considered: [signers, moves, writer, ipns, https, key, dns, heads,
\* pollers, gc, full, external, edge, provider, hints, promote, starters, required,
\* keys, peers, readers, clients, faulty, limit].
CONSTANT Sites
ASSUME SitesAssumption ==
  \A s \in Sites : /\ None \notin s.starters /\ None \notin s.keys \X Nat /\ None \notin s.readers
                   /\ None \notin [key : s.clients, cost : Nat, now : Nat, global : Nat, client : Nat]
\* A Kubo replica has no collector and checks no blob itself (VerifyCID); only the
\* finalized head may be promoted.
ASSUME HeadsAssumption ==
  \A s \in Sites : s.heads \subseteq Kinds /\ (s.external => ~s.gc /\ ~s.full) /\ (s.promote => "fin" \in s.heads)
\* A schedule has one owner, an edge's or a daemon's; the hints of a daemon that promotes
\* a head are not modelled.
ASSUME HintsAssumption == \A s \in Sites : s.hints => ~s.edge /\ ~s.promote

followVars == <<durVars, dns, up, poll>>
nodeVars == <<syncVars, ctlVars, runVars, followVars, ownerVars, promotionVars>>
relayVars == <<hintVars, edgeVars>>
hostVars == <<identityVars, rendezvousVars, limiterVars>>
vars == <<site, faults, pubVars, nodeVars, relayVars, hostVars>>

Init ==
  /\ site \in Sites /\ faults = 0
  /\ PubInit /\ SyncInit /\ CtlInit /\ RunInit /\ FollowerInit /\ OwnerInit /\ HintInit /\ EdgeInit
  /\ PromotionInit /\ IdentityInit /\ RendezvousInit /\ LimiterInit

WriterStep ==
  /\ SignerStep /\ Abandon /\ UNCHANGED <<site, nodeVars, hintVars, edge, shown, sent, hostVars>>

RelayStep ==
  /\ site.edge /\ EdgeStep /\ UNCHANGED <<site, docs, nodeVars, hostVars>>

\* The provider's worker, where its interleavings are considered.
AdvertiseStep ==
  /\ site.provider /\ edge.up /\ ProviderStep /\ Calm /\ UNCHANGED <<site, pubVars, nodeVars, edgeVars, hostVars>>

\* The operator points the DNSLink record at another signer.
DnsMoves ==
  /\ site.dns # None /\ \E a \in site.signers : dns' = a
  /\ Fault("rotation")
  /\ UNCHANGED <<site, pubVars, syncVars, ctlVars, runVars, durVars, up, poll, ownerVars, promotionVars, relayVars, hostVars>>

\* A poll ends with its report.
FollowStep ==
  /\ role = "follow" /\ told = {} /\ PollStep /\ Reported /\ Mirrored
  /\ UNCHANGED <<site, pubVars, relayVars, role, hostVars>>

HintStep ==
  /\ site.hints /\ OwnerStep
  /\ UNCHANGED <<site, pubVars, syncVars, ctlVars, runVars, followVars, edgeVars, promotionVars, hostVars>>

\* The cut, the mark's verdict and the sweep's deletions exclude the publication of a
\* generation (Gate); a scrub does not.
CollectorStep ==
  /\ up = "on" /\ site.gc
  /\ \/ (\A p \in site.pollers : poll[p].pc # "install") /\ (Mark(role = "follow") \/ ((Cut \/ SweepBlock \/ EndEpoch) /\ Calm))
     \/ (ScrubBegin \/ ScrubEnd) /\ Calm
  /\ UNCHANGED <<site, pubVars, ctlVars, runVars, followVars, ownerVars, promotionVars, relayVars, hostVars>>

SyncStep ==
  /\ up = "on" /\ site.gc /\ role = "follow"
  /\ \/ ((\E h \in site.heads : SyncStart(h)) \/ SyncIndex \/ SyncBlob(~Locked /\ told = {}) \/ SyncStamp) /\ Calm
     \/ SyncFails
  /\ UNCHANGED <<site, pubVars, ctlVars, runVars, followVars, promotionVars, relayVars, hostVars>> /\ Reported

RetentionStep ==
  /\ ControllerStep /\ UNCHANGED <<site, pubVars, syncVars, runVars, followVars, ownerVars, promotionVars, relayVars, hostVars>>

RuntimeStep ==
  /\ site.external /\ up = "on"
  /\ AuditStep \/ ReadBegin \/ ReadEnd
  /\ UNCHANGED <<site, pubVars, syncVars, ctlVars, followVars, ownerVars, promotionVars, relayVars, hostVars>>

ProcessStep ==
  /\ site.heads # {}
  /\ (role = "follow" /\ Start) \/ Recovered \/ Resume \/ Crash
  /\ Restarted /\ UNCHANGED <<site, pubVars, edgeVars, promotionVars, hostVars>>

PromoteStep ==
  /\ site.promote /\ PromotionStep /\ UNCHANGED <<site, pubVars, ownerVars, relayVars, hostVars>>

HostStep ==
  /\ \/ site.starters # {} /\ IdentityStep /\ UNCHANGED <<rendezvousVars, limiterVars>>
     \/ site.keys # {} /\ RendezvousStep /\ UNCHANGED <<identityVars, limiterVars>>
     \/ site.readers # {} /\ LimiterStep /\ UNCHANGED <<identityVars, rendezvousVars>>
  /\ UNCHANGED <<site, pubVars, nodeVars, relayVars>>

Next == \/ WriterStep \/ RelayStep \/ AdvertiseStep \/ DnsMoves \/ FollowStep \/ HintStep \/ CollectorStep
        \/ SyncStep \/ RetentionStep \/ RuntimeStep \/ ProcessStep \/ PromoteStep \/ HostStep

Spec == Init /\ [][Next]_vars

-----------------------------------------------------------------------------
\* What is served is what a restart would serve: durable before visible, gone from
\* both when withdrawn, and a promoted head's mirror (commitPlans, AdoptBatch, OpenHead).
ServedIsDurable ==
  Settled => \A h \in site.heads : adopted[h] # None =>
    IF role = "write" THEN mirror = adopted[h] ELSE cp[h].sel /\ cp[h].line = adopted[h]

\* The live head and the finalized head beside it come from one document, whatever
\* was refused, crashed or raced on the way (admit, resumeDocumentCheckpoint).
OneDocument ==
  Settled /\ ~Mixed => \A h \in Mutables : adopted[h] # None /\ "fin" \in site.heads => adopted["fin"] = cp[h].doc.fin

\* A crash at any point leaves a state that Resume accepts: one document for every
\* followed head, and exactly its authority's floor (stageAdmission), unless an authority
\* rotated to publishes legacy documents.
Resumable == Revised /\ ~Mixed => Whole

\* The finalized coverage a reader was once given is never taken back: not by a replay,
\* a restart, a withdrawal and a later return, or a promotion (preflightEntry,
\* preflightWithdrawal, ReconcileWriterPromotion).
CoverageStays ==
  [][cp["fin"].line # None /\ cp'["fin"] # cp["fin"] =>
       \E reached \in {IF role = "write" THEN mirror' ELSE cp'["fin"].line} :
         reached # None /\ reached >= cp["fin"].line]_vars

\* A document is not admitted from a record older than one already authenticated,
\* even if that one's document was refused and two polls raced (admit).
NoReplayedRecord ==
  \A p \in site.pollers :
    poll[p].pc = "install" /\ poll[p].via = "ipns" => poll[p].obs.seq >= seq[poll[p].obs.name]

\* A head that reports its closure held has every block of it, whatever collections
\* ran during the walk that said so (sync, installHeadPlans, retainForMark).
FetchedIsHeld ==
  site.gc => \A h \in site.heads : adopted[h] # None /\ fetched[h] = adopted[h] => Closure(adopted[h]) \subseteq have

\* A scrub fails only on a damaged block: no block it listed is collected before it is
\* read, although a scrub neither holds Gate nor joins an epoch (acquireMaintenance).
ScrubTellsTrue == col.scrub # None => col.scrub \subseteq have

\* Under full verification a head is complete only if its blobs are the ones its rows
\* claim: a walk for protection verified nothing (protectAdoptionClosure, commit).
CompleteIsVerified ==
  site.full => \A h \in site.heads : fetched[h] \notin Mislabelled

\* A pin under the reserved name always has an owned ledger entry, so Recover never
\* finds one it may not touch (Prepare, cleanupLocked).
NoOrphanPins ==
  \A p \in pins : p.ours => \E e \in Retained(led) : e.owned /\ e.gen = p.gen

\* A request that selected a committed generation keeps its pin to the end
\* (Gate.Barrier before Retention.Commit).
LeasedStaysPinned ==
  lease # None /\ lease.firm => \E p \in pins : <<"fin", lease.root>> \in p.gen.heads

\* A green gate is about the generation that is active now (activate, auditActive).
HealthIsCurrent == health.ok => health.active # None /\ health.by = health.active

\* What the replica serves is pinned: "it never exposes an unprotected checkpoint"
\* (follow.go, admit).
NeverUnprotected ==
  site.external => \A h \in site.heads :
    adopted[h] # None => \E p \in pins : <<h, adopted[h]>> \in p.gen.heads
================================================================================
