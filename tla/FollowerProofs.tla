----------------------------- MODULE FollowerProofs ----------------------------
(***************************************************************************)
(* What a reader may rely on, for every deployment, whatever fails, is     *)
(* retried, delayed or restarted and whoever signed what: the invariants   *)
(* of RelayProofs, AdoptionProofs and HostProofs along the steps of the    *)
(* whole.                                                                  *)
(***************************************************************************)
EXTENDS ReaderNode, RelayProofs, AdoptionProofs, HostProofs

\* The steps of the writer, the edge and the host's services.
Beside == WriterStep \/ RelayStep \/ AdvertiseStep \/ HostStep \/ UNCHANGED vars

\* They leave the node alone.
LEMMA BesideNode == ASSUME Beside PROVE UNCHANGED <<site, nodeVars>>
BY Zenon DEF Beside, WriterStep, RelayStep, AdvertiseStep, HostStep, vars

-----------------------------------------------------------------------------
\* Documents and records.

\* Nothing is published yet.
LEMMA OrderingInit == Init => Ordering
<1> SUFFICES ASSUME Init PROVE Ordering BY Zenon
<1>1. /\ pub = [a \in site.signers |-> NewSigner] /\ docs = {} /\ recs = {} /\ edge = Stopped /\ ask = None
      /\ sent = [last |-> None, good |-> None]
  BY Zenon DEF Init, PubInit, EdgeInit
<1>2. Issued = {} BY Zenon, <1>1 DEF Issued, Held, Stopped, NewSigner
<1>3. ASSUME NEW p, p = NewSigner, NEW a
      PROVE  IsSigner(p) /\ Numbered(p, a, Issued) /\ Authored(p, a) /\ AtOnce(p) /\ Dated(p, a)
  BY <1>1, <1>2, <1>3 DEF NewSigner, IsSigner, Numbered, Authored, AtOnce, Dated
<1>4. Numbering BY <1>1, <1>2, <1>3 DEF Numbering, Sorted
<1>5. Dating BY <1>1, <1>3 DEF Dating, DocumentsOrdered
<1>6. Floored
  <2>1. PICK e : e = edge BY Zenon
  <2>2. IsEdge(e) /\ e.tx = None /\ e.mem = None /\ e.queue = {} BY Zenon, <1>1, <2>1 DEF Stopped, IsEdge
  <2> QED BY <1>1, <2>1, <2>2 DEF Floored
<1>7. Working
  <2>1. PICK w : w = wk BY Zenon
  <2>2. w = NewWorker /\ provided = {} BY Zenon, <2>1 DEF Init, HintInit
  <2>3. w = [pc |-> w.pc, moved |-> w.moved, st |-> w.st, at |-> w.at, same |-> w.same] /\ w.pc = "top"
    BY Zenon, <2>2 DEF NewWorker
  <2> QED BY <2>1, <2>2, <2>3 DEF Working
<1> QED BY <1>4, <1>5, <1>6, <1>7 DEF Ordering

\* Steps that publish nothing.
LEMMA OrderingAside ==
  ASSUME Ordering, UNCHANGED <<site, pubVars, edge, ask, sent>>, Working'
  PROVE  Ordering' /\ Forward
<1>1. UNCHANGED <<pub, docs, recs>> BY Zenon DEF pubVars
<1>2. Relays BY Zenon, <1>1, HeldIsIssued DEF Relays, Ordering, Floored
<1>3. Numbering' BY <1>1, <1>2, RelaysQuietly DEF Ordering, Numbering
<1>4. Dating' BY <1>1, DatingAside DEF Ordering
<1> QED BY <1>1, <1>3, <1>4, FlooredAside DEF Ordering

\* The signers: building, persisting, putting and restarting (Publisher, publications).
LEMMA OrderingWriter == ASSUME Ordering, WriterStep PROVE Ordering' /\ Forward
<1>3. UNCHANGED <<site, edge, sent, hintVars>> /\ SignerStep /\ Abandon BY Zenon DEF WriterStep
<1>1. Numbering' BY Zenon, <1>3, NumberedWriter DEF Ordering
<1>2. Dating' BY Zenon, <1>3, DatedWriter DEF Ordering
<1>4. recs \subseteq recs'
  BY ZenonT(60), <1>3 DEF SignerStep, BuildDoc, PersistRoot, InstallDoc, StartSigner, PrepareRecord, PersistFails, CrashSigner,
              PutRecord, PublishAtOnce, RestoreSigner
<1> QED BY <1>1, <1>2, <1>3, <1>4, FlooredAside, WorkingAside DEF Ordering

\* The edge: admission, the durable floor, the put and the pointers (Sink).
LEMMA OrderingRelay == ASSUME Ordering, RelayStep PROVE Ordering' /\ Forward
<1>1. UNCHANGED <<site, docs>> /\ EdgeStep BY Zenon DEF RelayStep
<1>2. Numbering' /\ Floored' /\ Forward
  <2>1. \/ EdgeStart \/ EdgeCrash \/ Admitted \/ NotAdmitted \/ Restore \/ \E a \in site.signers : Post(a) \/ GiveUp(a)
        \/ CheckRecord \/ ProvideDocument \/ Persist \/ PutValue \/ StageHints \/ SwapHints \/ SettleHints
    BY Zenon, <1>1 DEF EdgeStep
  <2> QED BY <1>1, <2>1, RelaysBetween, RelaysWithin DEF Ordering
<1>3. Dating' BY Zenon, <1>1, DatedRelay DEF Ordering
<1>4. Working'
  <2>1. CASE EdgeCrash BY Zenon, <2>1, WorkingLost DEF EdgeCrash
  <2>2. CASE SwapHints BY Zenon, <2>2, WorkingSwaps DEF SwapHints, Withdraw, Ordering
  <2>3. CASE StageHints \/ SettleHints
    <3>1. UNCHANGED <<provided, begun, wake, wk>> BY Zenon, <2>3 DEF StageHints, SettleHints
    <3> QED BY Zenon, <3>1 DEF Ordering, Working
  <2>4. CASE UNCHANGED hintVars BY Zenon, <2>4, WorkingAside DEF Ordering
  <2>5. EdgeCrash \/ SwapHints \/ StageHints \/ SettleHints \/ UNCHANGED hintVars
    BY Zenon, <1>1 DEF EdgeStep, EdgeStart, Admitted, NotAdmitted, Restore, Post, GiveUp, CheckRecord, ProvideDocument, Persist,
                PutValue
  <2> QED BY <2>1, <2>2, <2>3, <2>4, <2>5
<1> QED BY Zenon, <1>2, <1>3, <1>4 DEF Ordering

\* The daemon's own pointers swap a schedule and nothing else (pointerState).
LEMMA OrderingOwner == ASSUME Ordering, HintStep PROVE Ordering' /\ Forward
<1>1. UNCHANGED <<site, pubVars, edge, ask, sent>> /\ OwnerStep BY Zenon DEF HintStep, edgeVars
<1>2. CASE SwapOwned
  <2>1. (\E ps : Swap(ps)) \/ UNCHANGED <<provided, begun, wake, wk>> BY <1>2 DEF SwapOwned
  <2>2. CASE UNCHANGED <<provided, begun, wake, wk>>
    <3>1. Working' BY Zenon, <2>2 DEF Ordering, Working
    <3> QED BY Zenon, <1>1, <3>1, OrderingAside
  <2>3. Working' BY <2>1, <2>2, WorkingSwaps DEF Ordering, Working
  <2> QED BY <1>1, <2>3, OrderingAside
<1>3. CASE ~SwapOwned
  <2>1. UNCHANGED <<provided, begun, wake, wk>>
    BY <1>1, <1>3 DEF OwnerStep, OwnMoves, LocalTakes, FollowerTakes, StageOwned, SettleOwned, hintVars
  <2>2. Working' BY Zenon, <2>1 DEF Ordering, Working
  <2> QED BY Zenon, <1>1, <2>2, OrderingAside
<1> QED BY Zenon, <1>2, <1>3

\* A start or a crash of the daemon at most loses its schedule.
LEMMA OrderingProcess == ASSUME Ordering, ProcessStep PROVE Ordering' /\ Forward
<1>1. UNCHANGED <<site, pubVars, edge, ask, sent>> /\ Restarted BY Zenon DEF ProcessStep, edgeVars
<1>2. UNCHANGED hintVars \/ HintsLost BY Zenon, <1>1 DEF Restarted
<1>3. Working' BY <1>2, WorkingAside, WorkingLost DEF Ordering
<1> QED BY Zenon, <1>1, <1>3, OrderingAside

\* Every step of the node, the writer and the edge.
LEMMA OrderingStep == ASSUME Ordering, [Next]_vars PROVE Ordering' /\ Forward
<1>1. CASE WriterStep BY Zenon, <1>1, OrderingWriter
<1>2. CASE RelayStep BY Zenon, <1>2, OrderingRelay
<1>3. CASE AdvertiseStep
  <2>1. UNCHANGED <<site, pubVars, edge, ask, sent>> /\ ProviderStep BY <1>3 DEF AdvertiseStep, edgeVars
  <2> QED BY <2>1, WorkingSteps, OrderingAside DEF Ordering
<1>4. CASE HintStep BY Zenon, <1>4, OrderingOwner
<1>5. CASE ProcessStep BY Zenon, <1>5, OrderingProcess
<1>6. CASE DnsMoves \/ FollowStep \/ CollectorStep \/ SyncStep \/ RetentionStep \/ RuntimeStep \/ PromoteStep \/ HostStep
  <2>1. UNCHANGED <<site, pubVars, relayVars>>
    BY Zenon, <1>6 DEF DnsMoves, FollowStep, CollectorStep, SyncStep, RetentionStep, RuntimeStep, PromoteStep, HostStep
  <2>2. UNCHANGED <<edge, ask, sent, hintVars>> BY <2>1 DEF relayVars, edgeVars
  <2> QED BY <2>1, <2>2, WorkingAside, OrderingAside DEF Ordering
<1>7. CASE UNCHANGED vars
  <2>1. UNCHANGED <<site, pubVars, relayVars>> BY <1>7 DEF vars
  <2>2. UNCHANGED <<edge, ask, sent, hintVars>> BY Zenon, <2>1 DEF relayVars, edgeVars
  <2> QED BY Zenon, <2>1, <2>2, WorkingAside, OrderingAside DEF Ordering
<1> QED BY <1>1, <1>2, <1>3, <1>4, <1>5, <1>6, <1>7 DEF Next

\* The inductive invariant of all that follows.
THEOREM OrderingHolds == Spec => []Ordering
<1> QED BY OrderingInit, OrderingStep, PTL DEF Spec

\* A record's number may be trusted: through failed puts, retries, crashes and the relay,
\* none names two documents and no higher one an older document (Publish, nextSeq,
\* applyLocked).
THEOREM NumbersAreTrusted == Spec => []RecordsOrdered
<1>1. Ordering => RecordsOrdered
  <2>1. recs \subseteq Issued BY DEF Issued
  <2> QED BY Zenon, <2>1 DEF Ordering, Numbering, Sorted, RecordsOrdered
<1> QED BY <1>1, OrderingHolds, PTL

\* Unless an old copy of its data directory is restored, a writer's revisions only rise and
\* none is used twice (PublicationStore.Next, buildPublication).
THEOREM RevisionsRise == Spec => []DocumentsOrdered
<1>1. Ordering => DocumentsOrdered BY Zenon DEF Ordering, Dating, DocumentsOrdered
<1> QED BY <1>1, OrderingHolds, PTL

\* The edge never hands the DHT a record below the last one: not for a request admitted
\* late, not for a restore raced by a newer one (applyLocked, persistState, Restore).
THEOREM RelayGoesForward == Spec => RelayNeverRegresses
<1>1. Ordering /\ [Next]_vars => [sent'.last # sent.last /\ sent.last # None => sent'.last.seq >= sent.last.seq]_<<edge, sent>>
  BY OrderingStep DEF Forward
<1> QED BY <1>1, OrderingHolds, PTL DEF Spec, RelayNeverRegresses

\* The worker never blocks on a schedule it has not applied (updatePointers, waitOrUpdate).
THEOREM WakeupsKept == Spec => []NoLostWakeup
<1>1. Ordering => NoLostWakeup BY DEF Ordering, Working, NoLostWakeup
<1> QED BY <1>1, OrderingHolds, PTL

\* What the metrics call fresh was provided since it was scheduled: a call that outlives a
\* reschedule of its pointer counts for nothing (recordPointerSuccess).
THEOREM FreshnessEarned == Spec => []FreshIsProvided
<1>1. Ordering => FreshIsProvided BY Zenon DEF Ordering, Working, FreshIsProvided
<1> QED BY <1>1, OrderingHolds, PTL

-----------------------------------------------------------------------------
\* The other components leave the follower's decisions alone.
LEMMA Aside ==
  ASSUME IInv, UNCHANGED <<site, cp, up, role, poll>>
  PROVE  IInv' /\ Onward
BY DEF IInv, Typed, IsPoll, Decodes, Exclusive, Holds, Preflighted, Ahead, Onward

\* A follower begins with nothing accepted and no poll.
LEMMA InitEstablishes == Init => IInv
<1> SUFFICES ASSUME Init PROVE IInv BY Zenon
<1>1. cp = [h \in Kinds |-> NoCheckpoint] /\ up = "down" /\ poll = [p \in site.pollers |-> IdlePoll]
  BY Zenon DEF Init, FollowerInit
<1>2. IsPoll(IdlePoll) /\ IdlePoll.pc = "idle" BY Zenon DEF IsPoll, IdlePoll
<1>3. \A p \in site.pollers : poll[p] = IdlePoll BY Zenon, <1>1
<1>4. Typed BY <1>1, <1>2, <1>3 DEF Typed, Kinds, NoCheckpoint
<1> QED BY Zenon, <1>1, <1>2, <1>3, <1>4 DEF IInv, Exclusive, Preflighted, Holds

\* Every step keeps the inductive invariant and takes no coverage back.
LEMMA StepKeeps == IInv /\ [Next]_vars => IInv' /\ Onward
<1> SUFFICES ASSUME IInv, [Next]_vars PROVE IInv' /\ Onward BY Zenon
<1>1. CASE Beside
  <2>1. UNCHANGED <<site, cp, up, role, poll>> BY Zenon, <1>1, BesideNode DEF nodeVars, followVars, durVars, promotionVars
  <2> QED BY Zenon, <2>1, Aside
<1>2. CASE DnsMoves \/ HintStep \/ CollectorStep \/ SyncStep \/ RetentionStep \/ RuntimeStep
  <2>1. UNCHANGED <<site, cp, up, role, poll>>
    BY Zenon, <1>2 DEF DnsMoves, HintStep, CollectorStep, SyncStep, RetentionStep, RuntimeStep, followVars, durVars, promotionVars
  <2> QED BY Zenon, <2>1, Aside
<1>5. CASE FollowStep
  <2>1. role = "follow" /\ UNCHANGED <<site, role>> BY Zenon, <1>5 DEF FollowStep
  <2>2. PICK p \in site.pollers :
          \/ Resolve(p) \/ Admit(p) \/ Protect(p) \/ ProtectWalk(p) \/ ProtectProof(p)
          \/ Prepare(p) \/ Prepared(p) \/ Commit(p) \/ Install(p) \/ Retire(p) \/ Retired(p)
    BY Zenon, <1>5 DEF FollowStep, PollStep
  <2>3. CASE Commit(p) BY <2>1, <2>3, KeepsCommit
  <2>4. CASE ~Commit(p)
    <3>1. IInv' /\ cp' = cp
      BY <2>1, <2>2, <2>4, KeepsResolve, KeepsAdmit, KeepsProtection, KeepsInstall
    <3> QED BY Zenon, <3>1 DEF Onward
  <2> QED BY <2>3, <2>4
<1>11. CASE ProcessStep
  <2>1. UNCHANGED <<site, role, cp>> BY Zenon, <1>11 DEF ProcessStep, Start, Recovered, Resume, Crash, durVars, promotionVars
  <2> QED BY <1>11, <2>1, KeepsProcess DEF ProcessStep, Onward
<1>12. CASE PromoteStep BY Zenon, <1>12, KeepsPromotion DEF PromoteStep
<1> QED BY Zenon, <1>1, <1>2, <1>5, <1>11, <1>12 DEF Next, Beside

\* One poll at a time decides, on a document that was compared with what it replaces
\* (admit under transitionMu).
THEOREM Invariance == Spec => []IInv
<1>1. Init => IInv BY Zenon, InitEstablishes
<1>2. IInv /\ [Next]_vars => IInv' BY Zenon, StepKeeps
<1> QED BY <1>1, <1>2, PTL DEF Spec

\* No step of any behaviour takes finalized coverage back: not a replayed or delayed
\* document, a second poller, a withdrawal and return, a crash at any point or a
\* promotion (preflightEntry, preflightWithdrawal, ReconcileWriterPromotion).
THEOREM CoverageNeverRetreats == Spec => CoverageStays
<1>1. IInv /\ [Next]_vars => [Onward]_vars BY Zenon, StepKeeps
<1> QED BY <1>1, Invariance, PTL DEF Spec, CoverageStays, Onward

-----------------------------------------------------------------------------
\* Every step.

\* A step of another component.
LEMMA HeldAside ==
  ASSUME SInv, UNCHANGED <<site, cp, seq, up, poll, adopted, fetched, have, col, memo, walk, mirror, role>>
  PROVE  SInv'
<1>1. Authenticated' BY Zenon DEF SInv, Authenticated, Authentic, Holds
<1>2. Serving' BY Zenon, ServingQuiet DEF SInv
<1>3. Mirroring' BY Zenon DEF SInv, Mirroring
<1>4. Joins BY Zenon, JoinsNothing DEF SInv
<1>5. Collecting' BY Zenon DEF SInv, Collecting, Guarded, Active, Closure, Index, Blob
<1>6. Walking' BY Zenon, <1>4, WalkingJoins DEF SInv
<1>7. Fetching' BY <1>4, FetchingJoins DEF SInv
<1> QED BY <1>1, <1>2, <1>3, <1>5, <1>6, <1>7 DEF SInv

\* A follower begins with nothing recorded, served or held.
LEMMA HeldInit == Init => SInv
<1> SUFFICES ASSUME Init PROVE SInv BY Zenon
<1>1. /\ cp = [h \in Kinds |-> NoCheckpoint] /\ seq = [a \in site.signers |-> 0] /\ up = "down"
      /\ poll = [p \in site.pollers |-> IdlePoll] /\ mirror = None /\ role = "follow"
      /\ adopted = [h \in Kinds |-> None] /\ fetched = [h \in Kinds |-> None] /\ have = {}
      /\ col = IdleCol(0) /\ memo = EmptyMemo /\ walk = IdleWalk /\ site \in Sites
  BY Zenon DEF Init, FollowerInit, SyncInit, PromotionInit
<1>2. /\ site.heads \subseteq Kinds /\ (site.external => ~site.gc /\ ~site.full) /\ (site.promote => "fin" \in site.heads)
      /\ None \notin Mislabelled
  BY <1>1, HeadsAssumption, NoneAssumption
<1>3. IdlePoll.pc = "idle" /\ IdlePoll.doc = None /\ IdlePoll.obs = None BY Zenon DEF IdlePoll
<1>4. \A p \in site.pollers : poll[p].pc = "idle" /\ poll[p].doc = None /\ poll[p].obs = None BY Zenon, <1>1, <1>3
<1>5. Authenticated
  <2>1. \A p \in site.pollers : Authentic(poll[p]) BY Zenon, <1>4 DEF Authentic, Holds
  <2>2. seq = [a \in site.signers |-> seq[a]] /\ \A a \in site.signers : seq[a] \in Nat BY Zenon, <1>1
  <2> QED BY Zenon, <2>1, <2>2 DEF Authenticated
<1>6. Serving
  <2>1. DOMAIN adopted = Kinds /\ \A h \in Kinds : adopted[h] = None BY Zenon, <1>1
  <2> QED BY <1>1, <1>2, <1>4, <2>1 DEF Serving, Recorded
<1>7. Mirroring
  <2>1. ~NoCheckpoint.sel BY Zenon DEF NoCheckpoint
  <2>2. ~cp["fin"].sel BY Zenon, <1>1, <2>1 DEF Kinds
  <2> QED BY <1>1, <1>2, <2>2 DEF Mirroring
<1>8. Collecting
  <2>1. /\ col = [gen |-> col.gen, stage |-> col.stage, mark |-> col.mark, touched |-> col.touched, scrub |-> col.scrub]
        /\ col.gen = 0 /\ col.stage = "idle" /\ col.scrub = None
    BY Zenon, <1>1 DEF IdleCol
  <2> QED BY <1>1, <2>1 DEF Collecting, Active
<1>9. Walking
  <2>1. /\ walk = [pc |-> walk.pc, head |-> walk.head, root |-> walk.root, gen |-> walk.gen]
        /\ walk.pc = "idle" /\ walk.gen = 0
    BY Zenon, <1>1 DEF IdleWalk
  <2>2. col.gen = 0 BY Zenon, <1>1 DEF IdleCol
  <2>3. DOMAIN memo = {} BY Zenon, <1>1 DEF EmptyMemo
  <2> QED BY <2>1, <2>2, <2>3 DEF Walking
<1>10. Fetching
  <2>1. walk.pc = "idle" BY Zenon, <1>1 DEF IdleWalk
  <2>2. DOMAIN fetched = Kinds /\ \A h \in Kinds : fetched[h] = None /\ adopted[h] = None BY Zenon, <1>1
  <2> QED BY <1>1, <1>2, <2>1, <2>2 DEF Fetching
<1> QED BY <1>5, <1>6, <1>7, <1>8, <1>9, <1>10 DEF SInv

\* What NeverRewound says of one step.
Forth == role = "write" /\ mirror # None => mirror' # None /\ mirror' >= mirror

\* Every step keeps it, and no writer's mirror goes back.
LEMMA HeldStep ==
  ASSUME IInv, IInv', Ordering, SInv, [Next]_vars
  PROVE  SInv' /\ (Forth \/ UNCHANGED <<mirror, role>>)
<1>1. CASE Beside
  <2>1. UNCHANGED <<site, cp, seq, up, poll, adopted, fetched, have, col, memo, walk, mirror, role>>
    BY Zenon, <1>1, BesideNode DEF nodeVars, syncVars, followVars, durVars, promotionVars
  <2> QED BY Zenon, <2>1, HeldAside
<1>2. CASE DnsMoves \/ HintStep \/ RetentionStep \/ RuntimeStep
  <2>1. UNCHANGED <<site, cp, seq, up, poll, adopted, fetched, have, col, memo, walk, mirror, role>>
    BY Zenon, <1>2 DEF DnsMoves, HintStep, RetentionStep, RuntimeStep, syncVars, followVars, durVars, promotionVars
  <2> QED BY Zenon, <2>1, HeldAside
<1>5. CASE FollowStep
  <2>5. role = "follow" /\ UNCHANGED <<site, role>> /\ PollStep /\ Mirrored BY Zenon, <1>5 DEF FollowStep
  <2>6. \A r \in recs : r.name \in site.signers /\ r.seq \in Nat BY Zenon DEF Ordering, Numbering, IsRecord, Issued
  <2>1. Authenticated' BY <2>5, <2>6, AuthenticPoll DEF SInv
  <2>2. Serving' BY Zenon, <2>5, ServingFollow DEF SInv
  <2>3. Mirroring' BY Zenon, <2>5, MirroringFollow DEF SInv
  <2>4. Collecting' /\ Walking' /\ Fetching' BY Zenon, <2>5, HeldFollow DEF SInv
  <2> QED BY <2>1, <2>2, <2>3, <2>4, <2>5 DEF SInv, Forth
<1>7. CASE CollectorStep
  <2>1. UNCHANGED <<site, cp, seq, up, poll, mirror, role>> /\ up = "on" /\ Collects
    BY Zenon, <1>7 DEF CollectorStep, Collects, followVars, durVars, promotionVars
  <2>2. UNCHANGED adopted BY Zenon, <2>1 DEF Collects, Mark, Cut, SweepBlock, EndEpoch, ScrubBegin, ScrubEnd
  <2>3. Authenticated' BY Zenon, <2>1 DEF SInv, Authenticated, Authentic, Holds
  <2>4. Serving' BY <2>1, <2>2, ServingQuiet DEF SInv
  <2>5. Mirroring' BY Zenon, <2>1 DEF SInv, Mirroring
  <2>6. Collecting' /\ Walking' /\ Fetching' BY Zenon, <2>1, HeldCollector DEF SInv
  <2> QED BY <2>1, <2>3, <2>4, <2>5, <2>6 DEF SInv
<1>8. CASE SyncStep
  <2>0. SyncBlob(~Locked /\ told = {}) => SyncBlob(~Locked) BY Zenon DEF SyncBlob
  <2>1. UNCHANGED <<site, cp, seq, up, poll, mirror, role>> /\ up = "on" /\ role = "follow" /\ Syncs
    BY Zenon, <1>8, <2>0 DEF SyncStep, Syncs, followVars, durVars, promotionVars
  <2>2. UNCHANGED adopted BY Zenon, <2>1 DEF Syncs, SyncStart, SyncIndex, SyncBlob, SyncStamp, SyncFails
  <2>3. Authenticated' BY Zenon, <2>1 DEF SInv, Authenticated, Authentic, Holds
  <2>4. Serving' BY <2>1, <2>2, ServingQuiet DEF SInv
  <2>5. Mirroring' BY Zenon, <2>1 DEF SInv, Mirroring
  <2>6. Collecting' /\ Walking' /\ Fetching' BY Zenon, <2>1, HeldSync DEF SInv
  <2> QED BY <2>1, <2>3, <2>4, <2>5, <2>6 DEF SInv
<1>11. CASE ProcessStep
  <2>1. UNCHANGED <<site, mirror, role>> /\ Restarts BY Zenon, <1>11 DEF ProcessStep, Restarts, promotionVars
  <2>2. Authenticated'
    <3>1. UNCHANGED seq BY Zenon, <2>1 DEF Restarts, Start, Recovered, Resume, Crash, durVars
    <3>2. CASE Crash
      <4>1. PICK x : x = IdlePoll BY Zenon
      <4>2. x.doc = None /\ x.obs = None /\ x.pc = "idle" BY Zenon, <4>1 DEF IdlePoll
      <4>3. \A p \in site.pollers : poll'[p] = x BY Zenon, <3>2, <4>1 DEF Crash
      <4>4. \A p \in site.pollers : poll'[p].doc = None /\ poll'[p].obs = None /\ poll'[p].pc = "idle" BY Zenon, <4>2, <4>3
      <4> QED BY <2>1, <3>1, <4>4 DEF SInv, Authenticated, Authentic, Holds
    <3>3. CASE ~Crash
      <4>1. UNCHANGED poll BY Zenon, <2>1, <3>3 DEF Restarts, Start, Recovered, Resume
      <4> QED BY <2>1, <3>1, <4>1 DEF SInv, Authenticated, Authentic, Holds
    <3> QED BY <3>2, <3>3
  <2>3. Serving' /\ Mirroring' BY Zenon, <2>1, ServingProcess DEF SInv
  <2>4. Collecting' /\ Walking' /\ Fetching' BY Zenon, <2>1, HeldProcess DEF SInv
  <2> QED BY <2>1, <2>2, <2>3, <2>4 DEF SInv
<1>12. CASE PromoteStep
  <2>1. UNCHANGED <<site, seq, poll>> /\ site.promote /\ PromotionStep BY Zenon, <1>12 DEF PromoteStep, PromotionStep
  <2>2. Authenticated' BY Zenon, <2>1 DEF SInv, Authenticated, Authentic, Holds
  <2>3. Serving' /\ Mirroring' /\ Forth BY Zenon, <2>1, ServingPromotion DEF SInv, Forth
  <2>4. Collecting' /\ Walking' /\ Fetching' BY Zenon, <2>1, HeldPromotion DEF SInv
  <2> QED BY <2>2, <2>3, <2>4 DEF SInv
<1> QED BY Zenon, <1>1, <1>2, <1>5, <1>7, <1>8, <1>11, <1>12 DEF Next, Beside

\* What is recorded, served and held, in every reachable state.
THEOREM HeldInvariance == Spec => []SInv
<1>1. IInv /\ IInv' /\ Ordering /\ SInv /\ [Next]_vars => SInv' BY Zenon, HeldStep
<1> QED BY <1>1, HeldInit, Invariance, OrderingHolds, PTL DEF Spec

\* A document goes in only with a record at or above every sequence its name was seen at,
\* however two polls raced (admit).
THEOREM ReplaysRefused == Spec => []NoReplayedRecord
<1>1. SInv => NoReplayedRecord BY DEF SInv, Authenticated, Authentic, Holds, NoReplayedRecord
<1> QED BY <1>1, HeldInvariance, PTL

\* What is served is what a restart serves (commitPlans, AdoptBatch, OpenHead).
THEOREM DurableBeforeVisible == Spec => []ServedIsDurable
<1>1. SInv => ServedIsDurable
  <2> SUFFICES ASSUME SInv, Settled, NEW h \in site.heads, adopted[h] # None
               PROVE  IF role = "write" THEN mirror = adopted[h] ELSE cp[h].sel /\ cp[h].line = adopted[h]
    BY Zenon DEF ServedIsDurable
  <2>1. CASE role = "write"
    <3>1. h = "fin" /\ up = "on" BY Zenon, <2>1 DEF SInv, Serving, Kinds
    <3> QED BY <2>1, <3>1 DEF SInv, Serving
  <2>2. CASE role # "write" BY Zenon, <2>2 DEF SInv, Serving, Recorded
  <2> QED BY <2>1, <2>2
<1> QED BY <1>1, HeldInvariance, PTL

\* A promoted writer never opens behind what it followed or wrote
\* (ReconcileWriterPromotion).
THEOREM HandoverKeepsLine == Spec => NeverRewound
<1>1. IInv /\ IInv' /\ Ordering /\ SInv /\ [Next]_vars => [Forth]_<<mirror, role>> BY HeldStep
<1> QED BY <1>1, HeldInvariance, Invariance, OrderingHolds, PTL DEF Spec, NeverRewound, Forth

\* A head that reports its closure held has every block of it, through any collections
\* (sync, installHeadPlans, retainForMark).
THEOREM CompletionIsHeld == Spec => []FetchedIsHeld
<1>1. SInv => FetchedIsHeld BY DEF SInv, Fetching, Guarded, FetchedIsHeld
<1> QED BY <1>1, HeldInvariance, PTL

\* No block a scrub listed is collected under it (acquireMaintenance).
THEOREM ScrubsAreUndisturbed == Spec => []ScrubTellsTrue
<1>1. SInv => ScrubTellsTrue BY DEF SInv, Collecting, ScrubTellsTrue
<1> QED BY <1>1, HeldInvariance, PTL

\* Under full verification a complete head is a verified one (protectAdoptionClosure,
\* commit).
THEOREM CompletionIsVerified == Spec => []CompleteIsVerified
<1>1. SInv => CompleteIsVerified BY DEF SInv, Fetching, Serving, CompleteIsVerified
<1> QED BY <1>1, HeldInvariance, PTL

\* A head open for writing has all it retains on disk (checkPromotionCompleteness).
THEOREM WrittenIsHeld == Spec => []PromotedIsHeld
<1>1. SInv => PromotedIsHeld
  <2> SUFFICES ASSUME SInv, role = "write", adopted["fin"] # None PROVE Closure(adopted["fin"]) \subseteq have
    BY Zenon DEF PromotedIsHeld
  <2>1. up = "on" BY Zenon DEF SInv, Serving, Kinds
  <2>2. adopted["fin"] = mirror /\ mirror # None /\ cp["fin"].doc = None BY Zenon, <2>1 DEF SInv, Serving, Mirroring
  <2> QED BY Zenon, <2>2 DEF SInv, Collecting, Guarded
<1> QED BY <1>1, HeldInvariance, PTL
-----------------------------------------------------------------------------
\* What the daemons of a host share.

\* The rest of the node never touches it, and no step changes the deployment.
LEMMA HostAside == ASSUME [Next]_vars PROVE UNCHANGED site /\ (HostStep \/ UNCHANGED hostVars)
<1>1. CASE Beside BY Zenon, <1>1 DEF Beside, WriterStep, RelayStep, AdvertiseStep, HostStep, vars
<1>2. CASE DnsMoves \/ FollowStep \/ HintStep \/ CollectorStep
  BY Zenon, <1>2 DEF DnsMoves, FollowStep, HintStep, CollectorStep
<1>3. CASE SyncStep \/ RetentionStep \/ RuntimeStep \/ ProcessStep \/ PromoteStep
  BY Zenon, <1>3 DEF SyncStep, RetentionStep, RuntimeStep, ProcessStep, PromoteStep
<1> QED BY Zenon, <1>1, <1>2, <1>3 DEF Next, Beside

\* The invariants of the key file, the rendezvous service and the limiter.
THEOREM HostInvariance == Spec => [](KeyInv /\ MeetInv /\ LimitInv)
<1>1. Init => KeyInv /\ MeetInv /\ LimitInv
  <2> SUFFICES ASSUME Init PROVE KeyInv /\ MeetInv /\ LimitInv BY Zenon
  <2>1. site \in Sites /\ IdentityInit /\ RendezvousInit /\ LimiterInit BY Zenon DEF Init
  <2>2. None \notin site.starters /\ None \notin site.keys \X Nat /\ None \notin site.readers /\ None \notin Requests
    BY <2>1, SitesAssumption DEF Requests
  <2> QED BY <2>1, <2>2, KeyInit, MeetInit, LimitInit
<1>2. KeyInv /\ MeetInv /\ LimitInv /\ [Next]_vars => KeyInv' /\ MeetInv' /\ LimitInv'
  <2> SUFFICES ASSUME KeyInv, MeetInv, LimitInv, [Next]_vars PROVE KeyInv' /\ MeetInv' /\ LimitInv' BY Zenon
  <2>1. UNCHANGED site /\ (HostStep \/ UNCHANGED hostVars) BY Zenon, HostAside
  <2>2. IdentityStep \/ UNCHANGED identityVars BY Zenon, <2>1 DEF HostStep, hostVars
  <2>3. RendezvousStep \/ UNCHANGED rendezvousVars BY Zenon, <2>1 DEF HostStep, hostVars
  <2>4. LimiterStep \/ UNCHANGED limiterVars BY Zenon, <2>1 DEF HostStep, hostVars
  <2>5. KeyInv' BY <2>1, <2>2, KeyStep, KeyStutter
  <2>6. MeetInv' BY <2>1, <2>3, MeetStep, MeetStutter
  <2>7. LimitInv' BY <2>1, <2>4, LimitStep, LimitStutter
  <2> QED BY <2>5, <2>6, <2>7
<1> QED BY <1>1, <1>2, PTL DEF Spec

\* A key once returned is the one every later start returns (LoadOrCreateIdentity).
THEOREM KeyStays == Spec => []IdentityStays
<1>1. KeyInv => IdentityStays BY DEF KeyInv
<1> QED BY <1>1, HostInvariance, PTL

\* No crash leaves a key file that must be refused as empty (writeTempIdentity).
THEOREM KeyIsReadable == Spec => []NeverBlank
<1>1. KeyInv => NeverBlank BY DEF KeyInv, Readable, NeverBlank
<1> QED BY <1>1, HostInvariance, PTL

\* No sweep takes a live creator's temp (sweepStaleTemps).
THEOREM TempIsKept == Spec => []LiveTempKept
<1>1. KeyInv => LiveTempKept BY Zenon DEF KeyInv, Private, LiveTempKept
<1> QED BY <1>1, HostInvariance, PTL

\* No change of the host's addresses is lost to the records (run, Refresh).
THEOREM AddressesReachRecords == Spec => []RecordsFollowAddresses
<1>1. MeetInv => RecordsFollowAddresses BY DEF MeetInv, Following, Current, RecordsFollowAddresses
<1> QED BY <1>1, HostInvariance, PTL

\* No peer is dialled twice at once or before its time (round, recordDial).
THEOREM PeersAreSpared == Spec => []DialsSpared
<1>1. MeetInv => DialsSpared BY DEF MeetInv, Sparing, DialsSpared
<1> QED BY <1>1, HostInvariance, PTL

\* Nothing of a closed service still runs (Close).
THEOREM CloseWaits == Spec => []ClosedIsQuiet
<1>1. MeetInv => ClosedIsQuiet BY Zenon DEF MeetInv, Joining, ClosedIsQuiet
<1> QED BY <1>1, HostInvariance, PTL

\* A client that waits as long as it was told is admitted, unless another was meanwhile
\* (admit, retryAfterInteger).
THEOREM AdviceIsHonest == Spec => []RetryIsHonest
<1>1. LimitInv => RetryIsHonest BY LimitAdvises
<1> QED BY <1>1, HostInvariance, PTL

\* A refused or cancelled request has used nothing of what the others share (admit,
\* cancelAt).
THEOREM RefusedPayNothing == Spec => []RefusalsSpendNothing
<1>1. LimitInv => RefusalsSpendNothing BY Zenon, LimitBalances
<1> QED BY <1>1, HostInvariance, PTL

-----------------------------------------------------------------------------
\* The retention ledger and the health gate of a Kubo replica.

\* Every step of the node is one of those for the controller.
LEMMA LedgerAside ==
  ASSUME Next
  PROVE  Undisturbed
<1>1. CASE Beside BY Zenon, <1>1, BesideNode DEF nodeVars, Undisturbed
<1>2. CASE FollowStep \/ ProcessStep BY Zenon, <1>2, FollowerSide DEF FollowStep, ProcessStep
<1>3. CASE DnsMoves \/ HintStep \/ CollectorStep \/ SyncStep
  BY Zenon, <1>3 DEF DnsMoves, HintStep, CollectorStep, SyncStep, Undisturbed
<1>4. CASE RetentionStep \/ RuntimeStep \/ PromoteStep
  BY Zenon, <1>4 DEF RetentionStep, RuntimeStep, PromoteStep, PromotionStep, Undisturbed
<1> QED BY Zenon, <1>1, <1>2, <1>3, <1>4 DEF Next, Beside

\* A replica without generations.
LEMMA LedgerInit == Init => RInv
<1> SUFFICES ASSUME Init PROVE RInv BY Zenon
<1>1. led = NoLedger /\ pins = {} /\ rc = IdleOp BY Zenon DEF Init, CtlInit
<1>2. Safe(led, pins) BY <1>1 DEF Safe, EntriesOf, NoLedger, NoEntry
<1> QED BY <1>1, <1>2 DEF RInv, Operation, UnderName, Underway, Toward, IdleOp

\* The invariant the theorems rest on.
THEOREM LedgerInvariance == Spec => []RInv
<1>1. Init => RInv BY Zenon, LedgerInit
<1>2. RInv /\ [Next]_vars => RInv'
  <2> SUFFICES ASSUME RInv, [Next]_vars PROVE RInv' BY Zenon
  <2>1. CASE Next BY Zenon, <2>1, LedgerAside, ControllerKeeps, BeginKeeps, IdleKeeps, StutterKeeps DEF Undisturbed
  <2>2. CASE UNCHANGED vars BY Zenon, <2>2, StutterKeeps DEF vars, nodeVars
  <2> QED BY Zenon, <2>1, <2>2
<1> QED BY <1>1, <1>2, PTL DEF Spec

\* A crash or a failed RPC never leaves a reserved pin without its ledger entry, which
\* Recover would refuse to touch (Prepare, cleanupLocked).
THEOREM PinsAreRecorded == Spec => []NoOrphanPins
<1>1. RInv => NoOrphanPins
  BY Zenon DEF RInv, Safe, Records, EntriesOf, UnderName, Retained, NoOrphanPins
<1> QED BY <1>1, LedgerInvariance, PTL

\* Every step of the node.
LEMMA HealthStep ==
  ASSUME RInv, HInv, Next
  PROVE  HInv'
<1>1. CASE UNCHANGED runVars BY Zenon, <1>1 DEF runVars, HInv, Watched, Green
<1>2. CASE FollowStep \/ ProcessStep BY <1>2, FollowerKeeps DEF FollowStep, ProcessStep
<1>3. CASE RuntimeStep
  <2>1. CASE ReadBegin \/ ReadEnd BY Zenon, <2>1 DEF ReadBegin, ReadEnd, HInv, Watched, Green
  <2> QED BY <1>3, <2>1, AuditKeeps DEF RuntimeStep
<1>4. CASE Beside BY Zenon, <1>1, <1>4, BesideNode DEF nodeVars
<1>5. CASE DnsMoves \/ HintStep \/ CollectorStep BY Zenon, <1>1, <1>5 DEF DnsMoves, HintStep, CollectorStep
<1>6. CASE SyncStep \/ RetentionStep \/ PromoteStep BY Zenon, <1>1, <1>6 DEF SyncStep, RetentionStep, PromoteStep, PromotionStep
<1> QED BY Zenon, <1>2, <1>3, <1>4, <1>5, <1>6 DEF Next, Beside

\* The health gate is never green for a generation that is no longer the served one,
\* however the audit and the follower interleave (activate, auditActive).
THEOREM HealthFollows == Spec => []HealthIsCurrent
<1>1. Init => HInv BY DEF Init, RunInit, NoHealth, IdleAudit, HInv, Watched, Green
<1>2. RInv /\ HInv /\ [Next]_vars => HInv'
  <2> SUFFICES ASSUME RInv, HInv, [Next]_vars PROVE HInv' BY Zenon
  <2>1. CASE Next BY <2>1, HealthStep
  <2>2. CASE UNCHANGED vars BY Zenon, <2>2 DEF vars, nodeVars, runVars, HInv, Watched, Green
  <2> QED BY <2>1, <2>2
<1>3. HInv => HealthIsCurrent BY Zenon DEF HInv, Green, HealthIsCurrent
<1> QED BY <1>1, <1>2, <1>3, LedgerInvariance, PTL DEF Spec

-----------------------------------------------------------------------------
\* The requests of a replica's gateway.

\* No generation, no operation, no poll and no request.
LEMMA LeaseInit == Init => LInv
<1> SUFFICES ASSUME Init PROVE LInv BY Zenon
<1>1. /\ led = NoLedger /\ rc = IdleOp /\ lease = None /\ poll = [p \in site.pollers |-> IdlePoll]
  BY Zenon DEF Init, CtlInit, RunInit, FollowerInit
<1>2. rc.pc = "idle" /\ rc.op = "none" BY Zenon, <1>1 DEF IdleOp
<1>3. led.cur.gen = None /\ led.cur.owned = FALSE /\ led.pend.owned = FALSE BY Zenon, <1>1 DEF NoLedger, NoEntry
<1>4. Anchored BY <1>2, <1>3 DEF Anchored, Apart, Toward
<1>5. Leased /\ Driven /\ Going BY Zenon, <1>1, <1>2 DEF Leased, Driven, Going
<1>6. Retaining
  <2>1. IdlePoll.pc = "idle" /\ IdlePoll.doc = None BY Zenon DEF IdlePoll
  <2>2. Retains(IdlePoll) BY Zenon, <2>1 DEF Retains, Holds
  <2> QED BY Zenon, <1>1, <2>2 DEF Retaining
<1> QED BY Zenon, <1>4, <1>5, <1>6 DEF LInv

\* Every step keeps what the requests rely on.
LEMMA LeaseStep ==
  ASSUME IInv, SInv, Ordering, RInv, LInv, [Next]_vars
  PROVE  LInv'
<1>1. Serving /\ (\A d \in docs : d.rev \in Nat) /\ (\A r \in recs : r.doc \in docs)
  BY Zenon DEF SInv, Ordering, Numbering, IsDoc, IsRecord, Issued
<1>2. CASE FollowStep BY Zenon, <1>1, <1>2, RetainsPoll DEF FollowStep
<1>3. CASE RetentionStep BY Zenon, <1>3, RetainsController DEF RetentionStep, syncVars, runVars, followVars, durVars
<1>4. CASE RuntimeStep BY Zenon, <1>4, RetainsRuntime DEF RuntimeStep, syncVars, followVars, durVars
<1>5. CASE ProcessStep BY Zenon, <1>5, RetainsProcess DEF ProcessStep, Restarts
<1>6. CASE PromoteStep BY Zenon, <1>1, <1>6, RetainsPromotion DEF PromoteStep
<1>7. CASE Beside
  BY Zenon, <1>7, BesideNode, RetainsQuiet DEF nodeVars, syncVars, runVars, followVars, durVars
<1>9. CASE DnsMoves \/ HintStep
  BY Zenon, <1>9, RetainsQuiet DEF DnsMoves, HintStep, syncVars, runVars, followVars, durVars
<1>10. CASE CollectorStep \/ SyncStep
  <2>1. UNCHANGED <<site, ctlVars, lease, up, poll, cp>>
    BY Zenon, <1>10 DEF CollectorStep, SyncStep, runVars, followVars, durVars
  <2>2. UNCHANGED adopted
    BY Zenon, <1>10 DEF CollectorStep, SyncStep, Mark, Cut, SweepBlock, EndEpoch, ScrubBegin, ScrubEnd,
                        SyncStart, SyncIndex, SyncBlob, SyncStamp, SyncFails
  <2> QED BY Zenon, <2>1, <2>2, RetainsQuiet
<1> QED BY Zenon, <1>2, <1>3, <1>4, <1>5, <1>6, <1>7, <1>9, <1>10 DEF Next, Beside

\* What the requests rely on, in every reachable state.
THEOREM LeaseInvariance == Spec => []LInv
<1>1. IInv /\ SInv /\ Ordering /\ RInv /\ LInv /\ [Next]_vars => LInv' BY Zenon, LeaseStep
<1> QED BY <1>1, LeaseInit, Invariance, HeldInvariance, OrderingHolds, LedgerInvariance, PTL DEF Spec

\* A request that selected a committed generation keeps its pin to the end, whatever is
\* adopted, cleaned up or fails meanwhile (Gate.Barrier before Retention.Commit).
THEOREM RequestsStayPinned == Spec => []LeasedStaysPinned
<1>1. LInv => LeasedStaysPinned
  <2> SUFFICES ASSUME LInv, lease # None, lease.firm PROVE \E p \in pins : <<"fin", lease.root>> \in p.gen.heads
    BY Zenon DEF LeasedStaysPinned
  <2>1. led.cur.gen # None /\ <<"fin", lease.root>> \in led.cur.gen.heads BY Zenon DEF LInv, Leased
  <2>2. Ours(led.cur.gen) \in pins BY Zenon, <2>1 DEF LInv, Anchored
  <2>3. Ours(led.cur.gen).gen = led.cur.gen BY Zenon DEF Ours
  <2> QED BY Zenon, <2>1, <2>2, <2>3
<1> QED BY <1>1, LeaseInvariance, PTL

-----------------------------------------------------------------------------
\* The pointer hints of a daemon.

\* No edge shares the schedule, and no promotion changes what is served.
Alone == site.hints => ~site.edge /\ ~site.promote

\* Nothing is served or scheduled.
LEMMA HintsInit == Init => Alone /\ HintInv
<1> SUFFICES ASSUME Init PROVE Alone /\ HintInv BY Zenon
<1>1. site \in Sites /\ OwnerInit /\ HintInit /\ up = "down" BY Zenon DEF Init, FollowerInit
<1>2. Alone BY Zenon, <1>1, HintsAssumption DEF Alone
<1> QED BY Zenon, <1>1, <1>2, HintsBegin

\* A poll changes what is served only where it ends with a report (admit,
\* notifyServiceabilityChanged).
LEMMA HintsFollow == ASSUME IInv, HintInv, FollowStep PROVE HintInv'
<1>1. told = {} /\ Reported /\ PollStep /\ UNCHANGED <<site, want>> BY Zenon DEF FollowStep, relayVars, hintVars
<1>2. PICK p \in site.pollers :
        \/ Resolve(p) \/ Admit(p) \/ Protect(p) \/ ProtectWalk(p) \/ ProtectProof(p)
        \/ Prepare(p) \/ Prepared(p) \/ Commit(p) \/ Install(p) \/ Retire(p) \/ Retired(p)
  BY Zenon, <1>1 DEF PollStep
<1>3. CASE Install(p)
  <2>1. poll[p].pc = "install" /\ UNCHANGED up BY Zenon, <1>3 DEF Install
  <2>2. up = "on" BY Zenon, <2>1 DEF IInv, Exclusive
  <2>3. poll'[p].pc # "install"
    <3>1. PICK x : x = poll[p] BY Zenon
    <3>2. x = [pc |-> x.pc, doc |-> x.doc, via |-> x.via, obs |-> x.obs, eq |-> x.eq, tok |-> x.tok]
          /\ poll = [q \in site.pollers |-> poll[q]]
      BY Zenon, <3>1 DEF IInv, Typed, IsPoll
    <3>3. poll'[p] = IdlePoll \/ poll'[p] = [x EXCEPT !.pc = "barrier"] BY SMTT(15), <1>3, <3>1, <3>2 DEF Install, Leave
    <3>4. [x EXCEPT !.pc = "barrier"].pc = "barrier" BY Zenon, <3>2
    <3>5. IdlePoll.pc = "idle" BY Zenon DEF IdlePoll
    <3> QED BY Zenon, <3>3, <3>4, <3>5
  <2>4. p \in Installing BY Zenon, <2>1 DEF Installing
  <2>5. Adopts BY Zenon, <2>3, <2>4 DEF Adopts
  <2> QED BY Zenon, <1>1, <2>1, <2>2, <2>5, HintsReport
<1>4. CASE ~Install(p)
  <2>1. UNCHANGED <<up, adopted>>
    BY Zenon, <1>2, <1>4 DEF Resolve, Admit, Protect, ProtectWalk, ProtectProof, Prepare, Prepared, Commit, Retire, Retired, headVars
  <2>2. Resolve(p) \/ poll[p].pc # "idle"
    BY Zenon, <1>2, <1>4 DEF Admit, Protect, ProtectWalk, ProtectProof, Prepare, Prepared, Commit, Retire, Retired
  <2>3. up = "on" BY Zenon, <2>2 DEF Resolve, IInv, Exclusive
  <2> QED BY Zenon, <1>1, <2>1, <2>3, HintsReport
<1> QED BY Zenon, <1>3, <1>4

\* Every step of the node.
LEMMA HintsStep == ASSUME IInv, Alone, HintInv, [Next]_vars PROVE Alone' /\ HintInv'
<1>1. UNCHANGED site BY Zenon, HostAside
<1> SUFFICES HintInv' BY Zenon, <1>1 DEF Alone
<1>3. CASE WriterStep \/ HostStep \/ UNCHANGED vars
  <2>1. UNCHANGED <<hs, told, adrift, want, up, adopted, quar>>
    BY Zenon, <1>3 DEF WriterStep, HostStep, vars, nodeVars, syncVars, followVars, ownerVars, relayVars, hintVars
  <2> QED BY Zenon, <1>1, <2>1, HintsQuiet
<1>4. CASE AdvertiseStep
  <2>1. UNCHANGED <<hs, told, adrift, up, adopted, quar>> BY Zenon, <1>4 DEF AdvertiseStep, nodeVars, syncVars, followVars, ownerVars
  <2>2. UNCHANGED want
    BY Zenon, <1>4 DEF AdvertiseStep, ProviderStep, Snapshot, Pick, Woken, Timer, CheckPointer, CallDone
  <2> QED BY Zenon, <1>1, <2>1, <2>2, HintsQuiet
<1>5. CASE RelayStep \/ PromoteStep BY Zenon, <1>1, <1>5 DEF RelayStep, PromoteStep, Alone, HintInv
<1>6. CASE DnsMoves \/ RetentionStep \/ RuntimeStep
  <2>1. UNCHANGED <<hs, told, adrift, want, up, adopted, quar>>
    BY Zenon, <1>6 DEF DnsMoves, RetentionStep, RuntimeStep, syncVars, followVars, ownerVars, relayVars, hintVars
  <2> QED BY Zenon, <1>1, <2>1, HintsQuiet
<1>7. CASE CollectorStep
  <2>1. UNCHANGED <<hs, told, adrift, want, up>> BY Zenon, <1>7 DEF CollectorStep, followVars, ownerVars, relayVars, hintVars
  <2>2. UNCHANGED <<adopted, quar>> BY Zenon, <1>7 DEF CollectorStep, Mark, Cut, SweepBlock, EndEpoch, ScrubBegin, ScrubEnd
  <2> QED BY Zenon, <1>1, <2>1, <2>2, HintsQuiet
<1>8. CASE SyncStep
  <2>1. up = "on" /\ Reported /\ UNCHANGED <<want, up, poll>> BY Zenon, <1>8 DEF SyncStep, followVars, relayVars, hintVars
  <2>2. UNCHANGED adopted BY Zenon, <1>8 DEF SyncStep, SyncStart, SyncIndex, SyncBlob, SyncStamp, SyncFails
  <2>3. told # {} => UNCHANGED quar BY Zenon, <1>8 DEF SyncStep, SyncStart, SyncIndex, SyncBlob, SyncStamp, SyncFails
  <2>4. ~Adopts BY Zenon, <2>1 DEF Adopts, Installing
  <2>5. UNCHANGED adrift BY Zenon, <2>1, <2>4 DEF Reported, ownerVars
  <2> QED BY Zenon, <1>1, <2>1, <2>2, <2>3, <2>5, HintsReport
<1>9. CASE HintStep
  <2>1. site.hints /\ OwnerStep /\ UNCHANGED <<up, adopted, quar>> BY Zenon, <1>9 DEF HintStep, syncVars, followVars
  <2>2. UNCHANGED adrift
    BY Zenon, <2>1 DEF OwnerStep, OwnMoves, LocalTakes, FollowerTakes, StageOwned, SwapOwned, SettleOwned
  <2> QED BY Zenon, <1>1, <2>1, <2>2, HintsOwner
<1>10. CASE ProcessStep
  <2>1. Restarted /\ (up' = "down" \/ up # "on") BY Zenon, <1>10 DEF ProcessStep, Start, Recovered, Resume, Crash
  <2> QED BY Zenon, <1>1, <2>1, HintsProcess
<1>11. CASE FollowStep BY Zenon, <1>11, HintsFollow
<1> QED BY Zenon, <1>3, <1>4, <1>5, <1>6, <1>7, <1>8, <1>9, <1>10, <1>11 DEF Next

\* The two parts of the schedule, in every reachable state.
THEOREM HintsInvariance == Spec => [](Alone /\ HintInv)
<1>1. IInv /\ Alone /\ HintInv /\ [Next]_vars => Alone' /\ HintInv' BY Zenon, HintsStep
<1> QED BY <1>1, HintsInit, Invariance, PTL DEF Spec

\* At rest the schedule is what the registry serves, whichever of the writer and the
\* follower reported last and whatever was replaced meanwhile (replaceAllLocked,
\* RefreshFollowed).
THEOREM HintsFollowRegistry == Spec => []HintsMatchRegistry
<1>1. HintInv => HintsMatchRegistry BY Zenon, HintsRest
<1> QED BY <1>1, HintsInvariance, PTL
================================================================================
