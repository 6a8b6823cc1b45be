------------------------------ MODULE HeadRegistry -----------------------------
(***************************************************************************)
(* The heads a bloard writer serves and the operations that change them    *)
(* (server/heads.go, generations.go, manifest.go and their HTTP handlers). *)
(*                                                                         *)
(* all    is a finalized-monotonic head without a manifest chain;          *)
(* chn    is a filtered finalized head bound to its manifest tip;          *)
(* gen    is the generation record of a mutable head whose handoff is all. *)
(* A head value is [synced, rows]; its root CID stands for exactly that    *)
(* value, so root equality is value equality.  Every change happens under  *)
(* Heads.mu and is durable before it is visible; a finalized head's entry  *)
(* in the registry is what the disk holds, the mutable head's is the       *)
(* generation exposed last.  Of the in-process lineage token the model     *)
(* keeps what the code asks of it: whether the mutable entry's token is    *)
(* absent, is the finalized entry's, or is one it no longer has.           *)
(***************************************************************************)
EXTENDS BeaconChain, Sequences

CONSTANT MaxWindow \* the mutable head's max_window_slots

VARIABLES
  site,   \* the deployment, fixed: [blocks, origin, checkpoint, mirror, fetch, clients,
          \* indexers, faulty, limit]: blocks bounds the heads and checkpoints to come, the
          \* last two which parts fail and how often
  faults, \* crashes, lost answers, header misses and rewrites so far
  all,    \* the ALL head: [synced, rows], synced = -1 before the first batch
  chn,    \* the filtered head
  tip,    \* the filtered head's manifest tip: the schedules published, newest last
  gen,    \* GenerationState, the durable selector: [n, claim, handoff]
  entry,  \* the generation the mutable head's registry entry serves
  link,   \* the mutable entry's proofLineage: "none", "same" or "stale"
  stored, \* the blobs PutBlobs has stored
  calls,  \* ReplaceGeneration requests inside the server
  reply   \* the answer on its way to the tracker, or None

regVars == <<all, chn, tip, gen, entry, link, stored, calls, reply>>

Origin == site.origin
Fault(part) == part \in site.faulty /\ faults < site.limit /\ faults' = faults + 1
Uncovered == -1
EmptyHead == [synced |-> Uncovered, rows |-> [s \in Slot |-> {}]]
NoGeneration == [n |-> 0, claim |-> None, handoff |-> None]

\* OpenHeadKind, NewHeads, Add on a fresh data directory.
RegistryInit ==
  /\ all = EmptyHead /\ chn = EmptyHead /\ tip = <<>> /\ gen = NoGeneration
  /\ entry = NoGeneration /\ link = "none" /\ stored = {} /\ calls = {} /\ reply = None

\* handlePutBlobs
PutBlobs(blobs) == stored' = stored \cup blobs

-----------------------------------------------------------------------------
\* Finalized heads.  A batch is a function from slots to nonempty rows.

\* archive.ApplyRefs accepts: every blob is stored, and the batch either lies
\* wholly above the coverage or is an exact replay.
Applies(h, rows, to) ==
  /\ UNION {rows[s] : s \in DOMAIN rows} \subseteq stored
  /\ IF to > h.synced THEN \A s \in DOMAIN rows : s > h.synced
                      ELSE \A s \in DOMAIN rows : h.rows[s] = rows[s]

Applied(h, rows, to) ==
  IF to <= h.synced THEN h
  ELSE [synced |-> to, rows |-> [s \in Slot |-> IF s \in DOMAIN rows THEN rows[s] ELSE h.rows[s]]]

\* Heads.ApplyRefs on the ALL head: chainless, so expected_manifest is absent.
\* The finalized lineage survives an append.
ApplyAll(rows, to) ==
  /\ Applies(all, rows, to)
  /\ all' = Applied(all, rows, to)

\* checkManifestBinding on the head that has a chain.
BoundTo(expected) == tip # <<>> /\ expected = tip

ApplyChn(rows, to, expected) ==
  /\ BoundTo(expected) /\ Applies(chn, rows, to)
  /\ chn' = Applied(chn, rows, to)

TruncatedAt(h, to) == [synced |-> to, rows |-> [s \in Slot |-> IF s <= to THEN h.rows[s] ELSE {}]]

\* A rewrite gives the finalized entry a new lineage token: no captured one is it.
RotateLineage ==
  /\ link' = IF link = "same" THEN "stale" ELSE link
  /\ calls' = {[c EXCEPT !.same = FALSE] : c \in calls}

\* Heads.Truncate of the ALL head, a real rewrite.
TruncateAll(to) ==
  /\ to < all.synced /\ to >= Origin
  /\ all' = TruncatedAt(all, to) /\ RotateLineage
  /\ UNCHANGED <<chn, tip, gen, entry, stored, reply>>

TruncateChn(to) ==
  /\ to < chn.synced /\ to >= Origin
  /\ chn' = TruncatedAt(chn, to)
  /\ UNCHANGED <<all, tip, gen, entry, link, stored, calls, reply>>

\* Slip: only the predecessor is compared.
ManifestCASPrev(prev, root) == prev = tip

\* SetManifest's two compares, in one critical section.
ManifestCAS(prev, root) == prev = tip /\ root = chn

SetManifest(prev, root, schedule) ==
  /\ ManifestCAS(prev, root)
  /\ tip' = Append(tip, schedule)

-----------------------------------------------------------------------------
\* The mutable head.  A claim is what normalizeGeneration digests: [start, synced,
\* rows, head, fin, handoff], handoff being the ALL head the tracker observed.

\* Slip: a finalized frontier past the claim's finalized slot is let through.
ProofValidUnbounded(g, f, l) ==
  /\ g.n > 0 /\ f.synced # Uncovered /\ l = "same"
  /\ g.handoff.synced <= f.synced
  /\ g.claim.start <= f.synced + 1

\* mutableProofValid: what the registry derives for a mutable entry.
ProofValid(g, f, l) ==
  /\ g.n > 0 /\ f.synced # Uncovered /\ l = "same"
  /\ g.handoff.synced <= f.synced /\ f.synced <= SlotOf[g.claim.fin]
  /\ g.claim.start <= f.synced + 1

\* The registry, and with it the document, serves this generation; GenerationStatus asks
\* about the selected one.
Serving == ProofValid(entry, all, link)
Serves(st) == entry.n = st.n /\ Serving
Exposed == Serves(gen)

\* The request checks that need no state.
WellFormed(c) ==
  /\ c.start <= c.synced /\ c.synced - c.start < MaxWindow
  /\ SlotOf[c.fin] <= c.synced
  /\ c.handoff.synced <= SlotOf[c.fin] /\ c.start <= c.handoff.synced + 1

ExactRetry(c) == c.expected + 1 = gen.n /\ gen.claim = c.claim
Buildable(claim) == UNION {claim.rows[s] : s \in DOMAIN claim.rows} \subseteq stored

\* exposeGenerationLocked: the token the entry has for this generation; without one, only
\* the exact handoff of the commit binds again.
Token(st) ==
  IF entry.n = st.n /\ link # "none" THEN link
  ELSE IF all.synced # Uncovered /\ all = st.handoff THEN "same" ELSE "none"

\* The response a handler writes; a client that went away never reads it.
Answer(c, kind) == reply' = IF c.open THEN [kind |-> kind, n |-> gen'.n] ELSE reply

\* finishGenerationRetryLocked: heal what the committed generation st is still owed,
\* without selecting another one.
FinishRetry(c, st) ==
  /\ calls' = calls \ {c} /\ UNCHANGED gen
  /\ IF Serves(st) THEN UNCHANGED <<entry, link>> /\ Answer(c, "noop")
     ELSE IF ~Buildable(st.claim) THEN UNCHANGED <<entry, link>> /\ Answer(c, "missing")
     ELSE IF ~ProofValid(st, all, Token(st)) THEN UNCHANGED <<entry, link>> /\ Answer(c, "conflict")
     ELSE entry' = st /\ link' = Token(st) /\ Answer(c, "noop")

\* The request ends without any change.
Refuse(c, kind) == calls' = calls \ {c} /\ UNCHANGED <<gen, entry, link>> /\ Answer(c, kind)
Proceed(c, next) == calls' = (calls \ {c}) \cup {next} /\ UNCHANGED <<gen, entry, link, reply>>

\* ReplaceGeneration up to the build.  The selector is read outside the lock: an exact
\* retry goes on with that copy; any other request is validated and binds the observed
\* handoff to the lineage of this process (bindObservedHandoffLocked), in the step of the
\* read, since the selector is compared again after the build.
BeginGeneration(c) ==
  /\ c.stage = "sent"
  /\ IF c.expected # gen.n
     THEN IF ExactRetry(c) THEN Proceed(c, [c EXCEPT !.stage = "retry", !.st = gen]) ELSE Refuse(c, "conflict")
     ELSE IF ~WellFormed(c.claim) THEN Refuse(c, "invalid")
     ELSE IF all = c.claim.handoff /\ all.synced # Uncovered
     THEN Proceed(c, [c EXCEPT !.stage = "built", !.same = TRUE]) ELSE Refuse(c, "conflict")
  /\ UNCHANGED <<all, chn, tip, stored>>

\* finishGenerationRetry
RetryGeneration(c) ==
  /\ c.stage = "retry" /\ FinishRetry(c, c.st)
  /\ UNCHANGED <<all, chn, tip, stored>>

\* validateAdvancedHandoffLocked: the finalized head may only have been appended
\* to since the request bound it, and not past the claim's finality.
AdvancedOK(c) ==
  /\ c.same /\ c.claim.handoff.synced <= all.synced
  /\ all.synced <= SlotOf[c.claim.fin] /\ c.claim.start <= all.synced + 1

Selected(c) == [n |-> gen.n + 1, claim |-> c.claim, handoff |-> all]

\* prospectiveGenerationLocked: the registry as it would be still proves the handoff.
Prospective(c) == ProofValid(Selected(c), all, "same")

\* ReplaceGeneration after the build: the second compare-and-swap, the durable
\* commit of record and root mirror, and the exposure.
FinishGeneration(c) ==
  /\ c.stage = "built"
  /\ IF ~Buildable(c.claim) THEN Refuse(c, "missing")
     ELSE IF c.expected # gen.n THEN IF ExactRetry(c) THEN FinishRetry(c, gen) ELSE Refuse(c, "conflict")
     ELSE IF ~(AdvancedOK(c) /\ Prospective(c)) THEN Refuse(c, "conflict")
     ELSE /\ gen' = Selected(c) /\ entry' = Selected(c) /\ link' = "same"
          /\ calls' = calls \ {c} /\ Answer(c, "ok")
  /\ UNCHANGED <<all, chn, tip, stored>>

\* cohereRegistry on the first registry that holds both heads: bindRestartProof.
RestartBinds == gen.n > 0 /\ all = gen.handoff

\* A crash of the node: disk survives, tokens and handlers do not.
NodeRestart ==
  /\ calls' = {} /\ reply' = None /\ entry' = gen /\ link' = IF RestartBinds THEN "same" ELSE "none"
  /\ UNCHANGED <<all, chn, tip, gen, stored>>

-----------------------------------------------------------------------------
\* resolveLiveSlot: one registry snapshot answers the whole live view.  The
\* finalized head is authoritative for what it covers, present or absent; above
\* it only a generation whose proof holds answers; anything else is unavailable.
Answered(s) ==
  \/ Origin <= s /\ s <= all.synced
  \/ all.synced < s /\ Serving /\ entry.claim.start <= s /\ s <= entry.claim.synced
LiveRow(s) == CASE s <= all.synced -> all.rows[s]
                [] s > all.synced -> IF s \in DOMAIN entry.claim.rows THEN entry.claim.rows[s] ELSE {}
================================================================================
