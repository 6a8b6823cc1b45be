----------------------------- MODULE HeadEngine -----------------------------
(***************************************************************************)
(* The head engine as a state machine: a writer extends, rewinds and       *)
(* resets one head through the operators of HeadIndex.                     *)
(***************************************************************************)
EXTENDS HeadIndex

CONSTANTS
  MaxSlot,      \* bound: the last slot a batch may reach
  MaxAdvance,   \* bound: how many slots one batch may advance coverage
  RowVHs        \* the versioned-hash lists a row may carry

ASSUME HeadEngineAssumption ==
  /\ MaxSlot \in Nat /\ MaxSlot >= OriginSlot /\ MaxAdvance \in Nat \ {0}
  /\ <<>> \notin RowVHs

VARIABLE st     \* the engine's current state: what the Head block encodes

Slot == 0 .. MaxSlot

\* The batches a writer may post next: rows on any set of slots it has not
\* covered yet, or a replay of rows it has.
NewSlots(to) == {x \in OriginSlot .. to : ~st.covered \/ x > st.syncedTo}
Ceiling == LET next == IF st.covered THEN st.syncedTo + MaxAdvance ELSE OriginSlot + MaxAdvance - 1
           IN IF next < MaxSlot THEN next ELSE MaxSlot

vars == <<st>>

Init == st = EmptyState

DoApplyRefs ==
  \E to \in OriginSlot .. Ceiling :
    \E S \in SUBSET NewSlots(to) : \E f \in [S -> RowVHs] :
      LET res == ApplyRefs(st, Batch(f), to)
      IN res.kind # "conflict" /\ st' = res.st

DoTruncate ==
  \E slot \in Slot :
    LET res == Truncate(st, slot, TRUE)
    IN res.kind # "conflict" /\ st' = res.st

DoTruncateToEmpty == st' = TruncateToEmpty(st).st

Next == DoApplyRefs \/ DoTruncate \/ DoTruncateToEmpty

Spec == Init /\ [][Next]_vars

-----------------------------------------------------------------------------
\* Properties

\* The directory of a fresh build: pages are cut top down from the vector of
\* sealed segments, a page existing for every range something was appended to.
RECURSIVE FreshDir(_, _, _)
FreshDir(vec, depth, offset) ==
  LET cap == Capacity(depth - 1)
      n == Min({2^FanoutBits, ((Len(vec) - offset) + cap - 1) \div cap})
  IN DirNode([i \in 1 .. n |-> IF depth = 1 THEN vec[offset + i]
                               ELSE FreshDir(vec, depth - 1, offset + (i - 1) * cap)])

\* The state a head has after one apply of everything it answers.
FreshBuild(synced, answer(_)) ==
  LET open == Ord(synced + 1)
      within(w) == {x \in OriginSlot .. synced : Ord(x) = w /\ answer(x) # <<>>}
      seg(w) == Segment(WindowStart(w), Batch([x \in within(w) |-> answer(x)]))
      vec == [i \in 1 .. (open - DirBase) |->
                LET w == DirBase + i - 1 IN IF within(w) = {} THEN Undef ELSE seg(w)]
      depth == CanonicalDepth(Len(vec))
  IN [covered |-> TRUE, syncedTo |-> synced, depth |-> depth,
      dir |-> IF depth = 0 THEN Undef ELSE FreshDir(vec, depth, 0), open |-> seg(open)]

\* A head's index is a function of the rows it answers: however appends,
\* seals, growth and truncation were interleaved, the root is the one a fresh
\* build of the same rows publishes (truncate.go and dir.go claim it of
\* dirTruncate, dirShrink and the seal of a window-final truncation).
Canonical == st.covered => st = FreshBuild(st.syncedTo, LAMBDA x : Lookup(st, x).vhs)

\* A window policy retains every blob of the last WindowSlots slots, and no
\* mode drops an index block (Desired, policy.go).
PolicyRetains ==
  /\ \A mode \in Modes : {b \in Closure(HeadObject(st)) : "raw" \notin DOMAIN b} \subseteq Retains(mode, st)
  /\ \A slot \in Slot : st.covered /\ slot <= st.syncedTo /\ slot + WindowSlots >= st.syncedTo =>
       {BlobBlock(v) : v \in ToSet(Lookup(st, slot).vhs)} \subseteq Retains("window", st)

\* Everything the next root retains was retained by the root it replaces or
\* went through the application blockstore in the mutation that built it.
\* Online collection is only safe because this holds in every pin mode:
\* touchTruncatedBlobs and touchNewlyRetainedWindow exist for it.
Covers(mode, res) ==
  res.kind = "ok" => Retains(mode, res.st) \subseteq Retains(mode, st) \cup res.puts \cup res.gets

CandidateCovered ==
  \A mode \in Modes :
    /\ \A slot \in Slot : Covers(mode, Truncate(st, slot, mode = "window"))
    /\ Covers(mode, TruncateToEmpty(st))
    /\ \A to \in OriginSlot .. Ceiling : \A vhs \in RowVHs :
         /\ Covers(mode, ApplyRefs(st, <<>>, to))
         /\ Covers(mode, ApplyRefs(st, <<[slot |-> to, vhs |-> vhs]>>, to))

Log == INSTANCE BlobLog WITH
         covered <- st.covered, synced <- st.syncedTo,
         rows <- [x \in Slot |-> Lookup(st, x).vhs]

\* The engine implements the log: lookups change only by extending coverage,
\* by a rewind or by a reset, and never for a slot that stays covered.
ImplementsLog == Log!Spec
=============================================================================
