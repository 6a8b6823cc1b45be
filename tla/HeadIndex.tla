----------------------------- MODULE HeadIndex ------------------------------
(***************************************************************************)
(* The head engine's algorithms (archive/): one head's copy-on-write index *)
(* over content-addressed nodes, and what ApplyRefs, Truncate,             *)
(* TruncateToEmpty, Lookup and Enumerate compute over it.                  *)
(*                                                                         *)
(* A CID is modelled by the value it addresses: two nodes have the same    *)
(* CID iff they are the same value.  A blob block is [raw |-> vh], a       *)
(* Segment [slot0, rows], a DirNode [kids] and a Head the record           *)
(* HeadObject builds.  Every mutation is an operator that returns the next *)
(* state with the blocks it wrote (puts) and the blocks it read through    *)
(* the application blockstore (gets), the two sets retention is about.     *)
(* Reads that the decoded-node cache may answer are not in gets.           *)
(***************************************************************************)
EXTENDS Naturals, FiniteSets, SequencesExt

CONSTANTS
  SegBits,      \* a window is 2^SegBits slots
  FanoutBits,   \* a directory page has 2^FanoutBits kids
  OriginSlot,   \* the first slot the head covers
  WindowSlots,  \* the retention window, in slots
  MaxOutputs,   \* MaxEnumerationOutputs, the sealed windows a loader admits
  Undef         \* cid.Undef

ASSUME HeadIndexAssumption ==
  /\ SegBits \in Nat /\ FanoutBits \in Nat \ {0} /\ OriginSlot \in Nat
  /\ WindowSlots \in Nat /\ MaxOutputs \in Nat

-----------------------------------------------------------------------------
\* Address arithmetic

Ord(slot) == slot \div 2^SegBits
WindowStart(w) == w * 2^SegBits
WindowEnd(w) == (w + 1) * 2^SegBits - 1
DirBase == Ord(OriginSlot)
Capacity(d) == 2^(FanoutBits * d)

\* canonicalDepth: the depth of a fresh build of n sealed windows.
CanonicalDepth(n) ==
  IF n = 0 THEN 0 ELSE CHOOSE d \in 1 .. n : /\ n <= Capacity(d)
                                             /\ d = 1 \/ n > Capacity(d - 1)

\* pathDigits: i in base 2^FanoutBits, most significant digit first.
Fits(i, depth) == i < Capacity(depth)
PathDigits(i, depth) == [l \in 1 .. depth |-> (i \div Capacity(depth - l)) % 2^FanoutBits]
AllZero(digits) == \A l \in DOMAIN digits : digits[l] = 0

-----------------------------------------------------------------------------
\* Nodes

BlobBlock(vh) == [raw |-> vh]
Segment(slot0, rows) == [slot0 |-> slot0, rows |-> rows]
TrimTrailingNulls(kids) ==
  SubSeq(kids, 1, Max({0} \cup {i \in DOMAIN kids : kids[i] # Undef}))
DirNode(kids) == [kids |-> TrimTrailingNulls(kids)]
HeadObject(s) ==
  [origin |-> OriginSlot, synced |-> IF s.covered THEN s.syncedTo ELSE Undef,
   depth |-> s.depth, dir |-> s.dir, open |-> s.open]

\* Rows in slot order, from a function of slots.
Batch(f) == LET slots == SelectSeq([i \in 1 .. Max({0} \cup DOMAIN f) + 1 |-> i - 1],
                               LAMBDA x : x \in DOMAIN f)
            IN [i \in DOMAIN slots |-> [slot |-> slots[i], vhs |-> f[slots[i]]]]

RowBlobs(rows) == {BlobBlock(vh) : vh \in UNION {ToSet(rows[i].vhs) : i \in DOMAIN rows}}

\* What a block links to, by its kind.
Links(node) ==
  CASE "raw" \in DOMAIN node -> {}
    [] "rows" \in DOMAIN node -> RowBlobs(node.rows)
    [] "kids" \in DOMAIN node -> ToSet(node.kids) \ {Undef}
    [] "open" \in DOMAIN node -> {node.dir, node.open} \ {Undef}

RECURSIVE Closure(_)
Closure(node) == {node} \cup UNION {Closure(n) : n \in Links(node)}

-----------------------------------------------------------------------------
\* The directory: an append-only vector addressed by arithmetic

LoadKids(node) == IF node = Undef THEN <<>> ELSE node.kids
KidAt(kids, d) == IF d < Len(kids) THEN kids[d + 1] ELSE Undef
GrowTo(kids, n) == kids \o [i \in 1 .. (IF n > Len(kids) THEN n - Len(kids) ELSE 0) |-> Undef]
ClampTo(kids, n) == SubSeq(kids, 1, IF n < Len(kids) THEN n ELSE Len(kids))

RECURSIVE DirSet(_, _, _)
DirSet(node, digits, kid) ==
  IF digits = <<>> THEN kid
  ELSE LET kids == LoadKids(node)
           d == Head(digits)
       IN DirNode([GrowTo(kids, d + 1) EXCEPT
                     ![d + 1] = DirSet(KidAt(kids, d), Tail(digits), kid)])

RECURSIVE DirTruncate(_, _)
DirTruncate(node, digits) ==
  LET kids == LoadKids(node)
      d == Head(digits)
  IN IF AllZero(Tail(digits))
       THEN DirNode(ClampTo(kids, d))
       ELSE DirNode(Append(GrowTo(ClampTo(kids, d), d), DirTruncate(kids[d + 1], Tail(digits))))

\* The pages a copy of the spine along digits writes.
RECURSIVE Spine(_, _)
Spine(node, digits) ==
  {node} \cup (IF Len(digits) > 1 /\ Head(digits) < Len(node.kids)
                 THEN Spine(node.kids[Head(digits) + 1], Tail(digits)) ELSE {})

\* dirAppend: [dir, depth, puts]; a full root is first wrapped one level deeper.
DirAppend(dir, depth, i, kid) ==
  IF depth = 0
    THEN [dir |-> DirNode(<<kid>>), depth |-> 1, puts |-> {DirNode(<<kid>>)}]
    ELSE LET full == i = Capacity(depth)
             root == IF full THEN DirNode(<<dir>>) ELSE dir
             deep == IF full THEN depth + 1 ELSE depth
             digits == PathDigits(i, deep)
             new == DirSet(root, digits, kid)
         IN [dir |-> new, depth |-> deep,
             puts |-> Spine(new, digits) \cup (IF full THEN {root} ELSE {})]

\* Slip: a truncated directory is not shrunk.
DirKept(dir, depth) == [dir |-> dir, depth |-> depth]

RECURSIVE DirShrink(_, _)
DirShrink(dir, depth) ==
  IF depth > 1 /\ Len(dir.kids) = 1 /\ dir.kids[1] # Undef
    THEN DirShrink(dir.kids[1], depth - 1)
    ELSE [dir |-> dir, depth |-> depth]

-----------------------------------------------------------------------------
\* Lookup

OpenOrd(s) == Ord(s.open.slot0)

SealedSegment(s, w) ==
  IF s.depth = 0 \/ w < DirBase \/ ~Fits(w - DirBase, s.depth) THEN Undef
  ELSE FoldLeft(LAMBDA cur, d : IF cur = Undef THEN Undef ELSE KidAt(cur.kids, d),
                s.dir, PathDigits(w - DirBase, s.depth))

SegmentFor(s, w) ==
  IF ~s.covered THEN Undef
  ELSE IF w = OpenOrd(s) THEN s.open ELSE SealedSegment(s, w)

SearchRows(rows, slot) ==
  IF \E i \in DOMAIN rows : rows[i].slot = slot
    THEN rows[CHOOSE i \in DOMAIN rows : rows[i].slot = slot].vhs ELSE <<>>

\* Lookup: [status, vhs]; vhs is empty unless the slot is covered.
Lookup(s, slot) ==
  IF slot < OriginSlot THEN [status |-> "before_origin", vhs |-> <<>>]
  ELSE IF ~s.covered \/ slot > s.syncedTo THEN [status |-> "not_yet_covered", vhs |-> <<>>]
  ELSE LET seg == SegmentFor(s, Ord(slot))
       IN [status |-> "found", vhs |-> IF seg = Undef THEN <<>> ELSE SearchRows(seg.rows, slot)]

-----------------------------------------------------------------------------
\* ApplyRefs.  An open-segment pointer is [seg, dirty]; committing a dirty one
\* writes it, committing a clean one reads the block an earlier apply wrote.

EmptyState == [covered |-> FALSE, syncedTo |-> 0, depth |-> 0, dir |-> Undef, open |-> Undef]

CommitSegment(acc) ==
  IF acc.dirty THEN [acc EXCEPT !.puts = @ \cup {acc.open}]
               ELSE [acc EXCEPT !.gets = @ \cup {acc.open}]

\* seal: window w's segment, or null if it is empty, becomes a directory entry.
Seal(acc, w) ==
  LET kept == acc.open.rows # <<>>
      done == IF kept THEN CommitSegment(acc) ELSE acc
      app  == DirAppend(acc.dir, acc.depth, w - DirBase, IF kept THEN acc.open ELSE Undef)
  IN [done EXCEPT !.dir = app.dir, !.depth = app.depth, !.puts = @ \cup app.puts,
                  !.open = Segment(WindowStart(w + 1), <<>>), !.dirty = TRUE]

\* One window of the apply loop: append its rows, then seal it if it is full.
ApplyWindow(acc, w, rows, to) ==
  LET batch == SelectSeq(rows, LAMBDA r : Ord(r.slot) = w)
      opened == IF batch = <<>> THEN acc
                ELSE [acc EXCEPT !.open.rows = @ \o batch, !.dirty = TRUE]
  IN IF WindowEnd(w) <= to THEN Seal(opened, w) ELSE opened

\* publish: write the Head block of the finished state.
Publish(acc, to) ==
  LET next == [covered |-> TRUE, syncedTo |-> to, depth |-> acc.depth, dir |-> acc.dir,
               open |-> acc.open]
  IN [kind |-> "ok", st |-> next, puts |-> acc.puts \cup {HeadObject(next)}, gets |-> acc.gets]

Refused(s) == [kind |-> "conflict", st |-> s, puts |-> {}, gets |-> {}]

\* validateShape
WellShaped(rows, to) ==
  /\ to >= OriginSlot
  /\ \A i \in DOMAIN rows : /\ rows[i].slot \in OriginSlot .. to
                            /\ rows[i].vhs # <<>>
                            /\ i > 1 => rows[i].slot > rows[i - 1].slot

\* verifyReplay
Replays(s, rows) == \A i \in DOMAIN rows : Lookup(s, rows[i].slot).vhs = rows[i].vhs

\* The apply loop over windows w0 .. w1, from a covered or an empty head.
Extend(s, rows, to) ==
  LET w0 == Ord(IF s.covered THEN s.syncedTo + 1 ELSE OriginSlot)
      w1 == Ord(to)
      acc == [dir |-> s.dir, depth |-> s.depth,
              open |-> IF s.covered THEN s.open ELSE Segment(WindowStart(w0), <<>>),
              dirty |-> ~s.covered, puts |-> {}, gets |-> RowBlobs(rows)]
      windows == [i \in 1 .. (w1 - w0 + 1) |-> w0 + i - 1]
  IN Publish(CommitSegment(FoldLeft(LAMBDA a, w : ApplyWindow(a, w, rows, to), acc, windows)), to)

\* ApplyRefs, every versioned hash resolving to a present block.
ApplyRefs(s, rows, to) ==
  IF ~WellShaped(rows, to) THEN Refused(s)
  ELSE IF s.covered /\ to <= s.syncedTo
    THEN IF Replays(s, rows) THEN [Refused(s) EXCEPT !.kind = "noop"] ELSE Refused(s)
  ELSE IF s.covered /\ \E i \in DOMAIN rows : rows[i].slot <= s.syncedTo
    THEN Refused(s)
  ELSE Extend(s, rows, to)

-----------------------------------------------------------------------------
\* Truncate

\* Slip: the window is one slot short.
WindowLowShort(synced, slots) == IF slots < synced THEN synced - slots + 1 ELSE 0

WindowLow(synced, slots) == IF slots < synced THEN synced - slots ELSE 0

FirstRetainedWindow(s) ==
  LET low == WindowLow(s.syncedTo, WindowSlots)
  IN Ord(IF low < OriginSlot THEN OriginSlot ELSE low)

\* Slip: a rewind reads none of the blobs it brings back into the window.
NothingTouched(old, next) == {}

\* touchNewlyRetainedWindow: the blobs of sealed windows that a rewind brings
\* back inside the retention window.
NewlyRetained(old, next) ==
  LET oldFirst == FirstRetainedWindow(old)
      upper == Ord(next.syncedTo)
  IN UNION {LET seg == SegmentFor(next, w)
            IN IF seg = Undef THEN {} ELSE RowBlobs(seg.rows) :
              w \in {v \in FirstRetainedWindow(next) .. upper : v < oldFirst}}

\* The directory that keeps the entries below window t.
TruncatedDir(s, t) ==
  CASE t = OpenOrd(s) -> [dir |-> s.dir, depth |-> s.depth, puts |-> {}]
    [] t # OpenOrd(s) /\ t = DirBase -> [dir |-> Undef, depth |-> 0, puts |-> {}]
    [] OTHER -> LET digits == PathDigits(t - DirBase, s.depth)
                    cut == DirTruncate(s.dir, digits)
                    top == DirShrink(cut, s.depth)
                IN [dir |-> top.dir, depth |-> top.depth, puts |-> Spine(cut, digits)]

\* Slip: the row of the slot truncated to is dropped as well.
CopyRowsBelow(rows, slot) == SelectSeq(rows, LAMBDA r : r.slot < slot)

CopyRowsUpTo(rows, slot) == SelectSeq(rows, LAMBDA r : r.slot <= slot)

\* retain is TRUE when the head's pin policy is a window.
Truncate(s, slot, retain) ==
  IF ~s.covered \/ slot > s.syncedTo \/ slot < OriginSlot THEN Refused(s)
  ELSE LET t == Ord(slot)
           seg == SegmentFor(s, t)
           rows == IF seg = Undef THEN <<>> ELSE CopyRowsUpTo(seg.rows, slot)
           dir == TruncatedDir(s, t)
           acc == [dir |-> dir.dir, depth |-> dir.depth, open |-> Segment(WindowStart(t), rows),
                   dirty |-> TRUE, puts |-> dir.puts,
                   gets |-> IF retain THEN RowBlobs(rows) ELSE {}]
           res == Publish(CommitSegment(IF WindowEnd(t) <= slot THEN Seal(acc, t) ELSE acc), slot)
       IN IF retain THEN [res EXCEPT !.gets = @ \cup NewlyRetained(s, res.st)] ELSE res

TruncateToEmpty(s) ==
  [kind |-> "ok", st |-> EmptyState, puts |-> {HeadObject(EmptyState)}, gets |-> {}]

-----------------------------------------------------------------------------
\* Load and Enumerate: what a reader of the root admits

\* validateDirectoryGeometry
GeometryOK(s) ==
  IF ~s.covered THEN s.depth = 0 /\ s.dir = Undef /\ s.open = Undef
  ELSE LET sealed == Ord(s.syncedTo + 1) - DirBase
       IN /\ Ord(s.syncedTo + 1) >= DirBase
          /\ sealed <= MaxOutputs
          /\ s.depth = CanonicalDepth(sealed)

\* canonicalDirectoryPages: the logical pages of a canonical directory.
CanonicalDirectoryPages(n) ==
  FoldLeft(LAMBDA sum, d : sum + (IF Capacity(d) < n THEN 1 + (n - 1) \div Capacity(d) ELSE 1),
           0, [d \in 1 .. CanonicalDepth(n) |-> d])

\* validateSegment: a segment sits at the window its path position says.
SegmentOK(seg, w, upper, open) ==
  /\ seg.slot0 = WindowStart(w)
  /\ open \/ seg.rows # <<>>
  /\ \A i \in DOMAIN seg.rows :
       /\ seg.rows[i].slot <= upper
       /\ seg.rows[i].slot >= OriginSlot /\ seg.rows[i].slot >= seg.slot0

\* walkDir: [ok, pages, paths, sealed]; entries is how many appended
\* positions lie in the subtree, offset the first one's index.
Present(kids) == {i \in DOMAIN kids : kids[i] # Undef}

WalkLeaf(node, offset, entries) ==
  LET kids == node.kids
      at(i) == DirBase + offset + i - 1
  IN [ok |-> /\ Len(kids) <= Min({entries, 2^FanoutBits})
             /\ \A i \in Present(kids) : SegmentOK(kids[i], at(i), WindowEnd(at(i)), FALSE),
      pages |-> {node}, paths |-> 1,
      sealed |-> {[cid |-> kids[i], ord |-> at(i)] : i \in Present(kids)}]

\* A page above the leaves has exactly the children its entries need, none null.
WalkPage(node, cap, entries, sub) ==
  LET all == DOMAIN node.kids
  IN [ok |-> /\ Len(node.kids) = (IF cap < entries THEN 1 + (entries - 1) \div cap ELSE 1)
             /\ Present(node.kids) = all
             /\ \A i \in DOMAIN sub : sub[i].ok,
      pages |-> {node} \cup UNION {sub[i].pages : i \in DOMAIN sub},
      paths |-> FoldSet(LAMBDA i, n : n + sub[i].paths, 1, DOMAIN sub),
      sealed |-> UNION {sub[i].sealed : i \in DOMAIN sub}]

RECURSIVE WalkDir(_, _, _, _)
WalkDir(node, depth, offset, entries) ==
  IF depth = 1 THEN WalkLeaf(node, offset, entries)
  ELSE WalkPage(node, Capacity(depth - 1), entries,
         [i \in Present(node.kids) |->
            WalkDir(node.kids[i], depth - 1, offset + (i - 1) * Capacity(depth - 1),
                    Min({Capacity(depth - 1), entries - (i - 1) * Capacity(depth - 1)}))])

\* Enumerate: [ok, root, syncedTo, pages, sealed, open].
Enumerate(s) ==
  LET n == Ord(s.syncedTo + 1) - DirBase
      walk == IF s.depth = 0 THEN [ok |-> TRUE, pages |-> {}, paths |-> 0, sealed |-> {}]
                             ELSE WalkDir(s.dir, s.depth, 0, n)
  IN [ok |-> /\ GeometryOK(s)
             /\ s.covered => /\ walk.ok
                             /\ walk.paths = CanonicalDirectoryPages(n)
                             /\ SegmentOK(s.open, n + DirBase, s.syncedTo, TRUE)
                             /\ \A x, y \in walk.sealed : x.cid = y.cid => x = y,
      root |-> HeadObject(s), syncedTo |-> s.syncedTo, open |-> s.open,
      pages |-> walk.pages, sealed |-> walk.sealed]

-----------------------------------------------------------------------------
\* The retention policies (pinning/policy.go) over an enumeration

Modes == {"full", "window", "none"}
PinOf(purpose, cid, recursive) == [purpose |-> purpose, cid |-> cid, recursive |-> recursive]

Desired(mode, e) ==
  IF mode = "full" THEN {PinOf("root", e.root, TRUE)}
  ELSE LET low == WindowLow(e.syncedTo, WindowSlots)
           kept == {x \in e.sealed : mode = "window" /\ WindowEnd(x.ord) >= low}
       IN {PinOf("root", e.root, FALSE)}
            \cup {PinOf("index", p, FALSE) : p \in e.pages}
            \cup {PinOf("window", x.cid, TRUE) : x \in kept}
            \cup {PinOf("index", x.cid, FALSE) : x \in e.sealed \ kept}
            \cup (IF e.open = Undef THEN {} ELSE {PinOf("open", e.open, mode = "window")})

\* What the collector marks from one pin.
Marked(pin) == IF pin.recursive THEN Closure(pin.cid) ELSE {pin.cid}

\* The blocks a head's policy retains.
Retains(mode, s) == UNION {Marked(p) : p \in Desired(mode, Enumerate(s))}
=============================================================================
