------------------------------ MODULE BeaconChain ------------------------------
(***************************************************************************)
(* The consensus chain the writers read, modelled from how they use it:    *)
(* a tree of blocks, a canonical head that may reorganize above finality,  *)
(* and a finalized block that only moves to a descendant.  An execution    *)
(* (L1) block is a beacon block; its number is its depth.                  *)
(***************************************************************************)
EXTENDS Integers, FiniteSets

CONSTANTS
  Block,    \* the blocks of the tree
  SlotOf,   \* [Block -> slot]
  ParentOf, \* [Block -> Block \cup {None}]
  RowOf,    \* [Block -> the set of blobs its body commits to]
  MaxMoves, \* bound: reorganizations and new heads
  None

VARIABLES
  headBlk, \* the canonical head
  finBlk,  \* the finalized checkpoint
  moves    \* head changes so far

chainVars == <<headBlk, finBlk, moves>>

Slots == {SlotOf[b] : b \in Block}
Slot == 0 .. (CHOOSE m \in Slots : \A s \in Slots : s <= m)
Ancestry[b \in Block] == {b} \cup (IF ParentOf[b] = None THEN {} ELSE Ancestry[ParentOf[b]])
Number(b) == Cardinality(Ancestry[b]) - 1

ASSUME ChainAssumption ==
  /\ None \notin Block /\ MaxMoves \in Nat
  /\ \A b \in Block : /\ SlotOf[b] \in Nat /\ ParentOf[b] \in Block \cup {None}
                      /\ IF ParentOf[b] = None THEN SlotOf[b] = 0 ELSE SlotOf[ParentOf[b]] < SlotOf[b]

\* What the chain ending in b says of a slot.
At(b, s) == {c \in Ancestry[b] : SlotOf[c] = s}
RowAt(b, s) == UNION {RowOf[c] : c \in At(b, s)}

ChainInit == /\ finBlk = CHOOSE b \in Block : ParentOf[b] = None
             /\ headBlk \in Block \ {finBlk}
             /\ moves = 0

\* A new block, or another branch, becomes canonical.
HeadMoves(b) ==
  /\ moves < MaxMoves /\ b \notin Ancestry[headBlk] /\ finBlk \in Ancestry[b]
  /\ headBlk' = b /\ moves' = moves + 1 /\ UNCHANGED finBlk

\* Finality reaches an ancestor of the head, never going back.
Finalizes(b) ==
  /\ b # finBlk /\ b \in Ancestry[headBlk] /\ finBlk \in Ancestry[b]
  /\ finBlk' = b /\ UNCHANGED <<headBlk, moves>>
================================================================================
