-------------------------- MODULE RetentionProofs ---------------------------
(* The safety of Retention, for every set of heads, readers and mutations,   *)
(* every pin policy (Need) and both kinds of collector.                      *)
EXTENDS Retention, SequenceTheorems, TLAPS

-----------------------------------------------------------------------------
\* Type correctness, and the order of the commit points

\* The blocks a mutation reads and writes are blocks.
LEMMA StepBlock ==
  ASSUME NEW m \in Mutation, NEW k \in 1 .. Len(Op[m].steps)
  PROVE  Op[m].steps[k].block \in Block
<1>1. Op[m].steps \in Seq([kind : {"get", "put"}, block : Block])
  BY ConstantTypes, Zenon DEF ConstantTypes
<1>2. Op[m].steps[k] \in [kind : {"get", "put"}, block : Block]
  BY <1>1, ElementOfSeq, Zenon
<1>3. QED
  BY Zenon, <1>2

\* A step keeps the state well typed; a committing mutation must be one.
LEMMA TypeStep == TypeOK /\ CommitOrder /\ [Next]_vars => TypeOK'
<1> SUFFICES ASSUME TypeOK, CommitOrder, [Next]_vars PROVE TypeOK'
  BY Zenon
<1> USE ConstantTypes DEF ConstantTypes, TypeOK, Ing
<1>1. ASSUME NEW h \in Heads, IngBegin(h) PROVE TypeOK'
  BY <1>1 DEF IngBegin, store, roots, writer, collector
<1>2. ASSUME NEW h \in Heads, IngStore(h) PROVE TypeOK'
  BY <1>2 DEF IngStore, store, roots, writer, collector, Put, Touch
<1>3. ASSUME NEW h \in Heads, IngName(h) PROVE TypeOK'
  BY <1>3 DEF IngName, store, roots, writer, collector
<1>4. ASSUME NEW h \in Heads, IngPin(h) PROVE TypeOK'
  BY <1>4 DEF IngPin, AddBatch, store, roots, writer, collector
<1>5. ASSUME NEW h \in Heads, IngAbort(h) PROVE TypeOK'
  BY Zenon, <1>5 DEF IngAbort, store, roots, writer, collector
<1>6. ASSUME NEW h \in Heads, WrEnter(h) PROVE TypeOK'
  BY Zenon, <1>6 DEF WrEnter, store, roots, writer, collector
<1>7. ASSUME NEW h \in Heads, WrLock(h) PROVE TypeOK'
  BY <1>7 DEF WrLock, store, roots, writer, collector
<1>8. ASSUME NEW h \in Heads, WrStep(h) PROVE TypeOK'
  <2>1. mut[h] \in Mutation /\ at[h] \in 1 .. Len(Op[mut[h]].steps)
    BY <1>8 DEF WrStep, CommitOrder, Locked
  <2>2. Op[mut[h]].steps[at[h]].block \in Block
    BY Zenon, <2>1, StepBlock
  <2>3. blocks' \subseteq Block /\ touched' \subseteq Block
    BY Zenon, <1>8, <2>2 DEF WrStep, Put, Get, Touch
  <2>4. at' \in [Heads -> Nat]
    BY <1>8 DEF WrStep
  <2>5. UNCHANGED <<catalog, durable, target, shown, ledger, staging, pc, mut, ing, rd, gc, live, acked>>
    BY Zenon, <1>8 DEF WrStep, roots, collector
  <2>6. QED
    BY Zenon, <2>3, <2>4, <2>5
<1>9. ASSUME NEW h \in Heads, WrPersist(h) PROVE TypeOK'
  BY Zenon, <1>9 DEF WrPersist, store, roots, writer, collector, CommitOrder, Locked, Built
<1>10. ASSUME NEW h \in Heads, WrRetarget(h) PROVE TypeOK'
  BY Zenon, <1>10 DEF WrRetarget, store, roots, writer, collector, CommitOrder, Locked
<1>11. ASSUME NEW h \in Heads, WrExpose(h) PROVE TypeOK'
  BY Zenon, <1>11 DEF WrExpose, store, roots, writer, collector, CommitOrder, Locked
<1>12. ASSUME NEW h \in Heads, WrDrop(h) PROVE TypeOK'
  BY Zenon, <1>12 DEF WrDrop, DropRefs, RemoveBatch, store, roots, writer, collector, Leave
<1>13. ASSUME NEW h \in Heads, WrAbort(h) PROVE TypeOK'
  BY Zenon, <1>13 DEF WrAbort, store, roots, writer, collector, Leave
<1>14. ASSUME NEW h \in Heads, Reconcile(h) PROVE TypeOK'
  BY Zenon, <1>14 DEF Reconcile, store, roots, writer, collector
<1>15. ASSUME NEW r \in Readers, RdBegin(r) PROVE TypeOK'
  BY <1>15 DEF RdBegin, store, roots, writer, collector
<1>16. ASSUME NEW r \in Readers, RdRead(r) PROVE TypeOK'
  BY Zenon, <1>16 DEF RdRead, store, roots, writer, collector, Touch
<1>17. ASSUME NEW r \in Readers, RdEnd(r) PROVE TypeOK'
  BY Zenon, <1>17 DEF RdEnd, store, roots, writer, collector
<1>18. CASE GcAsk
  BY Zenon, <1>18 DEF GcAsk, store, roots, writer, collector
<1>19. CASE GcCut
  <2>1. PICK E \in SUBSET staging : DropExpired(E)
    BY Zenon, <1>19 DEF GcCut
  <2>2. live' \subseteq Block
    <3>1. \A h \in Heads : Need[ledger'[h]] \subseteq Block
      BY Zenon, <1>19 DEF GcCut
    <3>2. staging' \subseteq Block
      BY Zenon, <2>1 DEF DropExpired, RemoveBatch
    <3>3. QED
      BY <1>19, <3>1, <3>2 DEF GcCut
  <2>3. QED
    BY Zenon, <1>19, <2>1, <2>2 DEF GcCut, roots, writer, DropExpired, RemoveBatch
<1>20. CASE GcCutFail
  BY Zenon, <1>20 DEF GcCutFail, store, roots, writer, collector, DropExpired, RemoveBatch
<1>21. CASE GcMark
  BY Zenon, <1>21 DEF GcMark, store, roots, writer, collector
<1>22. CASE GcEnd
  BY Zenon, <1>22 DEF GcEnd, store, roots, writer, collector
<1>23. ASSUME NEW b \in Block, GcSweep(b) PROVE TypeOK'
  BY Zenon, <1>23 DEF GcSweep, store, roots, writer, collector
<1>24. CASE Crash
  BY Zenon, <1>24 DEF Crash
<1>25. CASE UNCHANGED vars
  BY Zenon, <1>25 DEF vars
<1>26. QED
  BY <1>1, <1>2, <1>3, <1>4, <1>5, <1>6, <1>7, <1>8, <1>9, <1>10, <1>11, <1>12, <1>13, <1>14, <1>15, <1>16, <1>17, <1>18, <1>19, <1>20, <1>21, <1>22, <1>23, <1>24, <1>25, Zenon DEF Next

\* The commit points of a mutation are passed in order: every step keeps the
\* three copies of a head's root where its program counter says they are.
LEMMA CommitStep == TypeOK /\ CommitOrder /\ [Next]_vars => CommitOrder'
<1> SUFFICES ASSUME TypeOK, CommitOrder, [Next]_vars PROVE CommitOrder'
  BY Zenon
<1> USE ConstantTypes DEF ConstantTypes, TypeOK, CommitOrder, Locked
<1>1. ASSUME NEW h \in Heads, IngBegin(h) PROVE CommitOrder'
  BY Zenon, <1>1 DEF IngBegin, store, roots, writer, collector
<1>2. ASSUME NEW h \in Heads, IngStore(h) PROVE CommitOrder'
  BY Zenon, <1>2 DEF IngStore, store, roots, writer, collector, Put
<1>3. ASSUME NEW h \in Heads, IngName(h) PROVE CommitOrder'
  BY Zenon, <1>3 DEF IngName, store, roots, writer, collector
<1>4. ASSUME NEW h \in Heads, IngPin(h) PROVE CommitOrder'
  BY Zenon, <1>4 DEF IngPin, AddBatch, store, roots, writer, collector
<1>5. ASSUME NEW h \in Heads, IngAbort(h) PROVE CommitOrder'
  BY Zenon, <1>5 DEF IngAbort, store, roots, writer, collector
<1>6. ASSUME NEW h \in Heads, WrEnter(h) PROVE CommitOrder'
  BY <1>6 DEF WrEnter, store, roots, writer, collector
<1>7. ASSUME NEW h \in Heads, WrLock(h) PROVE CommitOrder'
  BY <1>7 DEF WrLock, store, roots, writer, collector
<1>8. ASSUME NEW h \in Heads, WrStep(h) PROVE CommitOrder'
  <2>1. UNCHANGED <<pc, mut, durable, target, shown>>
    BY Zenon, <1>8 DEF WrStep, roots
  <2>2. at' = [at EXCEPT ![h] = @ + 1]
    BY Zenon, <1>8 DEF WrStep
  <2>3. mut[h] \in Mutation /\ at[h] \in 1 .. Len(Op[mut[h]].steps) + 1 /\ at[h] <= Len(Op[mut[h]].steps)
    BY Zenon, <1>8 DEF WrStep
  <2>4. at'[h] \in 1 .. Len(Op[mut[h]].steps) + 1
    <3>1. Op[mut[h]].steps \in Seq([kind : {"get", "put"}, block : Block])
      BY <2>3, Zenon
    <3>2. Len(Op[mut[h]].steps) \in Nat
      BY <3>1
    <3>3. at'[h] = at[h] + 1
      BY Zenon, <2>2
    <3>4. QED
      BY <2>3, <3>2, <3>3
  <2>5. \A g \in Heads : g # h => at'[g] = at[g]
    BY <2>2
  <2>6. QED
    BY Zenon, <2>1, <2>4, <2>5
<1>9. ASSUME NEW h \in Heads, WrPersist(h) PROVE CommitOrder'
  BY <1>9 DEF WrPersist, store, roots, writer, collector, Built
<1>10. ASSUME NEW h \in Heads, WrRetarget(h) PROVE CommitOrder'
  BY <1>10 DEF WrRetarget, store, roots, writer, collector
<1>11. ASSUME NEW h \in Heads, WrExpose(h) PROVE CommitOrder'
  BY <1>11 DEF WrExpose, store, roots, writer, collector
<1>12. ASSUME NEW h \in Heads, WrDrop(h) PROVE CommitOrder'
  BY <1>12 DEF WrDrop, DropRefs, RemoveBatch, store, roots, writer, collector, Leave, Built
<1>13. ASSUME NEW h \in Heads, WrAbort(h) PROVE CommitOrder'
  BY <1>13 DEF WrAbort, store, roots, writer, collector, Leave
<1>14. ASSUME NEW h \in Heads, Reconcile(h) PROVE CommitOrder'
  BY Zenon, <1>14 DEF Reconcile, store, roots, writer, collector
<1>15. ASSUME NEW r \in Readers, RdBegin(r) PROVE CommitOrder'
  BY Zenon, <1>15 DEF RdBegin, store, roots, writer, collector
<1>16. ASSUME NEW r \in Readers, RdRead(r) PROVE CommitOrder'
  BY Zenon, <1>16 DEF RdRead, store, roots, writer, collector
<1>17. ASSUME NEW r \in Readers, RdEnd(r) PROVE CommitOrder'
  BY Zenon, <1>17 DEF RdEnd, store, roots, writer, collector
<1>18. CASE GcAsk
  BY Zenon, <1>18 DEF GcAsk, store, roots, writer, collector
<1>19. CASE GcCut
  BY Zenon, <1>19 DEF GcCut, store, roots, writer, collector
<1>20. CASE GcCutFail
  BY Zenon, <1>20 DEF GcCutFail, store, roots, writer, collector
<1>21. CASE GcMark
  BY Zenon, <1>21 DEF GcMark, store, roots, writer, collector
<1>22. CASE GcEnd
  BY Zenon, <1>22 DEF GcEnd, store, roots, writer, collector
<1>23. ASSUME NEW b \in Block, GcSweep(b) PROVE CommitOrder'
  BY Zenon, <1>23 DEF GcSweep, store, roots, writer, collector
<1>24. CASE Crash
  BY Zenon, <1>24 DEF Crash
<1>25. CASE UNCHANGED vars
  BY Zenon, <1>25 DEF vars
<1>26. QED
  BY <1>1, <1>2, <1>3, <1>4, <1>5, <1>6, <1>7, <1>8, <1>9, <1>10, <1>11, <1>12, <1>13, <1>14, <1>15, <1>16, <1>17, <1>18, <1>19, <1>20, <1>21, <1>22, <1>23, <1>24, <1>25, Zenon DEF Next

\* Type correctness and the order of the commit points need only each other.
THEOREM TypesAndCommits == Spec => [](TypeOK /\ CommitOrder)
<1>1. Init => TypeOK /\ CommitOrder
  <2> SUFFICES ASSUME Init PROVE TypeOK /\ CommitOrder
    BY Zenon
  <2> USE ConstantTypes DEF ConstantTypes, Init
  <2>1. TypeOK
    <3>1. blocks \subseteq Block
      OBVIOUS
    <3>2. durable \in [Heads -> Root] /\ target \in [Heads -> Root] /\ shown \in [Heads -> Root] /\ ledger \in [Heads -> Root]
      BY Zenon
    <3>3. /\ pc \in [Heads -> {"idle", "entered", "build", "persisted", "retargeted", "exposed"}]
          /\ mut \in [Heads -> Mutation \cup {None}] /\ at \in [Heads -> Nat]
          /\ ing \in [Heads -> Ing \cup {None}] /\ rd \in [Readers -> Root \cup {None}]
      BY Zenon
    <3>4. catalog = {} /\ staging = {} /\ gc = "idle" /\ live = {} /\ touched = {} /\ acked = {}
      BY Zenon
    <3>5. QED
      BY Zenon, <3>1, <3>2, <3>3, <3>4 DEF TypeOK
  <2>2. CommitOrder
    BY Zenon DEF CommitOrder, Locked
  <2>3. QED
    BY Zenon, <2>1, <2>2
<1>2. TypeOK /\ CommitOrder /\ [Next]_vars => (TypeOK /\ CommitOrder)'
  BY Zenon, TypeStep, CommitStep
<1>3. QED
  BY <1>1, <1>2, PTL DEF Spec

\* The state of the writers, readers, requests and collector is well typed.
THEOREM TypeCorrect == Spec => []TypeOK
  BY TypesAndCommits, PTL

\* A head's root is persisted, then retargeted, then exposed: the copies differ
\* only inside a commit and only in that order.
THEOREM CommitOrdered == Spec => []CommitOrder
  BY TypesAndCommits, PTL

-----------------------------------------------------------------------------
\* Two auxiliary invariants: the order of a blobs POST's writes, and the exclusion
\* of an offline collection

\* A blobs POST stores a blob before it names it and names it before it pins it.
IngOrder ==
  \A h \in Heads : ing[h] # None =>
    ing[h].named \subseteq ing[h].stored /\ ing[h].stored \subseteq ing[h].put

\* A collector without an epoch keeps the shared side of the gate empty.
Quiet == Collecting /\ ~OnlineGC => Drained

\* Every step keeps the order of ingest.
LEMMA IngStep == TypeOK /\ IngOrder /\ [Next]_vars => IngOrder'
<1> SUFFICES ASSUME TypeOK, IngOrder, [Next]_vars PROVE IngOrder'
  BY Zenon
<1> USE DEF TypeOK, Ing, IngOrder
<1>1. ASSUME NEW h \in Heads, IngBegin(h) PROVE IngOrder'
  <2>1. PICK S \in Puts : ing' = [ing EXCEPT ![h] = [put |-> S, stored |-> {}, named |-> {}]]
    BY <1>1, Zenon DEF IngBegin
  <2>2. QED
    BY Zenon, <2>1
<1>2. ASSUME NEW h \in Heads, IngStore(h) PROVE IngOrder'
  BY <1>2 DEF IngStore, store, roots, writer, collector, Put
<1>3. ASSUME NEW h \in Heads, IngName(h) PROVE IngOrder'
  BY <1>3 DEF IngName, store, roots, writer, collector
<1>4. ASSUME NEW h \in Heads, IngPin(h) PROVE IngOrder'
  BY Zenon, <1>4 DEF IngPin, AddBatch, store, roots, writer, collector
<1>5. ASSUME NEW h \in Heads, IngAbort(h) PROVE IngOrder'
  BY Zenon, <1>5 DEF IngAbort, store, roots, writer, collector
<1>6. ASSUME NEW h \in Heads, WrEnter(h) PROVE IngOrder'
  BY Zenon, <1>6 DEF WrEnter, store, roots, writer, collector
<1>7. ASSUME NEW h \in Heads, WrLock(h) PROVE IngOrder'
  BY Zenon, <1>7 DEF WrLock, store, roots, writer, collector
<1>8. ASSUME NEW h \in Heads, WrStep(h) PROVE IngOrder'
  BY <1>8, Zenon DEF WrStep, store, roots, writer, collector, Put, Get
<1>9. ASSUME NEW h \in Heads, WrPersist(h) PROVE IngOrder'
  BY Zenon, <1>9 DEF WrPersist, store, roots, writer, collector
<1>10. ASSUME NEW h \in Heads, WrRetarget(h) PROVE IngOrder'
  BY Zenon, <1>10 DEF WrRetarget, store, roots, writer, collector
<1>11. ASSUME NEW h \in Heads, WrExpose(h) PROVE IngOrder'
  BY Zenon, <1>11 DEF WrExpose, store, roots, writer, collector
<1>12. ASSUME NEW h \in Heads, WrDrop(h) PROVE IngOrder'
  BY Zenon, <1>12 DEF WrDrop, DropRefs, RemoveBatch, store, roots, writer, collector, Leave
<1>13. ASSUME NEW h \in Heads, WrAbort(h) PROVE IngOrder'
  BY Zenon, <1>13 DEF WrAbort, store, roots, writer, collector, Leave
<1>14. ASSUME NEW h \in Heads, Reconcile(h) PROVE IngOrder'
  BY Zenon, <1>14 DEF Reconcile, store, roots, writer, collector
<1>15. ASSUME NEW r \in Readers, RdBegin(r) PROVE IngOrder'
  BY Zenon, <1>15 DEF RdBegin, store, roots, writer, collector
<1>16. ASSUME NEW r \in Readers, RdRead(r) PROVE IngOrder'
  BY Zenon, <1>16 DEF RdRead, store, roots, writer, collector
<1>17. ASSUME NEW r \in Readers, RdEnd(r) PROVE IngOrder'
  BY Zenon, <1>17 DEF RdEnd, store, roots, writer, collector
<1>18. CASE GcAsk
  BY Zenon, <1>18 DEF GcAsk, store, roots, writer, collector
<1>19. CASE GcCut
  BY Zenon, <1>19 DEF GcCut, store, roots, writer, collector
<1>20. CASE GcCutFail
  BY Zenon, <1>20 DEF GcCutFail, store, roots, writer, collector
<1>21. CASE GcMark
  BY Zenon, <1>21 DEF GcMark, store, roots, writer, collector
<1>22. CASE GcEnd
  BY Zenon, <1>22 DEF GcEnd, store, roots, writer, collector
<1>23. ASSUME NEW b \in Block, GcSweep(b) PROVE IngOrder'
  BY Zenon, <1>23 DEF GcSweep, store, roots, writer, collector
<1>24. CASE Crash
  BY Zenon, <1>24 DEF Crash
<1>25. CASE UNCHANGED vars
  BY Zenon, <1>25 DEF vars
<1>26. QED
  BY Zenon, <1>1, <1>2, <1>3, <1>4, <1>5, <1>6, <1>7, <1>8, <1>9, <1>10, <1>11, <1>12, <1>13, <1>14, <1>15, <1>16, <1>17, <1>18, <1>19, <1>20, <1>21, <1>22, <1>23, <1>24, <1>25 DEF Next

\* Nothing enters the gate while an offline collection runs.
LEMMA QuietStep == TypeOK /\ Quiet /\ [Next]_vars => Quiet'
<1> SUFFICES ASSUME TypeOK, Quiet, [Next]_vars PROVE Quiet'
  BY Zenon
<1> USE DEF TypeOK, Quiet, Drained, Collecting
<1>1. ASSUME NEW h \in Heads, IngBegin(h) PROVE Quiet'
  BY Zenon, <1>1 DEF IngBegin, store, roots, writer, collector, CanEnter
<1>2. ASSUME NEW h \in Heads, IngStore(h) PROVE Quiet'
  BY Zenon, <1>2 DEF IngStore, store, roots, writer, collector, Put
<1>3. ASSUME NEW h \in Heads, IngName(h) PROVE Quiet'
  BY Zenon, <1>3 DEF IngName, store, roots, writer, collector
<1>4. ASSUME NEW h \in Heads, IngPin(h) PROVE Quiet'
  BY Zenon, <1>4 DEF IngPin, AddBatch, store, roots, writer, collector
<1>5. ASSUME NEW h \in Heads, IngAbort(h) PROVE Quiet'
  BY Zenon, <1>5 DEF IngAbort, store, roots, writer, collector
<1>6. ASSUME NEW h \in Heads, WrEnter(h) PROVE Quiet'
  BY Zenon, <1>6 DEF WrEnter, store, roots, writer, collector, CanEnter
<1>7. ASSUME NEW h \in Heads, WrLock(h) PROVE Quiet'
  BY Zenon, <1>7 DEF WrLock, store, roots, writer, collector
<1>8. ASSUME NEW h \in Heads, WrStep(h) PROVE Quiet'
  BY Zenon, <1>8 DEF WrStep, store, roots, writer, collector, Put, Get
<1>9. ASSUME NEW h \in Heads, WrPersist(h) PROVE Quiet'
  BY Zenon, <1>9 DEF WrPersist, store, roots, writer, collector, Built
<1>10. ASSUME NEW h \in Heads, WrRetarget(h) PROVE Quiet'
  BY Zenon, <1>10 DEF WrRetarget, store, roots, writer, collector
<1>11. ASSUME NEW h \in Heads, WrExpose(h) PROVE Quiet'
  BY Zenon, <1>11 DEF WrExpose, store, roots, writer, collector
<1>12. ASSUME NEW h \in Heads, WrDrop(h) PROVE Quiet'
  BY Zenon, <1>12 DEF WrDrop, DropRefs, RemoveBatch, store, roots, writer, collector, Leave, Built
<1>13. ASSUME NEW h \in Heads, WrAbort(h) PROVE Quiet'
  BY Zenon, <1>13 DEF WrAbort, store, roots, writer, collector, Leave
<1>14. ASSUME NEW h \in Heads, Reconcile(h) PROVE Quiet'
  BY Zenon, <1>14 DEF Reconcile, store, roots, writer, collector
<1>15. ASSUME NEW r \in Readers, RdBegin(r) PROVE Quiet'
  BY Zenon, <1>15 DEF RdBegin, store, roots, writer, collector, CanEnter
<1>16. ASSUME NEW r \in Readers, RdRead(r) PROVE Quiet'
  BY Zenon, <1>16 DEF RdRead, store, roots, writer, collector
<1>17. ASSUME NEW r \in Readers, RdEnd(r) PROVE Quiet'
  BY Zenon, <1>17 DEF RdEnd, store, roots, writer, collector
<1>18. CASE GcAsk
  BY Zenon, <1>18 DEF GcAsk, store, roots, writer, collector
<1>19. CASE GcCut
  BY Zenon, <1>19 DEF GcCut, store, roots, writer, collector
<1>20. CASE GcCutFail
  BY Zenon, <1>20 DEF GcCutFail, store, roots, writer, collector
<1>21. CASE GcMark
  BY Zenon, <1>21 DEF GcMark, store, roots, writer, collector
<1>22. CASE GcEnd
  BY Zenon, <1>22 DEF GcEnd, store, roots, writer, collector
<1>23. ASSUME NEW b \in Block, GcSweep(b) PROVE Quiet'
  BY Zenon, <1>23 DEF GcSweep, store, roots, writer, collector
<1>24. CASE Crash
  BY Zenon, <1>24 DEF Crash
<1>25. CASE UNCHANGED vars
  BY Zenon, <1>25 DEF vars
<1>26. QED
  BY Zenon, <1>1, <1>2, <1>3, <1>4, <1>5, <1>6, <1>7, <1>8, <1>9, <1>10, <1>11, <1>12, <1>13, <1>14, <1>15, <1>16, <1>17, <1>18, <1>19, <1>20, <1>21, <1>22, <1>23, <1>24, <1>25 DEF Next

-----------------------------------------------------------------------------
\* What is in use, by what uses it, and what leaves each part alone

RootBlocks == {x \in Block : \E h \in Heads : x \in Need[durable[h]] \/ x \in Need[target[h]] \/ x \in Need[shown[h]]}
BuildBlocks == {x \in Block : \E h \in Heads : pc[h] = "build" /\ \E k \in 1 .. at[h] - 1 : x = Op[mut[h]].steps[k].block}
IngBlocks == {x \in Block : \E h \in Heads : ing[h] # None /\ x \in ing[h].stored}
ReadBlocks == {x \in Block : \E r \in Readers : rd[r] # None /\ x \in Need[rd[r]]}
Used == RootBlocks \cup BuildBlocks \cup IngBlocks \cup ReadBlocks \cup (staging \cap Block)

\* The parts make up the whole.
LEMMA UsedInUse == \A x \in Block : InUse(x) <=> x \in Used
  BY Zenon DEF InUse, Used, RootBlocks, BuildBlocks, IngBlocks, ReadBlocks

\* Roots that stay the same retain the same blocks.
LEMMA RootFrame == UNCHANGED roots => RootBlocks' = RootBlocks
  BY Zenon DEF roots, RootBlocks

\* Mutations that make no step use the same blocks.
LEMMA BuildFrame == UNCHANGED writer => BuildBlocks' = BuildBlocks
  BY Zenon DEF writer, BuildBlocks

\* Requests that make no step have stored the same blobs.
LEMMA IngFrame == UNCHANGED ing => IngBlocks' = IngBlocks
  BY Zenon DEF IngBlocks

\* Leases that stay the same name the same blocks.
LEMMA ReadFrame == UNCHANGED rd => ReadBlocks' = ReadBlocks
  BY Zenon DEF ReadBlocks

\* A mutation that leaves the build, or has not entered it, uses no more.
LEMMA BuildLeft ==
  ASSUME TypeOK, NEW h \in Heads, NEW p, p # "build", pc' = [pc EXCEPT ![h] = p],
         \A g \in Heads : g # h => mut'[g] = mut[g] /\ at'[g] = at[g]
  PROVE  BuildBlocks' \subseteq BuildBlocks
<1>1. \A g \in Heads : pc'[g] = "build" => g # h /\ pc[g] = "build"
  BY Zenon DEF TypeOK
<1>2. QED
  BY <1>1 DEF BuildBlocks

\* Every block somebody counts on is in the store.
Present == Used \subseteq blocks

\* From the cut on, what is used is marked or touched.
Covered == Collecting => Used \subseteq live \cup touched

\* The invariant as the runs check it.
LEMMA CoveredProtected == Covered <=> Protected
<1>1. Used \subseteq Block
  BY Zenon DEF Used, RootBlocks, BuildBlocks, IngBlocks, ReadBlocks
<1>2. QED
  BY Zenon, <1>1, UsedInUse DEF Covered, Protected

\* The inductive invariant.
Inv == /\ TypeOK /\ CommitOrder /\ IngOrder /\ Quiet
       /\ Present /\ MarkComplete /\ Covered

\* A careful step leaves the collection alone, removes nothing, and starts
\* using a block only if it is in the store and, during a collection, marked or
\* touched.
Safe(x) == x \in blocks' /\ (Collecting => x \in live \/ x \in touched')
Careful ==
  /\ UNCHANGED collector
  /\ blocks \subseteq blocks' /\ touched \subseteq touched'
  /\ \A x \in Used' : x \in Used \/ Safe(x)

\* Every step that is not the collector's or a crash.
Traffic ==
  \/ \E h \in Heads : \/ IngBegin(h) \/ IngStore(h) \/ IngName(h) \/ IngPin(h) \/ IngAbort(h)
                      \/ WrEnter(h) \/ WrLock(h) \/ WrStep(h) \/ WrPersist(h) \/ WrRetarget(h)
                      \/ WrExpose(h) \/ WrDrop(h) \/ WrAbort(h)
                      \/ Reconcile(h)
  \/ \E r \in Readers : RdBegin(r) \/ RdRead(r) \/ RdEnd(r)

\* Careful steps keep every block in use present and protected.
LEMMA CarefulStep == Inv /\ Careful => Present' /\ MarkComplete' /\ Covered'
  BY Zenon DEF Inv, Careful, Safe, Present, MarkComplete, Covered, Collecting, collector

\* A step that neither touches the store nor uses more is careful.
LEMMA Calm ==
  ASSUME UNCHANGED store, UNCHANGED collector, Used' \subseteq Used
  PROVE  Careful
  BY Zenon DEF Careful, store

\* An application operation on a block leaves it in the store and protected:
\* an online collection records the touch, and there is no other collection
\* while the shared gate is held.
LEMMA Touched ==
  ASSUME Quiet, ~Drained, NEW b, Put(b) \/ Get(b)
  PROVE  Safe(b) /\ blocks \subseteq blocks' /\ touched \subseteq touched'
<1>1. b \in blocks' /\ blocks \subseteq blocks' /\ touched' = Touch({b})
  BY Zenon DEF Put, Get
<1>2. Collecting => OnlineGC
  BY Zenon DEF Quiet
<1>3. QED
  BY Zenon, <1>1, <1>2 DEF Safe, Touch

\* When a candidate is complete, what its root will retain is in use already:
\* the root it replaces retained it or the mutation read or wrote it.
LEMMA BuiltInUse ==
  ASSUME CommitOrder, NEW h \in Heads, Built(h)
  PROVE  mut[h] \in Mutation /\ Need[Op[mut[h]].to] \subseteq Used
<1> DEFINE m == mut[h]
<1>1. m \in Mutation /\ durable[h] = Op[m].from /\ at[h] \in 1 .. Len(Op[m].steps) + 1
  BY Zenon DEF Built, CommitOrder, Locked
<1>2. Op[m].steps \in Seq([kind : {"get", "put"}, block : Block]) /\ Op[m].to \in Root
  BY <1>1, ConstantTypes, Zenon DEF ConstantTypes
<1>3. Len(Op[m].steps) \in Nat
  BY <1>2
<1>4. at[h] - 1 = Len(Op[m].steps) /\ pc[h] = "build"
  BY <1>1, <1>3 DEF Built
<1>5. Need[Op[m].to] \subseteq Block
  BY Zenon, <1>2, ConstantTypes DEF ConstantTypes
<1>6. SUFFICES ASSUME NEW x \in Need[Op[m].to] PROVE x \in Used
  BY Zenon, <1>1
<1>7. x \in Block /\ (x \in Need[Op[m].from] \/ x \in Steps(m))
  BY Zenon, <1>1, <1>5, <1>6, OpsCovered
<1>8. CASE x \in Need[Op[m].from]
  BY Zenon, <1>1, <1>7, <1>8 DEF Used, RootBlocks
<1>9. CASE x \in Steps(m)
  <2>1. PICK k \in 1 .. Len(Op[m].steps) : x = Op[m].steps[k].block
    BY Zenon, <1>9 DEF Steps
  <2>2. k \in 1 .. at[h] - 1
    BY Zenon, <1>4
  <2>3. x \in BuildBlocks
    BY <1>4, <1>7, <2>1, <2>2, Zenon DEF BuildBlocks
  <2>4. QED
    BY Zenon, <2>3 DEF Used
<1>10. QED
  BY Zenon, <1>7, <1>8, <1>9

\* The copies of h's root that a commit moves take the value r, which retains
\* only what is used.
LEMMA RootsMove ==
  ASSUME NEW h \in Heads, NEW r, Need[r] \subseteq Used,
         \A g \in Heads : /\ durable'[g] \in {durable[g], target[g], shown[g], r}
                          /\ target'[g] \in {durable[g], target[g], shown[g], r}
                          /\ shown'[g] \in {durable[g], target[g], shown[g], r}
  PROVE  RootBlocks' \subseteq Used
<1> SUFFICES ASSUME NEW x \in Block, NEW g \in Heads,
                    x \in Need[durable'[g]] \/ x \in Need[target'[g]] \/ x \in Need[shown'[g]]
             PROVE  x \in Used
  BY Zenon DEF RootBlocks
<1>1. \/ x \in Need[durable[g]] \/ x \in Need[target[g]] \/ x \in Need[shown[g]] \/ x \in Need[r]
  BY Zenon
<1>2. QED
  BY Zenon, <1>1 DEF Used, RootBlocks

\* Everything but the collector and a crash is careful: requests, the head
\* engine, readers and the background reconciler.
LEMMA TrafficCareful == Inv /\ Traffic => Careful
<1> SUFFICES ASSUME Inv, Traffic PROVE Careful
  BY Zenon
<1>0. TypeOK /\ CommitOrder /\ IngOrder /\ Quiet
  BY Zenon DEF Inv
<1>a. ing \in [Heads -> Ing \cup {None}] /\ staging \subseteq Blob
  BY Zenon, <1>0 DEF TypeOK
<1>1. ASSUME NEW h \in Heads, IngBegin(h) PROVE Careful
  <2>1. PICK S \in Puts : ing' = [ing EXCEPT ![h] = [put |-> S, stored |-> {}, named |-> {}]]
    BY <1>1, Zenon DEF IngBegin
  <2>2. IngBlocks' \subseteq IngBlocks
    BY Zenon, <1>a, <2>1 DEF IngBlocks
  <2>3. UNCHANGED <<store, roots, writer, staging, rd, collector>>
    BY Zenon, <1>1 DEF IngBegin
  <2>4. QED
    BY Zenon, <2>2, <2>3, RootFrame, BuildFrame, ReadFrame, Calm DEF Used
<1>2. ASSUME NEW h \in Heads, IngStore(h) PROVE Careful
  <2>1. PICK b \in ing[h].put \ ing[h].stored :
          /\ Put(b)
          /\ ing' = [ing EXCEPT ![h] = [put |-> @.put, stored |-> @.stored \cup {b}, named |-> @.named]]
    BY <1>2, Zenon DEF IngStore
  <2>2. ing[h] # None /\ UNCHANGED <<roots, writer, staging, rd, collector>>
    BY Zenon, <1>2 DEF IngStore
  <2>3. ~Drained
    BY Zenon, <2>2 DEF Drained
  <2>4. Safe(b) /\ blocks \subseteq blocks' /\ touched \subseteq touched'
    BY Zenon, <1>0, <2>1, <2>3, Touched
  <2>5. IngBlocks' \subseteq IngBlocks \cup {b}
    BY Zenon, <1>a, <2>1, <2>2 DEF IngBlocks
  <2>6. Used' \subseteq Used \cup {b}
    BY Zenon, <2>2, <2>5, RootFrame, BuildFrame, ReadFrame DEF Used
  <2>7. QED
    BY Zenon, <2>2, <2>4, <2>6 DEF Careful
<1>3. ASSUME NEW h \in Heads, IngName(h) PROVE Careful
  <2>1. PICK b : ing' = [ing EXCEPT ![h] = [put |-> @.put, stored |-> @.stored, named |-> @.named \cup {b}]]
    BY <1>3, Zenon DEF IngName
  <2>2. ing[h] # None /\ UNCHANGED <<store, roots, writer, staging, rd, collector>>
    BY Zenon, <1>3 DEF IngName
  <2>3. IngBlocks' \subseteq IngBlocks
    BY Zenon, <1>a, <2>1, <2>2 DEF IngBlocks
  <2>4. QED
    BY Zenon, <2>2, <2>3, RootFrame, BuildFrame, ReadFrame, Calm DEF Used
<1>4. ASSUME NEW h \in Heads, IngPin(h) PROVE Careful
  <2>1. /\ ing[h] # None /\ ing[h].named = ing[h].put /\ staging' = staging \cup ing[h].put
        /\ ing' = [ing EXCEPT ![h] = None] /\ UNCHANGED <<store, roots, writer, rd, collector>>
    BY Zenon, <1>4 DEF IngPin, AddBatch
  <2>2. IngBlocks' \subseteq IngBlocks
    BY Zenon, <1>a, <2>1 DEF IngBlocks
  <2>3. ing[h].put \subseteq ing[h].stored
    BY Zenon, <1>0, <2>1 DEF IngOrder
  <2>4. ing[h].put \cap Block \subseteq IngBlocks
    BY Zenon, <2>1, <2>3 DEF IngBlocks
  <2>5. QED
    BY Zenon, <2>1, <2>2, <2>4, RootFrame, BuildFrame, ReadFrame, Calm DEF Used
<1>5. ASSUME NEW h \in Heads, IngAbort(h) PROVE Careful
  <2>1. ing' = [ing EXCEPT ![h] = None] /\ UNCHANGED <<store, roots, writer, staging, rd, collector>>
    BY Zenon, <1>5 DEF IngAbort
  <2>2. IngBlocks' \subseteq IngBlocks
    BY Zenon, <1>a, <2>1 DEF IngBlocks
  <2>3. QED
    BY Zenon, <2>1, <2>2, RootFrame, BuildFrame, ReadFrame, Calm DEF Used
<1>6. ASSUME NEW h \in Heads, WrEnter(h) PROVE Careful
  <2>1. /\ pc' = [pc EXCEPT ![h] = "entered"]
        /\ UNCHANGED <<store, roots, mut, at, ing, staging, rd, collector>>
    BY Zenon, <1>6 DEF WrEnter
  <2>2. BuildBlocks' \subseteq BuildBlocks
    BY <1>0, <2>1, BuildLeft, Zenon
  <2>3. QED
    BY Zenon, <2>1, <2>2, RootFrame, IngFrame, ReadFrame, Calm DEF Used
<1>7. ASSUME NEW h \in Heads, WrLock(h) PROVE Careful
  <2>1. UNCHANGED <<store, roots, ing, staging, rd, collector>>
    BY Zenon, <1>7 DEF WrLock
  <2>2. \A g \in Heads : pc'[g] = "build" =>
          \/ at'[g] = 1
          \/ pc[g] = "build" /\ at'[g] = at[g] /\ mut'[g] = mut[g]
    <3>1. PICK m \in Mutation : mut' = [mut EXCEPT ![h] = m]
      BY <1>7, Zenon DEF WrLock
    <3>2. at' = [at EXCEPT ![h] = 1] /\ pc' = [pc EXCEPT ![h] = "build"]
      BY Zenon, <1>7 DEF WrLock
    <3>3. DOMAIN mut = Heads /\ DOMAIN at = Heads /\ DOMAIN pc = Heads
      BY Zenon, <1>0 DEF TypeOK
    <3>4. \A g \in Heads : g # h => pc'[g] = pc[g] /\ at'[g] = at[g] /\ mut'[g] = mut[g]
      BY Zenon, <3>1, <3>2, <3>3
    <3>5. \A g \in Heads : g = h => at'[g] = 1
      BY Zenon, <3>2, <3>3
    <3>6. \A g \in Heads : g # h => (pc'[g] = "build" => pc[g] = "build")
      BY Zenon, <3>4
    <3>7. QED
      BY <3>4, <3>5, <3>6, Zenon
  <2>3. BuildBlocks' \subseteq BuildBlocks
    BY <2>2 DEF BuildBlocks
  <2>4. QED
    BY Zenon, <2>1, <2>3, RootFrame, IngFrame, ReadFrame, Calm DEF Used
<1>8. ASSUME NEW h \in Heads, WrStep(h) PROVE Careful
  <2> DEFINE b == Op[mut[h]].steps[at[h]].block
  <2>1. /\ pc[h] = "build" /\ (Put(b) \/ Get(b)) /\ at' = [at EXCEPT ![h] = @ + 1]
        /\ UNCHANGED <<roots, staging, pc, mut, ing, rd, collector>>
    BY Zenon, <1>8 DEF WrStep
  <2>2. ~Drained
    BY Zenon, <2>1 DEF Drained
  <2>3. Safe(b) /\ blocks \subseteq blocks' /\ touched \subseteq touched'
    BY Zenon, <1>0, <2>1, <2>2, Touched
  <2>4. at \in [Heads -> Nat]
    BY Zenon, <1>0 DEF TypeOK
  <2>5. ASSUME NEW x \in BuildBlocks' PROVE x \in BuildBlocks \/ x = b
    <3>1. PICK g \in Heads : pc[g] = "build" /\ \E k \in 1 .. at'[g] - 1 : x = Op[mut[g]].steps[k].block
      BY Zenon, <2>1, <2>5 DEF BuildBlocks
    <3>2. PICK k \in 1 .. at'[g] - 1 : x = Op[mut[g]].steps[k].block
      BY Zenon, <3>1
    <3>3. k \in 1 .. at[g] - 1 \/ (g = h /\ k = at[h])
      <4>1. at[g] \in Nat /\ at'[g] = IF g = h THEN at[g] + 1 ELSE at[g]
        BY Zenon, <2>1, <2>4
      <4>2. QED
        BY <4>1
    <3>4. x \in Block
      BY Zenon, <2>5 DEF BuildBlocks
    <3>5. CASE k \in 1 .. at[g] - 1
      BY <3>1, <3>2, <3>4, <3>5, Zenon DEF BuildBlocks
    <3>6. QED
      BY Zenon, <3>2, <3>3, <3>5
  <2>6. Used' \subseteq Used \cup {b}
    BY Zenon, <2>1, <2>5, RootFrame, IngFrame, ReadFrame DEF Used
  <2>7. QED
    BY Zenon, <2>1, <2>3, <2>6 DEF Careful
<1>9. ASSUME NEW h \in Heads, WrPersist(h) PROVE Careful
  <2> DEFINE r == Op[mut[h]].to
  <2>1. /\ Built(h) /\ durable' = [durable EXCEPT ![h] = r] /\ pc' = [pc EXCEPT ![h] = "persisted"]
        /\ UNCHANGED <<store, target, shown, staging, mut, at, ing, rd, collector>>
    BY Zenon, <1>9 DEF WrPersist
  <2>2. Need[r] \subseteq Used
    BY Zenon, <1>0, <2>1, BuiltInUse
  <2>3. \A g \in Heads : durable'[g] \in {durable[g], r} /\ target'[g] = target[g] /\ shown'[g] = shown[g]
    BY Zenon, <1>0, <2>1 DEF TypeOK
  <2>4. RootBlocks' \subseteq Used
    BY <2>2, <2>3, RootsMove
  <2>5. BuildBlocks' \subseteq BuildBlocks
    BY <1>0, <2>1, BuildLeft, Zenon
  <2>6. QED
    BY Zenon, <2>1, <2>4, <2>5, IngFrame, ReadFrame, Calm DEF Used
<1>b. ASSUME NEW h \in Heads, durable[h] = Op[mut[h]].to PROVE Need[Op[mut[h]].to] \subseteq Used
  <2>1. Need[durable[h]] \subseteq Block
    BY Zenon, <1>0, ConstantTypes DEF TypeOK, ConstantTypes
  <2>2. QED
    BY Zenon, <1>b, <2>1 DEF Used, RootBlocks
<1>10. ASSUME NEW h \in Heads, WrRetarget(h) PROVE Careful
  <2> DEFINE r == Op[mut[h]].to
  <2>1. /\ pc[h] = "persisted" /\ target' = [target EXCEPT ![h] = r] /\ pc' = [pc EXCEPT ![h] = "retargeted"]
        /\ UNCHANGED <<store, durable, shown, staging, mut, at, ing, rd, collector>>
    BY Zenon, <1>10 DEF WrRetarget
  <2>2. Need[r] \subseteq Used
    BY Zenon, <1>0, <1>b, <2>1 DEF CommitOrder, Locked
  <2>3. \A g \in Heads : durable'[g] = durable[g] /\ target'[g] \in {target[g], r} /\ shown'[g] = shown[g]
    BY Zenon, <1>0, <2>1 DEF TypeOK
  <2>4. RootBlocks' \subseteq Used
    BY <2>2, <2>3, RootsMove
  <2>5. BuildBlocks' \subseteq BuildBlocks
    BY <1>0, <2>1, BuildLeft, Zenon
  <2>6. QED
    BY Zenon, <2>1, <2>4, <2>5, IngFrame, ReadFrame, Calm DEF Used
<1>11. ASSUME NEW h \in Heads, WrExpose(h) PROVE Careful
  <2> DEFINE r == Op[mut[h]].to
  <2>1. /\ pc[h] = "retargeted" /\ shown' = [shown EXCEPT ![h] = r] /\ pc' = [pc EXCEPT ![h] = "exposed"]
        /\ UNCHANGED <<store, durable, target, staging, mut, at, ing, rd, collector>>
    BY Zenon, <1>11 DEF WrExpose
  <2>2. Need[r] \subseteq Used
    BY Zenon, <1>0, <1>b, <2>1 DEF CommitOrder, Locked
  <2>3. \A g \in Heads : durable'[g] = durable[g] /\ target'[g] = target[g] /\ shown'[g] \in {shown[g], r}
    BY Zenon, <1>0, <2>1 DEF TypeOK
  <2>4. RootBlocks' \subseteq Used
    BY <2>2, <2>3, RootsMove
  <2>5. BuildBlocks' \subseteq BuildBlocks
    BY <1>0, <2>1, BuildLeft, Zenon
  <2>6. QED
    BY Zenon, <2>1, <2>4, <2>5, IngFrame, ReadFrame, Calm DEF Used
<1>c. ASSUME NEW h \in Heads, Leave(h) PROVE BuildBlocks' \subseteq BuildBlocks
  <2>1. \A g \in Heads : g # h => mut'[g] = mut[g] /\ at'[g] = at[g]
    BY Zenon, <1>0, <1>c DEF Leave, TypeOK
  <2>2. pc' = [pc EXCEPT ![h] = "idle"]
    BY Zenon, <1>c DEF Leave
  <2>3. QED
    BY <1>0, <2>1, <2>2, BuildLeft, Zenon
<1>12. ASSUME NEW h \in Heads, WrDrop(h) PROVE Careful
  <2>1. /\ Leave(h) /\ staging' \subseteq staging
        /\ UNCHANGED <<store, roots, ing, rd, collector>>
    BY Zenon, <1>12 DEF WrDrop, DropRefs, RemoveBatch
  <2>2. QED
    BY Zenon, <1>c, <2>1, RootFrame, IngFrame, ReadFrame, Calm DEF Used
<1>13. ASSUME NEW h \in Heads, WrAbort(h) PROVE Careful
  <2>1. Leave(h) /\ UNCHANGED <<store, roots, staging, ing, rd, collector>>
    BY Zenon, <1>13 DEF WrAbort
  <2>2. QED
    BY Zenon, <1>c, <2>1, RootFrame, IngFrame, ReadFrame, Calm DEF Used
<1>14. ASSUME NEW h \in Heads, Reconcile(h) PROVE Careful
  <2>1. UNCHANGED <<store, roots, staging, writer, ing, rd, collector>>
    BY Zenon, <1>14 DEF Reconcile
  <2>2. QED
    BY Zenon, <2>1, RootFrame, BuildFrame, IngFrame, ReadFrame, Calm DEF Used
<1>15. ASSUME NEW r \in Readers, RdBegin(r) PROVE Careful
  <2>1. PICK h \in Heads : rd' = [rd EXCEPT ![r] = shown[h]]
    BY <1>15, Zenon DEF RdBegin
  <2>2. UNCHANGED <<store, roots, staging, writer, ing, collector>>
    BY Zenon, <1>15 DEF RdBegin
  <2>3. ReadBlocks' \subseteq ReadBlocks \cup RootBlocks
    BY Zenon, <1>0, <2>1 DEF ReadBlocks, RootBlocks, TypeOK
  <2>4. QED
    BY Zenon, <2>2, <2>3, RootFrame, BuildFrame, IngFrame, Calm DEF Used
<1>16. ASSUME NEW r \in Readers, RdRead(r) PROVE Careful
  <2>1. /\ blocks' = blocks /\ touched' = Touch(Need[rd[r]])
        /\ UNCHANGED <<roots, staging, writer, ing, rd, collector>>
    BY Zenon, <1>16 DEF RdRead
  <2>2. touched \subseteq touched'
    BY Zenon, <2>1 DEF Touch
  <2>3. Used' = Used
    BY Zenon, <2>1, RootFrame, BuildFrame, IngFrame, ReadFrame DEF Used
  <2>4. QED
    BY Zenon, <2>1, <2>2, <2>3 DEF Careful
<1>17. ASSUME NEW r \in Readers, RdEnd(r) PROVE Careful
  <2>1. rd' = [rd EXCEPT ![r] = None] /\ UNCHANGED <<store, roots, staging, writer, ing, collector>>
    BY Zenon, <1>17 DEF RdEnd
  <2>2. ReadBlocks' \subseteq ReadBlocks
    BY Zenon, <1>0, <2>1 DEF ReadBlocks, TypeOK
  <2>3. QED
    BY Zenon, <2>1, <2>2, RootFrame, BuildFrame, IngFrame, Calm DEF Used
<1>18. QED
  BY Zenon, <1>1, <1>2, <1>3, <1>4, <1>5, <1>6, <1>7, <1>8, <1>9, <1>10, <1>11, <1>12, <1>13, <1>14, <1>15, <1>16, <1>17 DEF Traffic

\* The collector and a crash keep every block in use present and protected.
\* At the cut the gate is drained, so what is in use is what is marked; a sweep
\* deletes only what is neither marked nor touched.
LEMMA CollectorStep ==
  ASSUME Inv,
         \/ GcAsk \/ GcCut \/ GcCutFail \/ GcMark \/ GcEnd
         \/ \E b \in Block : GcSweep(b)
         \/ Crash \/ UNCHANGED vars
  PROVE  Present' /\ MarkComplete' /\ Covered'
<1>0. TypeOK /\ CommitOrder /\ Present /\ MarkComplete /\ Covered
  BY Zenon DEF Inv
<1>a. ASSUME UNCHANGED <<roots, writer, ing, rd>>, staging' \subseteq staging PROVE Used' \subseteq Used
  BY Zenon, <1>a, RootFrame, BuildFrame, IngFrame, ReadFrame DEF Used
<1>1. CASE GcAsk
  <2>1. gc' = "waiting" /\ blocks' = blocks /\ UNCHANGED <<roots, writer, ing, rd, staging>>
    BY Zenon, <1>1 DEF GcAsk, store
  <2>2. QED
    BY Zenon, <1>0, <1>a, <2>1 DEF Present, MarkComplete, Covered, Collecting
<1>2. CASE GcCut
  <2>1. PICK E \in SUBSET staging : DropExpired(E)
    BY Zenon, <1>2 DEF GcCut
  <2>2. staging' \subseteq staging /\ UNCHANGED <<blocks, roots, writer, ing, rd>>
    BY Zenon, <1>2, <2>1 DEF GcCut, DropExpired, RemoveBatch
  <2>3. \A x : x \in live' <=> x \in staging' \/ \E h \in Heads : x \in Need[target[h]]
    BY Zenon, <1>2 DEF GcCut
  <2>4. BuildBlocks = {} /\ IngBlocks = {} /\ ReadBlocks = {}
    BY Zenon, <1>2 DEF GcCut, Drained, BuildBlocks, IngBlocks, ReadBlocks
  <2>5. \A h \in Heads : durable[h] = target[h] /\ shown[h] = target[h]
    BY Zenon, <1>0, <1>2 DEF GcCut, Drained, CommitOrder
  <2>6. RootBlocks \subseteq live'
    BY Zenon, <2>3, <2>5 DEF RootBlocks
  <2>7. Used' = RootBlocks \cup (staging' \cap Block)
    BY Zenon, <2>2, <2>4, RootFrame, BuildFrame, IngFrame, ReadFrame DEF Used
  <2>8. Used' \subseteq live' /\ Used' \subseteq Used
    BY Zenon, <1>a, <2>2, <2>3, <2>6, <2>7
  <2>9. live' \subseteq Used
    <3>1. \A h \in Heads : Need[target[h]] \subseteq Block
      BY Zenon, <1>0, ConstantTypes DEF TypeOK, ConstantTypes
    <3>2. staging \subseteq Block
      BY Zenon, <1>0, ConstantTypes DEF TypeOK, ConstantTypes
    <3>3. QED
      BY Zenon, <2>2, <2>3, <3>1, <3>2 DEF Used, RootBlocks
  <2>10. QED
    BY Zenon, <1>0, <2>2, <2>8, <2>9 DEF Present, MarkComplete, Covered
<1>3. CASE GcCutFail
  <2>1. staging' \subseteq staging /\ gc' = "idle" /\ blocks' = blocks /\ UNCHANGED <<roots, writer, ing, rd>>
    BY Zenon, <1>3 DEF GcCutFail, DropExpired, RemoveBatch, store
  <2>2. QED
    BY Zenon, <1>0, <1>a, <2>1 DEF Present, MarkComplete, Covered, Collecting
<1>4. CASE GcMark
  <2>1. gc = "mark" /\ UNCHANGED <<blocks, touched, live, roots, writer, ing, rd, staging>>
    BY Zenon, <1>4 DEF GcMark, store
  <2>2. QED
    BY Zenon, <1>0, <1>a, <2>1 DEF Present, MarkComplete, Covered, Collecting
<1>5. CASE GcEnd
  <2>1. gc' = "idle" /\ UNCHANGED <<blocks, roots, writer, ing, rd, staging>>
    BY Zenon, <1>5 DEF GcEnd
  <2>2. QED
    BY Zenon, <1>0, <1>a, <2>1 DEF Present, MarkComplete, Covered, Collecting
<1>6. ASSUME NEW b \in Block, GcSweep(b) PROVE Present' /\ MarkComplete' /\ Covered'
  <2>1. /\ b \notin live /\ b \notin touched /\ gc = "sweep" /\ blocks' = blocks \ {b}
        /\ UNCHANGED <<gc, live, touched, roots, writer, ing, rd, staging>>
    BY Zenon, <1>6 DEF GcSweep, collector
  <2>2. Used' \subseteq Used
    BY Zenon, <1>a, <2>1
  <2>3. b \notin Used
    BY Zenon, <1>0, <2>1 DEF Covered, Collecting
  <2>4. QED
    BY Zenon, <1>0, <2>1, <2>2, <2>3 DEF Present, MarkComplete, Covered, Collecting
<1>7. CASE Crash
  <2>1. /\ target' = durable /\ shown' = durable /\ UNCHANGED <<blocks, durable, staging>> /\ gc' = "idle"
        /\ \A h \in Heads : pc'[h] = "idle" /\ ing'[h] = None
        /\ \A r \in Readers : rd'[r] = None
    BY Zenon, <1>7 DEF Crash
  <2>2. BuildBlocks' = {} /\ IngBlocks' = {} /\ ReadBlocks' = {}
    BY Zenon, <2>1 DEF BuildBlocks, IngBlocks, ReadBlocks
  <2>3. RootBlocks' \subseteq RootBlocks
    BY Zenon, <2>1 DEF RootBlocks
  <2>4. Used' \subseteq Used
    BY Zenon, <2>1, <2>2, <2>3 DEF Used
  <2>5. QED
    BY Zenon, <1>0, <2>1, <2>4 DEF Present, MarkComplete, Covered, Collecting
<1>8. CASE UNCHANGED vars
  <2>1. UNCHANGED <<blocks, touched, gc, live, roots, writer, ing, rd, staging>>
    BY Zenon, <1>8 DEF vars, roots, writer
  <2>2. QED
    BY Zenon, <1>0, <1>a, <2>1 DEF Present, MarkComplete, Covered, Collecting
<1>9. QED
  BY Zenon, <1>1, <1>2, <1>3, <1>4, <1>5, <1>6, <1>7, <1>8

\* The inductive invariant holds in every reachable state.
THEOREM Invariance == Spec => []Inv
<1>1. Init => IngOrder /\ Quiet /\ Present /\ MarkComplete /\ Covered
  <2> SUFFICES ASSUME Init PROVE IngOrder /\ Quiet /\ Present /\ MarkComplete /\ Covered
    BY Zenon
  <2> USE DEF Init
  <2>1. Quiet /\ MarkComplete /\ Covered
    BY Zenon DEF Quiet, MarkComplete, Covered, Collecting
  <2>2. IngOrder
    BY Zenon DEF IngOrder
  <2>3. BuildBlocks = {} /\ IngBlocks = {} /\ ReadBlocks = {}
    BY Zenon DEF BuildBlocks, IngBlocks, ReadBlocks
  <2>4. RootBlocks \subseteq blocks
    BY Zenon DEF RootBlocks
  <2>5. Present
    BY Zenon, <2>3, <2>4 DEF Present, Used
  <2>6. QED
    BY Zenon, <2>1, <2>2, <2>5
<1>2. Inv /\ [Next]_vars => (IngOrder /\ Quiet /\ Present /\ MarkComplete /\ Covered)'
  <2> SUFFICES ASSUME Inv, [Next]_vars PROVE IngOrder' /\ Quiet' /\ Present' /\ MarkComplete' /\ Covered'
    BY Zenon
  <2>1. IngOrder' /\ Quiet'
    BY Zenon, IngStep, QuietStep DEF Inv
  <2>2. CASE Traffic
    BY Zenon, <2>1, <2>2, TrafficCareful, CarefulStep
  <2>3. CASE ~Traffic
    <3>1. \/ GcAsk \/ GcCut \/ GcCutFail \/ GcMark \/ GcEnd
          \/ \E b \in Block : GcSweep(b)
          \/ Crash \/ UNCHANGED vars
      BY Zenon, <2>3 DEF Next, Traffic
    <3>2. QED
      BY Zenon, <2>1, <3>1, CollectorStep
  <2>4. QED
    BY Zenon, <2>2, <2>3
<1>3. QED
  BY <1>1, <1>2, TypesAndCommits, PTL DEF Spec, Inv

\* The collector's sweep (GC.Run) removes no block that the policy retains of a
\* head's durable, retargeted or visible root, whatever commits meanwhile.
THEOREM Retained == Spec => []RetainedPresent
<1>1. Inv => RetainedPresent
  <2> SUFFICES ASSUME Inv, NEW h \in Heads
               PROVE  Need[durable[h]] \cup Need[target[h]] \cup Need[shown[h]] \subseteq blocks
    BY Zenon DEF RetainedPresent
  <2>1. Need[durable[h]] \cup Need[target[h]] \cup Need[shown[h]] \subseteq Block
    BY ConstantTypes DEF ConstantTypes, Inv, TypeOK
  <2>2. QED
    BY Zenon, <2>1 DEF Inv, Present, Used, RootBlocks
<1>2. QED
  BY <1>1, Invariance, PTL

\* The snapshot a reader leased (generation readers) stays complete until the
\* lease ends, although the head moves on and is collected.
THEOREM Readable == Spec => []SnapshotReadable
<1>1. Inv => SnapshotReadable
  <2> SUFFICES ASSUME Inv, NEW r \in Readers, rd[r] # None PROVE Need[rd[r]] \subseteq blocks
    BY Zenon DEF SnapshotReadable
  <2>1. Need[rd[r]] \subseteq Block
    BY Zenon, ConstantTypes DEF ConstantTypes, Inv, TypeOK
  <2>2. QED
    BY Zenon, <2>1 DEF Inv, Present, Used, ReadBlocks
<1>2. QED
  BY <1>1, Invariance, PTL

\* A blob with a staging pin (the blobs POST) is in the store until it expires.
THEOREM Staged == Spec => []StagedPresent
<1>1. Inv => StagedPresent
  BY Zenon, ConstantTypes DEF ConstantTypes, Inv, TypeOK, Present, Used, StagedPresent
<1>2. QED
  BY <1>1, Invariance, PTL

\* A candidate root about to be persisted (the head's commit) has every block it
\* retains, including those it shares with the root it replaces.
THEOREM CandidateComplete == Spec => []CandidatePresent
<1>1. Inv => CandidatePresent
  BY Zenon, BuiltInUse DEF CandidatePresent, Inv, Present
<1>2. QED
  BY <1>1, Invariance, PTL

\* The collector's mark meets no missing block, so it never fails for one.
THEOREM Markable == Spec => []MarkComplete
  BY Invariance, PTL DEF Inv

\* From the cut under the exclusive gate on, every block in use is marked or has
\* been touched in the epoch: what DeleteCandidate relies on.
THEOREM CutSound == Spec => []Protected
<1>1. Inv => Protected
  BY Zenon, CoveredProtected DEF Inv
<1>2. QED
  BY <1>1, Invariance, PTL
=============================================================================
