--------------------------- MODULE ReconcilerProofs ---------------------------
(***************************************************************************)
(* The pin reconciler's ledger, for every set of heads, roots and policies *)
(* and every number of registrations, failed passes and crashes.           *)
(***************************************************************************)
EXTENDS Reconciler, TLAPS

Swaps == {"idle", "swapped", "marked"}

-----------------------------------------------------------------------------
\* Type correctness

\* What a root and a policy ask for are pins.
LEMMA PinsType == ASSUME TypeOK, NEW h \in Heads PROVE Pins(h) \subseteq Pin
  BY ReconcilerAssumption DEF ReconcilerAssumption, TypeOK, Pins

\* A pass begins as one.
LEMMA BeginType ==
  ASSUME TypeOK, NEW h \in Heads, NEW by \in {"loop", "boot", "gc"}, Begin(h, by)
  PROVE  pass' \in Pass
<1>1. Pins(h) \in SUBSET Pin BY Zenon, PinsType
<1>2. (reg[h] = Withdrawn) \in BOOLEAN BY Zenon
<1> QED BY Zenon, <1>1, <1>2 DEF Begin, Pass

\* A row added or removed leaves rows.
LEMMA RowsType ==
  ASSUME NEW rows \in SUBSET Pin, NEW p \in Pin
  PROVE  AddRow(rows, p) \in SUBSET Pin /\ RemoveRow(rows, p) \in SUBSET Pin
  BY Zenon DEF AddRow, RemoveRow

\* Steps of a pass keep the state well typed.
LEMMA PassType ==
  ASSUME TypeOK, PassAdd \/ PassRemove \/ PassDone \/ PassFail
  PROVE  TypeOK'
<1> USE DEF TypeOK, signals, looping, sweeping
<1>0. pass \in Pass /\ pass.head \in Heads /\ pass.want \in SUBSET Pin
  BY Zenon DEF PassAdd, PassRemove, PassDone, PassFail, Pass
<1>1. Rows \in SUBSET Pin BY Zenon, <1>0 DEF Rows
<1>2. ASSUME NEW rows, Complete(rows) PROVE safe' \in [Heads -> SUBSET Pin]
  BY Zenon, <1>0, <1>2 DEF Complete
<1>3. CASE PassAdd
  <2>1. PICK p \in Additions(pass.want, Rows) : ledger' = [ledger EXCEPT ![pass.head] = AddRow(@, p)]
    BY Zenon, <1>3 DEF PassAdd
  <2>2. p \in Pin BY Zenon, <1>0 DEF Additions, Rewrites, Missing
  <2>3. ledger' \in [Heads -> SUBSET Pin] BY Zenon, <1>0, <2>1, <2>2, RowsType
  <2> QED BY Zenon, <1>2, <1>3, <2>3 DEF PassAdd
<1>4. CASE PassRemove
  <2>1. PICK p \in Stale(pass.want, Rows) : ledger' = [ledger EXCEPT ![pass.head] = RemoveRow(@, p)]
    BY Zenon, <1>4 DEF PassRemove
  <2>2. p \in Pin BY Zenon, <1>1 DEF Stale
  <2>3. ledger' \in [Heads -> SUBSET Pin] BY Zenon, <1>0, <2>1, <2>2, RowsType
  <2> QED BY Zenon, <1>2, <1>4, <2>3 DEF PassRemove
<1>5. CASE PassDone
  <2>1. reg' \in [Heads -> Root \cup {Withdrawn, None}] BY Zenon, <1>5 DEF PassDone
  <2> QED BY Zenon, <1>2, <1>5, <2>1 DEF PassDone
<1>6. CASE PassFail
  BY <1>6, ReconcilerAssumption DEF PassFail, ReconcilerAssumption
<1> QED BY Zenon, <1>3, <1>4, <1>5, <1>6

\* Every step keeps the state well typed.
LEMMA TypeStep == TypeOK /\ [Next]_vars => TypeOK'
<1> SUFFICES ASSUME TypeOK, [Next]_vars PROVE TypeOK'
  BY Zenon
<1> USE ReconcilerAssumption DEF ReconcilerAssumption, TypeOK, signals, looping, sweeping
<1>1. ASSUME NEW h \in Heads, NEW r \in Root, Retarget(h, r) PROVE TypeOK'
  BY <1>1 DEF Retarget, Install
<1>2. ASSUME NEW h \in Heads, NEW r \in Root \cup {Withdrawn}, Set(h, r) PROVE TypeOK'
  BY <1>2 DEF Set, Install
<1>3. ASSUME NEW h \in Heads, Mark(h) \/ Signal(h) PROVE TypeOK'
  BY Zenon, <1>3 DEF Mark, Signal
<1>4. ASSUME NEW h \in Heads, LoopNext(h) PROVE TypeOK'
  <2>1. pass' \in Pass \cup {None} BY Zenon, <1>4, BeginType DEF LoopNext
  <2> QED BY Zenon, <1>4, <2>1 DEF LoopNext
<1>5. ASSUME NEW h \in Heads, AllNext(h) PROVE TypeOK'
  <2>1. pass' \in Pass \cup {None} BY <1>5, BeginType DEF AllNext
  <2> QED BY Zenon, <1>5, <2>1 DEF AllNext
<1>6. CASE PassAdd \/ PassRemove \/ PassDone \/ PassFail
  BY Zenon, <1>6, PassType
<1>7. CASE LoopWake \/ LoopTick \/ LoopTake \/ LoopAgain
  BY Zenon, <1>7 DEF LoopWake, LoopTick, LoopTake, LoopAgain, Registered
<1>8. CASE GcStart \/ AllDone \/ GcRelease
  BY Zenon, <1>8 DEF GcStart, AllDone, GcRelease, Registered
<1>9. CASE Crash
  <2>1. reg' \in [Heads -> Root \cup {Withdrawn, None}] BY Zenon, <1>9 DEF Crash
  <2>2. policy' \in [Heads -> Policy] /\ swap' \in [Heads -> Swaps] BY Zenon, <1>9 DEF Crash, Swaps
  <2>3. faults' \in 0 .. MaxFaults BY <1>9 DEF Crash
  <2>4. /\ pending' = {} /\ wake' = FALSE /\ loop' = "select" /\ queue' = {} /\ pass' = None
        /\ all' = "boot" /\ rest' \subseteq Heads /\ UNCHANGED <<ledger, moves>>
    BY Zenon, <1>9 DEF Crash
  <2>5. safe' \in [Heads -> SUBSET Pin]
    <3>1. safe' = [h \in Heads |-> {p \in safe[h] : ~Narrows(p, policy'[h])}] BY Zenon, <1>9 DEF Crash
    <3> QED BY Zenon, <3>1
  <2> QED BY Zenon, <2>1, <2>2, <2>3, <2>4, <2>5 DEF Swaps
<1>10. CASE UNCHANGED vars
  BY Zenon, <1>10 DEF vars
<1> QED
  BY Zenon, <1>1, <1>2, <1>3, <1>4, <1>5, <1>6, <1>7, <1>8, <1>9, <1>10 DEF Next

\* The type invariant of the reconciler, for any heads, roots, policies and bounds.
THEOREM TypeCorrect == Spec => []TypeOK
<1>1. Init => TypeOK
  <2> SUFFICES ASSUME Init PROVE TypeOK BY Zenon
  <2> USE ReconcilerAssumption DEF ReconcilerAssumption, Init
  <2>1. /\ ledger \in [Heads -> SUBSET Pin] /\ safe \in [Heads -> SUBSET Pin]
        /\ policy \in [Heads -> Policy] /\ swap \in [Heads -> Swaps]
    BY Zenon DEF Swaps
  <2>2. reg \in [Heads -> Root \cup {Withdrawn, None}] BY Zenon
  <2>3. moves \in 0 .. MaxMoves /\ faults \in 0 .. MaxFaults OBVIOUS
  <2> QED BY Zenon, <2>1, <2>2, <2>3 DEF TypeOK, Swaps
<1> QED BY <1>1, TypeStep, PTL DEF Spec

-----------------------------------------------------------------------------
\* A mark is never lost

\* Marked heads wake the loop: the channel is full, a notifier is about to fill it, or
\* the loop is on its way to take them.
Awaited == pending # {} => wake \/ loop = "take" \/ \E h \in Heads : swap[h] = "marked"

\* Every step keeps the marks awaited.
LEMMA AwaitedStep == TypeOK /\ Awaited /\ [Next]_vars => Awaited'
<1> SUFFICES ASSUME TypeOK, Awaited, [Next]_vars PROVE Awaited'
  BY Zenon
<1> USE DEF TypeOK, Awaited, signals, looping, sweeping
<1>1. ASSUME NEW h \in Heads, NEW r \in Root, Retarget(h, r) PROVE Awaited'
  BY Zenon, <1>1 DEF Retarget
<1>2. ASSUME NEW h \in Heads, NEW r \in Root \cup {Withdrawn}, Set(h, r) PROVE Awaited'
  BY Zenon, <1>2 DEF Set
<1>3. ASSUME NEW h \in Heads, Mark(h) \/ Signal(h) PROVE Awaited'
  BY Zenon, <1>3 DEF Mark, Signal
<1>4. ASSUME NEW h \in Heads, LoopNext(h) \/ AllNext(h) PROVE Awaited'
  BY Zenon, <1>4 DEF LoopNext, AllNext
<1>5. CASE PassAdd \/ PassRemove \/ PassDone \/ PassFail
  BY Zenon, <1>5 DEF PassAdd, PassRemove, PassDone, PassFail
<1>6. CASE LoopWake \/ LoopTick \/ LoopTake \/ LoopAgain
  BY Zenon, <1>6 DEF LoopWake, LoopTick, LoopTake, LoopAgain
<1>7. CASE GcStart \/ AllDone \/ GcRelease
  BY Zenon, <1>7 DEF GcStart, AllDone, GcRelease
<1>8. CASE Crash
  BY Zenon, <1>8 DEF Crash
<1>9. CASE UNCHANGED vars
  BY Zenon, <1>9 DEF vars
<1> QED
  BY Zenon, <1>1, <1>2, <1>3, <1>4, <1>5, <1>6, <1>7, <1>8, <1>9 DEF Next

\* A marked head is never forgotten while the loop waits in its select (Notify,
\* takePending): the mark and the signal are two steps, and so are the loop's receive
\* and its take.
THEOREM WakesKept == Spec => []NoLostWake
<1>1. Init => Awaited BY Zenon DEF Init, Awaited
<1>2. Awaited => NoLostWake BY Zenon DEF Awaited, NoLostWake
<1> QED BY <1>1, <1>2, AwaitedStep, TypeCorrect, PTL DEF Spec

-----------------------------------------------------------------------------
\* The ledger between two writes

\* No root's rows under the head's policy narrow one of these.
Asked(h, rows) == \A p \in rows : ~Narrows(p, policy[h])

\* Each row of the last complete pin set is still there, or one that reaches as much.
Covered(h) == \A p \in safe[h] : \E q \in ledger[h] : Key(q) = Key(p) /\ Reach[p] \subseteq Reach[q]

\* The pass under way works for a root under its head's policy, or drains a tombstone.
Working == pass # None => pass.want = {} \/ \E r \in Root : pass.want = Want[policy[pass.head]][r]

Kept == Working /\ \A h \in Heads : Asked(h, safe[h]) /\ Covered(h)

\* What a row is rewritten to reaches what the row was needed for.
LEMMA RewriteWidens ==
  ASSUME TypeOK, Working, pass # None, NEW p \in pass.want, NEW q, Key(q) = Key(p), Asked(pass.head, {q})
  PROVE  Reach[q] \subseteq Reach[p]
<1>1. PICK r \in Root : p \in Want[policy[pass.head]][r] BY Zenon DEF Working
<1> QED BY Zenon, <1>1 DEF Asked, Narrows

\* Without additions left, the pass's pins are all there.
LEMMA NothingToAdd ==
  ASSUME NEW want, NEW have, Additions(want, have) = {}
  PROVE  want \subseteq have
  BY DEF Additions, Rewrites, Missing

\* A begun pass works for the current registration.
LEMMA BeginWorks ==
  ASSUME TypeOK, NEW h \in Heads, NEW by, Begin(h, by)
  PROVE  pass'.head = h /\ (pass'.want = {} \/ \E r \in Root : pass'.want = Want[policy[h]][r])
  BY Zenon DEF Begin, Pins, TypeOK

\* The policy a pin set is asked for under does not narrow it.
LEMMA WantAsked ==
  ASSUME TypeOK, Working, pass # None
  PROVE  Asked(pass.head, pass.want)
<1>1. policy[pass.head] \in Policy BY Zenon DEF TypeOK, Pass
<1>2. ASSUME NEW p \in pass.want, Narrows(p, policy[pass.head]) PROVE FALSE
  <2>1. PICK r \in Root : p \in Want[policy[pass.head]][r] BY Zenon DEF Working
  <2>2. PICK t \in Root : \E q \in Want[policy[pass.head]][t] : Key(q) = Key(p) /\ ~(Reach[p] \subseteq Reach[q])
    BY Zenon, <1>2 DEF Narrows
  <2>3. PICK q \in Want[policy[pass.head]][t] : Key(q) = Key(p) /\ ~(Reach[p] \subseteq Reach[q]) BY Zenon, <2>2
  <2>4. q = p BY Zenon, <1>1, <2>1, <2>3, FlagAssumption DEF FlagAssumption
  <2> QED BY Zenon, <2>3, <2>4
<1> QED BY Zenon, <1>2 DEF Asked

\* A head's coverage is left alone by what leaves its rows and policy alone.
LEMMA KeptFrame ==
  ASSUME Kept, UNCHANGED <<ledger, safe, policy>>, Working'
  PROVE  Kept'
  BY Zenon DEF Kept, Asked, Covered

\* Steps of a pass keep what the last complete set reaches.
LEMMA PassKeeps ==
  ASSUME TypeOK, Kept, PassAdd \/ PassRemove \/ PassDone \/ PassFail
  PROVE  Kept'
<1>0. pass \in Pass /\ pass # None /\ pass.head \in Heads /\ pass.want \in SUBSET Pin /\ Working
  BY Zenon, ReconcilerAssumption DEF ReconcilerAssumption, TypeOK, Kept, PassAdd, PassRemove, PassDone, PassFail, Pass
<1>a. PICK g \in Heads : g = pass.head BY Zenon, <1>0
<1>1. UNCHANGED policy /\ Working'
  BY Zenon, <1>0, <1>a DEF Kept, PassAdd, PassRemove, PassDone, PassFail, Working
<1>2. Asked(g, pass.want)
  BY Zenon, <1>0, <1>a, WantAsked
<1>3. ASSUME NEW rows, Complete(rows) PROVE \A h \in Heads : Asked(h, safe[h])'
  <2>1. \A h \in Heads : safe'[h] = safe[h] \/ (h = g /\ safe'[h] = pass.want)
    BY Zenon, <1>0, <1>a, <1>3 DEF Complete, TypeOK
  <2> QED BY Zenon, <1>1, <1>2, <2>1 DEF Kept, Asked
<1>4. ASSUME NEW h \in Heads, h # g, NEW rows, Complete(rows), ledger'[h] = ledger[h] PROVE Covered(h)'
  <2>1. safe'[h] = safe[h] BY Zenon, <1>0, <1>a, <1>4 DEF Complete, TypeOK
  <2> QED BY Zenon, <1>4, <2>1 DEF Kept, Covered
<1>5. ASSUME pass.want \subseteq ledger'[g], safe'[g] = pass.want PROVE Covered(g)'
  BY Zenon, <1>0, <1>a, <1>5 DEF Covered
<1>6. CASE PassAdd
  <2>1. PICK p \in Additions(pass.want, Rows) : ledger' = [ledger EXCEPT ![pass.head] = AddRow(@, p)]
    BY Zenon, <1>6 DEF PassAdd
  <2>2. p \in pass.want BY Zenon DEF Additions, Rewrites, Missing
  <2>3. ledger'[g] = AddRow(ledger[g], p) /\ \A h \in Heads : h # g => ledger'[h] = ledger[h]
    BY Zenon, <1>0, <1>a, <2>1 DEF TypeOK
  <2>4. Complete(ledger'[g]) BY Zenon, <1>0, <1>a, <1>6 DEF PassAdd
  <2>5. CASE pass.want \subseteq ledger'[g]
    <3>1. safe'[g] = pass.want BY Zenon, <1>0, <1>a, <2>4, <2>5 DEF Complete, TypeOK
    <3>2. Covered(g)' BY Zenon, <1>5, <2>5, <3>1
    <3> QED BY Zenon, <1>1, <1>3, <1>4, <2>3, <2>4, <3>2 DEF Kept
  <2>6. CASE ~ (pass.want \subseteq ledger'[g])
    <3>1. safe' = safe BY Zenon, <2>4, <2>6 DEF Complete
    <3>2. ASSUME NEW s \in safe[g]
          PROVE \E q \in ledger'[g] : Key(q) = Key(s) /\ Reach[s] \subseteq Reach[q]
      <4>1. CASE Key(s) = Key(p)
        <5>1. Asked(g, {s}) BY Zenon DEF Kept, Asked
        <5>2. Reach[s] \subseteq Reach[p] BY Zenon, <1>0, <1>a, <2>2, <4>1, <5>1, RewriteWidens
        <5> QED BY Zenon, <2>3, <4>1, <5>2 DEF AddRow
      <4>2. CASE Key(s) # Key(p)
        <5>1. PICK q \in ledger[g] : Key(q) = Key(s) /\ Reach[s] \subseteq Reach[q]
          BY Zenon, <1>0, <1>a DEF Kept, Covered
        <5> QED BY Zenon, <2>3, <4>2, <5>1 DEF AddRow
      <4> QED BY Zenon, <4>1, <4>2
    <3>3. Covered(g)' BY Zenon, <1>0, <1>a, <1>6, <3>1, <3>2 DEF Covered, PassAdd
    <3> QED BY Zenon, <1>1, <1>3, <1>4, <2>3, <2>4, <3>3 DEF Kept
  <2> QED BY Zenon, <2>5, <2>6
<1>7. CASE PassRemove
  <2>1. PICK p \in Stale(pass.want, Rows) : ledger' = [ledger EXCEPT ![pass.head] = RemoveRow(@, p)]
    BY Zenon, <1>7 DEF PassRemove
  <2>2. pass.want \subseteq ledger[g] BY Zenon, <1>0, <1>a, <1>7, NothingToAdd DEF PassRemove, Rows
  <2>3. ledger'[g] = RemoveRow(ledger[g], p) /\ \A h \in Heads : h # g => ledger'[h] = ledger[h]
    BY Zenon, <1>0, <1>a, <2>1 DEF TypeOK
  <2>4. pass.want \subseteq ledger'[g] BY Zenon, <2>1, <2>2, <2>3 DEF RemoveRow, Stale
  <2>5. Complete(ledger[g]) BY Zenon, <1>0, <1>a, <1>7 DEF PassRemove, Rows
  <2>6. safe'[g] = pass.want BY Zenon, <1>0, <1>a, <2>2, <2>5 DEF Complete, TypeOK
  <2>7. Covered(g)' BY Zenon, <1>5, <2>4, <2>6
  <2> QED BY Zenon, <1>1, <1>3, <1>4, <2>3, <2>5, <2>7 DEF Kept
<1>8. CASE PassDone
  <2>1. ledger' = ledger /\ Rows = pass.want /\ Complete(Rows) BY Zenon, <1>8 DEF PassDone
  <2>2. safe'[g] = pass.want BY Zenon, <1>0, <1>a, <2>1 DEF Complete, TypeOK
  <2>3. Covered(g)' BY Zenon, <1>a, <1>5, <2>1, <2>2 DEF Rows
  <2> QED BY Zenon, <1>1, <1>3, <1>4, <2>1, <2>3 DEF Kept
<1>9. CASE PassFail
  BY Zenon, <1>1, <1>9, KeptFrame DEF PassFail
<1> QED BY Zenon, <1>6, <1>7, <1>8, <1>9

\* Every step keeps what the last complete set reaches.
LEMMA KeptStep == TypeOK /\ Kept /\ [Next]_vars => Kept'
<1> SUFFICES ASSUME TypeOK, Kept, [Next]_vars PROVE Kept'
  BY Zenon
<1> USE DEF signals, looping, sweeping
<1>0. ASSUME UNCHANGED <<ledger, safe, policy, pass>> PROVE Kept'
  BY Zenon, <1>0, KeptFrame DEF Kept, Working
<1>1. ASSUME NEW h \in Heads, NEW r \in Root, Retarget(h, r) PROVE Kept'
  BY Zenon, <1>0, <1>1 DEF Retarget
<1>2. ASSUME NEW h \in Heads, NEW r \in Root \cup {Withdrawn}, Set(h, r) PROVE Kept'
  BY Zenon, <1>0, <1>2 DEF Set
<1>3. ASSUME NEW h \in Heads, Mark(h) \/ Signal(h) PROVE Kept'
  BY Zenon, <1>0, <1>3 DEF Mark, Signal
<1>4. ASSUME NEW h \in Heads, LoopNext(h) \/ AllNext(h) PROVE Kept'
  <2>1. UNCHANGED <<ledger, safe, policy>> BY Zenon, <1>4 DEF LoopNext, AllNext
  <2>2. CASE UNCHANGED pass BY Zenon, <1>0, <2>1, <2>2
  <2>3. CASE \E by : Begin(h, by)
    <3>1. Working' BY Zenon, <2>1, <2>3, BeginWorks DEF Working
    <3> QED BY Zenon, <2>1, <3>1, KeptFrame
  <2> QED BY Zenon, <1>4, <2>2, <2>3 DEF LoopNext, AllNext
<1>5. CASE PassAdd \/ PassRemove \/ PassDone \/ PassFail
  BY Zenon, <1>5, PassKeeps
<1>6. CASE LoopWake \/ LoopTick \/ LoopTake \/ LoopAgain
  BY Zenon, <1>0, <1>6 DEF LoopWake, LoopTick, LoopTake, LoopAgain
<1>7. CASE GcStart \/ AllDone \/ GcRelease
  BY Zenon, <1>0, <1>7 DEF GcStart, AllDone, GcRelease
<1>8. CASE Crash
  <2>1. UNCHANGED ledger /\ pass' = None BY Zenon, <1>8 DEF Crash
  <2>2. \A h \in Heads : safe'[h] = {p \in safe[h] : ~Narrows(p, policy'[h])} BY Zenon, <1>8 DEF Crash
  <2>3. ASSUME NEW h \in Heads PROVE Asked(h, safe[h])' /\ Covered(h)'
    <3>1. \A p \in safe'[h] : p \in safe[h] /\ ~Narrows(p, policy'[h]) BY Zenon, <2>2
    <3>2. Asked(h, safe[h])' BY Zenon, <3>1 DEF Asked, Narrows
    <3>3. Covered(h)' BY Zenon, <2>1, <3>1 DEF Kept, Covered
    <3> QED BY Zenon, <3>2, <3>3
  <2> QED BY Zenon, <2>1, <2>3 DEF Kept, Working
<1>9. CASE UNCHANGED vars
  BY Zenon, <1>0, <1>9 DEF vars
<1> QED
  BY Zenon, <1>1, <1>2, <1>3, <1>4, <1>5, <1>6, <1>7, <1>8, <1>9 DEF Next

\* Rows retain what one of them reaches.
LEMMA RetainsRow == \A rows, x : x \in Retains(rows) <=> \E p \in rows : x \in Reach[p]
  BY Zenon DEF Retains

\* Whatever the policies and their edits, and wherever passes fail, are overtaken or
\* crash, the blocks of the last complete pin set stay pinned until a newer one is
\* complete, but for the rows an edited policy asks to reach less (reconcileHead writes
\* the ledger a row at a time).
THEOREM LedgerCovers == Spec => []CrashSafe
<1>1. ASSUME Init PROVE Kept
  <2>1. pass = None /\ \A h \in Heads : safe[h] = {} BY Zenon, <1>1 DEF Init
  <2> QED BY Zenon, <2>1 DEF Kept, Working, Asked, Covered
<1>2. Kept => CrashSafe
  <2> SUFFICES ASSUME Kept, NEW h \in Heads, NEW x \in Retains(safe[h]) PROVE x \in Retains(ledger[h])
    BY Zenon DEF CrashSafe
  <2>1. PICK p \in safe[h] : x \in Reach[p] BY Zenon, RetainsRow
  <2>2. PICK q \in ledger[h] : Reach[p] \subseteq Reach[q] BY Zenon DEF Kept, Covered
  <2> QED BY Zenon, <2>1, <2>2, RetainsRow
<1> QED BY <1>1, <1>2, KeptStep, TypeCorrect, PTL DEF Spec

-----------------------------------------------------------------------------
\* The collector's cut

\* The head's rows are what its registration asks for, and that is not to drain it.
Exact(h) == reg[h] # None => reg[h] # Withdrawn /\ ledger[h] = Pins(h)

\* Under the exclusive gate no swap is in progress, the pass under way works for the
\* registration as it is, and the heads that are neither left nor under way are exact.
Flushing ==
  all \in {"gc", "cut"} =>
    /\ \A h \in Heads : swap[h] = "idle"
    /\ rest \subseteq Registered
    /\ pass # None => /\ pass.want = Pins(pass.head) /\ pass.head \notin rest
                      /\ pass.drains <=> reg[pass.head] = Withdrawn
    /\ \A h \in Heads : h \notin rest /\ (pass # None => pass.head # h) => Exact(h)
    /\ all = "cut" => rest = {} /\ pass = None

\* A step that leaves the registrations, the rows and the pass alone, and opens no gate.
LEMMA FlushingFrame ==
  ASSUME Flushing, UNCHANGED <<reg, policy, ledger, pass, swap, all, rest>>
  PROVE  Flushing'
  BY Zenon DEF Flushing, Exact, Pins, Registered

\* Steps of a pass keep the flush exact.
LEMMA PassFlushes ==
  ASSUME TypeOK, Flushing, PassAdd \/ PassRemove \/ PassDone \/ PassFail
  PROVE  Flushing'
<1> USE DEF signals, looping, sweeping
<1>0. pass \in Pass /\ pass # None /\ pass.head \in Heads
  BY Zenon, ReconcilerAssumption DEF ReconcilerAssumption, TypeOK, PassAdd, PassRemove, PassDone, PassFail, Pass
<1>1. CASE PassFail
  BY Zenon, <1>1 DEF PassFail, Flushing
<1>2. CASE PassAdd \/ PassRemove
  <2>1. UNCHANGED <<reg, policy, pass, swap, all, rest>> BY Zenon, <1>2 DEF PassAdd, PassRemove
  <2>2. \A h \in Heads : h # pass.head => ledger'[h] = ledger[h]
    BY Zenon, <1>0, <1>2 DEF PassAdd, PassRemove, TypeOK
  <2> QED BY Zenon, <1>0, <2>1, <2>2 DEF Flushing, Exact, Pins, Registered
<1>3. CASE PassDone
  <2> SUFFICES ASSUME all \in {"gc", "cut"} PROVE Flushing'
    BY Zenon, <1>3 DEF PassDone, Flushing
  <2>1. UNCHANGED <<policy, ledger, swap, all, rest>> /\ pass' = None /\ ledger[pass.head] = pass.want
    BY Zenon, <1>3 DEF PassDone, Rows
  <2>2. pass.want = Pins(pass.head) /\ pass.head \notin rest /\ (pass.drains <=> reg[pass.head] = Withdrawn)
    BY Zenon, <1>0 DEF Flushing
  <2>3. \A h \in Heads : h # pass.head => reg'[h] = reg[h]
    BY Zenon, <1>0, <1>3 DEF PassDone, TypeOK
  <2>4. rest \subseteq Registered' BY Zenon, <2>2, <2>3 DEF Flushing, Registered
  <2>5. ASSUME NEW h \in Heads, h # pass.head, h \notin rest PROVE Exact(h)'
    BY Zenon, <1>0, <2>1, <2>3, <2>5 DEF Flushing, Exact, Pins
  <2>6. ASSUME NEW h \in Heads, h = pass.head PROVE Exact(h)'
    <3>1. CASE reg[h] = Withdrawn
      <4>1. reg'[h] = None BY Zenon, <1>0, <1>3, <2>2, <2>6, <3>1 DEF PassDone, SameWithdrawal, TypeOK
      <4> QED BY Zenon, <4>1 DEF Exact
    <3>2. CASE reg[h] # Withdrawn
      <4>1. reg'[h] = reg[h] BY Zenon, <1>0, <1>3, <2>2, <2>6, <3>2 DEF PassDone, SameWithdrawal, TypeOK
      <4> QED BY Zenon, <2>1, <2>2, <2>6, <3>2, <4>1 DEF Exact, Pins
    <3> QED BY Zenon, <3>1, <3>2
  <2> QED BY Zenon, <1>0, <2>1, <2>4, <2>5, <2>6 DEF Flushing
<1> QED BY Zenon, <1>1, <1>2, <1>3

\* Every step keeps the flush exact.
LEMMA FlushingStep == TypeOK /\ Flushing /\ [Next]_vars => Flushing'
<1> SUFFICES ASSUME TypeOK, Flushing, [Next]_vars PROVE Flushing'
  BY Zenon
<1> USE DEF signals, looping, sweeping
<1>1. ASSUME NEW h \in Heads, NEW r \in Root, Retarget(h, r) PROVE Flushing'
  BY Zenon, <1>1 DEF Retarget, Open, Flushing
<1>2. ASSUME NEW h \in Heads, NEW r \in Root \cup {Withdrawn}, Set(h, r) PROVE Flushing'
  BY Zenon, <1>2 DEF Set, Open, Flushing
<1>3. ASSUME NEW h \in Heads, Mark(h) \/ Signal(h) PROVE Flushing'
  <2>1. all \notin {"gc", "cut"} BY Zenon, <1>3 DEF Mark, Signal, Flushing
  <2> QED BY Zenon, <1>3, <2>1 DEF Mark, Signal, Flushing
<1>4. ASSUME NEW h \in Heads, LoopNext(h) PROVE Flushing'
  BY Zenon, <1>4 DEF LoopNext, Open, Flushing
<1>5. ASSUME NEW h \in Heads, AllNext(h) PROVE Flushing'
  <2> SUFFICES ASSUME all = "gc" PROVE Flushing'
    BY Zenon, <1>5 DEF AllNext, Flushing
  <2>1. UNCHANGED <<reg, policy, ledger, swap, all>> /\ pass = None /\ h \in rest /\ rest' = rest \ {h}
    BY Zenon, <1>5 DEF AllNext
  <2>2. pass' \in Pass BY Zenon, <1>5, BeginType DEF AllNext
  <2>3. pass' # None /\ pass'.head = h /\ pass'.want = Pins(h) /\ (pass'.drains <=> reg[h] = Withdrawn)
    BY Zenon, <1>5, <2>2, ReconcilerAssumption DEF ReconcilerAssumption, AllNext, Begin
  <2>4. Pins(h) = Pins(h)' BY Zenon, <2>1 DEF Pins
  <2> QED BY Zenon, <2>1, <2>3, <2>4 DEF Flushing, Exact, Pins, Registered
<1>6. CASE PassAdd \/ PassRemove \/ PassDone \/ PassFail
  BY Zenon, <1>6, PassFlushes
<1>7. CASE LoopWake \/ LoopTick \/ LoopTake \/ LoopAgain
  BY Zenon, <1>7, FlushingFrame DEF LoopWake, LoopTick, LoopTake, LoopAgain
<1>8. CASE GcStart
  BY Zenon, <1>8 DEF GcStart, Flushing, Exact, Registered
<1>9. CASE AllDone \/ GcRelease
  BY Zenon, <1>9 DEF AllDone, GcRelease, Flushing, Exact, Pins, Registered
<1>10. CASE Crash
  BY Zenon, <1>10 DEF Crash, Flushing
<1>11. CASE UNCHANGED vars
  BY Zenon, <1>11, FlushingFrame DEF vars
<1> QED
  BY Zenon, <1>1, <1>2, <1>3, <1>4, <1>5, <1>6, <1>7, <1>8, <1>9, <1>10, <1>11 DEF Next

\* When the collector takes its cut, every head's rows are the ones its root and policy
\* ask for and no tombstone is left (reconcileAll under Gate): a pass that failed before
\* the collection, or inside it, never reaches the cut.
THEOREM CutIsExact == Spec => []CutExact
<1>1. Init => Flushing
  BY Zenon DEF Init, Flushing
<1>2. Flushing => CutExact
  BY Zenon DEF Flushing, CutExact, Exact
<1> QED BY <1>1, <1>2, FlushingStep, TypeCorrect, PTL DEF Spec
===============================================================================
