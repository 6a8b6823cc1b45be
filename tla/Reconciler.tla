------------------------------ MODULE Reconciler ------------------------------
(***************************************************************************)
(* The pin reconciler (pinning/reconcile.go, pinning/follow.go): it keeps  *)
(* each head's ledger rows equal to what the registered engine and policy  *)
(* ask for, one ledger write at a time, woken by root swaps and a ticker,  *)
(* and flushed by the collector under the exclusive gate.                  *)
(*                                                                         *)
(* A registration is a root, Withdrawn (a tombstone whose rows are to be   *)
(* drained) or None (the name is not registered).  A root stands for the   *)
(* head with its manifest tip.                                             *)
(***************************************************************************)
EXTENDS Naturals

CONSTANTS
  Heads,        \* head names
  Followed,     \* the ones this node follows; it writes the others
  Root, InitRoot,
  Policy,
  Configs,      \* the configurations the daemon may be started with: [Heads -> Policy]
  Pin,          \* [purpose, cid, recursive]
  Block,
  Want,         \* [Policy -> [Root -> SUBSET Pin]]: Desired
  Reach,        \* [Pin -> SUBSET Block]: what marking the pin reaches
  MaxMoves,     \* bound: registrations after the first
  MaxFaults,    \* bound: failed passes and crashes
  Withdrawn, None

Pass == [head : Heads, by : {"loop", "boot", "gc"}, want : SUBSET Pin, drains : BOOLEAN]

ASSUME ReconcilerAssumption ==
  /\ Followed \subseteq Heads /\ InitRoot \in Root
  /\ Want \in [Policy -> [Root -> SUBSET Pin]] /\ Reach \in [Pin -> SUBSET Block]
  /\ Withdrawn \notin Root /\ None \notin Root /\ Withdrawn # None /\ None \notin Pass
  /\ Configs \subseteq [Heads -> Policy]
  /\ MaxMoves \in Nat /\ MaxFaults \in Nat

Key(p) == <<p.purpose, p.cid>>

\* A policy gives each purpose one flag (Desired): the rows it asks for under one key,
\* for whatever roots, are the same row.
ASSUME FlagAssumption ==
  \A m \in Policy : \A r, t \in Root : \A p \in Want[m][r], q \in Want[m][t] : Key(p) = Key(q) => p = q

VARIABLES
  ledger,       \* [Heads -> SUBSET Pin], durable
  policy,       \* [Heads -> Policy], the configuration, fixed while the daemon runs
  reg,          \* the registration of a name
  swap,         \* a root swap: "idle", "swapped" (not marked yet), "marked" (not signalled yet)
  pending,      \* the heads marked for reconciliation
  wake,         \* the one-bit channel
  loop, queue,  \* Run: "select", "take" or "drain", and the names still to reconcile
  pass,         \* the pass under way, or None
  all, rest,    \* a pass over every head: "idle", "boot", "gc" or "cut", and the names left
  safe,         \* history: the last pin set the ledger held in full, without the rows a
                \* policy edited since asks to reach less
  moves, faults

signals == <<pending, wake>>
looping == <<loop, queue>>
sweeping == <<all, rest>>
vars == <<ledger, policy, reg, swap, pending, wake, loop, queue, pass, all, rest, safe, moves, faults>>

Pins(h) == IF reg[h] \in Root THEN Want[policy[h]][reg[h]] ELSE {}
Retains(rows) == UNION {Reach[p] : p \in rows}
Registered == {h \in Heads : reg[h] # None}

\* The shared gate is open to root swaps and passes.
Open == all = "idle"

-----------------------------------------------------------------------------
\* Registration

Install(h, r) ==
  /\ moves < MaxMoves /\ moves' = moves + 1
  /\ reg' = [reg EXCEPT ![h] = r]

\* A written head's root swap retargets its entry (BindReplacement); OnRoot
\* notifies afterwards, still inside the gate.
Retarget(h, r) ==
  /\ Open /\ h \notin Followed /\ swap[h] = "idle" /\ r # reg[h]
  /\ Install(h, r)
  /\ swap' = [swap EXCEPT ![h] = "swapped"]
  /\ UNCHANGED <<ledger, policy, signals, looping, pass, sweeping, safe, faults>>

\* Notify: the name is marked under the lock, then the channel is signalled.
Mark(h) ==
  /\ swap[h] = "swapped"
  /\ pending' = pending \cup {h}
  /\ swap' = [swap EXCEPT ![h] = "marked"]
  /\ UNCHANGED <<ledger, policy, reg, wake, looping, pass, sweeping, safe, moves, faults>>

Signal(h) ==
  /\ swap[h] = "marked"
  /\ wake' = TRUE
  /\ swap' = [swap EXCEPT ![h] = "idle"]
  /\ UNCHANGED <<ledger, policy, reg, pending, looping, pass, sweeping, safe, moves, faults>>

\* The closure of PrepareSetBatch: a follower adopts a root or withdraws a head.
Set(h, r) ==
  /\ Open /\ h \in Followed /\ swap[h] = "idle"
  /\ r = Withdrawn => reg[h] \in Root
  /\ Install(h, r)
  /\ pending' = pending \cup {h}
  /\ swap' = [swap EXCEPT ![h] = "marked"]
  /\ UNCHANGED <<ledger, policy, wake, looping, pass, sweeping, safe, faults>>

-----------------------------------------------------------------------------
\* One pass: reconcileHead

\* plan: the rows whose flag is wrong are rewritten, then the missing ones are
\* added, then the rows nobody asks for are removed.  Only the pass writes the
\* head's rows, so the three lists are what is left to do.
Rewrites(want, have) == {p \in want : \E q \in have : Key(q) = Key(p) /\ q # p}
Missing(want, have) == {p \in want : \A q \in have : Key(q) # Key(p)}
Stale(want, have) == {q \in have : \A p \in want : Key(q) # Key(p)}
Additions(want, have) ==
  IF Rewrites(want, have) # {} THEN Rewrites(want, have) ELSE Missing(want, have)

\* The entry is read under the lock, the pins it asks for are computed from it.
Begin(h, by) == pass' = [head |-> h, by |-> by, want |-> Pins(h),
                         drains |-> reg[h] = Withdrawn]

\* Ledger.Add overwrites the row of the same key, Remove deletes it.
AddRow(rows, p) == {q \in rows : Key(q) # Key(p)} \cup {p}
RemoveRow(rows, p) == {q \in rows : Key(q) # Key(p)}

\* Ledger.ListAll
Rows == ledger[pass.head]
Complete(rows) == safe' = IF pass.want \subseteq rows THEN [safe EXCEPT ![pass.head] = pass.want] ELSE safe

PassAdd ==
  /\ pass # None
  /\ \E p \in Additions(pass.want, Rows) :
       ledger' = [ledger EXCEPT ![pass.head] = AddRow(@, p)]
  /\ Complete(ledger'[pass.head])
  /\ UNCHANGED <<policy, reg, swap, signals, looping, pass, sweeping, moves, faults>>

\* Slip: stale rows go before the missing ones are in.
PassRemoveFirst ==
  /\ pass # None
  /\ \E p \in Stale(pass.want, Rows) : ledger' = [ledger EXCEPT ![pass.head] = RemoveRow(@, p)]
  /\ Complete(Rows)
  /\ UNCHANGED <<policy, reg, swap, signals, looping, pass, sweeping, moves, faults>>

PassRemove ==
  /\ pass # None /\ Additions(pass.want, Rows) = {}
  /\ \E p \in Stale(pass.want, Rows) : ledger' = [ledger EXCEPT ![pass.head] = RemoveRow(@, p)]
  /\ Complete(Rows)
  /\ UNCHANGED <<policy, reg, swap, signals, looping, pass, sweeping, moves, faults>>

\* A drained tombstone is deleted unless a newer registration replaced it.  The
\* tokens are pointers to zero-size values, which share one address: a newer
\* tombstone compares equal.
SameWithdrawal(p) == p.drains /\ reg[p.head] = Withdrawn

PassDone ==
  /\ pass # None /\ Rows = pass.want
  /\ reg' = IF SameWithdrawal(pass) THEN [reg EXCEPT ![pass.head] = None] ELSE reg
  /\ Complete(Rows)
  /\ pass' = None
  /\ UNCHANGED <<ledger, policy, swap, signals, looping, sweeping, moves, faults>>

\* Slip: the collector goes on to the next head as the loop does.
PassFailLogged ==
  /\ pass # None /\ pass.by # "boot" /\ faults < MaxFaults
  /\ faults' = faults + 1
  /\ pass' = None
  /\ UNCHANGED <<ledger, policy, reg, swap, signals, looping, sweeping, safe, moves>>

\* Enumeration, the manifest tip or a ledger write fails: the loop goes on to
\* the next name, the collector gives up.
PassFail ==
  /\ pass # None /\ pass.by # "boot" /\ faults < MaxFaults
  /\ faults' = faults + 1
  /\ pass' = None
  /\ all' = "idle" /\ rest' = {}
  /\ UNCHANGED <<ledger, policy, reg, swap, signals, looping, safe, moves>>

-----------------------------------------------------------------------------
\* Run

LoopWake ==
  /\ loop = "select" /\ wake
  /\ wake' = FALSE /\ loop' = "take"
  /\ UNCHANGED <<ledger, policy, reg, swap, pending, queue, pass, sweeping, safe, moves, faults>>

\* Slip: the ticker only wakes the loop.
LoopTickIdle ==
  /\ loop = "select"
  /\ loop' = "take"
  /\ UNCHANGED <<ledger, policy, reg, swap, signals, queue, pass, sweeping, safe, moves, faults>>

\* The ticker marks every registered head.
LoopTick ==
  /\ loop = "select"
  /\ pending' = pending \cup Registered /\ loop' = "take"
  /\ UNCHANGED <<ledger, policy, reg, swap, wake, queue, pass, sweeping, safe, moves, faults>>

\* takePending
LoopTake ==
  /\ loop = "take"
  /\ queue' = pending \cap Registered /\ pending' = {}
  /\ loop' = IF queue' = {} THEN "select" ELSE "drain"
  /\ UNCHANGED <<ledger, policy, reg, swap, wake, pass, sweeping, safe, moves, faults>>

\* ReconcileHead of the next name; a name withdrawn meanwhile is an error.
LoopNext(h) ==
  /\ loop = "drain" /\ Open /\ pass = None /\ h \in queue
  /\ queue' = queue \ {h}
  /\ IF reg[h] = None THEN UNCHANGED pass ELSE Begin(h, "loop")
  /\ UNCHANGED <<ledger, policy, reg, swap, signals, loop, sweeping, safe, moves, faults>>

LoopAgain ==
  /\ loop = "drain" /\ pass = None /\ queue = {}
  /\ loop' = "select"
  /\ UNCHANGED <<ledger, policy, reg, swap, signals, queue, pass, sweeping, safe, moves, faults>>

-----------------------------------------------------------------------------
\* ReconcileAll before the daemon serves, and reconcileAll under the exclusive
\* gate before the collector marks

GcStart ==
  /\ Open /\ pass = None /\ \A h \in Heads : swap[h] = "idle"
  /\ all' = "gc" /\ rest' = Registered
  /\ UNCHANGED <<ledger, policy, reg, swap, signals, looping, pass, safe, moves, faults>>

AllNext(h) ==
  /\ all \in {"boot", "gc"} /\ pass = None /\ h \in rest
  /\ rest' = rest \ {h}
  /\ Begin(h, all)
  /\ UNCHANGED <<ledger, policy, reg, swap, signals, looping, all, safe, moves, faults>>

AllDone ==
  /\ all \in {"boot", "gc"} /\ pass = None /\ rest = {}
  /\ all' = IF all = "gc" THEN "cut" ELSE "idle"
  /\ UNCHANGED <<ledger, policy, reg, swap, signals, looping, pass, rest, safe, moves, faults>>

\* The pins are snapshotted, the epoch begins and the gate is released.
GcRelease ==
  /\ all = "cut"
  /\ all' = "idle"
  /\ UNCHANGED <<ledger, policy, reg, swap, signals, looping, pass, rest, safe, moves, faults>>

-----------------------------------------------------------------------------
\* Some root's row of the same key reaches less than the row under the policy.
Narrows(p, m) == \E r \in Root : \E q \in Want[m][r] : Key(q) = Key(p) /\ ~(Reach[p] \subseteq Reach[q])

\* A restart registers the durable root of each written head, possibly newer
\* than the entry, under the policies the configuration holds by then; a followed
\* head is registered again when the follower resumes it.
Crash ==
  /\ faults < MaxFaults /\ faults' = faults + 1
  /\ reg' \in {r \in [Heads -> Root \cup {None}] : \A h \in Heads : r[h] = None <=> h \in Followed}
  /\ policy' \in Configs
  /\ safe' = [h \in Heads |-> {p \in safe[h] : ~Narrows(p, policy'[h])}]
  /\ swap' = [h \in Heads |-> "idle"]
  /\ pending' = {} /\ wake' = FALSE /\ loop' = "select" /\ queue' = {}
  /\ pass' = None /\ all' = "boot" /\ rest' = Heads \ Followed
  /\ UNCHANGED <<ledger, moves>>

Init ==
  /\ ledger = [h \in Heads |-> {}] /\ safe = [h \in Heads |-> {}]
  /\ policy \in Configs
  /\ reg = [h \in Heads |-> IF h \in Followed THEN None ELSE InitRoot]
  /\ swap = [h \in Heads |-> "idle"]
  /\ pending = {} /\ wake = FALSE /\ loop = "select" /\ queue = {}
  /\ pass = None /\ all = "boot" /\ rest = Heads \ Followed
  /\ moves = 0 /\ faults = 0

Passing == PassAdd \/ PassRemove \/ PassDone

Next ==
  \/ \E h \in Heads : \/ \E r \in Root : Retarget(h, r)
                      \/ \E r \in Root \cup {Withdrawn} : Set(h, r)
                      \/ Mark(h) \/ Signal(h) \/ LoopNext(h) \/ AllNext(h)
  \/ PassAdd \/ PassRemove \/ PassDone \/ PassFail
  \/ LoopWake \/ LoopTick \/ LoopTake \/ LoopAgain
  \/ GcStart \/ AllDone \/ GcRelease
  \/ Crash

Spec == Init /\ [][Next]_vars

\* The loop's goroutine, its ticker, a root swap's notification and a pass over
\* every head are all scheduled; new swaps, collections and faults are not.
Fairness ==
  /\ WF_vars(Passing \/ LoopWake \/ LoopTick \/ LoopTake \/ LoopAgain)
  /\ WF_vars(\E h \in Heads : LoopNext(h))
  /\ WF_vars(\E h \in Heads : Mark(h) \/ Signal(h))
  /\ WF_vars(AllDone \/ GcRelease \/ \E h \in Heads : AllNext(h))

FairSpec == Spec /\ Fairness

-----------------------------------------------------------------------------
\* Properties

\* Type invariant.
TypeOK ==
  /\ ledger \in [Heads -> SUBSET Pin]
  /\ policy \in [Heads -> Policy]
  /\ reg \in [Heads -> Root \cup {Withdrawn, None}]
  /\ swap \in [Heads -> {"idle", "swapped", "marked"}]
  /\ pending \subseteq Heads /\ wake \in BOOLEAN
  /\ loop \in {"select", "take", "drain"} /\ queue \subseteq Heads
  /\ pass \in Pass \cup {None}
  /\ all \in {"idle", "boot", "gc", "cut"} /\ rest \subseteq Heads
  /\ safe \in [Heads -> SUBSET Pin]
  /\ moves \in 0 .. MaxMoves /\ faults \in 0 .. MaxFaults

\* Whatever crash or error comes between two ledger writes, and whatever policies the
\* restart finds, everything the last complete pin set reaches stays pinned until a
\* newer set is complete, but for the rows that an edited policy asks to reach less:
\* the new root's blocks are pinned before any pin the old root needed is dropped
\* (reconcileHead).
CrashSafe == \A h \in Heads : Retains(safe[h]) \subseteq Retains(ledger[h])

\* When the collector snapshots the pins, every registered head's rows are
\* exactly the ones its current root and policy ask for, and no tombstone is
\* left, whatever passes failed or were overtaken before.
CutExact ==
  all = "cut" => \A h \in Heads : reg[h] # None => reg[h] # Withdrawn /\ ledger[h] = Pins(h)

\* A marked head is never forgotten: while the loop waits in its select, the
\* channel is full or a notifier is about to fill it (Notify, takePending).
NoLostWake ==
  loop = "select" /\ pending # {} => wake \/ \E h \in Heads : swap[h] = "marked"

\* Once registrations and faults stop, the ledger becomes and stays what the
\* registrations ask for, and tombstones are drained and disappear.
Converges ==
  <>[](\A h \in Heads : /\ reg[h] # Withdrawn
                        /\ reg[h] \in Root => ledger[h] = Pins(h))
==============================================================================
