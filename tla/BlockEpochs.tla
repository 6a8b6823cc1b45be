----------------------------- MODULE BlockEpochs -----------------------------
(* store.BlockstoreEpochs, one lock acquisition or store access at a time:   *)
(* application operations and collectors share the lifecycle RWMutex and the *)
(* shard locks of the active epoch.  An epoch is named by its id, a key is a  *)
(* multihash.  proof is a history variable: the collection generation at     *)
(* which an application operation last found or made a key present.          *)
EXTENDS Integers, FiniteSets

CONSTANTS
  Key, Shard,   \* Shard is a set of integers: locks are taken in their order
  ShardOf,      \* epochShardIndex
  App,          \* goroutines using the application view
  Collector,    \* goroutines that begin epochs
  OpsOf,        \* goroutine -> the operations it makes
  MaxEpochs,    \* bound on the number of epochs
  None

Op == {"get", "put", "putmany", "delete", "list"}

ASSUME EpochsAssumption ==
  /\ Shard \subseteq Int /\ IsFiniteSet(Shard)
  /\ ShardOf \in [Key -> Shard]
  /\ MaxEpochs \in Nat
  /\ App \cap Collector = {} /\ None \notin App \cup Collector
  /\ OpsOf \in [App -> SUBSET Op]

VARIABLES
  base,     \* the blocks in the underlying store
  active,   \* the active epoch's id, or 0
  nextID,   \* the id allocated last
  touched,  \* the active epoch's protection set
  owner,    \* shard -> the goroutine that has locked it
  app,      \* App -> its operation
  col,      \* Collector -> its handle and what it is doing
  proof

vars == <<base, active, nextID, touched, owner, app, col, proof>>

Idle == [pc |-> "idle", op |-> None, keys |-> {}, epoch |-> 0, left |-> {}]
Resting == [pc |-> "idle", handle |-> 0, ended |-> FALSE, key |-> None]

Init ==
  /\ base \in SUBSET Key /\ active = 0 /\ nextID = 0 /\ touched = {}
  /\ owner = [s \in Shard |-> None]
  /\ app = [p \in App |-> Idle] /\ col = [c \in Collector |-> Resting]
  /\ proof = [k \in Key |-> -1]

-----------------------------------------------------------------------------
\* Locks

Deleting == {"shard", "check", "delete", "leave"}
Reading == (\E p \in App : app[p].pc # "idle") \/ (\E c \in Collector : col[c].pc \in Deleting)

\* Slip: readers go past a waiting writer.
CanRLockPast == TRUE

\* sync.RWMutex: a waiting writer holds new readers back.
CanRLock == \A c \in Collector : col[c].pc \notin {"begin", "end"}

Free(x) == [s \in Shard |-> IF owner[s] = x THEN None ELSE owner[s]]
Needed(p) == {ShardOf[k] : k \in app[p].keys}
Missing(p) == IF app[p].epoch = 0 THEN {} ELSE {s \in Needed(p) : owner[s] # p}
NextShard(p) == {s \in Missing(p) : \A t \in Missing(p) : s <= t}

-----------------------------------------------------------------------------
\* Application operations

Goes(p, pc) == app' = [app EXCEPT ![p].pc = pc]

\* withKey and PutMany: take the lifecycle lock and read the active epoch.
AppEnter(p, op, K) ==
  /\ app[p].pc = "idle" /\ CanRLock /\ op \in OpsOf[p]
  /\ app' = [app EXCEPT ![p] = [pc |-> "in", op |-> op, keys |-> K, epoch |-> active, left |-> K]]
  /\ UNCHANGED <<base, active, nextID, touched, owner, col, proof>>

\* Slip: the shards of a batch are locked in any order.
AppLockAny(p) ==
  /\ app[p].pc = "in"
  /\ \E s \in Missing(p) : owner[s] = None /\ owner' = [owner EXCEPT ![s] = p]
  /\ UNCHANGED <<base, active, nextID, touched, app, col, proof>>

\* Lock the next shard, in ascending order.
AppLock(p) ==
  /\ app[p].pc = "in"
  /\ \E s \in NextShard(p) : owner[s] = None /\ owner' = [owner EXCEPT ![s] = p]
  /\ UNCHANGED <<base, active, nextID, touched, app, col, proof>>

Ready(p, ops) == app[p].pc = "in" /\ app[p].op \in ops /\ Missing(p) = {}

\* Get, Has and GetSize find the key.
AppRead(p) ==
  /\ Ready(p, {"get"})
  /\ \E k \in app[p].keys : k \in base /\ proof' = [proof EXCEPT ![k] = nextID]
  /\ app' = [app EXCEPT ![p].pc = "touch", ![p].left = {}]
  /\ UNCHANGED <<base, active, nextID, touched, owner, col>>

\* ... or do not, or the store fails.
AppMiss(p) ==
  /\ Ready(p, {"get"}) /\ Goes(p, "leave")
  /\ UNCHANGED <<base, active, nextID, touched, owner, col, proof>>

\* Put and PutMany store one block; the last one makes the call succeed.
AppWrite(p, k) ==
  /\ Ready(p, {"put", "putmany"}) /\ k \in app[p].left
  /\ base' = base \cup {k} /\ proof' = [proof EXCEPT ![k] = nextID]
  /\ app' = [app EXCEPT ![p].left = @ \ {k}, ![p].pc = IF app[p].left = {k} THEN "touch" ELSE @]
  /\ UNCHANGED <<active, nextID, touched, owner, col>>

\* The store fails, having written the block or not.  A batch protects all of
\* its keys all the same, a single Put nothing.
AppWriteFail(p, k) ==
  /\ Ready(p, {"put", "putmany"}) /\ k \in app[p].left
  /\ base' \in {base, base \cup {k}}
  /\ Goes(p, IF app[p].op = "putmany" THEN "touch" ELSE "leave")
  /\ UNCHANGED <<active, nextID, touched, owner, col, proof>>

\* DeleteBlock, by the application itself.
AppDelete(p) ==
  /\ Ready(p, {"delete"})
  /\ base' = base \ app[p].keys
  /\ proof' = [k \in Key |-> IF k \in app[p].keys THEN -1 ELSE proof[k]]
  /\ Goes(p, "leave")
  /\ UNCHANGED <<active, nextID, touched, owner, col>>

AppTouch(p) ==
  /\ app[p].pc = "touch" /\ Goes(p, "leave")
  /\ touched' = IF app[p].epoch = 0 THEN touched ELSE touched \cup app[p].keys
  /\ UNCHANGED <<base, active, nextID, owner, col, proof>>

\* AllKeysChan is refused during an epoch, and otherwise keeps the lifecycle
\* lock until its caller has drained or cancelled it.
AppList(p) ==
  /\ Ready(p, {"list"}) /\ Goes(p, "leave")
  /\ UNCHANGED <<base, active, nextID, touched, owner, col, proof>>

AppLeave(p) ==
  /\ app[p].pc = "leave"
  /\ app' = [app EXCEPT ![p] = Idle] /\ owner' = Free(p)
  /\ UNCHANGED <<base, active, nextID, touched, col, proof>>

-----------------------------------------------------------------------------
\* Collectors

Does(c, pc) == col' = [col EXCEPT ![c].pc = pc]

\* Begin and End wait for the lifecycle lock.
Ask(c, pc) ==
  /\ col[c].pc = "idle" /\ Does(c, pc)
  /\ UNCHANGED <<base, active, nextID, touched, owner, app, proof>>
\* The bound spares an ask that is sure to be refused.
AskBegin(c) == (nextID < MaxEpochs \/ (active # 0 /\ active = col[c].handle)) /\ Ask(c, "begin")
AskEnd(c) == col[c].handle # 0 /\ ~col[c].ended /\ Ask(c, "end")

Begin(c) ==
  /\ col[c].pc = "begin" /\ ~Reading /\ active = 0
  /\ nextID' = nextID + 1 /\ active' = nextID + 1 /\ touched' = {}
  /\ col' = [col EXCEPT ![c] = [pc |-> "idle", handle |-> nextID + 1, ended |-> FALSE, key |-> None]]
  /\ UNCHANGED <<base, owner, app, proof>>

\* ErrEpochActive.
BeginRefused(c) ==
  /\ col[c].pc = "begin" /\ ~Reading /\ active # 0 /\ Does(c, "idle")
  /\ UNCHANGED <<base, active, nextID, touched, owner, app, proof>>

\* End runs once, and ends its own epoch only.
End(c) ==
  /\ col[c].pc = "end" /\ ~Reading
  /\ col' = [col EXCEPT ![c].pc = "idle", ![c].ended = TRUE]
  /\ IF active = col[c].handle THEN active' = 0 /\ touched' = {} ELSE UNCHANGED <<active, touched>>
  /\ UNCHANGED <<base, nextID, owner, app, proof>>

\* DeleteCandidate: anything but the active epoch's handle gets ErrEpochEnded.
DelEnter(c, k) ==
  /\ col[c].pc = "idle" /\ col[c].handle # 0 /\ CanRLock
  /\ active = col[c].handle
  /\ col' = [col EXCEPT ![c].pc = "shard", ![c].key = k]
  /\ UNCHANGED <<base, active, nextID, touched, owner, app, proof>>

\* Slip: the candidate's shard is not locked.
DelUnlocked(c) ==
  /\ col[c].pc = "shard" /\ Does(c, "check")
  /\ UNCHANGED <<base, active, nextID, touched, owner, app, proof>>

DelLock(c) ==
  /\ col[c].pc = "shard" /\ owner[ShardOf[col[c].key]] = None
  /\ owner' = [owner EXCEPT ![ShardOf[col[c].key]] = c] /\ Does(c, "check")
  /\ UNCHANGED <<base, active, nextID, touched, app, proof>>

DelCheck(c) ==
  /\ col[c].pc = "check"
  /\ Does(c, IF col[c].key \in touched THEN "leave" ELSE "delete")
  /\ UNCHANGED <<base, active, nextID, touched, owner, app, proof>>

\* The underlying delete takes place, or fails.
DelBase(c) ==
  /\ col[c].pc = "delete" /\ Does(c, "leave")
  /\ base' \in {base, base \ {col[c].key}}
  /\ UNCHANGED <<active, nextID, touched, owner, app, proof>>

DelLeave(c) ==
  /\ col[c].pc = "leave"
  /\ col' = [col EXCEPT ![c].pc = "idle", ![c].key = None] /\ owner' = Free(c)
  /\ UNCHANGED <<base, active, nextID, touched, app, proof>>

-----------------------------------------------------------------------------
AppStep(p) ==
  \/ AppLock(p) \/ AppRead(p) \/ AppMiss(p) \/ AppDelete(p) \/ AppTouch(p) \/ AppList(p) \/ AppLeave(p)
  \/ \E k \in Key : AppWrite(p, k) \/ AppWriteFail(p, k)
ColStep(c) ==
  \/ Begin(c) \/ BeginRefused(c) \/ End(c)
  \/ DelLock(c) \/ DelCheck(c) \/ DelBase(c) \/ DelLeave(c)

Next ==
  \/ \E p \in App :
       \/ AppStep(p)
       \/ \E k \in Key, op \in {"get", "put", "delete"} : AppEnter(p, op, {k})
       \/ \E K \in (SUBSET Key) \ {{}} : AppEnter(p, "putmany", K)
       \/ AppEnter(p, "list", {})
  \/ \E c \in Collector : \/ ColStep(c) \/ AskBegin(c) \/ AskEnd(c)
                          \/ \E k \in Key : DelEnter(c, k)

Spec == Init /\ [][Next]_vars

\* Goroutines are scheduled, store accesses return, and enumerations are
\* drained or cancelled.  No operation is forced to start.  A shard lock is
\* granted to whoever waits for it long enough (sync.Mutex starvation mode).
Fairness ==
  /\ \A p \in App : WF_vars(AppStep(p)) /\ SF_vars(AppLock(p))
  /\ \A c \in Collector : WF_vars(ColStep(c)) /\ SF_vars(DelLock(c))

FairSpec == Spec /\ Fairness

-----------------------------------------------------------------------------
\* Properties

\* Type invariant.
TypeOK ==
  /\ base \subseteq Key /\ touched \subseteq Key
  /\ nextID \in Nat /\ active \in {0, nextID}
  /\ owner \in [Shard -> App \cup Collector \cup {None}]
  /\ app \in [App -> [pc : {"idle", "in", "touch", "leave"}, op : Op \cup {None},
                      keys : SUBSET Key, epoch : Nat, left : SUBSET Key]]
  /\ col \in [Collector -> [pc : {"idle", "begin", "end"} \cup Deleting, handle : Nat,
                            ended : BOOLEAN, key : Key \cup {None}]]
  /\ proof \in [Key -> Int]

\* A presence proof stays true for as long as CollectionGeneration stays the
\* same: what long-lived application caches rely on (epoch.go 174-177).
ProofHolds == \A k \in Key : proof[k] = nextID => k \in base

\* The shards a goroutine is waiting for.
Awaits(x) ==
  IF x \in App THEN IF app[x].pc = "in" THEN NextShard(x) ELSE {}
  ELSE IF col[x].pc = "shard" THEN {ShardOf[col[x].key]} ELSE {}

\* Overlapping batches and deletions never wait for each other in a circle
\* (PutMany locks in ascending order to prevent it, epoch.go 412-414).
NoCircularWait ==
  ~ \E S \in (SUBSET (App \cup Collector)) \ {{}} :
      \A x \in S : \E s \in Awaits(x) : owner[s] \in S \ {x}

\* What the application may count on, and whether a collection is in progress.
Known == {k \in Key : proof[k] = nextID}
Collecting == active # 0

Store == INSTANCE ProtectedStore WITH stored <- base, collecting <- Collecting, known <- Known

\* Under the locks every operation takes effect at one instant, and a
\* collection deletes nothing that the application has found or stored since it
\* began: no delete comes between an access to the store and its touch.
ImplementsStore == Store!Spec

\* Every operation returns, and every Begin and End gets the lifecycle lock:
\* overlapping batches and a waiting collector do not block each other for ever.
Returns ==
  /\ \A p \in App : app[p].pc # "idle" ~> app[p].pc = "idle"
  /\ \A c \in Collector : col[c].pc # "idle" ~> col[c].pc = "idle"
==============================================================================
