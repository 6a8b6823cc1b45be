-------------------------- MODULE BlockEpochsProofs --------------------------
(* The epoch blockstore implements the atomic store, for every set of keys,   *)
(* shards, application goroutines and collectors.                             *)
EXTENDS BlockEpochs, FiniteSetTheorems, WellFoundedInduction, TLAPS

AppRec == [pc : {"idle", "in", "touch", "leave"}, op : Op \cup {None},
           keys : SUBSET Key, epoch : Nat, left : SUBSET Key]
ColRec == [pc : {"idle", "begin", "end"} \cup Deleting, handle : Nat,
           ended : BOOLEAN, key : Key \cup {None}]

\* Keys whose blocks an operation has found or stored and not yet protected.
Pending(p) == IF app[p].pc \in {"in", "touch"} THEN app[p].keys \ app[p].left ELSE {}

\* An application operation: only a batch is ever half written, a single put or
\* delete has one key, the lifecycle lock keeps its epoch in place, and from its first
\* access to its touch it owns the shards of its keys.
AppOK(p) ==
  /\ app[p].left \subseteq app[p].keys
  /\ app[p].pc = "in" /\ app[p].op # "putmany" => app[p].left = app[p].keys
  /\ app[p].pc = "in" /\ app[p].op \in {"put", "delete"} => \A k \in app[p].keys : app[p].keys = {k}
  /\ app[p].pc # "idle" => app[p].epoch = active
  /\ app[p].epoch # 0 /\ (app[p].pc = "touch" \/ Pending(p) # {}) =>
       \A k \in app[p].keys : owner[ShardOf[k]] = p

\* A deletion: its epoch is active, it owns its candidate's shard from the check
\* to the delete, and a candidate that passed the check is still untouched.
ColOK(c) ==
  /\ col[c].pc \in Deleting => active # 0 /\ col[c].key \in Key
  /\ col[c].pc \in {"check", "delete"} => owner[ShardOf[col[c].key]] = c
  /\ col[c].pc = "delete" => col[c].key \notin touched

\* During an epoch a presence proof is protected, or about to be.
Accounted ==
  active # 0 => \A k \in Key : proof[k] = nextID => k \in touched \/ \E p \in App : k \in Pending(p)

\* No presence proof is of a generation to come.
Bounded == \A k \in Key : proof[k] <= nextID

Inv == /\ TypeOK /\ Bounded /\ Accounted /\ ProofHolds
       /\ \A p \in App : AppOK(p)
       /\ \A c \in Collector : ColOK(c)

-----------------------------------------------------------------------------
\* Steps of the application

\* What a step of operation p may change, and what it must not.
AppLocal(p) ==
  /\ UNCHANGED <<active, nextID, col>>
  /\ app' \in [App -> AppRec] /\ \A q \in App : q # p => app'[q] = app[q]
  /\ owner' \in [Shard -> App \cup Collector \cup {None}]
  /\ \A s \in Shard : owner[s] \notin {None, p} => owner'[s] = owner[s]
  /\ base' \subseteq Key /\ proof' \in [Key -> Int]
  /\ touched' \subseteq Key /\ touched \subseteq touched'
  /\ \A k \in touched' : k \in touched \/ (active # 0 /\ owner[ShardOf[k]] = p)

\* A presence proof is new and pending, or protected, or another's.
Kept(p) ==
  \A k \in Key : proof'[k] <= nextID /\
    (proof'[k] = nextID =>
       /\ k \in base'
       /\ \/ active = 0 \/ k \in touched' \/ k \in Pending(p)'
          \/ proof[k] = nextID /\ k \notin Pending(p))

\* A local step that leaves its own operation in order keeps the invariant.
LEMMA AppFrame ==
  ASSUME Inv, NEW p \in App, AppLocal(p), AppOK(p)', Kept(p)
  PROVE  Inv'
<1> USE EpochsAssumption DEF EpochsAssumption
<1>1. TypeOK'
  BY Zenon DEF Inv, TypeOK, AppLocal, AppRec
<1>2. Bounded' /\ ProofHolds'
  BY Zenon DEF AppLocal, Kept, Bounded, ProofHolds
<1>3. \A q \in App : q # p => Pending(q)' = Pending(q)
  BY Zenon DEF AppLocal, Pending
<1>4. Accounted'
  BY <1>3 DEF Inv, AppLocal, Kept, Accounted
<1>5. ASSUME NEW q \in App PROVE AppOK(q)'
  <2>1. CASE q = p
    BY Zenon, <2>1
  <2>2. CASE q # p
    <3>1. app'[q] = app[q] /\ active' = active /\ Pending(q)' = Pending(q)
      BY Zenon, <1>3, <2>2 DEF AppLocal
    <3>2. AppOK(q) /\ app[q].keys \subseteq Key
      BY Zenon DEF Inv, TypeOK
    <3>3. \A k \in app[q].keys : owner[ShardOf[k]] = q => owner'[ShardOf[k]] = q
      BY <2>2, <3>2 DEF AppLocal
    <3>4. QED
      BY Zenon, <3>1, <3>2, <3>3 DEF AppOK
  <2>3. QED
    BY Zenon, <2>1, <2>2
<1>6. ASSUME NEW c \in Collector PROVE ColOK(c)'
  <2>1. ColOK(c) /\ col'[c] = col[c] /\ active' = active
    BY Zenon DEF Inv, AppLocal
  <2>2. c # p /\ c # None
    BY Zenon
  <2>3. ASSUME col[c].pc \in {"check", "delete"}
        PROVE  owner[ShardOf[col[c].key]] = c /\ owner'[ShardOf[col[c].key]] = c
    <3>1. col[c].key \in Key /\ owner[ShardOf[col[c].key]] = c
      BY Zenon, <2>1, <2>3 DEF ColOK, Deleting
    <3>2. ShardOf[col[c].key] \in Shard
      BY Zenon, <3>1
    <3>3. QED
      BY Zenon, <2>2, <3>1, <3>2 DEF AppLocal
  <2>4. col[c].pc = "delete" => col[c].key \notin touched'
    BY Zenon, <2>1, <2>2, <2>3 DEF ColOK, AppLocal
  <2>5. QED
    BY Zenon, <2>1, <2>3, <2>4 DEF ColOK
<1>7. QED
  BY Zenon, <1>1, <1>2, <1>4, <1>5, <1>6 DEF Inv

\* Operation p goes on to x, with L still to be accessed.
Moves(p, x, L) ==
  /\ app' \in [App -> AppRec] /\ \A q \in App : q # p => app'[q] = app[q]
  /\ app'[p].pc = x /\ app'[p].left = L
  /\ app'[p].keys = app[p].keys /\ app'[p].epoch = app[p].epoch /\ app'[p].op = app[p].op

\* What the two forms of update do.
LEMMA GoesMoves ==
  ASSUME TypeOK, NEW p \in App, NEW x \in {"touch", "leave"}, Goes(p, x)
  PROVE  Moves(p, x, app[p].left)
  BY DEF TypeOK, Goes, Moves, AppRec

\* The same, with what is left.
LEMMA LeftMoves ==
  ASSUME TypeOK, NEW p \in App, NEW x \in {"in", "touch"}, NEW L \in SUBSET Key,
         app' = [app EXCEPT ![p].left = L, ![p].pc = x]
  PROVE  Moves(p, x, L)
  BY DEF TypeOK, Moves, AppRec

\* Only a batch is half written, so an operation of another kind that has not
\* accessed the store has nothing pending.
LEMMA NothingPending ==
  ASSUME Inv, NEW p \in App, app[p].pc = "in", app[p].op # "putmany"
  PROVE  Pending(p) = {}
  BY Zenon DEF Inv, AppOK, Pending

\* An operation about to access the store owns the shards of its keys.
LEMMA ReadyOwns ==
  ASSUME Inv, NEW p \in App, Missing(p) = {}, app[p].epoch # 0, NEW k \in app[p].keys
  PROVE  owner[ShardOf[k]] = p
  BY Zenon DEF Inv, TypeOK, Missing, Needed

\* withKey or PutMany enters.
LEMMA EnterStep ==
  ASSUME Inv, NEW p \in App, NEW op, NEW K \in SUBSET Key, AppEnter(p, op, K),
         op \in {"put", "delete"} => \A k \in K : K = {k}
  PROVE  Inv'
<1> DEFINE r == [pc |-> "in", op |-> op, keys |-> K, epoch |-> active, left |-> K]
<1>0. op \in Op
  BY Zenon, EpochsAssumption DEF AppEnter, EpochsAssumption
<1>1. r \in AppRec
  BY <1>0 DEF Inv, TypeOK, AppRec
<1>2. app' \in [App -> AppRec] /\ app'[p] = r /\ \A q \in App : q # p => app'[q] = app[q]
  BY Zenon, <1>1 DEF AppEnter, Inv, TypeOK, AppRec
<1>3. UNCHANGED <<base, active, nextID, touched, owner, col, proof>> /\ app[p].pc = "idle"
  BY Zenon DEF AppEnter
<1>4. AppLocal(p)
  BY Zenon, <1>2, <1>3 DEF AppLocal, Inv, TypeOK
<1>5. Pending(p) = {} /\ Pending(p)' = {}
  BY <1>2, <1>3 DEF Pending
<1>6. AppOK(p)'
  BY <1>2, <1>3, <1>5 DEF AppOK
<1>7. Kept(p)
  BY Zenon, <1>3, <1>5 DEF Kept, Inv, Bounded, ProofHolds
<1>8. QED
  BY Zenon, <1>4, <1>6, <1>7, AppFrame

\* It locks a shard.
LEMMA LockStep ==
  ASSUME Inv, NEW p \in App, AppLock(p)
  PROVE  Inv'
<1> USE EpochsAssumption DEF EpochsAssumption
<1>1. PICK s \in NextShard(p) : owner[s] = None /\ owner' = [owner EXCEPT ![s] = p]
  BY Zenon DEF AppLock
<1>2. UNCHANGED <<base, active, nextID, touched, app, col, proof>>
  BY Zenon DEF AppLock
<1>3. Pending(p)' = Pending(p)
  BY Zenon, <1>2 DEF Pending
<1>4. owner \in [Shard -> App \cup Collector \cup {None}] /\ app \in [App -> AppRec]
  BY Zenon DEF Inv, TypeOK, AppRec
<1>5. /\ owner' \in [Shard -> App \cup Collector \cup {None}]
      /\ \A t \in Shard : owner[t] # None => owner'[t] = owner[t]
  BY Zenon, <1>1, <1>4
<1>6. AppLocal(p)
  BY Zenon, <1>2, <1>4, <1>5 DEF AppLocal, Inv, TypeOK
<1>7. AppOK(p)'
  <2>1. AppOK(p) /\ app[p].keys \subseteq Key
    BY Zenon, <1>4 DEF Inv, AppRec
  <2>2. \A k \in app[p].keys : owner[ShardOf[k]] = p => owner'[ShardOf[k]] = p
    BY Zenon, <1>5, <2>1
  <2>3. QED
    BY Zenon, <1>2, <1>3, <2>1, <2>2 DEF AppOK
<1>8. Kept(p)
  BY Zenon, <1>2, <1>3 DEF Kept, Inv, Bounded, ProofHolds
<1>9. QED
  BY Zenon, <1>6, <1>7, <1>8, AppFrame

\* A Get, Has or GetSize that succeeds makes a presence proof, pending until its touch.
LEMMA ReadStep ==
  ASSUME Inv, NEW p \in App, AppRead(p)
  PROVE  Inv'
<1>1. app[p].pc = "in" /\ Missing(p) = {} /\ UNCHANGED <<base, active, nextID, touched, owner, col>>
  BY Zenon DEF AppRead, Ready
<1>2. PICK k \in app[p].keys : k \in base /\ proof' = [proof EXCEPT ![k] = nextID]
  BY Zenon DEF AppRead
<1>3. TypeOK /\ k \in Key
  BY Zenon, <1>2 DEF Inv, TypeOK
<1>4. Moves(p, "touch", {})
  BY Zenon, <1>3, LeftMoves DEF AppRead
<1>5. Pending(p)' = app[p].keys
  BY Zenon, <1>4 DEF Moves, Pending
<1>6. proof' \in [Key -> Int] /\ proof'[k] = nextID /\ \A j \in Key : j # k => proof'[j] = proof[j]
  BY <1>2, <1>3 DEF TypeOK
<1>7. AppLocal(p)
  BY Zenon, <1>1, <1>3, <1>4, <1>6 DEF AppLocal, Moves, TypeOK
<1>8. AppOK(p)'
  BY Zenon, <1>1, <1>4, ReadyOwns DEF AppOK, Moves, Inv
<1>9. Kept(p)
  BY <1>1, <1>2, <1>3, <1>5, <1>6 DEF Kept, Inv, Bounded, ProofHolds, TypeOK, Pending
<1>10. QED
  BY Zenon, <1>7, <1>8, <1>9, AppFrame

\* A read that misses, an enumeration that ends, a single write that fails: the
\* operation has nothing pending and protects nothing.
LEMMA QuitStep ==
  ASSUME Inv, NEW p \in App, app[p].pc = "in", app[p].op # "putmany", Goes(p, "leave"),
         base \subseteq base', base' \subseteq Key,
         UNCHANGED <<active, nextID, touched, owner, col, proof>>
  PROVE  Inv'
<1>1. Moves(p, "leave", app[p].left)
  BY Zenon, GoesMoves DEF Inv
<1>2. Pending(p) = {} /\ Pending(p)' = {}
  BY Zenon, <1>1, NothingPending DEF Moves, Pending
<1>3. AppLocal(p)
  BY Zenon, <1>1 DEF AppLocal, Moves, Inv, TypeOK
<1>4. AppOK(p)'
  BY Zenon, <1>1, <1>2 DEF AppOK, Moves, Inv
<1>5. Kept(p)
  BY Zenon, <1>2 DEF Kept, Inv, Bounded, ProofHolds
<1>6. QED
  BY Zenon, <1>3, <1>4, <1>5, AppFrame

\* DeleteBlock withdraws the presence proofs of the key it deletes.
LEMMA DeleteStep ==
  ASSUME Inv, NEW p \in App, AppDelete(p)
  PROVE  Inv'
<1>1. app[p].pc = "in" /\ app[p].op # "putmany" /\ UNCHANGED <<active, nextID, touched, owner, col>>
  BY Zenon DEF AppDelete, Ready
<1>2. Moves(p, "leave", app[p].left)
  BY Zenon, GoesMoves DEF Inv, AppDelete
<1>3. Pending(p) = {} /\ Pending(p)' = {}
  BY Zenon, <1>1, <1>2, NothingPending DEF Moves, Pending
<1>4. /\ base' = base \ app[p].keys /\ proof' \in [Key -> Int]
      /\ \A k \in Key : proof'[k] = IF k \in app[p].keys THEN -1 ELSE proof[k]
  BY DEF AppDelete, Inv, TypeOK
<1>5. AppLocal(p)
  BY Zenon, <1>1, <1>2, <1>4 DEF AppLocal, Moves, Inv, TypeOK
<1>6. AppOK(p)'
  BY Zenon, <1>1, <1>2, <1>3 DEF AppOK, Moves, Inv
<1>7. nextID \in Nat
  BY Zenon DEF Inv, TypeOK
<1>8. Kept(p)
  BY <1>1, <1>3, <1>4, <1>7 DEF Kept, Inv, Bounded, ProofHolds
<1>9. QED
  BY Zenon, <1>5, <1>6, <1>8, AppFrame

\* touch protects what was pending.
LEMMA TouchStep ==
  ASSUME Inv, NEW p \in App, AppTouch(p)
  PROVE  Inv'
<1>1. app[p].pc = "touch" /\ UNCHANGED <<base, active, nextID, owner, col, proof>>
  BY Zenon DEF AppTouch
<1>2. Moves(p, "leave", app[p].left)
  BY Zenon, GoesMoves DEF Inv, AppTouch
<1>3. app[p].epoch = active /\ app[p].keys \subseteq Key
  BY Zenon, <1>1 DEF Inv, AppOK, TypeOK
<1>4. touched' = IF active = 0 THEN touched ELSE touched \cup app[p].keys
  BY Zenon, <1>3 DEF AppTouch
<1>5. active # 0 => \A k \in app[p].keys : owner[ShardOf[k]] = p
  BY Zenon, <1>1, <1>3 DEF Inv, AppOK
<1>6. Pending(p) \subseteq app[p].keys /\ Pending(p)' = {}
  BY Zenon, <1>1, <1>2 DEF Moves, Pending
<1>7. AppLocal(p)
  BY Zenon, <1>1, <1>2, <1>3, <1>4, <1>5 DEF AppLocal, Moves, Inv, TypeOK
<1>8. AppOK(p)'
  BY Zenon, <1>1, <1>2, <1>3, <1>6 DEF AppOK, Moves, Inv
<1>9. Kept(p)
  BY Zenon, <1>1, <1>4, <1>6 DEF Kept, Inv, Bounded, ProofHolds
<1>10. QED
  BY Zenon, <1>7, <1>8, <1>9, AppFrame

\* The operation unlocks its shards and the lifecycle lock.
LEMMA LeaveStep ==
  ASSUME Inv, NEW p \in App, AppLeave(p)
  PROVE  Inv'
<1>1. app[p].pc = "leave" /\ UNCHANGED <<base, active, nextID, touched, col, proof>>
  BY Zenon DEF AppLeave
<1>2. Idle \in AppRec
  BY Zenon DEF Idle, AppRec
<1>3. app' \in [App -> AppRec] /\ app'[p] = Idle /\ \A q \in App : q # p => app'[q] = app[q]
  BY Zenon, <1>2 DEF AppLeave, Inv, TypeOK, AppRec
<1>4. /\ owner' \in [Shard -> App \cup Collector \cup {None}]
      /\ \A s \in Shard : owner[s] # p => owner'[s] = owner[s]
  BY Zenon DEF AppLeave, Free, Inv, TypeOK
<1>5. Pending(p) = {} /\ Pending(p)' = {}
  BY <1>1, <1>3 DEF Pending, Idle
<1>6. AppLocal(p)
  BY Zenon, <1>1, <1>3, <1>4 DEF AppLocal, Inv, TypeOK
<1>7. AppOK(p)'
  BY <1>3 DEF AppOK, Idle
<1>8. Kept(p)
  BY Zenon, <1>1, <1>5 DEF Kept, Inv, Bounded, ProofHolds
<1>9. QED
  BY Zenon, <1>6, <1>7, <1>8, AppFrame

\* A block of a Put or PutMany is stored.
LEMMA WriteStep ==
  ASSUME Inv, NEW p \in App, NEW k \in Key, AppWrite(p, k)
  PROVE  Inv'
<1> DEFINE x == IF app[p].left = {k} THEN "touch" ELSE "in"
           L == app[p].left \ {k}
<1>1. /\ app[p].pc = "in" /\ app[p].op \in {"put", "putmany"} /\ Missing(p) = {} /\ k \in app[p].left
      /\ base' = base \cup {k} /\ proof' = [proof EXCEPT ![k] = nextID]
      /\ UNCHANGED <<active, nextID, touched, owner, col>>
  BY Zenon DEF AppWrite, Ready
<1>2. TypeOK /\ AppOK(p) /\ L \in SUBSET Key
  BY Zenon DEF Inv, TypeOK
<1>0. app' = [app EXCEPT ![p].left = L, ![p].pc = x]
  BY Zenon, <1>1, <1>2 DEF AppWrite, TypeOK
<1>3. Moves(p, x, L)
  BY Zenon, <1>0, <1>2, LeftMoves
<1>4. Pending(p)' = app[p].keys \ L /\ Pending(p) = app[p].keys \ app[p].left
  BY Zenon, <1>1, <1>3 DEF Moves, Pending
<1>5. proof' \in [Key -> Int] /\ proof'[k] = nextID /\ \A j \in Key : j # k => proof'[j] = proof[j]
  BY <1>1, <1>2 DEF TypeOK
<1>6. AppLocal(p)
  BY Zenon, <1>1, <1>2, <1>3, <1>5 DEF AppLocal, Moves, TypeOK
<1>7. app[p].op = "put" => x = "touch"
  BY Zenon, <1>1, <1>2 DEF AppOK
<1>8. AppOK(p)'
  BY Zenon, <1>1, <1>2, <1>3, <1>7, ReadyOwns DEF AppOK, Moves
<1>9. Kept(p)
  <2>1. ASSUME NEW j \in Key PROVE proof'[j] <= nextID
    BY <1>2, <1>5 DEF Inv, Bounded, TypeOK
  <2>2. ASSUME NEW j \in Key, proof'[j] = nextID PROVE j \in base'
    BY Zenon, <1>1, <1>5, <2>2 DEF Inv, ProofHolds
  <2>3. active = 0 \/ k \in touched' \/ k \in Pending(p)' \/ k \notin app[p].keys
    BY Zenon, <1>4
  <2>4. \A j \in Key : j \in Pending(p) => j \in Pending(p)'
    BY Zenon, <1>4
  <2>5. k \in app[p].keys
    BY Zenon, <1>1, <1>2 DEF AppOK
  <2>6. QED
    BY Zenon, <1>5, <2>1, <2>2, <2>3, <2>4, <2>5 DEF Kept
<1>10. QED
  BY Zenon, <1>6, <1>8, <1>9, AppFrame

\* A Put or PutMany fails; the batch still protects all of its keys.
LEMMA WriteFailStep ==
  ASSUME Inv, NEW p \in App, NEW k \in Key, AppWriteFail(p, k)
  PROVE  Inv'
<1>1. /\ app[p].pc = "in" /\ app[p].op \in {"put", "putmany"} /\ Missing(p) = {}
      /\ base \subseteq base' /\ base' \subseteq Key
      /\ UNCHANGED <<active, nextID, touched, owner, col, proof>>
  BY Zenon DEF AppWriteFail, Ready, Inv, TypeOK
<1>2. CASE app[p].op = "put"
  BY Zenon, <1>1, <1>2, QuitStep DEF AppWriteFail
<1>3. CASE app[p].op = "putmany"
  <2>1. Moves(p, "touch", app[p].left)
    BY Zenon, <1>3, GoesMoves DEF Inv, AppWriteFail
  <2>2. Pending(p)' = Pending(p)
    BY Zenon, <1>1, <2>1 DEF Moves, Pending
  <2>3. AppLocal(p)
    BY Zenon, <1>1, <2>1 DEF AppLocal, Moves, Inv, TypeOK
  <2>4. AppOK(p)'
    BY Zenon, <1>1, <2>1, ReadyOwns DEF AppOK, Moves, Inv
  <2>5. Kept(p)
    BY Zenon, <1>1, <2>2 DEF Kept, Inv, Bounded, ProofHolds
  <2>6. QED
    BY Zenon, <2>3, <2>4, <2>5, AppFrame
<1>4. QED
  BY Zenon, <1>1, <1>2, <1>3

-----------------------------------------------------------------------------
\* Steps of the collectors

\* A collector's step that changes only its own record and the owner of its
\* shard, and leaves its deletion in order, keeps the invariant.
LEMMA ColFrame ==
  ASSUME Inv, NEW c \in Collector, ColOK(c)',
         UNCHANGED <<base, active, nextID, touched, app, proof>>,
         col' \in [Collector -> ColRec], \A d \in Collector : d # c => col'[d] = col[d],
         owner' \in [Shard -> App \cup Collector \cup {None}],
         \A s \in Shard : owner[s] \notin {None, c} => owner'[s] = owner[s]
  PROVE  Inv'
<1> USE EpochsAssumption DEF EpochsAssumption
<1>1. TypeOK' /\ Bounded' /\ ProofHolds'
  BY Zenon DEF Inv, TypeOK, ColRec, Bounded, ProofHolds
<1>2. \A p \in App : Pending(p)' = Pending(p)
  BY Zenon DEF Pending
<1>3. Accounted'
  BY <1>2 DEF Inv, Accounted
<1>4. ASSUME NEW p \in App PROVE AppOK(p)'
  <2>1. AppOK(p) /\ app[p].keys \subseteq Key /\ p # c /\ p # None
    BY Zenon DEF Inv, TypeOK
  <2>2. \A k \in app[p].keys : owner[ShardOf[k]] = p => owner'[ShardOf[k]] = p
    BY Zenon, <2>1
  <2>3. QED
    BY Zenon, <1>2, <2>1, <2>2 DEF AppOK
<1>5. ASSUME NEW d \in Collector, d # c PROVE ColOK(d)'
  <2>1. ColOK(d) /\ d # None /\ col'[d] = col[d]
    BY Zenon, <1>5 DEF Inv
  <2>2. col[d].pc \in {"check", "delete"} => owner'[ShardOf[col[d].key]] = d
    BY Zenon, <1>5, <2>1 DEF ColOK, Deleting
  <2>3. QED
    BY Zenon, <2>1, <2>2 DEF ColOK
<1>6. QED
  BY Zenon, <1>1, <1>3, <1>4, <1>5 DEF Inv

\* The forms of update of a collector's record.
ColMoves(c, x, k) ==
  /\ col' \in [Collector -> ColRec] /\ \A d \in Collector : d # c => col'[d] = col[d]
  /\ col'[c].pc = x /\ col'[c].key = k

\* A collector goes on.
LEMMA DoesMoves ==
  ASSUME TypeOK, NEW c \in Collector, NEW x \in {"idle", "begin", "end"} \cup Deleting, Does(c, x)
  PROVE  ColMoves(c, x, col[c].key)
  BY Zenon DEF TypeOK, Does, ColMoves, ColRec

\* The same, with its candidate.
LEMMA KeyMoves ==
  ASSUME TypeOK, NEW c \in Collector, NEW x \in {"idle", "shard"}, NEW k \in Key \cup {None},
         col' = [col EXCEPT ![c].pc = x, ![c].key = k]
  PROVE  ColMoves(c, x, k)
  BY DEF TypeOK, ColMoves, ColRec, Deleting

\* A collector asks for the lifecycle lock, or is refused an epoch.
LEMMA WaitStep ==
  ASSUME Inv, NEW c \in Collector, AskBegin(c) \/ AskEnd(c) \/ BeginRefused(c)
  PROVE  Inv'
<1>1. PICK x \in {"idle", "begin", "end"} : Does(c, x)
  BY Zenon DEF AskBegin, AskEnd, Ask, BeginRefused
<1>2. UNCHANGED <<base, active, nextID, touched, owner, app, proof>>
  BY Zenon DEF AskBegin, AskEnd, Ask, BeginRefused
<1>3. ColMoves(c, x, col[c].key)
  BY Zenon, <1>1, DoesMoves DEF Inv
<1>4. ColOK(c)'
  BY Zenon, <1>3 DEF ColMoves, ColOK, Deleting
<1>5. QED
  BY Zenon, <1>2, <1>3, <1>4, ColFrame DEF ColMoves, Inv, TypeOK

\* DeleteCandidate enters its own active epoch.
LEMMA DelEnterStep ==
  ASSUME Inv, NEW c \in Collector, NEW k \in Key, DelEnter(c, k)
  PROVE  Inv'
<1>1. active # 0 /\ UNCHANGED <<base, active, nextID, touched, owner, app, proof>>
  BY Zenon DEF DelEnter
<1>2. ColMoves(c, "shard", k)
  BY Zenon, KeyMoves DEF DelEnter, Inv
<1>3. ColOK(c)'
  BY Zenon, <1>1, <1>2 DEF ColMoves, ColOK, Deleting
<1>4. QED
  BY Zenon, <1>1, <1>2, <1>3, ColFrame DEF ColMoves, Inv, TypeOK

\* It locks the candidate's shard.
LEMMA DelLockStep ==
  ASSUME Inv, NEW c \in Collector, DelLock(c)
  PROVE  Inv'
<1> USE EpochsAssumption DEF EpochsAssumption
<1> DEFINE s == ShardOf[col[c].key]
<1>1. /\ col[c].pc = "shard" /\ owner[s] = None /\ owner' = [owner EXCEPT ![s] = c]
      /\ UNCHANGED <<base, active, nextID, touched, app, proof>>
  BY Zenon DEF DelLock
<1>2. ColMoves(c, "check", col[c].key)
  BY Zenon, DoesMoves DEF DelLock, Inv, Deleting
<1>3. active # 0 /\ col[c].key \in Key /\ s \in Shard
  BY Zenon, <1>1 DEF Inv, ColOK, Deleting
<1>4. /\ owner' \in [Shard -> App \cup Collector \cup {None}] /\ owner'[s] = c
      /\ \A t \in Shard : owner[t] # None => owner'[t] = owner[t]
  BY Zenon, <1>1, <1>3 DEF Inv, TypeOK
<1>5. ColOK(c)'
  BY Zenon, <1>1, <1>2, <1>3, <1>4 DEF ColMoves, ColOK
<1>6. QED
  BY Zenon, <1>1, <1>2, <1>4, <1>5, ColFrame DEF ColMoves

\* It looks the candidate up in the protection set.
LEMMA DelCheckStep ==
  ASSUME Inv, NEW c \in Collector, DelCheck(c)
  PROVE  Inv'
<1> DEFINE x == IF col[c].key \in touched THEN "leave" ELSE "delete"
<1>1. col[c].pc = "check" /\ UNCHANGED <<base, active, nextID, touched, owner, app, proof>>
  BY Zenon DEF DelCheck
<1>2. ColMoves(c, x, col[c].key)
  BY Zenon, DoesMoves DEF DelCheck, Inv, Deleting
<1>3. ColOK(c)
  BY Zenon DEF Inv
<1>4. ColOK(c)'
  BY Zenon, <1>1, <1>2, <1>3 DEF ColMoves, ColOK, Deleting
<1>5. QED
  BY Zenon, <1>1, <1>2, <1>4, ColFrame DEF ColMoves, Inv, TypeOK

\* It unlocks.
LEMMA DelLeaveStep ==
  ASSUME Inv, NEW c \in Collector, DelLeave(c)
  PROVE  Inv'
<1>1. owner' = Free(c) /\ UNCHANGED <<base, active, nextID, touched, app, proof>>
  BY Zenon DEF DelLeave
<1>2. ColMoves(c, "idle", None)
  BY Zenon, KeyMoves DEF DelLeave, Inv
<1>3. /\ owner' \in [Shard -> App \cup Collector \cup {None}]
      /\ \A t \in Shard : owner[t] # c => owner'[t] = owner[t]
  BY Zenon, <1>1 DEF Free, Inv, TypeOK
<1>4. ColOK(c)'
  BY Zenon, <1>2 DEF ColMoves, ColOK, Deleting
<1>5. QED
  BY Zenon, <1>1, <1>2, <1>3, <1>4, ColFrame DEF ColMoves

\* The candidate a collector deletes has no presence proof: the proof would be
\* protected, or pending in an operation that owns the candidate's shard.
LEMMA CandidateUnproved ==
  ASSUME Inv, NEW c \in Collector, col[c].pc = "delete"
  PROVE  col[c].key \in Key /\ active # 0 /\ proof[col[c].key] # nextID
<1> USE EpochsAssumption DEF EpochsAssumption
<1> DEFINE k == col[c].key
<1>1. k \in Key /\ active # 0 /\ owner[ShardOf[k]] = c /\ k \notin touched
  BY Zenon DEF Inv, ColOK, Deleting
<1>2. SUFFICES ASSUME proof[k] = nextID PROVE FALSE
  BY Zenon, <1>1
<1>3. PICK p \in App : k \in Pending(p)
  BY Zenon, <1>1, <1>2 DEF Inv, Accounted
<1>4. app[p].epoch = active /\ k \in app[p].keys
  BY Zenon, <1>3 DEF Inv, AppOK, Pending
<1>5. owner[ShardOf[k]] = p
  BY Zenon, <1>1, <1>3, <1>4 DEF Inv, AppOK
<1>6. QED
  BY Zenon, <1>1, <1>5

\* It deletes the candidate.
LEMMA DelBaseStep ==
  ASSUME Inv, NEW c \in Collector, DelBase(c)
  PROVE  Inv'
<1>1. /\ col[c].pc = "delete" /\ base' \in {base, base \ {col[c].key}}
      /\ UNCHANGED <<active, nextID, touched, owner, app, proof>>
  BY Zenon DEF DelBase
<1>2. ColMoves(c, "leave", col[c].key)
  BY Zenon, DoesMoves DEF DelBase, Inv, Deleting
<1>3. TypeOK' /\ Bounded' /\ ProofHolds'
  BY Zenon, <1>1, <1>2, CandidateUnproved DEF Inv, TypeOK, Bounded, ProofHolds, ColMoves, ColRec
<1>4. \A p \in App : Pending(p)' = Pending(p)
  BY Zenon, <1>1 DEF Pending
<1>5. Accounted'
  BY Zenon, <1>1, <1>4 DEF Inv, Accounted
<1>6. \A p \in App : AppOK(p)'
  BY Zenon, <1>1, <1>4 DEF Inv, AppOK
<1>7. \A d \in Collector : ColOK(d)'
  BY Zenon, <1>1, <1>2 DEF Inv, ColOK, ColMoves, Deleting
<1>8. QED
  BY Zenon, <1>3, <1>5, <1>6, <1>7 DEF Inv

\* Begin moves to a generation of which there is no proof.
LEMMA BeginStep ==
  ASSUME Inv, NEW c \in Collector, Begin(c)
  PROVE  Inv'
<1> DEFINE r == [pc |-> "idle", handle |-> nextID + 1, ended |-> FALSE, key |-> None]
<1>1. /\ nextID' = nextID + 1 /\ active' = nextID + 1 /\ touched' = {} /\ ~Reading
      /\ UNCHANGED <<base, owner, app, proof>>
  BY Zenon DEF Begin
<1>2. nextID \in Nat /\ r \in ColRec
  BY DEF Inv, TypeOK, ColRec
<1>3. col' \in [Collector -> ColRec] /\ col'[c] = r /\ \A d \in Collector : d # c => col'[d] = col[d]
  BY Zenon, <1>2 DEF Begin, Inv, TypeOK, ColRec
<1>4. TypeOK'
  BY Zenon, <1>1, <1>2, <1>3 DEF Inv, TypeOK, ColRec
<1>5. \A k \in Key : proof'[k] < nextID'
  BY <1>1, <1>2 DEF Inv, TypeOK, Bounded
<1>6. Bounded' /\ Accounted' /\ ProofHolds'
  BY <1>4, <1>5 DEF Bounded, Accounted, ProofHolds, TypeOK
<1>7. ASSUME NEW p \in App PROVE AppOK(p)'
  <2>1. app'[p] = app[p] /\ app[p].pc = "idle" /\ app[p].left \subseteq app[p].keys
    BY Zenon, <1>1 DEF Reading, Inv, AppOK
  <2>2. QED
    BY Zenon, <2>1 DEF AppOK, Pending
<1>8. ASSUME NEW d \in Collector PROVE ColOK(d)'
  <2>1. col'[d].pc \notin Deleting
    BY <1>1, <1>3 DEF Reading, Deleting
  <2>2. QED
    BY Zenon, <2>1 DEF ColOK, Deleting
<1>9. QED
  BY Zenon, <1>4, <1>6, <1>7, <1>8 DEF Inv

\* End runs while nobody is inside.
LEMMA EndStep ==
  ASSUME Inv, NEW c \in Collector, End(c)
  PROVE  Inv'
<1>1. /\ ~Reading /\ UNCHANGED <<base, nextID, owner, app, proof>>
      /\ \/ active' = 0 /\ touched' = {}
         \/ active' = active /\ touched' = touched
  BY Zenon DEF End
<1>2. col' \in [Collector -> ColRec] /\ col'[c].pc = "idle" /\ \A d \in Collector : d # c => col'[d] = col[d]
  BY ZenonT(60) DEF End, Inv, TypeOK, ColRec
<1>3. TypeOK' /\ Bounded' /\ ProofHolds'
  BY Zenon, <1>1, <1>2 DEF Inv, TypeOK, ColRec, Bounded, ProofHolds
<1>4. \A p \in App : Pending(p)' = Pending(p)
  BY Zenon, <1>1 DEF Pending
<1>5. Accounted'
  BY Zenon, <1>1, <1>4 DEF Inv, Accounted
<1>6. ASSUME NEW p \in App PROVE AppOK(p)'
  <2>1. app'[p] = app[p] /\ app[p].pc = "idle" /\ app[p].left \subseteq app[p].keys
    BY Zenon, <1>1 DEF Reading, Inv, AppOK
  <2>2. QED
    BY Zenon, <2>1 DEF AppOK, Pending
<1>7. ASSUME NEW d \in Collector PROVE ColOK(d)'
  <2>1. col'[d].pc \notin Deleting
    BY Zenon, <1>1, <1>2 DEF Reading, Deleting
  <2>2. QED
    BY Zenon, <2>1 DEF ColOK, Deleting
<1>8. QED
  BY Zenon, <1>3, <1>5, <1>6, <1>7 DEF Inv

-----------------------------------------------------------------------------
\* All steps

\* An operation on one key enters with one key.
Enters(p) ==
  \E op \in {"get", "put", "delete", "putmany", "list"}, K \in SUBSET Key :
    AppEnter(p, op, K) /\ (op \in {"put", "delete"} => \A k \in K : K = {k})

\* Every step is one of these.
LEMMA NextEnters ==
  ASSUME Next
  PROVE  \/ \E p \in App : Enters(p) \/ AppStep(p)
         \/ \E c \in Collector : ColStep(c) \/ AskBegin(c) \/ AskEnd(c) \/ \E k \in Key : DelEnter(c, k)
<1>1. ASSUME NEW p \in App, NEW k \in Key, NEW op \in {"get", "put", "delete"}, AppEnter(p, op, {k})
      PROVE  Enters(p)
  <2>1. {k} \in SUBSET Key /\ \A j \in {k} : {k} = {j}
    BY Zenon
  <2>2. QED
    BY Zenon, <1>1, <2>1 DEF Enters
<1>2. ASSUME NEW p \in App, NEW K \in (SUBSET Key) \ {{}}, AppEnter(p, "putmany", K) PROVE Enters(p)
  BY Zenon, <1>2 DEF Enters
<1>3. ASSUME NEW p \in App, AppEnter(p, "list", {}) PROVE Enters(p)
  <2>1. {} \in SUBSET Key
    BY Zenon
  <2>2. QED
    BY Zenon, <1>3, <2>1 DEF Enters
<1>4. QED
  BY <1>1, <1>2, <1>3, Zenon DEF Next

\* Every step keeps the invariant.
LEMMA InvStep ==
  ASSUME Inv, [Next]_vars
  PROVE  Inv'
<1>1. ASSUME NEW p \in App, Enters(p) PROVE Inv'
  <2>1. PICK op \in {"get", "put", "delete", "putmany", "list"}, K \in SUBSET Key :
          AppEnter(p, op, K) /\ (op \in {"put", "delete"} => \A k \in K : K = {k})
    BY <1>1, Zenon DEF Enters
  <2>2. QED
    BY <2>1, EnterStep, Zenon
<1>2. ASSUME NEW p \in App, AppStep(p) PROVE Inv'
  <2>1. CASE AppMiss(p)
    <3>1. app[p].pc = "in" /\ app[p].op # "putmany" /\ Goes(p, "leave")
      BY Zenon, <2>1 DEF AppMiss, Ready
    <3>2. UNCHANGED <<base, active, nextID, touched, owner, col, proof>> /\ base \subseteq Key
      BY Zenon, <2>1 DEF AppMiss, Inv, TypeOK
    <3>3. QED
      BY Zenon, <3>1, <3>2, QuitStep
  <2>2. CASE AppList(p)
    <3>1. app[p].pc = "in" /\ app[p].op # "putmany" /\ Goes(p, "leave")
      BY Zenon, <2>2 DEF AppList, Ready
    <3>2. UNCHANGED <<base, active, nextID, touched, owner, col, proof>> /\ base \subseteq Key
      BY Zenon, <2>2 DEF AppList, Inv, TypeOK
    <3>3. QED
      BY Zenon, <3>1, <3>2, QuitStep
  <2>3. CASE AppLock(p) \/ AppRead(p) \/ AppDelete(p) \/ AppTouch(p) \/ AppLeave(p)
    BY <2>3, LockStep, ReadStep, DeleteStep, TouchStep, LeaveStep, Zenon
  <2>4. CASE \E k \in Key : AppWrite(p, k) \/ AppWriteFail(p, k)
    BY <2>4, WriteStep, WriteFailStep, Zenon
  <2>5. QED
    BY <1>2, <2>1, <2>2, <2>3, <2>4, Zenon DEF AppStep
<1>3. ASSUME NEW c \in Collector, ColStep(c) \/ AskBegin(c) \/ AskEnd(c) PROVE Inv'
  BY <1>3, BeginStep, EndStep, WaitStep, DelLockStep, DelCheckStep, DelBaseStep, DelLeaveStep, Zenon DEF ColStep
<1>4. ASSUME NEW c \in Collector, NEW k \in Key, DelEnter(c, k) PROVE Inv'
  BY <1>4, DelEnterStep, Zenon
<1>5. CASE UNCHANGED vars
  <2>1. UNCHANGED <<base, active, nextID, touched, owner, app, col, proof>>
    BY Zenon, <1>5 DEF vars
  <2>2. \A p \in App : Pending(p)' = Pending(p)
    BY Zenon, <2>1 DEF Pending
  <2>3. TypeOK' /\ Bounded' /\ Accounted' /\ ProofHolds'
    BY <2>1, <2>2 DEF Inv, TypeOK, Bounded, Accounted, ProofHolds
  <2>4. (\A p \in App : AppOK(p)') /\ (\A c \in Collector : ColOK(c)')
    BY Zenon, <2>1, <2>2 DEF Inv, AppOK, ColOK
  <2>5. QED
    BY Zenon, <2>3, <2>4 DEF Inv
<1>6. QED
  BY <1>1, <1>2, <1>3, <1>4, <1>5, NextEnters, Zenon

\* The inductive invariant holds in every reachable state.
THEOREM Invariance == Spec => []Inv
<1>1. Init => Inv
  <2> SUFFICES ASSUME Init PROVE Inv
    BY Zenon
  <2>1. /\ base \subseteq Key /\ active = 0 /\ nextID = 0 /\ touched = {}
        /\ \A k \in Key : proof[k] = -1
        /\ \A p \in App : app[p] = Idle
        /\ \A c \in Collector : col[c] = Resting
    BY Zenon DEF Init
  <2>2. TypeOK
    <3>1. Idle \in AppRec /\ Resting \in ColRec
      BY Zenon DEF Idle, Resting, AppRec, ColRec
    <3>2. /\ app \in [App -> AppRec] /\ col \in [Collector -> ColRec]
          /\ owner \in [Shard -> App \cup Collector \cup {None}] /\ proof \in [Key -> Int]
      BY <3>1 DEF Init
    <3>3. QED
      BY Zenon, <2>1, <3>2 DEF TypeOK, AppRec, ColRec
  <2>3. Bounded /\ Accounted /\ ProofHolds
    BY <2>1 DEF Bounded, Accounted, ProofHolds
  <2>4. \A p \in App : AppOK(p)
    BY <2>1 DEF AppOK, Idle, Pending
  <2>5. \A c \in Collector : ColOK(c)
    BY <2>1 DEF ColOK, Resting, Deleting
  <2>6. QED
    BY Zenon, <2>2, <2>3, <2>4, <2>5 DEF Inv
<1>2. Inv /\ [Next]_vars => Inv'
  BY Zenon, InvStep
<1>3. QED
  BY <1>1, <1>2, PTL DEF Spec

\* The coordinator's state is well typed.
THEOREM TypeCorrect == Spec => []TypeOK
  BY Invariance, PTL DEF Inv

\* A block that an application operation found or stored is still there for as
\* long as CollectionGeneration has not moved, which the caches of successful
\* walks rely on.
THEOREM ProofsHold == Spec => []ProofHolds
  BY Invariance, PTL DEF Inv

-----------------------------------------------------------------------------
\* Refinement

\* A step that changes neither the blocks, nor the epoch, nor the proofs.
LEMMA Stutters ==
  ASSUME UNCHANGED <<base, active, nextID, proof>>
  PROVE  UNCHANGED Store!vars
  BY Zenon DEF Store!vars, Known, Collecting

\* Every step of the application is one of the atomic store's, or none.
LEMMA AppRefines ==
  ASSUME Inv, NEW p \in App, AppStep(p)
  PROVE  Store!Next \/ UNCHANGED Store!vars
<1>0. TypeOK /\ AppOK(p)
  BY Zenon DEF Inv
<1>1. CASE AppLock(p) \/ AppMiss(p) \/ AppTouch(p) \/ AppList(p) \/ AppLeave(p)
  <2>1. UNCHANGED <<base, active, nextID, proof>>
    BY Zenon, <1>1 DEF AppLock, AppMiss, AppTouch, AppList, AppLeave
  <2>2. QED
    BY Zenon, <2>1, Stutters
<1>2. CASE AppRead(p)
  <2>1. PICK k \in app[p].keys : k \in base /\ proof' = [proof EXCEPT ![k] = nextID]
    BY <1>2, Zenon DEF AppRead
  <2>2. UNCHANGED <<base, active, nextID>> /\ k \in Key
    BY Zenon, <1>0, <1>2, <2>1 DEF AppRead, TypeOK
  <2>3. Known' = Known \cup {k} /\ Collecting' = Collecting
    BY Zenon, <1>0, <2>1, <2>2 DEF Known, Collecting, TypeOK
  <2>4. Store!Read(k)
    BY Zenon, <2>1, <2>2, <2>3 DEF Store!Read
  <2>5. QED
    BY Zenon, <2>2, <2>4 DEF Store!Next
<1>3. CASE AppDelete(p)
  <2>1. /\ app[p].pc = "in" /\ app[p].op = "delete" /\ app[p].keys \subseteq Key /\ nextID \in Nat
        /\ base' = base \ app[p].keys /\ UNCHANGED <<active, nextID>>
        /\ proof' = [k \in Key |-> IF k \in app[p].keys THEN -1 ELSE proof[k]]
    BY Zenon, <1>0, <1>3 DEF AppDelete, Ready, TypeOK
  <2>2. Known' = Known \ app[p].keys /\ Collecting' = Collecting
    BY <2>1 DEF Known, Collecting
  <2>3. CASE app[p].keys = {}
    BY Zenon, <2>1, <2>2, <2>3 DEF Store!vars
  <2>4. CASE app[p].keys # {}
    <3>1. PICK k \in Key : app[p].keys = {k}
      BY Zenon, <1>0, <2>1, <2>4 DEF AppOK
    <3>2. Store!Delete(k)
      BY Zenon, <2>1, <2>2, <3>1 DEF Store!Delete
    <3>3. QED
      BY Zenon, <3>2 DEF Store!Next
  <2>5. QED
    BY Zenon, <2>3, <2>4
<1>4. ASSUME NEW k \in Key, AppWrite(p, k) PROVE Store!Next
  <2>1. base' = base \cup {k} /\ proof' = [proof EXCEPT ![k] = nextID] /\ UNCHANGED <<active, nextID>>
    BY Zenon, <1>4 DEF AppWrite
  <2>2. Known' = Known \cup {k} /\ Collecting' = Collecting
    BY Zenon, <1>0, <2>1 DEF Known, Collecting, TypeOK
  <2>3. Store!Write(k)
    BY Zenon, <2>1, <2>2 DEF Store!Write
  <2>4. QED
    BY Zenon, <2>3 DEF Store!Next
<1>5. ASSUME NEW k \in Key, AppWriteFail(p, k) PROVE Store!Next \/ UNCHANGED Store!vars
  <2>1. base' \in {base, base \cup {k}} /\ UNCHANGED <<active, nextID, proof>>
    BY Zenon, <1>5 DEF AppWriteFail
  <2>2. Known' = Known /\ Collecting' = Collecting
    BY Zenon, <2>1 DEF Known, Collecting
  <2>3. CASE base' = base
    BY Zenon, <2>2, <2>3 DEF Store!vars
  <2>4. CASE base' = base \cup {k}
    <3>1. Store!Fail(k)
      BY Zenon, <2>2, <2>4 DEF Store!Fail
    <3>2. QED
      BY Zenon, <3>1 DEF Store!Next
  <2>5. QED
    BY Zenon, <2>1, <2>3, <2>4
<1>6. QED
  BY <1>1, <1>2, <1>3, <1>4, <1>5, Zenon DEF AppStep

\* Every step of a collector is one of the atomic store's, or none.
LEMMA ColRefines ==
  ASSUME Inv, NEW c \in Collector, ColStep(c)
  PROVE  Store!Next \/ UNCHANGED Store!vars
<1>1. CASE BeginRefused(c) \/ DelLock(c) \/ DelCheck(c) \/ DelLeave(c)
  <2>1. UNCHANGED <<base, active, nextID, proof>>
    BY Zenon, <1>1 DEF BeginRefused, DelLock, DelCheck, DelLeave
  <2>2. QED
    BY Zenon, <2>1, Stutters
<1>2. CASE Begin(c)
  <2>1. active = 0 /\ nextID' = nextID + 1 /\ active' = nextID + 1 /\ UNCHANGED <<base, proof>>
    BY Zenon, <1>2 DEF Begin
  <2>2. nextID \in Nat /\ \A k \in Key : proof[k] \in Int /\ proof[k] <= nextID
    BY Zenon DEF Inv, TypeOK, Bounded
  <2>3. Known' = {} /\ ~Collecting /\ Collecting'
    BY <2>1, <2>2 DEF Known, Collecting
  <2>4. Store!Begin
    BY Zenon, <2>1, <2>3 DEF Store!Begin, Collecting
  <2>5. QED
    BY Zenon, <2>4 DEF Store!Next
<1>3. CASE End(c)
  <2>1. (active' = 0 \/ active' = active) /\ UNCHANGED <<base, nextID, proof>>
    BY Zenon, <1>3 DEF End
  <2>2. Known' = Known
    BY Zenon, <2>1 DEF Known
  <2>3. CASE active # 0 /\ active' = 0
    <3>1. Store!End
      BY Zenon, <2>1, <2>2, <2>3 DEF Store!End, Collecting
    <3>2. QED
      BY Zenon, <3>1 DEF Store!Next
  <2>4. CASE active' = active
    BY Zenon, <2>1, <2>4, Stutters
  <2>5. QED
    BY Zenon, <2>1, <2>3, <2>4
<1>4. CASE DelBase(c)
  <2>1. col[c].pc = "delete" /\ base' \in {base, base \ {col[c].key}} /\ UNCHANGED <<active, nextID, proof>>
    BY Zenon, <1>4 DEF DelBase
  <2>2. col[c].key \in Key /\ col[c].key \notin Known /\ Collecting
    BY Zenon, <2>1, CandidateUnproved DEF Known, Collecting
  <2>3. Known' = Known /\ Collecting' = Collecting
    BY Zenon, <2>1 DEF Known, Collecting
  <2>4. CASE base' = base
    BY Zenon, <2>3, <2>4 DEF Store!vars
  <2>5. CASE base' = base \ {col[c].key}
    <3>1. Store!Sweep(col[c].key)
      BY Zenon, <2>2, <2>3, <2>5 DEF Store!Sweep
    <3>2. QED
      BY Zenon, <2>2, <3>1 DEF Store!Next
  <2>6. QED
    BY Zenon, <2>1, <2>4, <2>5
<1>5. QED
  BY Zenon, <1>1, <1>2, <1>3, <1>4 DEF ColStep

\* Whatever the interleaving of its locks, the coordinator behaves as a store
\* of atomic operations in which DeleteCandidate removes nothing that a Get, Has,
\* GetSize, Put or PutMany found or stored since Begin.
THEOREM Implements == Spec => ImplementsStore
<1>1. Init => Store!Init
  <2> SUFFICES ASSUME Init PROVE Store!Init
    BY Zenon
  <2>1. base \subseteq Key /\ active = 0 /\ nextID = 0 /\ \A k \in Key : proof[k] = -1
    BY Zenon DEF Init
  <2>2. Known = {} /\ ~Collecting
    BY <2>1 DEF Known, Collecting
  <2>3. QED
    BY Zenon, <2>1, <2>2 DEF Store!Init, Collecting
<1>2. Inv /\ [Next]_vars => [Store!Next]_Store!vars
  <2> SUFFICES ASSUME Inv, [Next]_vars PROVE Store!Next \/ UNCHANGED Store!vars
    BY Zenon
  <2>1. ASSUME NEW p \in App, Enters(p) PROVE UNCHANGED Store!vars
    <3>1. UNCHANGED <<base, active, nextID, proof>>
      BY Zenon, <2>1 DEF Enters, AppEnter
    <3>2. QED
      BY Zenon, <3>1, Stutters
  <2>2. ASSUME NEW c \in Collector, AskBegin(c) \/ AskEnd(c) \/ \E k \in Key : DelEnter(c, k)
        PROVE  UNCHANGED Store!vars
    <3>1. UNCHANGED <<base, active, nextID, proof>>
      BY Zenon, <2>2 DEF AskBegin, AskEnd, Ask, DelEnter
    <3>2. QED
      BY Zenon, <3>1, Stutters
  <2>3. CASE UNCHANGED vars
    <3>1. UNCHANGED <<base, active, nextID, proof>>
      BY Zenon, <2>3 DEF vars
    <3>2. QED
      BY Zenon, <3>1, Stutters
  <2>4. QED
    BY <2>1, <2>2, <2>3, NextEnters, AppRefines, ColRefines, Zenon
<1>3. QED
  BY <1>1, <1>2, Invariance, PTL DEF Spec, ImplementsStore, Store!Spec

-----------------------------------------------------------------------------
\* The order of the shard locks

\* A batch has locked its shards up to the next one, and nobody has a shard before an
\* operation begins to lock or after it has left.
LockOrder ==
  /\ \A p \in App :
       /\ app[p].pc = "idle" => \A s \in Shard : owner[s] # p
       /\ app[p].pc = "in" => \A s \in Shard : owner[s] = p => \A t \in Missing(p) : s < t
  /\ \A c \in Collector : col[c].pc \in {"idle", "begin", "end", "shard"} => \A s \in Shard : owner[s] # c

\* A finite set of shards has a last one.
LEMMA LastShard ==
  ASSUME NEW T \in SUBSET Shard, T # {}
  PROVE  \E m \in T : \A s \in T : s <= m
<1> DEFINE Above(m) == {s \in Shard : s > m}
<1> DEFINE U == {Above(m) : m \in T}
<1>1. IsWellFoundedOn(StrictSubsetOrdering(Shard), SUBSET Shard)
  BY ZenonT(60), EpochsAssumption, FS_StrictSubsetOrderingWellFounded, FS_FiniteSubsetsOfFinite DEF EpochsAssumption
<1>2. U \subseteq SUBSET Shard /\ U # {} BY Zenon
<1>3. PICK X \in U : \A Y \in U : ~ (<<Y, X>> \in StrictSubsetOrdering(Shard))
  BY Zenon, <1>1, <1>2, WFMin
<1>4. PICK m \in T : X = Above(m) BY Zenon
<1>5. ASSUME NEW s \in T, m < s PROVE FALSE
  <2>1. s \in Int /\ m \in Int BY Zenon, EpochsAssumption DEF EpochsAssumption
  <2>2. Above(s) \subseteq Above(m)
    <3>1. \A u \in Int : u > s => u > m BY <1>5, <2>1
    <3> QED BY Zenon, <3>1, EpochsAssumption DEF EpochsAssumption
  <2>3. s \in Above(m) /\ s \notin Above(s) BY <1>5, <2>1
  <2>4. <<Above(s), Above(m)>> \in StrictSubsetOrdering(Shard) BY Zenon, <2>2, <2>3 DEF StrictSubsetOrdering
  <2> QED BY Zenon, <1>3, <1>4, <2>4
<1> QED
  BY <1>5, EpochsAssumption DEF EpochsAssumption

\* A step that moves an operation on without locking keeps the order.
LEMMA OrderAppFrame ==
  ASSUME LockOrder, NEW p \in App, UNCHANGED <<col, owner>>,
         \A q \in App : q # p => app'[q] = app[q],
         app'[p].pc # "idle",
         app'[p].pc = "in" => app[p].pc = "in" /\ app'[p].keys = app[p].keys /\ app'[p].epoch = app[p].epoch
  PROVE  LockOrder'
<1>1. \A q \in App : q # p => Missing(q)' = Missing(q) BY Zenon DEF Missing, Needed
<1>2. app'[p].pc = "in" => Missing(p)' = Missing(p) BY Zenon DEF Missing, Needed
<1> QED BY <1>1, <1>2 DEF LockOrder

\* So does one that moves a collector on.
LEMMA OrderColFrame ==
  ASSUME LockOrder, NEW c \in Collector, UNCHANGED <<app, owner>>,
         \A d \in Collector : d # c => col'[d] = col[d],
         col'[c].pc \in {"idle", "begin", "end", "shard"} => col[c].pc \in {"idle", "begin", "end", "shard"}
  PROVE  LockOrder'
<1>1. \A q \in App : Missing(q)' = Missing(q) BY Zenon DEF Missing, Needed
<1> QED BY Zenon, <1>1 DEF LockOrder

\* An operation that locks its next shard keeps the order.
LEMMA OrderLock ==
  ASSUME TypeOK, LockOrder, NEW p \in App, AppLock(p)
  PROVE  LockOrder'
<1> USE EpochsAssumption DEF EpochsAssumption
<1>1. PICK s \in NextShard(p) : owner[s] = None /\ owner' = [owner EXCEPT ![s] = p] BY Zenon DEF AppLock
<1>2. UNCHANGED <<app, col>> /\ app[p].pc = "in" BY Zenon DEF AppLock
<1>3. s \in Missing(p) /\ \A t \in Missing(p) : s <= t BY Zenon DEF NextShard
<1>4. Missing(p) \subseteq Shard BY DEF Missing, Needed, TypeOK
<1>5. owner'[s] = p /\ \A t \in Shard : t # s => owner'[t] = owner[t] BY Zenon, <1>1, <1>3, <1>4 DEF TypeOK
<1>6. Missing(p)' = Missing(p) \ {s}
  <2>1. app[p].epoch # 0 BY Zenon, <1>3 DEF Missing
  <2>2. \A t \in Needed(p) : t \in Shard BY DEF Needed, TypeOK
  <2>3. Needed(p)' = Needed(p) BY Zenon, <1>2 DEF Needed
  <2> QED BY Zenon, <1>2, <1>5, <2>1, <2>2, <2>3 DEF Missing
<1>7. \A q \in App : q # p => Missing(q)' = Missing(q)
  <2> TAKE q \in App
  <2> HAVE q # p
  <2>1. \A t \in Needed(q) : t \in Shard BY DEF Needed, TypeOK
  <2>2. Needed(q)' = Needed(q) BY Zenon, <1>2 DEF Needed
  <2>3. \A t \in Shard : owner'[t] # q <=> owner[t] # q BY Zenon, <1>1, <1>5
  <2> QED BY Zenon, <1>2, <2>1, <2>2, <2>3 DEF Missing
<1>8. ASSUME NEW t \in Shard, owner'[t] = p, NEW u \in Missing(p)' PROVE t < u
  <2>1. u \in Missing(p) /\ u # s /\ u \in Int /\ t \in Int /\ s \in Int BY Zenon, <1>3, <1>4, <1>6, <1>8
  <2>2. CASE t = s BY <1>3, <2>1, <2>2
  <2>3. CASE t # s BY Zenon, <1>2, <1>5, <1>8, <2>1, <2>3 DEF LockOrder
  <2> QED BY Zenon, <2>2, <2>3
<1>9. \A q \in App : q # p => \A t \in Shard : owner'[t] = q <=> owner[t] = q BY Zenon, <1>1, <1>5
<1>10. \A c \in Collector, t \in Shard : owner'[t] = c => owner[t] = c BY Zenon, <1>5
<1> QED BY <1>2, <1>7, <1>8, <1>9, <1>10 DEF LockOrder

\* An operation that leaves gives all of its shards back.
LEMMA OrderLeave ==
  ASSUME TypeOK, LockOrder, NEW p \in App, AppLeave(p)
  PROVE  LockOrder'
<1> USE EpochsAssumption DEF EpochsAssumption
<1>1. UNCHANGED col /\ owner' = Free(p) /\ \A q \in App : q # p => app'[q] = app[q]
  BY Zenon DEF AppLeave, TypeOK
<1>2. \A t \in Shard : owner'[t] # p /\ (owner[t] # p => owner'[t] = owner[t]) BY Zenon, <1>1 DEF Free
<1>3. \A t \in Shard : \A x : x # p /\ x # None => (owner'[t] = x <=> owner[t] = x) BY Zenon, <1>1, <1>2 DEF Free
<1>4. \A q \in App : q # p => Missing(q)' = Missing(q)
  <2> TAKE q \in App
  <2> HAVE q # p
  <2>1. \A t \in Needed(q) : t \in Shard BY DEF Needed, TypeOK
  <2>2. Needed(q)' = Needed(q) /\ app'[q] = app[q] BY Zenon, <1>1 DEF Needed
  <2> QED BY <1>3, <2>1, <2>2 DEF Missing
<1>5. app'[p].pc = "idle" BY Zenon DEF AppLeave, Idle, TypeOK
<1>6. \A q \in App, t \in Shard : q # p => (owner'[t] = q <=> owner[t] = q) BY Zenon, <1>3
<1>7. \A c \in Collector, t \in Shard : owner'[t] = c <=> owner[t] = c BY Zenon, <1>3
<1>8. ASSUME NEW q \in App
      PROVE  /\ app'[q].pc = "idle" => \A s \in Shard : owner'[s] # q
             /\ app'[q].pc = "in" => \A s \in Shard : owner'[s] = q => \A t \in Missing(q)' : s < t
  BY <1>1, <1>2, <1>4, <1>5, <1>6 DEF LockOrder
<1>9. ASSUME NEW d \in Collector, col'[d].pc \in {"idle", "begin", "end", "shard"}
      PROVE  \A s \in Shard : owner'[s] # d
  BY Zenon, <1>1, <1>7, <1>9 DEF LockOrder
<1> QED BY Zenon, <1>8, <1>9 DEF LockOrder

\* A deletion that locks its candidate's shard, or gives it back, keeps the order.
LEMMA OrderDelete ==
  ASSUME TypeOK, LockOrder, NEW c \in Collector, DelLock(c) \/ DelLeave(c)
  PROVE  LockOrder'
<1> USE EpochsAssumption DEF EpochsAssumption
<1>1. UNCHANGED app /\ \A d \in Collector : d # c => col'[d] = col[d]
  BY Zenon DEF DelLock, DelLeave, Does, TypeOK
<1>2. \A t \in Shard : \A x \in App \cup Collector : x # c => (owner'[t] = x <=> owner[t] = x)
  BY Zenon DEF DelLock, DelLeave, Free, TypeOK
<1>3. col'[c].pc \in {"idle", "begin", "end", "shard"} => \A t \in Shard : owner'[t] # c
  BY DEF DelLock, DelLeave, Does, Free, TypeOK
<1>4. \A q \in App : Missing(q)' = Missing(q)
  <2> TAKE q \in App
  <2>1. \A t \in Needed(q) : t \in Shard BY DEF Needed, TypeOK
  <2>2. Needed(q)' = Needed(q) BY Zenon, <1>1 DEF Needed
  <2>3. \A t \in Shard : owner'[t] = q <=> owner[t] = q BY Zenon, <1>2
  <2> QED BY ZenonT(60), <1>1, <2>1, <2>2, <2>3 DEF Missing
<1>5. \A q \in App, t \in Shard : owner'[t] = q <=> owner[t] = q BY Zenon, <1>2
<1>6. \A d \in Collector, t \in Shard : d # c => (owner'[t] = d <=> owner[t] = d) BY Zenon, <1>2
<1>7. ASSUME NEW q \in App
      PROVE  /\ app'[q].pc = "idle" => \A s \in Shard : owner'[s] # q
             /\ app'[q].pc = "in" => \A s \in Shard : owner'[s] = q => \A t \in Missing(q)' : s < t
  BY <1>1, <1>4, <1>5 DEF LockOrder
<1>8. ASSUME NEW d \in Collector, col'[d].pc \in {"idle", "begin", "end", "shard"}
      PROVE  \A s \in Shard : owner'[s] # d
  BY Zenon, <1>1, <1>3, <1>6, <1>8 DEF LockOrder
<1> QED BY Zenon, <1>7, <1>8 DEF LockOrder

\* Every step of an operation keeps the order.
LEMMA OrderApp ==
  ASSUME TypeOK, LockOrder, NEW p \in App, AppStep(p) \/ Enters(p)
  PROVE  LockOrder'
<1>1. CASE Enters(p)
  <2>1. PICK op \in {"get", "put", "delete", "putmany", "list"}, K \in SUBSET Key : AppEnter(p, op, K)
    BY Zenon, <1>1 DEF Enters
  <2>2. app[p].pc = "idle" /\ UNCHANGED <<owner, col>> /\ \A q \in App : q # p => app'[q] = app[q]
    BY Zenon, <2>1 DEF AppEnter, TypeOK
  <2>3. \A s \in Shard : owner[s] # p BY Zenon, <2>2 DEF LockOrder
  <2>4. \A q \in App : q # p => Missing(q)' = Missing(q) BY Zenon, <2>2 DEF Missing, Needed
  <2> QED BY Zenon, <2>2, <2>3, <2>4 DEF LockOrder
<1>2. CASE AppLock(p) BY Zenon, <1>2, OrderLock
<1>3. CASE AppLeave(p) BY Zenon, <1>3, OrderLeave
<1>4. CASE AppRead(p) \/ AppMiss(p) \/ AppDelete(p) \/ AppTouch(p) \/ AppList(p)
  <2>1. /\ UNCHANGED <<owner, col>> /\ app'[p].pc \in {"touch", "leave"}
        /\ \A q \in App : q # p => app'[q] = app[q]
    BY <1>4 DEF AppRead, AppMiss, AppDelete, AppTouch, AppList, Goes, TypeOK
  <2> QED BY Zenon, <2>1, OrderAppFrame
<1>5. ASSUME NEW k \in Key, AppWrite(p, k) \/ AppWriteFail(p, k) PROVE LockOrder'
  <2>1. /\ UNCHANGED <<owner, col>> /\ app[p].pc = "in" /\ app'[p].pc \in {"in", "touch", "leave"}
        /\ app'[p].keys = app[p].keys /\ app'[p].epoch = app[p].epoch
        /\ \A q \in App : q # p => app'[q] = app[q]
    BY <1>5 DEF AppWrite, AppWriteFail, Ready, Goes, TypeOK
  <2> QED BY Zenon, <2>1, OrderAppFrame
<1> QED BY Zenon, <1>1, <1>2, <1>3, <1>4, <1>5 DEF AppStep

\* Every step of a collector keeps the order.
LEMMA OrderCol ==
  ASSUME TypeOK, LockOrder, NEW c \in Collector,
         ColStep(c) \/ AskBegin(c) \/ AskEnd(c) \/ \E k \in Key : DelEnter(c, k)
  PROVE  LockOrder'
<1>1. CASE DelLock(c) \/ DelLeave(c) BY Zenon, <1>1, OrderDelete
<1>2. CASE Begin(c) \/ BeginRefused(c) \/ End(c) \/ AskBegin(c) \/ AskEnd(c) \/ \E k \in Key : DelEnter(c, k)
  <2>1. /\ UNCHANGED <<app, owner>> /\ col[c].pc \in {"idle", "begin", "end"}
        /\ \A d \in Collector : d # c => col'[d] = col[d]
    BY Zenon, <1>2 DEF Begin, BeginRefused, End, AskBegin, AskEnd, Ask, DelEnter, Does, TypeOK
  <2> QED BY Zenon, <2>1, OrderColFrame
<1>3. CASE DelCheck(c) \/ DelBase(c)
  <2>1. /\ UNCHANGED <<app, owner>> /\ col'[c].pc \in {"leave", "delete"}
        /\ \A d \in Collector : d # c => col'[d] = col[d]
    BY <1>3 DEF DelCheck, DelBase, Does, TypeOK
  <2> QED BY Zenon, <2>1, OrderColFrame
<1> QED BY Zenon, <1>1, <1>2, <1>3 DEF ColStep

\* Every step keeps the order.
LEMMA OrderStep == TypeOK /\ LockOrder /\ [Next]_vars => LockOrder'
<1> SUFFICES ASSUME TypeOK, LockOrder, [Next]_vars PROVE LockOrder'
  BY Zenon
<1>1. CASE UNCHANGED vars
  <2>1. \A q \in App : Missing(q)' = Missing(q) BY Zenon, <1>1 DEF vars, Missing, Needed
  <2> QED BY Zenon, <1>1, <2>1 DEF vars, LockOrder
<1> QED BY <1>1, NextEnters, OrderApp, OrderCol, Zenon

\* An operation waits for a shard above those it has; a deletion waits with none.
LEMMA WaitsAbove ==
  ASSUME TypeOK, LockOrder, NEW x \in App \cup Collector, NEW s \in Shard, owner[s] = x, NEW t \in Awaits(x)
  PROVE  s < t
<1>1. CASE x \in App
  <2>1. app[x].pc = "in" /\ t \in Missing(x) BY Zenon, <1>1 DEF Awaits, NextShard
  <2> QED BY Zenon, <1>1, <2>1 DEF LockOrder
<1>2. CASE x \notin App
  <2>1. x \in Collector /\ col[x].pc = "shard" BY Zenon, <1>2 DEF Awaits
  <2> QED BY Zenon, <2>1 DEF LockOrder
<1> QED BY Zenon, <1>1, <1>2

\* What is waited for is a shard.
LEMMA AwaitsShards ==
  ASSUME Inv, NEW x \in App \cup Collector
  PROVE  Awaits(x) \subseteq Shard
<1> USE EpochsAssumption DEF EpochsAssumption, Inv, TypeOK
<1>1. CASE x \in App BY <1>1 DEF Awaits, NextShard, Missing, Needed
<1>2. CASE x \notin App BY <1>2 DEF Awaits, ColOK, Deleting
<1> QED BY Zenon, <1>1, <1>2

\* However many batches and deletions overlap, they never wait for each other in a
\* circle: the shards are locked in one order, so whoever waits for the last of the
\* shards waited for waits for somebody who waits for nothing (PutMany, DeleteCandidate).
THEOREM Acyclic == Spec => []NoCircularWait
<1>1. Init => LockOrder
  BY Zenon, EpochsAssumption DEF EpochsAssumption, Init, LockOrder, Idle
<1>2. Inv /\ LockOrder => NoCircularWait
  <2> SUFFICES ASSUME Inv, LockOrder, NEW S \in (SUBSET (App \cup Collector)) \ {{}},
                      \A x \in S : \E s \in Awaits(x) : owner[s] \in S \ {x}
               PROVE  FALSE
    BY Zenon DEF NoCircularWait
  <2> DEFINE T == {s \in Shard : \E x \in S : s \in Awaits(x) /\ owner[s] \in S \ {x}}
  <2>1. T # {} BY Zenon, AwaitsShards
  <2>2. PICK m \in T : \A s \in T : s <= m BY Zenon, <2>1, LastShard
  <2>3. PICK y \in S : y = owner[m] BY Zenon
  <2>4. PICK t \in Awaits(y) : owner[t] \in S \ {y} BY Zenon
  <2>5. t \in T BY Zenon, <2>4, AwaitsShards
  <2>6. m < t BY Zenon, <2>3, WaitsAbove DEF Inv
  <2> HIDE DEF T
  <2>7. m \in Int /\ t \in Int BY Zenon, <2>5, EpochsAssumption DEF EpochsAssumption, T
  <2> QED BY <2>2, <2>5, <2>6, <2>7
<1> QED BY <1>1, <1>2, OrderStep, TypeCorrect, Invariance, PTL DEF Spec
==============================================================================
