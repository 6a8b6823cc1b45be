------------------------------- MODULE HostProofs ------------------------------
(***************************************************************************)
(* What the daemons of a host share, for every number of processes,        *)
(* readers and clients, failures, restarts and operator's changes: the     *)
(* read API's limiter and the identity key file.                           *)
(***************************************************************************)
EXTENDS IdentityFile, ReadLimiter, TLAPS

-----------------------------------------------------------------------------
\* The limiter of the read API.

IsBucket(b, burst) ==
  /\ b = [burst |-> b.burst, tokens |-> b.tokens, last |-> b.last, event |-> b.event]
  /\ b.burst = burst /\ b.tokens \in Int /\ b.tokens <= burst /\ b.last \in Nat /\ b.event \in Nat

\* The bucket as it was before a reservation of n, and the wait a reservation means.
Without(b, n) == [b EXCEPT !.tokens = b.tokens + n]
Owing(b) == IF b.tokens < 0 THEN 0 - b.tokens ELSE 0

\* A reservation, undone, leaves the refill as it was (ReserveN).
LEMMA ReserveIs ==
  ASSUME NEW burst \in Nat, NEW b, IsBucket(b, burst), NEW t \in Nat, b.last <= t, NEW n \in Nat,
         NEW r, r = ReserveN(b, t, n)
  PROVE  /\ IsBucket(r, burst) /\ IsBucket(Without(r, n), burst) /\ r.last = t /\ r.tokens = Available(b, t) - n
         /\ r.event = ActAt(b, t, n) /\ ActAt(b, t, n) = t + Owing(r)
         /\ \A u \in Nat : u >= t => Available(Without(r, n), u) = Available(b, u)
<1>1. PICK a : a = Available(b, t) BY Zenon
<1>2. a \in Int /\ a <= burst BY <1>1 DEF Available, Least, IsBucket
<1>3. PICK e : e = ActAt(b, t, n) BY Zenon
<1>4. e \in Nat /\ e = t + (IF a - n < 0 THEN 0 - (a - n) ELSE 0) BY <1>1, <1>2, <1>3 DEF ActAt
<1>5. r = [burst |-> burst, tokens |-> a - n, last |-> t, event |-> e] BY Zenon, <1>1, <1>3 DEF ReserveN, IsBucket
<1>6. /\ IsBucket(r, burst) /\ r.burst = burst /\ r.last = t /\ r.tokens = a - n /\ r.event = e
  BY <1>2, <1>4, <1>5 DEF IsBucket
<1>7. Without(r, n) = [burst |-> burst, tokens |-> a, last |-> t, event |-> e] BY <1>2, <1>5 DEF Without
<1>8. IsBucket(Without(r, n), burst) BY <1>2, <1>4, <1>7 DEF IsBucket
<1>9. ASSUME NEW u \in Nat, u >= t PROVE Available(Without(r, n), u) = Available(b, u)
  <2>1. Available(Without(r, n), u) = Least(burst, a + (u - Least(u, t))) BY <1>7 DEF Available
  <2>2. Available(b, u) = Least(burst, b.tokens + (u - Least(u, b.last))) BY Zenon DEF Available, IsBucket
  <2>3. a = Least(burst, b.tokens + (t - Least(t, b.last))) BY Zenon, <1>1 DEF Available, IsBucket
  <2>4. b.tokens \in Int /\ b.last \in Nat BY Zenon DEF IsBucket
  <2> QED BY <1>9, <2>1, <2>2, <2>3, <2>4 DEF Least
<1>10. ActAt(b, t, n) = t + Owing(r) BY Zenon, <1>3, <1>4, <1>6 DEF Owing
<1> QED BY Zenon, <1>1, <1>3, <1>6, <1>8, <1>9, <1>10

\* With nothing reserved in between, a cancelled reservation is undone (CancelAt).
LEMMA CancelIs ==
  ASSUME NEW burst \in Nat, NEW b, IsBucket(b, burst), NEW n \in Nat \ {0}, b.tokens + n <= burst,
         b.event >= b.last, NEW c, c = CancelAt(b, b.event, b.last, n)
  PROVE  /\ IsBucket(c, burst) /\ c.last = b.last
         /\ \A u \in Nat : Available(c, u) = Available(Without(b, n), u)
<1>1. b.tokens \in Int /\ b.last \in Nat /\ b.event \in Nat /\ b.burst = burst BY Zenon DEF IsBucket
<1>2. Available(b, b.last) = b.tokens BY <1>1 DEF Available, Least, IsBucket
<1>3. PICK e : e = IF b.event - n >= b.last THEN b.event - n ELSE b.event BY Zenon
<1>4. e \in Nat BY <1>1, <1>3
<1>9. c = [burst |-> b.burst, tokens |-> Least(b.burst, Available(b, b.last) + n), last |-> b.last, event |-> e]
  <2>1. n - (b.event - b.event) = n /\ ~(b.event < b.last \/ n <= 0) BY <1>1
  <2>2. c = [b EXCEPT !.tokens = Least(b.burst, Available(b, b.last) + n), !.last = b.last, !.event = e]
    BY Zenon, <1>3, <2>1 DEF CancelAt
  <2> QED BY Zenon, <2>2 DEF IsBucket
<1>10. Least(b.burst, Available(b, b.last) + n) = b.tokens + n BY <1>1, <1>2 DEF Least
<1>5. c = [burst |-> burst, tokens |-> b.tokens + n, last |-> b.last, event |-> e] BY Zenon, <1>1, <1>9, <1>10
<1>6. IsBucket(c, burst) /\ c.last = b.last
  <2>1. c.burst = burst /\ c.tokens = b.tokens + n /\ c.last = b.last /\ c.event = e BY <1>5
  <2> QED BY <1>1, <1>4, <1>5, <2>1 DEF IsBucket
<1>7. Without(b, n) = [burst |-> burst, tokens |-> b.tokens + n, last |-> b.last, event |-> b.event]
  BY <1>1 DEF Without, IsBucket
<1>8. ASSUME NEW u \in Nat PROVE Available(c, u) = Available(Without(b, n), u) BY <1>5, <1>7 DEF Available
<1> QED BY Zenon, <1>6, <1>8

\* The debt is refilled after the wait (DelayFrom).
LEMMA WaitIsEnough ==
  ASSUME NEW burst \in Nat, NEW b, IsBucket(b, burst), NEW n \in Nat, n <= burst,
         NEW u \in Nat, u >= b.last + Owing(b)
  PROVE  n <= Available(Without(b, n), u)
<1>1. b.tokens \in Int /\ b.last \in Nat BY Zenon DEF IsBucket
<1>2. Without(b, n) = [burst |-> burst, tokens |-> b.tokens + n, last |-> b.last, event |-> b.event]
  BY <1>1 DEF Without, IsBucket
<1>3. Available(Without(b, n), u) = Least(burst, b.tokens + n + (u - Least(u, b.last))) BY <1>2 DEF Available
<1> QED BY <1>1, <1>3 DEF Least, Owing

\* Whole seconds, rounded up, are no shorter than the delay (retryAfterInteger).
LEMMA RetryIsEnough == ASSUME NEW d \in Nat PROVE RetryAfter(d) \in Nat /\ RetryAfter(d) >= d
<1>1. Second \in Nat /\ Second > 0 BY LimiterAssumption
<1>2. CASE d <= Second BY <1>1, <1>2 DEF RetryAfter
<1>3. CASE ~(d <= Second)
  <2>1. PICK x \in Nat : x = d + Second - 1 BY <1>1
  <2>2. PICK k, m : k = x \div Second /\ m = x % Second BY Zenon
  <2>3. k \in Nat /\ m \in 0..Second - 1 /\ x = Second * k + m BY <1>1, <2>1, <2>2
  <2>4. Second * k \in Nat BY <1>1, <2>3
  <2>5. RetryAfter(d) = Second * k BY Zenon, <1>3, <2>1, <2>2 DEF RetryAfter
  <2> QED BY <1>1, <2>1, <2>3, <2>4, <2>5
<1> QED BY Zenon, <1>2, <1>3

-----------------------------------------------------------------------------
\* The list of the clients' buckets.

Entries == [key : site.clients, seen : Nat, bucket : [burst : {ClientBurst}, tokens : Int, last : Nat, event : Nat]]

Seen(e, now) == [e EXCEPT !.seen = now]
Swapped(e, key, b) == IF e.key = key THEN [e EXCEPT !.bucket = b] ELSE e

\* What a sequence over S is made of.
LEMMA SeqIs ==
  ASSUME NEW S, NEW s \in Seq(S)
  PROVE  Len(s) \in Nat /\ DOMAIN s = 1..Len(s) /\ \A i \in DOMAIN s : s[i] \in S
OBVIOUS

\* A sequence of things that are all in T.
LEMMA SeqOf == ASSUME NEW S, NEW s \in Seq(S), NEW T, \A i \in DOMAIN s : s[i] \in T PROVE s \in Seq(T)
<1>1. PICK n \in Nat : n = Len(s) /\ DOMAIN s = 1..n BY Zenon, SeqIs
<1>2. s = [i \in 1..n |-> s[i]] BY <1>1
<1>3. s \in [1..n -> T] BY Zenon, <1>1, <1>2
<1> QED BY <1>1, <1>3

\* A cut of a sequence.
LEMMA CutIs ==
  ASSUME NEW S, NEW s \in Seq(S), NEW a \in Nat \ {0}, NEW b \in 0..Len(s)
  PROVE  SubSeq(s, a, b) \in Seq(S)
BY SeqIs

\* Two sequences joined begin as the first does.
LEMMA JoinIs ==
  ASSUME NEW S, NEW s \in Seq(S), NEW t \in Seq(S), Len(s) > 0
  PROVE  s \o t \in Seq(S) /\ Len(s \o t) > 0 /\ (s \o t)[1] = s[1]
<1>1. s \o t \in Seq(S) OBVIOUS
<1>2. Len(s \o t) = Len(s) + Len(t) OBVIOUS
<1>3. (s \o t)[1] = s[1] BY SeqIs
<1> QED BY <1>1, <1>2, <1>3, SeqIs

\* Looking up a client's bucket moves or drops buckets and may add a fresh one, to the
\* front (bucketLocked).
LEMMA FoundIn ==
  ASSUME NEW S, NEW U \in Seq(S), NEW key, NEW now, NEW f, f = [key |-> key, seen |-> now, bucket |-> Fresh(ClientBurst)],
         f \in S, \A e \in S : Seen(e, now) \in S /\ Seen(e, now).key = e.key,
         NEW L, L = BucketFor(U, key, now)
  PROVE  L \in Seq(S) /\ \E i \in DOMAIN L : L[i].key = key
<1>1. Len(U) \in Nat /\ DOMAIN U = 1..Len(U) /\ \A i \in DOMAIN U : U[i] \in S BY Zenon, SeqIs
<1>2. ASSUME NEW M \in Seq(S), Len(M) > 0, M[1].key = key PROVE \E i \in DOMAIN M : M[i].key = key BY <1>2, SeqIs
<1>3. CASE \E i \in DOMAIN U : U[i].key = key
  <2>1. PICK at \in DOMAIN U : at = Position(U, key) /\ U[at].key = key BY Zenon, <1>3 DEF Position
  <2>2. PICK e, A, B : e = Seen(U[at], now) /\ A = SubSeq(U, 1, at - 1) /\ B = SubSeq(U, at + 1, Len(U)) BY Zenon
  <2>3. e \in S /\ e.key = key BY Zenon, <1>1, <2>1, <2>2
  <2>4. A \in Seq(S) /\ B \in Seq(S)
    <3>1. at - 1 \in 0..Len(U) /\ at + 1 \in Nat \ {0} /\ Len(U) \in 0..Len(U) BY <1>1
    <3> QED BY <2>2, <3>1, CutIs
  <2>5. PICK h : h = <<e>> BY Zenon
  <2>6. h \in Seq(S) /\ Len(h) > 0 /\ h[1] = e BY <2>3, <2>5
  <2>7. PICK m : m = h \o A BY Zenon
  <2>8. m \in Seq(S) /\ Len(m) > 0 /\ m[1] = e BY Zenon, <2>4, <2>6, <2>7, JoinIs
  <2>9. L = m \o B BY Zenon, <1>3, <2>1, <2>2, <2>5, <2>7 DEF BucketFor, MovedToFront, Seen
  <2>10. L \in Seq(S) /\ Len(L) > 0 /\ L[1] = e BY <2>4, <2>8, <2>9, JoinIs
  <2> QED BY Zenon, <1>2, <2>3, <2>10
<1>4. CASE ~\E i \in DOMAIN U : U[i].key = key
  <2>1. PICK k : k = Least(Len(U), MaxBuckets - 1) BY Zenon
  <2>2. k \in 0..Len(U) BY <1>1, <2>1, LimiterAssumption DEF Least
  <2>3. PICK A : A = SubSeq(U, 1, k) BY Zenon
  <2>4. A \in Seq(S) BY <2>2, <2>3, CutIs
  <2>5. PICK h : h = <<f>> BY Zenon
  <2>6. h \in Seq(S) /\ Len(h) > 0 /\ h[1] = f BY <2>5
  <2>7. L = h \o A BY Zenon, <1>4, <2>1, <2>3, <2>5 DEF BucketFor
  <2>8. L \in Seq(S) /\ Len(L) > 0 /\ L[1] = f BY <2>4, <2>6, <2>7, JoinIs
  <2> QED BY <1>2, <2>8
<1> QED BY Zenon, <1>3, <1>4

\* Replacing a client's bucket.
LEMMA ReplacedIn ==
  ASSUME NEW S, NEW L \in Seq(S), NEW key, NEW b, NEW T,
         \A e \in S : Swapped(e, key, b) \in T, NEW M, M = WithBucket(L, key, b)
  PROVE  /\ M \in Seq(T) /\ DOMAIN M = DOMAIN L
         /\ \A i \in DOMAIN L : L[i] \in S /\ M[i] = Swapped(L[i], key, b)
<1>1. Len(L) \in Nat /\ DOMAIN L = 1..Len(L) /\ \A i \in DOMAIN L : L[i] \in S BY Zenon, SeqIs
<1>2. /\ DOMAIN M = DOMAIN L /\ M = [i \in DOMAIN L |-> M[i]]
      /\ \A i \in DOMAIN L : M[i] = Swapped(L[i], key, b)
  BY Zenon DEF WithBucket, Swapped
<1>3. \A i \in DOMAIN L : M[i] \in T BY Zenon, <1>1, <1>2
<1>4. M \in [1..Len(L) -> T] BY Zenon, <1>1, <1>2, <1>3
<1>5. M \in Seq(T) BY <1>1, <1>4
<1> QED BY Zenon, <1>1, <1>2, <1>5

-----------------------------------------------------------------------------
\* A bucket covers the last advice: who waits as told finds enough in it.
Covers(b, w, t) == w # None => \A u \in Nat : u >= t /\ u >= w.at => w.cost <= Available(b, u)
\* What a bucket is worth once the request inside is refused.
Free(b) == IF mu = None THEN b ELSE Without(b, req[mu].cost)
FreeFor(e) == IF mu # None /\ e.key = req[mu].key THEN Without(e.bucket, req[mu].cost) ELSE e.bucket

\* One reservation of q, made when the bucket was last advanced.
Reserved(b, burst, at, q) ==
  b.last = q.now /\ b.event = at /\ at = q.now + Owing(b) /\ b.tokens + q.cost <= burst

\* Between its two steps a request holds the lock, and what it reserved is the last
\* thing that happened to both buckets.
Transacting(q) ==
  /\ q = [key |-> q.key, cost |-> q.cost, now |-> q.now, global |-> q.global, client |-> q.client]
  /\ q.cost \in 1..1 + MaxHashes /\ q.now \in 0..time /\ Reserved(global, GlobalBurst, q.global, q)
  /\ \E i \in DOMAIN clients : clients[i].key = q.key
  /\ \A i \in DOMAIN clients : clients[i].key = q.key => Reserved(clients[i].bucket, ClientBurst, q.client, q)

Requests == [key : site.clients, cost : Nat, now : Nat, global : Nat, client : Nat]

Locking ==
  /\ None \notin site.readers /\ None \notin Requests /\ req = [r \in site.readers |-> req[r]]
  /\ \A r \in site.readers : req[r] # None => mu = r
  /\ mu # None => mu \in site.readers /\ req[mu] # None /\ Transacting(req[mu])

Listed(e) == e \in Entries /\ e.bucket.tokens <= ClientBurst /\ e.bucket.last <= time

Metered ==
  /\ time \in Nat /\ IsBucket(global, GlobalBurst) /\ global.last <= time
  /\ clients \in Seq(Entries) /\ \A i \in DOMAIN clients : Listed(clients[i])
  /\ word # None => word.cost \in Nat /\ word.at \in Nat /\ word.cost <= 1 + MaxHashes

\* The process's bucket is the one that only the admitted took from.
Balanced ==
  /\ IsBucket(spent, GlobalBurst) /\ spent.last <= global.last
  /\ \A u \in Nat : u >= global.last => Available(Free(global), u) = Available(spent, u)

\* Both buckets cover the last advice, as far as they are free.
Advised ==
  /\ Covers(Free(global), word, time)
  /\ \A i \in DOMAIN clients : word # None /\ clients[i].key = word.key => Covers(FreeFor(clients[i]), word, time)

LimitInv == Locking /\ Metered /\ Balanced /\ Advised

\* An entry's bucket is a bucket.
LEMMA ListedIs == ASSUME NEW e, Listed(e) PROVE IsBucket(e.bucket, ClientBurst) /\ e.bucket.last <= time
BY Zenon DEF Listed, Entries, IsBucket

\* A bucket of the list, or a fresh one (BucketOf).
LEMMA BucketIs ==
  ASSUME NEW L, NEW key, \E i \in DOMAIN L : L[i].key = key
  PROVE  \E i \in DOMAIN L : L[i].key = key /\ BucketOf(L, key) = L[i].bucket
<1>1. PICK i \in DOMAIN L : L[i].key = key /\ Position(L, key) = i BY Zenon DEF Position
<1> QED BY Zenon, <1>1 DEF BucketOf

\* Time passes: waits get shorter.
LEMMA LimitTick == ASSUME LimitInv, UNCHANGED site, Tick PROVE LimitInv'
<1> USE SMTT(15), ZenonT(15)
<1>1. time' = time + 1 /\ UNCHANGED <<global, clients, mu, req, spent, word>> /\ time \in Nat
  BY DEF Tick, LimitInv, Metered
<1>2. Metered'
  <2>1. Entries' = Entries BY DEF Entries
  <2>2. \A i \in DOMAIN clients : clients[i].bucket.last \in Nat BY DEF LimitInv, Metered, Listed, Entries
  <2> QED BY <1>1, <2>1, <2>2 DEF LimitInv, Metered, Listed, IsBucket
<1>3. Locking'
  <2>1. Requests' = Requests BY DEF Requests
  <2>2. ASSUME mu # None PROVE Transacting(req[mu])'
    <3>1. PICK q : q = req[mu] OBVIOUS
    <3>2. Transacting(q) BY <2>2, <3>1 DEF LimitInv, Locking
    <3>3. q.now \in 0..time' BY <1>1, <3>2 DEF Transacting
    <3>4. Transacting(q)' BY <1>1, <3>2, <3>3 DEF Transacting
    <3> QED BY <1>1, <3>1, <3>4
  <2> QED BY <1>1, <2>1, <2>2 DEF LimitInv, Locking
<1>4. Balanced' BY <1>1 DEF LimitInv, Balanced, Free
<1>5. Advised' BY <1>1 DEF LimitInv, Advised, Covers, Free, FreeFor
<1> QED BY <1>2, <1>3, <1>4, <1>5 DEF LimitInv

\* The reservation of both: undone, the buckets are what they were (ReserveBoth).
LEMMA LimitReserve == ASSUME LimitInv, UNCHANGED site, NEW r \in site.readers, ReserveBoth(r) PROVE LimitInv'
<1> USE SMTT(15), ZenonT(15)
<1>1. /\ mu = None /\ mu' = r /\ r # None /\ time \in Nat /\ UNCHANGED <<time, spent, word>>
      /\ \A x \in site.readers : req[x] = None
  BY Zenon DEF ReserveBoth, Locks, LimitInv, Locking, Metered
<1>2. PICK n \in 0..Len(clients), key \in site.clients, cost \in Costs : \E L, own, q :
        /\ L = BucketFor(SubSeq(clients, 1, n), key, time) /\ own = BucketOf(L, key) /\ global' = ReserveN(global, time, cost)
        /\ clients' = WithBucket(L, key, ReserveN(own, time, cost)) /\ req' = [req EXCEPT ![r] = q]
        /\ q = [key |-> key, cost |-> cost, now |-> time, global |-> ActAt(global, time, cost),
                client |-> ActAt(own, time, cost)]
  BY Zenon DEF ReserveBoth
<1>16. PICK L, own, q :
        /\ L = BucketFor(SubSeq(clients, 1, n), key, time) /\ own = BucketOf(L, key) /\ global' = ReserveN(global, time, cost)
        /\ clients' = WithBucket(L, key, ReserveN(own, time, cost)) /\ req' = [req EXCEPT ![r] = q]
        /\ q = [key |-> key, cost |-> cost, now |-> time, global |-> ActAt(global, time, cost),
                client |-> ActAt(own, time, cost)]
  BY Zenon, <1>2
<1>3. cost \in 1..1 + MaxHashes /\ cost \in Nat BY LimiterAssumption DEF Costs
<1>4. GlobalBurst \in Nat /\ ClientBurst \in Nat BY LimiterAssumption
<1>5. /\ IsBucket(global', GlobalBurst) /\ global'.last = time /\ global'.tokens = Available(global, time) - cost
      /\ global'.event = ActAt(global, time, cost) /\ ActAt(global, time, cost) = time + Owing(global')
      /\ IsBucket(Without(global', cost), GlobalBurst)
      /\ \A u \in Nat : u >= time => Available(Without(global', cost), u) = Available(global, u)
  <2>1. PICK g, b, t : g = global' /\ b = global /\ t = time OBVIOUS
  <2>2. t \in Nat /\ IsBucket(b, GlobalBurst) /\ b.last <= t /\ g = ReserveN(b, t, cost)
    BY <1>1, <1>16, <2>1 DEF LimitInv, Metered
  <2>3. /\ IsBucket(g, GlobalBurst) /\ g.last = t /\ g.tokens = Available(b, t) - cost
        /\ g.event = ActAt(b, t, cost) /\ ActAt(b, t, cost) = t + Owing(g)
        /\ IsBucket(Without(g, cost), GlobalBurst)
        /\ \A u \in Nat : u >= t => Available(Without(g, cost), u) = Available(b, u)
    BY <1>3, <1>4, <2>2, ReserveIs
  <2> QED BY <2>1, <2>3
<1>6. PICK S : S = {e \in Entries : Listed(e) /\ (word # None /\ e.key = word.key => Covers(e.bucket, word, time))} BY Zenon
<1>7. L \in Seq(S) /\ \E i \in DOMAIN L : L[i].key = key
  <2>1. clients \in Seq(S) BY <1>1, <1>6, SeqOf DEF LimitInv, Metered, Advised, FreeFor, Listed
  <2>2. PICK f : f = [key |-> key, seen |-> time, bucket |-> Fresh(ClientBurst)] BY Zenon
  <2>3. f \in S
    <3>1. PICK b : b = Fresh(ClientBurst) OBVIOUS
    <3>2. f \in Entries /\ Listed(f) /\ f.bucket = b BY <1>1, <1>4, <2>2, <3>1 DEF Entries, Listed, Fresh
    <3>3. \A u \in Nat : Available(b, u) = ClientBurst BY <1>4, <3>1 DEF Available, Fresh, Least
    <3>4. word # None => word.cost \in Nat /\ word.cost <= ClientBurst BY LimiterAssumption DEF LimitInv, Metered
    <3>5. Covers(b, word, time) BY <3>3, <3>4 DEF Covers
    <3> QED BY <1>6, <3>2, <3>5
  <2>4. ASSUME NEW e \in S PROVE Seen(e, time) \in S /\ Seen(e, time).key = e.key
    <3>1. PICK x : x = Seen(e, time) OBVIOUS
    <3>2. x \in Entries /\ x.key = e.key /\ x.bucket = e.bucket BY <1>1, <1>6, <3>1 DEF Entries, Seen
    <3> QED BY <1>6, <3>1, <3>2 DEF Listed
  <2>5. PICK now, U : now = time /\ U = SubSeq(clients, 1, n) BY Zenon
  <2>6. \A e \in S : Seen(e, now) \in S /\ Seen(e, now).key = e.key BY <2>4, <2>5
  <2>7. f = [key |-> key, seen |-> now, bucket |-> Fresh(ClientBurst)] /\ L = BucketFor(U, key, now) BY <1>16, <2>2, <2>5
  <2>8. U \in Seq(S) BY <2>1, <2>5, CutIs
  <2> QED BY <2>3, <2>6, <2>7, <2>8, FoundIn
<1>8. PICK j \in DOMAIN L : L[j].key = key /\ own = L[j].bucket BY <1>7, <1>16, BucketIs
<1>9. L[j] \in S BY <1>7, SeqIs
<1>10. IsBucket(own, ClientBurst) /\ own.last <= time BY <1>6, <1>8, <1>9, ListedIs
<1>11. PICK b : b = ReserveN(own, time, cost) OBVIOUS
<1>12. /\ IsBucket(b, ClientBurst) /\ b.last = time /\ b.tokens = Available(own, time) - cost
       /\ b.event = ActAt(own, time, cost) /\ ActAt(own, time, cost) = time + Owing(b)
       /\ IsBucket(Without(b, cost), ClientBurst)
       /\ \A u \in Nat : u >= time => Available(Without(b, cost), u) = Available(own, u)
  <2>1. PICK t : t = time OBVIOUS
  <2>2. t \in Nat /\ own.last <= t /\ b = ReserveN(own, t, cost) BY <1>1, <1>10, <1>11, <2>1
  <2>3. /\ IsBucket(b, ClientBurst) /\ b.last = t /\ b.tokens = Available(own, t) - cost
        /\ b.event = ActAt(own, t, cost) /\ ActAt(own, t, cost) = t + Owing(b)
        /\ IsBucket(Without(b, cost), ClientBurst)
        /\ \A u \in Nat : u >= t => Available(Without(b, cost), u) = Available(own, u)
    BY <1>3, <1>4, <1>10, <2>2, ReserveIs
  <2> QED BY <2>1, <2>3
<1>13. PICK T : T = {e \in Entries : Listed(e)} BY Zenon
<1>14. /\ clients' \in Seq(T) /\ DOMAIN clients' = DOMAIN L
       /\ \A i \in DOMAIN L : L[i] \in S /\ clients'[i] = Swapped(L[i], key, b)
  <2>1. ASSUME NEW e \in S PROVE Swapped(e, key, b) \in T
    BY <1>1, <1>6, <1>12, <1>13 DEF Entries, Listed, IsBucket, Swapped
  <2>2. PICK M : M = clients' OBVIOUS
  <2>3. M = WithBucket(L, key, b) BY <1>11, <1>16, <2>2
  <2>4. \A e \in S : Swapped(e, key, b) \in T BY <2>1
  <2>5. /\ M \in Seq(T) /\ DOMAIN M = DOMAIN L
        /\ \A i \in DOMAIN L : L[i] \in S /\ M[i] = Swapped(L[i], key, b)
    BY <1>7, <2>3, <2>4, ReplacedIn
  <2> QED BY <2>2, <2>5
<1>15. \A i \in DOMAIN L : /\ L[i].key = key => clients'[i].key = key /\ clients'[i].bucket = b
                           /\ L[i].key # key => clients'[i] = L[i]
  BY <1>6, <1>14 DEF Entries, Swapped
<1>17. req'[r] = q /\ \A x \in site.readers : x # r => req'[x] = None BY Zenon, <1>1, <1>16 DEF LimitInv, Locking
<1>18. q.key = key /\ q.cost = cost /\ q.now = time /\ q.global = ActAt(global, time, cost)
       /\ q.client = ActAt(own, time, cost)
  BY Zenon, <1>16
<1>19. Available(global, time) \in Int /\ Available(global, time) <= GlobalBurst
       /\ Available(own, time) \in Int /\ Available(own, time) <= ClientBurst
  BY <1>1, <1>4, <1>10 DEF LimitInv, Metered, Available, Least, IsBucket
<1>20. Reserved(global', GlobalBurst, q.global, q) BY <1>3, <1>4, <1>5, <1>18, <1>19 DEF Reserved
<1>21. Reserved(b, ClientBurst, q.client, q) BY <1>3, <1>4, <1>12, <1>18, <1>19 DEF Reserved
<1>22. Transacting(q)'
  <2>1. \E i \in DOMAIN clients' : clients'[i].key = key BY <1>8, <1>14, <1>15
  <2>2. \A i \in DOMAIN clients' : clients'[i].key = key => clients'[i].bucket = b BY <1>14, <1>15
  <2>3. q = [key |-> q.key, cost |-> q.cost, now |-> q.now, global |-> q.global, client |-> q.client] BY <1>16
  <2>4. q.cost \in 1..1 + MaxHashes /\ q.now \in 0..time' BY <1>1, <1>3, <1>18
  <2>5. \A i \in DOMAIN clients' : clients'[i].key = q.key => Reserved(clients'[i].bucket, ClientBurst, q.client, q)
    BY <1>18, <1>21, <2>2
  <2> QED BY <1>18, <1>20, <2>1, <2>3, <2>4, <2>5 DEF Transacting
<1>23. Locking'
  <2>1. q \in Requests
    BY <1>1, <1>3, <1>5, <1>12, <1>16, <1>18 DEF Requests, IsBucket
  <2>2. q # None /\ None \notin Requests' BY <2>1 DEF LimitInv, Locking, Requests
  <2>3. mu' \in site.readers /\ req'[mu'] = q BY Zenon, <1>1, <1>17
  <2>4. Transacting(req[mu])' BY <1>22, <2>3 DEF Transacting, Reserved
  <2> QED BY <1>1, <1>16, <1>17, <2>2, <2>3, <2>4 DEF LimitInv, Locking
<1>24. Metered'
  <2>1. Entries' = Entries BY DEF Entries
  <2>2. \A i \in DOMAIN clients' : clients'[i] \in T BY <1>14, SeqIs
  <2>3. clients' \in Seq(Entries) BY <1>13, <1>14, <2>2, SeqOf
  <2> QED BY <1>1, <1>5, <1>13, <2>1, <2>2, <2>3 DEF LimitInv, Metered, Listed, IsBucket
<1>25. Balanced'
  <2>1. Free(global)' = Without(global', cost) BY <1>1, <1>17, <1>18 DEF Free
  <2>2. IsBucket(spent', GlobalBurst) /\ spent'.last <= global'.last
    BY <1>1, <1>5 DEF LimitInv, Balanced, Metered, IsBucket
  <2>3. \A u \in Nat : u >= time => Available(global, u) = Available(spent, u)
    BY <1>1 DEF LimitInv, Balanced, Metered, Free, IsBucket
  <2> QED BY <1>1, <1>5, <2>1, <2>2, <2>3 DEF Balanced
<1>26. Advised'
  <2>1. Free(global)' = Without(global', cost) BY <1>1, <1>17, <1>18 DEF Free
  <2>2. Covers(global, word, time) BY <1>1 DEF LimitInv, Advised, Free
  <2>3. Covers(Without(global', cost), word, time) BY <1>1, <1>5, <2>2 DEF Covers
  <2>4. ASSUME NEW i \in DOMAIN clients', word # None, clients'[i].key = word.key
        PROVE  Covers(FreeFor(clients[i])', word, time)
    <3>1. CASE L[i].key = key
      <4>1. FreeFor(clients[i])' = Without(b, cost) BY <1>1, <1>14, <1>15, <1>17, <1>18, <3>1 DEF FreeFor
      <4>2. Covers(own, word, time) BY <1>6, <1>8, <1>9, <1>14, <1>15, <2>4, <3>1
      <4>3. Covers(Without(b, cost), word, time) BY <1>1, <1>12, <4>2 DEF Covers
      <4> QED BY <4>1, <4>3
    <3>2. CASE L[i].key # key
      <4>1. FreeFor(clients[i])' = L[i].bucket BY <1>1, <1>14, <1>15, <1>17, <1>18, <3>2 DEF FreeFor
      <4>2. Covers(L[i].bucket, word, time) BY <1>6, <1>14, <1>15, <2>4, <3>2
      <4> QED BY <1>1, <4>1, <4>2 DEF Covers
    <3> QED BY <3>1, <3>2
  <2> QED BY <1>1, <2>1, <2>3, <2>4 DEF Advised, Covers
<1> QED BY <1>23, <1>24, <1>25, <1>26 DEF LimitInv

\* The verdict: the admitted pay, and whoever is refused is given back what it reserved
\* and told to wait long enough (Judge).
LEMMA LimitJudge == ASSUME LimitInv, UNCHANGED site, NEW r \in site.readers, Judge(r) PROVE LimitInv'
<1> USE SMTT(15), ZenonT(15)
<1>1. /\ req[r] # None /\ mu = r /\ r # None /\ mu' = None /\ req' = [req EXCEPT ![r] = None] /\ time' = time /\ time \in Nat
      /\ \A x \in site.readers : x # r => req[x] = None
  BY Zenon DEF Judge, LimitInv, Locking, Metered
<1>2. PICK q : q = req[r] OBVIOUS
<1>3. Transacting(q) BY <1>1, <1>2 DEF LimitInv, Locking
<1>4. q.cost \in 1..1 + MaxHashes /\ q.cost \in Nat \ {0} /\ q.now \in 0..time /\ q.now \in Nat
  BY <1>1, <1>3, LimiterAssumption DEF Transacting
<1>5. GlobalBurst \in Nat /\ ClientBurst \in Nat /\ q.cost <= GlobalBurst /\ q.cost <= ClientBurst
  BY <1>4, LimiterAssumption
<1>6. IsBucket(global, GlobalBurst) /\ Reserved(global, GlobalBurst, q.global, q) /\ global.last <= time
  BY <1>3 DEF LimitInv, Metered, Transacting
<1>7. PICK j \in DOMAIN clients : clients[j].key = q.key /\ BucketOf(clients, q.key) = clients[j].bucket
  BY <1>3, BucketIs DEF Transacting
<1>8. PICK own : own = clients[j].bucket OBVIOUS
<1>9. IsBucket(own, ClientBurst) /\ Reserved(own, ClientBurst, q.client, q)
  BY <1>3, <1>7, <1>8, ListedIs DEF LimitInv, Metered, Transacting
<1>10. /\ \A u \in Nat : u >= global.last => Available(Without(global, q.cost), u) = Available(spent, u)
       /\ Covers(Without(global, q.cost), word, time)
  BY <1>1, <1>2 DEF LimitInv, Balanced, Advised, Free
<1>11. \A i \in DOMAIN clients : word # None /\ clients[i].key = word.key =>
         Covers(IF clients[i].key = q.key THEN Without(clients[i].bucket, q.cost) ELSE clients[i].bucket, word, time)
  BY <1>1, <1>2 DEF LimitInv, Advised, FreeFor
<1>12. Locking'
  <2>1. \A x \in site.readers : req'[x] = None BY <1>1 DEF LimitInv, Locking
  <2> QED BY <1>1, <2>1 DEF LimitInv, Locking, Requests
<1>13. CASE word' = None /\ spent' = ReserveN(spent, q.now, q.cost) /\ UNCHANGED <<global, clients>>
  <2>1. Metered'
    <3>1. Entries' = Entries BY DEF Entries
    <3> QED BY <1>1, <1>13, <3>1 DEF LimitInv, Metered, Listed, IsBucket
  <2>2. /\ IsBucket(spent', GlobalBurst) /\ spent'.last = q.now /\ spent'.tokens = Available(spent, q.now) - q.cost
    BY <1>4, <1>5, <1>6, <1>13, ReserveIs DEF LimitInv, Balanced, Reserved
  <2>3. Available(spent, q.now) = global.tokens + q.cost
    <3>1. Available(Without(global, q.cost), q.now) = global.tokens + q.cost
      BY <1>4, <1>5, <1>6 DEF Available, Least, Without, Reserved, IsBucket
    <3>2. q.now \in Nat /\ global.last = q.now BY <1>4, <1>6 DEF Reserved
    <3>3. Available(Without(global, q.cost), q.now) = Available(spent, q.now)
      <4>1. PICK t \in Nat : t = global.last /\ t = q.now /\ t >= global.last BY <3>2
      <4> QED BY <1>10, <4>1, Zenon
    <3> QED BY <3>1, <3>3
  <2>4. spent'.tokens = global.tokens /\ spent'.last = global.last /\ spent'.burst = global.burst
    BY <1>4, <1>6, <2>2, <2>3 DEF IsBucket, Reserved
  <2>5. \A u \in Nat : Available(global, u) = Available(spent', u) BY <2>4 DEF Available
  <2>6. Free(global)' = global BY <1>1, <1>13 DEF Free
  <2>7. Balanced' BY <1>4, <1>6, <1>13, <2>2, <2>4, <2>5, <2>6 DEF Balanced, IsBucket
  <2>8. Advised' BY <1>13 DEF Advised, Covers
  <2> QED BY <1>12, <2>1, <2>7, <2>8 DEF LimitInv
<1>14. CASE /\ global' = CancelAt(global, q.global, q.now, q.cost) /\ spent' = spent
            /\ clients' = WithBucket(clients, q.key, CancelAt(own, q.client, q.now, q.cost))
            /\ \/ word' = word
               \/ \E d \in Nat : /\ d >= q.global - q.now /\ d >= q.client - q.now
                                 /\ word' = [key |-> q.key, cost |-> q.cost, at |-> q.now + RetryAfter(d)]
  <2>1. global.last = q.now /\ global.event = q.global /\ global.event >= global.last /\ global.tokens + q.cost <= GlobalBurst
        /\ q.global - q.now = Owing(global) /\ q.global >= q.now
    BY <1>4, <1>6 DEF Reserved, Owing, IsBucket
  <2>2. own.last = q.now /\ own.event = q.client /\ own.event >= own.last /\ own.tokens + q.cost <= ClientBurst
        /\ q.client - q.now = Owing(own) /\ q.client >= q.now
    BY <1>4, <1>9 DEF Reserved, Owing, IsBucket
  <2>3. PICK b : b = CancelAt(own, q.client, q.now, q.cost) OBVIOUS
  <2>4. /\ IsBucket(global', GlobalBurst) /\ global'.last = q.now
        /\ \A u \in Nat : Available(global', u) = Available(Without(global, q.cost), u)
    <3>1. PICK c, g, n : c = global' /\ g = global /\ n = q.cost OBVIOUS
    <3>2. /\ IsBucket(g, GlobalBurst) /\ g.event >= g.last /\ n \in Nat \ {0} /\ g.tokens + n <= GlobalBurst
          /\ c = CancelAt(g, g.event, g.last, n)
      BY Zenon, <1>4, <1>6, <1>14, <2>1, <3>1
    <3>3. IsBucket(c, GlobalBurst) /\ c.last = g.last /\ \A u \in Nat : Available(c, u) = Available(Without(g, n), u)
      BY <1>5, <3>2, CancelIs
    <3> QED BY <2>1, <3>1, <3>3
  <2>5. /\ IsBucket(b, ClientBurst) /\ b.last = q.now
        /\ \A u \in Nat : Available(b, u) = Available(Without(own, q.cost), u)
    <3>1. PICK n : n = q.cost OBVIOUS
    <3>2. n \in Nat \ {0} /\ own.tokens + n <= ClientBurst /\ b = CancelAt(own, own.event, own.last, n)
      BY <1>4, <2>2, <2>3, <3>1
    <3>3. IsBucket(b, ClientBurst) /\ b.last = own.last /\ \A u \in Nat : Available(b, u) = Available(Without(own, n), u)
      BY <1>5, <1>9, <2>2, <3>2, CancelIs
    <3> QED BY <2>2, <3>1, <3>3
  <2>6. PICK T : T = {e \in Entries : Listed(e)} BY Zenon
  <2>7. clients \in Seq(T) BY <2>6, SeqOf DEF LimitInv, Metered, Listed
  <2>8. \A e \in T : Swapped(e, q.key, b) \in T
    BY <1>1, <1>4, <2>5, <2>6 DEF Entries, Listed, IsBucket, Swapped
  <2>9. /\ clients' \in Seq(T) /\ DOMAIN clients' = DOMAIN clients
        /\ \A i \in DOMAIN clients : clients[i] \in T /\ clients'[i] = Swapped(clients[i], q.key, b)
    <3>1. PICK L, M : L = clients /\ M = clients' OBVIOUS
    <3>2. L \in Seq(T) /\ M = WithBucket(L, q.key, b) BY <1>14, <2>3, <2>7, <3>1
    <3>3. /\ M \in Seq(T) /\ DOMAIN M = DOMAIN L
          /\ \A i \in DOMAIN L : L[i] \in T /\ M[i] = Swapped(L[i], q.key, b)
      BY <2>8, <3>2, ReplacedIn
    <3> QED BY <3>1, <3>3
  <2>10. \A i \in DOMAIN clients : /\ clients'[i].key = clients[i].key
                                   /\ clients[i].key = q.key => clients'[i].bucket = b
                                   /\ clients[i].key # q.key => clients'[i] = clients[i]
    BY Zenon, <2>6, <2>9 DEF Entries, Swapped
  <2>11. word' # None => word'.cost \in Nat /\ word'.at \in Nat /\ word'.cost <= 1 + MaxHashes
    <3>1. CASE word' = word BY <3>1 DEF LimitInv, Metered
    <3>2. ASSUME NEW d \in Nat, word' = [key |-> q.key, cost |-> q.cost, at |-> q.now + RetryAfter(d)]
          PROVE  word'.cost \in Nat /\ word'.at \in Nat /\ word'.cost <= 1 + MaxHashes
      <4>1. RetryAfter(d) \in Nat BY <3>2, RetryIsEnough
      <4> QED BY <1>4, <3>2, <4>1
    <3> QED BY Zenon, <1>14, <3>1, <3>2
  <2>12. Metered'
    <3>1. Entries' = Entries BY DEF Entries
    <3>2. \A i \in DOMAIN clients' : clients'[i] \in T BY <2>9, SeqIs
    <3>3. clients' \in Seq(Entries) BY <2>6, <2>9, <3>2, SeqOf
    <3> QED BY <1>1, <1>4, <2>4, <2>6, <2>11, <3>1, <3>2, <3>3 DEF Metered, Listed, IsBucket
  <2>13. Free(global)' = global' /\ \A i \in DOMAIN clients' : FreeFor(clients[i])' = clients'[i].bucket
    BY <1>1 DEF Free, FreeFor
  <2>14. Balanced' BY <1>4, <1>10, <1>14, <2>1, <2>4, <2>13 DEF LimitInv, Balanced, IsBucket
  <2>15. Covers(global', word', time)
    <3>1. CASE word' = word BY <1>10, <2>4, <3>1 DEF Covers
    <3>2. ASSUME NEW d \in Nat, d >= q.global - q.now, word' = [key |-> q.key, cost |-> q.cost, at |-> q.now + RetryAfter(d)]
          PROVE  Covers(global', word', time)
      <4>1. ASSUME NEW u \in Nat, u >= word'.at PROVE q.cost <= Available(global', u)
        <5>0. RetryAfter(d) \in Nat /\ RetryAfter(d) >= d /\ Owing(global) \in Nat
          BY <1>6, <3>2, RetryIsEnough DEF Owing, IsBucket
        <5>1. u >= global.last + Owing(global) BY <1>4, <2>1, <3>2, <4>1, <5>0
        <5> QED BY <1>4, <1>5, <1>6, <2>4, <5>1, WaitIsEnough
      <4> QED BY <3>2, <4>1 DEF Covers
    <3> QED BY Zenon, <1>14, <3>1, <3>2
  <2>16. ASSUME NEW i \in DOMAIN clients, word' # None, clients[i].key = word'.key
         PROVE  Covers(clients'[i].bucket, word', time)
    <3>1. CASE word' = word /\ clients[i].key = q.key
      <4>1. Covers(Without(own, q.cost), word, time) BY <1>7, <1>8, <1>11, <2>16, <3>1
      <4> QED BY <2>5, <2>10, <3>1, <4>1 DEF Covers
    <3>2. CASE word' = word /\ clients[i].key # q.key BY Zenon, <1>11, <2>10, <2>16, <3>2
    <3>3. ASSUME NEW d \in Nat, d >= q.client - q.now, word' = [key |-> q.key, cost |-> q.cost, at |-> q.now + RetryAfter(d)]
          PROVE  Covers(clients'[i].bucket, word', time)
      <4>1. ASSUME NEW u \in Nat, u >= word'.at PROVE q.cost <= Available(b, u)
        <5>0. RetryAfter(d) \in Nat /\ RetryAfter(d) >= d /\ Owing(own) \in Nat
          BY <1>9, <3>3, RetryIsEnough DEF Owing, IsBucket
        <5>1. u >= own.last + Owing(own) BY <1>4, <2>2, <3>3, <4>1, <5>0
        <5> QED BY <1>4, <1>5, <1>9, <2>5, <5>1, WaitIsEnough
      <4>2. clients'[i].bucket = b BY <2>10, <2>16, <3>3
      <4> QED BY <3>3, <4>1, <4>2 DEF Covers
    <3> QED BY Zenon, <1>14, <3>1, <3>2, <3>3
  <2>17. Advised' BY <1>1, <2>9, <2>10, <2>13, <2>15, <2>16 DEF Advised, Covers
  <2> QED BY <1>12, <2>12, <2>14, <2>17 DEF LimitInv
<1>15. ASSUME NEW gone \in BOOLEAN, NEW d,
              d = (IF q.client > q.global THEN q.client ELSE q.global) - q.now
       PROVE  d \in Nat /\ d >= q.global - q.now /\ d >= q.client - q.now
  <2>1. q.global \in Nat /\ q.client \in Nat /\ q.global >= q.now BY <1>4, <1>6, <1>9 DEF Reserved, Owing, IsBucket
  <2> QED BY <1>4, <1>15, <2>1
<1>16. \E gone \in BOOLEAN : \E d \in {(IF q.client > q.global THEN q.client ELSE q.global) - q.now} :
         /\ d = (IF q.client > q.global THEN q.client ELSE q.global) - q.now
         /\ IF ~gone /\ d = 0
            THEN spent' = ReserveN(spent, q.now, q.cost) /\ word' = None /\ UNCHANGED <<global, clients>>
            ELSE /\ clients' = WithBucket(clients, q.key, CancelAt(own, q.client, q.now, q.cost))
                 /\ global' = CancelAt(global, q.global, q.now, q.cost)
                 /\ word' = IF gone THEN word ELSE [key |-> q.key, cost |-> q.cost, at |-> q.now + RetryAfter(d)]
                 /\ UNCHANGED spent
  BY <1>2, <1>7, <1>8 DEF Judge
<1> QED BY <1>13, <1>14, <1>15, <1>16
-----------------------------------------------------------------------------
\* A limiter that has admitted nothing (newPublicReadLimiter).
LEMMA LimitInit == ASSUME LimiterInit, None \notin site.readers, None \notin Requests PROVE LimitInv
<1> USE SMTT(15), ZenonT(15)
<1>1. PICK b : b = Fresh(GlobalBurst) OBVIOUS
<1>2. time = 0 /\ global = b /\ clients = <<>> /\ mu = None /\ spent = b /\ word = None
      /\ req = [r \in site.readers |-> None]
  BY <1>1 DEF LimiterInit
<1>3. IsBucket(b, GlobalBurst) /\ b.last = 0 BY <1>1, LimiterAssumption DEF IsBucket, Fresh
<1>4. clients \in Seq(Entries) /\ DOMAIN clients = {} BY <1>2
<1>5. Metered BY <1>2, <1>3, <1>4 DEF Metered, IsBucket
<1>6. Locking BY <1>2 DEF Locking
<1>7. Balanced BY <1>2, <1>3 DEF Balanced, Free, IsBucket
<1>8. Advised BY <1>2, <1>4 DEF Advised, Covers
<1> QED BY <1>5, <1>6, <1>7, <1>8 DEF LimitInv

\* Every step of the limiter keeps the inductive invariant.
LEMMA LimitStep == ASSUME LimitInv, UNCHANGED site, LimiterStep PROVE LimitInv'
BY Zenon, LimitTick, LimitReserve, LimitJudge DEF LimiterStep

\* A stutter of the limiter keeps the inductive invariant.
LEMMA LimitStutter == ASSUME LimitInv, UNCHANGED site, UNCHANGED limiterVars PROVE LimitInv'
<1> USE DEF limiterVars
<1>1. Metered' BY Zenon DEF LimitInv, Metered, Listed, Entries, IsBucket
<1>2. Locking' BY Zenon DEF LimitInv, Locking, Transacting, Reserved, Requests
<1>3. Balanced' BY Zenon DEF LimitInv, Balanced, Free
<1>4. Advised' BY Zenon DEF LimitInv, Advised, Covers, Free, FreeFor
<1> QED BY Zenon, <1>1, <1>2, <1>3, <1>4 DEF LimitInv

\* Between transactions the process's bucket is the one of the admitted (cancelAt).
LEMMA LimitBalances == ASSUME LimitInv PROVE RefusalsSpendNothing
<1> SUFFICES ASSUME Quiet PROVE Available(global, time) = Available(spent, time) BY Zenon DEF RefusalsSpendNothing
<1>1. mu = None BY Zenon DEF LimitInv, Locking, Quiet
<1> QED BY Zenon, <1>1 DEF LimitInv, Balanced, Free, Metered

\* Between transactions the last refused has, by then, what was asked (RetryAfter).
LEMMA LimitAdvises == ASSUME LimitInv PROVE RetryIsHonest
<1> USE SMTT(15), ZenonT(15)
<1> SUFFICES ASSUME Quiet, word # None, time >= word.at
             PROVE  word.cost <= Least(Available(global, time), Available(BucketOf(clients, word.key), time))
  BY DEF RetryIsHonest
<1>1. mu = None /\ time \in Nat /\ word.cost \in Nat /\ word.cost <= 1 + MaxHashes BY Zenon DEF LimitInv, Locking, Quiet, Metered
<1>2. word.cost <= Available(global, time) BY <1>1 DEF LimitInv, Advised, Covers, Free
<1>3. PICK own : own = BucketOf(clients, word.key) OBVIOUS
<1>4. CASE \E i \in DOMAIN clients : clients[i].key = word.key
  <2>1. PICK i \in DOMAIN clients : clients[i].key = word.key /\ own = clients[i].bucket
    BY <1>3, <1>4, BucketIs
  <2> QED BY <1>1, <1>2, <1>3, <2>1 DEF LimitInv, Advised, Covers, FreeFor, Least
<1>5. CASE ~\E i \in DOMAIN clients : clients[i].key = word.key
  <2>1. own = Fresh(ClientBurst) BY <1>3, <1>5 DEF BucketOf
  <2>2. Available(own, time) = ClientBurst BY <1>1, <2>1, LimiterAssumption DEF Available, Fresh, Least
  <2> QED BY <1>1, <1>2, <1>3, <2>2, LimiterAssumption DEF Least
<1> QED BY Zenon, <1>4, <1>5

-----------------------------------------------------------------------------
\* The identity key file.

Inode == 1..minted
StartRec == [pc : {"off", "open", "lock", "read", "sync", "check", "sidecar", "mint", "temp", "install", "publish", "on"},
             fd : Nat \cup {None}, own : Nat \cup {None}, mode : {"import", "recheck", "lost"}]

KeyTyped ==
  /\ None \notin site.starters /\ minted \in Nat /\ start \in [site.starters -> StartRec]
  /\ target \in Inode \cup {None} /\ durable \in Inode \cup {None}
  /\ torn \subseteq Inode /\ blank \subseteq Inode /\ said \subseteq Inode
  /\ \A p \in site.starters : start[p].fd \in Inode \cup {None} /\ start[p].own \in Inode \cup {None}

\* From its recheck to its return a creator holds the sidecar lock, so there is one.
Inside(p) == start[p].mode # "import" \/ start[p].pc \in {"mint", "temp", "install", "publish"}
Serialized == \A p \in site.starters : Inside(p) => sidecar = p

\* A creator's inode has had no other name than its temp: no reader has it open, and no
\* power loss has taken its bytes.
Private ==
  \A p \in site.starters : Creating(p) =>
    /\ start[p].own \in temps \cap Inode /\ start[p].own # target /\ start[p].own \notin blank
    /\ start[p].pc # "temp" => start[p].own \notin torn
    /\ \A q \in site.starters : start[q].fd # start[p].own

\* What is installed is still what the path names, and what a reader has checked is
\* durable if the path still names it.
PathHolds ==
  \A p \in site.starters :
    /\ start[p].pc = "publish" => start[p].own = target /\ target # None
    /\ start[p].pc \in {"lock", "read", "sync", "check"} => start[p].fd # None
    /\ start[p].pc = "check" /\ start[p].fd = target => durable = target

Readable == {target, durable} \cap (torn \cup blank) = {}

KeyInv == KeyTyped /\ Serialized /\ Private /\ PathHolds /\ Readable /\ IdentityStays

-----------------------------------------------------------------------------

\* Launch keeps the inductive invariant.
LEMMA KeepsLaunch ==
  ASSUME KeyInv, UNCHANGED site, NEW p \in site.starters, Launch(p)
  PROVE  KeyInv'
<1> USE KeysAssumption DEF KeyInv
<1>1. KeyTyped' BY DEF Launch, fileVars, lockVars, KeyTyped, StartRec, Inode, PathHolds, Inside, Creating
<1>2. Serialized' BY <1>1 DEF Launch, fileVars, lockVars, KeyTyped, StartRec, Serialized, Inside
<1>3. Private' BY <1>1 DEF Launch, fileVars, lockVars, KeyTyped, StartRec, Inode, Serialized, Inside, Private, Creating
<1>4. PathHolds' BY <1>1 DEF Launch, fileVars, lockVars, KeyTyped, StartRec, Inode, Serialized, Inside, Private, PathHolds, Creating
<1>5. Readable' BY Zenon, <1>1 DEF Launch, fileVars, lockVars, KeyTyped, StartRec, Inode, Private, PathHolds, Readable, Creating
<1>6. IdentityStays' BY Zenon, <1>1 DEF Launch, fileVars, lockVars, KeyTyped, StartRec, Inode, PathHolds, IdentityStays
<1> QED BY Zenon, <1>1, <1>2, <1>3, <1>4, <1>5, <1>6

\* OpenTarget keeps the inductive invariant.
LEMMA KeepsOpenTarget ==
  ASSUME KeyInv, UNCHANGED site, NEW p \in site.starters, OpenTarget(p)
  PROVE  KeyInv'
<1> USE KeysAssumption DEF KeyInv
<1>1. KeyTyped' BY DEF OpenTarget, Fails, Release, NotStarted, fileVars, lockVars, KeyTyped, StartRec, Inode, PathHolds, Inside, Creating
<1>2. Serialized' BY <1>1 DEF OpenTarget, Fails, Release, NotStarted, fileVars, lockVars, KeyTyped, StartRec, Serialized, Inside
<1>3. Private' BY <1>1 DEF OpenTarget, Fails, Release, NotStarted, fileVars, lockVars, KeyTyped, StartRec, Inode, Serialized, Inside, Private, Creating
<1>4. PathHolds' BY <1>1 DEF OpenTarget, Fails, Release, NotStarted, fileVars, lockVars, KeyTyped, StartRec, Inode, Serialized, Inside, Private, PathHolds, Creating
<1>5. Readable' BY Zenon, <1>1 DEF OpenTarget, Fails, Release, NotStarted, fileVars, lockVars, KeyTyped, StartRec, Inode, Private, PathHolds, Readable, Creating
<1>6. IdentityStays' BY Zenon, <1>1 DEF OpenTarget, Fails, Release, NotStarted, fileVars, lockVars, KeyTyped, StartRec, Inode, PathHolds, IdentityStays
<1> QED BY Zenon, <1>1, <1>2, <1>3, <1>4, <1>5, <1>6

\* LockTarget keeps the inductive invariant.
LEMMA KeepsLockTarget ==
  ASSUME KeyInv, UNCHANGED site, NEW p \in site.starters, LockTarget(p)
  PROVE  KeyInv'
<1> USE KeysAssumption DEF KeyInv
<1>1. KeyTyped' BY DEF LockTarget, fileVars, lockVars, KeyTyped, StartRec, Inode, PathHolds, Inside, Creating
<1>2. Serialized' BY <1>1 DEF LockTarget, fileVars, lockVars, KeyTyped, StartRec, Serialized, Inside
<1>3. Private' BY <1>1 DEF LockTarget, fileVars, lockVars, KeyTyped, StartRec, Inode, Serialized, Inside, Private, Creating
<1>4. PathHolds' BY <1>1 DEF LockTarget, fileVars, lockVars, KeyTyped, StartRec, Inode, Serialized, Inside, Private, PathHolds, Creating
<1>5. Readable' BY Zenon, <1>1 DEF LockTarget, fileVars, lockVars, KeyTyped, StartRec, Inode, Private, PathHolds, Readable, Creating
<1>6. IdentityStays' BY Zenon, <1>1 DEF LockTarget, fileVars, lockVars, KeyTyped, StartRec, Inode, PathHolds, IdentityStays
<1> QED BY Zenon, <1>1, <1>2, <1>3, <1>4, <1>5, <1>6

\* ReadTarget keeps the inductive invariant.
LEMMA KeepsReadTarget ==
  ASSUME KeyInv, UNCHANGED site, NEW p \in site.starters, ReadTarget(p)
  PROVE  KeyInv'
<1> USE KeysAssumption DEF KeyInv
<1>1. KeyTyped' BY DEF ReadTarget, Fails, Release, NotStarted, Retry, fileVars, lockVars, KeyTyped, StartRec, Inode, PathHolds, Inside, Creating
<1>2. Serialized' BY <1>1 DEF ReadTarget, Fails, Release, NotStarted, Retry, fileVars, lockVars, KeyTyped, StartRec, Serialized, Inside
<1>3. Private' BY <1>1 DEF ReadTarget, Fails, Release, NotStarted, Retry, fileVars, lockVars, KeyTyped, StartRec, Inode, Serialized, Inside, Private, Creating
<1>4. PathHolds' BY <1>1 DEF ReadTarget, Fails, Release, NotStarted, Retry, fileVars, lockVars, KeyTyped, StartRec, Inode, Serialized, Inside, Private, PathHolds, Creating
<1>5. Readable' BY Zenon, <1>1 DEF ReadTarget, Fails, Release, NotStarted, Retry, fileVars, lockVars, KeyTyped, StartRec, Inode, Private, PathHolds, Readable, Creating
<1>6. IdentityStays' BY Zenon, <1>1 DEF ReadTarget, Fails, Release, NotStarted, Retry, fileVars, lockVars, KeyTyped, StartRec, Inode, PathHolds, IdentityStays
<1> QED BY Zenon, <1>1, <1>2, <1>3, <1>4, <1>5, <1>6

\* SyncParent keeps the inductive invariant.
LEMMA KeepsSyncParent ==
  ASSUME KeyInv, UNCHANGED site, NEW p \in site.starters, SyncParent(p)
  PROVE  KeyInv'
<1> USE KeysAssumption DEF KeyInv
<1>1. KeyTyped' BY DEF SyncParent, Fails, Release, NotStarted, fileVars, lockVars, KeyTyped, StartRec, Inode, PathHolds, Inside, Creating
<1>2. Serialized' BY <1>1 DEF SyncParent, Fails, Release, NotStarted, fileVars, lockVars, KeyTyped, StartRec, Serialized, Inside
<1>3. Private' BY <1>1 DEF SyncParent, Fails, Release, NotStarted, fileVars, lockVars, KeyTyped, StartRec, Inode, Serialized, Inside, Private, Creating
<1>4. PathHolds' BY <1>1 DEF SyncParent, Fails, Release, NotStarted, fileVars, lockVars, KeyTyped, StartRec, Inode, Serialized, Inside, Private, PathHolds, Creating
<1>5. Readable' BY Zenon, <1>1 DEF SyncParent, Fails, Release, NotStarted, fileVars, lockVars, KeyTyped, StartRec, Inode, Private, PathHolds, Readable, Creating
<1>6. IdentityStays' BY Zenon, <1>1 DEF SyncParent, Fails, Release, NotStarted, fileVars, lockVars, KeyTyped, StartRec, Inode, PathHolds, IdentityStays
<1> QED BY Zenon, <1>1, <1>2, <1>3, <1>4, <1>5, <1>6

\* CheckTarget keeps the inductive invariant.
LEMMA KeepsCheckTarget ==
  ASSUME KeyInv, UNCHANGED site, NEW p \in site.starters, CheckTarget(p)
  PROVE  KeyInv'
<1> USE KeysAssumption DEF KeyInv
<1>1. KeyTyped' BY DEF CheckTarget, Returns, Release, NotStarted, Retry, Sweep, StillNamed, fileVars, lockVars, KeyTyped, StartRec, Inode, PathHolds, Inside, Creating
<1>2. Serialized' BY <1>1 DEF CheckTarget, Returns, Release, NotStarted, Retry, Sweep, StillNamed, fileVars, lockVars, KeyTyped, StartRec, Serialized, Inside
<1>3. Private' BY <1>1 DEF CheckTarget, Returns, Release, NotStarted, Retry, Sweep, StillNamed, fileVars, lockVars, KeyTyped, StartRec, Inode, Serialized, Inside, Private, Creating
<1>4. PathHolds' BY <1>1 DEF CheckTarget, Returns, Release, NotStarted, Retry, Sweep, StillNamed, fileVars, lockVars, KeyTyped, StartRec, Inode, Serialized, Inside, Private, PathHolds, Creating
<1>5. Readable' BY Zenon, <1>1 DEF CheckTarget, Returns, Release, NotStarted, Retry, Sweep, StillNamed, fileVars, lockVars, KeyTyped, StartRec, Inode, Private, PathHolds, Readable, Creating
<1>6. IdentityStays'
  <2>1. target' = target /\ durable' = durable BY Zenon DEF CheckTarget
  <2>2. CASE start[p].fd = target
    <3>1. said' = said \cup {target} BY Zenon, <2>2 DEF CheckTarget, StillNamed, Returns
    <3>2. durable = target BY Zenon, <2>2 DEF CheckTarget, PathHolds
    <3> QED BY Zenon, <2>1, <3>1, <3>2 DEF IdentityStays
  <2>3. CASE start[p].fd # target
    <3>1. said' = said BY Zenon, <2>3 DEF CheckTarget, StillNamed
    <3> QED BY Zenon, <2>1, <3>1 DEF IdentityStays
  <2> QED BY Zenon, <2>2, <2>3
<1> QED BY Zenon, <1>1, <1>2, <1>3, <1>4, <1>5, <1>6

\* LockSidecar keeps the inductive invariant.
LEMMA KeepsLockSidecar ==
  ASSUME KeyInv, UNCHANGED site, NEW p \in site.starters, LockSidecar(p)
  PROVE  KeyInv'
<1> USE KeysAssumption DEF KeyInv
<1>1. KeyTyped' BY DEF LockSidecar, fileVars, lockVars, KeyTyped, StartRec, Inode, PathHolds, Inside, Creating
<1>2. Serialized' BY Zenon, <1>1 DEF LockSidecar, fileVars, lockVars, KeyTyped, StartRec, Serialized, Inside
<1>3. Private' BY <1>1 DEF LockSidecar, fileVars, lockVars, KeyTyped, StartRec, Inode, Serialized, Inside, Private, Creating
<1>4. PathHolds' BY <1>1 DEF LockSidecar, fileVars, lockVars, KeyTyped, StartRec, Inode, Serialized, Inside, Private, PathHolds, Creating
<1>5. Readable' BY Zenon, <1>1 DEF LockSidecar, fileVars, lockVars, KeyTyped, StartRec, Inode, Private, PathHolds, Readable, Creating
<1>6. IdentityStays' BY Zenon, <1>1 DEF LockSidecar, fileVars, lockVars, KeyTyped, StartRec, Inode, PathHolds, IdentityStays
<1> QED BY Zenon, <1>1, <1>2, <1>3, <1>4, <1>5, <1>6

\* Mint keeps the inductive invariant.
LEMMA KeepsMint ==
  ASSUME KeyInv, UNCHANGED site, NEW p \in site.starters, Mint(p)
  PROVE  KeyInv'
<1> USE KeysAssumption DEF KeyInv
<1>1. KeyTyped' BY DEF Mint, fileVars, lockVars, KeyTyped, StartRec, Inode, PathHolds, Inside, Creating
<1>2. Serialized' BY Zenon, <1>1 DEF Mint, fileVars, lockVars, KeyTyped, StartRec, Serialized, Inside
<1>3. Private' BY <1>1 DEF Mint, fileVars, lockVars, KeyTyped, StartRec, Inode, Serialized, Inside, Private, Creating
<1>4. PathHolds' BY <1>1 DEF Mint, fileVars, lockVars, KeyTyped, StartRec, Inode, Serialized, Inside, Private, PathHolds, Creating
<1>5. Readable' BY <1>1 DEF Mint, fileVars, lockVars, KeyTyped, StartRec, Inode, Private, PathHolds, Readable, Creating
<1>6. IdentityStays' BY Zenon, <1>1 DEF Mint, fileVars, lockVars, KeyTyped, StartRec, Inode, PathHolds, IdentityStays
<1> QED BY Zenon, <1>1, <1>2, <1>3, <1>4, <1>5, <1>6

\* SyncTemp keeps the inductive invariant.
LEMMA KeepsSyncTemp ==
  ASSUME KeyInv, UNCHANGED site, NEW p \in site.starters, SyncTemp(p)
  PROVE  KeyInv'
<1> USE KeysAssumption DEF KeyInv
<1>1. KeyTyped' BY DEF SyncTemp, Fails, Release, NotStarted, Synced, fileVars, lockVars, KeyTyped, StartRec, Inode, PathHolds, Inside, Creating
<1>2. Serialized' BY <1>1 DEF SyncTemp, Fails, Release, NotStarted, Synced, fileVars, lockVars, KeyTyped, StartRec, Serialized, Inside
<1>3. Private' BY <1>1 DEF SyncTemp, Fails, Release, NotStarted, Synced, fileVars, lockVars, KeyTyped, StartRec, Inode, Serialized, Inside, Private, Creating
<1>4. PathHolds' BY <1>1 DEF SyncTemp, Fails, Release, NotStarted, Synced, fileVars, lockVars, KeyTyped, StartRec, Inode, Serialized, Inside, Private, PathHolds, Creating
<1>5. Readable' BY Zenon, <1>1 DEF SyncTemp, Fails, Release, NotStarted, Synced, fileVars, lockVars, KeyTyped, StartRec, Inode, Private, PathHolds, Readable, Creating
<1>6. IdentityStays' BY Zenon, <1>1 DEF SyncTemp, Fails, Release, NotStarted, Synced, fileVars, lockVars, KeyTyped, StartRec, Inode, PathHolds, IdentityStays
<1> QED BY Zenon, <1>1, <1>2, <1>3, <1>4, <1>5, <1>6

\* InstallKey keeps the inductive invariant.
LEMMA KeepsInstallKey ==
  ASSUME KeyInv, UNCHANGED site, NEW p \in site.starters, InstallKey(p)
  PROVE  KeyInv'
<1> USE KeysAssumption DEF KeyInv
<1>1. KeyTyped' BY DEF InstallKey, fileVars, lockVars, KeyTyped, StartRec, Inode, PathHolds, Inside, Creating
<1>2. Serialized' BY <1>1 DEF InstallKey, fileVars, lockVars, KeyTyped, StartRec, Serialized, Inside
<1>3. Private'
  <2>1. start[p].pc = "install" /\ Creating(p) BY DEF InstallKey, Creating
  <2>2. ASSUME NEW q \in site.starters, q # p PROVE ~Creating(q) /\ start'[q] = start[q]
    <3>1. sidecar = p /\ (Creating(q) => sidecar = q) BY Zenon, <2>1 DEF Serialized, Inside, Creating
    <3>2. start'[q] = start[q] BY Zenon, <2>2 DEF InstallKey, KeyTyped
    <3> QED BY Zenon, <2>2, <3>1, <3>2
  <2>3. CASE target = None
    <3>1. start'[p].pc = "publish" /\ start'[p].mode = "import" BY <2>3 DEF InstallKey, KeyTyped, StartRec
    <3>2. \A q \in site.starters : ~Creating(q)' BY <2>2, <3>1 DEF Creating
    <3> QED BY Zenon, <3>2 DEF Private
  <2>4. CASE target # None
    <3>1. /\ start'[p].pc = "open" /\ start'[p].own = start[p].own /\ start'[p].fd = start[p].fd
          /\ UNCHANGED <<target, temps, blank, torn, minted>>
      BY <2>4 DEF InstallKey, KeyTyped, StartRec
    <3>2. \A q \in site.starters : start'[q].fd = start[q].fd BY Zenon, <2>2, <3>1
    <3>3. /\ start[p].own \in temps \cap Inode /\ start[p].own # target /\ start[p].own \notin blank
          /\ start[p].own \notin torn /\ \A q \in site.starters : start[q].fd # start[p].own
      BY <2>1 DEF Private
    <3>4. \A q \in site.starters : Creating(q)' => q = p BY Zenon, <2>2 DEF Creating
    <3> QED BY Zenon, <3>1, <3>2, <3>3, <3>4 DEF Private, Inode
  <2> QED BY Zenon, <2>3, <2>4
<1>4. PathHolds' BY <1>1 DEF InstallKey, fileVars, lockVars, KeyTyped, StartRec, Inode, Serialized, Inside, Private, PathHolds, Creating
<1>5. Readable' BY <1>1 DEF InstallKey, fileVars, lockVars, KeyTyped, StartRec, Inode, Private, PathHolds, Readable, Creating
<1>6. IdentityStays' BY Zenon, <1>1 DEF InstallKey, fileVars, lockVars, KeyTyped, StartRec, Inode, PathHolds, IdentityStays
<1> QED BY Zenon, <1>1, <1>2, <1>3, <1>4, <1>5, <1>6

\* PublishKey keeps the inductive invariant.
LEMMA KeepsPublishKey ==
  ASSUME KeyInv, UNCHANGED site, NEW p \in site.starters, PublishKey(p)
  PROVE  KeyInv'
<1> USE KeysAssumption DEF KeyInv
<1>1. KeyTyped' BY DEF PublishKey, Fails, Returns, Release, NotStarted, Sweep, EntrySynced, fileVars, lockVars, KeyTyped, StartRec, Inode, PathHolds, Inside, Creating
<1>2. Serialized' BY <1>1 DEF PublishKey, Fails, Returns, Release, NotStarted, Sweep, EntrySynced, fileVars, lockVars, KeyTyped, StartRec, Serialized, Inside
<1>3. Private' BY <1>1 DEF PublishKey, Fails, Returns, Release, NotStarted, Sweep, EntrySynced, fileVars, lockVars, KeyTyped, StartRec, Inode, Serialized, Inside, Private, Creating
<1>4. PathHolds' BY <1>1 DEF PublishKey, Fails, Returns, Release, NotStarted, Sweep, EntrySynced, fileVars, lockVars, KeyTyped, StartRec, Inode, Serialized, Inside, Private, PathHolds, Creating
<1>5. Readable' BY Zenon, <1>1 DEF PublishKey, Fails, Returns, Release, NotStarted, Sweep, EntrySynced, fileVars, lockVars, KeyTyped, StartRec, Inode, Private, PathHolds, Readable, Creating
<1>6. IdentityStays' BY Zenon, <1>1 DEF PublishKey, Fails, Returns, Release, NotStarted, Sweep, EntrySynced, fileVars, lockVars, KeyTyped, StartRec, Inode, PathHolds, IdentityStays
<1> QED BY Zenon, <1>1, <1>2, <1>3, <1>4, <1>5, <1>6

\* Stop keeps the inductive invariant.
LEMMA KeepsStop ==
  ASSUME KeyInv, UNCHANGED site, NEW p \in site.starters, Stop(p)
  PROVE  KeyInv'
<1> USE KeysAssumption DEF KeyInv
<1>1. KeyTyped' BY Zenon DEF Stop, NotStarted, fileVars, lockVars, KeyTyped, StartRec, Inode, PathHolds, Inside, Creating
<1>2. Serialized' BY Zenon, <1>1 DEF Stop, NotStarted, fileVars, lockVars, KeyTyped, StartRec, Serialized, Inside
<1>3. Private' BY SMTT(30), <1>1 DEF Stop, NotStarted, fileVars, lockVars, KeyTyped, StartRec, Inode, Serialized, Inside, Private, Creating
<1>4. PathHolds' BY <1>1 DEF Stop, NotStarted, fileVars, lockVars, KeyTyped, StartRec, Inode, Serialized, Inside, Private, PathHolds, Creating
<1>5. Readable' BY Zenon, <1>1 DEF Stop, NotStarted, fileVars, lockVars, KeyTyped, StartRec, Inode, Private, PathHolds, Readable, Creating
<1>6. IdentityStays' BY Zenon, <1>1 DEF Stop, NotStarted, fileVars, lockVars, KeyTyped, StartRec, Inode, PathHolds, IdentityStays
<1> QED BY Zenon, <1>1, <1>2, <1>3, <1>4, <1>5, <1>6

\* Killed keeps the inductive invariant.
LEMMA KeepsKilled ==
  ASSUME KeyInv, UNCHANGED site, NEW p \in site.starters, Killed(p)
  PROVE  KeyInv'
<1> USE KeysAssumption DEF KeyInv
<1>1. KeyTyped' BY Zenon DEF Killed, Release, NotStarted, fileVars, lockVars, KeyTyped, StartRec, Inode, PathHolds, Inside, Creating
<1>2. Serialized' BY Zenon, <1>1 DEF Killed, Release, NotStarted, fileVars, lockVars, KeyTyped, StartRec, Serialized, Inside
<1>3. Private' BY <1>1 DEF Killed, Release, NotStarted, fileVars, lockVars, KeyTyped, StartRec, Inode, Serialized, Inside, Private, Creating
<1>4. PathHolds' BY Zenon, <1>1 DEF Killed, Release, NotStarted, fileVars, lockVars, KeyTyped, StartRec, Inode, Serialized, Inside, Private, PathHolds, Creating
<1>5. Readable' BY Zenon, <1>1 DEF Killed, Release, NotStarted, fileVars, lockVars, KeyTyped, StartRec, Inode, Private, PathHolds, Readable, Creating
<1>6. IdentityStays' BY Zenon, <1>1 DEF Killed, Release, NotStarted, fileVars, lockVars, KeyTyped, StartRec, Inode, PathHolds, IdentityStays
<1> QED BY Zenon, <1>1, <1>2, <1>3, <1>4, <1>5, <1>6

\* PowerLoss keeps the inductive invariant.
LEMMA KeepsPowerLoss ==
  ASSUME KeyInv, UNCHANGED site, PowerLoss
  PROVE  KeyInv'
<1> USE KeysAssumption DEF KeyInv
<1>1. KeyTyped' BY Zenon DEF PowerLoss, NotStarted, fileVars, lockVars, KeyTyped, StartRec, Inode
<1>2. Serialized' BY Zenon, <1>1 DEF PowerLoss, NotStarted, fileVars, lockVars, KeyTyped, StartRec, Serialized, Inside
<1>3. Private' BY Zenon, <1>1 DEF PowerLoss, NotStarted, fileVars, lockVars, KeyTyped, StartRec, Inode, Private, Creating
<1>4. PathHolds' BY Zenon, <1>1 DEF PowerLoss, NotStarted, fileVars, lockVars, KeyTyped, StartRec, Inode, PathHolds
<1>5. Readable' BY Zenon, <1>1 DEF PowerLoss, NotStarted, fileVars, lockVars, KeyTyped, StartRec, Inode, Readable
<1>6. IdentityStays' BY Zenon, <1>1 DEF PowerLoss, NotStarted, fileVars, lockVars, KeyTyped, StartRec, Inode, IdentityStays
<1> QED BY Zenon, <1>1, <1>2, <1>3, <1>4, <1>5, <1>6

\* Provision keeps the inductive invariant.
LEMMA KeepsProvision ==
  ASSUME KeyInv, UNCHANGED site, Provision
  PROVE  KeyInv'
<1> USE KeysAssumption DEF KeyInv
<1>1. KeyTyped' BY DEF Provision, fileVars, lockVars, KeyTyped, StartRec, Inode
<1>2. Serialized' BY Zenon, <1>1 DEF Provision, fileVars, lockVars, KeyTyped, StartRec, Serialized, Inside
<1>3. Private' BY <1>1 DEF Provision, fileVars, lockVars, KeyTyped, StartRec, Inode, Private, Creating
<1>4. PathHolds' BY <1>1 DEF Provision, fileVars, lockVars, KeyTyped, StartRec, Inode, PathHolds
<1>5. Readable' BY <1>1 DEF Provision, fileVars, lockVars, KeyTyped, StartRec, Inode, Readable
<1>6. IdentityStays' BY Zenon, <1>1 DEF Provision, fileVars, lockVars, KeyTyped, StartRec, Inode, IdentityStays
<1> QED BY Zenon, <1>1, <1>2, <1>3, <1>4, <1>5, <1>6

-----------------------------------------------------------------------------
\* A host that has started nothing.
LEMMA KeyInit == ASSUME IdentityInit, None \notin site.starters PROVE KeyInv
<1> USE KeysAssumption DEF IdentityInit, NotStarted
<1>1. KeyTyped BY Zenon DEF KeyTyped, StartRec, Inode
<1>2. Serialized BY Zenon DEF Serialized, Inside
<1>3. Private BY Zenon DEF Private, Creating
<1>4. PathHolds BY Zenon DEF PathHolds
<1>5. Readable /\ IdentityStays BY Zenon DEF Readable, IdentityStays
<1> QED BY Zenon, <1>1, <1>2, <1>3, <1>4, <1>5 DEF KeyInv

\* Every step on the key file keeps the inductive invariant.
LEMMA KeyStep ==
  ASSUME KeyInv, UNCHANGED site, IdentityStep
  PROVE  KeyInv'
<1>1. CASE PowerLoss BY Zenon, <1>1, KeepsPowerLoss
<1>2. CASE Provision BY Zenon, <1>2, KeepsProvision
<1>3. ASSUME NEW p \in site.starters,
             \/ Launch(p) \/ OpenTarget(p) \/ LockTarget(p) \/ ReadTarget(p) \/ SyncParent(p) \/ CheckTarget(p)
             \/ LockSidecar(p) \/ Mint(p) \/ SyncTemp(p) \/ InstallKey(p) \/ PublishKey(p) \/ Stop(p) \/ Killed(p)
      PROVE  KeyInv'
  <2>1. CASE Launch(p) \/ OpenTarget(p) \/ LockTarget(p) \/ ReadTarget(p)
    BY Zenon, <2>1, KeepsLaunch, KeepsOpenTarget, KeepsLockTarget, KeepsReadTarget
  <2>2. CASE SyncParent(p) \/ CheckTarget(p) \/ LockSidecar(p) \/ Mint(p)
    BY Zenon, <2>2, KeepsSyncParent, KeepsCheckTarget, KeepsLockSidecar, KeepsMint
  <2>3. CASE SyncTemp(p) \/ InstallKey(p) \/ PublishKey(p) \/ Stop(p) \/ Killed(p)
    BY Zenon, <2>3, KeepsSyncTemp, KeepsInstallKey, KeepsPublishKey, KeepsStop, KeepsKilled
  <2> QED BY Zenon, <1>3, <2>1, <2>2, <2>3
<1> QED BY Zenon, <1>1, <1>2, <1>3 DEF IdentityStep

\* A stutter of the key file keeps the inductive invariant.
LEMMA KeyStutter ==
  ASSUME KeyInv, UNCHANGED site, UNCHANGED identityVars
  PROVE  KeyInv'
BY Zenon DEF KeyInv, identityVars, fileVars, lockVars, KeyTyped, Inode, Serialized, Inside, Private, Creating, PathHolds, Readable, IdentityStays
================================================================================
