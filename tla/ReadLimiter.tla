------------------------------ MODULE ReadLimiter ------------------------------
(***************************************************************************)
(* The limiter of the public read API (server/public_read_limiter.go): a   *)
(* request reserves its cost from the process's bucket and from its        *)
(* client's, at once, and gives both back when it has to be refused.  The  *)
(* clients' buckets are kept in a bounded list, the last used first.       *)
(*                                                                         *)
(* Both buckets refill by a token a tick.  How a client is told from its   *)
(* request (clientKey) is left out: a client is a model value.             *)
(***************************************************************************)
EXTENDS Publications, Sequences

CONSTANTS
  GlobalBurst, ClientBurst, \* the buckets' sizes
  MaxHashes,                \* hashes in a blobs query
  MaxBuckets, BucketTTL,    \* of the clients' list
  Second,                   \* ticks in a second, the unit of Retry-After
  MaxTime                   \* ticks considered
\* newPublicReadLimiter refuses other budgets: each burst admits the heaviest request.
ASSUME LimiterAssumption ==
  /\ MaxHashes \in Nat /\ {GlobalBurst, ClientBurst} \subseteq Nat /\ {MaxBuckets, BucketTTL, Second} \subseteq Nat \ {0}
  /\ GlobalBurst >= 1 + MaxHashes /\ ClientBurst >= 1 + MaxHashes

VARIABLES
  time,
  global,  \* the process's bucket
  clients, \* the clients' buckets, the last used first: <<[key, seen, bucket]>>
  mu,      \* the request that holds the lock, or None
  req,     \* request -> None or [key, cost, now, global, client]: what it reserved, when
  spent,   \* a bucket that only admitted requests took from (an observer)
  word     \* the last refusal's Retry-After while nothing was admitted: [key, cost, at] (an observer)

limiterVars == <<time, global, clients, mu, req, spent, word>>

-----------------------------------------------------------------------------
\* golang.org/x/time/rate

Fresh(burst) == [burst |-> burst, tokens |-> burst, last |-> 0, event |-> 0]
Least(a, b) == IF a < b THEN a ELSE b
Available(b, t) == Least(b.burst, b.tokens + (t - Least(t, b.last)))

\* When the reserved tokens may be used: at once, or when the debt is refilled.
ActAt(b, t, n) == t + (IF Available(b, t) < n THEN n - Available(b, t) ELSE 0)
ReserveN(b, t, n) == [b EXCEPT !.tokens = Available(b, t) - n, !.last = t, !.event = ActAt(b, t, n)]

\* What later reservations count on is not given back.
CancelAt(b, act, t, n) ==
  LET back == n - (b.event - act)
  IN IF act < t \/ back <= 0 THEN b
     ELSE [b EXCEPT !.tokens = Least(b.burst, Available(b, t) + back), !.last = t,
                    !.event = IF act = @ /\ act - n >= t THEN act - n ELSE @]

-----------------------------------------------------------------------------
\* A request costs one, and one for each hash; all of them, or too many, cost the most.
Costs == {1} \cup {1 + (IF n = 0 \/ n > MaxHashes THEN MaxHashes ELSE n) : n \in 0..MaxHashes + 1}

LimiterInit ==
  /\ time = 0 /\ global = Fresh(GlobalBurst) /\ clients = <<>> /\ mu = None
  /\ req = [r \in site.readers |-> None] /\ spent = Fresh(GlobalBurst) /\ word = None

\* expireLocked keeps the first n: from the back, up to the first that is not idle for the TTL.
Unexpired(n, now) ==
  /\ n > 0 => clients[n].seen + BucketTTL > now
  /\ \A i \in n + 1..Len(clients) : clients[i].seen + BucketTTL <= now

Position(L, key) == CHOOSE i \in DOMAIN L : L[i].key = key

\* The bucket comes to the front.
MovedToFront(L, key, now) ==
  LET at == Position(L, key)
  IN <<[L[at] EXCEPT !.seen = now]>> \o SubSeq(L, 1, at - 1) \o SubSeq(L, at + 1, Len(L))

\* bucketLocked, once expired: a new bucket takes the place of the last.
BucketFor(L, key, now) ==
  IF \E i \in DOMAIN L : L[i].key = key THEN MovedToFront(L, key, now)
  ELSE <<[key |-> key, seen |-> now, bucket |-> Fresh(ClientBurst)]>> \o SubSeq(L, 1, Least(Len(L), MaxBuckets - 1))

\* The client's bucket, and the list with another in its place.
BucketOf(L, key) ==
  IF \E i \in DOMAIN L : L[i].key = key THEN L[Position(L, key)].bucket ELSE Fresh(ClientBurst)
WithBucket(L, key, b) == [i \in DOMAIN L |-> IF L[i].key = key THEN [L[i] EXCEPT !.bucket = b] ELSE L[i]]

-----------------------------------------------------------------------------
\* admit

\* The lock is kept to the end of the transaction.
Locks(r) == mu' = r

\* The clock is read under the lock.
ReserveBoth(r) ==
  /\ mu = None /\ req[r] = None /\ Locks(r)
  /\ \E n \in 0..Len(clients), key \in site.clients, cost \in Costs :
     \E L \in {BucketFor(SubSeq(clients, 1, n), key, time)} : \E own \in {BucketOf(L, key)} :
       /\ Unexpired(n, time) /\ global' = ReserveN(global, time, cost)
       /\ clients' = WithBucket(L, key, ReserveN(own, time, cost))
       /\ req' = [req EXCEPT ![r] = [key |-> key, cost |-> cost, now |-> time, global |-> ActAt(global, time, cost),
                                      client |-> ActAt(own, time, cost)]]
  /\ Calm /\ UNCHANGED <<time, spent, word>>

\* Slip: whole seconds, rounded down.
RetryFloor(delay) == Second * (delay \div Second)

\* retryAfterInteger
RetryAfter(delay) == Second * (IF delay <= Second THEN 1 ELSE (delay + Second - 1) \div Second)

\* A request that must wait, or whose client has gone, gives back both reservations.
Judge(r) ==
  /\ req[r] # None /\ mu' = None /\ req' = [req EXCEPT ![r] = None]
  /\ \E q \in {req[r]}, gone \in BOOLEAN : \E delay \in {(IF q.client > q.global THEN q.client ELSE q.global) - q.now} :
       IF ~gone /\ delay = 0
       THEN spent' = ReserveN(spent, q.now, q.cost) /\ word' = None /\ UNCHANGED <<global, clients>>
       ELSE /\ clients' = WithBucket(clients, q.key, CancelAt(BucketOf(clients, q.key), q.client, q.now, q.cost))
            /\ global' = CancelAt(global, q.global, q.now, q.cost)
            /\ word' = IF gone THEN word ELSE [key |-> q.key, cost |-> q.cost, at |-> q.now + RetryAfter(delay)]
            /\ UNCHANGED spent
  /\ Calm /\ UNCHANGED time

Tick ==
  /\ time < MaxTime /\ time' = time + 1
  /\ Calm /\ UNCHANGED <<global, clients, mu, req, spent, word>>

LimiterStep == Tick \/ \E r \in site.readers : ReserveBoth(r) \/ Judge(r)

-----------------------------------------------------------------------------
Quiet == \A r \in site.readers : req[r] = None

\* A request that was refused, or whose client went away, has used nothing of what the
\* others share (admit: "A rejected or canceled request consumes neither bucket").
RefusalsSpendNothing == Quiet => Available(global, time) = Available(spent, time)

\* A client that waits as long as it was told is admitted, unless another was meanwhile
\* (admit, retryAfterInteger).
RetryIsHonest ==
  Quiet /\ word # None /\ time >= word.at =>
    word.cost <= Least(Available(global, time), Available(BucketOf(clients, word.key), time))
================================================================================
