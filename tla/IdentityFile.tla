------------------------------ MODULE IdentityFile -----------------------------
(***************************************************************************)
(* The identity key file that the daemons of one host load or create when  *)
(* they start (p2p/identity.go): flocks on the key's own inode and on a    *)
(* sidecar, a same-directory temp installed without replacing, and an      *)
(* fsync of the parent before any key is returned.  Processes die at any   *)
(* step, the power fails, and the operator brings, replaces or removes the *)
(* key.  An inode stands for the key written in it.                        *)
(*                                                                         *)
(* The eight attempts after which a reader gives up on a key that keeps    *)
(* being replaced are not counted: the operator acts less often.           *)
(***************************************************************************)
EXTENDS Publications

CONSTANT MaxKeys \* keys minted or brought
ASSUME KeysAssumption == MaxKeys \in Nat /\ None \notin Nat

VARIABLES
  target,  \* the inode the path names, or None
  durable, \* the inode it names after a power loss at the latest
  temps,   \* the inodes under a temp name
  torn,    \* the inodes whose bytes are not on disk
  blank,   \* those whose bytes a power loss took
  minted,  \* inodes so far
  sidecar, \* the process that holds the creation lock, or None
  flock,   \* inode -> the process that holds its lock, or None
  start,   \* process -> [pc, fd, own, mode]
  said     \* the keys returned since the operator last touched the file (an observer)

fileVars == <<target, durable, temps, torn, blank, minted>>
lockVars == <<sidecar, flock>>
identityVars == <<fileVars, lockVars, start, said>>

NotStarted == [pc |-> "off", fd |-> None, own |-> None, mode |-> "import"]
IdentityInit ==
  /\ target = None /\ durable = None /\ temps = {} /\ torn = {} /\ blank = {} /\ minted = 0
  /\ sidecar = None /\ flock = [i \in 1..MaxKeys |-> None]
  /\ start = [p \in site.starters |-> NotStarted] /\ said = {}

Creating(p) == start[p].pc \in {"temp", "install"} \/ start[p].mode = "lost"

\* Closing a descriptor, by hand or by dying, releases its lock.
Release(p) ==
  /\ sidecar' = IF sidecar = p THEN None ELSE sidecar
  /\ flock' = [i \in DOMAIN flock |-> IF flock[i] = p THEN None ELSE flock[i]]

\* An error is returned; the temp that was not installed goes by its own name.
Fails(p) ==
  /\ start' = [start EXCEPT ![p] = NotStarted] /\ Release(p)
  /\ temps' = IF Creating(p) THEN temps \ {start[p].own} ELSE temps

\* sweepStaleTemps, under the sidecar lock only.
Sweep(p) == IF sidecar = p THEN {} ELSE temps

Returns(p, key) ==
  /\ start' = [start EXCEPT ![p] = [NotStarted EXCEPT !.pc = "on"]] /\ Release(p)
  /\ said' = said \cup {key} /\ temps' = Sweep(p)

-----------------------------------------------------------------------------
\* readLockedTarget

Launch(p) ==
  /\ start[p].pc = "off" /\ start' = [start EXCEPT ![p].pc = "open"]
  /\ Calm /\ UNCHANGED <<fileVars, lockVars, said>>

\* A missing key is created, or installed again when the winner of a race is gone; a
\* required one (LoadIdentity) is never.
OpenTarget(p) ==
  /\ start[p].pc = "open" /\ Calm
  /\ IF target = None /\ p \in site.required THEN Fails(p)
     ELSE /\ start' = [start EXCEPT
               ![p].fd = target,
               ![p].pc = CASE target # None -> "lock"
                           [] target = None /\ start[p].mode = "import" -> "sidecar"
                           [] target = None /\ start[p].mode = "recheck" -> "mint"
                           [] target = None /\ start[p].mode = "lost" -> "install"]
          /\ UNCHANGED <<temps, lockVars>>
  /\ UNCHANGED <<target, durable, torn, blank, minted, said>>

LockTarget(p) ==
  /\ start[p].pc = "lock" /\ flock[start[p].fd] = None
  /\ flock' = [flock EXCEPT ![start[p].fd] = p] /\ start' = [start EXCEPT ![p].pc = "read"]
  /\ Calm /\ UNCHANGED <<fileVars, sidecar, said>>

\* The path names another file now: the descriptor is closed and the path opened again.
Retry(p) ==
  /\ flock' = [flock EXCEPT ![start[p].fd] = None]
  /\ start' = [start EXCEPT ![p].pc = "open", ![p].fd = None] /\ UNCHANGED <<sidecar, temps>>

\* The first SameFile check and the read; an empty file is an error.
ReadTarget(p) ==
  /\ start[p].pc = "read" /\ Calm
  /\ IF start[p].fd # target THEN Retry(p)
     ELSE IF start[p].fd \in blank THEN Fails(p)
     ELSE start' = [start EXCEPT ![p].pc = "sync"] /\ UNCHANGED <<temps, lockVars>>
  /\ UNCHANGED <<target, durable, torn, blank, minted, said>>

SyncParent(p) ==
  /\ start[p].pc = "sync"
  /\ \/ durable' = target /\ start' = [start EXCEPT ![p].pc = "check"] /\ Calm /\ UNCHANGED <<temps, lockVars>>
     \/ Fault("disk") /\ Fails(p) /\ UNCHANGED durable
  /\ UNCHANGED <<target, torn, blank, minted, said>>

\* sameInode, after the read, the parse and the fsync.
StillNamed(p) == start[p].fd = target

CheckTarget(p) ==
  /\ start[p].pc = "check" /\ Calm
  /\ IF StillNamed(p) THEN Returns(p, start[p].fd) ELSE Retry(p) /\ UNCHANGED said
  /\ UNCHANGED <<target, durable, torn, blank, minted>>

-----------------------------------------------------------------------------
\* createIdentity, createLocked

LockSidecar(p) ==
  /\ start[p].pc = "sidecar" /\ sidecar = None /\ sidecar' = p
  /\ start' = [start EXCEPT ![p].pc = "open", ![p].mode = "recheck"]
  /\ Calm /\ UNCHANGED <<fileVars, flock, said>>

Mint(p) ==
  /\ start[p].pc = "mint" /\ minted < MaxKeys /\ minted' = minted + 1
  /\ temps' = temps \cup {minted + 1} /\ torn' = torn \cup {minted + 1}
  /\ start' = [start EXCEPT ![p].pc = "temp", ![p].own = minted + 1]
  /\ Calm /\ UNCHANGED <<target, durable, blank, lockVars, said>>

\* writeTempIdentity fsyncs before anything can name the key.
Synced(i) == torn \ {i}

\* The temp's inode is locked too: it becomes the target's.
SyncTemp(p) ==
  /\ start[p].pc = "temp"
  /\ \/ /\ torn' = Synced(start[p].own) /\ flock' = [flock EXCEPT ![start[p].own] = p]
        /\ start' = [start EXCEPT ![p].pc = "install"] /\ Calm /\ UNCHANGED <<temps, sidecar>>
     \/ Fault("disk") /\ Fails(p) /\ UNCHANGED torn
  /\ UNCHANGED <<target, durable, blank, minted, said>>

\* installNoReplace: whoever is there already is adopted.
InstallKey(p) ==
  /\ start[p].pc = "install" /\ Calm
  /\ IF target = None
     THEN /\ target' = start[p].own /\ temps' = temps \ {start[p].own}
          /\ start' = [start EXCEPT ![p].pc = "publish", ![p].mode = "import"]
     ELSE start' = [start EXCEPT ![p].pc = "open", ![p].mode = "lost"] /\ UNCHANGED <<target, temps>>
  /\ UNCHANGED <<durable, torn, blank, minted, lockVars, said>>

\* Slip: the key is returned before its directory entry is on disk.
EntryAssumed == UNCHANGED durable

EntrySynced == durable' = target

\* The entry is a durability fact of its own; a failure leaves the key installed.
PublishKey(p) ==
  /\ start[p].pc = "publish"
  /\ \/ EntrySynced /\ Returns(p, start[p].own) /\ Calm
     \/ Fault("disk") /\ Fails(p) /\ UNCHANGED <<durable, said>>
  /\ UNCHANGED <<target, torn, blank, minted>>

-----------------------------------------------------------------------------
\* What happens to them.

Stop(p) ==
  /\ start[p].pc = "on" /\ start' = [start EXCEPT ![p] = NotStarted]
  /\ Calm /\ UNCHANGED <<fileVars, lockVars, said>>

Killed(p) ==
  /\ start[p].pc \notin {"off", "on"} /\ Fault("process") /\ Release(p)
  /\ start' = [start EXCEPT ![p] = NotStarted] /\ UNCHANGED <<fileVars, said>>

PowerLoss ==
  /\ Fault("power") /\ target' \in {target, durable} /\ durable' = target'
  /\ blank' = blank \cup torn /\ torn' = {}
  /\ sidecar' = None /\ flock' = [i \in DOMAIN flock |-> None]
  /\ start' = [p \in DOMAIN start |-> NotStarted] /\ UNCHANGED <<temps, minted, said>>

\* The operator brings a key, replaces it or takes it away, not in the moment of its
\* creation: from then on another identity is meant.
Provision ==
  /\ Fault("operator") /\ \A p \in site.starters : start[p].pc # "publish"
  /\ \/ minted < MaxKeys /\ minted' = minted + 1 /\ target' = minted + 1
     \/ target # None /\ target' = None /\ UNCHANGED minted
  /\ said' = {} /\ UNCHANGED <<durable, temps, torn, blank, lockVars, start>>

IdentityStep ==
  \/ \E p \in site.starters :
       \/ Launch(p) \/ OpenTarget(p) \/ LockTarget(p) \/ ReadTarget(p) \/ SyncParent(p) \/ CheckTarget(p)
       \/ LockSidecar(p) \/ Mint(p) \/ SyncTemp(p) \/ InstallKey(p) \/ PublishKey(p) \/ Stop(p) \/ Killed(p)
  \/ PowerLoss \/ Provision

-----------------------------------------------------------------------------
\* A key once returned is the one every later start returns, whoever raced to create
\* it and whenever the power failed, until the operator touches the file
\* (LoadOrCreateIdentity).
IdentityStays == said \subseteq {target} \cap {durable}

\* A crash never leaves a key file that the next start must refuse as empty
\* (writeTempIdentity, installNoReplace).
NeverBlank == {target, durable} \cap blank = {}

\* A sweep never takes the temp of a creator that is still going to install it
\* (sweepStaleTemps).
LiveTempKept == \A p \in site.starters : Creating(p) => start[p].own \in temps
================================================================================
