-------------------------------- MODULE Follower -------------------------------
(***************************************************************************)
(* A follower of one publication (follow/follow.go, resolve.go, state.go): *)
(* documents come over HTTPS and IPNS, any past one may come again; what a *)
(* poll resolved is judged again under the transition lock, preflighted    *)
(* for every followed head, protected, committed in one batch, and only    *)
(* then served.  A crash loses everything but cp, floor, at, seq, deleg.   *)
(***************************************************************************)
EXTENDS ReplicaRuntime

VARIABLES
  cp,    \* head -> its durable checkpoint [doc, sel, line]
  floor, \* authority -> None or the document of its publication floor
  at,    \* the updated_at floor of legacy documents
  seq,   \* IPNS name -> its sequence floor
  deleg, \* the signer DNSLink was last admitted to delegate to, or None
  dns,   \* the signer the DNSLink record names
  up,    \* "down", "recovering", "resume" or "on"
  poll   \* poller -> [pc, doc, via, obs, eq, tok]

durVars == <<cp, floor, at, seq, deleg>>
headVars == <<adopted, fetched, quar>>
storeVars == <<have, col, memo, walk>>

IdlePoll == [pc |-> "idle", doc |-> None, via |-> None, obs |-> None, eq |-> FALSE, tok |-> 0]
\* No row is a row without a document.
NoCheckpoint == [doc |-> None, sel |-> FALSE, line |-> None]
FollowerInit ==
  /\ cp = [h \in Kinds |-> NoCheckpoint] /\ floor = [a \in site.signers |-> None] /\ at = 0
  /\ seq = [a \in site.signers |-> 0] /\ deleg = None /\ dns = site.dns
  /\ up = "down" /\ poll = [p \in site.pollers |-> IdlePoll]

Line(d, h) == IF h = "fin" THEN d.fin ELSE d.mut
\* The entry has coverage; the rest of a revisioned document is withdrawn.
Covered(d, h) == Line(d, h) \notin {None, 0}
Mutables == site.heads \cap {"mut"}

\* freshnessRefusal
Freshness(d) ==
  LET f == floor[d.auth]
  IN IF d.rev > 0
     THEN IF f = None \/ d.rev > f.rev \/ d = f THEN "fresh" ELSE IF d.rev = f.rev THEN "equivocal" ELSE "stale"
     ELSE IF f = None /\ d.n >= at THEN "fresh" ELSE "stale"

\* fresherCandidate of the HTTPS and the IPNS answer; nothing when they equivocate.
Fresher(a, b) ==
  IF a.auth # b.auth /\ (a.rev > 0 \/ b.rev > 0) THEN {b}
  ELSE IF a.rev > 0 /\ a.rev = b.rev THEN {a} \cap {b}
  ELSE IF a.rev # b.rev THEN {IF b.rev > a.rev THEN b ELSE a}
  ELSE {IF b.n > a.n THEN b ELSE a}

\* httpsSigner: HTTPS alone never introduces a signer.
Signer == IF site.key # None THEN site.key ELSE deleg
\* resolveIPNSAuthority: a failed DNS lookup falls back on the admitted delegation.
Names == IF site.dns = None THEN {site.key} ELSE {dns, deleg} \ {None}

\* The fetched bytes are a document: its coverage is an unsigned number or left out.
Decodes(d) == d.fin \in Nat \cup {None}

\* resolveHTTPS and resolveIPNS: any document or record that was ever out may answer, or
\* none; a record below its name's floor is a replay.
WebAnswers == {None} \cup (IF site.https THEN {d \in docs : d.auth = Signer /\ Decodes(d)} ELSE {})
NamedAnswers == {None} \cup {r \in recs : r.name \in Names /\ r.seq >= seq[r.name] /\ Decodes(r.doc)}

\* The documents of the two answers, and the fresh ones of a set.
Web(d) == {d} \ {None}
Named(r) == {x.doc : x \in {r} \ {None}}
FreshOf(S) == {x \in S : Freshness(x) = "fresh"}

\* resolve's merge of the two answers: both fresh, or the one that is.
Best(d, r) ==
  IF FreshOf(Web(d)) # {} /\ FreshOf(Named(r)) # {} THEN Fresher(d, r.doc)
  ELSE FreshOf(Web(d)) \cup FreshOf(Named(r))
Equivocates(d, r) ==
  \/ \E x \in Web(d) \cup Named(r) : Freshness(x) = "equivocal"
  \/ FreshOf(Web(d)) # {} /\ FreshOf(Named(r)) # {} /\ Best(d, r) = {}
Candidate(d, r) == IF Equivocates(d, r) \/ Best(d, r) = {} THEN None ELSE CHOOSE x \in Best(d, r) : TRUE

\* resolve: outside the lock, against the floors of the moment.
Resolve(p) ==
  /\ up = "on" /\ poll[p].pc = "idle"
  /\ \E d \in WebAnswers, r \in NamedAnswers : \E doc \in {Candidate(d, r)}, eq \in {Equivocates(d, r)} :
       /\ doc # None \/ r # None \/ eq
       /\ poll' = [poll EXCEPT ![p] =
            [pc |-> "resolved", doc |-> doc, obs |-> r, eq |-> eq, tok |-> 0,
             via |-> IF doc = None THEN None ELSE IF doc = d THEN "https" ELSE "ipns"]]
  /\ Calm /\ UNCHANGED <<durVars, headVars, storeVars, ctlVars, runVars, dns, up>>

-----------------------------------------------------------------------------
\* Admission, under the transition lock.

Locked == \E p \in site.pollers : poll[p].pc \notin {"idle", "resolved"}
Leave(p) == poll' = [poll EXCEPT ![p] = IdlePoll]

\* checkpointMatchesDocument of a head that is being served: nothing to load or write.
Matches(d, h) ==
  /\ cp[h].sel /\ cp[h].line = Line(d, h)
  /\ IF d.rev > 0 THEN cp[h].doc = d ELSE cp[h].doc.rev = 0
Plans(d) == {h \in site.heads : Covered(d, h) /\ ~(adopted[h] = Line(d, h) /\ Matches(d, h))}

\* preflightEntry and preflightWithdrawal: a quarantined head, or finalized coverage
\* below what was once accepted; empty is below everything.
RefusedHead(d, h, q) ==
  \/ h \in q /\ (Covered(d, h) \/ (d.rev = 0 /\ Line(d, h) # None))
  \/ h = "fin" /\ d.fin # None /\ cp[h].line # None
       /\ d.fin < cp[h].line /\ (d.fin > 0 \/ d.rev > 0)

\* One head's refusal refuses the document.
Refused(d, q) == \E h \in site.heads : RefusedHead(d, h, q)

\* Slip: the sequence checked while resolving is not checked again.
NotReplayed(s) == FALSE

\* A record that a newer poll has raised the floor past.
Replayed(s) == s.obs # None /\ s.obs.seq < seq[s.obs.name]

\* setIPNSSeq
Raise(r) == [seq EXCEPT ![r.name] = IF r.seq > @ THEN r.seq ELSE @]

\* load: a root's whole index is read through the fetching store before anything changes.
Load(roots) == IF site.gc THEN Obtain({Index(r) : r \in roots}) ELSE UNCHANGED <<have, col>>

\* The channel's floor rises from whatever authenticated; then the document is judged
\* once more and preflighted; its roots are fetched here.
Admit(p) ==
  /\ poll[p].pc = "resolved" /\ ~Locked
  /\ \E s \in {poll[p]} :
       LET judged == IF s.doc = None \/ (Replayed(s) /\ s.via = "ipns") THEN "none" ELSE Freshness(s.doc)
           q == IF s.eq \/ judged = "equivocal" THEN quar \cup Mutables ELSE quar
           refused == judged = "fresh" => Refused(s.doc, q)
       IN /\ seq' = IF s.obs = None \/ Replayed(s) THEN seq ELSE Raise(s.obs)
          /\ quar' = q
          /\ \/ refused /\ Leave(p) /\ Calm /\ UNCHANGED <<have, col>>
             \/ ~refused /\ Plans(s.doc) # {} /\ Fault("fetch") /\ Leave(p) /\ UNCHANGED <<have, col>>
             \/ /\ ~refused /\ Calm
                /\ poll' = [poll EXCEPT ![p].pc = IF site.external THEN "prepare" ELSE IF site.gc THEN "protect" ELSE "commit"]
                /\ Load({Line(s.doc, h) : h \in Plans(s.doc)})
  /\ UNCHANGED <<cp, floor, at, deleg, adopted, fetched, memo, walk, ctlVars, runVars, dns, up>>

\* protectAdoptionClosure: between collections the generation is proof enough; during
\* one the closure is walked into the epoch, again if a new cut came.
Protect(p) ==
  /\ poll[p].pc = "protect"
  /\ LET began == [poll[p] EXCEPT !.tok = col.gen]
     IN poll' = [poll EXCEPT ![p] = [began EXCEPT !.pc = IF Active /\ Plans(began.doc) # {} THEN "walk" ELSE "commit"]]
  /\ Calm /\ UNCHANGED <<durVars, headVars, storeVars, ctlVars, runVars, dns, up>>

ProtectWalk(p) ==
  /\ poll[p].pc = "walk"
  /\ \E roots \in {{Line(poll[p].doc, h) : h \in Plans(poll[p].doc)}} :
       \/ /\ Obtain(UNION {Closure(r) : r \in roots}) /\ memo' = Protected(memo, roots, poll[p].tok)
          /\ poll' = [poll EXCEPT ![p].pc = "proof"] /\ Calm
       \/ Fault("fetch") /\ Leave(p) /\ UNCHANGED <<have, col, memo>>
  /\ UNCHANGED <<durVars, headVars, walk, ctlVars, runVars, dns, up>>

ProtectProof(p) ==
  /\ poll[p].pc = "proof"
  /\ poll' = [poll EXCEPT ![p].pc = IF col.gen = poll[p].tok THEN "commit" ELSE "protect"]
  /\ Calm /\ UNCHANGED <<durVars, headVars, storeVars, ctlVars, runVars, dns, up>>

\* retentionGeneration: everything that will be served after this document.
Generation(d) ==
  [n |-> d.n, heads |-> {<<h, Line(d, h)>> : h \in {h \in site.heads : Covered(d, h)}}
                        \cup {<<h, cp[h].line>> : h \in {h \in site.heads :
                                d.rev = 0 /\ ~Covered(d, h) /\ cp[h].sel}}]

Prepare(p) ==
  /\ poll[p].pc = "prepare" /\ rc.pc = "idle"
  /\ Begin("prepare", Generation(poll[p].doc)) /\ poll' = [poll EXCEPT ![p].pc = "preparing"]
  /\ Calm /\ UNCHANGED <<durVars, headVars, storeVars, runVars, dns, up>>

Prepared(p) ==
  /\ poll[p].pc = "preparing" /\ rc.pc = "end"
  /\ IF rc.ok THEN poll' = [poll EXCEPT ![p].pc = "commit"] ELSE Leave(p)
  /\ rc' = IdleOp /\ Calm /\ UNCHANGED <<durVars, headVars, storeVars, led, pins, runVars, dns, up>>

\* Slip: a withdrawal forgets what the head had reached.
TombstoneBare(d, h) == [doc |-> d, sel |-> FALSE, line |-> None]

\* preflightWithdrawal: the last accepted line stays as the baseline of a return.
Tombstone(d, h) == [doc |-> d, sel |-> FALSE, line |-> cp[h].line]

\* Slip: only the heads whose lines change are written again.
CheckpointChanged(d, h) ==
  IF Covered(d, h) THEN IF cp[h].sel /\ cp[h].line = Line(d, h) THEN cp[h]
                        ELSE [doc |-> d, sel |-> TRUE, line |-> Line(d, h)]
  ELSE IF d.rev > 0 THEN Tombstone(d, h) ELSE cp[h]

\* A revisioned document is about every followed head; a legacy one only about those
\* it lists.
Checkpoint(d, h) ==
  IF Covered(d, h) THEN IF Matches(d, h) THEN cp[h] ELSE [doc |-> d, sel |-> TRUE, line |-> Line(d, h)]
  ELSE IF d.rev > 0 THEN Tombstone(d, h) ELSE cp[h]

\* stageCheckpoint of every head and stageAuthorityFloor, in the one batch.
StageCheckpoints(d) == cp' = [h \in Kinds |-> IF h \in site.heads THEN Checkpoint(d, h) ELSE NoCheckpoint]
StageAuthorityFloor(d) == floor' = IF d.rev > 0 THEN [floor EXCEPT ![d.auth] = d] ELSE floor

\* stageAdmission: the floors of a document's authority, or of legacy dates, and the
\* delegation it was admitted under.
StageAdmission(d, via) ==
  /\ StageAuthorityFloor(d)
  /\ at' = IF d.rev = 0 /\ d.n > at THEN d.n ELSE at
  /\ deleg' = IF via = "ipns" /\ site.dns # None THEN d.auth ELSE deleg

\* touchGeneration: the anchors are read once more, into the epoch if one is active.
TouchGeneration(anchors) == col' = IF site.gc THEN Touched(col, anchors) ELSE col

\* commitPlans up to the one Pebble batch, under the collector's gate.
Commit(p) ==
  /\ poll[p].pc = "commit" /\ UNCHANGED <<seq, headVars, have, memo, walk, ctlVars, runVars, dns, up>> /\ Calm
  /\ \E d \in {poll[p].doc} : \E anchors \in {{Index(Line(d, h)) : h \in Plans(d)}} :
       IF site.gc /\ anchors # {} /\ (poll[p].tok # col.gen \/ ~(anchors \subseteq have))
       THEN Leave(p) /\ UNCHANGED <<cp, floor, at, deleg, col>>
       ELSE /\ StageCheckpoints(d)
            /\ StageAdmission(d, poll[p].via)
            /\ TouchGeneration(anchors)
            /\ poll' = [poll EXCEPT ![p].pc = "install"]

\* Slip: only what the document lists changes.
ServeListed(d, h) == IF Covered(d, h) THEN Line(d, h) ELSE adopted[h]

\* What is served once the document is.
Serve(d, h) == IF Covered(d, h) THEN Line(d, h) ELSE IF d.rev > 0 THEN None ELSE adopted[h]

\* AdoptBatch: the durable generation becomes the visible one, in one step.
Install(p) ==
  /\ poll[p].pc = "install"
  /\ \E new \in {[h \in Kinds |-> IF h \in site.heads THEN Serve(poll[p].doc, h) ELSE None]} :
       /\ adopted' = new
       /\ fetched' = [h \in Kinds |-> IF new[h] = None THEN None ELSE Installed(h, new[h])]
  /\ IF site.external THEN poll' = [poll EXCEPT ![p].pc = "barrier"] ELSE Leave(p)
  /\ Calm /\ UNCHANGED <<durVars, quar, storeVars, ctlVars, runVars, dns, up>>

Retire(p) ==
  /\ poll[p].pc = "barrier" /\ Drained /\ rc.pc = "idle"
  /\ Begin("commit", Generation(poll[p].doc)) /\ poll' = [poll EXCEPT ![p].pc = "committing"]
  /\ Calm /\ UNCHANGED <<durVars, headVars, storeVars, runVars, dns, up>>

\* observedRetention.Commit: activation follows a failed promotion too.
Retired(p) ==
  /\ poll[p].pc = "committing" /\ rc.pc = "end" /\ rc' = IdleOp /\ Activate(rc.gen) /\ Leave(p)
  /\ UNCHANGED <<durVars, headVars, storeVars, led, pins, lease, dns, up>>

\* No generation is between its durable commit and its publication.
Settled == \A p \in site.pollers : poll[p].pc # "install"

PollStep ==
  \E p \in site.pollers :
    \/ Resolve(p) \/ Admit(p) \/ Protect(p) \/ ProtectWalk(p) \/ ProtectProof(p)
    \/ Prepare(p) \/ Prepared(p) \/ Commit(p) \/ Install(p) \/ Retire(p) \/ Retired(p)

-----------------------------------------------------------------------------
\* Restart.

Start ==
  /\ up = "down" /\ Calm
  /\ IF site.external THEN Begin("recover", None) /\ up' = "recovering" ELSE up' = "resume" /\ UNCHANGED ctlVars
  /\ UNCHANGED <<durVars, headVars, storeVars, runVars, dns, poll>>

Recovered ==
  /\ up = "recovering" /\ rc.pc = "end" /\ rc' = IdleOp /\ up' = (IF rc.ok THEN "resume" ELSE "down")
  /\ Calm /\ UNCHANGED <<durVars, headVars, storeVars, led, pins, runVars, dns, poll>>

Selected == {h \in site.heads : cp[h].sel}
Revised == \E h \in site.heads : cp[h].doc # None /\ cp[h].doc.rev > 0
\* A legacy document is judged by its own authority's floor alone (freshnessRefusal), so
\* a rotation can leave one beside a revisioned one.
Mixed == Revised /\ \E h \in site.heads : cp[h].doc # None /\ cp[h].doc.rev = 0
\* resumeDocumentCheckpoint: every followed head, one document, exactly the floor of
\* the authority this follower trusts, and a handoff that is the selected line.
Whole ==
  \E d \in docs :
    /\ \A h \in site.heads : cp[h].doc = d
    /\ floor[d.auth] = d /\ d.auth = Signer
    /\ site.heads = Kinds /\ "mut" \in Selected => "fin" \in Selected /\ cp["fin"].line = d.fin

\* The checkpointed roots are loaded, their indexes read, and all are served at once.
Reloads(S) ==
  /\ adopted' = [h \in Kinds |-> IF h \in S THEN cp[h].line ELSE None]
  /\ fetched' = [h \in Kinds |-> IF h \in S THEN Installed(h, cp[h].line) ELSE None]
  /\ Load({cp[h].line : h \in S})

\* Resume, under the lock and before anything is served.
Resume ==
  /\ up = "resume" /\ up' = "on"
  /\ LET roots == {<<h, cp[h].line>> : h \in Selected}
         asked == site.external /\ (Revised \/ roots # {})
         guarded == IF led.cur \in Protecting(roots) THEN led.cur.gen ELSE led.pend.gen
         sound == (Revised => Whole) /\ (asked => ProtectsAll(roots))
         active == IF asked THEN SetActive([active |-> guarded, ok |-> TRUE, by |-> guarded])
                   ELSE UNCHANGED <<health, audit>>
     IN \/ sound /\ Calm /\ active /\ Reloads(Selected)
        \/ sound /\ Selected # {} /\ Fault("fetch") /\ active /\ Reloads({})
        \/ /\ Reloads({}) /\ IF asked THEN ClearActive ELSE UNCHANGED <<health, audit>>
           /\ (~sound /\ Calm) \/ (asked /\ Fault("kubo"))
  /\ UNCHANGED <<durVars, quar, memo, walk, ctlVars, lease, dns, poll>>

Crash ==
  /\ up # "down" /\ Fault("reader") /\ up' = "down"
  /\ poll' = [p \in site.pollers |-> IdlePoll] /\ adopted' = [h \in Kinds |-> None]
  /\ fetched' = [h \in Kinds |-> None] /\ quar' = {} /\ memo' = EmptyMemo /\ walk' = IdleWalk
  /\ col' = IdleCol(col.gen) /\ rc' = IdleOp /\ health' = NoHealth /\ audit' = IdleAudit /\ lease' = None
  /\ UNCHANGED <<durVars, have, led, pins, dns>>
================================================================================
