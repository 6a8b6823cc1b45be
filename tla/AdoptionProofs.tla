----------------------------- MODULE AdoptionProofs ----------------------------
(***************************************************************************)
(* How a node adopts, serves, keeps and hands over a followed head: the    *)
(* invariants of the follower, its collector, its sync worker and its      *)
(* promotion, and of a replica's ledger, health gate and gateway requests, *)
(* along the steps of each.  FollowerProofs has the steps of the whole and *)
(* what follows.                                                           *)
(***************************************************************************)
EXTENDS WriterPromotion, TLAPS

\* A poll is a record of these fields; its document, if it has one, decoded.
IsPoll(s) ==
  /\ s = [pc |-> s.pc, doc |-> s.doc, via |-> s.via, obs |-> s.obs, eq |-> s.eq, tok |-> s.tok]
  /\ s.doc = None \/ Decodes(s.doc)

Typed ==
  /\ DOMAIN poll = site.pollers /\ poll = [p \in site.pollers |-> poll[p]]
  /\ \A p \in site.pollers : IsPoll(poll[p])
  /\ DOMAIN cp = Kinds /\ cp["fin"].line \in Nat \cup {None}
  /\ "fin" \notin site.heads => cp["fin"] = NoCheckpoint

\* The poll holds the transition lock.
Holds(s) == s.pc \notin {"idle", "resolved"}

\* One poll at a time is past the lock, and only in a follower that is up.
Exclusive ==
  /\ \A p, q \in site.pollers : Holds(poll[p]) /\ Holds(poll[q]) => p = q
  /\ up # "on" \/ role # "follow" => \A p \in site.pollers : poll[p].pc = "idle"
  /\ up = "opening" => role = "write"

\* The document extends the finalized coverage, or is not about it.
Ahead(d) ==
  /\ d # None
  /\ cp["fin"].line # None /\ d.fin \notin {None, 0} => d.fin >= cp["fin"].line

\* Between the preflight and the commit of a document nothing moves the coverage that
\* it was compared with.
Preflighted ==
  \A p \in site.pollers :
    poll[p].pc \in {"prepare", "preparing", "protect", "walk", "proof", "commit"} => Ahead(poll[p].doc)

IInv == Typed /\ Exclusive /\ Preflighted

\* What CoverageStays says of one step.
Onward ==
  cp["fin"].line # None /\ cp'["fin"] # cp["fin"] =>
    \E reached \in {IF role = "write" THEN mirror' ELSE cp'["fin"].line} :
      reached # None /\ reached >= cp["fin"].line

-----------------------------------------------------------------------------
\* A poll that is not idle is a running follower's.
LEMMA Running ==
  ASSUME IInv, NEW p \in site.pollers, poll[p].pc # "idle"
  PROVE  up = "on" /\ role = "follow"
BY Zenon DEF IInv, Exclusive

\* A poll may move on if it holds the lock already or takes a free one, and goes past
\* the preflight only with a document that is ahead.
LEMMA MovesOn ==
  ASSUME IInv, UNCHANGED <<site, cp, up, role>>, up = "on", role = "follow",
         NEW p \in site.pollers, NEW x, IsPoll(x), poll' = [poll EXCEPT ![p] = x],
         Holds(x) => Holds(poll[p]) \/ ~Locked,
         x.pc \in {"prepare", "preparing", "protect", "walk", "proof", "commit"} => Ahead(x.doc)
  PROVE  IInv'
<1> USE DEF IInv
<1>1. \A q \in site.pollers : poll'[q] = IF q = p THEN x ELSE poll[q]
  BY Zenon DEF Typed
<1>2. Typed'
  <2>1. DOMAIN poll' = site.pollers /\ poll' = [q \in site.pollers |-> poll'[q]]
    BY Zenon DEF Typed
  <2>2. \A q \in site.pollers : IsPoll(poll'[q])
    BY Zenon, <1>1 DEF Typed
  <2> QED BY Zenon, <2>1, <2>2 DEF Typed, IsPoll, Decodes
<1>3. Exclusive'
  <2>1. \A q \in site.pollers : q # p /\ Holds(poll[q]) => Locked
    BY Zenon DEF Holds, Locked
  <2>2. \A q \in site.pollers : q # p => ~(Holds(x) /\ Holds(poll[q]))
    BY Zenon, <2>1 DEF Exclusive
  <2>3. \A q, r \in site.pollers : Holds(poll'[q]) /\ Holds(poll'[r]) => q = r
    BY <1>1, <2>2 DEF Exclusive
  <2> QED BY Zenon, <2>3 DEF Exclusive, Holds
<1>4. Preflighted'
  BY Zenon, <1>1 DEF Preflighted, Ahead
<1> QED BY Zenon, <1>2, <1>3, <1>4

\* A poll that changes only its place.
LEMMA GoesTo ==
  ASSUME IInv, UNCHANGED <<site, cp, up, role>>,
         NEW p \in site.pollers, Holds(poll[p]), NEW v, poll' = [poll EXCEPT ![p].pc = v],
         v \in {"prepare", "preparing", "protect", "walk", "proof", "commit"} => Ahead(poll[p].doc)
  PROVE  IInv'
<1> DEFINE x == [poll[p] EXCEPT !.pc = v]
<1>1. up = "on" /\ role = "follow" BY Zenon, Running DEF Holds
<1>2. IsPoll(poll[p]) BY Zenon DEF IInv, Typed
<1>3. x.pc = v /\ x.doc = poll[p].doc /\ IsPoll(x) BY <1>2 DEF IsPoll
<1>4. poll' = [poll EXCEPT ![p] = x] BY Zenon
<1> HIDE DEF x
<1> QED BY Zenon, <1>1, <1>3, <1>4, MovesOn

\* A poll that ends.
LEMMA Leaves ==
  ASSUME IInv, UNCHANGED <<site, cp, up, role>>, NEW p \in site.pollers, poll[p].pc # "idle", Leave(p)
  PROVE  IInv'
<1>1. up = "on" /\ role = "follow" BY Zenon, Running
<1>2. IsPoll(IdlePoll) /\ IdlePoll.pc = "idle" /\ ~Holds(IdlePoll) BY Zenon DEF IsPoll, IdlePoll, Holds
<1>3. poll' = [poll EXCEPT ![p] = IdlePoll] BY Zenon DEF Leave
<1> QED BY Zenon, <1>1, <1>2, <1>3, MovesOn

-----------------------------------------------------------------------------
\* Of two answers the fresher is one of the two.
LEMMA FresherIsOne ==
  ASSUME NEW a, NEW b
  PROVE  Fresher(a, b) \subseteq {a, b}
BY Zenon DEF Fresher

\* Resolve keeps the inductive invariant: what it hands on decoded.
LEMMA KeepsResolve ==
  ASSUME IInv, UNCHANGED <<site, role>>, role = "follow", NEW p \in site.pollers, Resolve(p)
  PROVE  IInv' /\ cp' = cp
<1>0. UNCHANGED <<cp, up>> /\ up = "on" BY Zenon DEF Resolve, durVars
<1>1. PICK d \in WebAnswers, r \in NamedAnswers : \E doc \in {Candidate(d, r)}, eq \in {Equivocates(d, r)} :
        poll' = [poll EXCEPT ![p] =
          [pc |-> "resolved", doc |-> doc, obs |-> r, eq |-> eq, tok |-> 0,
           via |-> IF doc = None THEN None ELSE IF doc = d THEN "https" ELSE "ipns"]]
  BY Zenon DEF Resolve
<1>2. PICK eq, via :
        poll' = [poll EXCEPT ![p] = [pc |-> "resolved", doc |-> Candidate(d, r), obs |-> r, eq |-> eq, tok |-> 0, via |-> via]]
  BY Zenon, <1>1
<1>3. Candidate(d, r) = None \/ Decodes(Candidate(d, r))
  <2>1. Best(d, r) \subseteq Web(d) \cup Named(r)
    <3>1. CASE FreshOf(Web(d)) # {} /\ FreshOf(Named(r)) # {}
      <4>1. d \in Web(d) /\ r.doc \in Named(r) BY Zenon, <3>1 DEF FreshOf, Web, Named
      <4> QED BY <3>1, <4>1, FresherIsOne DEF Best
    <3> QED BY Zenon, <3>1 DEF Best, FreshOf
  <2>2. \A y \in Web(d) \cup Named(r) : Decodes(y) BY Zenon DEF WebAnswers, NamedAnswers, Web, Named
  <2>3. Best(d, r) # {} => (CHOOSE x \in Best(d, r) : TRUE) \in Best(d, r) BY Zenon
  <2> QED BY Zenon, <2>1, <2>2, <2>3 DEF Candidate
<1> DEFINE x == [pc |-> "resolved", doc |-> Candidate(d, r), obs |-> r, eq |-> eq, tok |-> 0, via |-> via]
<1>4. IsPoll(x) /\ ~Holds(x) /\ x.pc = "resolved" BY Zenon, <1>3 DEF IsPoll, Holds
<1>5. poll' = [poll EXCEPT ![p] = x] BY Zenon, <1>2
<1> HIDE DEF x
<1> QED BY Zenon, <1>0, <1>4, <1>5, MovesOn

\* A document that the preflight lets through is ahead.
LEMMA PreflightCompares ==
  ASSUME IInv, NEW d, d # None, Decodes(d), NEW q, ~Refused(d, q)
  PROVE  Ahead(d)
<1> SUFFICES ASSUME cp["fin"].line # None, d.fin \notin {None, 0}
             PROVE  d.fin >= cp["fin"].line
  BY Zenon DEF Ahead
<1>1. "fin" \in site.heads /\ cp["fin"].line \in Nat BY DEF IInv, Typed, NoCheckpoint
<1>2. d.fin \in Nat /\ d.fin > 0 BY DEF Decodes
<1>3. ~RefusedHead(d, "fin", q) BY Zenon, <1>1 DEF Refused
<1> QED BY <1>1, <1>2, <1>3 DEF RefusedHead

\* Admit keeps the inductive invariant: it takes the lock only when it is free.
LEMMA KeepsAdmit ==
  ASSUME IInv, UNCHANGED <<site, role>>, NEW p \in site.pollers, Admit(p)
  PROVE  IInv' /\ cp' = cp
<1>0. UNCHANGED <<cp, up>> /\ poll[p].pc = "resolved" /\ ~Locked BY Zenon DEF Admit
<1>1. up = "on" /\ role = "follow" BY Zenon, <1>0, Running
<1>2. \/ Leave(p)
      \/ /\ poll[p].doc # None /\ \E q : ~Refused(poll[p].doc, q)
         /\ \E v : poll' = [poll EXCEPT ![p].pc = v]
  BY Zenon DEF Admit
<1>3. CASE Leave(p) BY Zenon, <1>0, <1>3, Leaves
<1>4. ASSUME poll[p].doc # None, NEW q, ~Refused(poll[p].doc, q), NEW v, poll' = [poll EXCEPT ![p].pc = v]
      PROVE  IInv'
  <2> DEFINE x == [poll[p] EXCEPT !.pc = v]
  <2>1. IsPoll(poll[p]) BY Zenon DEF IInv, Typed
  <2>2. Ahead(poll[p].doc) BY Zenon, <1>4, <2>1, PreflightCompares DEF IsPoll
  <2>3. x.pc = v /\ x.doc = poll[p].doc /\ IsPoll(x) BY <2>1 DEF IsPoll
  <2>4. poll' = [poll EXCEPT ![p] = x] BY Zenon, <1>4
  <2> HIDE DEF x
  <2> QED BY Zenon, <1>0, <1>1, <2>2, <2>3, <2>4, MovesOn
<1> QED BY Zenon, <1>0, <1>2, <1>3, <1>4

\* The steps of a poll between its preflight and its commit keep it.
LEMMA KeepsProtection ==
  ASSUME IInv, UNCHANGED <<site, role>>, NEW p \in site.pollers,
         Protect(p) \/ ProtectWalk(p) \/ ProtectProof(p) \/ Prepare(p) \/ Prepared(p)
  PROVE  IInv' /\ cp' = cp
<1>0. UNCHANGED <<cp, up>> BY Zenon DEF Protect, ProtectWalk, ProtectProof, Prepare, Prepared, durVars
<1>1. poll[p].pc \in {"prepare", "preparing", "protect", "walk", "proof"}
  BY Zenon DEF Protect, ProtectWalk, ProtectProof, Prepare, Prepared
<1>2. Holds(poll[p]) /\ poll[p].pc # "idle" /\ Ahead(poll[p].doc) BY Zenon, <1>1 DEF Holds, IInv, Preflighted
<1>3. CASE Protect(p)
  <2>0. PICK v : poll' = [poll EXCEPT ![p] = [[poll[p] EXCEPT !.tok = col.gen] EXCEPT !.pc = v]] BY Zenon, <1>3 DEF Protect
  <2> DEFINE y == [poll[p] EXCEPT !.tok = col.gen]
             x == [y EXCEPT !.pc = v]
  <2>1. IsPoll(poll[p]) BY Zenon DEF IInv, Typed
  <2>2. y.doc = poll[p].doc /\ IsPoll(y) BY <2>1 DEF IsPoll
  <2>3. poll' = [poll EXCEPT ![p] = x] BY Zenon, <2>0
  <2> HIDE DEF y
  <2>5. x.doc = poll[p].doc /\ IsPoll(x) BY <2>2 DEF IsPoll
  <2>4. up = "on" /\ role = "follow" BY Zenon, <1>2, Running
  <2> HIDE DEF x
  <2> QED BY Zenon, <1>0, <1>2, <2>3, <2>4, <2>5, MovesOn
<1>4. CASE ProtectWalk(p)
  <2>1. Leave(p) \/ poll' = [poll EXCEPT ![p].pc = "proof"] BY Zenon, <1>4 DEF ProtectWalk
  <2> QED BY Zenon, <1>0, <1>2, <2>1, Leaves, GoesTo
<1>5. CASE ProtectProof(p)
  <2>1. PICK v : poll' = [poll EXCEPT ![p].pc = v] BY Zenon, <1>5 DEF ProtectProof
  <2> QED BY Zenon, <1>0, <1>2, <2>1, GoesTo
<1>6. CASE Prepare(p) BY Zenon, <1>0, <1>2, <1>6, GoesTo DEF Prepare
<1>7. CASE Prepared(p)
  <2>1. Leave(p) \/ poll' = [poll EXCEPT ![p].pc = "commit"] BY Zenon, <1>7 DEF Prepared
  <2> QED BY Zenon, <1>0, <1>2, <2>1, Leaves, GoesTo
<1> QED BY Zenon, <1>0, <1>3, <1>4, <1>5, <1>6, <1>7

\* The commit writes coverage that is no less, and keeps the inductive invariant.
LEMMA KeepsCommit ==
  ASSUME IInv, UNCHANGED <<site, role>>, NEW p \in site.pollers, Commit(p)
  PROVE  IInv' /\ Onward
<1>0. UNCHANGED up /\ poll[p].pc = "commit" BY Zenon DEF Commit
<1>1. Holds(poll[p]) /\ Ahead(poll[p].doc) /\ up = "on" /\ role = "follow"
  BY Zenon, <1>0, Running DEF Holds, IInv, Preflighted
<1>2. Typed /\ IsPoll(poll[p]) BY Zenon DEF IInv, Typed
<1> DEFINE d == poll[p].doc
<1>3. CASE Leave(p) /\ cp' = cp BY Zenon, <1>0, <1>3, Leaves DEF Onward
<1>4. CASE /\ cp' = [h \in Kinds |-> IF h \in site.heads THEN Checkpoint(d, h) ELSE NoCheckpoint]
           /\ poll' = [poll EXCEPT ![p].pc = "install"]
  <2>1. cp'["fin"] = IF "fin" \in site.heads THEN Checkpoint(d, "fin") ELSE NoCheckpoint
    BY Zenon, <1>4 DEF Kinds
  <2>2. d # None /\ d.fin \in Nat \cup {None} BY Zenon, <1>1, <1>2 DEF Ahead, IsPoll, Decodes
  <2>3. cp["fin"].line \in Nat \cup {None} BY Zenon, <1>2 DEF Typed
  <2>4. \/ cp'["fin"] = cp["fin"]
        \/ "fin" \in site.heads /\ cp'["fin"] = [doc |-> d, sel |-> TRUE, line |-> d.fin] /\ d.fin \notin {None, 0}
        \/ "fin" \in site.heads /\ cp'["fin"] = [doc |-> d, sel |-> FALSE, line |-> cp["fin"].line]
    BY Zenon, <1>2, <2>1 DEF Checkpoint, Tombstone, Covered, Line, Typed
  <2>5. cp'["fin"].line \in Nat \cup {None} BY <2>2, <2>3, <2>4
  <2>6. "fin" \notin site.heads => cp'["fin"] = NoCheckpoint BY Zenon, <2>1
  <2>7. Onward
    <3> SUFFICES ASSUME cp["fin"].line # None, cp'["fin"] # cp["fin"]
                 PROVE  cp'["fin"].line # None /\ cp'["fin"].line >= cp["fin"].line
      BY Zenon, <1>1 DEF Onward
    <3>1. cp["fin"].line \in Nat BY Zenon, <2>3
    <3>2. d.fin \notin {None, 0} => d.fin >= cp["fin"].line BY Zenon, <1>1 DEF Ahead
    <3> QED BY <2>2, <2>4, <3>1, <3>2
  <2>8. DOMAIN cp' = Kinds BY Zenon, <1>4
  <2> DEFINE x == [poll[p] EXCEPT !.pc = "install"]
  <2>9. IsPoll(x) /\ x.pc = "install" BY <1>2 DEF IsPoll
  <2>10. poll' = [poll EXCEPT ![p] = x] BY Zenon, <1>4
  <2> HIDE DEF x, d
  <2>11. \A q \in site.pollers : poll'[q] = IF q = p THEN x ELSE poll[q] BY Zenon, <1>2, <2>10 DEF Typed
  <2>12. Typed'
    <3>1. DOMAIN poll' = site.pollers /\ poll' = [q \in site.pollers |-> poll'[q]]
      BY Zenon, <1>2, <2>10 DEF Typed
    <3>2. \A q \in site.pollers : IsPoll(poll'[q])
      BY Zenon, <1>2, <2>9, <2>11 DEF Typed
    <3> QED BY Zenon, <2>5, <2>6, <2>8, <3>1, <3>2 DEF Typed, IsPoll, Decodes
  <2>13. \A q \in site.pollers : q # p => ~Holds(poll[q]) BY Zenon, <1>1 DEF IInv, Exclusive
  <2>14. Exclusive'
    <3>1. \A q, r \in site.pollers : Holds(poll'[q]) /\ Holds(poll'[r]) => q = r BY Zenon, <2>11, <2>13
    <3> QED BY Zenon, <1>0, <1>1, <3>1 DEF Exclusive, Holds
  <2>15. Preflighted' BY Zenon, <2>9, <2>11, <2>13 DEF Preflighted, Holds
  <2> QED BY Zenon, <2>7, <2>12, <2>14, <2>15 DEF IInv
<1> QED BY Zenon, <1>3, <1>4 DEF Commit, StageCheckpoints

\* After the commit the poll only ends.
LEMMA KeepsInstall ==
  ASSUME IInv, UNCHANGED <<site, role>>, NEW p \in site.pollers, Install(p) \/ Retire(p) \/ Retired(p)
  PROVE  IInv' /\ cp' = cp
<1>0. UNCHANGED <<cp, up>> BY Zenon DEF Install, Retire, Retired, durVars
<1>1. Holds(poll[p]) /\ poll[p].pc # "idle" BY Zenon DEF Install, Retire, Retired, Holds
<1>2. Leave(p) \/ poll' = [poll EXCEPT ![p].pc = "barrier"] \/ poll' = [poll EXCEPT ![p].pc = "committing"]
  BY Zenon DEF Install, Retire, Retired
<1> QED BY Zenon, <1>0, <1>1, <1>2, Leaves, GoesTo

\* A start, a resume or a crash finds or leaves every poll idle.
LEMMA KeepsProcess ==
  ASSUME IInv, UNCHANGED <<site, role, cp>>, (role = "follow" /\ Start) \/ Recovered \/ Resume \/ Crash
  PROVE  IInv'
<1>1. CASE Crash
  <2>1. poll' = [p \in site.pollers |-> IdlePoll] /\ up' = "down" BY Zenon, <1>1 DEF Crash
  <2>2. IsPoll(IdlePoll) /\ IdlePoll.pc = "idle" BY Zenon DEF IsPoll, IdlePoll
  <2>3. \A q \in site.pollers : poll'[q] = IdlePoll BY Zenon, <2>1
  <2>4. Typed' BY Zenon, <2>1, <2>2, <2>3 DEF IInv, Typed, IsPoll, Decodes
  <2> QED BY Zenon, <2>1, <2>2, <2>3, <2>4 DEF IInv, Exclusive, Preflighted, Holds
<1>2. CASE Start \/ Recovered \/ Resume
  <2>1. UNCHANGED poll /\ up' # "opening" BY Zenon, <1>2 DEF Start, Recovered, Resume
  <2>2. up # "on" BY Zenon, <1>2 DEF Start, Recovered, Resume
  <2>3. \A p \in site.pollers : poll[p].pc = "idle" BY Zenon, <2>2 DEF IInv, Exclusive
  <2>4. Typed' BY Zenon, <2>1 DEF IInv, Typed, IsPoll, Decodes
  <2> QED BY Zenon, <2>1, <2>3, <2>4 DEF IInv, Exclusive, Preflighted, Holds
<1> QED BY Zenon, <1>1, <1>2

\* A promotion hands the coverage to the mirror, and keeps the inductive invariant.
LEMMA KeepsPromotion ==
  ASSUME IInv, UNCHANGED site, PromotionStep
  PROVE  IInv' /\ Onward
<1>0. UNCHANGED poll BY Zenon DEF PromotionStep
<1>1. CASE ReconcilePromotion
  <2>1. role = "write" /\ UNCHANGED role /\ up' = "opening" BY Zenon, <1>1 DEF ReconcilePromotion
  <2>2. \A p \in site.pollers : poll[p].pc = "idle" BY Zenon, <2>1 DEF IInv, Exclusive
  <2>3. \/ cp' = cp
        \/ mirror' = cp["fin"].line /\ cp' = [cp EXCEPT !["fin"] = NoCheckpoint]
    BY Zenon, <1>1 DEF ReconcilePromotion, CheckpointRetired
  <2>4. DOMAIN cp' = Kinds /\ (cp'["fin"] = NoCheckpoint \/ cp' = cp) BY Zenon, <2>3 DEF IInv, Typed, Kinds
  <2>5. Typed' BY <1>0, <2>4 DEF IInv, Typed, IsPoll, Decodes, NoCheckpoint
  <2>6. Onward
    <3>1. cp["fin"].line \in Nat \cup {None} BY Zenon DEF IInv, Typed
    <3> QED BY <2>1, <2>3, <3>1 DEF Onward
  <2> QED BY Zenon, <1>0, <2>1, <2>2, <2>5, <2>6 DEF IInv, Exclusive, Preflighted, Holds
<1>2. CASE Reassign \/ OpenHead \/ WriterAppends \/ Shutdown
  <2>1. UNCHANGED cp BY Zenon, <1>2 DEF Reassign, OpenHead, WriterAppends, Shutdown
  <2>2. up # "on" \/ role # "follow" BY Zenon, <1>2 DEF Reassign, OpenHead, WriterAppends, Shutdown
  <2>3. \A p \in site.pollers : poll[p].pc = "idle" BY Zenon, <2>2 DEF IInv, Exclusive
  <2>4. up' = "opening" => role' = "write" BY Zenon, <1>2 DEF IInv, Exclusive, Reassign, OpenHead, WriterAppends, Shutdown
  <2>5. Typed' BY Zenon, <1>0, <2>1 DEF IInv, Typed, IsPoll, Decodes
  <2> QED BY Zenon, <1>0, <2>1, <2>3, <2>4, <2>5 DEF IInv, Exclusive, Preflighted, Holds, Onward
<1> QED BY Zenon, <1>1, <1>2 DEF PromotionStep

-----------------------------------------------------------------------------
\* What is served, recorded and held.

\* The sequence floors are numbers; a poll that goes by a record is not below its floor.
Authentic(s) ==
  /\ s.obs # None => s.obs.name \in site.signers /\ s.obs.seq \in Nat
  /\ s.via = "ipns" /\ s.doc # None => s.obs # None
  /\ s.via = "ipns" /\ Holds(s) => s.obs # None /\ s.obs.seq >= seq[s.obs.name]
Authenticated ==
  /\ seq = [a \in site.signers |-> seq[a]] /\ \A a \in site.signers : seq[a] \in Nat
  /\ \A p \in site.pollers : Authentic(poll[p])

\* A restart would serve it.
Recorded(h, r) == r # None => cp[h].sel /\ cp[h].line = r

\* Nothing is served by a process that is not on; a writer serves its mirror; a follower
\* what is recorded, and what it is about to serve is recorded before.
Serving ==
  /\ DOMAIN adopted = Kinds /\ site.heads \subseteq Kinds
  /\ up # "on" => \A h \in Kinds : adopted[h] = None
  /\ role = "write" => up \in {"down", "opening", "on"} /\ adopted["mut"] = None
  /\ role = "write" /\ up = "on" => adopted["fin"] = mirror /\ mirror \in Nat
  /\ role # "write" /\ Settled => \A h \in site.heads : Recorded(h, adopted[h])
  /\ \A p \in site.pollers : poll[p].pc = "install" => \A h \in site.heads : Recorded(h, Serve(poll[p].doc, h))

\* The mirror goes with the checkpoint until the head is handed over.
Mirroring ==
  /\ mirror \in Nat \cup {None} /\ (role # "write" => role = "follow")
  /\ role # "write" \/ cp["fin"].doc # None => mirror = IF cp["fin"].sel THEN cp["fin"].line ELSE None
  /\ role = "write" /\ up \in {"opening", "on"} => cp["fin"].doc = None
  /\ cp["fin"].sel => cp["fin"].doc # None
  /\ role = "write" => site.promote
  /\ site.promote => "fin" \in site.heads

\* Blocks no running collection removes.
Guarded(B) == B \subseteq have /\ (Active => B \subseteq col.mark \cup col.touched)

\* The collector, and who joins its epoch.
Collecting ==
  /\ col = [gen |-> col.gen, stage |-> col.stage, mark |-> col.mark, touched |-> col.touched, scrub |-> col.scrub]
  /\ col.gen \in Nat /\ (up # "on" => ~Active)
  /\ col.scrub # None => ~Active /\ col.scrub \subseteq have
  /\ role = "write" /\ cp["fin"].doc = None /\ mirror # None => Guarded(Closure(mirror))

\* A walk within one collection generation has brought what it passed into the epoch.
Walking ==
  /\ walk = [pc |-> walk.pc, head |-> walk.head, root |-> walk.root, gen |-> walk.gen]
  /\ walk.gen \in Nat /\ walk.gen <= col.gen /\ (walk.pc # "idle" => walk.head \in site.heads)
  /\ walk.pc = "blob" /\ walk.gen = col.gen => Guarded({Index(walk.root)})
  /\ walk.pc = "stamp" /\ walk.gen = col.gen => Guarded(Closure(walk.root))
  /\ walk.pc = "stamp" /\ site.full => walk.root \notin Mislabelled
  /\ \A r \in DOMAIN memo :
       /\ memo[r] \in Nat /\ memo[r] <= col.gen
       /\ memo[r] = col.gen => Guarded(Closure(r))
       /\ site.full => r \notin Mislabelled

\* A completed head is held, and verified where that was asked for.
Fetching ==
  /\ DOMAIN fetched = Kinds /\ (site.external => ~site.gc /\ ~site.full)
  /\ up # "on" \/ role = "write" => walk.pc = "idle" /\ \A h \in Kinds : fetched[h] = None
  /\ site.gc => \A h \in site.heads : adopted[h] # None /\ fetched[h] = adopted[h] => Guarded(Closure(adopted[h]))
  /\ site.full => \A h \in Kinds : fetched[h] \notin Mislabelled

\* The steps of the process, the collector and the sync worker.
Restarts == (role = "follow" /\ Start) \/ Recovered \/ Resume \/ Crash
Collects == Mark(role = "follow") \/ Cut \/ SweepBlock \/ EndEpoch \/ ScrubBegin \/ ScrubEnd
Syncs == (\E h \in site.heads : SyncStart(h)) \/ SyncIndex \/ SyncBlob(~Locked) \/ SyncStamp \/ SyncFails

SInv == Authenticated /\ Serving /\ Mirroring /\ Collecting /\ Walking /\ Fetching

-----------------------------------------------------------------------------
\* Records.

\* A poll moves while the floors stand.
LEMMA AuthenticMoves ==
  ASSUME IInv, Authenticated, UNCHANGED <<site, seq>>, NEW p \in site.pollers, NEW x, poll' = [poll EXCEPT ![p] = x],
         Authentic(x)
  PROVE  Authenticated'
<1>1. \A q \in site.pollers : poll'[q] = IF q = p THEN x ELSE poll[q] BY Zenon DEF IInv, Typed
<1>2. ASSUME NEW q \in site.pollers, NEW s, s = poll'[q] PROVE Authentic(s)'
  BY Zenon, <1>1, <1>2 DEF Authenticated, Authentic, Holds
<1> QED BY Zenon, <1>2 DEF Authenticated

\* A poll that goes on or ends keeps its record.
LEMMA AuthenticGoes ==
  ASSUME IInv, Authenticated, UNCHANGED <<site, seq>>, NEW p \in site.pollers, Holds(poll[p]), NEW v, NEW t,
         \/ poll' = [poll EXCEPT ![p].pc = v]
         \/ poll' = [poll EXCEPT ![p] = [[poll[p] EXCEPT !.tok = t] EXCEPT !.pc = v]]
         \/ Leave(p)
  PROVE  Authenticated'
<1>1. IsPoll(poll[p]) /\ Authentic(poll[p]) BY Zenon DEF IInv, Typed, Authenticated
<1>2. CASE poll' = [poll EXCEPT ![p].pc = v]
  <2>1. PICK x : x = [poll[p] EXCEPT !.pc = v] BY Zenon
  <2>2. x.doc = poll[p].doc /\ x.via = poll[p].via /\ x.obs = poll[p].obs BY Zenon, <1>1, <2>1 DEF IsPoll
  <2>3. Authentic(x) BY Zenon, <1>1, <2>2 DEF Authentic
  <2> QED BY Zenon, <1>2, <2>1, <2>3, AuthenticMoves
<1>3. CASE poll' = [poll EXCEPT ![p] = [[poll[p] EXCEPT !.tok = t] EXCEPT !.pc = v]]
  <2>0. PICK y : y = [poll[p] EXCEPT !.tok = t] BY Zenon
  <2>4. IsPoll(y) /\ y.doc = poll[p].doc /\ y.via = poll[p].via /\ y.obs = poll[p].obs BY Zenon, <1>1, <2>0 DEF IsPoll
  <2>1. PICK x : x = [y EXCEPT !.pc = v] BY Zenon
  <2>2. x.doc = poll[p].doc /\ x.via = poll[p].via /\ x.obs = poll[p].obs BY Zenon, <2>1, <2>4 DEF IsPoll
  <2>3. Authentic(x) BY Zenon, <1>1, <2>2 DEF Authentic
  <2> QED BY Zenon, <1>3, <2>0, <2>1, <2>3, AuthenticMoves
<1>4. CASE Leave(p)
  <2>1. PICK x : x = IdlePoll BY Zenon
  <2>2. x.doc = None /\ x.obs = None /\ x.pc = "idle" BY Zenon, <2>1 DEF IdlePoll
  <2>3. Authentic(x) BY Zenon, <2>2 DEF Authentic, Holds
  <2> QED BY Zenon, <1>4, <2>1, <2>3, AuthenticMoves DEF Leave
<1> QED BY Zenon, <1>2, <1>3, <1>4

\* Resolve: a document that did not come over HTTPS came with a record.
LEMMA AuthenticResolve ==
  ASSUME IInv, Authenticated, UNCHANGED site, \A r \in recs : r.name \in site.signers /\ r.seq \in Nat,
         NEW p \in site.pollers, Resolve(p)
  PROVE  Authenticated'
<1>0. UNCHANGED seq BY Zenon DEF Resolve, durVars
<1>1. PICK d \in WebAnswers, r \in NamedAnswers : \E doc \in {Candidate(d, r)}, eq \in {Equivocates(d, r)} :
        poll' = [poll EXCEPT ![p] =
          [pc |-> "resolved", doc |-> doc, obs |-> r, eq |-> eq, tok |-> 0,
           via |-> IF doc = None THEN None ELSE IF doc = d THEN "https" ELSE "ipns"]]
  BY Zenon DEF Resolve
<1>2. PICK doc, eq, via :
        /\ doc = Candidate(d, r) /\ via = IF doc = None THEN None ELSE IF doc = d THEN "https" ELSE "ipns"
        /\ poll' = [poll EXCEPT ![p] = [pc |-> "resolved", doc |-> doc, obs |-> r, eq |-> eq, tok |-> 0, via |-> via]]
  BY Zenon, <1>1
<1>3. doc # None => doc \in Web(d) \cup Named(r)
  <2>1. Best(d, r) \subseteq Web(d) \cup Named(r)
    <3>1. CASE FreshOf(Web(d)) # {} /\ FreshOf(Named(r)) # {}
      <4>1. d \in Web(d) /\ r.doc \in Named(r) BY Zenon, <3>1 DEF FreshOf, Web, Named
      <4> QED BY <3>1, <4>1, FresherIsOne DEF Best
    <3> QED BY Zenon, <3>1 DEF Best, FreshOf
  <2>2. Best(d, r) # {} => (CHOOSE x \in Best(d, r) : TRUE) \in Best(d, r) BY Zenon
  <2> QED BY Zenon, <1>2, <2>1, <2>2 DEF Candidate
<1>4. via = "ipns" /\ doc # None => r # None BY Zenon, <1>2, <1>3 DEF Web, Named
<1>5. r # None => r.name \in site.signers /\ r.seq \in Nat BY Zenon DEF NamedAnswers
<1>6. PICK x : x = [pc |-> "resolved", doc |-> doc, obs |-> r, eq |-> eq, tok |-> 0, via |-> via] BY Zenon
<1>7. x.pc = "resolved" /\ x.doc = doc /\ x.obs = r /\ x.via = via BY Zenon, <1>6
<1>8. Authentic(x) BY Zenon, <1>4, <1>5, <1>7 DEF Authentic, Holds
<1> QED BY Zenon, <1>0, <1>2, <1>6, <1>8, AuthenticMoves

\* Admit: the floor rises to the record at most, under the lock that no other poll holds.
LEMMA AuthenticAdmit ==
  ASSUME IInv, Authenticated, UNCHANGED site, NEW p \in site.pollers, Admit(p)
  PROVE  Authenticated'
<1>1. PICK s : s = poll[p] BY Zenon
<1>2. /\ IsPoll(s) /\ Authentic(s) /\ s.pc = "resolved" /\ ~Locked /\ p \in DOMAIN poll
      /\ seq = [b \in site.signers |-> seq[b]] /\ \A a \in site.signers : seq[a] \in Nat
  BY Zenon, <1>1 DEF IInv, Typed, Authenticated, Admit
<1>3. seq' = IF s.obs = None \/ Replayed(s) THEN seq ELSE Raise(s.obs) BY Zenon, <1>1 DEF Admit
<1>4. \/ Leave(p)
      \/ s.doc # None /\ ~(Replayed(s) /\ s.via = "ipns") /\ \E v : poll' = [poll EXCEPT ![p].pc = v]
  BY Zenon, <1>1 DEF Admit
<1>5. /\ seq' = [b \in site.signers |-> seq'[b]] /\ \A a \in site.signers : seq'[a] \in Nat
      /\ s.obs # None /\ ~Replayed(s) => seq'[s.obs.name] = s.obs.seq
  <2>1. CASE s.obs = None \/ Replayed(s)
    <3>1. seq' = seq BY Zenon, <1>3, <2>1
    <3> QED BY Zenon, <1>2, <2>1, <3>1
  <2>2. CASE s.obs # None /\ ~Replayed(s)
    <3>1. PICK m : m = IF s.obs.seq > seq[s.obs.name] THEN s.obs.seq ELSE seq[s.obs.name] BY Zenon
    <3>2. s.obs.name \in site.signers /\ s.obs.seq \in Nat /\ s.obs.seq >= seq[s.obs.name] /\ seq[s.obs.name] \in Nat
      BY <1>2, <2>2 DEF Authentic, Replayed
    <3>3. m = s.obs.seq BY <3>1, <3>2
    <3>4. seq' = [seq EXCEPT ![s.obs.name] = m] BY Zenon, <1>3, <2>2, <3>1 DEF Raise
    <3> QED BY Zenon, <1>2, <3>2, <3>3, <3>4
  <2> QED BY Zenon, <2>1, <2>2
<1>6. PICK x :
        /\ poll' = [poll EXCEPT ![p] = x]
        /\ \/ x.doc = None /\ x.obs = None /\ ~Holds(x)
           \/ x.doc = s.doc /\ x.obs = s.obs /\ x.via = s.via /\ s.doc # None /\ ~(Replayed(s) /\ s.via = "ipns")
  <2>1. CASE Leave(p)
    <3>1. PICK x : x = IdlePoll BY Zenon
    <3>2. x.doc = None /\ x.obs = None /\ ~Holds(x) BY Zenon, <3>1 DEF IdlePoll, Holds
    <3> QED BY Zenon, <2>1, <3>1, <3>2 DEF Leave
  <2>2. ASSUME NEW v, poll' = [poll EXCEPT ![p].pc = v] PROVE \E x : /\ poll' = [poll EXCEPT ![p] = x]
                                                                     /\ x.doc = s.doc /\ x.obs = s.obs /\ x.via = s.via
    <3>1. PICK x : x = [s EXCEPT !.pc = v] BY Zenon
    <3>2. x.doc = s.doc /\ x.obs = s.obs /\ x.via = s.via BY Zenon, <1>2, <3>1 DEF IsPoll
    <3>3. poll' = [poll EXCEPT ![p] = x] BY Zenon, <1>1, <2>2, <3>1
    <3> QED BY Zenon, <3>2, <3>3
  <2> QED BY Zenon, <1>4, <2>1, <2>2
<1>7. \A q \in site.pollers : poll'[q] = IF q = p THEN x ELSE poll[q] BY Zenon, <1>6 DEF IInv, Typed
<1>8. x.via = "ipns" /\ Holds(x) => x.obs # None /\ x.obs.seq >= seq'[x.obs.name]
  <2> SUFFICES ASSUME x.via = "ipns", Holds(x) PROVE x.obs # None /\ x.obs.seq >= seq'[x.obs.name] BY Zenon
  <2>1. x.obs = s.obs /\ s.doc # None /\ s.via = "ipns" /\ ~Replayed(s) BY Zenon, <1>6
  <2>2. s.obs # None /\ s.obs.seq \in Nat BY Zenon, <1>2, <2>1 DEF Authentic
  <2> QED BY <1>5, <2>1, <2>2
<1>9. ASSUME NEW q \in site.pollers, NEW y, y = poll'[q] PROVE Authentic(y)'
  <2>1. CASE q = p
    <3>1. y = x BY Zenon, <1>7, <1>9, <2>1
    <3>2. x.obs # None => x.obs.name \in site.signers /\ x.obs.seq \in Nat BY Zenon, <1>2, <1>6 DEF Authentic
    <3>3. x.via = "ipns" /\ x.doc # None => x.obs # None BY Zenon, <1>2, <1>6 DEF Authentic
    <3> QED BY Zenon, <1>8, <3>1, <3>2, <3>3 DEF Authentic, Holds
  <2>2. CASE q # p
    <3>1. y = poll[q] /\ ~Holds(poll[q]) BY Zenon, <1>2, <1>7, <1>9, <2>2 DEF Locked, Holds
    <3> QED BY Zenon, <3>1 DEF Authenticated, Authentic, Holds
  <2> QED BY Zenon, <2>1, <2>2
<1> QED BY Zenon, <1>5, <1>9 DEF Authenticated

\* The other steps of a poll.
LEMMA AuthenticPoll ==
  ASSUME IInv, Authenticated, UNCHANGED site, \A r \in recs : r.name \in site.signers /\ r.seq \in Nat, PollStep
  PROVE  Authenticated'
<1>1. PICK p \in site.pollers :
        \/ Resolve(p) \/ Admit(p) \/ Protect(p) \/ ProtectWalk(p) \/ ProtectProof(p)
        \/ Prepare(p) \/ Prepared(p) \/ Commit(p) \/ Install(p) \/ Retire(p) \/ Retired(p)
  BY Zenon DEF PollStep
<1>2. CASE Resolve(p) BY Zenon, <1>2, AuthenticResolve
<1>3. CASE Admit(p) BY Zenon, <1>3, AuthenticAdmit
<1>4. CASE ~Resolve(p) /\ ~Admit(p)
  <2>1. UNCHANGED seq
    BY Zenon, <1>1, <1>4 DEF Protect, ProtectWalk, ProtectProof, Prepare, Prepared, Commit, Install, Retire, Retired, durVars
  <2>2. Holds(poll[p])
    BY Zenon, <1>1, <1>4 DEF Protect, ProtectWalk, ProtectProof, Prepare, Prepared, Commit, Install, Retire, Retired, Holds
  <2>3. \/ \E v : poll' = [poll EXCEPT ![p].pc = v]
        \/ \E v, t : poll' = [poll EXCEPT ![p] = [[poll[p] EXCEPT !.tok = t] EXCEPT !.pc = v]]
        \/ Leave(p)
    BY Zenon, <1>1, <1>4 DEF Protect, ProtectWalk, ProtectProof, Prepare, Prepared, Commit, Install, Retire, Retired
  <2> QED BY Zenon, <2>1, <2>2, <2>3, AuthenticGoes
<1> QED BY Zenon, <1>2, <1>3, <1>4

-----------------------------------------------------------------------------
\* What is served.

\* No poll comes to or leaves its installation.
LEMMA ServingQuiet ==
  ASSUME Serving, UNCHANGED <<site, up, role, mirror, adopted, cp>>,
         \A q \in site.pollers : poll'[q].pc = "install" \/ poll[q].pc = "install" => poll'[q] = poll[q]
  PROVE  Serving'
<1>1. Settled' => Settled BY Zenon DEF Settled
<1>3. /\ DOMAIN adopted = Kinds /\ site.heads \subseteq Kinds
      /\ up # "on" => \A h \in Kinds : adopted[h] = None
      /\ role = "write" => up \in {"down", "opening", "on"} /\ adopted["mut"] = None
      /\ role = "write" /\ up = "on" => adopted["fin"] = mirror /\ mirror \in Nat
      /\ role # "write" /\ Settled => \A h \in site.heads : Recorded(h, adopted[h])
  BY Zenon DEF Serving
<1>4. \A h, r : Recorded(h, r) => Recorded(h, r)' BY Zenon DEF Recorded
<1>5. ASSUME NEW q \in site.pollers, poll'[q].pc = "install"
      PROVE  (\A h \in site.heads : Recorded(h, Serve(poll[q].doc, h)))'
  <2>1. poll'[q] = poll[q] /\ \A h \in site.heads : Recorded(h, Serve(poll[q].doc, h)) BY Zenon, <1>5 DEF Serving
  <2> QED BY Zenon, <2>1 DEF Recorded, Serve, Covered, Line
<1> QED BY Zenon, <1>1, <1>3, <1>4, <1>5 DEF Serving

\* Only a commit brings a poll to its installation, and only Install ends it.
LEMMA PlacesOfPolls ==
  ASSUME IInv, NEW p \in site.pollers,
         \/ Resolve(p) \/ Admit(p) \/ Protect(p) \/ ProtectWalk(p) \/ ProtectProof(p)
         \/ Prepare(p) \/ Prepared(p) \/ Retire(p) \/ Retired(p)
  PROVE  \A q \in site.pollers : poll'[q].pc = "install" \/ poll[q].pc = "install" => poll'[q] = poll[q]
<1>1. IsPoll(poll[p]) /\ poll = [q \in site.pollers |-> poll[q]] BY Zenon DEF IInv, Typed
<1>2. poll[p].pc # "install"
  BY Zenon DEF Resolve, Admit, Protect, ProtectWalk, ProtectProof, Prepare, Prepared, Retire, Retired
<1>3. \E x : poll' = [poll EXCEPT ![p] = x] /\ x.pc # "install"
  <2>1. CASE Resolve(p)
    <3>1. \E doc, obs, eq, via : poll' = [poll EXCEPT ![p] = [pc |-> "resolved", doc |-> doc, obs |-> obs, eq |-> eq, tok |-> 0, via |-> via]]
      BY <2>1, Zenon DEF Resolve
    <3>2. PICK x : (\E doc, obs, eq, via : x = [pc |-> "resolved", doc |-> doc, obs |-> obs, eq |-> eq, tok |-> 0, via |-> via])
                   /\ poll' = [poll EXCEPT ![p] = x]
      BY Zenon, <3>1
    <3>3. x.pc = "resolved" BY <3>2
    <3> QED BY Zenon, <3>2, <3>3
  <2>2. CASE Leave(p)
    <3>1. PICK x : x = IdlePoll BY Zenon
    <3>2. x.pc = "idle" BY Zenon, <3>1 DEF IdlePoll
    <3> QED BY Zenon, <2>2, <3>1, <3>2 DEF Leave
  <2>3. ASSUME NEW v, v # "install", poll' = [poll EXCEPT ![p].pc = v] PROVE \E x : poll' = [poll EXCEPT ![p] = x] /\ x.pc # "install"
    <3>1. PICK x : x = [poll[p] EXCEPT !.pc = v] BY Zenon
    <3>2. x.pc = v BY Zenon, <1>1, <3>1 DEF IsPoll
    <3> QED BY Zenon, <2>3, <3>1, <3>2
  <2>4. CASE Protect(p)
    <3>0. PICK v, y : v # "install" /\ y = [poll[p] EXCEPT !.tok = col.gen] /\ poll' = [poll EXCEPT ![p] = [y EXCEPT !.pc = v]]
      BY Zenon, <2>4 DEF Protect
    <3>1. PICK x : x = [y EXCEPT !.pc = v] BY Zenon
    <3>2. IsPoll(y) BY Zenon, <1>1, <3>0 DEF IsPoll
    <3>3. x.pc = v BY Zenon, <3>1, <3>2 DEF IsPoll
    <3> QED BY Zenon, <3>0, <3>1, <3>3
  <2>5. CASE Admit(p) \/ ProtectWalk(p) \/ ProtectProof(p) \/ Prepare(p) \/ Prepared(p) \/ Retire(p) \/ Retired(p)
    <3>1. Leave(p) \/ \E v : v # "install" /\ poll' = [poll EXCEPT ![p].pc = v]
      BY Zenon, <2>5 DEF Admit, ProtectWalk, ProtectProof, Prepare, Prepared, Retire, Retired
    <3> QED BY Zenon, <2>2, <2>3, <3>1
  <2> QED BY Zenon, <2>1, <2>4, <2>5
<1> QED BY Zenon, <1>1, <1>2, <1>3

\* Commit: each head is recorded at what will be served.
LEMMA ServingCommit ==
  ASSUME IInv, Serving, UNCHANGED <<site, role>>, NEW p \in site.pollers, Commit(p)
  PROVE  Serving'
<1>1. PICK d : d = poll[p].doc BY Zenon
<1>2. UNCHANGED <<up, adopted>> /\ poll[p].pc = "commit" BY Zenon DEF Commit, headVars
<1>3. Holds(poll[p]) /\ up = "on" /\ role = "follow" /\ IsPoll(poll[p]) /\ poll = [q \in site.pollers |-> poll[q]]
  BY Zenon, <1>2, Running DEF Holds, IInv, Typed
<1>4. \A q \in site.pollers : q # p => ~Holds(poll[q]) BY Zenon, <1>3 DEF IInv, Exclusive
<1>5. Settled BY Zenon, <1>2, <1>4 DEF Settled, Holds
<1>6. DOMAIN adopted = Kinds /\ site.heads \subseteq Kinds /\ \A h \in site.heads : Recorded(h, adopted[h])
  BY Zenon, <1>3, <1>5 DEF Serving
<1>7. CASE Leave(p) /\ cp' = cp
  <2>1. \A q \in site.pollers : poll'[q].pc # "install"
    <3>1. PICK x : x = IdlePoll BY Zenon
    <3>2. x.pc = "idle" BY Zenon, <3>1 DEF IdlePoll
    <3>3. poll' = [poll EXCEPT ![p] = x] BY Zenon, <1>7, <3>1 DEF Leave
    <3> QED BY Zenon, <1>3, <1>5, <3>2, <3>3 DEF Settled
  <2> QED BY Zenon, <1>2, <1>3, <1>6, <1>7, <2>1 DEF Serving, Recorded
<1>8. CASE /\ cp' = [h \in Kinds |-> IF h \in site.heads THEN Checkpoint(d, h) ELSE NoCheckpoint]
           /\ poll' = [poll EXCEPT ![p].pc = "install"]
  <2>1. PICK x : x = [poll[p] EXCEPT !.pc = "install"] BY Zenon
  <2>2. x.pc = "install" /\ x.doc = d BY Zenon, <1>1, <1>3, <2>1 DEF IsPoll
  <2>3. poll' = [poll EXCEPT ![p] = x] BY Zenon, <1>8, <2>1
  <2>4. \A q \in site.pollers : poll'[q] = IF q = p THEN x ELSE poll[q] BY Zenon, <1>3, <2>3
  <2>5. ASSUME NEW h \in site.heads PROVE Recorded(h, Serve(d, h))'
    <3>0. h \in Kinds /\ cp'[h] = Checkpoint(d, h) BY Zenon, <1>6, <1>8
    <3>1. CASE Covered(d, h)
      <4>1. CASE Matches(d, h) BY Zenon, <1>2, <3>0, <3>1, <4>1 DEF Checkpoint, Matches, Recorded, Serve, Covered, Line
      <4>2. CASE ~Matches(d, h)
        <5>1. PICK c : c = [doc |-> d, sel |-> TRUE, line |-> Line(d, h)] BY Zenon
        <5>2. c.sel /\ c.line = Line(d, h) BY Zenon, <5>1
        <5>3. cp'[h] = c BY Zenon, <3>0, <3>1, <4>2, <5>1 DEF Checkpoint
        <5> QED BY Zenon, <3>1, <5>2, <5>3 DEF Recorded, Serve, Covered, Line
      <4> QED BY Zenon, <4>1, <4>2
    <3>2. CASE ~Covered(d, h) /\ d.rev > 0 BY Zenon, <3>2 DEF Recorded, Serve, Covered, Line
    <3>3. CASE ~Covered(d, h) /\ ~(d.rev > 0)
      <4>1. cp'[h] = cp[h] BY Zenon, <3>0, <3>3 DEF Checkpoint
      <4> QED BY Zenon, <1>2, <1>6, <3>3, <4>1 DEF Recorded, Serve, Covered, Line
    <3> QED BY Zenon, <3>1, <3>2, <3>3
  <2>6. ASSUME NEW q \in site.pollers, poll'[q].pc = "install"
        PROVE  (\A h \in site.heads : Recorded(h, Serve(poll[q].doc, h)))'
    <3>1. poll'[q].doc = d BY Zenon, <1>5, <2>2, <2>4, <2>6 DEF Settled
    <3> QED BY Zenon, <2>5, <3>1 DEF Recorded, Serve, Covered, Line
  <2>7. ~Settled' BY Zenon, <2>2, <2>4 DEF Settled
  <2> QED BY Zenon, <1>2, <1>3, <1>6, <2>6, <2>7 DEF Serving
<1> QED BY Zenon, <1>1, <1>7, <1>8 DEF Commit, StageCheckpoints

\* Install: what becomes visible was recorded.
LEMMA ServingInstall ==
  ASSUME IInv, Serving, UNCHANGED <<site, role>>, NEW p \in site.pollers, Install(p)
  PROVE  Serving'
<1>2. UNCHANGED <<up, cp>> /\ poll[p].pc = "install" BY Zenon DEF Install, durVars
<1>3. Holds(poll[p]) /\ up = "on" /\ role = "follow" /\ IsPoll(poll[p]) /\ poll = [q \in site.pollers |-> poll[q]]
  BY Zenon, <1>2, Running DEF Holds, IInv, Typed
<1>4. \A q \in site.pollers : q # p => ~Holds(poll[q]) BY Zenon, <1>3 DEF IInv, Exclusive
<1>5. adopted' = [h \in Kinds |-> IF h \in site.heads THEN Serve(poll[p].doc, h) ELSE None] BY Zenon DEF Install
<1>6. DOMAIN adopted' = Kinds /\ site.heads \subseteq Kinds /\ \A h \in site.heads : adopted'[h] = Serve(poll[p].doc, h)
  BY Zenon, <1>5 DEF Serving
<1>7. \A h \in site.heads : Recorded(h, adopted'[h]) BY Zenon, <1>2, <1>6 DEF Serving
<1>8. \A q \in site.pollers : poll'[q].pc # "install"
  <2>1. PICK x : poll' = [poll EXCEPT ![p] = x] /\ x.pc # "install"
    <3>1. PICK y : y = IdlePoll BY Zenon
    <3>2. y.pc = "idle" BY Zenon, <3>1 DEF IdlePoll
    <3>3. PICK z : z = [poll[p] EXCEPT !.pc = "barrier"] BY Zenon
    <3>4. z.pc = "barrier" BY Zenon, <1>3, <3>3 DEF IsPoll
    <3>5. poll' = [poll EXCEPT ![p] = y] \/ poll' = [poll EXCEPT ![p] = z] BY Zenon, <3>1, <3>3 DEF Install, Leave
    <3> QED BY Zenon, <3>2, <3>4, <3>5
  <2> QED BY Zenon, <1>3, <1>4, <2>1 DEF Holds
<1> QED BY Zenon, <1>2, <1>3, <1>6, <1>7, <1>8 DEF Serving, Recorded

\* A step of the follower.
LEMMA ServingFollow ==
  ASSUME IInv, Serving, role = "follow", UNCHANGED <<site, role>>, PollStep, Mirrored
  PROVE  Serving'
<1>2. PICK p \in site.pollers :
        \/ Resolve(p) \/ Admit(p) \/ Protect(p) \/ ProtectWalk(p) \/ ProtectProof(p)
        \/ Prepare(p) \/ Prepared(p) \/ Commit(p) \/ Install(p) \/ Retire(p) \/ Retired(p)
  BY Zenon DEF PollStep
<1>3. CASE ~Commit(p) /\ ~Install(p)
  <2>1. UNCHANGED <<up, adopted, cp>>
    BY Zenon, <1>2, <1>3 DEF Resolve, Admit, Protect, ProtectWalk, ProtectProof, Prepare, Prepared, Retire, Retired, durVars, headVars
  <2>2. UNCHANGED mirror BY Zenon, <2>1 DEF Mirrored
  <2>3. \A q \in site.pollers : poll'[q].pc = "install" \/ poll[q].pc = "install" => poll'[q] = poll[q]
    BY Zenon, <1>2, <1>3, PlacesOfPolls
  <2> QED BY Zenon, <2>1, <2>2, <2>3, ServingQuiet
<1> QED BY Zenon, <1>2, <1>3, ServingCommit, ServingInstall

\* A follower's batch moves the mirror with the checkpoint.
LEMMA MirroringFollow ==
  ASSUME IInv, IInv', Mirroring, role = "follow", UNCHANGED <<site, role>>, PollStep, Mirrored
  PROVE  Mirroring'
<1>2. PICK p \in site.pollers :
        \/ Resolve(p) \/ Admit(p) \/ Protect(p) \/ ProtectWalk(p) \/ ProtectProof(p)
        \/ Prepare(p) \/ Prepared(p) \/ Commit(p) \/ Install(p) \/ Retire(p) \/ Retired(p)
  BY Zenon DEF PollStep
<1>3. mirror = (IF cp["fin"].sel THEN cp["fin"].line ELSE None) /\ mirror \in Nat \cup {None} BY Zenon DEF Mirroring
<1>4. mirror' = IF cp'["fin"].sel THEN cp'["fin"].line ELSE None BY Zenon, <1>3 DEF Mirrored
<1>5. cp'["fin"].line \in Nat \cup {None} BY Zenon DEF IInv, Typed
<1>6. cp'["fin"].sel => cp'["fin"].doc # None
  <2>1. CASE ~Commit(p)
    <3>1. UNCHANGED cp
      BY Zenon, <1>2, <2>1 DEF Resolve, Admit, Protect, ProtectWalk, ProtectProof, Prepare, Prepared, Install, Retire, Retired, durVars
    <3> QED BY Zenon, <3>1 DEF Mirroring
  <2>2. CASE Commit(p)
    <3>1. PICK d : d = poll[p].doc BY Zenon
    <3>2. d # None BY Zenon, <2>2, <3>1 DEF IInv, Preflighted, Ahead, Commit
    <3>3. cp' = cp \/ cp' = [h \in Kinds |-> IF h \in site.heads THEN Checkpoint(d, h) ELSE NoCheckpoint]
      BY Zenon, <2>2, <3>1 DEF Commit, StageCheckpoints
    <3>4. cp'["fin"] = cp["fin"] \/ cp'["fin"] = Checkpoint(d, "fin") \/ cp'["fin"] = NoCheckpoint BY Zenon, <3>3 DEF Kinds
    <3>5. PICK b : b = [doc |-> d, sel |-> TRUE, line |-> Line(d, "fin")] BY Zenon
    <3>6. PICK t : t = [doc |-> d, sel |-> FALSE, line |-> cp["fin"].line] BY Zenon
    <3>7. PICK n : n = [doc |-> None, sel |-> FALSE, line |-> None] BY Zenon
    <3>8. b.doc = d BY Zenon, <3>5
    <3>9. t.doc = d BY Zenon, <3>6
    <3>10. ~n.sel BY Zenon, <3>7
    <3>11. cp'["fin"] \in {cp["fin"], b, t, n} BY Zenon, <3>4, <3>5, <3>6, <3>7 DEF Checkpoint, Tombstone, NoCheckpoint
    <3> QED BY Zenon, <3>2, <3>8, <3>9, <3>10, <3>11 DEF Mirroring
  <2> QED BY Zenon, <2>1, <2>2
<1>7. mirror' \in Nat \cup {None} BY Zenon, <1>4, <1>5
<1> QED BY Zenon, <1>4, <1>6, <1>7 DEF Mirroring

\* Resume serves everything selected or nothing.
LEMMA ResumeReloads == Resume => Reloads(Selected) \/ Reloads({})
<1> SUFFICES ASSUME Resume PROVE Reloads(Selected) \/ Reloads({}) BY Zenon
<1> QED BY Zenon DEF Resume

\* What Resume serves, and what of it counts as fetched.
LEMMA ResumeServes ==
  ASSUME Resume
  PROVE  \E S \in SUBSET Selected :
           /\ adopted' = [h \in Kinds |-> IF h \in S THEN cp[h].line ELSE None]
           /\ fetched' = [h \in Kinds |-> IF h \in S THEN Installed(h, cp[h].line) ELSE None]
<1>1. PICK S \in SUBSET Selected : Reloads(S) BY Zenon, ResumeReloads
<1>2. adopted' = [h \in Kinds |-> IF h \in S THEN cp[h].line ELSE None] BY Zenon, <1>1 DEF Reloads
<1>3. fetched' = [h \in Kinds |-> IF h \in S THEN Installed(h, cp[h].line) ELSE None] BY Zenon, <1>1 DEF Reloads
<1> QED BY <1>2, <1>3, Zenon

\* A start, a resume or a crash serves what is recorded or nothing.
LEMMA ServingProcess ==
  ASSUME IInv, IInv', Serving, Mirroring, UNCHANGED <<site, mirror, role>>, Restarts
  PROVE  Serving' /\ Mirroring'
<1>2. UNCHANGED cp BY Zenon DEF Restarts, Start, Recovered, Resume, Crash, durVars
<1>3. DOMAIN adopted = Kinds /\ site.heads \subseteq Kinds BY Zenon DEF Serving
<1>4. CASE Crash
  <2>1. up' = "down" /\ adopted' = [h \in Kinds |-> None] /\ poll' = [p \in site.pollers |-> IdlePoll] BY Zenon, <1>4 DEF Crash
  <2>2. \A q \in site.pollers : poll'[q].pc = "idle"
    <3>1. IdlePoll.pc = "idle" BY Zenon DEF IdlePoll
    <3> QED BY Zenon, <2>1, <3>1
  <2>3. DOMAIN adopted' = Kinds /\ (\A h \in Kinds : adopted'[h] = None) /\ adopted'["mut"] = None BY Zenon, <2>1 DEF Kinds
  <2>4. Serving' BY Zenon, <1>3, <2>1, <2>2, <2>3 DEF Serving, Recorded
  <2> QED BY Zenon, <1>2, <2>1, <2>4 DEF Mirroring
<1>5. CASE ~Crash
  <2>1. role = "follow" /\ up # "on"
    BY Zenon, <1>5 DEF Restarts, Start, Recovered, Resume, Serving, Mirroring
  <2>2. UNCHANGED poll BY Zenon, <1>5 DEF Restarts, Start, Recovered, Resume
  <2>3. \A q \in site.pollers : poll[q].pc = "idle" BY Zenon, <2>1 DEF IInv, Exclusive
  <2>4. Mirroring' BY Zenon, <1>2, <2>1 DEF Mirroring
  <2>5. CASE Resume
    <3>1. up' = "on" BY Zenon, <2>5 DEF Resume
    <3>2. PICK S \in SUBSET Selected : adopted' = [h \in Kinds |-> IF h \in S THEN cp[h].line ELSE None]
      BY <2>5, ResumeServes, Zenon
    <3>3. \A h \in site.heads : Recorded(h, adopted'[h]) BY Zenon, <1>3, <3>2 DEF Recorded, Selected
    <3>4. DOMAIN adopted' = Kinds BY Zenon, <3>2
    <3> QED BY Zenon, <1>2, <1>3, <2>1, <2>2, <2>3, <2>4, <3>1, <3>3, <3>4 DEF Serving, Recorded
  <2>6. CASE Start \/ Recovered
    <3>1. UNCHANGED adopted /\ up' # "on" BY Zenon, <2>6 DEF Start, Recovered, headVars
    <3>2. \A h \in Kinds : adopted[h] = None BY Zenon, <2>1 DEF Serving
    <3> QED BY Zenon, <1>2, <1>3, <2>1, <2>2, <2>3, <2>4, <3>1, <3>2 DEF Serving, Recorded
  <2> QED BY Zenon, <1>5, <2>5, <2>6 DEF Restarts
<1> QED BY Zenon, <1>4, <1>5

\* A promotion hands the head to its mirror, which never goes back.
LEMMA ServingPromotion ==
  ASSUME IInv, IInv', Serving, Mirroring, UNCHANGED site, site.promote, PromotionStep
  PROVE  /\ Serving' /\ Mirroring'
         /\ role = "write" /\ mirror # None => mirror' # None /\ mirror' >= mirror
<1>1. UNCHANGED poll BY Zenon DEF PromotionStep
<1>2. DOMAIN adopted = Kinds /\ site.heads \subseteq Kinds /\ mirror \in Nat \cup {None} /\ None \notin Nat
  BY Zenon, NoneAssumption DEF Serving, Mirroring
<1>3. up # "on" \/ role = "write"
  BY Zenon DEF PromotionStep, Reassign, ReconcilePromotion, OpenHead, WriterAppends, Shutdown
<1>4. \A q \in site.pollers : poll[q].pc = "idle" BY Zenon, <1>3 DEF IInv, Exclusive
<1>5. cp["fin"].line \in Nat \cup {None} BY Zenon DEF IInv, Typed
<1>6. CASE Reassign
  <2>1. UNCHANGED <<mirror, up, cp, adopted>> /\ up = "down" /\ role \in {"follow", "write"} /\ role' \in {"follow", "write"}
    BY Zenon, <1>6 DEF Reassign
  <2>2. role' # "write" \/ cp'["fin"].doc # None => role # "write" \/ cp["fin"].doc # None BY Zenon, <1>6, <2>1 DEF Reassign
  <2>3. Mirroring' BY Zenon, <1>1, <2>1, <2>2 DEF Mirroring
  <2>4. \A h \in Kinds : adopted[h] = None BY Zenon, <2>1 DEF Serving
  <2>5. Serving' BY Zenon, <1>1, <1>2, <1>4, <2>1, <2>4 DEF Serving, Recorded, Kinds
  <2> QED BY <1>2, <2>1, <2>3, <2>5
<1>7. CASE ReconcilePromotion
  <2>1. UNCHANGED <<role, adopted>> /\ up = "down" /\ up' = "opening" /\ role = "write" BY Zenon, <1>7 DEF ReconcilePromotion
  <2>2. \/ cp["fin"].doc = None /\ UNCHANGED <<cp, mirror>>
        \/ cp["fin"].doc # None /\ cp["fin"].sel /\ mirror' = cp["fin"].line /\ cp' = [cp EXCEPT !["fin"] = NoCheckpoint]
    BY Zenon, <1>7 DEF ReconcilePromotion, CheckpointRetired
  <2>3. mirror' = mirror BY Zenon, <2>1, <2>2 DEF Mirroring
  <2>4. cp'["fin"].doc = None /\ ~cp'["fin"].sel
    <3>1. PICK n : n = NoCheckpoint BY Zenon
    <3>2. n.doc = None /\ ~n.sel BY Zenon, <3>1 DEF NoCheckpoint
    <3>3. "fin" \in DOMAIN cp BY Zenon DEF IInv, Typed, Kinds
    <3> QED BY Zenon, <2>2, <3>1, <3>2, <3>3 DEF Mirroring
  <2>5. Mirroring' BY Zenon, <1>1, <1>2, <2>1, <2>3, <2>4 DEF Mirroring
  <2>6. \A h \in Kinds : adopted[h] = None BY Zenon, <2>1 DEF Serving
  <2>7. Serving' BY Zenon, <1>1, <1>2, <1>4, <2>1, <2>6 DEF Serving, Recorded, Kinds
  <2> QED BY <1>2, <2>3, <2>5, <2>7
<1>8. CASE OpenHead \/ WriterAppends
  <2>1. UNCHANGED <<role, cp>> /\ up' = "on" /\ role = "write" BY Zenon, <1>8 DEF OpenHead, WriterAppends, IInv, Exclusive
  <2>2. cp["fin"].doc = None BY Zenon, <1>8, <2>1 DEF OpenHead, WriterAppends, Mirroring
  <2>3. PICK r \in Nat : /\ mirror' = r /\ adopted' = [adopted EXCEPT !["fin"] = r]
                         /\ mirror # None => r >= mirror
    <3>1. CASE OpenHead
      <4>1. PICK r : r = (IF mirror = None THEN 0 ELSE mirror) /\ mirror' = r /\ adopted' = [adopted EXCEPT !["fin"] = r]
        BY Zenon, <3>1 DEF OpenHead
      <4>2. r \in Nat /\ (mirror # None => r >= mirror) BY <1>2, <4>1
      <4> QED BY Zenon, <4>1, <4>2
    <3>2. CASE WriterAppends
      <4>1. mirror \in Nat BY Zenon, <3>2 DEF WriterAppends, Serving
      <4>2. PICK r : r = mirror + 1 BY Zenon
      <4>3. r \in Nat /\ r >= mirror BY <4>1, <4>2
      <4> QED BY Zenon, <3>2, <4>2, <4>3 DEF WriterAppends
    <3> QED BY Zenon, <1>8, <3>1, <3>2
  <2>4. adopted["mut"] = None BY Zenon, <2>1 DEF Serving
  <2>5. DOMAIN adopted' = Kinds /\ adopted'["mut"] = None /\ adopted'["fin"] = mirror' BY Zenon, <1>2, <2>3, <2>4 DEF Kinds
  <2>6. mirror' \in Nat /\ mirror' # None BY Zenon, <1>2, <2>3
  <2>7. Mirroring' BY Zenon, <1>1, <2>1, <2>2, <2>6 DEF Mirroring
  <2>8. Serving' BY Zenon, <1>1, <1>2, <1>4, <2>1, <2>5, <2>6 DEF Serving
  <2> QED BY Zenon, <1>2, <2>3, <2>6, <2>7, <2>8
<1>9. CASE Shutdown
  <2>1. UNCHANGED <<role, mirror, cp>> /\ up' = "down" /\ role = "write" /\ adopted' = [adopted EXCEPT !["fin"] = None]
    BY Zenon, <1>9 DEF Shutdown
  <2>2. adopted["mut"] = None BY Zenon, <2>1 DEF Serving
  <2>3. DOMAIN adopted' = Kinds /\ adopted'["mut"] = None /\ adopted'["fin"] = None BY Zenon, <1>2, <2>1, <2>2 DEF Kinds
  <2>4. Mirroring' BY Zenon, <1>1, <2>1 DEF Mirroring
  <2>5. Serving' BY Zenon, <1>1, <1>2, <1>4, <2>1, <2>3 DEF Serving, Recorded, Kinds
  <2> QED BY <1>2, <2>1, <2>4, <2>5
<1> QED BY Zenon, <1>6, <1>7, <1>8, <1>9 DEF PromotionStep

-----------------------------------------------------------------------------
\* What is held.

\* Blocks come into the store, and into the epoch of a collection that runs.
Joins ==
  /\ have \subseteq have' /\ col.touched \subseteq col'.touched
  /\ col' = [gen |-> col.gen, stage |-> col.stage, mark |-> col.mark, touched |-> col'.touched, scrub |-> col.scrub]

\* A block that joins stays guarded, and an obtained one becomes so.
LEMMA JoinsKeep ==
  ASSUME Joins
  PROVE  /\ col'.gen = col.gen /\ col'.stage = col.stage /\ col'.mark = col.mark /\ col'.scrub = col.scrub
         /\ (Active' => Active) /\ \A B : Guarded(B) => Guarded(B)'
<1>1. col'.gen = col.gen /\ col'.stage = col.stage /\ col'.mark = col.mark /\ col'.scrub = col.scrub BY DEF Joins
<1> QED BY Zenon, <1>1 DEF Joins, Guarded, Active

\* Nothing moves.
LEMMA JoinsNothing ==
  ASSUME Collecting, UNCHANGED <<have, col>>
  PROVE  Joins
BY Zenon DEF Collecting, Joins

\* touchGeneration
LEMMA JoinsTouched ==
  ASSUME Collecting, NEW B, col' = Touched(col, B), have \subseteq have'
  PROVE  Joins /\ (Active => B \subseteq col'.touched)
<1>1. PICK c : c = col' BY Zenon
<1>2. col = [gen |-> col.gen, stage |-> col.stage, mark |-> col.mark, touched |-> col.touched, scrub |-> col.scrub]
  BY Zenon DEF Collecting
<1>3. CASE col.stage = "idle"
  <2>1. col' = col BY Zenon, <1>3 DEF Touched
  <2> QED BY Zenon, <1>2, <1>3, <2>1 DEF Joins, Active
<1>4. CASE col.stage # "idle"
  <2>1. PICK t : t = col.touched \cup B BY Zenon
  <2>2. c = [col EXCEPT !.touched = t] BY Zenon, <1>1, <1>4, <2>1 DEF Touched
  <2>3. c.touched = t /\ c = [gen |-> col.gen, stage |-> col.stage, mark |-> col.mark, touched |-> c.touched, scrub |-> col.scrub]
    BY Zenon, <1>2, <2>2
  <2> QED BY Zenon, <1>1, <2>1, <2>3 DEF Joins
<1> QED BY Zenon, <1>3, <1>4

\* Obtain: a block fetched or read joins the epoch.
LEMMA JoinsObtained ==
  ASSUME Collecting, NEW B, Obtain(B)
  PROVE  Joins /\ Guarded(B)'
<1>1. have' = have \cup B /\ col' = Touched(col, B) BY Zenon DEF Obtain
<1>2. Joins /\ (Active => B \subseteq col'.touched) BY Zenon, <1>1, JoinsTouched
<1>3. Active' => Active BY Zenon, <1>2, JoinsKeep
<1> QED BY Zenon, <1>1, <1>2, <1>3 DEF Guarded

\* load
LEMMA JoinsLoaded ==
  ASSUME Collecting, NEW R, Load(R)
  PROVE  Joins
BY Zenon, JoinsNothing, JoinsObtained DEF Load

\* The collector's own state while blocks come in.
LEMMA CollectingJoins ==
  ASSUME Collecting, Joins, up' # "on" => ~Active,
         role' = "write" /\ cp'["fin"].doc = None /\ mirror' # None => Guarded(Closure(mirror))'
  PROVE  Collecting'
<1>1. /\ col'.gen = col.gen /\ col'.stage = col.stage /\ col'.scrub = col.scrub /\ (Active' => Active)
  BY Zenon, JoinsKeep
<1>2. col' = [gen |-> col'.gen, stage |-> col'.stage, mark |-> col'.mark, touched |-> col'.touched, scrub |-> col'.scrub]
  BY Zenon, JoinsKeep DEF Joins
<1>3. col'.scrub # None => ~Active' /\ col'.scrub \subseteq have' BY Zenon, <1>1 DEF Collecting, Joins
<1> QED BY Zenon, <1>1, <1>2, <1>3 DEF Collecting

\* The walk and the memo while blocks come in.
LEMMA WalkingJoins ==
  ASSUME Walking, Joins, UNCHANGED <<site, walk, memo>>
  PROVE  Walking'
<1>1. col'.gen = col.gen /\ \A B : Guarded(B) => Guarded(B)' BY Zenon, JoinsKeep
<1>2. walk.pc = "blob" /\ walk.gen = col'.gen => Guarded({Index(walk.root)})' BY Zenon, <1>1 DEF Walking
<1>3. walk.pc = "stamp" /\ walk.gen = col'.gen => Guarded(Closure(walk.root))' BY Zenon, <1>1 DEF Walking
<1>4. \A r \in DOMAIN memo : memo[r] = col'.gen => Guarded(Closure(r))' BY Zenon, <1>1 DEF Walking
<1> QED BY Zenon, <1>1, <1>2, <1>3, <1>4 DEF Walking, Closure, Index, Blob

\* The completion stamps while blocks come in.
LEMMA FetchingJoins ==
  ASSUME Fetching, Joins, UNCHANGED <<site, up, role, walk, adopted, fetched>>
  PROVE  Fetching'
<1>1. \A B : Guarded(B) => Guarded(B)' BY Zenon, JoinsKeep
<1>2. site.gc => \A h \in site.heads : adopted[h] # None /\ fetched[h] = adopted[h] => Guarded(Closure(adopted[h]))'
  BY Zenon, <1>1 DEF Fetching
<1> QED BY Zenon, <1>2 DEF Fetching, Closure, Index, Blob

\* A step of the follower.
LEMMA HeldFollow ==
  ASSUME IInv, Serving, Collecting, Walking, Fetching, role = "follow", UNCHANGED <<site, role>>, PollStep
  PROVE  Collecting' /\ Walking' /\ Fetching'
<1>2. PICK p \in site.pollers :
        \/ Resolve(p) \/ Admit(p) \/ Protect(p) \/ ProtectWalk(p) \/ ProtectProof(p)
        \/ Prepare(p) \/ Prepared(p) \/ Commit(p) \/ Install(p) \/ Retire(p) \/ Retired(p)
  BY Zenon DEF PollStep
<1>3. Joins
  <2>1. CASE Admit(p)
    <3>1. UNCHANGED <<have, col>> \/ \E R : Load(R) BY Zenon, <2>1 DEF Admit
    <3> QED BY Zenon, <3>1, JoinsNothing, JoinsLoaded
  <2>2. CASE ProtectWalk(p)
    <3>1. UNCHANGED <<have, col>> \/ \E B : Obtain(B) BY Zenon, <2>2 DEF ProtectWalk
    <3> QED BY Zenon, <3>1, JoinsNothing, JoinsObtained
  <2>3. CASE Commit(p)
    <3>1. UNCHANGED have /\ (col' = col \/ \E B : col' = Touched(col, B)) BY Zenon, <2>3 DEF Commit, TouchGeneration
    <3> QED BY Zenon, <3>1, JoinsNothing, JoinsTouched
  <2>4. CASE ~Admit(p) /\ ~ProtectWalk(p) /\ ~Commit(p)
    <3>1. UNCHANGED <<have, col>>
      BY Zenon, <1>2, <2>4 DEF Resolve, Protect, ProtectProof, Prepare, Prepared, Install, Retire, Retired, storeVars
    <3> QED BY Zenon, <3>1, JoinsNothing
  <2> QED BY Zenon, <2>1, <2>2, <2>3, <2>4
<1>4. UNCHANGED <<up, memo, walk>>
  BY Zenon, <1>2 DEF Resolve, Admit, Protect, ProtectWalk, ProtectProof, Prepare, Prepared, Commit, Install, Retire, Retired, storeVars, Protected
<1>5. Collecting' BY Zenon, <1>3, <1>4, CollectingJoins DEF Collecting
<1>6. Walking' BY Zenon, <1>3, <1>4, WalkingJoins
<1>7. CASE ~Install(p)
  <2>1. UNCHANGED <<adopted, fetched>>
    BY Zenon, <1>2, <1>7 DEF Resolve, Admit, Protect, ProtectWalk, ProtectProof, Prepare, Prepared, Commit, Retire, Retired, headVars
  <2> QED BY Zenon, <1>3, <1>4, <1>5, <1>6, <2>1, FetchingJoins
<1>8. CASE Install(p)
  <2>1. up = "on" BY Zenon, <1>8, Running DEF Install
  <2>2. /\ adopted' = [h \in Kinds |-> IF h \in site.heads THEN Serve(poll[p].doc, h) ELSE None]
        /\ fetched' = [h \in Kinds |-> IF adopted'[h] = None THEN None ELSE Installed(h, adopted'[h])]
    BY Zenon, <1>8 DEF Install
  <2>3. \A h \in Kinds : fetched'[h] = IF adopted'[h] = None THEN None ELSE Installed(h, adopted'[h]) BY Zenon, <2>2
  <2>4. DOMAIN fetched' = Kinds /\ (site.external => ~site.gc /\ ~site.full) BY Zenon, <2>2 DEF Fetching
  <2>5. site.full => \A h \in Kinds : fetched'[h] \notin Mislabelled
    BY Zenon, <2>3, <2>4, NoneAssumption DEF Fetching, Installed
  <2>6. ASSUME site.gc, NEW h \in site.heads, h \in Kinds, adopted'[h] # None, fetched'[h] = adopted'[h]
        PROVE  Guarded(Closure(adopted[h]))'
    <3>1. adopted[h] = adopted'[h] /\ fetched[h] = adopted[h] /\ adopted[h] # None BY Zenon, <2>3, <2>4, <2>6 DEF Installed
    <3>2. Guarded(Closure(adopted[h])) BY Zenon, <2>6, <3>1 DEF Fetching
    <3> QED BY Zenon, <1>3, <3>1, <3>2, JoinsKeep
  <2>7. site.heads \subseteq Kinds BY Zenon DEF Serving
  <2>8. Fetching' BY Zenon, <1>4, <2>1, <2>4, <2>5, <2>6, <2>7 DEF Fetching
  <2> QED BY Zenon, <1>5, <1>6, <2>8
<1> QED BY Zenon, <1>7, <1>8

\* The collection generation stands and every guarded block stays.
LEMMA HeldStays ==
  ASSUME Collecting, Walking, Fetching, UNCHANGED <<site, up, role, cp, mirror, walk, memo, adopted, fetched>>,
         \A B : Guarded(B) => Guarded(B)', col'.gen = col.gen, Active' => Active,
         col' = [gen |-> col'.gen, stage |-> col'.stage, mark |-> col'.mark, touched |-> col'.touched, scrub |-> col'.scrub],
         col'.scrub # None => ~Active' /\ col'.scrub \subseteq have'
  PROVE  Collecting' /\ Walking' /\ Fetching'
<1>1. role = "write" /\ cp["fin"].doc = None /\ mirror # None => Guarded(Closure(mirror))' BY Zenon DEF Collecting
<1>2. Collecting' BY Zenon, <1>1 DEF Collecting, Closure, Index, Blob
<1>3. Walking'
  <2>2. walk.pc = "blob" /\ walk.gen = col'.gen => Guarded({Index(walk.root)})' BY Zenon DEF Walking
  <2>3. walk.pc = "stamp" /\ walk.gen = col'.gen => Guarded(Closure(walk.root))' BY Zenon DEF Walking
  <2>4. \A r \in DOMAIN memo : memo[r] = col'.gen => Guarded(Closure(r))' BY Zenon DEF Walking
  <2> QED BY Zenon, <2>2, <2>3, <2>4 DEF Walking, Closure, Index, Blob
<1>4. Fetching'
  <2>2. site.gc => \A h \in site.heads : adopted[h] # None /\ fetched[h] = adopted[h] => Guarded(Closure(adopted[h]))'
    BY Zenon DEF Fetching
  <2> QED BY Zenon, <2>2 DEF Fetching, Closure, Index, Blob
<1> QED BY Zenon, <1>2, <1>3, <1>4

\* A cut pins what is served; no walk or memo of an earlier generation counts after it.
LEMMA HeldCut ==
  ASSUME IInv, Serving, Mirroring, Collecting, Walking, Fetching, Cut, up = "on", UNCHANGED <<site, up, role, cp, mirror>>
  PROVE  Collecting' /\ Walking' /\ Fetching'
<1>1. UNCHANGED <<adopted, fetched, have, memo, walk>> /\ ~Active /\ col.scrub = None BY Zenon DEF Cut, Maintains
<1>2. PICK g, M : /\ g = col.gen + 1
                  /\ M = UNION {Closure(adopted[h]) : h \in {h \in site.heads : adopted[h] # None}}
  BY Zenon
<1>3. col' = [gen |-> g, stage |-> "marking", touched |-> {}, scrub |-> None, mark |-> M] BY Zenon, <1>1, <1>2 DEF Cut
<1>4. /\ col'.gen = g /\ col'.stage = "marking" /\ col'.touched = {} /\ col'.scrub = None /\ col'.mark = M
      /\ col' = [gen |-> col'.gen, stage |-> col'.stage, mark |-> col'.mark, touched |-> col'.touched, scrub |-> col'.scrub]
  BY Zenon, <1>3
<1>5. g \in Nat /\ g > col.gen /\ col.gen \in Nat BY <1>2 DEF Collecting
<1>6. \A h \in site.heads : adopted[h] # None => Closure(adopted[h]) \subseteq M BY Zenon, <1>2
<1>7. \A B : Guarded(B) /\ B \subseteq M => Guarded(B)' BY Zenon, <1>1, <1>4 DEF Guarded
<1>8. Collecting'
  <2> SUFFICES ASSUME role = "write", cp["fin"].doc = None, mirror # None PROVE Guarded(Closure(mirror))'
    BY Zenon, <1>1, <1>4, <1>5 DEF Collecting, Closure, Index, Blob
  <2>1. adopted["fin"] = mirror /\ "fin" \in site.heads BY Zenon DEF Serving, Mirroring
  <2>2. Closure(mirror) \subseteq M BY Zenon, <1>6, <2>1
  <2>3. Guarded(Closure(mirror)) BY Zenon DEF Collecting
  <2> QED BY Zenon, <1>7, <2>2, <2>3
<1>9. Walking'
  <2>1. walk.gen # col'.gen /\ walk.gen <= col'.gen BY <1>4, <1>5 DEF Walking
  <2>2. \A r \in DOMAIN memo : memo[r] # col'.gen /\ memo[r] <= col'.gen BY <1>4, <1>5 DEF Walking
  <2> QED BY Zenon, <1>1, <2>1, <2>2 DEF Walking
<1>10. Fetching'
  <2>1. site.gc => \A h \in site.heads : adopted[h] # None /\ fetched[h] = adopted[h] => Guarded(Closure(adopted[h]))'
    <3> SUFFICES ASSUME site.gc, NEW h \in site.heads, adopted[h] # None, fetched[h] = adopted[h]
                 PROVE  Guarded(Closure(adopted[h]))'
      BY Zenon
    <3>1. PICK B : B = Closure(adopted[h]) BY Zenon
    <3>2. Guarded(B) /\ B \subseteq M BY Zenon, <1>6, <3>1 DEF Fetching
    <3>3. B = Closure(adopted[h])' BY Zenon, <1>1, <3>1 DEF Closure, Index, Blob
    <3> QED BY Zenon, <1>7, <3>2, <3>3
  <2> QED BY Zenon, <1>1, <2>1 DEF Fetching, Closure, Index, Blob
<1> QED BY Zenon, <1>8, <1>9, <1>10

\* The other steps of the collector: a sweep takes only what the epoch does not hold.
LEMMA HeldCollector ==
  ASSUME IInv, Serving, Mirroring, Collecting, Walking, Fetching,
         UNCHANGED <<site, up, role, cp, mirror>>, up = "on", Collects
  PROVE  Collecting' /\ Walking' /\ Fetching'
<1>2. UNCHANGED <<walk, memo, adopted, fetched>>
  BY Zenon DEF Collects, Mark, Cut, SweepBlock, EndEpoch, ScrubBegin, ScrubEnd
<1>3. col = [gen |-> col.gen, stage |-> col.stage, mark |-> col.mark, touched |-> col.touched, scrub |-> col.scrub]
  BY Zenon DEF Collecting
<1>4. CASE Cut BY Zenon, <1>4, HeldCut
<1>5. CASE Mark(role = "follow") \/ EndEpoch
  <2>1. Active /\ col.scrub = None BY Zenon, <1>5 DEF Mark, EndEpoch, Active, Collecting
  <2>2. have \subseteq have' /\ (col' = [col EXCEPT !.stage = "sweeping"] \/ col' = IdleCol(col.gen))
    BY Zenon, <1>5 DEF Mark, EndEpoch
  <2>3. CASE col' = [col EXCEPT !.stage = "sweeping"]
    <3>1. /\ col'.gen = col.gen /\ col'.mark = col.mark /\ col'.touched = col.touched /\ col'.scrub = None
          /\ col' = [gen |-> col'.gen, stage |-> col'.stage, mark |-> col'.mark, touched |-> col'.touched, scrub |-> col'.scrub]
      BY Zenon, <1>3, <2>1, <2>3
    <3>2. \A B : Guarded(B) => Guarded(B)' BY Zenon, <2>1, <2>2, <3>1 DEF Guarded
    <3> QED BY Zenon, <1>2, <2>1, <3>1, <3>2, HeldStays
  <2>4. CASE col' = IdleCol(col.gen)
    <3>1. /\ col'.gen = col.gen /\ col'.stage = "idle" /\ col'.scrub = None
          /\ col' = [gen |-> col'.gen, stage |-> col'.stage, mark |-> col'.mark, touched |-> col'.touched, scrub |-> col'.scrub]
      BY Zenon, <2>4 DEF IdleCol
    <3>2. ~Active' BY Zenon, <3>1 DEF Active
    <3>3. \A B : Guarded(B) => Guarded(B)' BY Zenon, <2>2, <3>2 DEF Guarded
    <3> QED BY Zenon, <1>2, <3>1, <3>2, <3>3, HeldStays
  <2> QED BY Zenon, <2>2, <2>3, <2>4
<1>6. CASE SweepBlock
  <2>1. UNCHANGED col /\ Active /\ col.scrub = None BY Zenon, <1>6 DEF SweepBlock, Active, Collecting
  <2>2. PICK b : b \notin col.mark \cup col.touched /\ have' = have \ {b} BY Zenon, <1>6 DEF SweepBlock
  <2>3. \A B : Guarded(B) => Guarded(B)' BY Zenon, <2>1, <2>2 DEF Guarded, Active
  <2> QED BY Zenon, <1>2, <1>3, <2>1, <2>3, HeldStays DEF Active
<1>7. CASE ScrubBegin \/ ScrubEnd
  <2>1. ~Active /\ UNCHANGED have BY Zenon, <1>7 DEF ScrubBegin, ScrubEnd, Maintains, Collecting
  <2>2. PICK u : u \in {have, None} /\ col' = [col EXCEPT !.scrub = u] BY Zenon, <1>7 DEF ScrubBegin, ScrubEnd
  <2>3. /\ col'.gen = col.gen /\ col'.stage = col.stage /\ col'.scrub = u
        /\ col' = [gen |-> col'.gen, stage |-> col'.stage, mark |-> col'.mark, touched |-> col'.touched, scrub |-> col'.scrub]
    BY Zenon, <1>3, <2>2
  <2>4. ~Active' /\ \A B : Guarded(B) => Guarded(B)' BY Zenon, <2>1, <2>3 DEF Guarded, Active
  <2> QED BY Zenon, <1>2, <2>1, <2>2, <2>3, <2>4, HeldStays
<1> QED BY Zenon, <1>4, <1>5, <1>6, <1>7 DEF Collects

\* A step of the sync worker: what it passed joined the epoch, and a stamp is given in the
\* generation of the walk.
LEMMA HeldSync ==
  ASSUME IInv, Serving, Collecting, Walking, Fetching,
         UNCHANGED <<site, up, role, cp, mirror>>, up = "on", role = "follow", Syncs
  PROVE  Collecting' /\ Walking' /\ Fetching'
<1>2. UNCHANGED adopted BY Zenon DEF Syncs, SyncStart, SyncIndex, SyncBlob, SyncStamp, SyncFails
<1>3. /\ walk = [pc |-> walk.pc, head |-> walk.head, root |-> walk.root, gen |-> walk.gen]
      /\ walk.gen \in Nat /\ walk.gen <= col.gen /\ col.gen \in Nat
  BY Zenon DEF Walking, Collecting
<1>4. Joins
  <2>1. UNCHANGED <<have, col>> \/ \E B : Obtain(B) BY Zenon DEF Syncs, SyncStart, SyncIndex, SyncBlob, SyncStamp, SyncFails
  <2> QED BY Zenon, <2>1, JoinsNothing, JoinsObtained
<1>5. col'.gen = col.gen /\ \A B : Guarded(B) => Guarded(B)' BY Zenon, <1>4, JoinsKeep
<1>6. Collecting' BY Zenon, <1>4, CollectingJoins DEF Collecting
<1>7. ~SyncStamp => Fetching'
  <2> SUFFICES ASSUME ~SyncStamp PROVE Fetching' BY Zenon
  <2>1. UNCHANGED fetched BY Zenon DEF Syncs, SyncStart, SyncIndex, SyncBlob, SyncFails
  <2>2. site.gc => \A h \in site.heads : adopted[h] # None /\ fetched[h] = adopted[h] => Guarded(Closure(adopted[h]))'
    BY Zenon, <1>2, <1>5 DEF Fetching
  <2> QED BY Zenon, <1>2, <2>1, <2>2 DEF Fetching, Closure, Index, Blob
<1>8. ASSUME UNCHANGED memo,
             walk' = [pc |-> walk'.pc, head |-> walk'.head, root |-> walk'.root, gen |-> walk'.gen],
             walk'.gen \in Nat, walk'.gen <= col.gen, walk'.pc # "idle" => walk'.head \in site.heads,
             walk'.pc = "blob" /\ walk'.gen = col.gen => Guarded({Index(walk.root)})',
             walk'.pc = "stamp" /\ walk'.gen = col.gen => Guarded(Closure(walk.root))',
             walk'.pc = "stamp" /\ site.full => walk'.root \notin Mislabelled
      PROVE  Walking'
  <2>1. \A r \in DOMAIN memo : memo[r] = col'.gen => Guarded(Closure(r))' BY Zenon, <1>5 DEF Walking
  <2> QED BY Zenon, <1>5, <1>8, <2>1 DEF Walking, Closure, Index, Blob
<1>9. walk' = IdleWalk /\ UNCHANGED memo => Walking'
  <2> SUFFICES ASSUME walk' = IdleWalk, UNCHANGED memo PROVE Walking' BY Zenon
  <2>1. /\ walk' = [pc |-> walk'.pc, head |-> walk'.head, root |-> walk'.root, gen |-> walk'.gen]
        /\ walk'.pc = "idle" /\ walk'.gen = 0
    BY Zenon DEF IdleWalk
  <2> QED BY <1>3, <1>8, <2>1
<1>10. ASSUME NEW h \in site.heads, SyncStart(h) PROVE Walking'
  <2>1. walk' = [pc |-> "index", head |-> h, root |-> adopted[h], gen |-> col.gen] /\ UNCHANGED memo BY Zenon, <1>10 DEF SyncStart
  <2>2. /\ walk' = [pc |-> walk'.pc, head |-> walk'.head, root |-> walk'.root, gen |-> walk'.gen]
        /\ walk'.pc = "index" /\ walk'.head = h /\ walk'.gen = col.gen
    BY Zenon, <2>1
  <2> QED BY <1>3, <1>8, <2>1, <2>2
<1>11. ASSUME SyncIndex PROVE Walking'
  <2>1. walk.head \in site.heads /\ UNCHANGED memo BY Zenon, <1>11 DEF SyncIndex, Walking
  <2>2. CASE Known(walk.root, walk.gen)
    <3>1. walk' = [walk EXCEPT !.pc = "stamp"] BY Zenon, <1>11, <2>2 DEF SyncIndex
    <3>2. /\ walk' = [pc |-> walk'.pc, head |-> walk'.head, root |-> walk'.root, gen |-> walk'.gen]
          /\ walk'.pc = "stamp" /\ walk'.head = walk.head /\ walk'.root = walk.root /\ walk'.gen = walk.gen
      BY Zenon, <1>3, <3>1
    <3>3. walk.root \in DOMAIN memo /\ memo[walk.root] = walk.gen BY Zenon, <2>2 DEF Known
    <3>4. site.full => walk.root \notin Mislabelled BY Zenon, <3>3 DEF Walking
    <3>5. walk.gen = col.gen => Guarded(Closure(walk.root)) BY Zenon, <3>3 DEF Walking
    <3>6. PICK B : B = Closure(walk.root) BY Zenon
    <3>7. B = Closure(walk.root)' BY Zenon, <3>2, <3>6 DEF Closure, Index, Blob
    <3>8. walk.gen = col.gen => Guarded(Closure(walk.root))' BY Zenon, <1>5, <3>5, <3>6, <3>7
    <3> QED BY Zenon, <1>3, <1>8, <2>1, <3>2, <3>4, <3>8
  <2>3. CASE ~Known(walk.root, walk.gen)
    <3>1. walk' = [walk EXCEPT !.pc = "blob"] /\ Obtain({Index(walk.root)}) BY Zenon, <1>11, <2>3 DEF SyncIndex
    <3>2. /\ walk' = [pc |-> walk'.pc, head |-> walk'.head, root |-> walk'.root, gen |-> walk'.gen]
          /\ walk'.pc = "blob" /\ walk'.head = walk.head /\ walk'.root = walk.root /\ walk'.gen = walk.gen
      BY Zenon, <1>3, <3>1
    <3>3. PICK B : B = {Index(walk.root)} BY Zenon
    <3>4. Guarded(B)' BY Zenon, <3>1, <3>3, JoinsObtained
    <3>5. B = {Index(walk.root)}' BY Zenon, <3>2, <3>3 DEF Index
    <3> QED BY Zenon, <1>3, <1>8, <2>1, <3>2, <3>4, <3>5
  <2> QED BY Zenon, <2>2, <2>3
<1>12. ASSUME SyncBlob(~Locked) PROVE Walking'
  <2>1. Obtain({Blob(walk.root)}) /\ walk.pc = "blob" /\ walk.head \in site.heads BY Zenon, <1>12 DEF SyncBlob, Walking
  <2>2. CASE site.full /\ walk.root \in Mislabelled BY Zenon, <1>9, <1>12, <2>2 DEF SyncBlob
  <2>3. CASE ~(site.full /\ walk.root \in Mislabelled)
    <3>0. PICK rt, gn : rt = walk.root /\ gn = walk.gen BY Zenon
    <3>1. memo' = CommitMemo(memo, rt, gn) /\ walk' = [walk EXCEPT !.pc = "stamp"] BY Zenon, <1>12, <2>3, <3>0 DEF SyncBlob
    <3>2. /\ walk' = [pc |-> walk'.pc, head |-> walk'.head, root |-> walk'.root, gen |-> walk'.gen]
          /\ walk'.pc = "stamp" /\ walk'.head = walk.head /\ walk'.root = rt /\ walk'.gen = gn
      BY Zenon, <1>3, <3>0, <3>1
    <3>3. gn = col.gen => Guarded(Closure(rt))'
      <4>1. Guarded({Blob(rt)})' BY Zenon, <2>1, <3>0, JoinsObtained
      <4>2. gn = col.gen => Guarded({Index(rt)})' BY Zenon, <1>5, <2>1, <3>0 DEF Walking
      <4>3. Closure(rt) = {Index(rt)} \cup {Blob(rt)} BY Zenon DEF Closure
      <4> QED BY Zenon, <4>1, <4>2, <4>3 DEF Guarded
    <3>4. ASSUME NEW r \in DOMAIN memo'
          PROVE  /\ memo'[r] \in Nat /\ memo'[r] <= col'.gen
                 /\ memo'[r] = col'.gen => Guarded(Closure(r))'
                 /\ site.full => r \notin Mislabelled
      <4>1. CASE gn = col.gen /\ r = rt
        <5>1. memo'[r] = gn BY Zenon, <3>1, <4>1 DEF CommitMemo
        <5> QED BY Zenon, <1>3, <1>5, <2>3, <3>0, <3>3, <4>1, <5>1
      <4>2. CASE ~(gn = col.gen /\ r = rt)
        <5>1. r \in DOMAIN memo /\ memo'[r] = memo[r] BY Zenon, <3>1, <4>2 DEF CommitMemo
        <5> QED BY Zenon, <1>5, <5>1 DEF Walking
      <4> QED BY Zenon, <4>1, <4>2
    <3>5. walk'.gen = col'.gen => Guarded(Closure(walk.root))'
      <4>1. PICK B : B = Closure(rt) BY Zenon
      <4>2. B = Closure(walk.root)' BY Zenon, <3>2, <4>1 DEF Closure, Index, Blob
      <4> QED BY Zenon, <1>5, <3>2, <3>3, <4>1, <4>2
    <3> QED BY Zenon, <1>3, <1>5, <2>1, <2>3, <3>0, <3>2, <3>4, <3>5 DEF Walking
  <2> QED BY Zenon, <2>2, <2>3
<1>13. CASE SyncStamp
  <2>1. fetched' = Stamp(fetched, walk) /\ walk' = IdleWalk /\ UNCHANGED memo /\ walk.pc = "stamp" BY Zenon, <1>13 DEF SyncStamp
  <2>2. Walking' BY Zenon, <1>9, <2>1
  <2>3. DOMAIN fetched' = Kinds /\ DOMAIN fetched = Kinds /\ site.heads \subseteq Kinds BY Zenon, <2>1 DEF Stamp, Fetching, Serving
  <2>4. \A h \in Kinds : \/ fetched'[h] = fetched[h]
                         \/ h = walk.head /\ fetched'[h] = walk.root /\ adopted[h] = walk.root /\ walk.gen = col.gen
    BY Zenon, <2>1, <2>3 DEF Stamp
  <2>5. site.full => \A h \in Kinds : fetched'[h] \notin Mislabelled BY Zenon, <2>1, <2>4 DEF Walking, Fetching
  <2>6. ASSUME site.gc, NEW h \in site.heads, adopted'[h] # None, fetched'[h] = adopted'[h]
        PROVE  Guarded(Closure(adopted[h]))'
    <3>1. PICK B : B = Closure(adopted[h]) BY Zenon
    <3>2. Guarded(B) BY Zenon, <1>2, <2>1, <2>3, <2>4, <2>6, <3>1 DEF Walking, Fetching
    <3>3. B = Closure(adopted[h])' BY Zenon, <1>2, <3>1 DEF Closure, Index, Blob
    <3> QED BY Zenon, <1>5, <3>2, <3>3
  <2>7. Fetching' BY Zenon, <2>3, <2>5, <2>6 DEF Fetching
  <2> QED BY Zenon, <1>6, <2>2, <2>7
<1>14. ~SyncStamp => Walking'
  <2> SUFFICES ASSUME ~SyncStamp PROVE Walking' BY Zenon
  <2>1. SyncFails => Walking' BY Zenon, <1>9 DEF SyncFails
  <2> QED BY Zenon, <1>10, <1>11, <1>12, <2>1 DEF Syncs
<1> QED BY Zenon, <1>6, <1>7, <1>13, <1>14

\* A start, a resume or a crash: the epoch, the walk and the memo die with the process.
LEMMA HeldProcess ==
  ASSUME IInv, Serving, Mirroring, Collecting, Walking, Fetching, UNCHANGED <<site, mirror, role>>, Restarts
  PROVE  Collecting' /\ Walking' /\ Fetching'
<1>2. UNCHANGED cp BY Zenon DEF Restarts, Start, Recovered, Resume, Crash, durVars
<1>3. None \notin Mislabelled BY Zenon, NoneAssumption
<1>4. site.heads \subseteq Kinds /\ (site.external => ~site.gc /\ ~site.full) BY Zenon DEF Serving, Fetching
<1>5. CASE Crash
  <2>1. /\ up' = "down" /\ UNCHANGED have /\ adopted' = [h \in Kinds |-> None] /\ fetched' = [h \in Kinds |-> None]
        /\ memo' = EmptyMemo /\ walk' = IdleWalk /\ col' = IdleCol(col.gen)
    BY Zenon, <1>5 DEF Crash
  <2>2. /\ col'.gen = col.gen /\ col'.stage = "idle" /\ col'.scrub = None
        /\ col' = [gen |-> col'.gen, stage |-> col'.stage, mark |-> col'.mark, touched |-> col'.touched, scrub |-> col'.scrub]
    BY Zenon, <2>1 DEF IdleCol
  <2>3. /\ walk' = [pc |-> walk'.pc, head |-> walk'.head, root |-> walk'.root, gen |-> walk'.gen]
        /\ walk'.pc = "idle" /\ walk'.gen = 0
    BY Zenon, <2>1 DEF IdleWalk
  <2>4. DOMAIN memo' = {} BY Zenon, <2>1 DEF EmptyMemo
  <2>5. ~Active' /\ \A B : Guarded(B) => Guarded(B)' BY Zenon, <2>1, <2>2 DEF Guarded, Active
  <2>6. role = "write" /\ cp["fin"].doc = None /\ mirror # None => Guarded(Closure(mirror))' BY Zenon, <2>5 DEF Collecting
  <2>7. Collecting' BY Zenon, <1>2, <2>2, <2>5, <2>6 DEF Collecting
  <2>8. Walking' BY <2>2, <2>3, <2>4 DEF Walking, Collecting
  <2>9. DOMAIN fetched' = Kinds /\ \A h \in Kinds : fetched'[h] = None /\ adopted'[h] = None BY Zenon, <2>1
  <2>10. Fetching' BY Zenon, <1>3, <1>4, <2>1, <2>3, <2>9 DEF Fetching
  <2> QED BY Zenon, <2>7, <2>8, <2>10
<1>6. CASE ~Crash
  <2>1. role = "follow" /\ up # "on"
    BY Zenon, <1>6 DEF Restarts, Start, Recovered, Resume, Serving, Mirroring
  <2>2. UNCHANGED <<memo, walk>> BY Zenon, <1>6 DEF Restarts, Start, Recovered, Resume, storeVars
  <2>3. ~Active /\ DOMAIN fetched = Kinds /\ (\A h \in Kinds : fetched[h] = None /\ adopted[h] = None) /\ walk.pc = "idle"
    BY Zenon, <2>1 DEF Collecting, Fetching, Serving
  <2>4. Joins
    <3>1. UNCHANGED <<have, col>> \/ \E R : Load(R)
      BY Zenon, <1>6 DEF Restarts, Start, Recovered, Resume, Reloads, storeVars
    <3> QED BY Zenon, <3>1, JoinsNothing, JoinsLoaded
  <2>5. Collecting' BY Zenon, <2>1, <2>3, <2>4, CollectingJoins
  <2>6. Walking' BY Zenon, <2>2, <2>4, WalkingJoins
  <2>7. CASE Resume
    <3>1. PICK S \in SUBSET Selected : fetched' = [h \in Kinds |-> IF h \in S THEN Installed(h, cp[h].line) ELSE None]
      BY <2>7, ResumeServes, Zenon
    <3>2. DOMAIN fetched' = Kinds BY Zenon, <3>1
    <3>3. ~site.external => \A h \in Kinds : fetched'[h] = None BY Zenon, <2>3, <3>1 DEF Installed
    <3>4. up' = "on" BY Zenon, <2>7 DEF Resume
    <3>5. Fetching' BY Zenon, <1>3, <1>4, <2>1, <3>2, <3>3, <3>4 DEF Fetching
    <3> QED BY Zenon, <2>5, <2>6, <3>5
  <2>8. CASE Start \/ Recovered
    <3>1. UNCHANGED <<adopted, fetched>> BY Zenon, <2>8 DEF Start, Recovered, headVars
    <3>2. Fetching' BY Zenon, <1>3, <1>4, <2>2, <2>3, <3>1 DEF Fetching
    <3> QED BY Zenon, <2>5, <2>6, <3>2
  <2> QED BY Zenon, <1>6, <2>7, <2>8 DEF Restarts
<1> QED BY Zenon, <1>5, <1>6

\* A promotion takes over only what is completely held.
LEMMA HeldPromotion ==
  ASSUME IInv, Serving, Mirroring, Collecting, Walking, Fetching, UNCHANGED site, site.promote, PromotionStep
  PROVE  Collecting' /\ Walking' /\ Fetching'
<1>1. UNCHANGED <<fetched, memo, walk>> BY Zenon DEF PromotionStep
<1>2. None \notin Mislabelled BY Zenon, NoneAssumption
<1>3. site.heads \subseteq Kinds /\ (site.external => ~site.gc /\ ~site.full) /\ DOMAIN fetched = Kinds BY Zenon DEF Serving, Fetching
<1>4. up # "on" \/ role = "write"
  BY Zenon DEF PromotionStep, Reassign, ReconcilePromotion, OpenHead, WriterAppends, Shutdown
<1>5. walk.pc = "idle" /\ \A h \in Kinds : fetched[h] = None BY Zenon, <1>4 DEF Fetching
<1>6. Fetching' BY Zenon, <1>1, <1>2, <1>3, <1>5 DEF Fetching
<1>7. Joins
  <2>1. UNCHANGED <<have, col>> \/ \E B : Obtain(B)
    BY Zenon DEF PromotionStep, Reassign, ReconcilePromotion, OpenHead, WriterAppends, Shutdown
  <2> QED BY Zenon, <2>1, JoinsNothing, JoinsObtained
<1>8. Walking' BY Zenon, <1>1, <1>7, WalkingJoins
<1>9. \A B : Guarded(B) => Guarded(B)' BY Zenon, <1>7, JoinsKeep
<1>10. up' # "on" => ~Active
  BY Zenon DEF PromotionStep, Reassign, ReconcilePromotion, OpenHead, WriterAppends, Shutdown, Collecting
<1>11. ASSUME role' = "write", cp'["fin"].doc = None, mirror' # None PROVE Guarded(Closure(mirror))'
  <2>1. ASSUME UNCHANGED mirror, Guarded(Closure(mirror)) PROVE Guarded(Closure(mirror))'
    <3>1. PICK B : B = Closure(mirror) BY Zenon
    <3>2. B = Closure(mirror)' BY Zenon, <2>1, <3>1 DEF Closure, Index, Blob
    <3> QED BY Zenon, <1>9, <2>1, <3>1, <3>2
  <2>2. CASE role = "write" /\ cp["fin"].doc = None /\ mirror # None /\ UNCHANGED mirror BY Zenon, <2>1, <2>2 DEF Collecting
  <2>3. CASE Reassign
    <3>1. role = "follow" /\ UNCHANGED <<cp, mirror>> BY Zenon, <1>11, <2>3 DEF Reassign
    <3>2. mirror = None BY Zenon, <1>11, <3>1 DEF Mirroring
    <3> QED BY Zenon, <1>11, <3>1, <3>2
  <2>4. CASE ReconcilePromotion
    <3>1. role = "write" /\ up = "down" /\ UNCHANGED <<have, col>> BY Zenon, <2>4 DEF ReconcilePromotion
    <3>2. CASE cp["fin"].doc = None BY Zenon, <1>11, <2>2, <2>4, <3>1, <3>2 DEF ReconcilePromotion
    <3>3. CASE cp["fin"].doc # None
      <4>1. PICK r : r = cp["fin"].line BY Zenon
      <4>2. CompletelyHeld(r) /\ mirror' = r BY Zenon, <2>4, <3>3, <4>1 DEF ReconcilePromotion
      <4>3. ~Active BY Zenon, <3>1 DEF Collecting
      <4>4. Guarded(Closure(r))' BY Zenon, <1>9, <4>2, <4>3 DEF Guarded, CompletelyHeld
      <4>5. PICK B : B = Closure(r) BY Zenon
      <4>6. B = Closure(mirror)' BY Zenon, <4>2, <4>5 DEF Closure, Index, Blob
      <4> QED BY Zenon, <4>4, <4>5, <4>6
    <3> QED BY Zenon, <3>2, <3>3
  <2>5. CASE OpenHead
    <3>1. role = "write" /\ cp["fin"].doc = None BY Zenon, <2>5 DEF OpenHead, IInv, Exclusive, Mirroring
    <3>2. CASE mirror # None BY Zenon, <2>2, <2>5, <3>1, <3>2 DEF OpenHead
    <3>3. CASE mirror = None
      <4>1. PICK B : B = Closure(0) BY Zenon
      <4>2. Obtain(B) /\ mirror' = 0 BY Zenon, <2>5, <3>3, <4>1 DEF OpenHead
      <4>3. B = Closure(mirror)' BY Zenon, <4>1, <4>2 DEF Closure, Index, Blob
      <4> QED BY Zenon, <4>2, <4>3, JoinsObtained
    <3> QED BY Zenon, <3>2, <3>3
  <2>6. CASE WriterAppends
    <3>1. PICK r : r = mirror + 1 BY Zenon
    <3>2. PICK B : B = Closure(r) BY Zenon
    <3>3. Obtain(B) /\ mirror' = r BY Zenon, <2>6, <3>1, <3>2 DEF WriterAppends
    <3>4. B = Closure(mirror)' BY Zenon, <3>2, <3>3 DEF Closure, Index, Blob
    <3> QED BY Zenon, <3>3, <3>4, JoinsObtained
  <2>7. CASE Shutdown BY Zenon, <1>11, <2>2, <2>7 DEF Shutdown
  <2> QED BY Zenon, <2>3, <2>4, <2>5, <2>6, <2>7 DEF PromotionStep
<1>12. Collecting' BY Zenon, <1>7, <1>10, <1>11, CollectingJoins
<1> QED BY Zenon, <1>6, <1>8, <1>12

-----------------------------------------------------------------------------
\* The retention ledger of a Kubo replica.

EntriesOf(L) == {L.cur, L.pend} \cup L.clean
Records(E, q) == \E e \in E : e.owned = TRUE /\ e.gen = q.gen

\* The ledger L may be saved while the pins are P: it records every pin, and nothing in
\* it is borrowed.
Safe(L, P) ==
  /\ L = [cur |-> L.cur, pend |-> L.pend, clean |-> L.clean]
  /\ \A q \in P : Records(EntriesOf(L), q)
  /\ \A e \in EntriesOf(L) : e.gen # None => e.owned = TRUE

\* It does so without its pending entry once g takes that place.
Displaced(L, P, g) == \A q \in P : q.gen = g \/ Records({L.cur} \cup L.clean, q)

\* Every pin is under the reserved name.
UnderName(P) == \A q \in P : q = Ours(q.gen) /\ q.gen # None

Operation ==
  rc = [op |-> rc.op, pc |-> rc.pc, gen |-> rc.gen, owned |-> rc.owned, seen |-> rc.seen, st |-> rc.st,
        then |-> rc.then, ok |-> rc.ok]

\* The operation is at one of the steps, or cleans up before it.
Toward(steps) == rc.pc \in steps \/ (rc.pc \in {"remove", "save"} /\ rc.then \in steps)

\* What the operation has established on the way.
Underway ==
  /\ rc.pc \in {"idle", "end", "remove", "save", "check", "displace", "room", "intend", "pin", "verify", "promote"}
  /\ rc.pc \in {"remove", "save"} => rc.then \in {"displace", "intend", "promote", "end"}
  /\ rc.pc \notin {"idle", "end"} => Safe(rc.st, pins)
  /\ rc.pc \in {"check", "pin", "verify"} => rc.st = led
  /\ rc.pc \in {"pin", "verify"} => rc.st.pend.gen = rc.gen /\ rc.st.pend.owned = TRUE
  /\ Toward({"displace", "room", "intend"}) \/ rc.pc = "pin" => rc.gen # None /\ rc.owned = TRUE
  /\ Toward({"room", "intend"}) => Displaced(rc.st, pins, rc.gen)
  /\ Toward({"promote"}) => rc.st.pend.gen = rc.gen

RInv == Operation /\ UnderName(pins) /\ Safe(led, pins) /\ Underway

-----------------------------------------------------------------------------
\* What the operations make of a ledger.

\* The pending entry becomes debt when the current generation is prepared again.
LEMMA RetiredIsSafe ==
  ASSUME NEW L, NEW P, UnderName(P), Safe(L, P)
  PROVE  Safe([cur |-> L.cur, pend |-> NoEntry, clean |-> L.clean \cup {e \in {L.pend} : e.owned}], P)
<1> DEFINE M == [cur |-> L.cur, pend |-> NoEntry, clean |-> L.clean \cup {e \in {L.pend} : e.owned}]
<1>1. \A q \in P : Records(EntriesOf(M), q) BY Zenon DEF Safe, Records, EntriesOf
<1>2. \A e \in EntriesOf(M) : e.gen # None => e.owned = TRUE BY DEF Safe, EntriesOf, NoEntry
<1> QED BY Zenon, <1>1, <1>2 DEF Safe

\* So does one that another generation displaces.
LEMMA DisplacedIsSafe ==
  ASSUME NEW L, NEW P, NEW g, UnderName(P), Safe(L, P)
  PROVE  /\ Safe([L EXCEPT !.clean = @ \cup {L.pend}], P)
         /\ Displaced([L EXCEPT !.clean = @ \cup {L.pend}], P, g)
<1> DEFINE M == [L EXCEPT !.clean = @ \cup {L.pend}]
<1>1. /\ M.cur = L.cur /\ M.pend = L.pend /\ M.clean = L.clean \cup {L.pend}
      /\ M = [cur |-> M.cur, pend |-> M.pend, clean |-> M.clean]
  BY DEF Safe
<1>2. \A q \in P : Records({M.cur} \cup M.clean, q) BY Zenon, <1>1 DEF Safe, Records, EntriesOf
<1>3. \A e \in EntriesOf(M) : e.gen # None => e.owned = TRUE BY Zenon, <1>1 DEF Safe, EntriesOf
<1> QED BY <1>1, <1>2, <1>3 DEF Safe, Displaced, Records, EntriesOf

\* There is nothing to displace where the entry is empty or the same generation.
LEMMA NothingDisplaced ==
  ASSUME NEW L, NEW P, NEW g, UnderName(P), Safe(L, P), ~(L.pend.owned /\ L.pend.gen # g)
  PROVE  Displaced(L, P, g)
BY Zenon DEF UnderName, Safe, Displaced, Records, EntriesOf

\* The intent records what is about to be pinned.
LEMMA IntendedIsSafe ==
  ASSUME NEW L, NEW P, NEW g, Safe(L, P), Displaced(L, P, g)
  PROVE  Safe([cur |-> L.cur, pend |-> [gen |-> g, owned |-> TRUE], clean |-> {e \in L.clean : e.gen # g}], P)
<1> DEFINE M == [cur |-> L.cur, pend |-> [gen |-> g, owned |-> TRUE], clean |-> {e \in L.clean : e.gen # g}]
<1>1. \A q \in P : Records(EntriesOf(M), q)
  <2> TAKE q \in P
  <2>1. CASE q.gen = g
    <3>1. M.pend \in EntriesOf(M) /\ M.pend.owned = TRUE /\ M.pend.gen = g BY Zenon DEF EntriesOf
    <3> QED BY Zenon, <2>1, <3>1 DEF Records
  <2>2. CASE q.gen # g BY Zenon, <2>2 DEF Displaced, Records, EntriesOf
  <2> QED BY Zenon, <2>1, <2>2
<1>2. \A e \in EntriesOf(M) : e.gen # None => e.owned = TRUE BY DEF Safe, EntriesOf
<1> QED BY Zenon, <1>1, <1>2 DEF Safe

\* The pending entry becomes the current one, and the former debt.
LEMMA PromotedIsSafe ==
  ASSUME NEW L, NEW P, UnderName(P), Safe(L, P)
  PROVE  Safe([cur |-> L.pend, pend |-> NoEntry, clean |-> L.clean \cup {e \in {L.cur} : e.owned /\ e.gen # L.pend.gen}], P)
<1> DEFINE M == [cur |-> L.pend, pend |-> NoEntry, clean |-> L.clean \cup {e \in {L.cur} : e.owned /\ e.gen # L.pend.gen}]
<1>1. \A q \in P : Records(EntriesOf(M), q) BY DEF UnderName, Safe, Records, EntriesOf
<1>2. \A e \in EntriesOf(M) : e.gen # None => e.owned = TRUE BY DEF Safe, EntriesOf, NoEntry
<1> QED BY Zenon, <1>1, <1>2 DEF Safe

\* A removal that fails leaves its anchor on the list.
LEMMA RemovedIsSafe ==
  ASSUME NEW L, NEW P, NEW stuck \in SUBSET L.clean, NEW gone \in SUBSET stuck, UnderName(P), Safe(L, P),
         NEW Q, Q = P \ {Ours(e.gen) : e \in (L.clean \ stuck) \cup gone}
  PROVE  /\ Safe([L EXCEPT !.clean = stuck], Q) /\ UnderName(Q)
         /\ \A g : Displaced(L, P, g) => Displaced([L EXCEPT !.clean = stuck], Q, g)
<1> DEFINE M == [L EXCEPT !.clean = stuck]
<1>1. /\ M.cur = L.cur /\ M.pend = L.pend /\ M.clean = stuck
      /\ M = [cur |-> M.cur, pend |-> M.pend, clean |-> M.clean]
  BY DEF Safe
<1>2. ASSUME NEW q \in Q, NEW e \in L.clean, e.gen = q.gen PROVE e \in stuck BY Zenon, <1>2 DEF UnderName
<1>3. \A q \in Q : Records(EntriesOf(M), q) BY Zenon, <1>1, <1>2 DEF Safe, Records, EntriesOf
<1>4. \A e \in EntriesOf(M) : e.gen # None => e.owned = TRUE BY Zenon, <1>1 DEF Safe, EntriesOf
<1>5. ASSUME NEW g, Displaced(L, P, g) PROVE Displaced(M, Q, g) BY Zenon, <1>1, <1>2, <1>5 DEF Displaced, Records
<1>6. UnderName(Q) BY Zenon DEF UnderName
<1> QED BY Zenon, <1>1, <1>3, <1>4, <1>5, <1>6 DEF Safe

\* A ledger that may be saved still may when pins go.
LEMMA FewerIsSafe ==
  ASSUME NEW L, NEW P, NEW Q \in SUBSET P, Safe(L, P)
  PROVE  Safe(L, Q)
BY Zenon DEF Safe

\* What is recorded may be pinned.
LEMMA PinnedIsSafe ==
  ASSUME NEW L, NEW P, UnderName(P), Safe(L, P), L.pend.gen # None, L.pend.owned = TRUE
  PROVE  Safe(L, P \cup {Ours(L.pend.gen)}) /\ UnderName(P \cup {Ours(L.pend.gen)})
<1>1. Records(EntriesOf(L), Ours(L.pend.gen)) BY Zenon DEF Records, EntriesOf, Ours
<1>2. UnderName(P \cup {Ours(L.pend.gen)}) BY DEF UnderName, Ours
<1> QED BY Zenon, <1>1, <1>2 DEF Safe

-----------------------------------------------------------------------------
\* An operation that ends disturbs nothing.
LEMMA KeepsEnds ==
  ASSUME RInv, UNCHANGED <<led, pins>>, NEW ok, Ends(ok)
  PROVE  RInv'
<1>1. Operation' /\ rc'.pc = "end" BY Zenon DEF Ends, RInv, Operation
<1> QED BY Zenon, <1>1 DEF RInv, Underway, Toward

\* A step along the same copy of the ledger.
LEMMA StepsOn ==
  ASSUME RInv, UNCHANGED <<led, pins>>, NEW step, rc' = [rc EXCEPT !.pc = step]
  PROVE  /\ Operation' /\ rc'.pc = step /\ rc'.gen = rc.gen /\ rc'.owned = rc.owned /\ rc'.st = rc.st
         /\ rc'.then = rc.then /\ rc'.op = rc.op /\ rc'.ok = rc.ok
BY Zenon DEF RInv, Operation

\* The clean-up that comes before the next step.
LEMMA CleansFirst ==
  ASSUME Operation, NEW st, NEW then, NEW ok, Cleans(st, then, ok)
  PROVE  /\ Operation' /\ rc'.pc \in {then, "remove"} /\ rc'.gen = rc.gen /\ rc'.owned = rc.owned
         /\ rc'.st = st /\ rc'.then = then /\ rc'.op = rc.op /\ rc'.ok = ok
BY Zenon DEF Operation, Cleans

\* An operation that only has debts left.
LEMMA KeepsCleans ==
  ASSUME RInv, NEW st, NEW ok, Cleans(st, "end", ok), Safe(st, pins'), Safe(led', pins'), UnderName(pins')
  PROVE  RInv'
<1>1. Operation' /\ rc'.pc \in {"end", "remove"} /\ rc'.st = st /\ rc'.then = "end" BY Zenon, CleansFirst DEF RInv
<1> QED BY Zenon, <1>1 DEF RInv, Underway, Toward

\* CheckPrepare keeps the inductive invariant.
LEMMA KeepsCheckPrepare ==
  ASSUME RInv, CheckPrepare
  PROVE  RInv'
<1> USE DEF RInv
<1>1. CASE Ends(FALSE) /\ UNCHANGED led BY Zenon, <1>1, KeepsEnds DEF CheckPrepare
<1>2. ASSUME NEW st, st = [cur |-> led.cur, pend |-> NoEntry, clean |-> led.clean \cup {e \in {led.pend} : e.owned}],
             led' = st, Cleans(st, "end", TRUE)
      PROVE  RInv'
  <2>1. Safe(st, pins) /\ pins' = pins BY Zenon, <1>2, RetiredIsSafe DEF CheckPrepare
  <2> QED BY Zenon, <1>2, <2>1, KeepsCleans
<1>3. ASSUME NEW owned \in Ownership(rc.gen), UNCHANGED led, NEW pc \in {"remove", "displace"},
             rc' = [rc EXCEPT !.owned = owned, !.seen = Pinned(rc.gen), !.then = "displace", !.pc = pc]
      PROVE  RInv'
  <2>1. rc.gen # None BY Zenon, <1>3 DEF Ownership
  <2>2. owned = TRUE BY Zenon, <1>3 DEF Ownership, Retained, Safe, EntriesOf, Pinned, UnderName, Ours
  <2>3. /\ Operation' /\ rc'.pc = pc /\ rc'.gen = rc.gen /\ rc'.owned = owned /\ rc'.st = rc.st /\ rc'.then = "displace"
    BY Zenon, <1>3 DEF Operation
  <2>4. rc.pc = "check" /\ pins' = pins BY Zenon DEF CheckPrepare
  <2> QED BY Zenon, <1>3, <2>1, <2>2, <2>3, <2>4 DEF Underway, Toward
<1> QED BY Zenon, <1>1, <1>2, <1>3 DEF CheckPrepare

\* Displace keeps the inductive invariant.
LEMMA KeepsDisplace ==
  ASSUME RInv, Displace
  PROVE  RInv'
<1> USE DEF RInv
<1>1. /\ rc.pc = "displace" /\ UNCHANGED <<led, pins>> /\ Safe(rc.st, pins) /\ rc.gen # None /\ rc.owned = TRUE
  BY Zenon DEF Displace, Underway, Toward
<1>2. CASE Ends(FALSE) BY Zenon, <1>1, <1>2, KeepsEnds
<1>3. CASE ~(rc.st.pend.owned /\ rc.st.pend.gen # rc.gen) /\ rc' = [rc EXCEPT !.pc = "room"]
  <2>1. Displaced(rc.st, pins, rc.gen) BY Zenon, <1>1, <1>3, NothingDisplaced
  <2>2. Operation' /\ rc'.pc = "room" /\ rc'.gen = rc.gen /\ rc'.owned = rc.owned /\ rc'.st = rc.st
    BY Zenon, <1>1, <1>3, StepsOn
  <2> QED BY Zenon, <1>1, <2>1, <2>2 DEF Underway, Toward
<1>4. CASE rc' = [rc EXCEPT !.pc = "room", !.st.clean = @ \cup {rc.st.pend}]
  <2> DEFINE st == [rc.st EXCEPT !.clean = @ \cup {rc.st.pend}]
  <2>1. Safe(st, pins) /\ Displaced(st, pins, rc.gen) BY Zenon, <1>1, DisplacedIsSafe
  <2>2. Operation' /\ rc'.pc = "room" /\ rc'.gen = rc.gen /\ rc'.owned = rc.owned /\ rc'.st = st BY Zenon, <1>4 DEF Operation
  <2> QED BY Zenon, <1>1, <2>1, <2>2 DEF Underway, Toward
<1> QED BY Zenon, <1>2, <1>3, <1>4 DEF Displace

\* Room keeps the inductive invariant.
LEMMA KeepsRoom ==
  ASSUME RInv, Room
  PROVE  RInv'
<1> USE DEF RInv
<1>1. /\ rc.pc = "room" /\ UNCHANGED <<led, pins>> /\ Safe(rc.st, pins) /\ rc.gen # None /\ rc.owned = TRUE
      /\ Displaced(rc.st, pins, rc.gen)
  BY Zenon DEF Room, Underway, Toward
<1>2. CASE Cleans(rc.st, "intend", rc.ok)
  <2>1. /\ Operation' /\ rc'.pc \in {"intend", "remove"} /\ rc'.gen = rc.gen /\ rc'.owned = rc.owned /\ rc'.st = rc.st
        /\ rc'.then = "intend"
    BY Zenon, <1>2, CleansFirst
  <2> QED BY Zenon, <1>1, <2>1 DEF Underway, Toward
<1>3. CASE rc' = [rc EXCEPT !.pc = "intend"]
  <2>1. Operation' /\ rc'.pc = "intend" /\ rc'.gen = rc.gen /\ rc'.owned = rc.owned /\ rc'.st = rc.st
    BY Zenon, <1>1, <1>3, StepsOn
  <2> QED BY Zenon, <1>1, <2>1 DEF Underway, Toward
<1> QED BY Zenon, <1>2, <1>3 DEF Room

\* IntendPending keeps the inductive invariant.
LEMMA KeepsIntendPending ==
  ASSUME RInv, IntendPending
  PROVE  RInv'
<1> USE DEF RInv
<1>1. /\ rc.pc = "intend" /\ UNCHANGED pins /\ Safe(rc.st, pins) /\ rc.gen # None /\ rc.owned = TRUE
      /\ Displaced(rc.st, pins, rc.gen)
  BY Zenon DEF IntendPending, Underway, Toward
<1>2. CASE Ends(FALSE) /\ UNCHANGED led BY Zenon, <1>1, <1>2, KeepsEnds
<1>3. ASSUME NEW st, NEW pc \in {"verify", "pin"},
             st = [cur |-> rc.st.cur, pend |-> [gen |-> rc.gen, owned |-> rc.owned],
                   clean |-> {e \in rc.st.clean : e.gen # rc.gen}],
             led' = st, rc' = [rc EXCEPT !.st = st, !.pc = pc]
      PROVE  RInv'
  <2>1. Safe(st, pins) BY Zenon, <1>1, <1>3, IntendedIsSafe
  <2>2. Operation' /\ rc'.pc = pc /\ rc'.gen = rc.gen /\ rc'.owned = rc.owned /\ rc'.st = st BY Zenon, <1>3 DEF Operation
  <2>3. st.pend.gen = rc.gen /\ st.pend.owned = TRUE BY Zenon, <1>1, <1>3
  <2> QED BY Zenon, <1>1, <1>3, <2>1, <2>2, <2>3 DEF Underway, Toward
<1> QED BY Zenon, <1>2, <1>3 DEF IntendPending, Intend

\* Pin keeps the inductive invariant.
LEMMA KeepsPin ==
  ASSUME RInv, Pin
  PROVE  RInv'
<1> USE DEF RInv
<1>1. /\ rc.pc = "pin" /\ UNCHANGED led /\ rc.st = led /\ rc.gen # None
      /\ rc.st.pend.gen = rc.gen /\ rc.st.pend.owned = TRUE
  BY Zenon DEF Pin, Underway, Toward
<1>2. CASE Ends(FALSE) /\ UNCHANGED pins BY Zenon, <1>1, <1>2, KeepsEnds
<1>3. ASSUME pins' \in {pins, pins \cup {Ours(rc.gen)}} PROVE Safe(led, pins') /\ UnderName(pins')
  BY Zenon, <1>1, <1>3, PinnedIsSafe
<1>4. CASE pins' = pins \cup {Ours(rc.gen)} /\ rc' = [rc EXCEPT !.pc = "verify"]
  <2>1. Operation' /\ rc'.pc = "verify" /\ rc'.gen = rc.gen /\ rc'.st = rc.st BY Zenon, <1>4 DEF Operation
  <2> QED BY Zenon, <1>1, <1>3, <1>4, <2>1 DEF Underway, Toward
<1>5. CASE pins' \in {pins, pins \cup {Ours(rc.gen)}} /\ Cleans(rc.st, "end", FALSE)
  <2>1. Safe(led', pins') /\ Safe(rc.st, pins') /\ UnderName(pins') BY Zenon, <1>1, <1>3, <1>5
  <2> QED BY Zenon, <1>5, <2>1, KeepsCleans
<1> QED BY Zenon, <1>2, <1>4, <1>5 DEF Pin

\* Verify keeps the inductive invariant.
LEMMA KeepsVerify ==
  ASSUME RInv, Verify
  PROVE  RInv'
<1> USE DEF RInv
<1>1. rc.pc = "verify" /\ UNCHANGED <<led, pins>> /\ Safe(rc.st, pins) BY Zenon DEF Verify, Underway
<1>2. PICK ok : Cleans(rc.st, "end", ok) BY Zenon DEF Verify
<1> QED BY Zenon, <1>1, <1>2, KeepsCleans

\* CheckCommit keeps the inductive invariant.
LEMMA KeepsCheckCommit ==
  ASSUME RInv, CheckCommit
  PROVE  RInv'
<1> USE DEF RInv
<1>1. rc.pc = "check" /\ UNCHANGED <<led, pins>> /\ rc.st = led BY Zenon DEF CheckCommit, Underway
<1>2. CASE Ends(FALSE) BY Zenon, <1>1, <1>2, KeepsEnds
<1>3. CASE Cleans(led, "end", TRUE) BY Zenon, <1>1, <1>3, KeepsCleans
<1>4. CASE led.pend.gen = rc.gen /\ Cleans(led, "promote", TRUE)
  <2>1. /\ Operation' /\ rc'.pc \in {"promote", "remove"} /\ rc'.gen = rc.gen /\ rc'.st = led /\ rc'.then = "promote"
    BY Zenon, <1>4, CleansFirst
  <2> QED BY Zenon, <1>1, <1>4, <2>1 DEF Underway, Toward
<1>5. CASE led.pend.gen = rc.gen /\ rc' = [rc EXCEPT !.pc = "promote"] BY Zenon, <1>1, <1>5, StepsOn DEF Underway, Toward
<1> QED BY Zenon, <1>2, <1>3, <1>4, <1>5 DEF CheckCommit

\* Promote keeps the inductive invariant.
LEMMA KeepsPromote ==
  ASSUME RInv, Promote
  PROVE  RInv'
<1> USE DEF RInv
<1>1. rc.pc = "promote" /\ UNCHANGED pins /\ Safe(rc.st, pins) /\ rc.st.pend.gen = rc.gen
  BY Zenon DEF Promote, Underway, Toward
<1>2. CASE Ends(FALSE) /\ UNCHANGED led BY Zenon, <1>1, <1>2, KeepsEnds
<1>3. ASSUME NEW st, st = [cur |-> rc.st.pend, pend |-> NoEntry,
                           clean |-> rc.st.clean \cup {e \in {rc.st.cur} : e.owned /\ e.gen # rc.gen}],
             led' = st, Cleans(st, "end", TRUE)
      PROVE  RInv'
  <2>1. Safe(st, pins) BY Zenon, <1>1, <1>3, PromotedIsSafe
  <2> QED BY Zenon, <1>1, <1>3, <2>1, KeepsCleans
<1> QED BY Zenon, <1>2, <1>3 DEF Promote

\* CheckRecover keeps the inductive invariant.
LEMMA KeepsCheckRecover ==
  ASSUME RInv, CheckRecover
  PROVE  RInv'
<1> USE DEF RInv
<1>1. rc.pc = "check" /\ UNCHANGED <<led, pins>> BY Zenon DEF CheckRecover
<1>2. CASE Ends(FALSE) BY Zenon, <1>1, <1>2, KeepsEnds
<1>3. CASE Cleans(led, "end", TRUE) BY Zenon, <1>1, <1>3, KeepsCleans
<1> QED BY Zenon, <1>2, <1>3 DEF CheckRecover

\* Remove keeps the inductive invariant.
LEMMA KeepsRemove ==
  ASSUME RInv, Remove
  PROVE  RInv'
<1> USE DEF RInv
<1>1. rc.pc = "remove" /\ UNCHANGED led /\ Safe(rc.st, pins) BY Zenon DEF Remove, Underway
<1>2. PICK stuck \in SUBSET rc.st.clean :
        /\ \E gone \in {{}, stuck} : pins' = pins \ {Ours(e.gen) : e \in (rc.st.clean \ stuck) \cup gone}
        /\ rc' = [rc EXCEPT !.pc = "save", !.st.clean = stuck]
  BY Zenon DEF Remove
<1>3. PICK gone \in SUBSET stuck : pins' = pins \ {Ours(e.gen) : e \in (rc.st.clean \ stuck) \cup gone} BY Zenon, <1>2
<1> DEFINE st == [rc.st EXCEPT !.clean = stuck]
<1>4. /\ Safe(st, pins') /\ UnderName(pins')
      /\ \A g : Displaced(rc.st, pins, g) => Displaced(st, pins', g)
  BY Zenon, <1>1, <1>3, RemovedIsSafe
<1>5. Safe(led, pins') BY <1>3, FewerIsSafe
<1>6. /\ Operation' /\ rc'.pc = "save" /\ rc'.gen = rc.gen /\ rc'.owned = rc.owned /\ rc'.then = rc.then /\ rc'.st = st
  BY Zenon, <1>2 DEF Operation
<1>7. st.pend = rc.st.pend BY Zenon, <1>1 DEF Safe
<1> QED BY Zenon, <1>1, <1>4, <1>5, <1>6, <1>7 DEF Underway, Toward

\* SaveCleanup keeps the inductive invariant.
LEMMA KeepsSaveCleanup ==
  ASSUME RInv, SaveCleanup
  PROVE  RInv'
<1> USE DEF RInv
<1>1. /\ rc.pc = "save" /\ led' = rc.st /\ UNCHANGED pins /\ Safe(rc.st, pins)
      /\ rc.then \in {"displace", "intend", "promote", "end"}
  BY Zenon DEF SaveCleanup, Underway
<1>2. /\ Operation' /\ rc'.pc = rc.then /\ rc'.gen = rc.gen /\ rc'.owned = rc.owned /\ rc'.st = rc.st
  BY Zenon DEF SaveCleanup, Operation
<1> QED BY Zenon, <1>1, <1>2 DEF Underway, Toward

\* Every step of an operation keeps the inductive invariant.
LEMMA ControllerKeeps ==
  ASSUME RInv, ControllerStep
  PROVE  RInv'
<1>1. CASE CheckPrepare \/ Displace \/ Room \/ IntendPending
  BY Zenon, <1>1, KeepsCheckPrepare, KeepsDisplace, KeepsRoom, KeepsIntendPending
<1>2. CASE CheckCommit \/ Promote \/ CheckRecover \/ SaveCleanup
  BY Zenon, <1>2, KeepsCheckCommit, KeepsPromote, KeepsCheckRecover, KeepsSaveCleanup
<1>3. CASE Pin \/ Verify \/ Remove BY Zenon, <1>3, KeepsPin, KeepsVerify, KeepsRemove
<1>4. CASE RpcFails BY Zenon, <1>4, KeepsEnds DEF RpcFails
<1> QED BY Zenon, <1>1, <1>2, <1>3, <1>4 DEF ControllerStep

\* So does the follower, which begins an operation or takes its result, and a crash.
LEMMA BeginKeeps ==
  ASSUME RInv, NEW op, NEW g, Begin(op, g)
  PROVE  RInv'
<1>1. rc' = [op |-> op, pc |-> "check", gen |-> g, owned |-> FALSE, seen |-> FALSE, st |-> led, then |-> "none",
             ok |-> TRUE] /\ UNCHANGED <<led, pins>>
  BY Zenon DEF Begin, IdleOp
<1> QED BY Zenon, <1>1 DEF RInv, Operation, Underway, Toward

\* Nothing is left of an operation that is over.
LEMMA IdleKeeps ==
  ASSUME RInv, rc' = IdleOp, UNCHANGED <<led, pins>>
  PROVE  RInv'
BY Zenon DEF RInv, IdleOp, Operation, Underway, Toward

\* Nor does anything else change the ledger, the pins or the operation.
LEMMA StutterKeeps ==
  ASSUME RInv, UNCHANGED ctlVars
  PROVE  RInv'
BY Zenon DEF RInv, ctlVars, Operation, Underway, Toward

\* Every step of the node is one of these for the controller.
Undisturbed ==
  \/ ControllerStep \/ UNCHANGED ctlVars
  \/ \E op, g : Begin(op, g)
  \/ rc' = IdleOp /\ UNCHANGED <<led, pins>>

\* The follower's steps begin an operation, take its result or leave it alone.
LEMMA FollowerSide ==
  ASSUME PollStep \/ Start \/ Recovered \/ Resume \/ Crash
  PROVE  Undisturbed
<1>1. CASE Start BY Zenon, <1>1 DEF Start, Undisturbed
<1>2. CASE Recovered BY Zenon, <1>2 DEF Recovered, Undisturbed
<1>3. CASE Resume BY Zenon, <1>3 DEF Resume, Undisturbed
<1>4. CASE Crash BY Zenon, <1>4 DEF Crash, Undisturbed
<1>5. ASSUME NEW p \in site.pollers,
             \/ Resolve(p) \/ Admit(p) \/ Protect(p) \/ ProtectWalk(p) \/ ProtectProof(p)
             \/ Prepare(p) \/ Prepared(p) \/ Commit(p) \/ Install(p) \/ Retire(p) \/ Retired(p)
      PROVE  Undisturbed
  <2>1. CASE Resolve(p) \/ Admit(p) \/ Protect(p) \/ ProtectWalk(p) \/ ProtectProof(p) \/ Commit(p) \/ Install(p)
    BY Zenon, <2>1 DEF Resolve, Admit, Protect, ProtectWalk, ProtectProof, Commit, Install, Undisturbed
  <2>2. CASE Prepare(p) \/ Retire(p) BY Zenon, <2>2 DEF Prepare, Retire, Undisturbed
  <2>3. CASE Prepared(p) \/ Retired(p) BY Zenon, <2>3 DEF Prepared, Retired, Undisturbed
  <2> QED BY Zenon, <1>5, <2>1, <2>2, <2>3
<1> QED BY Zenon, <1>1, <1>2, <1>3, <1>4, <1>5 DEF PollStep

-----------------------------------------------------------------------------
\* A verdict of the audit that nothing overtook is about the served generation.
Watched ==
  /\ health = [active |-> health.active, ok |-> health.ok, by |-> health.by]
  /\ audit = [pc |-> audit.pc, gen |-> audit.gen, moved |-> audit.moved, ok |-> audit.ok]
  /\ audit.pc # "idle" /\ ~audit.moved => audit.gen = health.active
  /\ audit.pc = "set" /\ audit.ok => audit.gen # None

Green == health.ok => health.active # None /\ health.by = health.active

HInv == Watched /\ Green

\* Only a generation that the ledger records is audited as held.
LEMMA AuditedIsNamed ==
  ASSUME RInv, NEW g, Audited(g)
  PROVE  g # None
<1>1. \A e : e.gen = None => ~Proven(e) BY Zenon DEF Proven, Ours, Pinned, RInv, UnderName
<1> QED BY Zenon, <1>1 DEF Audited

\* A write of the served generation marks the audit it overtakes.
LEMMA SetActiveKeeps ==
  ASSUME HInv, NEW h, h = [active |-> h.active, ok |-> h.ok, by |-> h.by], h.ok => h.active # None /\ h.by = h.active,
         SetActive(h)
  PROVE  HInv'
<1>1. Green' BY Zenon DEF SetActive, Green
<1>2. CASE audit.pc = "idle"
  <2>1. health' = h /\ audit' = audit BY Zenon, <1>2 DEF SetActive
  <2> QED BY Zenon, <1>1, <1>2, <2>1 DEF HInv, Watched
<1>3. CASE audit.pc # "idle"
  <2>1. health' = h /\ audit' = [audit EXCEPT !.moved = TRUE] BY Zenon, <1>3 DEF SetActive
  <2>2. audit'.pc = audit.pc /\ audit'.gen = audit.gen /\ audit'.moved = TRUE /\ audit'.ok = audit.ok
    BY Zenon, <2>1 DEF HInv, Watched
  <2>3. audit' = [pc |-> audit'.pc, gen |-> audit'.gen, moved |-> audit'.moved, ok |-> audit'.ok]
    BY Zenon, <2>1 DEF HInv, Watched
  <2> QED BY Zenon, <1>1, <2>1, <2>2, <2>3 DEF HInv, Watched
<1> QED BY Zenon, <1>2, <1>3

\* So does no generation being served.
LEMMA ClearActiveKeeps ==
  ASSUME HInv, ClearActive
  PROVE  HInv'
<1>1. NoHealth = [active |-> None, ok |-> FALSE, by |-> None] BY Zenon DEF NoHealth
<1> QED BY Zenon, <1>1, SetActiveKeeps DEF ClearActive

\* The audit's own steps.
LEMMA AuditKeeps ==
  ASSUME HInv, AuditStep
  PROVE  HInv'
<1> USE DEF HInv
<1>1. CASE AuditRead
  <2>1. health' = health /\ audit' = [pc |-> "ask", gen |-> health.active, moved |-> FALSE, ok |-> FALSE]
    BY Zenon, <1>1 DEF AuditRead, IdleAudit
  <2> QED BY Zenon, <2>1 DEF Watched, Green
<1>2. CASE AuditAsk
  <2>1. health' = health /\ Green' BY Zenon, <1>2 DEF AuditAsk, Green
  <2>2. /\ audit' = [pc |-> audit'.pc, gen |-> audit'.gen, moved |-> audit'.moved, ok |-> audit'.ok]
        /\ audit'.gen = audit.gen /\ audit'.moved = audit.moved /\ audit'.pc = "set" /\ audit.pc = "ask"
    BY Zenon, <1>2 DEF AuditAsk, Watched
  <2>3. audit'.ok => audit.gen # None BY Zenon, <1>2 DEF AuditAsk, Watched
  <2> QED BY Zenon, <2>1, <2>2, <2>3 DEF Watched
<1>3. CASE AuditSet
  <2>1. audit' = [pc |-> "idle", gen |-> None, moved |-> FALSE, ok |-> FALSE] BY Zenon, <1>3 DEF AuditSet, IdleAudit
  <2>2. CASE audit.moved BY <1>3, <2>1, <2>2 DEF AuditSet, Verdict, Watched, Green
  <2>3. CASE ~audit.moved
    <3>1. health' = [health EXCEPT !.ok = audit.ok, !.by = audit.gen] BY Zenon, <1>3, <2>3 DEF AuditSet, Verdict
    <3>2. /\ health' = [active |-> health'.active, ok |-> health'.ok, by |-> health'.by]
          /\ health'.active = health.active /\ health'.ok = audit.ok /\ health'.by = audit.gen
      BY Zenon, <3>1 DEF Watched
    <3>3. audit.gen = health.active /\ (audit.ok => audit.gen # None) BY Zenon, <1>3, <2>3 DEF AuditSet, Watched
    <3> QED BY Zenon, <2>1, <3>2, <3>3 DEF Watched, Green
  <2> QED BY Zenon, <2>2, <2>3
<1> QED BY Zenon, <1>1, <1>2, <1>3 DEF AuditStep

\* The follower activates what it committed, and what it resumed.
LEMMA FollowerKeeps ==
  ASSUME RInv, HInv, PollStep \/ Start \/ Recovered \/ Resume \/ Crash
  PROVE  HInv'
<1>1. CASE UNCHANGED <<health, audit>> BY Zenon, <1>1 DEF HInv, Watched, Green
<1>2. CASE health' = NoHealth /\ audit' = IdleAudit BY Zenon, <1>2 DEF NoHealth, IdleAudit, HInv, Watched, Green
<1>3. CASE ClearActive BY Zenon, <1>3, ClearActiveKeeps
<1>4. ASSUME NEW g, Activate(g) PROVE HInv'
  <2>1. CASE Audited(g) /\ SetActive([active |-> g, ok |-> TRUE, by |-> g]) BY Zenon, <2>1, AuditedIsNamed, SetActiveKeeps
  <2>2. CASE SetActive(NoHealth) BY Zenon, <2>2, ClearActiveKeeps DEF ClearActive
  <2> QED BY Zenon, <1>4, <2>1, <2>2 DEF Activate, ClearActive
<1>5. ASSUME NEW g, g # None, SetActive([active |-> g, ok |-> TRUE, by |-> g]) PROVE HInv' BY Zenon, <1>5, SetActiveKeeps
<1>6. CASE Start \/ Recovered BY Zenon, <1>1, <1>6 DEF Start, Recovered, runVars
<1>7. CASE Crash BY Zenon, <1>2, <1>7 DEF Crash
<1>8. CASE Resume
  <2> DEFINE roots == {<<h, cp[h].line>> : h \in Selected}
             guarded == IF led.cur \in Protecting(roots) THEN led.cur.gen ELSE led.pend.gen
  <2>1. \/ UNCHANGED <<health, audit>> \/ ClearActive
        \/ ProtectsAll(roots) /\ SetActive([active |-> guarded, ok |-> TRUE, by |-> guarded])
    BY Zenon, <1>8 DEF Resume
  <2>2. ProtectsAll(roots) => guarded # None BY Zenon DEF ProtectsAll, Protecting
  <2> QED BY Zenon, <1>1, <1>3, <1>5, <2>1, <2>2
<1>9. ASSUME NEW p \in site.pollers,
             \/ Resolve(p) \/ Admit(p) \/ Protect(p) \/ ProtectWalk(p) \/ ProtectProof(p)
             \/ Prepare(p) \/ Prepared(p) \/ Commit(p) \/ Install(p) \/ Retire(p) \/ Retired(p)
      PROVE  HInv'
  <2>1. CASE Resolve(p) \/ Admit(p) \/ Protect(p) \/ ProtectWalk(p) \/ ProtectProof(p) \/ Commit(p) \/ Install(p)
    BY Zenon, <1>1, <2>1 DEF Resolve, Admit, Protect, ProtectWalk, ProtectProof, Commit, Install, runVars
  <2>2. CASE Prepare(p) \/ Prepared(p) \/ Retire(p) BY Zenon, <1>1, <2>2 DEF Prepare, Prepared, Retire, runVars
  <2>3. CASE Retired(p) BY Zenon, <1>4, <2>3 DEF Retired
  <2> QED BY Zenon, <1>9, <2>1, <2>2, <2>3
<1> QED BY Zenon, <1>6, <1>7, <1>8, <1>9 DEF PollStep

-----------------------------------------------------------------------------
\* The requests of a Kubo replica's gateway.

\* Neither the pending generation nor the clean-up list repeats the current one.
Apart(L) ==
  /\ L.cur.owned => L.cur.gen # None
  /\ L.pend.owned => L.pend.gen # None
  /\ L.cur.gen # None => L.pend.gen # L.cur.gen /\ \A e \in L.clean : e.gen # L.cur.gen

\* Nor does the list the pending one.
Tidy(L) == \A e \in L.clean : e.gen # None => e.gen # L.pend.gen

\* The current generation is pinned.  A commit works on a tidy ledger, which its
\* Prepare left behind, so what it promotes is not what it cleans up.
Anchored ==
  /\ Apart(led) /\ (led.cur.gen # None => Ours(led.cur.gen) \in pins)
  /\ rc.pc \notin {"idle", "end"} => Apart(rc.st) /\ rc.st.cur = led.cur
  /\ Toward({"displace", "room", "intend"}) => rc.gen # led.cur.gen
  /\ rc.pc \in {"pin", "verify"} => Tidy(led)
  /\ rc.op = "commit" /\ rc.pc = "check" => Tidy(led)
  /\ Toward({"promote"}) => rc.op = "commit" /\ Tidy(rc.st) /\ Ours(rc.gen) \in pins
  /\ rc.op = "prepare" /\ rc.ok /\ Toward({"end"}) => Tidy(led) /\ (rc.pc # "end" => Tidy(rc.st))

\* A request that began on the current generation reads one that is still current, and
\* that the commit in progress keeps on serving.
Leased ==
  lease # None /\ lease.firm =>
    /\ led.cur.gen # None /\ <<"fin", lease.root>> \in led.cur.gen.heads
    /\ rc.op = "commit" /\ rc.pc \notin {"idle", "end"} => <<"fin", lease.root>> \in rc.gen.heads

\* An operation that ends without success.
LEMMA AnchorsEnd ==
  ASSUME RInv, Anchored, Leased, UNCHANGED <<led, pins, lease>>, Ends(FALSE)
  PROVE  Anchored' /\ Leased'
<1>1. rc'.pc = "end" /\ rc'.ok = FALSE /\ rc'.op = rc.op BY Zenon DEF Ends, RInv, Operation
<1> QED BY Zenon, <1>1 DEF Anchored, Leased, Toward, Apart, Ours

\* CheckPrepare, Displace and Room leave the current generation alone.
LEMMA AnchorsCheckPrepare ==
  ASSUME RInv, Anchored, Leased, UNCHANGED lease, CheckPrepare
  PROVE  Anchored' /\ Leased'
<1>0. rc.pc = "check" /\ rc.op = "prepare" /\ UNCHANGED pins /\ rc.st = led /\ Operation BY Zenon DEF CheckPrepare, RInv, Underway
<1>1. CASE Ends(FALSE) /\ UNCHANGED led BY Zenon, <1>0, <1>1, AnchorsEnd
<1>2. ASSUME NEW st, st = [cur |-> led.cur, pend |-> NoEntry, clean |-> led.clean \cup {e \in {led.pend} : e.owned}],
             led' = st, Cleans(st, "end", TRUE)
      PROVE  Anchored' /\ Leased'
  <2>1. st.cur = led.cur /\ st.pend.gen = None /\ ~st.pend.owned BY Zenon, <1>2 DEF NoEntry
  <2>2. Apart(st) BY Zenon, <1>2, <2>1 DEF Anchored, Apart
  <2>3. Tidy(st) BY Zenon, <2>1 DEF Tidy
  <2>4. rc'.pc \in {"end", "remove"} /\ rc'.st = st /\ rc'.then = "end" /\ rc'.op = "prepare" BY Zenon, <1>0, <1>2, CleansFirst
  <2>5. Anchored' BY Zenon, <1>0, <1>2, <2>1, <2>2, <2>3, <2>4 DEF Anchored, Toward, Ours
  <2> QED BY Zenon, <1>2, <2>1, <2>4, <2>5 DEF Leased
<1>3. ASSUME led.cur.gen # rc.gen, UNCHANGED led, NEW owned, NEW pc \in {"remove", "displace"},
             rc' = [rc EXCEPT !.owned = owned, !.seen = Pinned(rc.gen), !.then = "displace", !.pc = pc]
      PROVE  Anchored' /\ Leased'
  <2>1. rc'.pc = pc /\ rc'.gen = rc.gen /\ rc'.st = rc.st /\ rc'.then = "displace" /\ rc'.op = "prepare"
    BY Zenon, <1>0, <1>3 DEF Operation
  <2>2. Anchored' BY Zenon, <1>0, <1>3, <2>1 DEF Anchored, Toward, Ours
  <2> QED BY Zenon, <1>3, <2>1, <2>2 DEF Leased
<1> QED BY Zenon, <1>1, <1>2, <1>3 DEF CheckPrepare

\* Displace keeps it.
LEMMA AnchorsDisplace ==
  ASSUME RInv, Anchored, Leased, UNCHANGED lease, Displace
  PROVE  Anchored' /\ Leased'
<1>0. /\ rc.pc = "displace" /\ UNCHANGED <<led, pins>> /\ Operation /\ Safe(rc.st, pins)
      /\ Apart(rc.st) /\ rc.st.cur = led.cur /\ rc.gen # led.cur.gen
  BY Zenon DEF Displace, RInv, Underway, Anchored, Toward
<1>1. CASE Ends(FALSE) BY Zenon, <1>0, <1>1, AnchorsEnd
<1>2. ASSUME NEW st, Apart(st), st.cur = led.cur, rc'.pc = "room", rc'.gen = rc.gen, rc'.st = st, rc'.op = rc.op
      PROVE  Anchored' /\ Leased'
  <2>1. Anchored' BY Zenon, <1>0, <1>2 DEF Anchored, Toward, Ours
  <2> QED BY Zenon, <1>0, <1>2 , <2>1 DEF Leased
<1>3. CASE rc' = [rc EXCEPT !.pc = "room"] BY Zenon, <1>0, <1>2, <1>3, StepsOn
<1>4. CASE rc' = [rc EXCEPT !.pc = "room", !.st.clean = @ \cup {rc.st.pend}]
  <2> DEFINE st == [rc.st EXCEPT !.clean = @ \cup {rc.st.pend}]
  <2>1. st.cur = rc.st.cur /\ st.pend = rc.st.pend /\ st.clean = rc.st.clean \cup {rc.st.pend} BY Zenon, <1>0 DEF Safe
  <2>2. Apart(st) BY Zenon, <1>0, <2>1 DEF Apart
  <2>3. rc'.pc = "room" /\ rc'.gen = rc.gen /\ rc'.st = st /\ rc'.op = rc.op BY Zenon, <1>0, <1>4 DEF Operation
  <2> QED BY Zenon, <1>0, <1>2, <2>1, <2>2, <2>3
<1> QED BY Zenon, <1>1, <1>3, <1>4 DEF Displace

\* Room keeps it.
LEMMA AnchorsRoom ==
  ASSUME RInv, Anchored, Leased, UNCHANGED lease, Room
  PROVE  Anchored' /\ Leased'
<1>0. /\ rc.pc = "room" /\ UNCHANGED <<led, pins>> /\ Operation
      /\ Apart(rc.st) /\ rc.st.cur = led.cur /\ rc.gen # led.cur.gen
  BY Zenon DEF Room, RInv, Anchored, Toward
<1>1. /\ rc'.gen = rc.gen /\ rc'.st = rc.st /\ rc'.op = rc.op
      /\ rc'.pc = "intend" \/ (rc'.pc = "remove" /\ rc'.then = "intend")
  BY Zenon, <1>0, CleansFirst, StepsOn DEF Room
<1>2. Anchored' BY Zenon, <1>0, <1>1 DEF Anchored, Toward, Ours
<1> QED BY Zenon, <1>0, <1>1, <1>2 DEF Leased

\* What becomes pending is neither current nor to be cleaned up.
LEMMA AnchorsIntendPending ==
  ASSUME RInv, Anchored, Leased, UNCHANGED lease, IntendPending
  PROVE  Anchored' /\ Leased'
<1>0. /\ rc.pc = "intend" /\ UNCHANGED pins /\ Operation
      /\ Apart(rc.st) /\ rc.st.cur = led.cur /\ rc.gen # led.cur.gen /\ rc.gen # None
  BY Zenon DEF IntendPending, RInv, Underway, Anchored, Toward
<1>1. CASE Ends(FALSE) /\ UNCHANGED led BY Zenon, <1>0, <1>1, AnchorsEnd
<1>2. ASSUME NEW st, NEW pc \in {"verify", "pin"},
             st = [cur |-> rc.st.cur, pend |-> [gen |-> rc.gen, owned |-> rc.owned],
                   clean |-> {e \in rc.st.clean : e.gen # rc.gen}],
             led' = st, rc' = [rc EXCEPT !.st = st, !.pc = pc]
      PROVE  Anchored' /\ Leased'
  <2>1. /\ st.cur = led.cur /\ st.pend.gen = rc.gen
        /\ \A e \in st.clean : e \in rc.st.clean /\ e.gen # rc.gen
    BY Zenon, <1>0, <1>2
  <2>2. Apart(st) /\ Tidy(st) BY Zenon, <1>0, <2>1 DEF Apart, Tidy
  <2>3. rc'.pc = pc /\ rc'.gen = rc.gen /\ rc'.st = st /\ rc'.op = rc.op BY Zenon, <1>0, <1>2 DEF Operation
  <2>4. Anchored' BY Zenon, <1>0, <1>2, <2>1, <2>2, <2>3 DEF Anchored, Toward, Ours
  <2> QED BY Zenon, <1>0, <1>2, <2>1, <2>3, <2>4 DEF Leased
<1> QED BY Zenon, <1>1, <1>2 DEF IntendPending, Intend

\* Pin only adds, and Verify only looks.
LEMMA AnchorsPin ==
  ASSUME RInv, Anchored, Leased, UNCHANGED lease, Pin \/ Verify
  PROVE  Anchored' /\ Leased'
<1>0. /\ rc.pc \in {"pin", "verify"} /\ UNCHANGED led /\ Operation /\ pins \subseteq pins'
      /\ Apart(led) /\ Tidy(led) /\ rc.st = led
  BY Zenon DEF Pin, Verify, RInv, Underway, Anchored
<1>1. CASE Ends(FALSE) /\ UNCHANGED pins BY Zenon, <1>0, <1>1, AnchorsEnd
<1>2. ASSUME rc'.st = rc.st, rc'.gen = rc.gen, rc'.op = rc.op, 
             rc'.pc \in {"verify", "end"} \/ (rc'.pc = "remove" /\ rc'.then = "end")
      PROVE  Anchored' /\ Leased'
  <2>1. Anchored' BY Zenon, <1>0, <1>2 DEF Anchored, Toward, Ours
  <2> QED BY Zenon, <1>0, <1>2, <2>1 DEF Leased
<1>3. ASSUME NEW ok, Cleans(rc.st, "end", ok) PROVE Anchored' /\ Leased' BY Zenon, <1>0, <1>2, <1>3, CleansFirst
<1>4. CASE rc' = [rc EXCEPT !.pc = "verify"]
  <2>1. rc'.pc = "verify" /\ rc'.st = rc.st /\ rc'.gen = rc.gen /\ rc'.op = rc.op BY Zenon, <1>0, <1>4 DEF Operation
  <2> QED BY Zenon, <1>2, <2>1
<1> QED BY Zenon, <1>1, <1>3, <1>4 DEF Pin, Verify

\* CheckCommit: what it will promote is pinned.
LEMMA AnchorsCheckCommit ==
  ASSUME RInv, Anchored, Leased, UNCHANGED lease, CheckCommit
  PROVE  Anchored' /\ Leased'
<1>0. /\ rc.pc = "check" /\ rc.op = "commit" /\ UNCHANGED <<led, pins>> /\ rc.st = led /\ Operation
      /\ Apart(led) /\ Tidy(led) /\ UnderName(pins)
  BY Zenon DEF CheckCommit, RInv, Underway, Anchored
<1>1. CASE Ends(FALSE) BY Zenon, <1>0, <1>1, AnchorsEnd
<1>2. CASE Cleans(led, "end", TRUE)
  <2>1. rc'.pc \in {"end", "remove"} /\ rc'.st = led /\ rc'.gen = rc.gen /\ rc'.then = "end" /\ rc'.op = "commit"
    BY Zenon, <1>0, <1>2, CleansFirst
  <2>2. Anchored' BY Zenon, <1>0, <2>1 DEF Anchored, Toward, Ours
  <2> QED BY Zenon, <1>0, <2>1, <2>2 DEF Leased
<1>3. ASSUME led.pend.gen = rc.gen, Proven(led.pend), rc'.st = led, rc'.gen = rc.gen, rc'.op = "commit",
             rc'.pc = "promote" \/ (rc'.pc = "remove" /\ rc'.then = "promote")
      PROVE  Anchored' /\ Leased'
  <2>1. Ours(rc.gen) \in pins BY Zenon, <1>0, <1>3 DEF Proven, Pinned, UnderName
  <2>2. Anchored' BY Zenon, <1>0, <1>3, <2>1 DEF Anchored, Toward, Ours
  <2> QED BY Zenon, <1>0, <1>3, <2>2 DEF Leased
<1>4. CASE led.pend.gen = rc.gen /\ Proven(led.pend) /\ Cleans(led, "promote", TRUE) BY Zenon, <1>0, <1>3, <1>4, CleansFirst
<1>5. CASE led.pend.gen = rc.gen /\ Proven(led.pend) /\ rc' = [rc EXCEPT !.pc = "promote"] BY Zenon, <1>0, <1>3, <1>5, StepsOn
<1> QED BY Zenon, <1>1, <1>2, <1>4, <1>5 DEF CheckCommit

\* Promote: the requests of the former generation are of the new one too.
LEMMA AnchorsPromote ==
  ASSUME RInv, Anchored, Leased, UNCHANGED lease, Promote
  PROVE  Anchored' /\ Leased'
<1>0. /\ rc.pc = "promote" /\ UNCHANGED pins /\ Operation /\ rc.op = "commit" /\ rc.st.pend.gen = rc.gen
      /\ Apart(rc.st) /\ Tidy(rc.st) /\ Ours(rc.gen) \in pins /\ UnderName(pins)
  BY Zenon DEF Promote, RInv, Underway, Anchored, Toward
<1>1. CASE Ends(FALSE) /\ UNCHANGED led BY Zenon, <1>0, <1>1, AnchorsEnd
<1>2. ASSUME NEW st, st = [cur |-> rc.st.pend, pend |-> NoEntry,
                           clean |-> rc.st.clean \cup {e \in {rc.st.cur} : e.owned /\ e.gen # rc.gen}],
             led' = st, Cleans(st, "end", TRUE)
      PROVE  Anchored' /\ Leased'
  <2>1. rc.gen # None BY Zenon, <1>0 DEF UnderName, Ours
  <2>2. st.cur = rc.st.pend /\ st.pend.gen = None /\ ~st.pend.owned BY Zenon, <1>2 DEF NoEntry
  <2>3. \A e \in st.clean : e.gen # rc.gen BY Zenon, <1>0, <1>2, <2>1 DEF Tidy
  <2>4. Apart(st) BY Zenon, <1>0, <2>1, <2>2, <2>3 DEF Apart
  <2>5. rc'.pc \in {"end", "remove"} /\ rc'.st = st /\ rc'.gen = rc.gen /\ rc'.then = "end" /\ rc'.op = "commit"
    BY Zenon, <1>0, <1>2, CleansFirst
  <2>6. Anchored' BY Zenon, <1>0, <1>2, <2>2, <2>4, <2>5 DEF Anchored, Toward, Ours
  <2>7. led'.cur.gen = rc.gen BY Zenon, <1>0, <1>2, <2>2
  <2> QED BY Zenon, <1>0, <2>1, <2>5, <2>6, <2>7 DEF Leased
<1> QED BY Zenon, <1>1, <1>2 DEF Promote

\* CheckRecover keeps it.
LEMMA AnchorsCheckRecover ==
  ASSUME RInv, Anchored, Leased, UNCHANGED lease, CheckRecover
  PROVE  Anchored' /\ Leased'
<1>0. rc.pc = "check" /\ rc.op = "recover" /\ UNCHANGED <<led, pins>> /\ Operation /\ Apart(led)
  BY Zenon DEF CheckRecover, RInv, Anchored
<1>1. CASE Ends(FALSE) BY Zenon, <1>0, <1>1, AnchorsEnd
<1>2. CASE Cleans(led, "end", TRUE)
  <2>1. rc'.pc \in {"end", "remove"} /\ rc'.st = led /\ rc'.then = "end" /\ rc'.op = "recover"
    BY Zenon, <1>0, <1>2, CleansFirst
  <2>2. Anchored' BY Zenon, <1>0, <2>1 DEF Anchored, Toward, Ours
  <2> QED BY Zenon, <1>0, <2>1, <2>2 DEF Leased
<1> QED BY Zenon, <1>1, <1>2 DEF CheckRecover

\* Remove takes no pin of the current generation, nor of the one about to be current.
LEMMA AnchorsRemove ==
  ASSUME RInv, Anchored, Leased, UNCHANGED lease, Remove
  PROVE  Anchored' /\ Leased'
<1>0. /\ rc.pc = "remove" /\ UNCHANGED led /\ Operation /\ Safe(rc.st, pins) /\ UnderName(pins)
      /\ Apart(rc.st) /\ rc.st.cur = led.cur
  BY Zenon DEF Remove, RInv, Underway, Anchored
<1>1. PICK stuck \in SUBSET rc.st.clean :
        /\ \E gone \in {{}, stuck} : pins' = pins \ {Ours(e.gen) : e \in (rc.st.clean \ stuck) \cup gone}
        /\ rc' = [rc EXCEPT !.pc = "save", !.st.clean = stuck]
  BY Zenon DEF Remove
<1>2. ASSUME NEW g, Ours(g) \in pins, \A e \in rc.st.clean : e.gen # g PROVE Ours(g) \in pins'
  BY Zenon, <1>1, <1>2 DEF Ours
<1> DEFINE st == [rc.st EXCEPT !.clean = stuck]
<1>3. st.cur = rc.st.cur /\ st.pend = rc.st.pend /\ st.clean = stuck BY Zenon, <1>0 DEF Safe
<1>4. Apart(st) BY Zenon, <1>0, <1>3 DEF Apart
<1>5. Tidy(rc.st) => Tidy(st) BY Zenon, <1>3 DEF Tidy
<1>6. rc'.pc = "save" /\ rc'.gen = rc.gen /\ rc'.st = st /\ rc'.then = rc.then /\ rc'.op = rc.op /\ rc'.ok = rc.ok
  BY Zenon, <1>0, <1>1 DEF Operation
<1>7. led.cur.gen # None => Ours(led.cur.gen) \in pins' BY Zenon, <1>0, <1>2 DEF Anchored, Apart
<1>8. Toward({"promote"}) => Ours(rc.gen) \in pins'
  <2> SUFFICES ASSUME Toward({"promote"}) PROVE Ours(rc.gen) \in pins' BY Zenon
  <2>1. Tidy(rc.st) /\ Ours(rc.gen) \in pins /\ rc.st.pend.gen = rc.gen BY Zenon DEF Anchored, RInv, Underway
  <2>2. rc.gen # None BY Zenon, <1>0, <2>1 DEF UnderName, Ours
  <2> QED BY Zenon, <1>2, <2>1, <2>2 DEF Tidy
<1>9. Anchored' BY Zenon, <1>0, <1>3, <1>4, <1>5, <1>6, <1>7, <1>8 DEF Anchored, Toward, Ours
<1> QED BY Zenon, <1>0, <1>6, <1>9 DEF Leased

\* SaveCleanup keeps it.
LEMMA AnchorsSaveCleanup ==
  ASSUME RInv, Anchored, Leased, UNCHANGED lease, SaveCleanup
  PROVE  Anchored' /\ Leased'
<1>0. /\ rc.pc = "save" /\ led' = rc.st /\ UNCHANGED pins /\ Operation /\ Apart(rc.st) /\ rc.st.cur = led.cur
      /\ rc.then \in {"displace", "intend", "promote", "end"}
  BY Zenon DEF SaveCleanup, RInv, Underway, Anchored
<1>1. /\ rc'.pc = rc.then /\ rc'.gen = rc.gen /\ rc'.st = rc.st /\ rc'.then = rc.then /\ rc'.op = rc.op /\ rc'.ok = rc.ok
  BY Zenon, <1>0 DEF SaveCleanup, Operation
<1>2. Anchored' BY Zenon, <1>0, <1>1 DEF Anchored, Toward, Ours
<1> QED BY Zenon, <1>0, <1>1, <1>2 DEF Leased

\* Every step of an operation keeps the current generation, or its successor, pinned.
LEMMA ControllerAnchors ==
  ASSUME RInv, Anchored, Leased, UNCHANGED lease, ControllerStep
  PROVE  Anchored' /\ Leased'
<1>1. CASE CheckPrepare \/ Displace \/ Room \/ IntendPending
  BY Zenon, <1>1, AnchorsCheckPrepare, AnchorsDisplace, AnchorsRoom, AnchorsIntendPending
<1>2. CASE CheckCommit \/ Promote \/ CheckRecover \/ SaveCleanup
  BY Zenon, <1>2, AnchorsCheckCommit, AnchorsPromote, AnchorsCheckRecover, AnchorsSaveCleanup
<1>3. CASE Pin \/ Verify \/ Remove BY Zenon, <1>3, AnchorsPin, AnchorsRemove
<1>4. CASE RpcFails BY Zenon, <1>4, AnchorsEnd DEF RpcFails
<1> QED BY Zenon, <1>1, <1>2, <1>3, <1>4 DEF ControllerStep

-----------------------------------------------------------------------------
\* The operation in progress is that of the poll that waits for it, or of the restart.
Driven ==
  rc.pc # "idle" =>
    \/ rc.op = "recover" /\ up = "recovering"
    \/ \E p \in site.pollers : \/ poll[p].pc = "preparing" /\ rc.op = "prepare"
                               \/ poll[p].pc = "committing" /\ rc.op = "commit"

\* A poll past Prepare has left a tidy ledger, and what it has installed is in the
\* generation that it goes on to commit.
Retains(s) ==
  /\ (s.doc # None => s.doc.rev \in Nat) /\ (Holds(s) => s.doc # None)
  /\ s.pc \in {"protect", "walk", "proof"} => ~site.external
  /\ s.pc = "barrier" => site.external
  /\ s.pc \in {"commit", "install", "barrier"} /\ site.external => Tidy(led)
  /\ s.pc = "barrier" /\ adopted["fin"] # None => <<"fin", adopted["fin"]>> \in Generation(s.doc).heads
Retaining == \A p \in site.pollers : Retains(poll[p])

\* What is served stays in the generation being committed.
Going ==
  rc.op = "commit" /\ rc.pc \notin {"idle", "end"} /\ adopted["fin"] # None => <<"fin", adopted["fin"]>> \in rc.gen.heads

LInv == Anchored /\ Leased /\ Driven /\ Retaining /\ Going

\* The controller and the requests stand.
LEMMA AnchorsStand ==
  ASSUME Anchored, Leased, UNCHANGED <<led, pins, rc, lease>>
  PROVE  Anchored' /\ Leased'
<1>1. Anchored' BY Zenon DEF Anchored, Toward, Ours
<1>2. Leased' BY Zenon DEF Leased
<1> QED BY Zenon, <1>1, <1>2

\* The polls stand: nothing that they rely on moves, or none is past the lock.
LEMMA RetainingStands ==
  ASSUME Retaining, UNCHANGED <<site, poll>>,
         UNCHANGED <<led, adopted, cp>> \/ \A q \in site.pollers : ~Holds(poll[q])
  PROVE  Retaining'
<1>1. ASSUME NEW q \in site.pollers PROVE Retains(poll[q])'
  <2>1. Retains(poll[q]) BY Zenon DEF Retaining
  <2>2. CASE ~Holds(poll[q]) BY Zenon, <2>1, <2>2 DEF Retains, Holds
  <2>3. CASE UNCHANGED <<led, adopted, cp>> BY Zenon, <2>1, <2>3 DEF Retains, Holds, Tidy, Generation
  <2> QED BY Zenon, <2>2, <2>3
<1> QED BY Zenon, <1>1 DEF Retaining

\* Nothing of it moves.
LEMMA RetainsQuiet ==
  ASSUME LInv, UNCHANGED <<site, ctlVars, lease, up, poll, adopted, cp>>
  PROVE  LInv'
<1>0. UNCHANGED <<led, pins, rc>> BY Zenon DEF ctlVars
<1>1. Anchored' /\ Leased' BY Zenon, <1>0, AnchorsStand DEF LInv
<1>2. Driven' /\ Going' BY Zenon, <1>0 DEF LInv, Driven, Going
<1>3. Retaining' BY Zenon, <1>0, RetainingStands DEF LInv
<1> QED BY Zenon, <1>1, <1>2, <1>3 DEF LInv

\* The ledger and the requests, where an operation begins or its result is taken.
LEMMA AnchorsBegin ==
  ASSUME Anchored, Leased, UNCHANGED lease, NEW op, NEW g, Begin(op, g), op = "commit" => Tidy(led) /\ lease = None
  PROVE  Anchored' /\ Leased'
<1>1. /\ rc' = [op |-> op, pc |-> "check", gen |-> g, owned |-> FALSE, seen |-> FALSE, st |-> led, then |-> "none", ok |-> TRUE]
      /\ UNCHANGED <<led, pins>>
  BY Zenon DEF Begin, IdleOp
<1>2. rc'.op = op /\ rc'.pc = "check" /\ rc'.st = led BY Zenon, <1>1
<1>3. Anchored' BY Zenon, <1>1, <1>2 DEF Anchored, Toward, Ours
<1> QED BY Zenon, <1>1, <1>2, <1>3 DEF Leased

\* Nothing is left to do.
LEMMA AnchorsIdle ==
  ASSUME Anchored, Leased, rc' = IdleOp, UNCHANGED <<led, pins>>, lease' \in {lease, None}
  PROVE  Anchored' /\ Leased'
<1>1. rc'.op = "none" /\ rc'.pc = "idle" BY Zenon DEF IdleOp
<1>2. Anchored' BY Zenon, <1>1 DEF Anchored, Toward, Ours
<1> QED BY Zenon, <1>1, <1>2 DEF Leased

\* An operation is in progress only when no poll is between its Prepare and its commit.
LEMMA DrivenElsewhere ==
  ASSUME IInv, Driven, rc.pc # "idle", NEW p \in site.pollers, Holds(poll[p]), poll[p].pc \notin {"preparing", "committing"}
  PROVE  FALSE
<1>1. up = "on" BY Zenon, Running DEF Holds
<1>2. PICK q \in site.pollers : poll[q].pc \in {"preparing", "committing"} BY Zenon, <1>1 DEF Driven
<1>3. Holds(poll[q]) BY Zenon, <1>2 DEF Holds
<1>4. p = q BY Zenon, <1>3 DEF IInv, Exclusive
<1> QED BY Zenon, <1>2, <1>4

\* A step of an operation.
LEMMA RetainsController ==
  ASSUME IInv, RInv, LInv, UNCHANGED <<site, lease, up, poll, adopted, cp>>, ControllerStep
  PROVE  LInv'
<1>1. Anchored' /\ Leased' BY Zenon, ControllerAnchors DEF LInv
<1>2. rc.pc \notin {"idle", "end"} /\ rc'.op = rc.op /\ rc'.gen = rc.gen
  <2>1. rc.pc # "idle" BY Zenon DEF ControllerStep
  <2>2. Operation BY ZenonT(60) DEF RInv
  <2>3. CASE CheckPrepare \/ Displace \/ Room
    BY <2>2, <2>3 DEF CheckPrepare, Displace, Room, Ends, Cleans, Operation
  <2>4. CASE IntendPending \/ Pin \/ Verify
    BY Zenon, <2>2, <2>4 DEF IntendPending, Pin, Verify, Ends, Cleans, Operation
  <2>5. CASE CheckCommit \/ Promote \/ CheckRecover
    BY <2>2, <2>5 DEF CheckCommit, Promote, CheckRecover, Ends, Cleans, Operation
  <2>6. CASE Remove \/ SaveCleanup \/ RpcFails
    BY Zenon, <2>2, <2>6 DEF Remove, SaveCleanup, RpcFails, Ends, Operation
  <2> QED BY Zenon, <2>1, <2>3, <2>4, <2>5, <2>6 DEF ControllerStep
<1>3. Driven' BY Zenon, <1>2 DEF LInv, Driven
<1>4. Going' BY Zenon, <1>2 DEF LInv, Going
<1>5. ASSUME NEW p \in site.pollers PROVE Retains(poll[p])'
  <2>1. Retains(poll[p]) BY Zenon DEF LInv, Retaining
  <2>2. poll[p].pc \notin {"commit", "install", "barrier"} BY Zenon, <1>2, DrivenElsewhere DEF LInv, Holds
  <2> QED BY Zenon, <2>1, <2>2 DEF Retains, Holds
<1> QED BY Zenon, <1>1, <1>3, <1>4, <1>5 DEF LInv, Retaining

-----------------------------------------------------------------------------
\* The polls.

\* One poll moves: the others rely on nothing, or on nothing that moves.
LEMMA RetainsMoves ==
  ASSUME IInv, Retaining, UNCHANGED site, NEW p \in site.pollers,
         (\A q \in site.pollers : q # p => ~Holds(poll[q])) \/ UNCHANGED <<led, adopted, cp>>,
         NEW x, poll' = [poll EXCEPT ![p] = x], Retains(x)'
  PROVE  Retaining'
<1>1. \A q \in site.pollers : poll'[q] = IF q = p THEN x ELSE poll[q] BY Zenon DEF IInv, Typed
<1>2. ASSUME NEW q \in site.pollers, NEW s, s = poll'[q] PROVE Retains(s)'
  <2>1. CASE q = p BY Zenon, <1>1, <1>2, <2>1
  <2>2. CASE q # p
    <3>1. s = poll[q] /\ Retains(poll[q]) BY Zenon, <1>1, <1>2, <2>2 DEF Retaining
    <3>2. CASE ~Holds(poll[q]) BY Zenon, <3>1, <3>2 DEF Retains, Holds
    <3>3. CASE UNCHANGED <<led, adopted, cp>> BY Zenon, <3>1, <3>3 DEF Retains, Holds, Tidy, Generation
    <3> QED BY Zenon, <2>2, <3>2, <3>3
  <2> QED BY Zenon, <2>1, <2>2
<1> QED BY Zenon, <1>2 DEF Retaining

\* A poll without a document relies on nothing.
LEMMA RetainsIdle == Retains(IdlePoll)' /\ IdlePoll.pc = "idle"
<1>1. IdlePoll.pc = "idle" /\ IdlePoll.doc = None BY Zenon DEF IdlePoll
<1> QED BY Zenon, <1>1 DEF Retains, Holds

\* The poll that holds the lock moves on with its document.
LEMMA RetainsGoes ==
  ASSUME IInv, Retaining, UNCHANGED site, NEW p \in site.pollers, NEW d, d = poll[p].doc,
         \A q \in site.pollers : q # p => ~Holds(poll[q]),
         NEW v, NEW t, \/ poll' = [poll EXCEPT ![p].pc = v]
                       \/ poll' = [poll EXCEPT ![p] = [[poll[p] EXCEPT !.tok = t] EXCEPT !.pc = v]],
         d # None, v \in {"protect", "walk", "proof"} => ~site.external, v = "barrier" => site.external,
         v \in {"commit", "install", "barrier"} /\ site.external => Tidy(led)',
         v = "barrier" /\ adopted'["fin"] # None => <<"fin", adopted'["fin"]>> \in Generation(d).heads'
  PROVE  Retaining'
<1>1. IsPoll(poll[p]) /\ Retains(poll[p]) BY Zenon DEF IInv, Typed, Retaining
<1>3. PICK x : \E z : x = [z EXCEPT !.pc = v] /\ z.doc = d /\ IsPoll(z) /\ poll' = [poll EXCEPT ![p] = x]
  <2>1. CASE poll' = [poll EXCEPT ![p].pc = v] BY Zenon, <1>1, <2>1
  <2>2. CASE poll' = [poll EXCEPT ![p] = [[poll[p] EXCEPT !.tok = t] EXCEPT !.pc = v]]
    <3>1. PICK z : z = [poll[p] EXCEPT !.tok = t] BY Zenon
    <3>2. z.doc = d /\ IsPoll(z) BY Zenon, <1>1, <3>1 DEF IsPoll
    <3> QED BY Zenon, <2>2, <3>1, <3>2
  <2> QED BY Zenon, <2>1, <2>2
<1>4. x.pc = v /\ x.doc = d BY Zenon, <1>3 DEF IsPoll
<1>5. d.rev \in Nat BY Zenon, <1>1 DEF Retains
<1>6. Retains(x)' BY Zenon, <1>4, <1>5 DEF Retains
<1> QED BY Zenon, <1>3, <1>6, RetainsMoves

\* The poll that waits for no operation moves.
LEMMA DrivenStands ==
  ASSUME IInv, Driven, UNCHANGED <<site, rc, up>>, NEW p \in site.pollers, poll[p].pc \notin {"preparing", "committing"},
         NEW x, poll' = [poll EXCEPT ![p] = x]
  PROVE  Driven'
<1>1. \A q \in site.pollers : q # p => poll'[q] = poll[q] BY Zenon DEF IInv, Typed
<1> QED BY Zenon, <1>1 DEF Driven

\* Resolve: what it hands on was published.
LEMMA RetainsResolve ==
  ASSUME IInv, LInv, UNCHANGED site, \A d \in docs : d.rev \in Nat, \A r \in recs : r.doc \in docs,
         NEW p \in site.pollers, Resolve(p)
  PROVE  LInv'
<1>0. /\ UNCHANGED <<led, pins, rc, lease, adopted, cp, up>> /\ poll[p].pc = "idle"
  BY Zenon DEF Resolve, ctlVars, runVars, headVars, durVars
<1>1. PICK d \in WebAnswers, r \in NamedAnswers : \E doc \in {Candidate(d, r)}, eq \in {Equivocates(d, r)} :
        poll' = [poll EXCEPT ![p] =
          [pc |-> "resolved", doc |-> doc, obs |-> r, eq |-> eq, tok |-> 0,
           via |-> IF doc = None THEN None ELSE IF doc = d THEN "https" ELSE "ipns"]]
  BY Zenon DEF Resolve
<1>2. PICK doc, eq, via :
        /\ doc = Candidate(d, r)
        /\ poll' = [poll EXCEPT ![p] = [pc |-> "resolved", doc |-> doc, obs |-> r, eq |-> eq, tok |-> 0, via |-> via]]
  BY Zenon, <1>1
<1>3. doc # None => doc.rev \in Nat
  <2>1. Best(d, r) \subseteq Web(d) \cup Named(r)
    <3>1. CASE FreshOf(Web(d)) # {} /\ FreshOf(Named(r)) # {}
      <4>1. d \in Web(d) /\ r.doc \in Named(r) BY Zenon, <3>1 DEF FreshOf, Web, Named
      <4> QED BY <3>1, <4>1, FresherIsOne DEF Best
    <3> QED BY Zenon, <3>1 DEF Best, FreshOf
  <2>2. Best(d, r) # {} => (CHOOSE x \in Best(d, r) : TRUE) \in Best(d, r) BY Zenon
  <2>3. \A y \in Web(d) \cup Named(r) : y \in docs BY Zenon DEF WebAnswers, NamedAnswers, Web, Named
  <2> QED BY Zenon, <1>2, <2>1, <2>2, <2>3 DEF Candidate
<1>4. PICK x : x = [pc |-> "resolved", doc |-> doc, obs |-> r, eq |-> eq, tok |-> 0, via |-> via] BY Zenon
<1>5. x.pc = "resolved" /\ x.doc = doc /\ poll' = [poll EXCEPT ![p] = x] BY Zenon, <1>2, <1>4
<1>6. Retains(x)' BY Zenon, <1>3, <1>5 DEF Retains, Holds
<1>7. Retaining' BY Zenon, <1>0, <1>5, <1>6, RetainsMoves DEF LInv
<1>8. Driven' BY Zenon, <1>0, <1>5, DrivenStands DEF LInv
<1>9. Anchored' /\ Leased' BY Zenon, <1>0, AnchorsStand DEF LInv
<1>10. Going' BY Zenon, <1>0 DEF LInv, Going
<1> QED BY Zenon, <1>7, <1>8, <1>9, <1>10 DEF LInv

\* Admit: a replica's poll prepares before it commits.
LEMMA RetainsAdmit ==
  ASSUME IInv, LInv, UNCHANGED site, NEW p \in site.pollers, Admit(p)
  PROVE  LInv'
<1>0. UNCHANGED <<led, pins, rc, lease, adopted, cp, up>> /\ poll[p].pc = "resolved" /\ ~Locked
  BY Zenon DEF Admit, ctlVars, runVars
<1>1. \A q \in site.pollers : ~Holds(poll[q]) BY Zenon, <1>0 DEF Locked, Holds
<1>2. \/ Leave(p)
      \/ /\ poll[p].doc # None
         /\ poll' = [poll EXCEPT ![p].pc = IF site.external THEN "prepare" ELSE IF site.gc THEN "protect" ELSE "commit"]
  BY Zenon DEF Admit
<1>3. PICK v : v = IF site.external THEN "prepare" ELSE IF site.gc THEN "protect" ELSE "commit" BY Zenon
<1>4. /\ v \in {"prepare", "protect", "commit"} /\ (site.external => v = "prepare") BY Zenon, <1>3
<1>5. Retaining'
  <2>1. CASE Leave(p) BY Zenon, <1>1, <2>1, RetainsIdle, RetainsMoves DEF Leave, LInv
  <2>2. CASE poll[p].doc # None /\ poll' = [poll EXCEPT ![p].pc = v]
    <3>1. PICK d : d = poll[p].doc BY Zenon
    <3>2. v # "barrier" /\ v # "install" /\ (v \in {"protect", "walk", "proof", "commit"} => ~site.external) BY Zenon, <1>4
    <3> QED BY Zenon, <1>1, <2>2, <3>1, <3>2, RetainsGoes DEF LInv
  <2> QED BY Zenon, <1>2, <1>3, <2>1, <2>2
<1>6. Driven'
  <2>1. PICK x : poll' = [poll EXCEPT ![p] = x] BY Zenon, <1>2 DEF Leave
  <2> QED BY Zenon, <1>0, <2>1, DrivenStands DEF LInv
<1>7. Anchored' /\ Leased' BY Zenon, <1>0, AnchorsStand DEF LInv
<1>8. Going' BY Zenon, <1>0 DEF LInv, Going
<1> QED BY Zenon, <1>5, <1>6, <1>7, <1>8 DEF LInv

\* An embedded follower's protection.
LEMMA RetainsProtect ==
  ASSUME IInv, LInv, UNCHANGED site, NEW p \in site.pollers, Protect(p) \/ ProtectWalk(p) \/ ProtectProof(p)
  PROVE  LInv'
<1>0. UNCHANGED <<led, pins, rc, lease, adopted, cp, up>> /\ poll[p].pc \in {"protect", "walk", "proof"}
  BY Zenon DEF Protect, ProtectWalk, ProtectProof, ctlVars, runVars, headVars, durVars
<1>1. Holds(poll[p]) BY Zenon, <1>0 DEF Holds
<1>2. \A q \in site.pollers : q # p => ~Holds(poll[q]) BY Zenon, <1>1 DEF IInv, Exclusive
<1>3. PICK d : d = poll[p].doc BY Zenon
<1>4. d # None /\ ~site.external BY Zenon, <1>0, <1>1, <1>3 DEF LInv, Retaining, Retains
<1>5. \/ Leave(p)
      \/ \E v \in {"commit", "walk", "proof", "protect"} : \E t :
           \/ poll' = [poll EXCEPT ![p].pc = v]
           \/ poll' = [poll EXCEPT ![p] = [[poll[p] EXCEPT !.tok = t] EXCEPT !.pc = v]]
  BY Zenon DEF Protect, ProtectWalk, ProtectProof
<1>6. Retaining'
  <2>1. CASE Leave(p) BY Zenon, <1>2, <2>1, RetainsIdle, RetainsMoves DEF Leave, LInv
  <2>2. ASSUME NEW v \in {"commit", "walk", "proof", "protect"}, NEW t,
               \/ poll' = [poll EXCEPT ![p].pc = v]
               \/ poll' = [poll EXCEPT ![p] = [[poll[p] EXCEPT !.tok = t] EXCEPT !.pc = v]]
        PROVE  Retaining'
    <3>1. v # "barrier" BY Zenon, <2>2
    <3> QED BY Zenon, <1>2, <1>3, <1>4, <2>2, <3>1, RetainsGoes DEF LInv
  <2> QED BY Zenon, <1>5, <2>1, <2>2
<1>7. Driven'
  <2>1. PICK x : poll' = [poll EXCEPT ![p] = x] BY Zenon, <1>5 DEF Leave
  <2>2. poll[p].pc \notin {"preparing", "committing"} BY Zenon, <1>0
  <2> QED BY Zenon, <1>0, <2>1, <2>2, DrivenStands DEF LInv
<1>8. Anchored' /\ Leased' BY Zenon, <1>0, AnchorsStand DEF LInv
<1>9. Going' BY Zenon, <1>0 DEF LInv, Going
<1> QED BY Zenon, <1>6, <1>7, <1>8, <1>9 DEF LInv

\* Prepare begins an operation for its poll.
LEMMA RetainsPrepare ==
  ASSUME IInv, LInv, UNCHANGED site, NEW p \in site.pollers, Prepare(p)
  PROVE  LInv'
<1>0. UNCHANGED <<lease, adopted, cp, up>> /\ poll[p].pc = "prepare" /\ poll' = [poll EXCEPT ![p].pc = "preparing"]
  BY Zenon DEF Prepare, runVars, headVars, durVars
<1>1. PICK g : Begin("prepare", g) BY Zenon DEF Prepare
<1>2. Holds(poll[p]) BY Zenon, <1>0 DEF Holds
<1>3. \A q \in site.pollers : q # p => ~Holds(poll[q]) BY Zenon, <1>2 DEF IInv, Exclusive
<1>4. PICK d : d = poll[p].doc BY Zenon
<1>5. d # None BY Zenon, <1>2, <1>4 DEF LInv, Retaining, Retains
<1>6. Retaining'
  <2>1. PICK v : v = "preparing" BY Zenon
  <2>2. v \notin {"protect", "walk", "proof", "commit", "install", "barrier"} BY Zenon, <2>1
  <2> QED BY Zenon, <1>0, <1>3, <1>4, <1>5, <2>1, <2>2, RetainsGoes DEF LInv
<1>7. rc'.op = "prepare" BY Zenon, <1>1 DEF Begin, IdleOp
<1>8. poll'[p].pc = "preparing" BY <1>0 DEF IInv, Typed, IsPoll
<1>9. Driven' /\ Going' BY Zenon, <1>7, <1>8 DEF Driven, Going
<1>10. Anchored' /\ Leased' BY Zenon, <1>0, <1>1, AnchorsBegin DEF LInv
<1> QED BY Zenon, <1>6, <1>9, <1>10 DEF LInv

\* Prepared: a success has left a tidy ledger.
LEMMA RetainsPrepared ==
  ASSUME IInv, LInv, UNCHANGED site, NEW p \in site.pollers, Prepared(p)
  PROVE  LInv'
<1>0. /\ UNCHANGED <<led, pins, lease, adopted, cp, up>> /\ poll[p].pc = "preparing" /\ rc.pc = "end" /\ rc' = IdleOp
      /\ \/ rc.ok /\ poll' = [poll EXCEPT ![p].pc = "commit"]
         \/ Leave(p)
  BY Zenon DEF Prepared, runVars, headVars, durVars
<1>1. Holds(poll[p]) BY Zenon, <1>0 DEF Holds
<1>2. \A q \in site.pollers : q # p => ~Holds(poll[q]) BY Zenon, <1>1 DEF IInv, Exclusive
<1>3. PICK d : d = poll[p].doc BY Zenon
<1>4. d # None BY Zenon, <1>1, <1>3 DEF LInv, Retaining, Retains
<1>5. rc.op = "prepare"
  <2>1. up = "on" BY Zenon, <1>1, Running DEF Holds
  <2>2. PICK q \in site.pollers : \/ poll[q].pc = "preparing" /\ rc.op = "prepare"
                                  \/ poll[q].pc = "committing" /\ rc.op = "commit"
    BY Zenon, <1>0, <2>1 DEF LInv, Driven
  <2>3. Holds(poll[q]) BY Zenon, <2>2 DEF Holds
  <2>4. q = p BY Zenon, <1>2, <2>3
  <2> QED BY Zenon, <1>0, <2>2, <2>4
<1>6. rc.ok => Tidy(led) BY Zenon, <1>0, <1>5 DEF LInv, Anchored, Toward
<1>7. Retaining'
  <2>1. CASE Leave(p) BY Zenon, <1>2, <2>1, RetainsIdle, RetainsMoves DEF Leave, LInv
  <2>2. CASE rc.ok /\ poll' = [poll EXCEPT ![p].pc = "commit"]
    <3>1. Tidy(led)' BY Zenon, <1>0, <1>6, <2>2 DEF Tidy
    <3>2. PICK v : v = "commit" BY Zenon
    <3>3. v \notin {"protect", "walk", "proof", "barrier"} BY Zenon, <3>2
    <3> QED BY Zenon, <1>2, <1>3, <1>4, <2>2, <3>1, <3>2, <3>3, RetainsGoes DEF LInv
  <2> QED BY Zenon, <1>0, <2>1, <2>2
<1>8. rc'.pc = "idle" BY Zenon, <1>0 DEF IdleOp
<1>9. Driven' /\ Going' BY Zenon, <1>8 DEF Driven, Going
<1>10. Anchored' /\ Leased' BY Zenon, <1>0, AnchorsIdle DEF LInv
<1> QED BY Zenon, <1>7, <1>9, <1>10 DEF LInv

\* Commit changes the checkpoints under the lock.
LEMMA RetainsCommit ==
  ASSUME IInv, LInv, UNCHANGED site, NEW p \in site.pollers, Commit(p)
  PROVE  LInv'
<1>0. UNCHANGED <<led, pins, rc, lease, adopted, up>> /\ poll[p].pc = "commit"
  BY Zenon DEF Commit, ctlVars, runVars, headVars
<1>1. Holds(poll[p]) BY Zenon, <1>0 DEF Holds
<1>2. \A q \in site.pollers : q # p => ~Holds(poll[q]) BY Zenon, <1>1 DEF IInv, Exclusive
<1>3. PICK d : d = poll[p].doc BY Zenon
<1>4. d # None /\ (site.external => Tidy(led)) BY Zenon, <1>0, <1>1, <1>3 DEF LInv, Retaining, Retains
<1>5. Leave(p) \/ poll' = [poll EXCEPT ![p].pc = "install"] BY Zenon DEF Commit
<1>6. Retaining'
  <2>1. CASE Leave(p) BY Zenon, <1>2, <2>1, RetainsIdle, RetainsMoves DEF Leave, LInv
  <2>2. CASE poll' = [poll EXCEPT ![p].pc = "install"]
    <3>1. site.external => Tidy(led)' BY Zenon, <1>0, <1>4 DEF Tidy
    <3>2. PICK v : v = "install" BY Zenon
    <3>3. v \notin {"protect", "walk", "proof", "barrier"} BY Zenon, <3>2
    <3> QED BY Zenon, <1>2, <1>3, <1>4, <2>2, <3>1, <3>2, <3>3, RetainsGoes DEF LInv
  <2> QED BY Zenon, <1>5, <2>1, <2>2
<1>7. Driven'
  <2>1. PICK x : poll' = [poll EXCEPT ![p] = x] BY Zenon, <1>5 DEF Leave
  <2>2. poll[p].pc \notin {"preparing", "committing"} BY Zenon, <1>0
  <2> QED BY Zenon, <1>0, <2>1, <2>2, DrivenStands DEF LInv
<1>8. Anchored' /\ Leased' BY Zenon, <1>0, AnchorsStand DEF LInv
<1>9. Going' BY Zenon, <1>0 DEF LInv, Going
<1> QED BY Zenon, <1>6, <1>7, <1>8, <1>9 DEF LInv

\* Install: what is served from now on is in the generation of the document.
LEMMA ServesItsGeneration ==
  ASSUME Serving, NEW p \in site.pollers, Install(p), NEW d, d = poll[p].doc, d.rev \in Nat, adopted'["fin"] # None
  PROVE  <<"fin", adopted'["fin"]>> \in Generation(d).heads
<1>1. poll[p].pc = "install" /\ adopted' = [h \in Kinds |-> IF h \in site.heads THEN Serve(d, h) ELSE None]
  BY Zenon DEF Install
<1>2. "fin" \in site.heads /\ adopted'["fin"] = Serve(d, "fin") BY Zenon, <1>1 DEF Kinds
<1>3. Recorded("fin", Serve(d, "fin")) BY Zenon, <1>1, <1>2 DEF Serving
<1>4. CASE Covered(d, "fin")
  <2>1. adopted'["fin"] = Line(d, "fin") BY Zenon, <1>2, <1>4 DEF Serve
  <2> QED BY Zenon, <1>2, <1>4, <2>1 DEF Generation
<1>5. CASE ~Covered(d, "fin")
  <2>1. d.rev = 0
    <3>1. ~(d.rev > 0) BY Zenon, <1>2, <1>5 DEF Serve
    <3> QED BY <3>1
  <2>2. cp["fin"].sel /\ cp["fin"].line = adopted'["fin"] BY Zenon, <1>2, <1>3 DEF Recorded
  <2> QED BY Zenon, <1>2, <1>5, <2>1, <2>2 DEF Generation
<1> QED BY Zenon, <1>4, <1>5

\* Install keeps it.
LEMMA RetainsInstall ==
  ASSUME IInv, Serving, LInv, UNCHANGED site, NEW p \in site.pollers, Install(p)
  PROVE  LInv'
<1>0. UNCHANGED <<led, pins, rc, lease, cp, up>> /\ poll[p].pc = "install"
  BY Zenon DEF Install, ctlVars, runVars, durVars
<1>1. Holds(poll[p]) BY Zenon, <1>0 DEF Holds
<1>2. \A q \in site.pollers : q # p => ~Holds(poll[q]) BY Zenon, <1>1 DEF IInv, Exclusive
<1>3. PICK d : d = poll[p].doc BY Zenon
<1>4. d # None /\ d.rev \in Nat /\ (site.external => Tidy(led)) BY Zenon, <1>0, <1>1, <1>3 DEF LInv, Retaining, Retains
<1>5. Leave(p) \/ (site.external /\ poll' = [poll EXCEPT ![p].pc = "barrier"]) BY Zenon DEF Install
<1>6. Retaining'
  <2>1. CASE Leave(p) BY Zenon, <1>2, <2>1, RetainsIdle, RetainsMoves DEF Leave, LInv
  <2>2. CASE site.external /\ poll' = [poll EXCEPT ![p].pc = "barrier"]
    <3>1. site.external => Tidy(led)' BY Zenon, <1>0, <1>4 DEF Tidy
    <3>2. adopted'["fin"] # None => <<"fin", adopted'["fin"]>> \in Generation(d).heads
      BY Zenon, <1>3, <1>4, ServesItsGeneration
    <3>3. adopted'["fin"] # None => <<"fin", adopted'["fin"]>> \in Generation(d).heads'
      BY Zenon, <1>0, <3>2 DEF Generation
    <3>4. PICK x : x = [poll[p] EXCEPT !.pc = "barrier"] BY Zenon
    <3>5. x.pc = "barrier" /\ x.doc = d BY <1>3, <3>4 DEF IInv, Typed, IsPoll
    <3>6. Retains(x)' BY Zenon, <1>4, <2>2, <3>1, <3>3, <3>5 DEF Retains
    <3> QED BY Zenon, <1>2, <2>2, <3>4, <3>6, RetainsMoves DEF LInv
  <2> QED BY Zenon, <1>5, <2>1, <2>2
<1>7. poll[p].pc \notin {"preparing", "committing"} BY Zenon, <1>0
<1>8. Driven'
  <2>1. PICK x : poll' = [poll EXCEPT ![p] = x] BY Zenon, <1>5 DEF Leave
  <2> QED BY Zenon, <1>0, <1>7, <2>1, DrivenStands DEF LInv
<1>9. Going' BY Zenon, <1>0, <1>1, <1>7, DrivenElsewhere DEF LInv, Going
<1>10. Anchored' /\ Leased' BY Zenon, <1>0, AnchorsStand DEF LInv
<1> QED BY Zenon, <1>6, <1>8, <1>9, <1>10 DEF LInv

\* Retire: no request is left of what was served before.
LEMMA RetainsRetire ==
  ASSUME IInv, LInv, UNCHANGED site, NEW p \in site.pollers, Retire(p)
  PROVE  LInv'
<1>0. /\ UNCHANGED <<lease, adopted, cp, up>> /\ poll[p].pc = "barrier" /\ poll' = [poll EXCEPT ![p].pc = "committing"]
      /\ lease = None /\ Begin("commit", Generation(poll[p].doc))
  BY Zenon DEF Retire, Drained, runVars, headVars, durVars
<1>1. Holds(poll[p]) BY Zenon, <1>0 DEF Holds
<1>2. \A q \in site.pollers : q # p => ~Holds(poll[q]) BY Zenon, <1>1 DEF IInv, Exclusive
<1>3. PICK d : d = poll[p].doc BY Zenon
<1>4. /\ d # None /\ Tidy(led)
      /\ adopted["fin"] # None => <<"fin", adopted["fin"]>> \in Generation(d).heads
  BY Zenon, <1>0, <1>1, <1>3 DEF LInv, Retaining, Retains
<1>5. Retaining'
  <2>1. PICK v : v = "committing" BY Zenon
  <2>2. v \notin {"protect", "walk", "proof", "commit", "install", "barrier"} BY Zenon, <2>1
  <2> QED BY Zenon, <1>0, <1>2, <1>3, <1>4, <2>1, <2>2, RetainsGoes DEF LInv
<1>6. PICK g : g = Generation(d) BY Zenon
<1>7. rc'.op = "commit" /\ rc'.gen = g BY Zenon, <1>0, <1>3, <1>6 DEF Begin, IdleOp
<1>8. poll'[p].pc = "committing" BY <1>0 DEF IInv, Typed, IsPoll
<1>9. Driven' BY Zenon, <1>7, <1>8 DEF Driven
<1>10. Going' BY Zenon, <1>0, <1>4, <1>6, <1>7 DEF Going
<1>11. Anchored' /\ Leased' BY Zenon, <1>0, <1>4, AnchorsBegin DEF LInv
<1> QED BY Zenon, <1>5, <1>9, <1>10, <1>11 DEF LInv

\* Retired: the poll ends with its operation.
LEMMA RetainsRetired ==
  ASSUME IInv, LInv, UNCHANGED site, NEW p \in site.pollers, Retired(p)
  PROVE  LInv'
<1>0. UNCHANGED <<led, pins, lease, adopted, cp, up>> /\ poll[p].pc = "committing" /\ rc' = IdleOp /\ Leave(p)
  BY Zenon DEF Retired, headVars, durVars
<1>1. Holds(poll[p]) BY Zenon, <1>0 DEF Holds
<1>2. \A q \in site.pollers : q # p => ~Holds(poll[q]) BY Zenon, <1>1 DEF IInv, Exclusive
<1>3. Retaining' BY Zenon, <1>0, <1>2, RetainsIdle, RetainsMoves DEF Leave, LInv
<1>4. rc'.pc = "idle" BY Zenon, <1>0 DEF IdleOp
<1>5. Driven' /\ Going' BY Zenon, <1>4 DEF Driven, Going
<1>6. Anchored' /\ Leased' BY Zenon, <1>0, AnchorsIdle DEF LInv
<1> QED BY Zenon, <1>3, <1>5, <1>6 DEF LInv

\* Every step of a poll.
LEMMA RetainsPoll ==
  ASSUME IInv, Serving, LInv, UNCHANGED site, \A d \in docs : d.rev \in Nat, \A r \in recs : r.doc \in docs, PollStep
  PROVE  LInv'
<1>1. PICK p \in site.pollers :
        \/ Resolve(p) \/ Admit(p) \/ Protect(p) \/ ProtectWalk(p) \/ ProtectProof(p)
        \/ Prepare(p) \/ Prepared(p) \/ Commit(p) \/ Install(p) \/ Retire(p) \/ Retired(p)
  BY Zenon DEF PollStep
<1>2. CASE Resolve(p) \/ Admit(p) \/ Protect(p) \/ ProtectWalk(p) \/ ProtectProof(p)
  BY Zenon, <1>2, RetainsResolve, RetainsAdmit, RetainsProtect
<1>3. CASE Prepare(p) \/ Prepared(p) \/ Commit(p) BY Zenon, <1>3, RetainsPrepare, RetainsPrepared, RetainsCommit
<1>4. CASE Install(p) \/ Retire(p) \/ Retired(p) BY Zenon, <1>4, RetainsInstall, RetainsRetire, RetainsRetired
<1> QED BY Zenon, <1>1, <1>2, <1>3, <1>4

-----------------------------------------------------------------------------
\* A start begins the recovery, and a crash ends every poll and every request.
LEMMA RetainsProcess ==
  ASSUME IInv, LInv, UNCHANGED site, Restarts
  PROVE  LInv'
<1>1. CASE Crash
  <2>0. UNCHANGED <<led, pins, cp>> /\ rc' = IdleOp /\ lease' = None /\ poll' = [p \in site.pollers |-> IdlePoll]
    BY Zenon, <1>1 DEF Crash, durVars
  <2>1. \A q \in site.pollers : poll'[q] = IdlePoll BY Zenon, <2>0
  <2>2. Retaining' BY Zenon, <2>1, RetainsIdle DEF Retaining
  <2>3. rc'.pc = "idle" BY Zenon, <2>0 DEF IdleOp
  <2>4. Driven' /\ Going' BY Zenon, <2>3 DEF Driven, Going
  <2>5. Anchored' /\ Leased' BY Zenon, <2>0, AnchorsIdle DEF LInv
  <2> QED BY Zenon, <2>2, <2>4, <2>5 DEF LInv
<1>2. CASE Start \/ Recovered \/ Resume
  <2>0. UNCHANGED <<poll, lease, cp, led, pins>> /\ up # "on"
    BY Zenon, <1>2 DEF Start, Recovered, Resume, Begin, durVars, runVars, ctlVars
  <2>1. \A q \in site.pollers : poll[q].pc = "idle" BY Zenon, <2>0 DEF IInv, Exclusive
  <2>2. Retaining' BY Zenon, <2>0, <2>1, RetainingStands DEF LInv, Holds
  <2>3. rc.pc # "idle" => up = "recovering" BY Zenon, <2>1 DEF LInv, Driven
  <2>4. CASE rc.pc = "idle" /\ UNCHANGED rc
    <3>1. Driven' /\ Going' BY Zenon, <2>4 DEF Driven, Going
    <3>2. Anchored' /\ Leased' BY Zenon, <2>0, <2>4, AnchorsStand DEF LInv
    <3> QED BY Zenon, <2>2, <3>1, <3>2 DEF LInv
  <2>5. CASE rc' = IdleOp
    <3>1. rc'.pc = "idle" BY Zenon, <2>5 DEF IdleOp
    <3>2. Driven' /\ Going' BY Zenon, <3>1 DEF Driven, Going
    <3>3. Anchored' /\ Leased' BY Zenon, <2>0, <2>5, AnchorsIdle DEF LInv
    <3> QED BY Zenon, <2>2, <3>2, <3>3 DEF LInv
  <2>6. CASE Begin("recover", None) /\ up' = "recovering"
    <3>1. rc'.op = "recover" BY Zenon, <2>6 DEF Begin, IdleOp
    <3>2. Driven' /\ Going' BY Zenon, <2>6, <3>1 DEF Driven, Going
    <3>3. Anchored' /\ Leased' BY Zenon, <2>0, <2>6, AnchorsBegin DEF LInv
    <3> QED BY Zenon, <2>2, <3>2, <3>3 DEF LInv
  <2>7. Start => \/ Begin("recover", None) /\ up' = "recovering"
                 \/ rc.pc = "idle" /\ UNCHANGED rc
    BY Zenon, <2>3 DEF Start, ctlVars
  <2>8. Resume => rc.pc = "idle" /\ UNCHANGED rc BY Zenon, <2>3 DEF Resume, ctlVars
  <2>9. Recovered => rc' = IdleOp BY Zenon DEF Recovered
  <2> QED BY Zenon, <1>2, <2>4, <2>5, <2>6, <2>7, <2>8, <2>9
<1> QED BY Zenon, <1>1, <1>2 DEF Restarts

\* No operation is in progress while a head is handed over or written.
LEMMA RetainsPromotion ==
  ASSUME IInv, Serving, LInv, UNCHANGED site, PromotionStep
  PROVE  LInv'
<1>0. UNCHANGED <<poll, lease, led, pins, rc>> BY Zenon DEF PromotionStep, ctlVars, runVars
<1>1. up \in {"down", "opening"} \/ role = "write"
  BY Zenon DEF PromotionStep, Reassign, ReconcilePromotion, OpenHead, WriterAppends, Shutdown
<1>2. role = "write" => up \in {"down", "opening", "on"} BY Zenon DEF Serving
<1>3. up # "on" \/ role # "follow" BY Zenon, <1>1
<1>4. up # "recovering" BY Zenon, <1>1, <1>2
<1>5. \A q \in site.pollers : poll[q].pc = "idle" BY Zenon, <1>3 DEF IInv, Exclusive
<1>6. rc.pc = "idle" BY Zenon, <1>4, <1>5 DEF LInv, Driven
<1>7. Retaining' BY Zenon, <1>0, <1>5, RetainingStands DEF LInv, Holds
<1>8. Driven' /\ Going' BY Zenon, <1>0, <1>6 DEF Driven, Going
<1>9. Anchored' /\ Leased' BY Zenon, <1>0, AnchorsStand DEF LInv
<1> QED BY Zenon, <1>7, <1>8, <1>9 DEF LInv

\* A request begins on what is served, which the current generation and its successor
\* both have.
LEMMA RetainsRuntime ==
  ASSUME LInv, UNCHANGED <<site, ctlVars, up, poll, adopted, cp>>, AuditStep \/ ReadBegin \/ ReadEnd
  PROVE  LInv'
<1>0. UNCHANGED <<led, pins, rc>> BY Zenon DEF ctlVars
<1>1. CASE UNCHANGED lease BY Zenon, <1>1, RetainsQuiet
<1>2. Retaining' BY Zenon, <1>0, RetainingStands DEF LInv
<1>3. Driven' /\ Going' BY Zenon, <1>0 DEF LInv, Driven, Going
<1>4. Anchored' BY Zenon, <1>0 DEF LInv, Anchored, Toward, Ours
<1>5. CASE ReadEnd
  <2>1. lease' = None BY Zenon, <1>5 DEF ReadEnd
  <2> QED BY Zenon, <1>2, <1>3, <1>4, <2>1 DEF LInv, Leased
<1>6. CASE ReadBegin
  <2>1. PICK l : l = lease' BY Zenon
  <2>2. adopted["fin"] # None /\ l = [root |-> adopted["fin"], firm |-> led.cur.owned /\ <<"fin", adopted["fin"]>> \in led.cur.gen.heads]
    BY Zenon, <1>6, <2>1 DEF ReadBegin
  <2>3. l.root = adopted["fin"] /\ l.firm = (led.cur.owned /\ <<"fin", adopted["fin"]>> \in led.cur.gen.heads) BY Zenon, <2>2
  <2>4. led.cur.owned => led.cur.gen # None BY Zenon DEF LInv, Anchored, Apart
  <2>5. Leased' BY Zenon, <1>0, <2>1, <2>2, <2>3, <2>4 DEF LInv, Going, Leased
  <2> QED BY Zenon, <1>2, <1>3, <1>4, <2>5 DEF LInv
<1> QED BY Zenon, <1>1, <1>5, <1>6 DEF AuditStep
================================================================================
