------------------------------ MODULE Publications -----------------------------
(***************************************************************************)
(* The publication documents of a writer and the IPNS records that name    *)
(* them (server/publications.go, server/heads.go, p2p/ipns.go).            *)
(*                                                                         *)
(* A document is [n, auth, rev, fin, mut]: the n-th its signer built (also *)
(* its date: a build takes longer than the second the date is kept in),    *)
(* its revision (0 for a legacy document), the coverage of the finalized   *)
(* head (None omitted, 0 empty) and the root of the mutable one.  A        *)
(* mutable line always names the finalized line beside it as its handoff   *)
(* (ValidateContract), so the handoff is not a field of its own.           *)
(***************************************************************************)
EXTENDS Integers, FiniteSets

CONSTANTS
  None,
  MaxDocs, \* documents a signer builds
  MaxTries \* sequence numbers it draws per document, a bound on its retries

VARIABLES
  site,   \* the deployment, fixed: see ReaderNode
  faults, \* failures so far
  pub,    \* signer -> [up, rev, latch, line, n, stage, next, seq, pending, last, put]
  docs,   \* every document ever installed
  recs    \* every IPNS record that reached the network: [name, seq, doc]

pubVars == <<pub, docs, recs>>

Fault(part) == part \in site.faulty /\ faults < site.limit /\ faults' = faults + 1
Calm == UNCHANGED faults

\* A fresh data directory.  line is the durable <<fin, mut>>.
NewSigner == [up |-> FALSE, rev |-> 0, latch |-> FALSE, line |-> <<0, None>>, n |-> 0, stage |-> "idle",
              next |-> None, seq |-> 0, pending |-> None, last |-> None, put |-> None]
PubInit == pub = [a \in site.signers |-> NewSigner] /\ docs = {} /\ recs = {}

\* buildPublication: once revisioned, a signer stays so; an archive id, which an edge
\* insists on, makes every document revisioned.
Revisioned(p, line) == p.latch \/ line[2] # None \/ site.edge

Document(a, p, line) ==
  [n |-> p.n + 1, auth |-> a, rev |-> IF Revisioned(p, line) THEN p.rev + 1 ELSE 0,
   fin |-> line[1], mut |-> line[2]]

\* PublicationStore.Next: durable before the document is signed.
Burn(p, d) == IF d.rev = 0 THEN p ELSE [p EXCEPT !.latch = TRUE, !.rev = d.rev]

\* What the operations on the heads (ApplyRefs, Truncate, ReplaceGeneration, a change
\* of configuration) can make of the current lines.
Moves(a) == {m[2] : m \in {m \in site.moves : m[1] = pub[a].line}}

\* A mutation up to its durable commit: the document is built first.
BuildDoc(a) ==
  /\ pub[a].up /\ pub[a].stage = "idle" /\ pub[a].n < MaxDocs
  /\ \E l \in Moves(a) : \E d \in {Document(a, pub[a], l)} :
       pub' = [pub EXCEPT ![a] = [Burn(@, d) EXCEPT !.n = d.n, !.next = d, !.stage = "built"]]
  /\ UNCHANGED <<docs, recs>>

PersistRoot(a) ==
  /\ pub[a].stage = "built"
  /\ pub' = [pub EXCEPT ![a].line = <<pub[a].next.fin, pub[a].next.mut>>, ![a].stage = "durable"]
  /\ UNCHANGED <<docs, recs>>

\* installPublication, and its hook Publisher.Notify, which keeps the newest document.
InstallDoc(a) ==
  /\ pub[a].stage = "durable"
  /\ pub' = [pub EXCEPT ![a].stage = "idle", ![a].pending = pub[a].next, ![a].next = None]
  /\ docs' = docs \cup {pub[a].next} /\ UNCHANGED recs

\* The root could not be saved: the burned revision stays a hole.
PersistFails(a) ==
  /\ pub[a].stage = "built" /\ Fault("disk")
  /\ pub' = [pub EXCEPT ![a].stage = "idle", ![a].next = None]
  /\ UNCHANGED <<docs, recs>>

CrashSigner(a) ==
  /\ pub[a].up /\ pub[a].n < MaxDocs /\ Fault("writer")
  /\ pub' = [pub EXCEPT ![a] = [NewSigner EXCEPT !.rev = pub[a].rev, !.line = pub[a].line,
                                                 !.n = pub[a].n, !.seq = pub[a].seq]]
  /\ UNCHANGED <<docs, recs>>

\* NewHeads: the latch is the stored revision floor, and the first document is built
\* from the durable roots.
StartSigner(a) ==
  /\ ~pub[a].up /\ pub[a].n < MaxDocs
  /\ \E p \in {[pub[a] EXCEPT !.latch = (pub[a].rev > 0)]} : \E d \in {Document(a, p, p.line)} :
       pub' = [pub EXCEPT ![a] = [Burn(p, d) EXCEPT !.up = TRUE, !.n = d.n, !.next = d, !.stage = "durable"]]
  /\ UNCHANGED <<docs, recs>>

-----------------------------------------------------------------------------
\* The IPNS publisher loop.  put is the record on its way.

\* Publish: a new document takes a new number, an unchanged one keeps its own.
Number(p) == IF p.pending = p.last THEN p.seq ELSE p.seq + 1

\* Slip: the number is stored once its record is out.
StoreLate(p, s) == p.seq

\* nextSeq: stored before the record that uses it.
StoreSeq(p, s) == s

PrepareRecord(a) ==
  /\ pub[a].up /\ pub[a].pending # None /\ pub[a].put = None /\ Number(pub[a]) <= MaxTries * pub[a].n
  /\ \E s \in {Number(pub[a])} :
       pub' = [pub EXCEPT ![a].seq = StoreSeq(pub[a], s),
                          ![a].put = [name |-> a, seq |-> s, doc |-> pub[a].pending]]
  /\ UNCHANGED <<docs, recs>>

\* PutValue answers, or fails with or without effect and the loop tries again.
PutRecord(a) ==
  /\ pub[a].put # None
  /\ \/ /\ recs' = recs \cup {pub[a].put} /\ Calm
        /\ pub' = [pub EXCEPT ![a].put = None, ![a].last = pub[a].put.doc, ![a].seq = pub[a].put.seq]
     \/ /\ Fault("routing") /\ recs' \in {recs, recs \cup {pub[a].put}}
        /\ pub' = [pub EXCEPT ![a].put = None]
  /\ UNCHANGED docs

\* A writer restored from an old copy of its data directory draws a number twice.
RestoreSigner(a) ==
  /\ Fault("backup") /\ pub[a].rev > 0
  /\ pub' = [pub EXCEPT ![a].rev = @ - 1]
  /\ UNCHANGED <<docs, recs>>

\* The same as one step, for a writer that does not fail: what happens between a
\* mutation and its record is invisible to a reader.
PublishAtOnce(a) ==
  /\ pub[a].n < MaxDocs
  /\ \E l \in Moves(a) : \E d \in {Document(a, pub[a], l)} :
       /\ pub' = [pub EXCEPT ![a] = [Burn(@, d) EXCEPT !.n = d.n, !.line = l, !.seq = d.n]]
       /\ docs' = docs \cup {d}
       /\ recs' = IF site.ipns THEN recs \cup {[name |-> a, seq |-> d.n, doc |-> d]} ELSE recs

SignerStep ==
  \E a \in site.signers :
    \/ /\ site.writer = "steps"
       /\ \/ (BuildDoc(a) \/ PersistRoot(a) \/ InstallDoc(a) \/ StartSigner(a) \/ PrepareRecord(a)) /\ Calm
          \/ PersistFails(a) \/ CrashSigner(a) \/ (~site.edge /\ PutRecord(a))
    \/ site.writer = "atomic" /\ ((PublishAtOnce(a) /\ Calm) \/ RestoreSigner(a))

-----------------------------------------------------------------------------
\* A signer's documents are ordered: whatever failed or crashed in between, a later
\* one never repeats or lowers a revision and never drops back to a legacy document
\* (PublicationStore.Next, buildPublication).
DocumentsOrdered ==
  "backup" \notin site.faulty =>
    \A d, e \in docs : d.auth = e.auth /\ d.n < e.n /\ d.rev > 0 => e.rev > d.rev

\* A follower may trust a record's sequence: no number names two documents and no
\* higher one an older document, through failed puts, retries and restarts
\* (Publish, nextSeq, storeSeq).
RecordsOrdered ==
  \A r, s \in recs : r.name = s.name /\ r.seq <= s.seq => r.doc.n <= s.doc.n
================================================================================
