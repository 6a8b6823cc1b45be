------------------------------ MODULE RelayProofs ------------------------------
(***************************************************************************)
(* The order of documents and records, from the writer that numbers them   *)
(* to the edge that relays them, the pointer schedule's worker and a       *)
(* daemon's hints, and the rendezvous service, for every number of keys,   *)
(* peers and address changes: the inductive invariants, and that every     *)
(* step keeps them.                                                        *)
(***************************************************************************)
EXTENDS EdgeRelay, PointerHints, Rendezvous, TLAPS

IsSigner(p) ==
  /\ p = [up |-> p.up, rev |-> p.rev, latch |-> p.latch, line |-> p.line, n |-> p.n, stage |-> p.stage,
          next |-> p.next, seq |-> p.seq, pending |-> p.pending, last |-> p.last, put |-> p.put]
  /\ p.n \in Nat /\ p.rev \in Nat /\ p.seq \in Nat

IsEdge(e) ==
  /\ e = [up |-> e.up, disk |-> e.disk, mem |-> e.mem, ready |-> e.ready, restoring |-> e.restoring, tx |-> e.tx,
          queue |-> e.queue]
  /\ e.tx # None => e.tx = [pc |-> e.tx.pc, op |-> e.tx.op, rec |-> e.tx.rec]

\* A live line makes its document a revisioned one.
IsDoc(d) == d.n \in Nat /\ d.rev \in Nat /\ d.auth \in site.signers /\ (d.mut # None => d.rev > 0)

\* Every record that is out, on its way, or kept by the edge.
Held(e) == {e.mem, e.disk} \cup {t.rec : t \in {e.tx} \ {None}}
Issued == recs \cup edge.queue \cup (({pub[a].put : a \in site.signers} \cup Held(edge)) \ {None})

IsRecord(r) == r.seq \in Nat /\ r.name \in site.signers /\ r.doc \in docs /\ r.doc.auth = r.name

\* The records S of a signer against its numbers: none is above them, the pending
\* document is no older than any, and the number in use names nothing older than the
\* document it was last used for.
Numbered(p, a, S) ==
  /\ \A r \in S : r.name = a =>
       /\ r.seq <= p.seq /\ r.doc.n <= p.n
       /\ p.pending # None => r.doc.n <= p.pending.n
       /\ p.last # None /\ r.seq = p.seq => p.last.n <= r.doc.n
  /\ p.put # None => p.put.name = a /\ p.put.seq = p.seq
  /\ p.pending # None => p.pending.n <= p.n
  /\ p.last # None => p.last.n <= p.n
  /\ p.last # None /\ p.pending # None => p.last.n <= p.pending.n

\* The documents a signer holds are its own.
Authored(p, a) ==
  /\ p.pending # None => p.pending \in docs /\ p.pending.auth = a
  /\ p.last # None => p.last \in docs
  /\ p.stage # "idle" => IsDoc(p.next) /\ p.next.auth = a /\ p.next.n = p.n

AtOnce(p) == site.writer = "atomic" => p.put = None /\ p.pending = None /\ p.stage = "idle" /\ p.seq <= p.n

\* No number names two documents, and no higher one an older document.
Sorted(S) == \A r, s \in S : r.name = s.name /\ r.seq <= s.seq => r.doc.n <= s.doc.n

Numbering ==
  /\ pub = [a \in site.signers |-> pub[a]]
  /\ \A a \in site.signers : IsSigner(pub[a]) /\ Numbered(pub[a], a, Issued) /\ Authored(pub[a], a) /\ AtOnce(pub[a])
  /\ \A d \in docs : IsDoc(d)
  /\ \A r \in Issued : IsRecord(r)
  /\ Sorted(Issued)
  /\ ask # None => ask.name \in site.signers /\ pub[ask.name].put = ask

\* A document carries what its signer had reached: unless an old copy of the data
\* directory was restored, a revision above every one before it.
Dated(p, a) ==
  /\ \A d \in docs : d.auth = a => d.n <= p.n /\ d.rev <= p.rev
  /\ p.stage # "idle" =>
       p.next.rev <= p.rev /\ \A d \in docs : d.auth = a => d.n < p.next.n /\ (d.rev > 0 => d.rev < p.next.rev)
  /\ (p.up \/ site.writer = "atomic") /\ p.rev > 0 => p.latch
Dating == "backup" \notin site.faulty => (\A a \in site.signers : Dated(pub[a], a)) /\ DocumentsOrdered

\* A transaction that is past the check carries a record above the floor; once it is
\* kept, it is the floor; and the record last handed to the DHT is not above the floor
\* a restart would load.
Floored ==
  /\ IsEdge(edge) /\ None \notin edge.queue
  /\ edge.up /\ edge.mem # None => edge.disk # None /\ edge.mem.seq <= edge.disk.seq
  /\ edge.tx # None =>
       /\ edge.up
       /\ edge.tx.op = "restore" => edge.tx.rec = edge.mem
       /\ edge.tx.pc \in {"provide", "persist"} /\ edge.mem # None => edge.mem.seq <= edge.tx.rec.seq
       /\ edge.tx.pc \in {"put", "stage", "swap", "settle", "clear"} => edge.tx.rec = edge.mem
       /\ edge.tx.rec # None
  /\ sent.last # None =>
       /\ sent.last \in recs
       /\ edge.up => edge.mem # None /\ sent.last.seq <= edge.mem.seq
       /\ ~edge.up => edge.disk # None /\ sent.last.seq <= edge.disk.seq

\* An update the worker has not applied has filled its slot, and the call it makes for
\* a pointer still scheduled has begun.
Working ==
  /\ wk = [pc |-> wk.pc, moved |-> wk.moved, st |-> wk.st, at |-> wk.at, same |-> wk.same]
  /\ wk.moved /\ wk.pc # "top" => wake
  /\ wk.pc = "call" /\ wk.same => wk.at \in begun
  /\ provided \subseteq begun

Ordering == Numbering /\ Dating /\ Floored /\ Working

-----------------------------------------------------------------------------
\* The numbering.

\* What is issued, one place at a time, before and after a step.
LEMMA IssuedIs ==
  ASSUME NEW r
  PROVE  /\ r \in Issued <=> \/ r \in recs \/ r \in edge.queue
                             \/ r # None /\ \/ \E a \in site.signers : r = pub[a].put
                                            \/ r = edge.mem \/ r = edge.disk
                                            \/ edge.tx # None /\ r = edge.tx.rec
         /\ r \in Issued' <=> \/ r \in recs' \/ r \in edge'.queue
                              \/ r # None /\ \/ \E a \in site'.signers : r = pub'[a].put
                                             \/ r = edge'.mem \/ r = edge'.disk
                                             \/ edge'.tx # None /\ r = edge'.tx.rec
BY Zenon DEF Issued, Held

\* A signer moves: its own numbers are judged, the others' records are not its own.
LEMMA SignerMoves ==
  ASSUME Numbering, UNCHANGED site, NEW a \in site.signers, NEW x, IsSigner(x), pub' = [pub EXCEPT ![a] = x],
         docs \subseteq docs', \A d \in docs' : IsDoc(d),
         NEW N, Issued' \subseteq Issued \cup N, \A r \in N : r.name = a /\ r.seq \in Nat /\ r.doc \in docs' /\ r.doc.auth = a,
         NEW S, S = Issued \cup N, Numbered(x, a, S), Sorted({r \in S : r.name = a}),
         Authored(x, a)', AtOnce(x),
         ask' # None => ask' = ask /\ (ask.name = a => x.put = ask)
  PROVE  Numbering'
<1>1. \A b \in site.signers : pub'[b] = IF b = a THEN x ELSE pub[b] BY Zenon DEF Numbering
<1>2. pub' = [b \in site.signers |-> pub'[b]] BY Zenon DEF Numbering
<1>3. \A r \in Issued' : IsRecord(r)'
  BY Zenon DEF Numbering, IsRecord
<1>4. Sorted(Issued')
  <2> SUFFICES ASSUME NEW r \in Issued', NEW s \in Issued', r.name = s.name, r.seq <= s.seq PROVE r.doc.n <= s.doc.n
    BY Zenon DEF Sorted
  <2>1. CASE r.name = a BY Zenon, <2>1 DEF Sorted
  <2>2. CASE r.name # a BY Zenon, <2>2 DEF Numbering, Sorted
  <2> QED BY Zenon, <2>1, <2>2
<1>5. ASSUME NEW b \in site.signers, NEW q, q = pub'[b]
      PROVE  IsSigner(q) /\ Numbered(q, b, Issued') /\ Authored(q, b)' /\ AtOnce(q)'
  <2>1. CASE b = a
    <3>1. Numbered(x, a, Issued') BY Zenon DEF Numbered
    <3>2. q = x BY Zenon, <1>1, <1>5, <2>1
    <3> QED BY Zenon, <2>1, <3>1, <3>2 DEF AtOnce
  <2>2. CASE b # a
    <3>1. q = pub[b] BY Zenon, <1>1, <1>5, <2>2
    <3>2. \A r \in Issued' : r.name = b => r \in Issued BY Zenon, <2>2
    <3>3. IsSigner(q) /\ Numbered(q, b, Issued) /\ Authored(q, b) /\ AtOnce(q) BY Zenon, <3>1 DEF Numbering
    <3>4. Numbered(q, b, Issued') BY Zenon, <3>2, <3>3 DEF Numbered
    <3> QED BY Zenon, <3>3, <3>4 DEF Authored, AtOnce, IsDoc
  <2> QED BY Zenon, <2>1, <2>2
<1>6. ask' # None => ask'.name \in site.signers /\ pub'[ask'.name].put = ask' BY Zenon, <1>1 DEF Numbering
<1>7. \A d \in docs' : IsDoc(d)' BY Zenon DEF IsDoc
<1> QED BY Zenon, <1>2, <1>3, <1>4, <1>5, <1>6, <1>7 DEF Numbering

\* The same where it issues no new record.
LEMMA SignerKeeps ==
  ASSUME Numbering, UNCHANGED <<site, edge>>, recs' \subseteq Issued, NEW a \in site.signers, NEW x, IsSigner(x),
         pub' = [pub EXCEPT ![a] = x], docs \subseteq docs', \A d \in docs' : IsDoc(d),
         x.put \in {pub[a].put, None}, Numbered(x, a, Issued), Authored(x, a)', AtOnce(x), Abandon
  PROVE  Numbering'
<1>1. \A b \in site.signers : pub'[b] = IF b = a THEN x ELSE pub[b] BY Zenon DEF Numbering
<1>2. Issued' \subseteq Issued
  <2> SUFFICES ASSUME NEW r \in Issued' PROVE r \in Issued BY Zenon
  <2> QED BY <1>1, IssuedIs
<1>3. ask' # None => ask' = ask /\ (ask.name = a => x.put = ask) BY Zenon, <1>1 DEF Abandon, Numbering
<1>4. Sorted({r \in Issued : r.name = a}) BY Zenon DEF Numbering, Sorted
<1>5. PICK N : N = {} BY Zenon
<1>6. PICK S : S = Issued \cup N BY Zenon
<1>7. S = Issued /\ Issued' \subseteq Issued \cup N BY Zenon, <1>2, <1>5, <1>6
<1> QED BY Zenon, <1>3, <1>4, <1>5, <1>6, <1>7, SignerMoves

\* The next document of a signer.
LEMMA DocumentIs ==
  ASSUME NEW a \in site.signers, NEW p, IsSigner(p), NEW l, NEW d, d = Document(a, p, l)
  PROVE  /\ IsDoc(d) /\ d.auth = a /\ d.n = p.n + 1
         /\ d.rev = IF Revisioned(p, l) THEN p.rev + 1 ELSE 0
BY DEF Document, Revisioned, IsDoc, IsSigner

\* A drawn revision changes nothing else.
LEMMA Burned ==
  ASSUME NEW p, IsSigner(p), NEW d, d.rev \in Nat
  PROVE  \E q :
           /\ q = Burn(p, d) /\ IsSigner(q)
           /\ d.rev = 0 => q.rev = p.rev
           /\ d.rev # 0 => q.rev = d.rev
           /\ q.n = p.n /\ q.seq = p.seq /\ q.up = p.up /\ q.line = p.line /\ q.stage = p.stage /\ q.next = p.next
           /\ q.pending = p.pending /\ q.last = p.last /\ q.put = p.put
<1>1. PICK q : q = Burn(p, d) BY Zenon
<1>2. CASE d.rev = 0 BY Zenon, <1>1, <1>2 DEF Burn
<1>3. CASE d.rev # 0
  <2>1. q = [p EXCEPT !.latch = TRUE, !.rev = d.rev] BY Zenon, <1>1, <1>3 DEF Burn
  <2>2. /\ IsSigner(q) /\ q.rev = d.rev
        /\ q.n = p.n /\ q.seq = p.seq /\ q.up = p.up /\ q.line = p.line /\ q.stage = p.stage /\ q.next = p.next
        /\ q.pending = p.pending /\ q.last = p.last /\ q.put = p.put
    BY Zenon, <2>1 DEF IsSigner
  <2> QED BY Zenon, <1>1, <1>3, <2>2
<1> QED BY Zenon, <1>2, <1>3

\* A signer that built a document holds it and has issued nothing.
LEMMA Builds ==
  ASSUME Numbering, UNCHANGED <<site, edge, docs, recs>>, Abandon, NEW a \in site.signers, site.writer = "steps",
         NEW x, IsSigner(x), x.n = pub[a].n + 1, x.seq = pub[a].seq, x.pending = pub[a].pending,
         x.last = pub[a].last, x.put = pub[a].put, IsDoc(x.next), x.next.auth = a, x.next.n = x.n,
         pub' = [pub EXCEPT ![a] = x]
  PROVE  Numbering'
<1>1. Numbered(pub[a], a, Issued) /\ Authored(pub[a], a) /\ pub[a].n \in Nat BY Zenon DEF Numbering, IsSigner
<1>2. \A r \in Issued : r.doc.n \in Nat BY Zenon DEF Numbering, IsRecord, IsDoc
<1>3. /\ pub[a].pending # None => pub[a].pending.n \in Nat
      /\ pub[a].last # None => pub[a].last.n \in Nat
  BY Zenon, <1>1 DEF Authored, Numbering, IsDoc
<1>4. Numbered(x, a, Issued) BY <1>1, <1>2, <1>3 DEF Numbered
<1>5. Authored(x, a)' BY Zenon, <1>1 DEF Authored, IsDoc
<1>6. AtOnce(x) BY Zenon DEF AtOnce
<1>7. recs' \subseteq Issued /\ (\A y \in docs' : IsDoc(y)) BY Zenon DEF Issued, Numbering
<1> QED BY Zenon, <1>4, <1>5, <1>6, <1>7, SignerKeeps

\* BuildDoc and StartSigner keep the numbering.
LEMMA NumberedBuild ==
  ASSUME Numbering, UNCHANGED <<site, edge>>, Abandon, site.writer = "steps", NEW a \in site.signers, BuildDoc(a)
  PROVE  Numbering'
<1>1. PICK l : \E d \in {Document(a, pub[a], l)} :
        pub' = [pub EXCEPT ![a] = [Burn(@, d) EXCEPT !.n = d.n, !.next = d, !.stage = "built"]]
  BY Zenon DEF BuildDoc
<1>2. PICK d : d = Document(a, pub[a], l) /\
        pub' = [pub EXCEPT ![a] = [Burn(@, d) EXCEPT !.n = d.n, !.next = d, !.stage = "built"]]
  BY Zenon, <1>1
<1>3. IsSigner(pub[a]) /\ pub = [b \in site.signers |-> pub[b]] BY Zenon DEF Numbering
<1>4. IsDoc(d) /\ d.auth = a /\ d.n = pub[a].n + 1 BY <1>2, <1>3, DocumentIs
<1>5. PICK q : /\ q = Burn(pub[a], d) /\ IsSigner(q) /\ q.seq = pub[a].seq /\ q.pending = pub[a].pending
               /\ q.last = pub[a].last /\ q.put = pub[a].put
  <2>1. d.rev \in Nat BY Zenon, <1>4 DEF IsDoc
  <2> QED BY <1>3, <2>1, Burned
<1>6. PICK x : x = [q EXCEPT !.n = d.n, !.next = d, !.stage = "built"] BY Zenon
<1>7. pub' = [pub EXCEPT ![a] = x] BY Zenon, <1>2, <1>3, <1>5, <1>6
<1>8. /\ IsSigner(x) /\ x.n = d.n /\ x.seq = q.seq /\ x.pending = q.pending /\ x.last = q.last /\ x.put = q.put
      /\ x.next = d
  BY Zenon, <1>4, <1>5, <1>6 DEF IsSigner, IsDoc
<1>9. UNCHANGED <<docs, recs>> BY Zenon DEF BuildDoc
<1> QED BY <1>4, <1>5, <1>7, <1>8, <1>9, Builds

\* A start rebuilds the document under a burnt revision (StartSigner).
LEMMA NumberedStart ==
  ASSUME Numbering, UNCHANGED <<site, edge>>, Abandon, site.writer = "steps", NEW a \in site.signers, StartSigner(a)
  PROVE  Numbering'
<1>1. PICK p : p = [pub[a] EXCEPT !.latch = (pub[a].rev > 0)] BY Zenon
<1>2. PICK d : d = Document(a, p, p.line) /\
        pub' = [pub EXCEPT ![a] = [Burn(p, d) EXCEPT !.up = TRUE, !.n = d.n, !.next = d, !.stage = "durable"]]
  BY Zenon, <1>1 DEF StartSigner
<1>3. IsSigner(pub[a]) /\ pub = [b \in site.signers |-> pub[b]] BY Zenon DEF Numbering
<1>4. /\ IsSigner(p) /\ p.n = pub[a].n /\ p.seq = pub[a].seq /\ p.pending = pub[a].pending /\ p.last = pub[a].last
      /\ p.put = pub[a].put
  BY Zenon, <1>1, <1>3 DEF IsSigner
<1>5. IsDoc(d) /\ d.auth = a /\ d.n = p.n + 1 BY <1>2, <1>4, DocumentIs
<1>6. PICK q : /\ q = Burn(p, d) /\ IsSigner(q) /\ q.seq = p.seq /\ q.pending = p.pending
               /\ q.last = p.last /\ q.put = p.put
  <2>1. d.rev \in Nat BY Zenon, <1>5 DEF IsDoc
  <2> QED BY <1>4, <2>1, Burned
<1>7. PICK x : x = [q EXCEPT !.up = TRUE, !.n = d.n, !.next = d, !.stage = "durable"] BY Zenon
<1>8. pub' = [pub EXCEPT ![a] = x] BY Zenon, <1>2, <1>3, <1>6, <1>7
<1>9. /\ IsSigner(x) /\ x.n = d.n /\ x.seq = q.seq /\ x.pending = q.pending /\ x.last = q.last /\ x.put = q.put
      /\ x.next = d
  BY Zenon, <1>5, <1>6, <1>7 DEF IsSigner, IsDoc
<1>10. UNCHANGED <<docs, recs>> BY Zenon DEF StartSigner
<1> QED BY <1>4, <1>5, <1>6, <1>8, <1>9, <1>10, Builds

\* What is compared are numbers.
LEMMA AreNumbers ==
  ASSUME Numbering, NEW a \in site.signers
  PROVE  /\ IsSigner(pub[a]) /\ pub = [b \in site.signers |-> pub[b]]
         /\ pub[a].n \in Nat /\ pub[a].seq \in Nat /\ pub[a].rev \in Nat
         /\ \A r \in Issued : r.seq \in Nat /\ r.doc.n \in Nat
         /\ pub[a].pending # None => pub[a].pending.n \in Nat
         /\ pub[a].last # None => pub[a].last.n \in Nat
         /\ pub[a].put # None => pub[a].put \in Issued
         /\ Numbered(pub[a], a, Issued) /\ Authored(pub[a], a) /\ AtOnce(pub[a])
<1>1. \A r \in Issued : r.seq \in Nat /\ r.doc.n \in Nat BY Zenon DEF Numbering, IsRecord, IsDoc
<1>2. Authored(pub[a], a) /\ IsSigner(pub[a]) BY Zenon DEF Numbering
<1>3. pub[a].put # None => pub[a].put \in Issued BY Zenon, IssuedIs
<1>4. /\ pub[a].pending # None => pub[a].pending.n \in Nat
      /\ pub[a].last # None => pub[a].last.n \in Nat
  BY Zenon, <1>2 DEF Authored, Numbering, IsDoc
<1> QED BY Zenon, <1>1, <1>2, <1>3, <1>4 DEF Numbering, IsSigner

\* PersistRoot, PersistFails and RestoreSigner leave the numbers alone.
LEMMA NumberedPersist ==
  ASSUME Numbering, UNCHANGED <<site, edge>>, Abandon, NEW a \in site.signers,
         PersistRoot(a) \/ PersistFails(a) \/ RestoreSigner(a)
  PROVE  Numbering'
<1>0. UNCHANGED <<docs, recs>> BY Zenon DEF PersistRoot, PersistFails, RestoreSigner
<1>1. /\ IsSigner(pub[a]) /\ pub = [b \in site.signers |-> pub[b]] /\ pub[a].rev \in Nat
      /\ Numbered(pub[a], a, Issued) /\ Authored(pub[a], a) /\ AtOnce(pub[a])
  BY Zenon, AreNumbers
<1>2. PICK x : x = pub'[a] BY Zenon
<1>3. /\ IsSigner(x) /\ x.n = pub[a].n /\ x.seq = pub[a].seq /\ x.put = pub[a].put /\ x.pending = pub[a].pending
      /\ x.last = pub[a].last /\ pub' = [pub EXCEPT ![a] = x]
      /\ x.stage # "idle" => pub[a].stage # "idle" /\ x.next = pub[a].next
  <2>1. CASE PersistRoot(a)
    <3>1. PICK l : pub' = [pub EXCEPT ![a].line = l, ![a].stage = "durable"] BY Zenon, <2>1 DEF PersistRoot
    <3>2. pub[a].stage = "built" BY Zenon, <2>1 DEF PersistRoot
    <3> QED BY Zenon, <1>1, <1>2, <3>1, <3>2 DEF IsSigner
  <2>2. CASE PersistFails(a)
    <3>1. pub' = [pub EXCEPT ![a].stage = "idle", ![a].next = None] BY Zenon, <2>2 DEF PersistFails
    <3> QED BY Zenon, <1>1, <1>2, <3>1 DEF IsSigner
  <2>3. CASE RestoreSigner(a)
    <3>1. PICK v : v = pub[a].rev - 1 /\ pub' = [pub EXCEPT ![a].rev = v] /\ pub[a].rev > 0 BY Zenon, <2>3 DEF RestoreSigner
    <3>2. v \in Nat BY <1>1, <3>1 DEF IsSigner
    <3> QED BY Zenon, <1>1, <1>2, <3>1, <3>2 DEF IsSigner
  <2> QED BY Zenon, <2>1, <2>2, <2>3
<1>4. Numbered(x, a, Issued) BY Zenon, <1>1, <1>3 DEF Numbered
<1>5. Authored(x, a)' BY Zenon, <1>0, <1>1, <1>3 DEF Authored, IsDoc
<1>6. AtOnce(x) BY Zenon, <1>1, <1>3 DEF AtOnce
<1>7. recs' \subseteq Issued /\ (\A y \in docs' : IsDoc(y)) BY Zenon, <1>0 DEF Issued, Numbering
<1> QED BY Zenon, <1>0, <1>3, <1>4, <1>5, <1>6, <1>7, SignerKeeps

\* An installed document is the newest, and becomes the pending one.
LEMMA NumberedInstall ==
  ASSUME Numbering, UNCHANGED <<site, edge>>, Abandon, site.writer = "steps", NEW a \in site.signers, InstallDoc(a)
  PROVE  Numbering'
<1>1. /\ IsSigner(pub[a]) /\ pub = [b \in site.signers |-> pub[b]] /\ pub[a].n \in Nat
      /\ Numbered(pub[a], a, Issued) /\ Authored(pub[a], a)
  BY Zenon, AreNumbers
<1>2. PICK x : x = pub'[a] BY Zenon
<1>3. /\ pub' = [pub EXCEPT ![a].stage = "idle", ![a].pending = pub[a].next, ![a].next = None]
      /\ docs' = docs \cup {pub[a].next} /\ recs' = recs
      /\ IsDoc(pub[a].next) /\ pub[a].next.auth = a /\ pub[a].next.n = pub[a].n
  BY Zenon, <1>1 DEF InstallDoc, Authored
<1>4. /\ IsSigner(x) /\ x.n = pub[a].n /\ x.seq = pub[a].seq /\ x.put = pub[a].put /\ x.pending = pub[a].next
      /\ x.last = pub[a].last /\ pub' = [pub EXCEPT ![a] = x] /\ x.stage = "idle"
  BY Zenon, <1>1, <1>2, <1>3 DEF IsSigner
<1>4a. x.pending.n = x.n BY Zenon, <1>3, <1>4
<1>5. Numbered(x, a, Issued)
  <2>1. x.last # None => x.last.n <= x.n BY Zenon, <1>1, <1>4 DEF Numbered
  <2>2. x.put # None => x.put.name = a /\ x.put.seq = x.seq BY Zenon, <1>1, <1>4 DEF Numbered
  <2>3. \A r \in Issued : r.name = a =>
          r.seq <= x.seq /\ r.doc.n <= x.n /\ (x.last # None /\ r.seq = x.seq => x.last.n <= r.doc.n)
    BY Zenon, <1>1, <1>4 DEF Numbered
  <2>4. x.n <= x.n
    <3>1. x.n \in Nat BY Zenon, <1>1, <1>4
    <3> QED BY <3>1
  <2>5. \A r \in Issued : r.name = a => r.doc.n <= x.pending.n BY Zenon, <1>4a, <2>3
  <2>6. x.pending.n <= x.n /\ (x.last # None => x.last.n <= x.pending.n) BY Zenon, <1>4a, <2>1, <2>4
  <2> QED BY Zenon, <2>1, <2>2, <2>3, <2>5, <2>6 DEF Numbered
<1>6. Authored(x, a)' BY Zenon, <1>1, <1>3, <1>4 DEF Authored
<1>7. AtOnce(x) BY Zenon DEF AtOnce
<1>8. recs' \subseteq Issued /\ (\A y \in docs' : IsDoc(y)) BY Zenon, <1>3 DEF Issued, Numbering
<1>9. docs \subseteq docs' /\ x.put \in {pub[a].put, None} BY Zenon, <1>3, <1>4
<1> QED BY Zenon, <1>4, <1>5, <1>6, <1>7, <1>8, <1>9, SignerKeeps

\* A crash loses what was pending and keeps the numbers.
LEMMA NumberedCrash ==
  ASSUME Numbering, UNCHANGED <<site, edge>>, Abandon, site.writer = "steps", NEW a \in site.signers, CrashSigner(a)
  PROVE  Numbering'
<1>1. /\ IsSigner(pub[a]) /\ pub = [b \in site.signers |-> pub[b]]
      /\ pub[a].n \in Nat /\ pub[a].seq \in Nat /\ pub[a].rev \in Nat /\ Numbered(pub[a], a, Issued)
  BY Zenon, AreNumbers
<1>2. PICK x : x = [NewSigner EXCEPT !.rev = pub[a].rev, !.line = pub[a].line, !.n = pub[a].n, !.seq = pub[a].seq]
  BY Zenon
<1>3. pub' = [pub EXCEPT ![a] = x] /\ UNCHANGED <<docs, recs>> BY Zenon, <1>2 DEF CrashSigner
<1>4. /\ IsSigner(x) /\ x.n = pub[a].n /\ x.seq = pub[a].seq /\ x.put = None /\ x.pending = None
      /\ x.last = None /\ x.stage = "idle"
  BY Zenon, <1>1, <1>2 DEF IsSigner, NewSigner
<1>5. Numbered(x, a, Issued) BY Zenon, <1>1, <1>4 DEF Numbered
<1>6. Authored(x, a)' BY Zenon, <1>4 DEF Authored
<1>7. AtOnce(x) BY Zenon DEF AtOnce
<1>8. recs' \subseteq Issued /\ (\A y \in docs' : IsDoc(y)) BY Zenon, <1>3 DEF Issued, Numbering
<1>9. docs \subseteq docs' /\ x.put \in {pub[a].put, None} BY Zenon, <1>3, <1>4
<1> QED BY Zenon, <1>3, <1>4, <1>5, <1>6, <1>7, <1>8, <1>9, SignerKeeps

\* The record on its way is delivered, or lost: the last one answered for is it.
LEMMA NumberedAnswer ==
  ASSUME Numbering, UNCHANGED site, NEW a \in site.signers, pub[a].put # None,
         NEW x, IsSigner(x), pub' = [pub EXCEPT ![a] = x], x.put = None, x.n = pub[a].n, x.seq = pub[a].seq,
         x.pending = pub[a].pending, x.last \in {pub[a].last, pub[a].put.doc}, x.stage = pub[a].stage, x.next = pub[a].next
  PROVE  Numbered(x, a, Issued) /\ Authored(x, a) /\ AtOnce(x)
<1>1. /\ pub[a].put \in Issued /\ Numbered(pub[a], a, Issued) /\ Authored(pub[a], a) /\ AtOnce(pub[a])
      /\ \A r \in Issued : r.seq \in Nat /\ r.doc.n \in Nat
  BY Zenon, AreNumbers
<1>2. pub[a].put.name = a /\ pub[a].put.seq = pub[a].seq BY Zenon, <1>1 DEF Numbered
<1>3. pub[a].put.doc \in docs BY Zenon, <1>1 DEF Numbering, IsRecord
<1>4. \A r \in Issued : r.name = a /\ r.seq = pub[a].seq => pub[a].put.doc.n <= r.doc.n
  <2> TAKE r \in Issued
  <2> HAVE r.name = a /\ r.seq = pub[a].seq
  <2>1. pub[a].put.seq <= r.seq BY <1>1, <1>2
  <2> QED BY Zenon, <1>1, <1>2, <2>1 DEF Numbering, Sorted
<1>5. /\ pub[a].put.doc.n <= pub[a].n
      /\ pub[a].pending # None => pub[a].put.doc.n <= pub[a].pending.n
  BY Zenon, <1>1, <1>2 DEF Numbered
<1>6. Numbered(x, a, Issued)
  <2>1. CASE x.last = pub[a].last BY Zenon, <1>1, <2>1 DEF Numbered
  <2>2. CASE x.last = pub[a].put.doc
    <3>1. \A r \in Issued : r.name = a =>
            r.seq <= x.seq /\ r.doc.n <= x.n /\ (x.pending # None => r.doc.n <= x.pending.n)
      BY Zenon, <1>1 DEF Numbered
    <3>2. \A r \in Issued : r.name = a /\ r.seq = x.seq => x.last.n <= r.doc.n BY Zenon, <1>4, <2>2
    <3>3. x.last.n <= x.n /\ (x.pending # None => x.last.n <= x.pending.n) BY Zenon, <1>5, <2>2
    <3>4. x.pending # None => x.pending.n <= x.n BY Zenon, <1>1 DEF Numbered
    <3> QED BY Zenon, <3>1, <3>2, <3>3, <3>4 DEF Numbered
  <2> QED BY Zenon, <2>1, <2>2
<1>7. Authored(x, a) BY Zenon, <1>1, <1>3 DEF Authored
<1>8. AtOnce(x) BY Zenon, <1>1 DEF AtOnce
<1> QED BY Zenon, <1>6, <1>7, <1>8

\* A put issues the record prepared under the saved number (PutRecord).
LEMMA NumberedPut ==
  ASSUME Numbering, UNCHANGED <<site, edge>>, Abandon, NEW a \in site.signers, PutRecord(a)
  PROVE  Numbering'
<1>1. /\ IsSigner(pub[a]) /\ pub = [b \in site.signers |-> pub[b]] /\ pub[a].put # None /\ pub[a].put \in Issued
      /\ Numbered(pub[a], a, Issued)
  BY Zenon, AreNumbers DEF PutRecord
<1>2. pub[a].put.seq = pub[a].seq BY Zenon, <1>1 DEF Numbered
<1>3. PICK x : x = pub'[a] BY Zenon
<1>4. /\ IsSigner(x) /\ pub' = [pub EXCEPT ![a] = x] /\ x.put = None /\ x.n = pub[a].n /\ x.seq = pub[a].seq
      /\ x.pending = pub[a].pending /\ x.last \in {pub[a].last, pub[a].put.doc} /\ x.stage = pub[a].stage
      /\ x.next = pub[a].next
  <2>1. CASE pub' = [pub EXCEPT ![a].put = None, ![a].last = pub[a].put.doc, ![a].seq = pub[a].put.seq]
    BY Zenon, <1>1, <1>2, <1>3, <2>1 DEF IsSigner
  <2>2. CASE pub' = [pub EXCEPT ![a].put = None] BY Zenon, <1>1, <1>3, <2>2 DEF IsSigner
  <2> QED BY Zenon, <2>1, <2>2 DEF PutRecord
<1>5. recs' \subseteq recs \cup {pub[a].put} /\ docs' = docs BY Zenon DEF PutRecord
<1>6. recs' \subseteq Issued /\ (\A y \in docs' : IsDoc(y)) BY Zenon, <1>1, <1>5 DEF Issued, Numbering
<1>7. Numbered(x, a, Issued) /\ Authored(x, a) /\ AtOnce(x) BY Zenon, <1>1, <1>4, NumberedAnswer
<1>8. Authored(x, a)' BY Zenon, <1>5, <1>7 DEF Authored, IsDoc
<1> QED BY Zenon, <1>4, <1>5, <1>6, <1>7, <1>8, SignerKeeps

\* A new number is above all that was issued; an old one is used for its document again.
LEMMA NumberedPrepare ==
  ASSUME Numbering, UNCHANGED <<site, edge>>, Abandon, site.writer = "steps", NEW a \in site.signers, PrepareRecord(a)
  PROVE  Numbering'
<1>1. /\ IsSigner(pub[a]) /\ pub = [b \in site.signers |-> pub[b]] /\ pub[a].n \in Nat /\ pub[a].seq \in Nat
      /\ \A r \in Issued : r.seq \in Nat /\ r.doc.n \in Nat
      /\ Numbered(pub[a], a, Issued) /\ Authored(pub[a], a) /\ (pub[a].last # None => pub[a].last.n \in Nat)
  BY Zenon, AreNumbers
<1>2. pub[a].pending # None /\ pub[a].put = None /\ UNCHANGED <<docs, recs>> BY Zenon DEF PrepareRecord
<1>3. PICK s : /\ s = Number(pub[a])
               /\ pub' = [pub EXCEPT ![a].seq = s, ![a].put = [name |-> a, seq |-> s, doc |-> pub[a].pending]]
  BY Zenon DEF PrepareRecord, StoreSeq
<1>4. PICK t : t = [name |-> a, seq |-> s, doc |-> pub[a].pending] BY Zenon
<1>5. t.name = a /\ t.seq = s /\ t.doc = pub[a].pending BY Zenon, <1>4
<1>6. s \in Nat /\ s >= pub[a].seq /\ (s = pub[a].seq => pub[a].pending = pub[a].last) BY <1>1, <1>3 DEF Number
<1>7. PICK x : x = pub'[a] BY Zenon
<1>8. /\ IsSigner(x) /\ x.n = pub[a].n /\ x.seq = s /\ x.put = t /\ x.pending = pub[a].pending
      /\ x.last = pub[a].last /\ pub' = [pub EXCEPT ![a] = x] /\ x.stage = pub[a].stage /\ x.next = pub[a].next
  <2>1. pub' = [pub EXCEPT ![a].seq = s, ![a].put = t] BY Zenon, <1>3, <1>4
  <2> QED BY Zenon, <1>1, <1>6, <1>7, <2>1 DEF IsSigner
<1>9. pub[a].pending \in docs /\ pub[a].pending.auth = a /\ pub[a].pending.n \in Nat /\ pub[a].pending.n <= pub[a].n
  BY Zenon, <1>1, <1>2 DEF Authored, Numbering, IsDoc, Numbered
<1> DEFINE p == pub[a]
<1>10. ASSUME NEW r \in Issued, r.name = a
       PROVE  /\ r.seq <= s /\ r.doc.n <= p.n /\ r.doc.n <= p.pending.n
              /\ r.seq = s => p.pending.n <= r.doc.n /\ (p.last # None => p.last.n <= r.doc.n)
  <2>1. r.seq <= p.seq /\ r.doc.n <= p.n /\ r.doc.n <= p.pending.n BY Zenon, <1>1, <1>2, <1>10 DEF Numbered
  <2>2. ASSUME r.seq = s PROVE p.pending = p.last /\ p.last # None /\ p.last.n <= r.doc.n
    <3>1. r.seq = p.seq /\ p.pending = p.last BY <1>1, <1>6, <2>1, <2>2
    <3> QED BY Zenon, <1>1, <1>2, <1>10, <3>1 DEF Numbered
  <2> QED BY <1>1, <1>6, <2>1, <2>2
<1>11. p.last # None => p.last.n <= p.pending.n /\ p.last.n <= p.n BY Zenon, <1>1, <1>2 DEF Numbered
<1> HIDE DEF p
<1>12. p = pub[a] BY Zenon DEF p
<1>13. PICK S : S = Issued \cup {t} BY Zenon
<1>14. Numbered(x, a, S)
  <2>1. \A r \in S : r.name = a =>
          /\ r.seq <= x.seq /\ r.doc.n <= x.n /\ r.doc.n <= x.pending.n
          /\ x.last # None /\ r.seq = x.seq => x.last.n <= r.doc.n
    <3>1. s <= s /\ p.pending.n <= p.pending.n BY <1>6, <1>9, <1>12
    <3>2. ASSUME NEW r \in Issued, r.name = a
          PROVE  /\ r.seq <= x.seq /\ r.doc.n <= x.n /\ r.doc.n <= x.pending.n
                 /\ x.last # None /\ r.seq = x.seq => x.last.n <= r.doc.n
      BY Zenon, <1>8, <1>10, <1>12, <3>2
    <3>3. /\ t.seq <= x.seq /\ t.doc.n <= x.n /\ t.doc.n <= x.pending.n
          /\ x.last # None /\ t.seq = x.seq => x.last.n <= t.doc.n
      BY Zenon, <1>5, <1>8, <1>9, <1>11, <1>12, <3>1
    <3>4. \A r \in S : r \in Issued \/ r = t BY Zenon, <1>13
    <3> QED BY Zenon, <3>2, <3>3, <3>4
  <2> QED BY Zenon, <1>5, <1>8, <1>9, <1>11, <1>12, <2>1 DEF Numbered
<1>15. Sorted({r \in S : r.name = a})
  <2> SUFFICES ASSUME NEW r \in S, NEW u \in S, r.name = a, u.name = a, r.seq <= u.seq PROVE r.doc.n <= u.doc.n
    BY Zenon DEF Sorted
  <2>1. CASE r \in Issued /\ u \in Issued BY Zenon, <2>1 DEF Numbering, Sorted
  <2>2. CASE u = t BY <1>1, <1>5, <1>9, <1>10, <1>12, <1>13, <2>2
  <2>3. CASE r = t /\ u \in Issued
    <3>1. u.seq <= s /\ s <= u.seq BY Zenon, <1>5, <1>10, <2>3
    <3>2. u.seq = s BY <1>1, <1>6, <2>3, <3>1
    <3> QED BY Zenon, <1>5, <1>10, <1>12, <2>3, <3>2
  <2> QED BY Zenon, <1>13, <2>1, <2>2, <2>3
<1>16. Authored(x, a)' BY Zenon, <1>1, <1>2, <1>8 DEF Authored, IsDoc
<1>17. Issued' \subseteq Issued \cup {t}
  <2> SUFFICES ASSUME NEW r \in Issued' PROVE r \in Issued \/ r = t BY Zenon
  <2>1. \A b \in site.signers : pub'[b] = IF b = a THEN x ELSE pub[b] BY Zenon, <1>1, <1>8
  <2> QED BY <1>2, <1>8, <2>1, IssuedIs
<1>18. ask' # None => ask' = ask /\ (ask.name = a => x.put = ask)
  <2>1. pub'[a] = x BY Zenon, <1>7
  <2> QED BY Zenon, <2>1 DEF Abandon
<1>19. AtOnce(x) BY Zenon DEF AtOnce
<1>20. (\A d \in docs' : IsDoc(d)) /\ docs \subseteq docs' BY Zenon, <1>2 DEF Numbering
<1>21. \A r \in {t} : r.name = a /\ r.seq \in Nat /\ r.doc \in docs' /\ r.doc.auth = a BY Zenon, <1>2, <1>5, <1>6, <1>9
<1> QED BY Zenon, <1>8, <1>13, <1>14, <1>15, <1>16, <1>17, <1>18, <1>19, <1>20, <1>21, SignerMoves

\* At once, a document's number is its record's.
LEMMA NumberedAtOnce ==
  ASSUME Numbering, UNCHANGED <<site, edge>>, Abandon, site.writer = "atomic", NEW a \in site.signers, PublishAtOnce(a)
  PROVE  Numbering'
<1>1. /\ IsSigner(pub[a]) /\ pub = [b \in site.signers |-> pub[b]] /\ pub[a].n \in Nat /\ pub[a].seq \in Nat
      /\ \A r \in Issued : r.seq \in Nat /\ r.doc.n \in Nat
      /\ Numbered(pub[a], a, Issued) /\ Authored(pub[a], a) /\ AtOnce(pub[a])
      /\ (pub[a].last # None => pub[a].last.n \in Nat)
  BY Zenon, AreNumbers
<1>2. pub[a].pending = None /\ pub[a].put = None /\ pub[a].stage = "idle" /\ pub[a].seq <= pub[a].n BY Zenon, <1>1 DEF AtOnce
<1>3. PICK l, d : /\ d = Document(a, pub[a], l)
                  /\ pub' = [pub EXCEPT ![a] = [Burn(@, d) EXCEPT !.n = d.n, !.line = l, !.seq = d.n]]
                  /\ docs' = docs \cup {d}
                  /\ recs' \subseteq recs \cup {[name |-> a, seq |-> d.n, doc |-> d]}
  BY Zenon DEF PublishAtOnce
<1>4. PICK t : t = [name |-> a, seq |-> d.n, doc |-> d] BY Zenon
<1>5. t.name = a /\ t.seq = d.n /\ t.doc = d /\ recs' \subseteq recs \cup {t} BY Zenon, <1>3, <1>4
<1>6. IsDoc(d) /\ d.auth = a /\ d.n = pub[a].n + 1 /\ d.n \in Nat /\ d.rev \in Nat BY <1>1, <1>3, DocumentIs DEF IsDoc
<1>7. PICK q : /\ q = Burn(pub[a], d) /\ IsSigner(q) /\ q.pending = pub[a].pending /\ q.last = pub[a].last
               /\ q.put = pub[a].put /\ q.stage = pub[a].stage
  BY <1>1, <1>6, Burned
<1>8. PICK x : x = [q EXCEPT !.n = d.n, !.line = l, !.seq = d.n] BY Zenon
<1>9. pub' = [pub EXCEPT ![a] = x] BY Zenon, <1>1, <1>3, <1>7, <1>8
<1>10. /\ IsSigner(x) /\ x.n = d.n /\ x.seq = d.n /\ x.pending = None /\ x.last = pub[a].last /\ x.put = None
       /\ x.stage = "idle"
  BY Zenon, <1>2, <1>6, <1>7, <1>8 DEF IsSigner
<1>11. ASSUME NEW r \in Issued, r.name = a PROVE r.seq < d.n /\ r.doc.n < d.n
  <2>1. r.seq <= pub[a].seq /\ r.doc.n <= pub[a].n BY Zenon, <1>1, <1>11 DEF Numbered
  <2> QED BY <1>1, <1>2, <1>6, <2>1
<1>12. x.last # None => x.last.n <= x.n
  <2>1. pub[a].last # None => pub[a].last.n <= pub[a].n BY Zenon, <1>1 DEF Numbered
  <2> QED BY <1>1, <1>6, <1>10, <2>1
<1>13. PICK S : S = Issued \cup {t} BY Zenon
<1>14. Numbered(x, a, S)
  <2>1. \A r \in S : r.name = a =>
          /\ r.seq <= x.seq /\ r.doc.n <= x.n
          /\ x.last # None /\ r.seq = x.seq => x.last.n <= r.doc.n
    BY <1>1, <1>5, <1>6, <1>10, <1>11, <1>12, <1>13
  <2> QED BY Zenon, <1>10, <1>12, <2>1 DEF Numbered
<1>15. Sorted({r \in S : r.name = a})
  <2> SUFFICES ASSUME NEW r \in S, NEW u \in S, r.name = a, u.name = a, r.seq <= u.seq PROVE r.doc.n <= u.doc.n
    BY Zenon DEF Sorted
  <2>1. CASE r \in Issued /\ u \in Issued BY Zenon, <2>1 DEF Numbering, Sorted
  <2>2. CASE u = t BY <1>1, <1>5, <1>6, <1>11, <1>13, <2>2
  <2>3. CASE r = t /\ u \in Issued BY <1>1, <1>5, <1>6, <1>11, <2>3
  <2> QED BY Zenon, <1>13, <2>1, <2>2, <2>3
<1>16. Authored(x, a)' BY Zenon, <1>1, <1>2, <1>3, <1>10 DEF Authored
<1>17. Issued' \subseteq Issued \cup {t}
  <2> SUFFICES ASSUME NEW r \in Issued' PROVE r \in Issued \/ r = t BY Zenon
  <2>1. \A b \in site.signers : pub'[b] = IF b = a THEN x ELSE pub[b] BY Zenon, <1>1, <1>9
  <2> QED BY Zenon, <1>5, <1>10, <2>1, IssuedIs
<1>18. ask' # None => ask' = ask /\ (ask.name = a => x.put = ask)
  <2>1. pub'[a] = x BY Zenon, <1>1, <1>9
  <2> QED BY Zenon, <2>1 DEF Abandon
<1>19. AtOnce(x) BY <1>6, <1>10 DEF AtOnce
<1>20. (\A y \in docs' : IsDoc(y)) /\ docs \subseteq docs' BY Zenon, <1>3, <1>6 DEF Numbering
<1>21. \A r \in {t} : r.name = a /\ r.seq \in Nat /\ r.doc \in docs' /\ r.doc.auth = a BY Zenon, <1>3, <1>5, <1>6
<1> QED BY Zenon, <1>9, <1>10, <1>13, <1>14, <1>15, <1>16, <1>17, <1>18, <1>19, <1>20, <1>21, SignerMoves

\* A step of the writer keeps the numbering.
LEMMA NumberedWriter ==
  ASSUME Numbering, SignerStep, Abandon, UNCHANGED <<site, edge>>
  PROVE  Numbering'
<1>2. PICK a \in site.signers :
        \/ site.writer = "steps" /\ (BuildDoc(a) \/ InstallDoc(a) \/ StartSigner(a) \/ PrepareRecord(a) \/ CrashSigner(a))
        \/ PersistRoot(a) \/ PersistFails(a) \/ PutRecord(a) \/ RestoreSigner(a)
        \/ site.writer = "atomic" /\ PublishAtOnce(a)
  BY Zenon DEF SignerStep
<1> QED BY Zenon, <1>2, NumberedBuild, NumberedInstall, NumberedStart, NumberedPrepare, NumberedCrash, NumberedPersist,
           NumberedPut, NumberedAtOnce

\* The edge passes on what was issued.
Relays == /\ UNCHANGED <<site, docs>> /\ recs' \subseteq Issued /\ edge'.queue \subseteq Issued
          /\ {edge'.mem, edge'.disk} \subseteq Issued \cup {None} /\ (edge'.tx # None => edge'.tx.rec \in Issued)

\* A step that only moves issued records about changes no number.
LEMMA RelaysQuietly ==
  ASSUME Numbering, Relays, pub' = pub, ask' # None => ask'.name \in site.signers /\ pub[ask'.name].put = ask'
  PROVE  Numbering'
<1>1. Issued' \subseteq Issued
  <2> SUFFICES ASSUME NEW r \in Issued' PROVE r \in Issued BY Zenon
  <2> QED BY Zenon, IssuedIs DEF Relays
<1>2. \A r \in Issued' : IsRecord(r)' BY Zenon, <1>1 DEF Numbering, IsRecord, Relays
<1>3. Sorted(Issued') BY Zenon, <1>1 DEF Numbering, Sorted
<1>4. \A a \in site.signers : Numbered(pub[a], a, Issued') BY Zenon, <1>1 DEF Numbering, Numbered
<1> QED BY Zenon, <1>2, <1>3, <1>4 DEF Numbering, Relays, Authored, AtOnce, IsDoc

\* The writer's request is over, with its answer or without.
LEMMA RelaysAnswer ==
  ASSUME Numbering, Relays, NEW a \in site.signers, pub[a].put # None, ask' = None,
         \/ pub' = [pub EXCEPT ![a].put = None]
         \/ pub' = [pub EXCEPT ![a].put = None, ![a].last = pub[a].put.doc]
  PROVE  Numbering'
<1>1. /\ IsSigner(pub[a]) /\ pub = [b \in site.signers |-> pub[b]] /\ \A r \in Issued : r.seq \in Nat /\ r.doc.n \in Nat
  BY Zenon, AreNumbers
<1>2. PICK x : x = pub'[a] BY Zenon
<1>3. /\ IsSigner(x) /\ pub' = [pub EXCEPT ![a] = x] /\ x.put = None /\ x.n = pub[a].n /\ x.seq = pub[a].seq
      /\ x.pending = pub[a].pending /\ x.last \in {pub[a].last, pub[a].put.doc} /\ x.stage = pub[a].stage
      /\ x.next = pub[a].next
  <2>1. CASE pub' = [pub EXCEPT ![a].put = None] BY Zenon, <1>1, <1>2, <2>1 DEF IsSigner
  <2>2. CASE pub' = [pub EXCEPT ![a].put = None, ![a].last = pub[a].put.doc]
    <3>1. PICK u : u = pub[a].put.doc /\ pub' = [pub EXCEPT ![a].put = None, ![a].last = u] BY Zenon, <2>2
    <3>2. /\ IsSigner(x) /\ pub' = [pub EXCEPT ![a] = x] /\ x.put = None /\ x.n = pub[a].n /\ x.seq = pub[a].seq
          /\ x.pending = pub[a].pending /\ x.last = u /\ x.stage = pub[a].stage /\ x.next = pub[a].next
      BY Zenon, <1>1, <1>2, <3>1 DEF IsSigner
    <3> QED BY Zenon, <3>1, <3>2
  <2> QED BY Zenon, <2>1, <2>2
<1>4. Numbered(x, a, Issued) /\ Authored(x, a) /\ AtOnce(x) BY Zenon, <1>3, NumberedAnswer DEF Relays
<1>5. Authored(x, a)' BY Zenon, <1>4 DEF Authored, IsDoc, Relays
<1>6. Issued' \subseteq Issued
  <2> SUFFICES ASSUME NEW r \in Issued' PROVE r \in Issued BY Zenon
  <2>1. \A b \in site.signers : pub'[b] = IF b = a THEN x ELSE pub[b] BY Zenon, <1>1, <1>3
  <2> QED BY <1>3, <2>1, IssuedIs DEF Relays
<1>7. Sorted({r \in Issued : r.name = a}) BY Zenon DEF Numbering, Sorted
<1>8. PICK N : N = {} BY Zenon
<1>9. PICK S : S = Issued \cup N BY Zenon
<1>10. S = Issued /\ Issued' \subseteq Issued \cup N BY Zenon, <1>6, <1>8, <1>9
<1>11. (\A d \in docs' : IsDoc(d)) /\ docs \subseteq docs' /\ UNCHANGED site BY Zenon DEF Numbering, Relays
<1> QED BY Zenon, <1>3, <1>4, <1>5, <1>7, <1>8, <1>9, <1>10, <1>11, SignerMoves

\* Answering the writer's client settles the put it waits for (Unasked).
LEMMA RelaysUnasked ==
  ASSUME Numbering, Relays, NEW r, r # None, NEW ok, Unasked(r, ok)
  PROVE  Numbering'
<1>1. CASE ask # r BY Zenon, <1>1, RelaysQuietly DEF Unasked, Numbering
<1>2. CASE ask = r
  <2>1. r.name \in site.signers /\ pub[r.name].put = r BY Zenon, <1>2 DEF Numbering
  <2>2. /\ ask' = None
        /\ \/ pub' = [pub EXCEPT ![r.name].put = None]
           \/ pub' = [pub EXCEPT ![r.name].put = None, ![r.name].last = r.doc]
    BY Zenon, <1>2 DEF Unasked, Failed
  <2> QED BY Zenon, <2>1, <2>2, RelaysAnswer
<1> QED BY Zenon, <1>1, <1>2

-----------------------------------------------------------------------------
\* The edge's floor.

\* What one step of the edge may hand to the DHT.
Forward == sent'.last # sent.last /\ sent.last # None => sent'.last.seq >= sent.last.seq

\* A transaction that ends changes nothing that is kept; one that moves on, its place.
LEMMA OverIs ==
  ASSUME NEW e, IsEdge(e), NEW ok, NEW f, f = Over(e, ok)
  PROVE  IsEdge(f) /\ f.tx = None /\ f.up = e.up /\ f.disk = e.disk /\ f.mem = e.mem /\ f.queue = e.queue
<1>1. PICK s, t : f = [e EXCEPT !.tx = None, !.ready = s, !.restoring = t] BY Zenon DEF Over
<1> QED BY Zenon, <1>1 DEF IsEdge

\* The next stage of a transaction leaves the rest of the edge alone.
LEMMA GoesIs ==
  ASSUME NEW e, IsEdge(e), e.tx # None, NEW pc, NEW f, f = Goes(e, pc)
  PROVE  /\ IsEdge(f) /\ f.up = e.up /\ f.disk = e.disk /\ f.mem = e.mem /\ f.queue = e.queue
         /\ f.tx.pc = pc /\ f.tx.op = e.tx.op /\ f.tx.rec = e.tx.rec
<1>1. PICK t : t = [e.tx EXCEPT !.pc = pc] BY Zenon
<1>2. t = [pc |-> t.pc, op |-> t.op, rec |-> t.rec] /\ t.pc = pc /\ t.op = e.tx.op /\ t.rec = e.tx.rec
  BY Zenon, <1>1 DEF IsEdge
<1>3. f = [e EXCEPT !.tx = t] BY Zenon, <1>1 DEF Goes, IsEdge
<1>4. /\ f = [up |-> f.up, disk |-> f.disk, mem |-> f.mem, ready |-> f.ready, restoring |-> f.restoring, tx |-> f.tx,
              queue |-> f.queue]
      /\ f.up = e.up /\ f.disk = e.disk /\ f.mem = e.mem /\ f.queue = e.queue /\ f.tx = t
  BY Zenon, <1>3 DEF IsEdge
<1> QED BY Zenon, <1>2, <1>4 DEF IsEdge

\* What the edge keeps has been issued.
LEMMA HeldIsIssued ==
  ASSUME Numbering
  PROVE  /\ recs \subseteq Issued /\ edge.queue \subseteq Issued /\ {edge.mem, edge.disk} \subseteq Issued \cup {None}
         /\ edge.tx # None /\ edge.tx.rec # None => edge.tx.rec \in Issued
         /\ \A r \in Issued : r.seq \in Nat
<1>1. \A r \in Issued : r.seq \in Nat BY Zenon DEF Numbering, IsRecord
<1> QED BY Zenon, <1>1, IssuedIs

\* Steps that touch no record keep the floor.
LEMMA FlooredAside ==
  ASSUME Floored, UNCHANGED <<edge, sent>>, recs \subseteq recs'
  PROVE  Floored' /\ Forward
BY Zenon DEF Floored, IsEdge, Forward

\* The steps of the edge between transactions.
LEMMA RelaysBetween ==
  ASSUME Numbering, Floored, UNCHANGED <<site, docs>>,
         EdgeStart \/ EdgeCrash \/ Admitted \/ NotAdmitted \/ Restore \/ \E a \in site.signers : Post(a) \/ GiveUp(a)
  PROVE  Numbering' /\ Floored' /\ Forward
<1>0. UNCHANGED <<sent, recs>> BY Zenon DEF EdgeStart, EdgeCrash, Admitted, NotAdmitted, Restore, Post, GiveUp
<1>a. Forward BY Zenon, <1>0 DEF Forward
<1>b. IsEdge(edge) BY Zenon DEF Floored
<1>c. /\ recs \subseteq Issued /\ edge.queue \subseteq Issued /\ {edge.mem, edge.disk} \subseteq Issued \cup {None}
      /\ edge.tx # None => edge.tx.rec # None /\ edge.tx.rec \in Issued
      /\ \A r \in Issued : r.seq \in Nat
  BY Zenon, HeldIsIssued DEF Floored
<1>1. CASE EdgeStart
  <2>1. PICK t : edge' = [Stopped EXCEPT !.up = TRUE, !.disk = edge.disk, !.mem = edge.disk, !.restoring = t]
    BY Zenon, <1>1 DEF EdgeStart
  <2>2. /\ IsEdge(edge)' /\ edge'.up = TRUE /\ edge'.disk = edge.disk /\ edge'.mem = edge.disk /\ edge'.tx = None
        /\ edge'.queue = {}
    BY Zenon, <2>1 DEF IsEdge, Stopped
  <2>3. ~edge.up /\ UNCHANGED <<pub, ask>> BY Zenon, <1>1 DEF EdgeStart
  <2>4. edge.disk # None => edge.disk.seq <= edge.disk.seq BY <1>c
  <2>5. Floored' BY Zenon, <1>0, <2>2, <2>3, <2>4 DEF Floored
  <2>6. Relays BY Zenon, <1>0, <1>c, <2>2 DEF Relays
  <2> QED BY Zenon, <1>a, <2>3, <2>5, <2>6, RelaysQuietly DEF Numbering
<1>2. CASE EdgeCrash
  <2>1. edge' = [Stopped EXCEPT !.disk = edge.disk] BY Zenon, <1>2 DEF EdgeCrash
  <2>2. /\ IsEdge(edge)' /\ ~edge'.up /\ edge'.disk = edge.disk /\ edge'.mem = None /\ edge'.tx = None
        /\ edge'.queue = {}
    BY Zenon, <2>1 DEF IsEdge, Stopped
  <2>3. edge.up /\ (IF ask = None THEN UNCHANGED <<pub, ask>> ELSE Unasked(ask, FALSE)) BY Zenon, <1>2 DEF EdgeCrash
  <2>4. sent.last # None => edge.disk # None /\ sent.last.seq <= edge.disk.seq
    <3> SUFFICES ASSUME sent.last # None PROVE edge.disk # None /\ sent.last.seq <= edge.disk.seq BY Zenon
    <3>1. /\ sent.last \in recs /\ edge.mem # None /\ sent.last.seq <= edge.mem.seq
          /\ edge.disk # None /\ edge.mem.seq <= edge.disk.seq
      BY Zenon, <2>3 DEF Floored
    <3>2. sent.last.seq \in Nat /\ edge.mem.seq \in Nat /\ edge.disk.seq \in Nat BY Zenon, <1>c, <3>1
    <3> QED BY <3>1, <3>2
  <2>5. Floored' BY Zenon, <1>0, <2>2, <2>4 DEF Floored
  <2>6. Relays BY Zenon, <1>0, <1>c, <2>2 DEF Relays
  <2>7. CASE ask = None BY Zenon, <1>a, <2>3, <2>5, <2>6, <2>7, RelaysQuietly DEF Numbering
  <2>8. CASE ask # None BY Zenon, <1>a, <2>3, <2>5, <2>6, <2>8, RelaysUnasked
  <2> QED BY Zenon, <2>7, <2>8
<1>3. CASE Admitted
  <2>1. PICK r \in edge.queue : edge' = [edge EXCEPT !.tx = Tx("apply", r), !.queue = @ \ {r}] BY Zenon, <1>3 DEF Admitted
  <2>2. PICK t : t = Tx("apply", r) BY Zenon
  <2>3. t = [pc |-> t.pc, op |-> t.op, rec |-> t.rec] /\ t.pc = "check" /\ t.op = "apply" /\ t.rec = r
    BY Zenon, <2>2 DEF Tx
  <2>4. edge' = [edge EXCEPT !.tx = t, !.queue = edge.queue \ {r}] BY Zenon, <2>1, <2>2
  <2>5. /\ IsEdge(edge)' /\ edge'.up = edge.up /\ edge'.disk = edge.disk /\ edge'.mem = edge.mem /\ edge'.tx = t
        /\ edge'.queue = edge.queue \ {r}
    BY Zenon, <1>b, <2>3, <2>4 DEF IsEdge
  <2>6. edge.up /\ UNCHANGED <<pub, ask>> BY Zenon, <1>3 DEF Admitted
  <2>7. Floored' BY Zenon, <1>0, <2>3, <2>5, <2>6 DEF Floored
  <2>8. Relays BY Zenon, <1>0, <1>c, <2>3, <2>5 DEF Relays
  <2> QED BY Zenon, <1>a, <2>6, <2>7, <2>8, RelaysQuietly DEF Numbering
<1>4. CASE NotAdmitted
  <2>1. PICK r \in edge.queue : edge' = [edge EXCEPT !.queue = @ \ {r}] /\ Unasked(r, FALSE) BY Zenon, <1>4 DEF NotAdmitted
  <2>2. /\ IsEdge(edge)' /\ edge'.up = edge.up /\ edge'.disk = edge.disk /\ edge'.mem = edge.mem /\ edge'.tx = edge.tx
        /\ edge'.queue = edge.queue \ {r}
    BY Zenon, <1>b, <2>1 DEF IsEdge
  <2>3. Floored' BY Zenon, <1>0, <2>2 DEF Floored
  <2>4. Relays BY Zenon, <1>0, <1>c, <2>2 DEF Relays
  <2>5. r # None BY Zenon DEF Floored
  <2> QED BY Zenon, <1>a, <2>1, <2>3, <2>4, <2>5, RelaysUnasked
<1>5. CASE Restore
  <2>1. edge.up /\ edge.tx = None /\ UNCHANGED <<pub, ask>> BY Zenon, <1>5 DEF Restore
  <2>2. CASE edge' = [edge EXCEPT !.restoring = FALSE]
    <3>1. /\ IsEdge(edge)' /\ edge'.up = edge.up /\ edge'.disk = edge.disk /\ edge'.mem = edge.mem /\ edge'.tx = edge.tx
          /\ edge'.queue = edge.queue
      BY Zenon, <1>b, <2>2 DEF IsEdge
    <3>2. Floored' BY Zenon, <1>0, <3>1 DEF Floored
    <3>3. Relays BY Zenon, <1>0, <1>c, <3>1 DEF Relays
    <3> QED BY Zenon, <1>a, <2>1, <3>2, <3>3, RelaysQuietly DEF Numbering
  <2>3. CASE Restorable(edge) # None /\ edge' = [edge EXCEPT !.tx = Tx("restore", Restorable(edge))]
    <3>1. Restorable(edge) = edge.mem /\ edge.mem # None BY Zenon, <2>3 DEF Restorable
    <3>2. PICK t : t = Tx("restore", edge.mem) BY Zenon
    <3>3. t = [pc |-> t.pc, op |-> t.op, rec |-> t.rec] /\ t.pc = "check" /\ t.op = "restore" /\ t.rec = edge.mem
      BY Zenon, <3>2 DEF Tx
    <3>4. edge' = [edge EXCEPT !.tx = t] BY Zenon, <2>3, <3>1, <3>2
    <3>5. /\ IsEdge(edge)' /\ edge'.up = edge.up /\ edge'.disk = edge.disk /\ edge'.mem = edge.mem /\ edge'.tx = t
          /\ edge'.queue = edge.queue
      BY Zenon, <1>b, <3>3, <3>4 DEF IsEdge
    <3>6. Floored' BY Zenon, <1>0, <2>1, <3>1, <3>3, <3>5 DEF Floored
    <3>7. Relays BY Zenon, <1>0, <1>c, <3>1, <3>3, <3>5 DEF Relays
    <3> QED BY Zenon, <1>a, <2>1, <3>6, <3>7, RelaysQuietly DEF Numbering
  <2> QED BY Zenon, <1>5, <2>2, <2>3 DEF Restore
<1>6. ASSUME NEW a \in site.signers, Post(a) PROVE Numbering' /\ Floored'
  <2>1. /\ edge' = [edge EXCEPT !.queue = @ \cup {pub[a].put}] /\ pub[a].put # None /\ ask' = pub[a].put
        /\ pub' = pub
    BY Zenon, <1>6 DEF Post
  <2>2. /\ IsEdge(edge)' /\ edge'.up = edge.up /\ edge'.disk = edge.disk /\ edge'.mem = edge.mem /\ edge'.tx = edge.tx
        /\ edge'.queue = edge.queue \cup {pub[a].put}
    BY Zenon, <1>b, <2>1 DEF IsEdge
  <2>3. Floored' BY Zenon, <1>0, <2>1, <2>2 DEF Floored
  <2>4. pub[a].put \in Issued /\ pub[a].put.name = a BY Zenon, <2>1, AreNumbers DEF Numbered
  <2>5. Relays BY Zenon, <1>0, <1>c, <2>2, <2>4 DEF Relays
  <2> QED BY Zenon, <2>1, <2>3, <2>4, <2>5, RelaysQuietly
<1>7. ASSUME NEW a \in site.signers, GiveUp(a) PROVE Numbering' /\ Floored'
  <2>1. pub[a].put # None /\ ask' = None /\ pub' = [pub EXCEPT ![a].put = None] /\ edge' = edge
    BY Zenon, <1>7 DEF GiveUp, Failed
  <2>2. Floored' BY Zenon, <1>0, <2>1, FlooredAside
  <2>3. Relays BY Zenon, <1>0, <1>c, <2>1 DEF Relays
  <2> QED BY Zenon, <2>1, <2>2, <2>3, RelaysAnswer
<1> QED BY Zenon, <1>a, <1>1, <1>2, <1>3, <1>4, <1>5, <1>6, <1>7

\* Nothing is sent, or the record that is the floor by now.
Sends ==
  \/ UNCHANGED <<recs, sent>>
  \/ edge.tx.pc = "put" /\ recs' = recs \cup {edge.tx.rec} /\ sent'.last = edge.tx.rec

\* What the edge puts is what it holds as its floor (applyLocked).
LEMMA SendsForward ==
  ASSUME Numbering, Floored, edge.tx # None, Sends
  PROVE  /\ Forward /\ recs' \subseteq Issued
         /\ sent'.last # None => sent'.last \in recs' /\ edge.mem # None /\ sent'.last.seq <= edge.mem.seq
<1>1. /\ recs \subseteq Issued /\ edge.tx.rec \in Issued /\ \A r \in Issued : r.seq \in Nat
  BY Zenon, HeldIsIssued DEF Floored
<1>2. sent.last # None => sent.last \in recs /\ edge.mem # None /\ sent.last.seq <= edge.mem.seq BY Zenon DEF Floored
<1>3. CASE UNCHANGED <<recs, sent>> BY Zenon, <1>1, <1>2, <1>3 DEF Forward
<1>4. CASE edge.tx.pc = "put" /\ recs' = recs \cup {edge.tx.rec} /\ sent'.last = edge.tx.rec
  <2>1. edge.tx.rec = edge.mem /\ edge.mem # None BY Zenon, <1>4 DEF Floored
  <2>2. edge.mem.seq \in Nat BY Zenon, <1>1, <2>1
  <2> QED BY <1>1, <1>2, <1>4, <2>1, <2>2 DEF Forward
<1> QED BY Zenon, <1>3, <1>4 DEF Sends

\* A transaction ends; its record may have reached the disk before the failure.
LEMMA TxEnds ==
  ASSUME Numbering, Floored, UNCHANGED <<site, docs>>, edge.tx # None, Sends, NEW e, NEW ok, Done(e, ok),
         e = edge \/ (edge.tx.pc = "persist" /\ e = [edge EXCEPT !.disk = edge.tx.rec])
  PROVE  Numbering' /\ Floored' /\ Forward
<1>1. /\ edge.queue \subseteq Issued /\ {edge.mem, edge.disk} \subseteq Issued \cup {None} /\ edge.tx.rec \in Issued
      /\ edge.tx.rec # None /\ edge.up /\ IsEdge(edge) /\ \A r \in Issued : r.seq \in Nat
  BY Zenon, HeldIsIssued DEF Floored
<1>2. /\ IsEdge(e) /\ e.up = edge.up /\ e.mem = edge.mem /\ e.queue = edge.queue
      /\ e.disk = edge.disk \/ (edge.tx.pc = "persist" /\ e.disk = edge.tx.rec)
  <2>1. CASE e = edge BY Zenon, <1>1, <2>1
  <2>2. CASE edge.tx.pc = "persist" /\ e = [edge EXCEPT !.disk = edge.tx.rec] BY Zenon, <1>1, <2>2 DEF IsEdge
  <2> QED BY Zenon, <2>1, <2>2
<1>3. edge' = Over(e, ok) /\ Unasked(edge.tx.rec, ok) BY Zenon DEF Done
<1>4. /\ IsEdge(edge') /\ edge'.tx = None /\ edge'.up = edge.up /\ edge'.disk = e.disk /\ edge'.mem = edge.mem
      /\ edge'.queue = edge.queue
  BY <1>2, <1>3, OverIs
<1>5. edge.mem # None => e.disk # None /\ edge.mem.seq <= e.disk.seq BY Zenon, <1>1, <1>2 DEF Floored
<1>6. /\ Forward /\ recs' \subseteq Issued
      /\ sent'.last # None => sent'.last \in recs' /\ edge.mem # None /\ sent'.last.seq <= edge.mem.seq
  BY Zenon, SendsForward
<1>7. Floored'
  <2>1. None \notin edge.queue BY Zenon DEF Floored
  <2> QED BY Zenon, <1>1, <1>4, <1>5, <1>6, <2>1 DEF Floored
<1>8. Relays BY Zenon, <1>1, <1>2, <1>4, <1>6 DEF Relays
<1> QED BY Zenon, <1>1, <1>3, <1>6, <1>7, <1>8, RelaysUnasked

\* A transaction moves on: past the check with a record above the floor, past the
\* persisting with the record as the floor.
LEMMA TxGoes ==
  ASSUME Numbering, Floored, UNCHANGED <<site, docs, pub, ask>>, edge.tx # None, Sends,
         NEW e, IsEdge(e), e.tx = edge.tx, e.up = edge.up, e.queue = edge.queue, NEW pc, edge' = Goes(e, pc),
         \/ e = edge
         \/ edge.tx.pc = "persist" /\ pc = "put" /\ e.mem = edge.tx.rec /\ e.disk = edge.tx.rec,
         pc \in {"provide", "persist"} /\ edge.mem # None => edge.mem.seq <= edge.tx.rec.seq,
         pc \in {"put", "stage", "swap", "settle", "clear"} => edge.tx.rec = e.mem
  PROVE  Numbering' /\ Floored' /\ Forward
<1>1. /\ edge.queue \subseteq Issued /\ {edge.mem, edge.disk} \subseteq Issued \cup {None} /\ edge.tx.rec \in Issued
      /\ edge.tx.rec # None /\ edge.up /\ None \notin edge.queue /\ \A r \in Issued : r.seq \in Nat
  BY Zenon, HeldIsIssued DEF Floored
<1>2. /\ IsEdge(edge') /\ edge'.up = edge.up /\ edge'.disk = e.disk /\ edge'.mem = e.mem /\ edge'.queue = edge.queue
      /\ edge'.tx.pc = pc /\ edge'.tx.op = edge.tx.op /\ edge'.tx.rec = edge.tx.rec
  BY GoesIs
<1>3. /\ Forward /\ recs' \subseteq Issued
      /\ sent'.last # None => sent'.last \in recs' /\ edge.mem # None /\ sent'.last.seq <= edge.mem.seq
  BY Zenon, SendsForward
<1>4. CASE e = edge
  <2>1. /\ edge.mem # None => edge.disk # None /\ edge.mem.seq <= edge.disk.seq
        /\ edge.tx.op = "restore" => edge.tx.rec = edge.mem
    BY Zenon, <1>1 DEF Floored
  <2>2. Floored' BY Zenon, <1>1, <1>2, <1>3, <1>4, <2>1 DEF Floored
  <2>3. Relays BY <1>1, <1>2, <1>3, <1>4 DEF Relays
  <2> QED BY Zenon, <1>3, <2>2, <2>3, RelaysQuietly DEF Numbering
<1>5. CASE edge.tx.pc = "persist" /\ pc = "put" /\ e.mem = edge.tx.rec /\ e.disk = edge.tx.rec
  <2>1. edge.tx.rec.seq \in Nat /\ (edge.mem # None => edge.mem.seq \in Nat /\ edge.mem.seq <= edge.tx.rec.seq)
    BY Zenon, <1>1, <1>5 DEF Floored
  <2>2. sent'.last # None => sent'.last.seq \in Nat /\ sent'.last.seq <= edge.tx.rec.seq BY <1>1, <1>3, <2>1
  <2>a. edge.tx.rec.seq <= edge.tx.rec.seq BY <2>1
  <2>3. Floored' BY Zenon, <1>1, <1>2, <1>3, <1>5, <2>1, <2>2, <2>a DEF Floored
  <2>4. Relays BY Zenon, <1>1, <1>2, <1>3, <1>5 DEF Relays
  <2> QED BY Zenon, <1>3, <2>3, <2>4, RelaysQuietly DEF Numbering
<1> QED BY Zenon, <1>4, <1>5

\* The steps of a transaction.
LEMMA RelaysWithin ==
  ASSUME Numbering, Floored, UNCHANGED <<site, docs>>,
         CheckRecord \/ ProvideDocument \/ Persist \/ PutValue \/ StageHints \/ SwapHints \/ SettleHints
  PROVE  Numbering' /\ Floored' /\ Forward
<1>0. /\ edge.tx # None /\ IsEdge(edge) /\ edge.tx.rec # None
  BY Zenon DEF CheckRecord, ProvideDocument, Persist, PutValue, StageHints, SwapHints, SettleHints, At, Floored
<1>1. CASE CheckRecord
  <2>1. Sends BY Zenon, <1>1 DEF CheckRecord, Sends
  <2>2. CASE Done(edge, FALSE) BY Zenon, <1>0, <2>1, <2>2, TxEnds
  <2>3. CASE Passes(edge.tx.rec) /\ edge' = Goes(edge, "provide") /\ UNCHANGED <<ask, pub>>
    <3>1. edge.mem # None => edge.mem.seq <= edge.tx.rec.seq
      <4>1. edge.mem # None => edge.tx.rec.seq > edge.mem.seq \/ edge.tx.rec.seq = edge.mem.seq
        BY Zenon, <2>3 DEF Passes, Above
      <4>2. edge.tx.rec.seq \in Nat /\ (edge.mem # None => edge.mem.seq \in Nat) BY Zenon, <1>0, HeldIsIssued
      <4> QED BY <4>1, <4>2
    <3> QED BY Zenon, <1>0, <2>1, <2>3, <3>1, TxGoes
  <2> QED BY Zenon, <1>1, <2>2, <2>3 DEF CheckRecord
<1>2. CASE ProvideDocument
  <2>1. Sends /\ edge.tx.pc = "provide" BY Zenon, <1>2 DEF ProvideDocument, Sends, At
  <2>2. CASE Done(edge, FALSE) BY Zenon, <1>0, <2>1, <2>2, TxEnds
  <2>3. CASE edge' = Goes(edge, "persist") /\ UNCHANGED <<ask, pub>>
    <3>1. edge.mem # None => edge.mem.seq <= edge.tx.rec.seq BY Zenon, <1>0, <2>1 DEF Floored
    <3> QED BY Zenon, <1>0, <2>1, <2>3, <3>1, TxGoes
  <2> QED BY Zenon, <1>2, <2>2, <2>3 DEF ProvideDocument, UnprovidedEnds
<1>3. CASE Persist
  <2>1. Sends /\ edge.tx.pc = "persist" BY Zenon, <1>3 DEF Persist, Sends, At
  <2>2. ASSUME NEW d \in {edge.disk, edge.tx.rec}, Done([edge EXCEPT !.disk = d], FALSE)
        PROVE  Numbering' /\ Floored' /\ Forward
    <3>1. PICK e : e = [edge EXCEPT !.disk = d] BY Zenon
    <3>2. e = edge \/ e = [edge EXCEPT !.disk = edge.tx.rec] BY Zenon, <1>0, <2>2, <3>1 DEF IsEdge
    <3>3. Done(e, FALSE) BY Zenon, <2>2, <3>1
    <3> QED BY Zenon, <1>0, <2>1, <3>2, <3>3, TxEnds
  <2>3. CASE edge' = Goes(Keep(edge), "put") /\ UNCHANGED <<ask, pub>>
    <3>1. PICK e : e = Keep(edge) BY Zenon
    <3>2. CASE edge.tx.op = "restore"
      <4>1. e = edge /\ edge.tx.rec = edge.mem BY Zenon, <1>0, <3>1, <3>2 DEF Keep, Floored
      <4> QED BY Zenon, <1>0, <2>1, <2>3, <3>1, <4>1, TxGoes
    <3>3. CASE edge.tx.op # "restore"
      <4>1. e = [edge EXCEPT !.mem = edge.tx.rec, !.disk = edge.tx.rec] BY Zenon, <3>1, <3>3 DEF Keep
      <4>2. /\ IsEdge(e) /\ e.tx = edge.tx /\ e.up = edge.up /\ e.queue = edge.queue /\ e.mem = edge.tx.rec
            /\ e.disk = edge.tx.rec
        BY Zenon, <1>0, <4>1 DEF IsEdge
      <4>3. edge' = Goes(e, "put") BY Zenon, <2>3, <3>1
      <4> QED BY Zenon, <1>0, <2>1, <2>3, <4>2, <4>3, TxGoes
    <3> QED BY Zenon, <3>2, <3>3
  <2> QED BY Zenon, <1>3, <2>2, <2>3 DEF Persist
<1>4. CASE PutValue
  <2>1. edge.tx.pc = "put" BY Zenon, <1>4 DEF PutValue, At
  <2>2. edge.tx.rec = edge.mem BY Zenon, <1>0, <2>1 DEF Floored
  <2>3. CASE /\ recs' = recs \cup {edge.tx.rec} /\ sent' = [last |-> edge.tx.rec, good |-> edge.tx.rec]
             /\ edge' = Goes(edge, "stage") /\ UNCHANGED <<ask, pub>>
    <3>1. Sends BY Zenon, <2>1, <2>3 DEF Sends
    <3> QED BY Zenon, <1>0, <2>2, <2>3, <3>1, TxGoes
  <2>4. CASE Done(edge, FALSE) /\ UNCHANGED <<recs, sent>>
    <3>1. Sends BY Zenon, <2>4 DEF Sends
    <3> QED BY Zenon, <1>0, <2>4, <3>1, TxEnds
  <2>5. CASE Done(edge, FALSE) /\ recs' = recs \cup {edge.tx.rec} /\ sent' = [sent EXCEPT !.last = edge.tx.rec]
    <3>1. Sends BY <2>1, <2>5 DEF Sends
    <3> QED BY Zenon, <1>0, <2>5, <3>1, TxEnds
  <2> QED BY Zenon, <1>4, <2>3, <2>4, <2>5 DEF PutValue
<1>5. CASE StageHints \/ SwapHints
  <2>1. PICK pc \in {"swap", "settle", "clear"} : edge' = Goes(edge, pc) BY Zenon, <1>5 DEF StageHints, SwapHints
  <2>2. /\ UNCHANGED <<recs, sent, pub, ask>> /\ edge.tx.pc \in {"stage", "swap"} BY Zenon, <1>5 DEF StageHints, SwapHints, At
  <2>3. Sends /\ edge.tx.rec = edge.mem BY Zenon, <1>0, <2>2 DEF Sends, Floored
  <2> QED BY Zenon, <1>0, <2>1, <2>2, <2>3, TxGoes
<1>6. CASE SettleHints
  <2>1. Sends /\ Done(edge, TRUE) BY Zenon, <1>6 DEF SettleHints, Sends
  <2> QED BY Zenon, <1>0, <2>1, TxEnds
<1> QED BY Zenon, <1>1, <1>2, <1>3, <1>4, <1>5, <1>6

-----------------------------------------------------------------------------
\* The dating.

\* The next document of a signer whose latch says whether it has a revision.
LEMMA NextIsAbove ==
  ASSUME Numbering, NEW a \in site.signers, NEW p, IsSigner(p), p.n = pub[a].n, p.rev = pub[a].rev, p.rev > 0 => p.latch,
         \A y \in docs : y.auth = a => y.n <= pub[a].n /\ y.rev <= pub[a].rev,
         NEW l, NEW d, d = Document(a, p, l), NEW q, q = Burn(p, d)
  PROVE  /\ d.rev <= q.rev /\ p.rev <= q.rev /\ q.rev \in Nat /\ (q.rev > 0 => q.latch)
         /\ \A y \in docs : y.auth = a => y.n < d.n /\ (y.rev > 0 => y.rev < d.rev)
<1>0. /\ IsDoc(d) /\ d.auth = a /\ d.n = p.n + 1
      /\ d.rev = IF Revisioned(p, l) THEN p.rev + 1 ELSE 0
  BY DocumentIs
<1>1. IsDoc(d) /\ d.n = p.n + 1 /\ (Revisioned(p, l) => d.rev = p.rev + 1) /\ (~Revisioned(p, l) => d.rev = 0)
  BY Zenon, <1>0
<1>2. p.n \in Nat /\ p.rev \in Nat BY Zenon DEF IsSigner
<1>3. \A y \in docs : y.n \in Nat /\ y.rev \in Nat BY Zenon DEF Numbering, IsDoc
<1>4. CASE d.rev = 0
  <2>1. q = p BY Zenon, <1>4 DEF Burn
  <2>2. ~p.latch BY <1>1, <1>2, <1>4 DEF Revisioned
  <2>3. p.rev = 0 BY <1>2, <2>2
  <2> QED BY SMTT(15), <1>1, <1>2, <1>3, <1>4, <2>1, <2>3
<1>5. CASE d.rev # 0
  <2>1. q = [p EXCEPT !.latch = TRUE, !.rev = d.rev] BY Zenon, <1>5 DEF Burn
  <2>2. q.rev = d.rev BY Zenon, <2>1 DEF IsSigner
  <2>3. q.latch BY Zenon, <2>1 DEF IsSigner
  <2>4. d.rev = p.rev + 1 BY Zenon, <1>1, <1>5
  <2> QED BY SMTT(15), <1>1, <1>2, <1>3, <2>2, <2>3, <2>4
<1> QED BY Zenon, <1>1, <1>4, <1>5 DEF IsDoc

\* One signer's dates change.
LEMMA DatingMoves ==
  ASSUME Numbering, Dating, UNCHANGED site, NEW a \in site.signers, NEW x, pub' = [pub EXCEPT ![a] = x],
         docs \subseteq docs', \A d \in docs' \ docs : d.auth = a,
         "backup" \notin site.faulty => Dated(x, a)' /\ DocumentsOrdered'
  PROVE  Dating'
<1> SUFFICES ASSUME "backup" \notin site.faulty PROVE (\A b \in site.signers : Dated(pub[b], b))' /\ DocumentsOrdered'
  BY Zenon DEF Dating
<1>1. \A b \in site.signers : pub'[b] = IF b = a THEN x ELSE pub[b] BY Zenon DEF Numbering
<1>2. ASSUME NEW b \in site.signers, NEW p, p = pub'[b] PROVE Dated(p, b)'
  <2>1. CASE b = a BY Zenon, <1>1, <1>2, <2>1
  <2>2. CASE b # a
    <3>1. Dated(p, b) BY Zenon, <1>1, <1>2, <2>2 DEF Dating
    <3>2. \A d \in docs' : d.auth = b => d \in docs BY Zenon, <2>2
    <3> QED BY Zenon, <3>1, <3>2 DEF Dated
  <2> QED BY Zenon, <2>1, <2>2
<1> QED BY Zenon, <1>2 DEF Dated

\* A signer's dates stay when neither its counters nor its document do change.
LEMMA DatingAside ==
  ASSUME Numbering, Dating, UNCHANGED <<site, docs>>,
         \A b \in site.signers : /\ pub'[b].n = pub[b].n /\ pub'[b].rev = pub[b].rev /\ pub'[b].stage = pub[b].stage
                                 /\ pub'[b].next = pub[b].next /\ (pub'[b].up => pub[b].up) /\ (pub[b].latch => pub'[b].latch)
  PROVE  Dating'
BY DEF Dating, Dated, DocumentsOrdered

\* A document is built, by a running writer or by one that starts.
LEMMA DatedBuild ==
  ASSUME Numbering, Dating, UNCHANGED site, NEW a \in site.signers, BuildDoc(a) \/ StartSigner(a)
  PROVE  Dating'
<1>0. IsSigner(pub[a]) /\ pub = [b \in site.signers |-> pub[b]] BY Zenon DEF Numbering
<1>1. docs' = docs BY Zenon DEF BuildDoc, StartSigner
<1>2. PICK p, l, d, q, x :
        /\ IsSigner(p) /\ p.n = pub[a].n /\ p.rev = pub[a].rev
        /\ p.rev > 0 => p.latch \/ (BuildDoc(a) /\ ~pub[a].latch)
        /\ d = Document(a, p, l) /\ q = Burn(p, d) /\ pub' = [pub EXCEPT ![a] = x]
        /\ x.n = d.n /\ x.rev = q.rev /\ x.next = d /\ (q.latch => x.latch)
  <2>1. CASE BuildDoc(a)
    <3>1. PICK l : \E d \in {Document(a, pub[a], l)} :
            pub' = [pub EXCEPT ![a] = [Burn(@, d) EXCEPT !.n = d.n, !.next = d, !.stage = "built"]]
      BY Zenon, <2>1 DEF BuildDoc
    <3>2. PICK d : d = Document(a, pub[a], l) /\
            pub' = [pub EXCEPT ![a] = [Burn(@, d) EXCEPT !.n = d.n, !.next = d, !.stage = "built"]]
      BY Zenon, <3>1
    <3>3. d.rev \in Nat BY Zenon, <1>0, <3>2, DocumentIs DEF IsDoc
    <3>4. PICK q : q = Burn(pub[a], d) /\ IsSigner(q) BY <1>0, <3>3, Burned
    <3>5. PICK x : x = [q EXCEPT !.n = d.n, !.next = d, !.stage = "built"] BY Zenon
    <3>6. pub' = [pub EXCEPT ![a] = x] BY Zenon, <1>0, <3>2, <3>4, <3>5
    <3>7. x.n = d.n /\ x.rev = q.rev /\ x.next = d BY Zenon, <3>4, <3>5 DEF IsSigner
    <3>8. q.latch => x.latch BY Zenon, <3>4, <3>5 DEF IsSigner
    <3>9. PICK p : p = pub[a] BY Zenon
    <3>10. p.latch \/ (BuildDoc(a) /\ ~pub[a].latch) BY Zenon, <2>1, <3>9
    <3>11. d = Document(a, p, l) /\ q = Burn(p, d) /\ IsSigner(p) /\ p.n = pub[a].n /\ p.rev = pub[a].rev
      BY Zenon, <1>0, <3>2, <3>4, <3>9
    <3> QED BY Zenon, <3>6, <3>7, <3>8, <3>10, <3>11
  <2>2. CASE StartSigner(a)
    <3>1. PICK p : p = [pub[a] EXCEPT !.latch = (pub[a].rev > 0)] BY Zenon
    <3>2. PICK d : d = Document(a, p, p.line) /\
            pub' = [pub EXCEPT ![a] = [Burn(p, d) EXCEPT !.up = TRUE, !.n = d.n, !.next = d, !.stage = "durable"]]
      BY Zenon, <2>2, <3>1 DEF StartSigner
    <3>3. IsSigner(p) /\ p.n = pub[a].n /\ p.rev = pub[a].rev BY Zenon, <1>0, <3>1 DEF IsSigner
    <3>4. p.rev > 0 => p.latch BY Zenon, <1>0, <3>1, <3>3 DEF IsSigner
    <3>5. d.rev \in Nat BY Zenon, <3>2, <3>3, DocumentIs DEF IsDoc
    <3>6. PICK q : q = Burn(p, d) /\ IsSigner(q) BY Zenon, <3>3, <3>5, Burned
    <3>7. PICK x : x = [q EXCEPT !.up = TRUE, !.n = d.n, !.next = d, !.stage = "durable"] BY Zenon
    <3>8. pub' = [pub EXCEPT ![a] = x] BY Zenon, <1>0, <3>2, <3>6, <3>7
    <3>9. x.n = d.n /\ x.rev = q.rev /\ x.next = d BY Zenon, <3>6, <3>7 DEF IsSigner
    <3>10. q.latch => x.latch BY Zenon, <3>6, <3>7 DEF IsSigner
    <3>11. \E y : d = Document(a, p, y) BY Zenon, <3>2
    <3> QED BY <3>3, <3>4, <3>6, <3>8, <3>9, <3>10, <3>11
  <2> QED BY Zenon, <2>1, <2>2
<1>3. ASSUME "backup" \notin site.faulty PROVE Dated(x, a)' /\ DocumentsOrdered'
  <2>1. Dated(pub[a], a) /\ DocumentsOrdered BY Zenon, <1>3 DEF Dating
  <2>2. BuildDoc(a) /\ p.rev > 0 => pub[a].latch BY Zenon, <1>2, <2>1 DEF Dated, BuildDoc
  <2>3. p.rev > 0 => p.latch BY Zenon, <1>2, <2>2
  <2>4. \A y \in docs : y.auth = a => y.n <= pub[a].n /\ y.rev <= pub[a].rev BY Zenon, <2>1 DEF Dated
  <2>5. /\ d.rev <= q.rev /\ p.rev <= q.rev /\ q.rev \in Nat /\ (q.rev > 0 => q.latch)
        /\ \A y \in docs : y.auth = a => y.n < d.n /\ (y.rev > 0 => y.rev < d.rev)
    BY <1>2, <2>3, <2>4, NextIsAbove
  <2>6. \A y \in docs : y.n \in Nat /\ y.rev \in Nat BY Zenon DEF Numbering, IsDoc
  <2>7. d.n \in Nat /\ p.rev \in Nat BY <1>2, DocumentIs DEF IsDoc, IsSigner
  <2>8. ASSUME NEW y \in docs, y.auth = a PROVE y.n <= x.n /\ y.rev <= x.rev
    <3>1. y.n \in Nat /\ y.rev \in Nat /\ y.n < d.n BY Zenon, <2>5, <2>6, <2>8
    <3>2. y.rev <= pub[a].rev BY Zenon, <2>4, <2>8
    <3>3. pub[a].rev = p.rev /\ x.n = d.n /\ x.rev = q.rev /\ p.rev <= q.rev /\ q.rev \in Nat BY Zenon, <1>2, <2>5
    <3> QED BY <2>7, <3>1, <3>2, <3>3
  <2>9. x.rev > 0 => x.latch BY Zenon, <1>2, <2>5
  <2> QED BY Zenon, <1>1, <1>2, <2>1, <2>5, <2>8, <2>9 DEF Dated, DocumentsOrdered
<1>4. Dating' BY Zenon, <1>1, <1>2, <1>3, DatingMoves
<1> QED BY Zenon, <1>4

\* A document is installed.
LEMMA DatedInstall ==
  ASSUME Numbering, Dating, UNCHANGED site, NEW a \in site.signers, InstallDoc(a)
  PROVE  Dating'
<1>0. IsSigner(pub[a]) /\ pub = [b \in site.signers |-> pub[b]] /\ Authored(pub[a], a) BY Zenon DEF Numbering
<1>1. /\ pub' = [pub EXCEPT ![a].stage = "idle", ![a].pending = pub[a].next, ![a].next = None]
      /\ docs' = docs \cup {pub[a].next} /\ pub[a].stage # "idle"
      /\ IsDoc(pub[a].next) /\ pub[a].next.auth = a /\ pub[a].next.n = pub[a].n
  BY Zenon, <1>0 DEF InstallDoc, Authored
<1>2. PICK x : x = pub'[a] BY Zenon
<1>3. /\ x.n = pub[a].n /\ x.rev = pub[a].rev /\ pub' = [pub EXCEPT ![a] = x] /\ x.stage = "idle"
  BY Zenon, <1>0, <1>1, <1>2 DEF IsSigner
<1>3a. (x.up => pub[a].up) /\ (pub[a].latch => x.latch) BY Zenon, <1>0, <1>1, <1>2 DEF IsSigner
<1>4. ASSUME "backup" \notin site.faulty PROVE Dated(x, a)' /\ DocumentsOrdered'
  <2>1. Dated(pub[a], a) /\ DocumentsOrdered BY Zenon, <1>4 DEF Dating
  <2>2. /\ pub[a].next.rev <= pub[a].rev
        /\ \A d \in docs : d.auth = a => d.n < pub[a].next.n /\ (d.rev > 0 => d.rev < pub[a].next.rev)
    BY Zenon, <1>1, <2>1 DEF Dated
  <2>3. \A d \in docs' : d.n \in Nat /\ d.rev \in Nat BY Zenon, <1>1 DEF Numbering, IsDoc
  <2>4. pub[a].n \in Nat /\ pub[a].rev \in Nat BY Zenon, <1>0 DEF IsSigner
  <2>5. \A d \in docs' : d.auth = a => d.n <= x.n /\ d.rev <= x.rev BY <1>1, <1>3, <2>1, <2>2, <2>4 DEF Dated
  <2>6. ASSUME NEW d \in docs', NEW e \in docs', d.auth = e.auth, d.n < e.n, d.rev > 0 PROVE e.rev > d.rev
    <3>1. CASE d \in docs /\ e \in docs BY Zenon, <1>4, <2>1, <2>6, <3>1 DEF DocumentsOrdered
    <3>2. CASE d \in docs /\ e = pub[a].next BY Zenon, <1>1, <2>2, <2>3, <2>6, <3>2
    <3>3. CASE d = pub[a].next /\ e \in docs
      <4>1. e.n < d.n BY Zenon, <1>1, <2>2, <2>6, <3>3
      <4> QED BY <2>3, <2>6, <4>1
    <3>4. CASE d = pub[a].next /\ e = pub[a].next BY <2>3, <2>6, <3>4
    <3> QED BY Zenon, <1>1, <3>1, <3>2, <3>3, <3>4
  <2>7. (x.up \/ site.writer = "atomic") /\ x.rev > 0 => x.latch BY Zenon, <1>3, <1>3a, <2>1 DEF Dated
  <2> QED BY Zenon, <1>3, <2>5, <2>6, <2>7 DEF Dated, DocumentsOrdered
<1> QED BY Zenon, <1>1, <1>3, <1>4, DatingMoves

\* A writer that publishes at once builds and installs in one step.
LEMMA DatedAtOnce ==
  ASSUME Numbering, Dating, UNCHANGED site, site.writer = "atomic", NEW a \in site.signers, PublishAtOnce(a)
  PROVE  Dating'
<1>0. /\ IsSigner(pub[a]) /\ pub = [b \in site.signers |-> pub[b]] /\ pub[a].stage = "idle"
  BY Zenon DEF Numbering, AtOnce
<1>1. PICK l, d : /\ d = Document(a, pub[a], l)
                  /\ pub' = [pub EXCEPT ![a] = [Burn(@, d) EXCEPT !.n = d.n, !.line = l, !.seq = d.n]]
                  /\ docs' = docs \cup {d}
  BY Zenon DEF PublishAtOnce
<1>2. IsDoc(d) /\ d.auth = a /\ d.n = pub[a].n + 1 BY <1>0, <1>1, DocumentIs
<1>3. PICK q : q = Burn(pub[a], d) /\ IsSigner(q) /\ q.stage = pub[a].stage BY <1>0, <1>2, Burned DEF IsDoc
<1>4. PICK x : x = [q EXCEPT !.n = d.n, !.line = l, !.seq = d.n] BY Zenon
<1>5. pub' = [pub EXCEPT ![a] = x] BY Zenon, <1>0, <1>1, <1>3, <1>4
<1>6. x.n = d.n /\ x.rev = q.rev /\ x.stage = "idle" BY Zenon, <1>0, <1>3, <1>4 DEF IsSigner
<1>7. q.latch => x.latch BY Zenon, <1>3, <1>4 DEF IsSigner
<1>8. ASSUME "backup" \notin site.faulty PROVE Dated(x, a)' /\ DocumentsOrdered'
  <2>1. Dated(pub[a], a) /\ DocumentsOrdered BY Zenon, <1>8 DEF Dating
  <2>2. pub[a].rev > 0 => pub[a].latch BY Zenon, <2>1 DEF Dated
  <2>3. \A y \in docs : y.auth = a => y.n <= pub[a].n /\ y.rev <= pub[a].rev BY Zenon, <2>1 DEF Dated
  <2>4. /\ d.rev <= q.rev /\ pub[a].rev <= q.rev /\ q.rev \in Nat /\ (q.rev > 0 => q.latch)
        /\ \A y \in docs : y.auth = a => y.n < d.n /\ (y.rev > 0 => y.rev < d.rev)
    <3>1. PICK p : p = pub[a] BY Zenon
    <3>2. IsSigner(p) /\ p.n = pub[a].n /\ p.rev = pub[a].rev /\ d = Document(a, p, l) /\ q = Burn(p, d)
      BY Zenon, <1>0, <1>1, <1>3, <3>1
    <3>3. p.rev > 0 => p.latch BY Zenon, <2>2, <3>1
    <3>4. /\ d.rev <= q.rev /\ p.rev <= q.rev /\ q.rev \in Nat /\ (q.rev > 0 => q.latch)
          /\ \A y \in docs : y.auth = a => y.n < d.n /\ (y.rev > 0 => y.rev < d.rev)
      BY Zenon, <2>3, <3>2, <3>3, NextIsAbove
    <3> QED BY Zenon, <3>2, <3>4
  <2>5. \A y \in docs' : y.n \in Nat /\ y.rev \in Nat BY Zenon, <1>1, <1>2 DEF Numbering, IsDoc
  <2>6. pub[a].n \in Nat /\ pub[a].rev \in Nat BY Zenon, <1>0 DEF IsSigner
  <2>7. \A y \in docs' : y.auth = a => y.n <= x.n /\ y.rev <= x.rev BY <1>1, <1>2, <1>6, <2>3, <2>4, <2>5, <2>6
  <2>8. ASSUME NEW y \in docs', NEW z \in docs', y.auth = z.auth, y.n < z.n, y.rev > 0 PROVE z.rev > y.rev
    <3>1. CASE y \in docs /\ z \in docs BY Zenon, <1>8, <2>1, <2>8, <3>1 DEF DocumentsOrdered
    <3>2. CASE y \in docs /\ z = d BY Zenon, <1>2, <2>4, <2>5, <2>8, <3>2
    <3>3. CASE y = d /\ z \in docs
      <4>1. z.n < y.n BY Zenon, <1>2, <2>4, <2>8, <3>3
      <4> QED BY <2>5, <2>8, <4>1
    <3>4. CASE y = d /\ z = d BY <2>5, <2>8, <3>4
    <3> QED BY Zenon, <1>1, <3>1, <3>2, <3>3, <3>4
  <2>9. x.rev > 0 => x.latch BY Zenon, <1>6, <1>7, <2>4
  <2> QED BY Zenon, <1>6, <2>7, <2>8, <2>9 DEF Dated, DocumentsOrdered
<1> QED BY Zenon, <1>1, <1>2, <1>5, <1>8, DatingMoves

\* The other steps of a writer draw no revision.
LEMMA DatedOther ==
  ASSUME Numbering, Dating, UNCHANGED site, NEW a \in site.signers,
         \/ site.writer = "steps" /\ CrashSigner(a)
         \/ PersistRoot(a) \/ PersistFails(a) \/ PrepareRecord(a) \/ PutRecord(a) \/ RestoreSigner(a)
  PROVE  Dating'
<1>0. IsSigner(pub[a]) /\ pub = [b \in site.signers |-> pub[b]] BY Zenon DEF Numbering
<1>1. CASE RestoreSigner(a) BY Zenon, <1>1 DEF RestoreSigner, Fault, Dating
<1>2. CASE ~RestoreSigner(a)
  <2>1. docs' = docs BY Zenon, <1>2 DEF CrashSigner, PersistRoot, PersistFails, PrepareRecord, PutRecord
  <2>2. PICK x : x = pub'[a] BY Zenon
  <2>3. /\ pub' = [pub EXCEPT ![a] = x] /\ x.n = pub[a].n /\ x.rev = pub[a].rev
        /\ x.stage # "idle" => pub[a].stage # "idle" /\ x.next = pub[a].next
        /\ x.up /\ pub[a].latch => x.latch /\ pub[a].up
        /\ x.up => pub[a].up
        /\ site.writer = "atomic" /\ pub[a].latch => x.latch
    <3>1. CASE site.writer = "steps" /\ CrashSigner(a)
      <4>1. PICK y : y = [NewSigner EXCEPT !.rev = pub[a].rev, !.line = pub[a].line, !.n = pub[a].n, !.seq = pub[a].seq]
        BY Zenon
      <4>2. pub' = [pub EXCEPT ![a] = y] BY Zenon, <3>1, <4>1 DEF CrashSigner
      <4>3. y.n = pub[a].n /\ y.rev = pub[a].rev /\ y.stage = "idle" BY Zenon, <4>1 DEF NewSigner
      <4>4. ~y.up BY Zenon, <4>1 DEF NewSigner
      <4>5. x = y BY Zenon, <1>0, <2>2, <4>2
      <4> QED BY Zenon, <3>1, <4>2, <4>3, <4>4, <4>5
    <3>2. CASE PersistRoot(a)
      <4>1. PICK l : pub' = [pub EXCEPT ![a].line = l, ![a].stage = "durable"] BY Zenon, <3>2 DEF PersistRoot
      <4>2. pub[a].stage = "built" BY Zenon, <3>2 DEF PersistRoot
      <4>3. /\ pub' = [pub EXCEPT ![a] = x] /\ x.n = pub[a].n /\ x.rev = pub[a].rev /\ x.next = pub[a].next
        BY Zenon, <1>0, <2>2, <4>1 DEF IsSigner
      <4>4. (x.up <=> pub[a].up) /\ (x.latch <=> pub[a].latch) BY Zenon, <1>0, <2>2, <4>1 DEF IsSigner
      <4> QED BY Zenon, <4>2, <4>3, <4>4
    <3>3. CASE PersistFails(a)
      <4>1. pub' = [pub EXCEPT ![a].stage = "idle", ![a].next = None] BY Zenon, <3>3 DEF PersistFails
      <4>2. /\ pub' = [pub EXCEPT ![a] = x] /\ x.n = pub[a].n /\ x.rev = pub[a].rev /\ x.stage = "idle"
        BY Zenon, <1>0, <2>2, <4>1 DEF IsSigner
      <4>3. (x.up <=> pub[a].up) /\ (x.latch <=> pub[a].latch) BY Zenon, <1>0, <2>2, <4>1 DEF IsSigner
      <4> QED BY Zenon, <4>2, <4>3
    <3>4. CASE PrepareRecord(a) \/ PutRecord(a)
      <4>1. \E s, t, u : pub' = [pub EXCEPT ![a].seq = s, ![a].put = t, ![a].last = u]
        <5>1. CASE PrepareRecord(a)
          <6>1. PICK s, t : pub' = [pub EXCEPT ![a].seq = s, ![a].put = t] BY Zenon, <5>1 DEF PrepareRecord
          <6>2. pub' = [pub EXCEPT ![a].seq = s, ![a].put = t, ![a].last = pub[a].last] BY Zenon, <1>0, <6>1 DEF IsSigner
          <6> QED BY Zenon, <6>2
        <5>2. CASE pub' = [pub EXCEPT ![a].put = None, ![a].last = pub[a].put.doc, ![a].seq = pub[a].put.seq]
          <6>1. pub' = [pub EXCEPT ![a].seq = pub[a].put.seq, ![a].put = None, ![a].last = pub[a].put.doc]
            BY Zenon, <1>0, <5>2 DEF IsSigner
          <6> QED BY Zenon, <6>1
        <5>3. CASE pub' = [pub EXCEPT ![a].put = None]
          <6>1. pub' = [pub EXCEPT ![a].seq = pub[a].seq, ![a].put = None, ![a].last = pub[a].last]
            BY Zenon, <1>0, <5>3 DEF IsSigner
          <6> QED BY Zenon, <6>1
        <5> QED BY Zenon, <3>4, <5>1, <5>2, <5>3 DEF PutRecord
      <4>2. PICK s, t, u : pub' = [pub EXCEPT ![a].seq = s, ![a].put = t, ![a].last = u] BY Zenon, <4>1
      <4>3. /\ pub' = [pub EXCEPT ![a] = x] /\ x.n = pub[a].n /\ x.rev = pub[a].rev /\ x.next = pub[a].next
            /\ x.stage = pub[a].stage
        BY Zenon, <1>0, <2>2, <4>2 DEF IsSigner
      <4>4. (x.up <=> pub[a].up) /\ (x.latch <=> pub[a].latch) BY Zenon, <1>0, <2>2, <4>2 DEF IsSigner
      <4> QED BY Zenon, <4>3, <4>4
    <3> QED BY Zenon, <1>2, <3>1, <3>2, <3>3, <3>4
  <2>4. "backup" \notin site.faulty => Dated(x, a)' /\ DocumentsOrdered'
    BY Zenon, <2>1, <2>3 DEF Dating, Dated, DocumentsOrdered
  <2> QED BY Zenon, <2>1, <2>3, <2>4, DatingMoves
<1> QED BY Zenon, <1>1, <1>2

\* The signers' steps keep revisions apart and rising.
LEMMA DatedWriter ==
  ASSUME Numbering, Dating, SignerStep, UNCHANGED site
  PROVE  Dating'
<1>2. PICK a \in site.signers :
        \/ BuildDoc(a) \/ StartSigner(a) \/ InstallDoc(a)
        \/ site.writer = "atomic" /\ PublishAtOnce(a)
        \/ site.writer = "steps" /\ CrashSigner(a)
        \/ PersistRoot(a) \/ PersistFails(a) \/ PrepareRecord(a) \/ PutRecord(a) \/ RestoreSigner(a)
  BY Zenon DEF SignerStep
<1> QED BY Zenon, <1>2, DatedBuild, DatedInstall, DatedAtOnce, DatedOther

\* The edge's answer is no new document.
LEMMA DatedAnswer ==
  ASSUME Numbering, Dating, UNCHANGED <<site, docs>>,
         pub' # pub => \E a \in site.signers : \/ pub' = [pub EXCEPT ![a].put = None]
                                               \/ \E u : pub' = [pub EXCEPT ![a].put = None, ![a].last = u]
  PROVE  Dating'
<1>1. CASE pub' = pub BY Zenon, <1>1, DatingAside
<1>2. CASE pub' # pub
  <2>1. PICK a \in site.signers : \/ pub' = [pub EXCEPT ![a].put = None]
                                  \/ \E u : pub' = [pub EXCEPT ![a].put = None, ![a].last = u]
    BY Zenon, <1>2
  <2>2. IsSigner(pub[a]) /\ pub = [b \in site.signers |-> pub[b]] BY Zenon DEF Numbering
  <2>3. PICK u : pub' = [pub EXCEPT ![a].put = None, ![a].last = u]
    <3>1. CASE pub' = [pub EXCEPT ![a].put = None]
      <4>1. pub' = [pub EXCEPT ![a].put = None, ![a].last = pub[a].last] BY Zenon, <2>2, <3>1 DEF IsSigner
      <4> QED BY Zenon, <4>1
    <3> QED BY Zenon, <2>1, <3>1
  <2>4. PICK x : x = pub'[a] BY Zenon
  <2>5. /\ pub' = [pub EXCEPT ![a] = x] /\ x.n = pub[a].n /\ x.rev = pub[a].rev /\ x.next = pub[a].next
        /\ x.stage = pub[a].stage
    BY Zenon, <2>2, <2>3, <2>4 DEF IsSigner
  <2>6. (x.up <=> pub[a].up) /\ (x.latch <=> pub[a].latch) BY Zenon, <2>2, <2>3, <2>4 DEF IsSigner
  <2>7. "backup" \notin site.faulty => Dated(x, a)' /\ DocumentsOrdered'
    BY Zenon, <2>5, <2>6 DEF Dating, Dated, DocumentsOrdered
  <2> QED BY Zenon, <2>5, <2>7, DatingMoves
<1> QED BY Zenon, <1>1, <1>2

\* The edge's steps build no document.
LEMMA DatedRelay ==
  ASSUME Numbering, Floored, Dating, UNCHANGED <<site, docs>>, EdgeStep
  PROVE  Dating'
<1>1. ASSUME NEW r, NEW ok, Unasked(r, ok), r # None
      PROVE  pub' # pub => \E a \in site.signers : \/ pub' = [pub EXCEPT ![a].put = None]
                                                   \/ \E u : pub' = [pub EXCEPT ![a].put = None, ![a].last = u]
  <2>1. ask = r => r.name \in site.signers BY Zenon, <1>1 DEF Numbering
  <2> QED BY Zenon, <1>1, <2>1 DEF Unasked, Failed
<1>2. ASSUME NEW a \in site.signers, GiveUp(a)
      PROVE  \E b \in site.signers : pub' = [pub EXCEPT ![b].put = None]
  BY Zenon, <1>2 DEF GiveUp, Failed
<1>3. \/ pub' = pub
      \/ \E r, ok : Unasked(r, ok) /\ r # None
      \/ \E b \in site.signers : pub' = [pub EXCEPT ![b].put = None]
  <2>1. CASE \E a \in site.signers : (Post(a) /\ Calm) \/ GiveUp(a) BY Zenon, <1>2, <2>1 DEF Post
  <2>2. CASE EdgeStart \/ Admitted \/ Restore \/ StageHints BY Zenon, <2>2 DEF EdgeStart, Admitted, Restore, StageHints
  <2>3. CASE EdgeCrash BY Zenon, <2>3 DEF EdgeCrash
  <2>4. CASE CheckRecord \/ ProvideDocument \/ Persist \/ PutValue \/ SwapHints \/ NotAdmitted \/ SettleHints
    <3>1. (edge.tx # None => edge.tx.rec # None) /\ None \notin edge.queue BY Zenon DEF Floored
    <3>2. edge.tx # None BY Zenon, <2>4 DEF CheckRecord, ProvideDocument, Persist, PutValue, SwapHints, NotAdmitted, SettleHints, At
    <3>3. pub' = pub \/ \E r, ok : Unasked(r, ok) /\ (r = edge.tx.rec \/ r \in edge.queue)
      BY Zenon, <2>4 DEF CheckRecord, ProvideDocument, Persist, PutValue, SwapHints, NotAdmitted, SettleHints, UnprovidedEnds, Done
    <3> QED BY Zenon, <3>1, <3>2, <3>3
  <2> QED BY Zenon, <2>1, <2>2, <2>3, <2>4 DEF EdgeStep
<1> QED BY Zenon, <1>1, <1>3, DatedAnswer

-----------------------------------------------------------------------------
\* The worker of the schedule.

\* Steps beside the schedule.
LEMMA WorkingAside == ASSUME Working, UNCHANGED hintVars PROVE Working'
BY Zenon DEF Working, hintVars

\* A replaced schedule wakes the worker (updatePointers).
LEMMA WorkingSwaps == ASSUME Working, NEW ps, Swap(ps) PROVE Working'
<1>1. PICK v, b : /\ wk' = [wk EXCEPT !.moved = TRUE, !.same = b, !.st = v] /\ (b => wk.same /\ wk.at \in ps)
  BY Zenon DEF Swap
<1>2. /\ wk' = [pc |-> wk'.pc, moved |-> wk'.moved, st |-> wk'.st, at |-> wk'.at, same |-> wk'.same]
      /\ wk'.pc = wk.pc /\ wk'.at = wk.at
  BY Zenon, <1>1 DEF Working
<1>3. wk'.same => b BY Zenon, <1>1 DEF Working
<1>4. wake' /\ begun' = begun \cap ps /\ provided' = provided \cap ps BY Zenon DEF Swap
<1> QED BY Zenon, <1>1, <1>2, <1>3, <1>4 DEF Working

\* A schedule lost with its process starts over.
LEMMA WorkingLost == ASSUME HintsLost PROVE Working'
<1>1. wk' = NewWorker /\ provided' = {} BY Zenon DEF HintsLost
<1>2. /\ wk' = [pc |-> wk'.pc, moved |-> wk'.moved, st |-> wk'.st, at |-> wk'.at, same |-> wk'.same] /\ wk'.pc = "top"
  BY Zenon, <1>1 DEF NewWorker
<1> QED BY Zenon, <1>1, <1>2 DEF Working

\* The worker's own steps (Provider.run).
LEMMA WorkingSteps == ASSUME Working, ProviderStep PROVE Working'
<1>1. CASE Snapshot
  <2>1. PICK v : wk' = [wk EXCEPT !.pc = "pick", !.moved = FALSE, !.st = v] BY Zenon, <1>1 DEF Snapshot
  <2>2. wk.pc = "top" /\ UNCHANGED <<provided, begun, wake>> BY Zenon, <1>1 DEF Snapshot
  <2>3. /\ wk' = [pc |-> wk'.pc, moved |-> wk'.moved, st |-> wk'.st, at |-> wk'.at, same |-> wk'.same] /\ wk'.pc = "pick"
    BY Zenon, <2>1 DEF Working
  <2>4. ~wk'.moved BY Zenon, <2>1 DEF Working
  <2> QED BY Zenon, <2>2, <2>3, <2>4 DEF Working
<1>2. CASE Pick
  <2>1. PICK c, v : /\ wk' = [wk EXCEPT !.pc = c, !.at = v] /\ c \in {"block", "timer", "check"}
    <3>1. CASE Due = {}
      <4>1. PICK c \in {"block", "timer"} : wk' = [wk EXCEPT !.pc = c] BY Zenon, <1>2, <3>1 DEF Pick
      <4>2. wk' = [wk EXCEPT !.pc = c, !.at = wk.at] BY Zenon, <4>1 DEF Working
      <4> QED BY Zenon, <4>2
    <3> QED BY Zenon, <1>2, <3>1 DEF Pick
  <2>2. wk.pc = "pick" /\ UNCHANGED <<provided, begun, wake>> BY Zenon, <1>2 DEF Pick, Waiting
  <2>3. /\ wk' = [pc |-> wk'.pc, moved |-> wk'.moved, st |-> wk'.st, at |-> wk'.at, same |-> wk'.same] /\ wk'.pc = c
    BY Zenon, <2>1 DEF Working
  <2>4. wk'.moved => wk.moved BY Zenon, <2>1 DEF Working
  <2> QED BY Zenon, <2>1, <2>2, <2>3, <2>4 DEF Working
<1>3. CASE Woken \/ Timer
  <2>1. PICK v : wk' = [wk EXCEPT !.pc = "top", !.st = v]
    <3>1. CASE Woken
      <4>1. wk' = [wk EXCEPT !.pc = "top"] BY Zenon, <3>1 DEF Woken
      <4>2. wk' = [wk EXCEPT !.pc = "top", !.st = wk.st] BY Zenon, <4>1 DEF Working
      <4> QED BY Zenon, <4>2
    <3>2. CASE Timer
      <4>1. PICK p : wk' = [wk EXCEPT !.pc = "top", !.st[p].due = TRUE] BY Zenon, <3>2 DEF Timer
      <4>2. wk' = [wk EXCEPT !.pc = "top", !.st = [wk.st EXCEPT ![p].due = TRUE]] BY Zenon, <4>1 DEF Working
      <4> QED BY Zenon, <4>2
    <3> QED BY Zenon, <1>3, <3>1, <3>2
  <2>2. UNCHANGED <<provided, begun>> BY Zenon, <1>3 DEF Woken, Timer
  <2>3. /\ wk' = [pc |-> wk'.pc, moved |-> wk'.moved, st |-> wk'.st, at |-> wk'.at, same |-> wk'.same] /\ wk'.pc = "top"
    BY Zenon, <2>1 DEF Working
  <2> QED BY Zenon, <2>2, <2>3 DEF Working
<1>4. CASE CheckPointer
  <2>1. PICK ok : /\ wk' = IF ~ok THEN [wk EXCEPT !.pc = "top", !.st[wk.at].due = FALSE, !.at = None]
                           ELSE IF wk.moved THEN [wk EXCEPT !.pc = "top", !.at = None]
                           ELSE [wk EXCEPT !.pc = "call", !.same = TRUE]
                  /\ begun' = IF ok /\ ~wk.moved THEN begun \cup {wk.at} ELSE begun
    BY Zenon, <1>4 DEF CheckPointer
  <2>2. wk.pc = "check" /\ UNCHANGED <<provided, wake>> BY Zenon, <1>4 DEF CheckPointer
  <2>3. CASE ok /\ ~wk.moved
    <3>1. wk' = [wk EXCEPT !.pc = "call", !.same = TRUE] BY Zenon, <2>1, <2>3
    <3>2. /\ wk' = [pc |-> wk'.pc, moved |-> wk'.moved, st |-> wk'.st, at |-> wk'.at, same |-> wk'.same] /\ wk'.at = wk.at
      BY Zenon, <3>1 DEF Working
    <3>3. ~wk'.moved BY Zenon, <2>3, <3>1 DEF Working
    <3> QED BY Zenon, <2>1, <2>2, <2>3, <3>2, <3>3 DEF Working
  <2>4. CASE ~(ok /\ ~wk.moved)
    <3>1. PICK v : wk' = [wk EXCEPT !.pc = "top", !.st = v, !.at = None]
      <4>1. CASE ~ok
        <5>1. wk' = [wk EXCEPT !.pc = "top", !.st[wk.at].due = FALSE, !.at = None] BY Zenon, <2>1, <4>1
        <5>2. wk' = [wk EXCEPT !.pc = "top", !.st = [wk.st EXCEPT ![wk.at].due = FALSE], !.at = None] BY Zenon, <5>1 DEF Working
        <5> QED BY Zenon, <5>2
      <4>2. CASE ok
        <5>1. wk' = [wk EXCEPT !.pc = "top", !.at = None] BY Zenon, <2>1, <2>4, <4>2
        <5>2. wk' = [wk EXCEPT !.pc = "top", !.st = wk.st, !.at = None] BY Zenon, <5>1 DEF Working
        <5> QED BY Zenon, <5>2
      <4> QED BY Zenon, <4>1, <4>2
    <3>2. /\ wk' = [pc |-> wk'.pc, moved |-> wk'.moved, st |-> wk'.st, at |-> wk'.at, same |-> wk'.same] /\ wk'.pc = "top"
      BY Zenon, <3>1 DEF Working
    <3> QED BY Zenon, <2>1, <2>2, <2>4, <3>2 DEF Working
  <2> QED BY Zenon, <2>3, <2>4
<1>5. CASE CallDone
  <2>1. wk' = [wk EXCEPT !.pc = "top", !.st[wk.at].due = FALSE, !.at = None, !.same = FALSE] BY Zenon, <1>5 DEF CallDone
  <2>2. wk' = [wk EXCEPT !.pc = "top", !.st = [wk.st EXCEPT ![wk.at].due = FALSE], !.at = None, !.same = FALSE]
    BY Zenon, <2>1 DEF Working
  <2>3. PICK v : wk' = [wk EXCEPT !.pc = "top", !.st = v, !.at = None, !.same = FALSE] BY Zenon, <2>2
  <2>4. /\ wk' = [pc |-> wk'.pc, moved |-> wk'.moved, st |-> wk'.st, at |-> wk'.at, same |-> wk'.same] /\ wk'.pc = "top"
    BY Zenon, <2>3 DEF Working
  <2>5. begun' = begun /\ provided' \subseteq provided \cup (IF wk.same THEN {wk.at} ELSE {}) /\ wk.pc = "call"
    BY Zenon, <1>5 DEF CallDone, Success
  <2> QED BY Zenon, <2>4, <2>5 DEF Working
<1> QED BY Zenon, <1>1, <1>2, <1>3, <1>4, <1>5 DEF ProviderStep

-----------------------------------------------------------------------------
\* The rendezvous service.

\* The loop is a record of these fields.
Loop ==
  rv = [pc |-> rv.pc, due |-> rv.due, soon |-> rv.soon, expired |-> rv.expired, provide |-> rv.provide, call |-> rv.call,
        lost |-> rv.lost, cutOff |-> rv.cutOff, find |-> rv.find, hand |-> rv.hand, seen |-> rv.seen, found |-> rv.found]

MeetTyped ==
  /\ addr \in Nat /\ watch \in Nat /\ watch <= addr /\ slot \in BOOLEAN /\ Loop
  /\ rv.lost \in BOOLEAN /\ rv.cutOff \in BOOLEAN /\ rv.provide \subseteq site.keys /\ None \notin site.keys \X Nat
  /\ DOMAIN carried = site.keys /\ dialing \in [site.peers -> Nat]

\* What a round started ends with it, and a service that is closed has no loop.
Joining ==
  /\ rv.pc # "round" => InFlight = {} /\ rv.call = None /\ rv.hand = None
  /\ closing = "closed" => rv.pc = "gone"
  /\ closing = "open" => rv.pc # "gone"

\* Whoever is dialled, or about to be, was found in this round, once, and was free.
Sparing ==
  /\ \A p \in InFlight : dialing[p] = 1 /\ p \in rv.seen /\ PeerEligible(p)
  /\ rv.hand # None => rv.hand \in rv.seen /\ rv.hand \notin InFlight /\ PeerEligible(rv.hand)

\* The last pass reached every key, or says that it did not.
Current == (\A k \in site.keys : carried[k] = addr) \/ "provide" \in rv.soon \/ rv.cutOff

\* The pass in progress has reached every key it no longer holds, or failed.
Progressing ==
  /\ rv.call # None => rv.call[2] = addr
  /\ \/ rv.lost \/ rv.cutOff
     \/ \A k \in site.keys : k \in rv.provide \/ (rv.call # None /\ rv.call[1] = k) \/ carried[k] = addr

\* With no change of address unanswered, a pass is due, in progress or was good.
Following ==
  /\ rv.pc = "round" /\ "provide" \notin rv.due => rv.provide = {} /\ rv.call = None
  /\ closing = "open" /\ ~slot /\ watch = addr =>
       /\ rv.pc = "wait" => Current
       /\ rv.pc = "top" => "provide" \in rv.due \/ Current
       /\ rv.pc = "round" => IF "provide" \in rv.due THEN Progressing ELSE Current

MeetInv == MeetTyped /\ Joining /\ Sparing /\ Following

-----------------------------------------------------------------------------
\* Tracking one peer bars no other.
LEMMA TrackSpares ==
  ASSUME NEW p, NEW q, q # p, Track(p), PeerEligible(q)
  PROVE  PeerEligible(q)'
BY DEF Track, PeerEligible

\* AddressesMove keeps the inductive invariant.
LEMMA KeepsAddressesMove ==
  ASSUME MeetInv, UNCHANGED site, AddressesMove
  PROVE  MeetInv'
<1> USE DEF MeetInv
<1>1. MeetTyped' BY DEF AddressesMove, MeetTyped, Loop, Tasks, Joining, InFlight, Sparing
<1>2. Joining' BY Zenon, <1>1 DEF AddressesMove, MeetTyped, Loop, Joining, InFlight
<1>3. Sparing' BY Zenon, <1>1 DEF AddressesMove, MeetTyped, Loop, Joining, Sparing, InFlight, PeerEligible
<1>4. Following' BY <1>1 DEF AddressesMove, MeetTyped, Loop, Tasks, Joining, Following, Progressing, Current, InFlight
<1> QED BY Zenon, <1>1, <1>2, <1>3, <1>4

\* WatchAddresses keeps the inductive invariant.
LEMMA KeepsWatchAddresses ==
  ASSUME MeetInv, UNCHANGED site, WatchAddresses
  PROVE  MeetInv'
<1> USE DEF MeetInv
<1>1. MeetTyped' BY DEF WatchAddresses, MeetTyped, Loop, Tasks, Joining, InFlight, Sparing
<1>2. Joining' BY Zenon, <1>1 DEF WatchAddresses, MeetTyped, Loop, Joining, InFlight
<1>3. Sparing' BY Zenon, <1>1 DEF WatchAddresses, MeetTyped, Loop, Joining, Sparing, InFlight, PeerEligible
<1>4. Following' BY Zenon, <1>1 DEF WatchAddresses, MeetTyped, Loop, Tasks, Joining, Following, Progressing, Current, InFlight
<1> QED BY Zenon, <1>1, <1>2, <1>3, <1>4

\* BeginRound keeps the inductive invariant.
LEMMA KeepsBeginRound ==
  ASSUME MeetInv, UNCHANGED site, BeginRound
  PROVE  MeetInv'
<1> USE DEF MeetInv
<1>1. MeetTyped' BY Zenon DEF BeginRound, MeetTyped, Loop, Tasks, Joining, InFlight, Sparing
<1>2. Joining' BY Zenon, <1>1 DEF BeginRound, MeetTyped, Loop, Joining, InFlight
<1>3. Sparing' BY <1>1 DEF BeginRound, MeetTyped, Loop, Joining, Sparing, InFlight, PeerEligible
<1>4. Following' BY <1>1 DEF BeginRound, MeetTyped, Loop, Tasks, Joining, Following, Progressing, Current, InFlight
<1> QED BY Zenon, <1>1, <1>2, <1>3, <1>4

\* Expire keeps the inductive invariant.
LEMMA KeepsExpire ==
  ASSUME MeetInv, UNCHANGED site, Expire
  PROVE  MeetInv'
<1> USE DEF MeetInv
<1>1. MeetTyped' BY Zenon DEF Expire, MeetTyped, Loop, Tasks, Joining, InFlight, Sparing
<1>2. Joining' BY Zenon, <1>1 DEF Expire, MeetTyped, Loop, Joining, InFlight
<1>3. Sparing' BY Zenon, <1>1 DEF Expire, MeetTyped, Loop, Joining, Sparing, InFlight, PeerEligible
<1>4. Following' BY <1>1 DEF Expire, MeetTyped, Loop, Tasks, Joining, Following, Progressing, Current, InFlight
<1> QED BY Zenon, <1>1, <1>2, <1>3, <1>4

\* ProvideKey keeps the inductive invariant.
LEMMA KeepsProvideKey ==
  ASSUME MeetInv, UNCHANGED site, ProvideKey
  PROVE  MeetInv'
<1> USE DEF MeetInv
<1>1. MeetTyped' BY ZenonT(60) DEF ProvideKey, MeetTyped, Loop, Tasks, Joining, InFlight, Sparing
<1>2. Joining' BY <1>1 DEF ProvideKey, MeetTyped, Loop, Joining, InFlight
<1>3. Sparing' BY <1>1 DEF ProvideKey, MeetTyped, Loop, Joining, Sparing, InFlight, PeerEligible
<1>4. Following'
  <2>1. PICK k \in rv.provide :
          rv' = IF rv.expired THEN [rv EXCEPT !.provide = {}, !.cutOff = TRUE]
                ELSE [rv EXCEPT !.provide = @ \ {k}, !.call = <<k, addr>>]
    BY Zenon DEF ProvideKey
  <2>2. /\ "provide" \in rv.due /\ rv.pc = "round" /\ rv.call = None
        /\ UNCHANGED <<addr, watch, slot, carried, closing>>
    BY Zenon, <2>1 DEF ProvideKey, Following
  <2>3. CASE rv.expired
    <3>1. rv'.cutOff /\ rv'.pc = rv.pc /\ rv'.due = rv.due /\ rv'.call = rv.call BY Zenon, <2>1, <2>3 DEF MeetTyped, Loop
    <3> QED BY Zenon, <2>2, <3>1 DEF Following, Progressing
  <2>4. CASE ~rv.expired
    <3>1. /\ rv'.pc = rv.pc /\ rv'.due = rv.due /\ rv'.lost = rv.lost /\ rv'.cutOff = rv.cutOff
          /\ rv'.provide = rv.provide \ {k} /\ rv'.call = <<k, addr>>
      BY Zenon, <2>1, <2>4 DEF MeetTyped, Loop
    <3>2. <<k, addr>> # None BY DEF MeetTyped
    <3> QED BY <2>2, <3>1, <3>2 DEF Following, Progressing
  <2> QED BY Zenon, <2>3, <2>4
<1> QED BY Zenon, <1>1, <1>2, <1>3, <1>4

\* Provided keeps the inductive invariant.
LEMMA KeepsProvided ==
  ASSUME MeetInv, UNCHANGED site, Provided
  PROVE  MeetInv'
<1> USE DEF MeetInv
<1>1. MeetTyped' BY Zenon DEF Provided, MeetTyped, Loop, Tasks, Joining, InFlight, Sparing
<1>2. Joining' BY Zenon, <1>1 DEF Provided, MeetTyped, Loop, Joining, InFlight
<1>3. Sparing' BY Zenon, <1>1 DEF Provided, MeetTyped, Loop, Joining, Sparing, InFlight, PeerEligible
<1>4. Following'
  <2>1. "provide" \in rv.due /\ rv.pc = "round" /\ rv.call # None /\ UNCHANGED <<addr, watch, slot, closing>>
    BY Zenon DEF Provided, Following, Joining
  <2>2. CASE carried' = [carried EXCEPT ![rv.call[1]] = rv.call[2]] /\ rv' = [rv EXCEPT !.call = None]
    <3>1. /\ rv'.pc = rv.pc /\ rv'.due = rv.due /\ rv'.lost = rv.lost /\ rv'.cutOff = rv.cutOff
          /\ rv'.provide = rv.provide /\ rv'.call = None
      BY Zenon, <2>2 DEF MeetTyped, Loop
    <3>2. \A k \in site.keys : carried'[k] = IF rv.call[1] = k THEN rv.call[2] ELSE carried[k]
      BY Zenon, <2>2 DEF MeetTyped
    <3> QED BY Zenon, <2>1, <3>1, <3>2 DEF Following, Progressing
  <2>3. CASE rv' = [rv EXCEPT !.call = None, !.lost = TRUE]
    <3>1. rv'.lost /\ rv'.pc = rv.pc /\ rv'.due = rv.due /\ rv'.call = None BY Zenon, <2>3 DEF MeetTyped, Loop
    <3> QED BY Zenon, <2>1, <3>1 DEF Following, Progressing
  <2> QED BY Zenon, <2>2, <2>3 DEF Provided
<1> QED BY Zenon, <1>1, <1>2, <1>3, <1>4

\* FindPeer keeps the inductive invariant.
LEMMA KeepsFindPeer ==
  ASSUME MeetInv, UNCHANGED site, FindPeer
  PROVE  MeetInv'
<1> USE DEF MeetInv
<1>1. MeetTyped' BY Zenon DEF FindPeer, MeetTyped, Loop, Tasks, Joining, InFlight, Sparing
<1>2. Joining' BY Zenon, <1>1 DEF FindPeer, MeetTyped, Loop, Joining, InFlight
<1>3. Sparing'
  <2> DEFINE s(p) == [rv EXCEPT !.seen = @ \cup {p}]
  <2>1. PICK p \in site.peers \ rv.seen :
          \/ rv' = s(p) /\ UNCHANGED barred
          \/ dialing[p] = 0 /\ rv' = [s(p) EXCEPT !.found = TRUE] /\ Track(p)
          \/ PeerEligible(p) /\ rv' = [s(p) EXCEPT !.hand = p] /\ UNCHANGED barred
    BY Zenon DEF FindPeer
  <2>2. rv.hand = None /\ UNCHANGED dialing /\ rv'.seen = rv.seen \cup {p} BY Zenon, <2>1 DEF FindPeer, MeetTyped, Loop
  <2>3. InFlight' = InFlight /\ p \notin InFlight BY Zenon, <2>2 DEF InFlight, Sparing
  <2>4. CASE rv'.hand = None /\ UNCHANGED barred BY Zenon, <2>2, <2>3, <2>4 DEF Sparing, PeerEligible
  <2>5. CASE rv'.hand = None /\ Track(p) BY Zenon, <2>2, <2>3, <2>5, TrackSpares DEF Sparing
  <2>6. CASE rv'.hand = p /\ PeerEligible(p) /\ UNCHANGED barred BY Zenon, <2>2, <2>3, <2>6 DEF Sparing, PeerEligible
  <2> QED BY Zenon, <2>1, <2>2, <2>4, <2>5, <2>6 DEF MeetTyped, Loop
<1>4. Following'
  <2>1. UNCHANGED <<addr, watch, slot, carried, closing>> BY Zenon DEF FindPeer
  <2>2. /\ rv'.pc = rv.pc /\ rv'.due = rv.due /\ rv'.soon = rv.soon /\ rv'.lost = rv.lost /\ rv'.cutOff = rv.cutOff
        /\ rv'.provide = rv.provide /\ rv'.call = rv.call
    BY Zenon DEF FindPeer, MeetTyped, Loop
  <2> QED BY Zenon, <2>1, <2>2 DEF Following, Progressing, Current
<1> QED BY Zenon, <1>1, <1>2, <1>3, <1>4

\* Dial keeps the inductive invariant.
LEMMA KeepsDial ==
  ASSUME MeetInv, UNCHANGED site, Dial
  PROVE  MeetInv'
<1> USE DEF MeetInv
<1>1. MeetTyped'
  <2>1. dialing' \in [site.peers -> Nat] BY DEF Dial, MeetTyped
  <2> QED BY Zenon, <2>1 DEF Dial, MeetTyped, Loop
<1>2. Joining' BY Zenon, <1>1 DEF Dial, MeetTyped, Loop, Joining, InFlight
<1>3. Sparing'
  <2>1. UNCHANGED barred /\ rv'.hand = None /\ rv'.seen = rv.seen BY Zenon DEF Dial, MeetTyped, Loop
  <2>2. CASE UNCHANGED dialing BY Zenon, <2>1, <2>2 DEF Sparing, InFlight, PeerEligible
  <2>3. CASE dialing' = [dialing EXCEPT ![rv.hand] = @ + 1]
    <3>1. \A p \in site.peers : dialing'[p] = IF p = rv.hand THEN dialing[p] + 1 ELSE dialing[p] BY Zenon, <2>3 DEF MeetTyped
    <3>2. \A p \in InFlight' : p \in InFlight \/ p = rv.hand BY Zenon, <3>1 DEF InFlight
    <3>3. rv.hand \in site.peers => dialing[rv.hand] = 0 BY DEF Sparing, InFlight, MeetTyped, Dial
    <3>4. rv.hand # None BY Zenon DEF Dial
    <3> QED BY <2>1, <3>1, <3>2, <3>3, <3>4 DEF Sparing, InFlight, PeerEligible
  <2> QED BY Zenon, <2>2, <2>3 DEF Dial
<1>4. Following'
  <2>1. UNCHANGED <<addr, watch, slot, carried, closing>> BY Zenon DEF Dial
  <2>2. /\ rv'.pc = rv.pc /\ rv'.due = rv.due /\ rv'.soon = rv.soon /\ rv'.lost = rv.lost /\ rv'.cutOff = rv.cutOff
        /\ rv'.provide = rv.provide /\ rv'.call = rv.call
    BY Zenon DEF Dial, MeetTyped, Loop
  <2> QED BY Zenon, <2>1, <2>2 DEF Following, Progressing, Current
<1> QED BY Zenon, <1>1, <1>2, <1>3, <1>4

\* QueryEnds keeps the inductive invariant.
LEMMA KeepsQueryEnds ==
  ASSUME MeetInv, UNCHANGED site, QueryEnds
  PROVE  MeetInv'
<1> USE DEF MeetInv
<1>1. MeetTyped' BY Zenon DEF QueryEnds, SeenSoFar, MeetTyped, Loop, Tasks, Joining, InFlight, Sparing
<1>2. Joining' BY Zenon, <1>1 DEF QueryEnds, SeenSoFar, MeetTyped, Loop, Joining, InFlight
<1>3. Sparing' BY Zenon, <1>1 DEF QueryEnds, SeenSoFar, MeetTyped, Loop, Joining, Sparing, InFlight, PeerEligible
<1>4. Following' BY ZenonT(60), <1>1 DEF QueryEnds, SeenSoFar, MeetTyped, Loop, Tasks, Joining, Following, Progressing, Current, InFlight
<1> QED BY Zenon, <1>1, <1>2, <1>3, <1>4

\* EndRound keeps the inductive invariant.
LEMMA KeepsEndRound ==
  ASSUME MeetInv, UNCHANGED site, EndRound
  PROVE  MeetInv'
<1> USE DEF MeetInv
<1>1. MeetTyped' BY Zenon DEF EndRound, Joined, MeetTyped, Loop, Tasks, Joining, InFlight, Sparing
<1>2. Joining' BY <1>1 DEF EndRound, Joined, MeetTyped, Loop, Joining, InFlight
<1>3. Sparing' BY <1>1 DEF EndRound, Joined, MeetTyped, Loop, Joining, Sparing, InFlight, PeerEligible
<1>4. Following'
  <2>1. UNCHANGED <<addr, watch, slot, carried, closing>> /\ rv.pc = "round" /\ rv.provide = {} /\ rv.call = None
    BY Zenon DEF EndRound, Joined
  <2>2. /\ rv'.pc \in {"wait", "gone"} /\ rv'.cutOff = rv.cutOff
        /\ "provide" \in rv'.soon <=> IF "provide" \in rv.due THEN rv.lost ELSE "provide" \in rv.soon
    BY Zenon DEF EndRound, MeetTyped, Loop
  <2> QED BY Zenon, <2>1, <2>2 DEF Following, Progressing, Current
<1> QED BY Zenon, <1>1, <1>2, <1>3, <1>4

\* Wait keeps the inductive invariant.
LEMMA KeepsWait ==
  ASSUME MeetInv, UNCHANGED site, Wait
  PROVE  MeetInv'
<1> USE DEF MeetInv
<1>1. MeetTyped' BY Zenon DEF Wait, Refreshed, MeetTyped, Loop, Tasks, Joining, InFlight, Sparing
<1>2. Joining' BY Zenon, <1>1 DEF Wait, Refreshed, MeetTyped, Loop, Joining, InFlight
<1>3. Sparing' BY Zenon, <1>1 DEF Wait, Refreshed, MeetTyped, Loop, Joining, Sparing, InFlight, PeerEligible
<1>4. Following'
  <2>1. UNCHANGED <<addr, watch, carried, closing>> /\ rv.pc = "wait" BY Zenon DEF Wait
  <2>2. rv'.soon = rv.soon /\ rv'.cutOff = rv.cutOff /\ rv'.pc \in {"top", "gone"} BY Zenon DEF Wait, Refreshed, MeetTyped, Loop
  <2>3. CASE slot /\ Refreshed
    <3>1. "provide" \in rv'.due BY Zenon, <2>3 DEF Refreshed, MeetTyped, Loop, Tasks
    <3> QED BY Zenon, <2>2, <3>1 DEF Following
  <2>4. CASE UNCHANGED slot BY Zenon, <2>1, <2>2, <2>4 DEF Following, Current
  <2> QED BY Zenon, <2>3, <2>4 DEF Wait
<1> QED BY Zenon, <1>1, <1>2, <1>3, <1>4

\* Close keeps the inductive invariant.
LEMMA KeepsClose ==
  ASSUME MeetInv, UNCHANGED site, Close
  PROVE  MeetInv'
<1> USE DEF MeetInv
<1>1. MeetTyped'
  <2>1. Loop' /\ rv'.lost \in BOOLEAN /\ rv'.cutOff \in BOOLEAN /\ rv'.provide \subseteq site.keys
    <3>1. CASE rv' = rv BY Zenon, <3>1 DEF MeetTyped, Loop
    <3>2. CASE rv' = NewLoop BY Zenon, <3>2 DEF Loop, NewLoop
    <3> QED BY Zenon, <3>1, <3>2 DEF Close
  <2>2. addr' = addr /\ watch' \in {watch, addr} /\ UNCHANGED dialing BY Zenon DEF Close
  <2>3. slot' \in BOOLEAN BY Zenon DEF Close, MeetTyped
  <2>4. DOMAIN carried' = site.keys BY Zenon DEF Close, MeetTyped
  <2> QED BY <2>1, <2>2, <2>3, <2>4 DEF MeetTyped
<1>2. Joining' BY <1>1 DEF Close, NewLoop, MeetTyped, Loop, Joining, InFlight
<1>3. Sparing' BY <1>1 DEF Close, NewLoop, MeetTyped, Loop, Joining, Sparing, InFlight, PeerEligible
<1>4. Following' BY <1>1 DEF Close, NewLoop, MeetTyped, Loop, Tasks, Joining, Following, Progressing, Current, InFlight
<1> QED BY Zenon, <1>1, <1>2, <1>3, <1>4

\* Dialled keeps the inductive invariant.
LEMMA KeepsDialled ==
  ASSUME MeetInv, UNCHANGED site, NEW p \in site.peers, Dialled(p)
  PROVE  MeetInv'
<1> USE DEF MeetInv
<1>1. MeetTyped' BY DEF Dialled, MeetTyped, Loop, Tasks, Joining, InFlight, Sparing
<1>2. Joining' BY Zenon, <1>1 DEF Dialled, MeetTyped, Loop, Joining, InFlight
<1>3. Sparing' BY <1>1, TrackSpares DEF Dialled, MeetTyped, Loop, Joining, Sparing, InFlight, PeerEligible
<1>4. Following' BY <1>1 DEF Dialled, MeetTyped, Loop, Tasks, Joining, Following, Progressing, Current, InFlight
<1> QED BY Zenon, <1>1, <1>2, <1>3, <1>4

\* CoolDown keeps the inductive invariant.
LEMMA KeepsCoolDown ==
  ASSUME MeetInv, UNCHANGED site, NEW p \in site.peers, CoolDown(p)
  PROVE  MeetInv'
<1> USE DEF MeetInv
<1>1. MeetTyped' BY Zenon DEF CoolDown, MeetTyped, Loop, Tasks, Joining, InFlight, Sparing
<1>2. Joining' BY Zenon, <1>1 DEF CoolDown, MeetTyped, Loop, Joining, InFlight
<1>3. Sparing' BY Zenon, <1>1 DEF CoolDown, MeetTyped, Loop, Joining, Sparing, InFlight, PeerEligible
<1>4. Following' BY Zenon, <1>1 DEF CoolDown, MeetTyped, Loop, Tasks, Joining, Following, Progressing, Current, InFlight
<1> QED BY Zenon, <1>1, <1>2, <1>3, <1>4

-----------------------------------------------------------------------------
\* A service that has just started.
LEMMA MeetInit == ASSUME RendezvousInit, None \notin site.keys \X Nat PROVE MeetInv
<1>1. RendezvousInit /\ None \notin site.keys \X Nat BY Zenon
<1>2. MeetTyped
  <2>1. Loop BY Zenon, <1>1 DEF Loop, RendezvousInit, NewLoop
  <2>2. addr \in Nat /\ watch \in Nat /\ watch <= addr BY <1>1 DEF RendezvousInit
  <2>5. slot \in BOOLEAN BY <1>1, Zenon DEF RendezvousInit
  <2>3. rv.lost \in BOOLEAN /\ rv.cutOff \in BOOLEAN /\ rv.provide \subseteq site.keys BY <1>1 DEF RendezvousInit, NewLoop
  <2>4. DOMAIN carried = site.keys /\ dialing \in [site.peers -> Nat] BY <1>1 DEF RendezvousInit
  <2> QED BY Zenon, <1>1, <2>1, <2>2, <2>3, <2>4, <2>5 DEF MeetTyped
<1>3. Joining BY <1>1 DEF Joining, InFlight, RendezvousInit, NewLoop
<1>5. Sparing BY <1>1 DEF Sparing, InFlight, RendezvousInit, NewLoop
<1>4. Following BY <1>1 DEF Following, Tasks, RendezvousInit, NewLoop
<1> QED BY Zenon, <1>2, <1>3, <1>4, <1>5 DEF MeetInv

\* Every step of the service keeps the inductive invariant.
LEMMA MeetStep ==
  ASSUME MeetInv, UNCHANGED site, RendezvousStep
  PROVE  MeetInv'
<1>1. CASE AddressesMove \/ WatchAddresses \/ BeginRound \/ Expire
  BY Zenon, <1>1, KeepsAddressesMove, KeepsWatchAddresses, KeepsBeginRound, KeepsExpire
<1>2. CASE ProvideKey \/ Provided \/ FindPeer \/ Dial
  BY Zenon, <1>2, KeepsProvideKey, KeepsProvided, KeepsFindPeer, KeepsDial
<1>3. CASE QueryEnds \/ EndRound \/ Wait \/ Close BY Zenon, <1>3, KeepsQueryEnds, KeepsEndRound, KeepsWait, KeepsClose
<1>4. CASE \E p \in site.peers : Dialled(p) \/ CoolDown(p) BY Zenon, <1>4, KeepsDialled, KeepsCoolDown
<1> QED BY Zenon, <1>1, <1>2, <1>3, <1>4 DEF RendezvousStep

\* A stutter of the service keeps the inductive invariant.
LEMMA MeetStutter ==
  ASSUME MeetInv, UNCHANGED site, UNCHANGED rendezvousVars
  PROVE  MeetInv'
BY Zenon DEF MeetInv, rendezvousVars, MeetTyped, Loop, Joining, InFlight, Sparing, PeerEligible, Following, Progressing, Current

-----------------------------------------------------------------------------
\* Pointer hints.

Reports == {"admit", "refresh", "restore"}
Listings(f) == \A h \in Kinds : \A x \in f[h] : x = [root |-> x.root, doc |-> x.doc]
Parts(n) == n = [written |-> n.written, followed |-> n.followed, local |-> n.local] /\ Listings(n.followed)
IsReplace(o) ==
  /\ o = [who |-> o.who, next |-> o.next, pc |-> o.pc] /\ Parts(o.next)
  /\ o.pc \in {"idle", "stage", "swap", "settle", "undo"}
IsOwner(s) ==
  /\ s = [own |-> s.own, written |-> s.written, followed |-> s.followed, local |-> s.local, pend |-> s.pend,
          op |-> s.op, ok |-> s.ok]
  /\ Listings(s.followed) /\ IsReplace(s.op)

\* The followed heads are the ones the registry serves, and the rendered document is its.
Rooted(f) == \A h \in Kinds : {x.root : x \in f[h]} = IF Serves(h) THEN {adopted[h]} ELSE {}
Rendering(own) == LocalDoc(own, adopted, quar, adrift)
Rendered(s, own) == s.local = {Rendering(own)} /\ s.written = own

\* Whoever replaces the union leaves the other's part of it.
OthersPart(s, t) ==
  s.op.pc # "idle" =>
    \/ s.op.who = "local" /\ s.op.next.followed = s.followed
    \/ s.op.who = "follower" /\ s.op.next.written = s.written /\ s.op.next.local = s.local /\ t # {}

\* Until a replacement fails, each part is current, on its way, or reported.
Reaching(s, t) ==
  /\ t = {} => Rooted(s.followed)
  /\ s.op.pc # "idle" /\ s.op.who = "follower" => Rooted(s.op.next.followed)
  /\ s.pend # {Rendering(s.own)} =>
       s.pend = {} /\ Rendered(IF s.op.pc # "idle" /\ s.op.who = "local" THEN s.op.next ELSE s, s.own)

\* The schedule's owner, and what is installed.
Owning(s, t) ==
  /\ IsOwner(s) /\ OthersPart(s, t) /\ \A x \in t : x.op \in Reports
  /\ up # "on" => s = NewOwner(s.own) /\ t = {}
  /\ up = "on" /\ s.ok => Reaching(s, t)
Scheduled(s) == want = Composed(IF s.op.pc = "settle" THEN s.op.next ELSE s)
HintInv == site.hints => Owning(hs, told) /\ Scheduled(hs)

\* What is scheduled is read from the parts.
LEMMA ComposedOf ==
  ASSUME NEW s, NEW n, n.written = s.written, n.followed = s.followed, n.local = s.local
  PROVE  Composed(n) = Composed(s)
<1>1. Documents(n) = Documents(s) BY Zenon DEF Documents
<1> QED BY <1>1 DEF Composed

\* The registry is asked for every head.
LEMMA CurrentIs ==
  ASSUME Listings(hs.followed), NEW b
  PROVE  Listings(CurrentFollowed(b)) /\ Rooted(CurrentFollowed(b))
<1> SUFFICES ASSUME NEW h \in Kinds, NEW S, S = CurrentFollowed(b)[h]
             PROVE  /\ \A x \in S : x = [root |-> x.root, doc |-> x.doc]
                    /\ {x.root : x \in S} = IF Serves(h) THEN {adopted[h]} ELSE {}
  BY Zenon DEF Listings, Rooted
<1>1. PICK known : known = {f \in hs.followed[h] : b /\ f.root = adopted[h]} BY Zenon
<1>2. S = IF ~Serves(h) THEN {} ELSE IF known # {} THEN known ELSE {[root |-> adopted[h], doc |-> None]}
  BY Zenon, <1>1 DEF CurrentFollowed
<1>3. \A x \in known : x.root = adopted[h] /\ x = [root |-> x.root, doc |-> x.doc] BY Zenon, <1>1 DEF Listings
<1>4. CASE ~Serves(h) BY Zenon, <1>2, <1>4
<1>5. CASE Serves(h) /\ known # {} BY Zenon, <1>2, <1>3, <1>5
<1>6. CASE Serves(h) /\ known = {} BY <1>2, <1>6
<1> QED BY Zenon, <1>4, <1>5, <1>6

\* A document attaches to heads and moves none.
LEMMA ProvedIs ==
  ASSUME NEW f, NEW d, Listings(f), Rooted(f)
  PROVE  Listings(Proved(f, d)) /\ Rooted(Proved(f, d))
<1> SUFFICES ASSUME NEW h \in Kinds, NEW S, S = Proved(f, d)[h]
             PROVE  /\ \A x \in S : x = [root |-> x.root, doc |-> x.doc]
                    /\ {x.root : x \in S} = {x.root : x \in f[h]}
  BY Zenon DEF Listings, Rooted
<1> DEFINE With(x) == [x EXCEPT !.doc = IF Covered(d, h) /\ Line(d, h) = x.root THEN d ELSE @]
<1>1. S = {With(x) : x \in f[h]} BY Zenon DEF Proved
<1>2. ASSUME NEW x \in f[h] PROVE With(x).root = x.root /\ With(x) = [root |-> With(x).root, doc |-> With(x).doc]
  <2>1. x = [root |-> x.root, doc |-> x.doc] BY Zenon DEF Listings
  <2>2. PICK e : e = IF Covered(d, h) /\ Line(d, h) = x.root THEN d ELSE x.doc BY Zenon
  <2>3. With(x) = [root |-> x.root, doc |-> e] BY <2>1, <2>2
  <2> QED BY Zenon, <2>3
<1> HIDE DEF With
<1> QED BY <1>1, <1>2

LEMMA NextIs ==
  ASSUME Listings(hs.followed), NEW t, t.op \in Reports
  PROVE  Listings(NextFollowed(t)) /\ Rooted(NextFollowed(t))
<1>1. CASE t.op = "admit"
  <2>1. NextFollowed(t) = Proved(CurrentFollowed(TRUE), t.doc) BY Zenon, <1>1 DEF NextFollowed
  <2> QED BY Zenon, <2>1, CurrentIs, ProvedIs
<1>2. CASE t.op = "refresh"
  <2>1. NextFollowed(t) = CurrentFollowed(TRUE) BY Zenon, <1>2 DEF NextFollowed
  <2> QED BY Zenon, <2>1, CurrentIs
<1>3. CASE t.op = "restore"
  <2>1. NextFollowed(t) = CurrentFollowed(FALSE) BY Zenon, <1>3 DEF NextFollowed
  <2> QED BY Zenon, <2>1, CurrentIs
<1> QED BY Zenon, <1>1, <1>2, <1>3 DEF Reports

\* Steps that concern neither the owner nor the registry.
LEMMA HintsQuiet ==
  ASSUME HintInv, UNCHANGED <<site, hs, told, want, up, adopted, quar, adrift>>
  PROVE  HintInv'
<1>1. \A f : Rooted(f) => Rooted(f)' BY Zenon DEF Rooted, Serves, Renders
<1>2. \A o : Rendering(o)' = Rendering(o) BY Zenon DEF Rendering
<1>3. Reaching(hs, told) => Reaching(hs, told)' BY Zenon, <1>1, <1>2 DEF Reaching, Rendered
<1>4. Owning(hs, told) => Owning(hs, told)'
  BY Zenon, <1>3 DEF Owning, IsOwner, OthersPart
<1> QED BY Zenon, <1>4 DEF HintInv, Scheduled

\* The owner of a process that is not serving.
LEMMA NewOwnerIs ==
  ASSUME NEW o
  PROVE  /\ NewOwner(o).own = o /\ NewOwner(o).written = 0 /\ NewOwner(o).followed = NoFollowed /\ NewOwner(o).local = {}
         /\ NewOwner(o).pend = {} /\ NewOwner(o).op = IdleReplace /\ NewOwner(o).ok = TRUE
         /\ IsOwner(NewOwner(o)) /\ Composed(NewOwner(o)) = {} /\ IdleReplace.pc = "idle"
<1>1. PICK s : s = NewOwner(o) BY Zenon
<1>2. /\ s.own = o /\ s.written = 0 /\ s.followed = NoFollowed /\ s.local = {} /\ s.pend = {} /\ s.op = IdleReplace /\ s.ok = TRUE
      /\ s = [own |-> s.own, written |-> s.written, followed |-> s.followed, local |-> s.local, pend |-> s.pend,
              op |-> s.op, ok |-> s.ok]
  BY Zenon, <1>1 DEF NewOwner
<1>3. Listings(NoFollowed) BY Zenon DEF Listings, NoFollowed
<1>4. NoneOwned.written = 0 /\ NoneOwned.followed = NoFollowed /\ NoneOwned.local = {} BY Zenon DEF NoneOwned
<1>5. Parts(NoneOwned) BY Zenon, <1>3, <1>4 DEF Parts, NoneOwned
<1>6. IdleReplace.who = "none" /\ IdleReplace.next = NoneOwned /\ IdleReplace.pc = "idle" BY Zenon DEF IdleReplace
<1>7. IsReplace(IdleReplace) BY Zenon, <1>5, <1>6 DEF IsReplace, IdleReplace
<1>e. \A h \in Kinds : s.followed[h] = {} BY Zenon, <1>2 DEF NoFollowed
<1>8. Documents(s) = {}
  <2>1. (UNION {{f.doc : f \in s.followed[h]} : h \in Kinds}) = {} BY <1>e
  <2> QED BY Zenon, <1>2, <2>1 DEF Documents
<1>9. Composed(s) = {}
  <2>2. (UNION {{<<"root", h, f.root>> : f \in s.followed[h]} : h \in Kinds}) = {} BY <1>e
  <2>3. {<<"root", "own", s.written>> : x \in {s.written} \ {0}} = {} BY Zenon, <1>2
  <2>4. {<<"doc", d>> : d \in Documents(s)} = {} BY Zenon, <1>8
  <2> QED BY Zenon, <2>2, <2>3, <2>4 DEF Composed
<1> QED BY Zenon, <1>1, <1>2, <1>3, <1>6, <1>7, <1>9 DEF IsOwner

LEMMA HintsBegin == ASSUME OwnerInit, HintInit, up = "down" PROVE HintInv
<1>1. hs = NewOwner(0) /\ told = {} /\ want = {} BY Zenon DEF OwnerInit, HintInit
<1>2. Owning(hs, told) BY Zenon, <1>1, NewOwnerIs DEF Owning, OthersPart
<1>3. Scheduled(hs) BY Zenon, <1>1, NewOwnerIs DEF Scheduled
<1> QED BY Zenon, <1>2, <1>3 DEF HintInv

\* What is pending is replaced.
LEMMA NotifiedIs ==
  ASSUME NEW s, NEW d, IsOwner(s)
  PROVE  /\ NotifyLocal(s, d).pend = {d} /\ IsOwner(NotifyLocal(s, d))
         /\ NotifyLocal(s, d).own = s.own /\ NotifyLocal(s, d).written = s.written /\ NotifyLocal(s, d).followed = s.followed
         /\ NotifyLocal(s, d).local = s.local /\ NotifyLocal(s, d).op = s.op /\ NotifyLocal(s, d).ok = s.ok
<1>1. PICK r : r = NotifyLocal(s, d) BY Zenon
<1>2. /\ r.own = s.own /\ r.written = s.written /\ r.followed = s.followed /\ r.local = s.local /\ r.op = s.op /\ r.ok = s.ok
      /\ r.pend = {d}
      /\ r = [own |-> r.own, written |-> r.written, followed |-> r.followed, local |-> r.local, pend |-> r.pend,
              op |-> r.op, ok |-> r.ok]
  BY Zenon, <1>1 DEF NotifyLocal, IsOwner
<1> QED BY Zenon, <1>1, <1>2 DEF IsOwner

\* A change of the registry is pending for the one part and reported for the other.
LEMMA HintsReport ==
  ASSUME HintInv, up = "on", UNCHANGED <<site, up, want>>, Reported, told # {} => UNCHANGED <<adopted, quar, adrift>>,
         adopted' # adopted => Adopts
  PROVE  HintInv'
<1> SUFFICES ASSUME site.hints PROVE Owning(hs, told)' /\ Scheduled(hs)' BY Zenon DEF HintInv
<1>1. Owning(hs, told) /\ Scheduled(hs) /\ IsOwner(hs) BY Zenon DEF HintInv, Owning
<1>2. PICK s : s = hs' BY Zenon
<1>3. PICK t : t = told' BY Zenon
<1>0. s = IF UNCHANGED <<adopted, quar, adrift>> THEN hs ELSE NotifyLocal(hs, LocalDoc(hs.own, adopted', quar', adrift'))
  BY Zenon, <1>2 DEF Reported
<1>o. PICK o : o = hs.own BY Zenon
<1>4. /\ s.own = o /\ s.written = hs.written /\ s.followed = hs.followed /\ s.local = hs.local /\ s.op = hs.op /\ s.ok = hs.ok
      /\ IsOwner(s)
  <2>1. CASE s = hs BY Zenon, <1>o, <1>1, <2>1
  <2>2. CASE s = NotifyLocal(hs, LocalDoc(hs.own, adopted', quar', adrift')) BY Zenon, <1>o, <1>1, <2>2, NotifiedIs
  <2> QED BY Zenon, <1>0, <2>1, <2>2
<1>5. \/ UNCHANGED <<adopted, quar, adrift>> /\ s = hs
      \/ told = {} /\ s.pend = {Rendering(o)'}
  <2>1. CASE UNCHANGED <<adopted, quar, adrift>> BY Zenon, <1>0, <2>1
  <2>2. CASE ~UNCHANGED <<adopted, quar, adrift>>
    <3>1. s = NotifyLocal(hs, LocalDoc(hs.own, adopted', quar', adrift')) BY Zenon, <1>0, <2>2
    <3>2. s.pend = {LocalDoc(o, adopted', quar', adrift')} BY Zenon, <1>o, <1>1, <3>1, NotifiedIs
    <3>3. told = {} BY Zenon, <2>2
    <3> QED BY Zenon, <3>2, <3>3 DEF Rendering
  <2> QED BY Zenon, <2>1, <2>2
<1>6. /\ t = told \/ t # {}
      /\ \A x \in t : x.op \in Reports
      /\ ~UNCHANGED <<adopted, quar, adrift>> => t # {}
  <2>1. t = IF Adopts THEN {[op |-> "admit", doc |-> AdoptedDoc]}
            ELSE IF quar' # quar THEN {[op |-> "refresh", doc |-> None]} ELSE told
    BY Zenon, <1>3 DEF Reported
  <2>2. \A x \in told : x.op \in Reports BY Zenon, <1>1 DEF Owning
  <2>3. PICK d : d = AdoptedDoc BY Zenon
  <2>4. t \in {told, {[op |-> "admit", doc |-> d]}, {[op |-> "refresh", doc |-> None]}} BY Zenon, <2>1, <2>3
  <2>a. adrift' # adrift => Adopts BY Zenon DEF Reported
  <2>5. ~UNCHANGED <<adopted, quar, adrift>> => t # {} BY Zenon, <2>1, <2>a
  <2>6. [op |-> "admit", doc |-> d].op \in Reports /\ [op |-> "refresh", doc |-> None].op \in Reports BY Zenon DEF Reports
  <2> QED BY Zenon, <2>2, <2>4, <2>5, <2>6
<1>7. OthersPart(s, t)
  BY Zenon, <1>1, <1>4, <1>6 DEF Owning, OthersPart
<1>8. ASSUME s.ok PROVE Reaching(s, t)'
  <2>1. Reaching(hs, told) BY Zenon, <1>1, <1>4, <1>8 DEF Owning
  <2>2. CASE UNCHANGED <<adopted, quar, adrift>> /\ s = hs
    <3>1. \A f : Rooted(f) => Rooted(f)' BY Zenon, <2>2 DEF Rooted, Serves, Renders
    <3>2. \A w : Rendering(w)' = Rendering(w) BY Zenon, <2>2 DEF Rendering
    <3> QED BY Zenon, <1>6, <2>1, <2>2, <3>1, <3>2 DEF Reaching, Rendered
  <2>3. CASE ~UNCHANGED <<adopted, quar, adrift>> /\ told = {} /\ s.pend = {Rendering(o)'}
    <3>1. t # {} BY Zenon, <1>6, <2>3
    <3>2. ~(s.op.pc # "idle" /\ s.op.who = "follower") BY Zenon, <1>1, <1>4, <2>3 DEF Owning, OthersPart
    <3>3. s.pend = {Rendering(s.own)'} BY Zenon, <1>4, <2>3
    <3> QED BY Zenon, <3>1, <3>2, <3>3 DEF Reaching
  <2>4. CASE UNCHANGED <<adopted, quar, adrift>> /\ s # hs BY Zenon, <1>0, <2>4
  <2> QED BY Zenon, <1>5, <2>2, <2>3, <2>4
<1>9. Owning(s, t)' BY Zenon, <1>4, <1>6, <1>7, <1>8 DEF Owning
<1>10. Scheduled(s)'
  <2>1. (IF s.op.pc = "settle" THEN s.op.next ELSE s) = (IF hs.op.pc = "settle" THEN hs.op.next ELSE s) BY Zenon, <1>4
  <2>2. Composed(s) = Composed(hs) BY Zenon, <1>4, ComposedOf
  <2> QED BY Zenon, <1>1, <2>1, <2>2 DEF Scheduled
<1> QED BY Zenon, <1>2, <1>3, <1>9, <1>10

-----------------------------------------------------------------------------
\* The owner's steps leave the registry alone.
LEMMA HintsMove ==
  ASSUME UNCHANGED <<site, up, adopted, quar, adrift>>, NEW s, NEW t, s = hs', t = told',
         Owning(s, t), want' = Composed(IF s.op.pc = "settle" THEN s.op.next ELSE s)
  PROVE  HintInv'
<1>1. \A f : Rooted(f) => Rooted(f)' BY Zenon DEF Rooted, Serves, Renders
<1>2. \A o : Rendering(o)' = Rendering(o) BY Zenon DEF Rendering
<1>3. Reaching(s, t) => Reaching(s, t)' BY Zenon, <1>1, <1>2 DEF Reaching, Rendered
<1>4. Owning(s, t)' BY Zenon, <1>3 DEF Owning
<1>5. Scheduled(s)' BY Zenon DEF Scheduled
<1> QED BY Zenon, <1>4, <1>5 DEF HintInv

\* A write to the node's own head is pending for it.
LEMMA HintsOwnMoves ==
  ASSUME HintInv, site.hints, OwnMoves, UNCHANGED <<site, up, adopted, quar, adrift>>
  PROVE  HintInv'
<1>1. Owning(hs, told) /\ Scheduled(hs) /\ IsOwner(hs) BY Zenon DEF HintInv, Owning
<1>2. PICK s : s = hs' BY Zenon
<1>3. PICK o : o = hs.own + 1 BY Zenon
<1>4. PICK m : m = [hs EXCEPT !.own = o] BY Zenon
<1>5. /\ m.own = o /\ m.written = hs.written /\ m.followed = hs.followed /\ m.local = hs.local /\ m.pend = hs.pend
      /\ m.op = hs.op /\ m.ok = hs.ok
      /\ m = [own |-> m.own, written |-> m.written, followed |-> m.followed, local |-> m.local, pend |-> m.pend,
              op |-> m.op, ok |-> m.ok]
  BY Zenon, <1>1, <1>4 DEF IsOwner
<1>6. IsOwner(m) BY Zenon, <1>1, <1>5 DEF IsOwner
<1>7. s = NotifyLocal(m, Rendering(o)) /\ up = "on" /\ UNCHANGED <<told, want>>
  BY Zenon, <1>2, <1>3, <1>4 DEF OwnMoves, Rendering, hintVars
<1>8. /\ s.own = o /\ s.written = hs.written /\ s.followed = hs.followed /\ s.local = hs.local /\ s.op = hs.op /\ s.ok = hs.ok
      /\ s.pend = {Rendering(o)} /\ IsOwner(s)
  <2>1. PICK d : d = Rendering(o) BY Zenon
  <2>2. PICK k : k = NotifyLocal(m, d) BY Zenon
  <2>3. /\ k.own = m.own /\ k.written = m.written /\ k.followed = m.followed /\ k.local = m.local /\ k.op = m.op
        /\ k.ok = m.ok /\ k.pend = {d} /\ IsOwner(k)
    BY Zenon, <1>6, <2>2, NotifiedIs
  <2>4. s = k BY Zenon, <1>7, <2>1, <2>2
  <2> QED BY Zenon, <1>5, <2>1, <2>3, <2>4
<1>9. OthersPart(s, told) BY Zenon, <1>1, <1>8 DEF Owning, OthersPart
<1>10. s.ok => Reaching(s, told) BY Zenon, <1>1, <1>7, <1>8 DEF Owning, Reaching
<1>11. Owning(s, told) BY Zenon, <1>1, <1>7, <1>8, <1>9, <1>10 DEF Owning
<1>12. want = Composed(IF s.op.pc = "settle" THEN s.op.next ELSE s)
  <2>1. Composed(s) = Composed(hs) BY Zenon, <1>8, ComposedOf
  <2> QED BY Zenon, <1>1, <1>8, <2>1 DEF Scheduled
<1> QED BY Zenon, <1>2, <1>7, <1>11, <1>12, HintsMove

\* The lock is taken with the other's part as it is then.
LEMMA OwnedIs ==
  ASSUME IsOwner(hs)
  PROVE  /\ Owned(hs).written = hs.written /\ Owned(hs).followed = hs.followed /\ Owned(hs).local = hs.local
         /\ Owned(hs) = [written |-> Owned(hs).written, followed |-> Owned(hs).followed, local |-> Owned(hs).local]
BY Zenon DEF Owned

LEMMA HintsLocalTakes ==
  ASSUME HintInv, site.hints, LocalTakes, UNCHANGED <<site, up, adopted, quar, adrift>>
  PROVE  HintInv'
<1>1. Owning(hs, told) /\ Scheduled(hs) /\ IsOwner(hs) BY Zenon DEF HintInv, Owning
<1>2. PICK s : s = hs' BY Zenon
<1>3. PICK d \in hs.pend : Takes("local", {}, [Owned(hs) EXCEPT !.written = d.own, !.local = {d}]) BY Zenon DEF LocalTakes
<1>4. PICK n : n = [Owned(hs) EXCEPT !.written = d.own, !.local = {d}] BY Zenon
<1>5. /\ n.written = d.own /\ n.followed = hs.followed /\ n.local = {d}
      /\ n = [written |-> n.written, followed |-> n.followed, local |-> n.local]
  BY Zenon, <1>1, <1>4, OwnedIs
<1>6. Parts(n) BY Zenon, <1>1, <1>5 DEF Parts, IsOwner
<1>7. /\ s.own = hs.own /\ s.written = hs.written /\ s.followed = hs.followed /\ s.local = hs.local /\ s.ok = hs.ok
      /\ s.pend = {} /\ s.op.who = "local" /\ s.op.next = n /\ s.op.pc = "stage" /\ hs.op.pc = "idle" /\ IsOwner(s)
  <2>1. PICK op : op = [who |-> "local", next |-> n, pc |-> "stage"] BY Zenon
  <2>2. op.who = "local" /\ op.next = n /\ op.pc = "stage" BY Zenon, <2>1
  <2>3. IsReplace(op) BY Zenon, <1>6, <2>1, <2>2 DEF IsReplace
  <2>4. hs.op.pc = "idle" /\ s = [hs EXCEPT !.pend = {}, !.op = op] BY Zenon, <1>2, <1>3, <1>4, <2>1 DEF Takes
  <2>5. /\ s.own = hs.own /\ s.written = hs.written /\ s.followed = hs.followed /\ s.local = hs.local /\ s.ok = hs.ok
        /\ s.pend = {} /\ s.op = op
        /\ s = [own |-> s.own, written |-> s.written, followed |-> s.followed, local |-> s.local, pend |-> s.pend,
                op |-> s.op, ok |-> s.ok]
    BY Zenon, <1>1, <2>4 DEF IsOwner
  <2> QED BY Zenon, <1>1, <2>2, <2>3, <2>4, <2>5 DEF IsOwner
<1>8. OthersPart(s, told) BY Zenon, <1>5, <1>7 DEF OthersPart
<1>9. up = "on"
  <2>1. hs.pend # {} BY Zenon, <1>3
  <2> QED BY Zenon, <1>1, <2>1, NewOwnerIs DEF Owning
<1>10. ASSUME s.ok PROVE Reaching(s, told)
  <2>1. Reaching(hs, told) BY Zenon, <1>1, <1>7, <1>9, <1>10 DEF Owning
  <2>2. d = Rendering(hs.own) BY Zenon, <2>1, <1>3 DEF Reaching
  <2>3. d.own = hs.own BY Zenon, <2>2 DEF Rendering, LocalDoc
  <2>4. Rendered(n, s.own) BY Zenon, <1>5, <1>7, <2>2, <2>3 DEF Rendered
  <2>5. s.op.who # "follower" /\ s.op.pc # "idle" BY Zenon, <1>7
  <2> QED BY Zenon, <1>7, <2>1, <2>4, <2>5 DEF Reaching
<1>11. Owning(s, told) BY Zenon, <1>1, <1>7, <1>8, <1>9, <1>10 DEF Owning
<1>12. want = Composed(IF s.op.pc = "settle" THEN s.op.next ELSE s)
  <2>1. Composed(s) = Composed(hs) BY Zenon, <1>7, ComposedOf
  <2>2. s.op.pc # "settle" /\ hs.op.pc # "settle" BY Zenon, <1>7
  <2> QED BY Zenon, <1>1, <2>1, <2>2 DEF Scheduled
<1>13. UNCHANGED <<told, want>> BY Zenon DEF LocalTakes, hintVars
<1> QED BY Zenon, <1>2, <1>11, <1>12, <1>13, HintsMove

LEMMA HintsFollowerTakes ==
  ASSUME HintInv, site.hints, FollowerTakes, UNCHANGED <<site, up, adopted, quar, adrift>>
  PROVE  HintInv'
<1>1. Owning(hs, told) /\ Scheduled(hs) /\ IsOwner(hs) BY Zenon DEF HintInv, Owning
<1>2. PICK s : s = hs' BY Zenon
<1>3. PICK t \in told : Takes("follower", hs.pend, [Owned(hs) EXCEPT !.followed = NextFollowed(t)])
  BY Zenon DEF FollowerTakes
<1>4. PICK n : n = [Owned(hs) EXCEPT !.followed = NextFollowed(t)] BY Zenon
<1>5. /\ n.written = hs.written /\ n.followed = NextFollowed(t) /\ n.local = hs.local
      /\ n = [written |-> n.written, followed |-> n.followed, local |-> n.local]
  BY Zenon, <1>1, <1>4, OwnedIs
<1>6. Listings(n.followed) /\ Rooted(n.followed)
  <2>1. t.op \in Reports /\ Listings(hs.followed) BY Zenon, <1>1 DEF Owning, IsOwner
  <2>2. Listings(NextFollowed(t)) /\ Rooted(NextFollowed(t)) BY Zenon, <2>1, NextIs
  <2> QED BY Zenon, <1>5, <2>2
<1>7. Parts(n) BY Zenon, <1>5, <1>6 DEF Parts
<1>8. /\ s.own = hs.own /\ s.written = hs.written /\ s.followed = hs.followed /\ s.local = hs.local /\ s.ok = hs.ok
      /\ s.pend = hs.pend /\ s.op.who = "follower" /\ s.op.next = n /\ s.op.pc = "stage" /\ hs.op.pc = "idle" /\ IsOwner(s)
  <2>1. PICK op : op = [who |-> "follower", next |-> n, pc |-> "stage"] BY Zenon
  <2>2. op.who = "follower" /\ op.next = n /\ op.pc = "stage" BY Zenon, <2>1
  <2>3. IsReplace(op) BY Zenon, <1>7, <2>1, <2>2 DEF IsReplace
  <2>4. hs.op.pc = "idle" /\ s = [hs EXCEPT !.pend = hs.pend, !.op = op] BY Zenon, <1>2, <1>3, <1>4, <2>1 DEF Takes
  <2>5. /\ s.own = hs.own /\ s.written = hs.written /\ s.followed = hs.followed /\ s.local = hs.local /\ s.ok = hs.ok
        /\ s.pend = hs.pend /\ s.op = op
        /\ s = [own |-> s.own, written |-> s.written, followed |-> s.followed, local |-> s.local, pend |-> s.pend,
                op |-> s.op, ok |-> s.ok]
    BY Zenon, <1>1, <2>4 DEF IsOwner
  <2> QED BY Zenon, <1>1, <2>2, <2>3, <2>4, <2>5 DEF IsOwner
<1>9. told # {} /\ s.op.who # "local" /\ s.op.pc # "settle" /\ hs.op.pc # "settle" BY Zenon, <1>3, <1>8
<1>10. OthersPart(s, told) BY Zenon, <1>5, <1>8, <1>9 DEF OthersPart
<1>11. up = "on" BY Zenon, <1>1, <1>9 DEF Owning
<1>12. ASSUME s.ok PROVE Reaching(s, told)
  <2>1. Reaching(hs, told) BY Zenon, <1>1, <1>8, <1>11, <1>12 DEF Owning
  <2> QED BY Zenon, <1>6, <1>8, <1>9, <2>1 DEF Reaching, Rendered
<1>13. Owning(s, told) BY Zenon, <1>1, <1>8, <1>10, <1>11, <1>12 DEF Owning
<1>14. want = Composed(IF s.op.pc = "settle" THEN s.op.next ELSE s)
  <2>1. Composed(s) = Composed(hs) BY Zenon, <1>8, ComposedOf
  <2> QED BY Zenon, <1>1, <1>9, <2>1 DEF Scheduled
<1>15. UNCHANGED <<told, want>> BY Zenon DEF FollowerTakes, hintVars
<1> QED BY Zenon, <1>2, <1>13, <1>14, <1>15, HintsMove

\* Only a process that serves has something to replace.
LEMMA OwnerIsOn ==
  ASSUME Owning(hs, told), hs.op.pc # "idle"
  PROVE  up = "on"
<1> SUFFICES ASSUME up # "on" PROVE FALSE BY Zenon
<1>1. PICK o : o = hs.own BY Zenon
<1>2. hs = NewOwner(o) BY Zenon, <1>1 DEF Owning
<1>3. NewOwner(o).op.pc = "idle" BY Zenon, NewOwnerIs
<1> QED BY Zenon, <1>2, <1>3

\* A replacement goes on to its next step.
LEMMA OwningGoes ==
  ASSUME Owning(hs, told), hs.op.pc # "idle", NEW v \in {"swap", "settle", "undo"}, NEW s, s = [hs EXCEPT !.op.pc = v]
  PROVE  /\ Owning(s, told) /\ s.op.pc = v /\ s.op.next = hs.op.next
         /\ s.written = hs.written /\ s.followed = hs.followed /\ s.local = hs.local
<1>1. IsOwner(hs) BY Zenon DEF Owning
<1>2. PICK op : op = [hs.op EXCEPT !.pc = v] BY Zenon
<1>3. PICK o : o = hs.op BY Zenon
<1>4. /\ op.who = o.who /\ op.next = o.next /\ op.pc = v
      /\ op = [who |-> op.who, next |-> op.next, pc |-> op.pc]
  BY Zenon, <1>1, <1>2, <1>3 DEF IsOwner, IsReplace
<1>5. v \in {"idle", "stage", "swap", "settle", "undo"} /\ v # "idle" BY Zenon
<1>6. IsReplace(op) BY Zenon, <1>1, <1>3, <1>4, <1>5 DEF IsOwner, IsReplace
<1>7. /\ s.own = hs.own /\ s.written = hs.written /\ s.followed = hs.followed /\ s.local = hs.local /\ s.ok = hs.ok
      /\ s.pend = hs.pend /\ s.op = op
      /\ s = [own |-> s.own, written |-> s.written, followed |-> s.followed, local |-> s.local, pend |-> s.pend,
              op |-> s.op, ok |-> s.ok]
  BY Zenon, <1>1, <1>2 DEF IsOwner
<1>8. IsOwner(s) BY Zenon, <1>1, <1>6, <1>7 DEF IsOwner
<1>9. up = "on" BY Zenon, OwnerIsOn
<1>w. s.op.who = hs.op.who /\ s.op.next = hs.op.next /\ s.op.pc = v BY Zenon, <1>3, <1>4, <1>7
<1>10. OthersPart(s, told)
  <2>1. OthersPart(hs, told) BY Zenon DEF Owning
  <2> QED BY Zenon, <1>7, <1>w, <2>1 DEF OthersPart
<1>11. ASSUME s.ok PROVE Reaching(s, told)
  <2>1. Reaching(hs, told) BY Zenon, <1>7, <1>9, <1>11 DEF Owning
  <2>2. ASSUME s.pend # {Rendering(s.own)}
        PROVE  s.pend = {} /\ Rendered(IF s.op.pc # "idle" /\ s.op.who = "local" THEN s.op.next ELSE s, s.own)
    <3>1. hs.pend = {} /\ Rendered(IF hs.op.who = "local" THEN hs.op.next ELSE hs, hs.own)
      BY Zenon, <1>7, <2>1, <2>2 DEF Reaching
    <3>2. CASE hs.op.who = "local" BY Zenon, <1>5, <1>7, <1>w, <3>1, <3>2
    <3>3. CASE hs.op.who # "local" BY Zenon, <1>5, <1>7, <1>w, <3>1, <3>3 DEF Rendered
    <3> QED BY Zenon, <3>2, <3>3
  <2>3. (told = {} => Rooted(s.followed)) /\ (s.op.who = "follower" => Rooted(s.op.next.followed))
    BY Zenon, <1>7, <1>w, <2>1 DEF Reaching
  <2> QED BY Zenon, <2>2, <2>3 DEF Reaching
<1>12. Owning(s, told) BY Zenon, <1>8, <1>9, <1>10, <1>11 DEF Owning
<1> QED BY Zenon, <1>3, <1>4, <1>7, <1>12

LEMMA HintsStage ==
  ASSUME HintInv, site.hints, StageOwned, UNCHANGED <<site, up, adopted, quar, adrift>>
  PROVE  HintInv'
<1>1. Owning(hs, told) /\ Scheduled(hs) BY Zenon DEF HintInv
<1>2. PICK s : s = hs' BY Zenon
<1>3. s = [hs EXCEPT !.op.pc = "swap"] /\ hs.op.pc = "stage" /\ UNCHANGED <<told, want>>
  BY Zenon, <1>2 DEF StageOwned, OpAt
<1>4. "swap" \in {"swap", "settle", "undo"} /\ hs.op.pc # "idle" /\ hs.op.pc # "settle" BY Zenon, <1>3
<1>5. /\ Owning(s, told) /\ s.op.pc = "swap" /\ s.written = hs.written /\ s.followed = hs.followed /\ s.local = hs.local
  BY Zenon, <1>1, <1>3, <1>4, OwningGoes
<1>6. s.op.pc # "settle" BY Zenon, <1>5
<1>7. want = Composed(IF s.op.pc = "settle" THEN s.op.next ELSE s)
  <2>1. Composed(s) = Composed(hs) BY Zenon, <1>5, ComposedOf
  <2> QED BY Zenon, <1>1, <1>4, <1>6, <2>1 DEF Scheduled
<1> QED BY Zenon, <1>2, <1>3, <1>5, <1>7, HintsMove

LEMMA HintsSwap ==
  ASSUME HintInv, site.hints, SwapOwned, UNCHANGED <<site, up, adopted, quar, adrift>>
  PROVE  HintInv'
<1>1. Owning(hs, told) /\ Scheduled(hs) BY Zenon DEF HintInv
<1>2. PICK s : s = hs' BY Zenon
<1>3. hs.op.pc = "swap" /\ UNCHANGED told BY Zenon DEF SwapOwned, OpAt
<1>4. /\ hs.op.pc # "idle" /\ hs.op.pc # "settle" /\ "settle" \in {"swap", "settle", "undo"}
      /\ "undo" \in {"swap", "settle", "undo"} /\ "undo" # "settle"
  BY Zenon, <1>3
<1>5. CASE s = [hs EXCEPT !.op.pc = "settle"] /\ want' = Composed(hs.op.next)
  <2>1. Owning(s, told) /\ s.op.pc = "settle" /\ s.op.next = hs.op.next BY Zenon, <1>1, <1>4, <1>5, OwningGoes
  <2> QED BY Zenon, <1>2, <1>3, <1>5, <2>1, HintsMove
<1>6. CASE s = [hs EXCEPT !.op.pc = "undo"] /\ UNCHANGED want
  <2>1. Owning(s, told) /\ s.op.pc = "undo" /\ s.written = hs.written /\ s.followed = hs.followed /\ s.local = hs.local
    BY Zenon, <1>1, <1>4, <1>6, OwningGoes
  <2>2. Composed(s) = Composed(hs) BY Zenon, <2>1, ComposedOf
  <2>3. want' = Composed(IF s.op.pc = "settle" THEN s.op.next ELSE s)
    BY Zenon, <1>1, <1>4, <1>6, <2>1, <2>2 DEF Scheduled
  <2> QED BY Zenon, <1>2, <1>3, <2>1, <2>3, HintsMove
<1> QED BY Zenon, <1>2, <1>5, <1>6 DEF SwapOwned, Swap

\* The replacement ends: as installed, or as it was before.
LEMMA HintsSettle ==
  ASSUME HintInv, site.hints, SettleOwned, UNCHANGED <<site, up, adopted, quar, adrift>>
  PROVE  HintInv'
<1>1. Owning(hs, told) /\ Scheduled(hs) /\ IsOwner(hs) BY Zenon DEF HintInv, Owning
<1>2. PICK s : s = hs' BY Zenon
<1>3. PICK t : t = told' BY Zenon
<1>4. PICK n : n = hs.op.next BY Zenon
<1>5. t = (IF hs.op.who = "follower" THEN {} ELSE told) /\ UNCHANGED want BY Zenon, <1>3 DEF SettleOwned
<1>6. IdleReplace.pc = "idle" /\ IsReplace(IdleReplace) BY Zenon, NewOwnerIs DEF IsOwner
<1>7. IdleReplace.pc # "settle" BY Zenon, <1>6
<1>8. CASE /\ hs.op.pc = "settle"
           /\ s = OpEnds([hs EXCEPT !.written = n.written, !.followed = n.followed, !.local = n.local])
  <2>1. /\ s.own = hs.own /\ s.written = n.written /\ s.followed = n.followed /\ s.local = n.local /\ s.ok = hs.ok
        /\ s.pend = hs.pend /\ s.op = IdleReplace
        /\ s = [own |-> s.own, written |-> s.written, followed |-> s.followed, local |-> s.local, pend |-> s.pend,
                op |-> s.op, ok |-> s.ok]
    BY Zenon, <1>1, <1>8 DEF IsOwner, OpEnds
  <2>2. Listings(n.followed) BY Zenon, <1>1, <1>4 DEF IsOwner, IsReplace, Parts
  <2>3. IsOwner(s) BY Zenon, <1>6, <2>1, <2>2 DEF IsOwner
  <2>4. hs.op.pc # "idle" /\ "local" # "follower" BY Zenon, <1>8
  <2>5. up = "on" BY Zenon, <1>1, <2>4, OwnerIsOn
  <2>6. OthersPart(s, t) BY Zenon, <1>6, <2>1 DEF OthersPart
  <2>7. OthersPart(hs, told) BY Zenon, <1>1 DEF Owning
  <2>8. ASSUME s.ok PROVE Reaching(s, t)
    <3>1. Reaching(hs, told) BY Zenon, <1>1, <2>1, <2>5, <2>8 DEF Owning
    <3>2. CASE hs.op.who = "follower"
      <4>1. n.written = hs.written /\ n.local = hs.local /\ Rooted(n.followed) /\ hs.op.who # "local"
        BY Zenon, <1>4, <2>4, <2>7, <3>1, <3>2 DEF OthersPart, Reaching
      <4> QED BY Zenon, <1>6, <2>1, <3>1, <4>1 DEF Reaching, Rendered
    <3>3. CASE hs.op.who # "follower"
      <4>1. hs.op.who = "local" /\ n.followed = hs.followed /\ t = told BY Zenon, <1>4, <1>5, <2>4, <2>7, <3>3 DEF OthersPart
      <4> QED BY Zenon, <1>4, <1>6, <2>1, <2>4, <3>1, <4>1 DEF Reaching, Rendered
    <3> QED BY Zenon, <3>2, <3>3
  <2>9. \A x \in t : x.op \in Reports BY Zenon, <1>1, <1>5 DEF Owning
  <2>10. Owning(s, t) BY Zenon, <2>3, <2>5, <2>6, <2>8, <2>9 DEF Owning
  <2>11. want' = Composed(IF s.op.pc = "settle" THEN s.op.next ELSE s)
    <3>1. Composed(s) = Composed(n) BY Zenon, <2>1, ComposedOf
    <3> QED BY Zenon, <1>1, <1>4, <1>5, <1>7, <1>8, <2>1, <3>1 DEF Scheduled
  <2> QED BY Zenon, <1>2, <1>3, <2>10, <2>11, HintsMove
<1>9. CASE hs.op.pc = "undo" /\ s = OpEnds([hs EXCEPT !.ok = FALSE])
  <2>1. /\ s.own = hs.own /\ s.written = hs.written /\ s.followed = hs.followed /\ s.local = hs.local /\ s.ok = FALSE
        /\ s.pend = hs.pend /\ s.op = IdleReplace
        /\ s = [own |-> s.own, written |-> s.written, followed |-> s.followed, local |-> s.local, pend |-> s.pend,
                op |-> s.op, ok |-> s.ok]
    BY Zenon, <1>1, <1>9 DEF IsOwner, OpEnds
  <2>2. IsOwner(s) BY Zenon, <1>1, <1>6, <2>1 DEF IsOwner
  <2>3. hs.op.pc # "idle" /\ hs.op.pc # "settle" BY Zenon, <1>9
  <2>4. up = "on" BY Zenon, <1>1, <2>3, OwnerIsOn
  <2>5. OthersPart(s, t) BY Zenon, <1>6, <2>1 DEF OthersPart
  <2>6. \A x \in t : x.op \in Reports BY Zenon, <1>1, <1>5 DEF Owning
  <2>7. Owning(s, t) BY Zenon, <2>1, <2>2, <2>4, <2>5, <2>6 DEF Owning
  <2>8. want' = Composed(IF s.op.pc = "settle" THEN s.op.next ELSE s)
    <3>1. Composed(s) = Composed(hs) BY Zenon, <2>1, ComposedOf
    <3> QED BY Zenon, <1>1, <1>5, <1>7, <2>1, <2>3, <3>1 DEF Scheduled
  <2> QED BY Zenon, <1>2, <1>3, <2>7, <2>8, HintsMove
<1> QED BY Zenon, <1>2, <1>4, <1>8, <1>9 DEF SettleOwned, OpAt

\* Whoever holds the lock, the union stays whole.
LEMMA HintsOwner ==
  ASSUME HintInv, site.hints, OwnerStep, UNCHANGED <<site, up, adopted, quar, adrift>>
  PROVE  HintInv'
BY Zenon, HintsOwnMoves, HintsLocalTakes, HintsFollowerTakes, HintsStage, HintsSwap, HintsSettle DEF OwnerStep

\* A process that comes to serve reports everything; one that dies owns nothing.
LEMMA HintsProcess ==
  ASSUME HintInv, UNCHANGED site, Restarted, up' = "down" \/ up # "on"
  PROVE  HintInv'
<1> SUFFICES ASSUME site.hints PROVE Owning(hs, told)' /\ Scheduled(hs)' BY Zenon DEF HintInv
<1>1. Owning(hs, told) /\ Scheduled(hs) BY Zenon DEF HintInv
<1>2. PICK o : o = hs.own BY Zenon
<1>3. PICK s : s = hs' BY Zenon
<1>4. PICK t : t = told' BY Zenon
<1>5. PICK k : k = NewOwner(o) BY Zenon
<1>6. /\ k.own = o /\ k.written = 0 /\ k.followed = NoFollowed /\ k.local = {} /\ k.pend = {} /\ k.op = IdleReplace
      /\ IsOwner(k) /\ Composed(k) = {} /\ IdleReplace.pc = "idle"
  BY Zenon, <1>5, NewOwnerIs
<1>7. IdleReplace.pc # "settle" BY Zenon, <1>6
<1>8. CASE up' = "down"
  <2>1. s = k /\ t = {} /\ want' = {} BY Zenon, <1>2, <1>3, <1>4, <1>5, <1>8 DEF Restarted, HintsLost
  <2>2. s = NewOwner(s.own) BY Zenon, <1>5, <1>6, <2>1
  <2>3. up' # "on" BY Zenon, <1>8
  <2>4. Owning(s, t)' BY Zenon, <1>6, <2>1, <2>2, <2>3 DEF Owning, OthersPart
  <2>5. Scheduled(s)' BY Zenon, <1>6, <1>7, <2>1 DEF Scheduled
  <2> QED BY Zenon, <1>3, <1>4, <2>4, <2>5
<1>9. CASE up' # "down" /\ up # "on"
  <2>1. hs = k /\ told = {} BY Zenon, <1>1, <1>2, <1>5, <1>9 DEF Owning
  <2>2. want' = {} BY Zenon, <1>1, <1>6, <1>7, <1>9, <2>1 DEF Scheduled, Restarted, hintVars
  <2>3. CASE up' # "on"
    <3>1. s = k /\ t = {} BY Zenon, <1>3, <1>4, <1>9, <2>1, <2>3 DEF Restarted
    <3>2. s = NewOwner(s.own) BY Zenon, <1>5, <1>6, <3>1
    <3>3. Owning(s, t)' BY Zenon, <1>6, <2>3, <3>1, <3>2 DEF Owning, OthersPart
    <3>4. Scheduled(s)' BY Zenon, <1>6, <1>7, <2>2, <3>1 DEF Scheduled
    <3> QED BY Zenon, <1>3, <1>4, <3>3, <3>4
  <2>4. CASE up' = "on"
    <3>1. PICK d : d = LocalDoc(o, adopted', quar', adrift') BY Zenon
    <3>2. s = NotifyLocal(k, d) BY Zenon, <1>2, <1>3, <1>9, <2>1, <2>4, <3>1 DEF Restarted
    <3>3. t = {[op |-> "restore", doc |-> None]} BY Zenon, <1>4, <1>9, <2>4 DEF Restarted
    <3>4. /\ s.own = o /\ s.written = k.written /\ s.followed = k.followed /\ s.local = k.local /\ s.op = IdleReplace
          /\ s.pend = {d} /\ IsOwner(s)
      <4>1. /\ s.own = k.own /\ s.written = k.written /\ s.followed = k.followed /\ s.local = k.local /\ s.op = k.op
            /\ s.pend = {d} /\ IsOwner(s)
        BY ZenonT(60), <1>6, <3>2, NotifiedIs
      <4> QED BY Zenon, <1>6, <4>1
    <3>r. [op |-> "restore", doc |-> None].op \in Reports BY Zenon DEF Reports
    <3>5. t # {} /\ \A x \in t : x.op \in Reports BY Zenon, <3>3, <3>r
    <3>6. s.pend = {Rendering(s.own)'} BY Zenon, <3>1, <3>4 DEF Rendering
    <3>7. Reaching(s, t)' BY Zenon, <1>6, <3>4, <3>5, <3>6 DEF Reaching
    <3>8. Owning(s, t)' BY Zenon, <1>6, <2>4, <3>4, <3>5, <3>7 DEF Owning, OthersPart
    <3>9. Composed(s) = {} BY Zenon, <1>6, <3>4, ComposedOf
    <3>10. Scheduled(s)' BY Zenon, <1>7, <2>2, <3>4, <3>9 DEF Scheduled
    <3> QED BY Zenon, <1>3, <1>4, <3>8, <3>10
  <2> QED BY Zenon, <2>3, <2>4
<1> QED BY Zenon, <1>8, <1>9

\* At rest the schedule is the registry's.
LEMMA HintsRest == ASSUME HintInv PROVE HintsMatchRegistry
<1> SUFFICES ASSUME site.hints, up = "on", told = {}, OpAt("idle"), hs.pend = {}, hs.ok
             PROVE  /\ {p \in want : p[1] = "root"} =
                         {<<"root", "own", hs.own>> : x \in {hs.own} \ {0}}
                         \cup {<<"root", h, adopted[h]>> : h \in {h \in Kinds : Renders(h, adopted, quar, adrift)}}
                    /\ <<"doc", LocalDoc(hs.own, adopted, quar, adrift)>> \in want
  BY Zenon DEF HintsMatchRegistry
<1>1. Owning(hs, told) /\ Scheduled(hs) BY Zenon DEF HintInv
<1>2. hs.op.pc = "idle" /\ Reaching(hs, told) BY Zenon, <1>1 DEF OpAt, Owning
<1>3. PICK s : s = hs BY Zenon
<1>4. want = Composed(s)
  <2>1. hs.op.pc # "settle" BY Zenon, <1>2
  <2> QED BY Zenon, <1>1, <1>3, <2>1 DEF Scheduled
<1>5. PICK r : r = LocalDoc(hs.own, adopted, quar, adrift) BY Zenon
<1>6. s.local = {r} /\ s.written = s.own /\ s.own = hs.own /\ Rooted(s.followed)
  <2>1. hs.pend # {Rendering(hs.own)} BY Zenon
  <2> QED BY Zenon, <1>2, <1>3, <1>5, <2>1 DEF Reaching, Rendered, Rendering
<1>7. PICK own, proofs : /\ own = {<<"root", "own", s.written>> : x \in {s.written} \ {0}}
                         /\ proofs = {<<"doc", d>> : d \in Documents(s)}
  BY Zenon
<1>8. PICK roots : roots = UNION {{<<"root", h, f.root>> : f \in s.followed[h]} : h \in Kinds} BY Zenon
<1>9. want = own \cup roots \cup proofs BY Zenon, <1>4, <1>7, <1>8 DEF Composed
<1>10. roots = {<<"root", h, adopted[h]>> : h \in {h \in Kinds : Renders(h, adopted, quar, adrift)}}
  <2>1. \A h \in Kinds : \A f \in s.followed[h] : Serves(h) /\ f.root = adopted[h] BY <1>6 DEF Rooted
  <2>2. \A h \in Kinds : Serves(h) => \E f \in s.followed[h] : f.root = adopted[h] BY Zenon, <1>6 DEF Rooted
  <2>3. {h \in Kinds : Renders(h, adopted, quar, adrift)} = {h \in Kinds : Serves(h)} BY Zenon DEF Serves
  <2> QED BY <1>8, <2>1, <2>2, <2>3
<1>11. \A p \in own \cup roots : p[1] = "root" BY <1>7, <1>8
<1>12. \A p \in proofs : p[1] = "doc" BY <1>7
<1>13. {p \in want : p[1] = "root"} = own \cup roots BY Zenon, <1>9, <1>11, <1>12
<1>14. r \in Documents(s) BY Zenon, <1>6 DEF Documents
<1>15. <<"doc", r>> \in want BY Zenon, <1>7, <1>9, <1>14
<1>16. own = {<<"root", "own", hs.own>> : x \in {hs.own} \ {0}} BY Zenon, <1>6, <1>7
<1> QED BY Zenon, <1>5, <1>10, <1>13, <1>15, <1>16
================================================================================
