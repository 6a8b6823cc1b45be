-------------------------------- MODULE EdgeRelay ------------------------------
(***************************************************************************)
(* The edge relay (p2p/edge, cmd/bloar-edge): a writer without a DHT of    *)
(* its own posts each document with its signed record to a process that    *)
(* provides the document, keeps the record as its durable floor, puts it   *)
(* on the network and only then schedules its pointers.  One transaction   *)
(* runs at a time; the others wait.  A caller that gave up does not take   *)
(* its request back.                                                       *)
(***************************************************************************)
EXTENDS PointerSchedule

VARIABLES
  edge, \* [up, disk, mem, ready, restoring, tx, queue]
  ask,  \* the request the writer waits for, or None
  shown,\* documents the edge has provided
  sent  \* [last, good]: the record last handed to the DHT, and the last one it took

edgeVars == <<edge, ask, shown, sent>>

Stopped == [up |-> FALSE, disk |-> None, mem |-> None, ready |-> FALSE, restoring |-> FALSE, tx |-> None, queue |-> {}]
EdgeInit == edge = Stopped /\ ask = None /\ shown = {} /\ sent = [last |-> None, good |-> None]

\* serve and loadState: the durable publication is restored while requests come in.
EdgeStart ==
  /\ ~edge.up
  /\ edge' = [Stopped EXCEPT !.up = TRUE, !.disk = edge.disk, !.mem = edge.disk, !.restoring = (edge.disk # None)]
  /\ UNCHANGED <<ask, shown, sent, pub, recs, hintVars>>

\* The writer's attempt is over: it will draw another number for the same document.
Failed(a) == pub' = [pub EXCEPT ![a].put = None]
Unasked(r, ok) ==
  IF ask # r THEN UNCHANGED <<pub, ask>>
  ELSE /\ ask' = None
       /\ IF ok THEN pub' = [pub EXCEPT ![r.name].put = None, ![r.name].last = r.doc] ELSE Failed(r.name)

EdgeCrash ==
  /\ edge.up /\ Fault("edge") /\ edge' = [Stopped EXCEPT !.disk = edge.disk] /\ HintsLost
  /\ IF ask = None THEN UNCHANGED <<pub, ask>> ELSE Unasked(ask, FALSE)
  /\ UNCHANGED <<shown, sent, recs>>

-----------------------------------------------------------------------------
\* ClientPolicy.commit

Post(a) ==
  /\ pub[a].put # None /\ ask = None /\ edge.up
  /\ ask' = pub[a].put /\ edge' = [edge EXCEPT !.queue = @ \cup {pub[a].put}]
  /\ UNCHANGED <<shown, sent, pub, recs, hintVars>>

\* The request times out, its connection breaks or the socket refuses it.
GiveUp(a) ==
  /\ pub[a].put # None /\ Fault("socket") /\ ask' = None /\ Failed(a)
  /\ UNCHANGED <<edge, shown, sent, recs, hintVars>>

\* A caller that crashed waits no more.
Abandon == ask' = IF ask # None /\ pub'[ask.name].put # ask THEN None ELSE ask

-----------------------------------------------------------------------------
\* Sink

Tx(op, r) == [pc |-> "check", op |-> op, rec |-> r]
At(pc) == edge.tx # None /\ edge.tx.pc = pc
Goes(e, pc) == [e EXCEPT !.tx.pc = pc]

\* beginTransaction: admitted in any order, or not in time.
Admitted ==
  /\ edge.up /\ edge.tx = None
  /\ \E r \in edge.queue : edge' = [edge EXCEPT !.tx = Tx("apply", r), !.queue = @ \ {r}]
  /\ UNCHANGED <<ask, shown, sent, pub, recs, hintVars>>

NotAdmitted ==
  /\ edge.tx # None /\ \E r \in edge.queue : edge' = [edge EXCEPT !.queue = @ \ {r}] /\ Unasked(r, FALSE)
  /\ Fault("socket") /\ UNCHANGED <<shown, sent, recs, hintVars>>

\* Restore, under the permit: an applied publication has made it obsolete.
Restorable(e) == IF e.ready THEN None ELSE e.mem

Restore ==
  /\ edge.up /\ edge.restoring /\ edge.tx = None
  /\ edge' = IF Restorable(edge) = None THEN [edge EXCEPT !.restoring = FALSE]
             ELSE [edge EXCEPT !.tx = Tx("restore", Restorable(edge))]
  /\ UNCHANGED <<ask, shown, sent, pub, recs, hintVars>>

\* validate: a revisioned document that lists the required head.
Valid(r) == r.seq > 0 /\ r.doc.rev > 0 /\ r.doc.fin # None

\* The durable floor of the number and of the revision.
Above(prior, r) ==
  /\ r.seq > prior.seq \/ (r.seq = prior.seq /\ r.doc = prior.doc)
  /\ r.doc.rev > prior.doc.rev \/ r.doc = prior.doc

Passes(r) == Valid(r) /\ (edge.mem # None => Above(edge.mem, r))

\* releaseTransaction and the answer.  A failed restore is tried again later.
Over(e, ok) == [e EXCEPT !.tx = None, !.ready = @ \/ ok, !.restoring = @ /\ ~(ok /\ e.tx.op = "restore")]
Done(e, ok) == edge' = Over(e, ok) /\ Unasked(edge.tx.rec, ok)

CheckRecord ==
  /\ At("check")
  /\ IF Passes(edge.tx.rec) THEN edge' = Goes(edge, "provide") /\ UNCHANGED <<ask, pub>> ELSE Done(edge, FALSE)
  /\ Calm /\ UNCHANGED <<shown, sent, recs, hintVars>>

\* A document nobody can find is not named.
UnprovidedEnds == Done(edge, FALSE)

ProvideDocument ==
  /\ At("provide")
  /\ \/ edge' = Goes(edge, "persist") /\ shown' = shown \cup {edge.tx.rec.doc} /\ Calm /\ UNCHANGED <<ask, pub>>
     \/ Fault("routing") /\ UnprovidedEnds /\ UNCHANGED shown
  /\ UNCHANGED <<sent, recs, hintVars>>

\* Slip: the floor is kept in memory only.
KeepLate(e) == [e EXCEPT !.mem = e.tx.rec]

\* persistState, then setCurrentState; a restore writes nothing.
Keep(e) == IF e.tx.op = "restore" THEN e ELSE [e EXCEPT !.mem = e.tx.rec, !.disk = e.tx.rec]

\* A failure may come after the rename.
Persist ==
  /\ At("persist")
  /\ \/ edge' = Goes(Keep(edge), "put") /\ Calm /\ UNCHANGED <<ask, pub>>
     \/ /\ edge.tx.op = "apply" /\ edge.tx.rec # edge.mem /\ Fault("disk")
        /\ \E d \in {edge.disk, edge.tx.rec} : Done([edge EXCEPT !.disk = d], FALSE)
  /\ UNCHANGED <<shown, sent, recs, hintVars>>

PutValue ==
  /\ At("put") /\ UNCHANGED <<shown, hintVars>>
  /\ \/ /\ recs' = recs \cup {edge.tx.rec} /\ sent' = [last |-> edge.tx.rec, good |-> edge.tx.rec]
        /\ edge' = Goes(edge, "stage") /\ Calm /\ UNCHANGED <<ask, pub>>
     \/ /\ Fault("routing") /\ Done(edge, FALSE)
        /\ \/ UNCHANGED <<recs, sent>>
           \/ recs' = recs \cup {edge.tx.rec} /\ sent' = [sent EXCEPT !.last = edge.tx.rec]

-----------------------------------------------------------------------------
\* pointerPlan.Commit.  A failure to schedule is no failure of the publication.

\* pointerSnapshotFromDocument: an uncovered head has no pointer.
Pointers(d) ==
  {<<"doc", d>>} \cup {p \in {<<"root", "fin", d.fin>>, <<"root", "mut", d.mut>>} : p[3] \notin {None, 0}}

StageHints ==
  /\ At("stage") /\ Stage({edge.tx.rec.doc}) /\ edge' = Goes(edge, "swap")
  /\ UNCHANGED <<ask, shown, sent, pub, recs, want, provided, begun, wake, wk>>

\* withdrawAfterCommitFailure
Withdraw == Swap({})

SwapHints ==
  /\ At("swap")
  /\ \/ Swap(Pointers(edge.tx.rec.doc)) /\ edge' = Goes(edge, "settle") /\ Calm
     \/ Fault("hints") /\ Withdraw /\ edge' = Goes(edge, "clear")
  /\ UNCHANGED <<ask, shown, sent, pub, recs, act>>

SettleHints ==
  /\ \/ At("settle") /\ Settle({edge.tx.rec.doc})
     \/ At("clear") /\ Settle({})
  /\ Done(edge, TRUE)
  /\ UNCHANGED <<shown, sent, recs, want, provided, begun, wake, wk>>

EdgeStep ==
  \/ CheckRecord \/ ProvideDocument \/ Persist \/ PutValue \/ SwapHints \/ NotAdmitted \/ EdgeCrash
  \/ (EdgeStart \/ Admitted \/ Restore \/ StageHints \/ SettleHints) /\ Calm
  \/ \E a \in site.signers : (Post(a) /\ Calm) \/ GiveUp(a)

-----------------------------------------------------------------------------
\* The records the edge hands to the DHT never go back: not when a request the writer
\* gave up on is admitted after its successor, and not when a restarted edge announces
\* its durable one (applyLocked, Restore).
RelayNeverRegresses ==
  [][sent'.last # sent.last /\ sent.last # None => sent'.last.seq >= sent.last.seq]_<<edge, sent>>
================================================================================
