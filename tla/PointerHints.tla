------------------------------ MODULE PointerHints -----------------------------
(***************************************************************************)
(* The pointer schedule of a daemon (cmd/bloard/pointer_hints.go) that     *)
(* follows heads and writes one of its own: what it advertises is the      *)
(* union of the heads it writes, the heads it follows with the documents   *)
(* that prove them, and the document it renders itself.  The follower      *)
(* reports under its transition lock, the registry through one pending     *)
(* slot and a worker; whoever holds the lock replaces the whole union.     *)
(***************************************************************************)
EXTENDS Follower, PointerSchedule

CONSTANT MaxOwn \* changes of the head this node writes

VARIABLES
  hs,  \* [own, written, followed, local, pend, op, ok]; local and pend are documents, op
       \* is the replacement in progress: [who, next, pc]
  told, \* what the follower reports, at most one [op, doc]
  adrift \* the finalized head has another lineage than the one the mutable head is bound to

ownerVars == <<hs, told, adrift>>

\* cohereRegistry, servable, buildPublication: a mutable head is rendered only beside the
\* handoff it is bound to, followed too and not quarantined.
Renders(h, ad, q, dr) ==
  ad[h] # None /\ h \notin q /\ (h = "mut" => ad["fin"] # None /\ "fin" \notin q /\ ~dr)

\* The document the node renders: its own head and the followed ones it can serve.
LocalDoc(own, ad, q, dr) ==
  [own |-> own, lines |-> [h \in Kinds |-> IF Renders(h, ad, q, dr) THEN ad[h] ELSE None]]
\* Of each head it follows, at most one [root, doc].
NoFollowed == [h \in Kinds |-> {}]
NoneOwned == [written |-> 0, followed |-> NoFollowed, local |-> {}]
IdleReplace == [who |-> "none", next |-> NoneOwned, pc |-> "idle"]
NewOwner(own) == [own |-> own, written |-> 0, followed |-> NoFollowed, local |-> {}, pend |-> {},
                  op |-> IdleReplace, ok |-> TRUE]
OwnerInit == hs = NewOwner(0) /\ told = {} /\ adrift = FALSE

-----------------------------------------------------------------------------
\* What the registry and the follower tell it.

\* NotifyLocalDocument: the newest replaces what is pending.
NotifyLocal(s, d) == [s EXCEPT !.pend = {d}]

\* After a step of the follower: a document admitted, a head quarantined.
Installing == {p \in site.pollers : poll[p].pc = "install"}
AdoptedDoc == poll[CHOOSE p \in Installing : TRUE].doc
Adopts == \E p \in Installing : poll'[p].pc # "install"
\* AdoptBatch: a distinct finalized root is a lineage of its own, to which a mutable head
\* of the same document is bound.
Drifts(d) == ~Covered(d, "mut") /\ (adrift \/ adopted'["fin"] # adopted["fin"])
Reported ==
  IF ~site.hints THEN UNCHANGED ownerVars
  ELSE /\ adrift' = IF Adopts THEN Drifts(AdoptedDoc) ELSE adrift
       /\ hs' = IF <<adopted', quar', adrift'>> # <<adopted, quar, adrift>>
                THEN NotifyLocal(hs, LocalDoc(hs.own, adopted', quar', adrift')) ELSE hs
       /\ told' = IF Adopts THEN {[op |-> "admit", doc |-> AdoptedDoc]}
                  ELSE IF quar' # quar THEN {[op |-> "refresh", doc |-> None]} ELSE told

\* After a start or a crash.  The worker starts once the durable heads are served.
Restarted ==
  IF ~site.hints THEN UNCHANGED <<ownerVars, hintVars>>
  ELSE IF up' = "down" THEN hs' = NewOwner(hs.own) /\ told' = {} /\ adrift' = FALSE /\ HintsLost
  ELSE /\ hs' = IF up' = "on" THEN NotifyLocal(hs, LocalDoc(hs.own, adopted', quar', adrift)) ELSE hs
       /\ told' = IF up' = "on" THEN {[op |-> "restore", doc |-> None]} ELSE told
       /\ UNCHANGED <<adrift, hintVars>>

\* A write to the node's own head.
OwnMoves ==
  /\ up = "on" /\ hs.own < MaxOwn
  /\ hs' = NotifyLocal([hs EXCEPT !.own = @ + 1], LocalDoc(hs.own + 1, adopted, quar, adrift))
  /\ UNCHANGED <<told, adrift, hintVars>>

-----------------------------------------------------------------------------
\* Slip: a head is its own witness, also when its handoff is gone.
AloneServes(h) == adopted[h] # None /\ h \notin quar

\* currentFollowedLocked asks the registry and the document: Get, HeadDoc.
Serves(h) == Renders(h, adopted, quar, adrift)

\* A document stays with its head while the line is the one it proved.
CurrentFollowed(preserve) ==
  [h \in Kinds |->
     IF ~Serves(h) THEN {}
     ELSE LET known == {f \in hs.followed[h] : preserve /\ f.root = adopted[h]}
          IN IF known # {} THEN known ELSE {[root |-> adopted[h], doc |-> None]}]

\* AdmitFollowedDocument: it proves the heads whose current line it lists.
Proved(f, d) ==
  [h \in Kinds |-> {[x EXCEPT !.doc = IF Covered(d, h) /\ Line(d, h) = x.root THEN d ELSE @] : x \in f[h]}]

NextFollowed(t) ==
  CASE t.op = "admit" -> Proved(CurrentFollowed(TRUE), t.doc)
    [] t.op = "refresh" -> CurrentFollowed(TRUE)
    [] t.op = "restore" -> CurrentFollowed(FALSE)

Owned(s) == [written |-> s.written, followed |-> s.followed, local |-> s.local]
\* activePointerDocuments
Documents(s) == s.local \cup ((UNION {{f.doc : f \in s.followed[h]} : h \in Kinds}) \ {None})
\* composePointerSets: an empty head has no pointers.
Composed(s) ==
  {<<"root", "own", s.written>> : x \in {s.written} \ {0}}
  \cup (UNION {{<<"root", h, f.root>> : f \in s.followed[h]} : h \in Kinds})
  \cup {<<"doc", d>> : d \in Documents(s)}

\* replaceWritten and the follower's reports each take the lock and the other's part as
\* it is then.
Takes(who, pend, next) ==
  hs.op.pc = "idle" /\ hs' = [hs EXCEPT !.pend = pend, !.op = [who |-> who, next |-> next, pc |-> "stage"]]
LocalTakes ==
  /\ \E d \in hs.pend : Takes("local", {}, [Owned(hs) EXCEPT !.written = d.own, !.local = {d}])
  /\ UNCHANGED <<told, adrift, hintVars>>
FollowerTakes ==
  /\ \E t \in told : Takes("follower", hs.pend, [Owned(hs) EXCEPT !.followed = NextFollowed(t)])
  /\ UNCHANGED <<told, adrift, hintVars>>

\* replaceAllLocked
OpAt(pc) == hs.op.pc = pc
StageOwned ==
  /\ OpAt("stage") /\ Stage(Documents(hs.op.next)) /\ hs' = [hs EXCEPT !.op.pc = "swap"]
  /\ UNCHANGED <<told, adrift, want, provided, begun, wake, wk>>

SwapOwned ==
  /\ OpAt("swap") /\ UNCHANGED <<told, adrift, act>>
  /\ \/ Swap(Composed(hs.op.next)) /\ hs' = [hs EXCEPT !.op.pc = "settle"] /\ Calm
     \/ Fault("hints") /\ hs' = [hs EXCEPT !.op.pc = "undo"] /\ UNCHANGED <<want, provided, begun, wake, wk>>

\* A failed replacement restores the documents of the schedule that is still installed.
DocumentsBack(s) == Documents(s)

OpEnds(s) == [s EXCEPT !.op = IdleReplace]
SettleOwned ==
  /\ \/ /\ OpAt("settle") /\ Settle(Documents(hs.op.next))
        /\ hs' = OpEnds([hs EXCEPT !.written = hs.op.next.written, !.followed = hs.op.next.followed,
                                   !.local = hs.op.next.local])
     \/ OpAt("undo") /\ Settle(DocumentsBack(hs)) /\ hs' = OpEnds([hs EXCEPT !.ok = FALSE])
  /\ told' = IF hs.op.who = "follower" THEN {} ELSE told
  /\ UNCHANGED <<adrift, want, provided, begun, wake, wk>>

OwnerStep ==
  \/ SwapOwned
  \/ (OwnMoves \/ LocalTakes \/ FollowerTakes \/ StageOwned \/ SettleOwned) /\ Calm

-----------------------------------------------------------------------------
\* At rest the schedule is what the registry serves: every head this node writes or
\* follows and can render, none it lost or quarantined, nor a live head whose finalized
\* handoff was quarantined or left its lineage, and the document it renders now, whichever
\* of its two sources reported last (replaceAllLocked, RefreshFollowed).
HintsMatchRegistry ==
  site.hints /\ up = "on" /\ told = {} /\ OpAt("idle") /\ hs.pend = {} /\ hs.ok =>
    /\ {p \in want : p[1] = "root"} =
         {<<"root", "own", hs.own>> : x \in {hs.own} \ {0}}
         \cup {<<"root", h, adopted[h]>> : h \in {h \in Kinds : Renders(h, adopted, quar, adrift)}}
    /\ <<"doc", LocalDoc(hs.own, adopted, quar, adrift)>> \in want
================================================================================
