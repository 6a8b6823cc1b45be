--------------------------- MODULE UnfinalizedTracker --------------------------
(***************************************************************************)
(* The tracker that keeps the mutable head at the canonical tip            *)
(* (index/unfinalized): read the finalized handoff and the selected        *)
(* generation, snapshot the canonical chain above the handoff, and replace *)
(* the generation by compare-and-swap.  Every read is a request of its     *)
(* own; the chain and the archive may move between any two.  Its archive   *)
(* client re-sends a request whose answer it lost, while the first handler *)
(* may still be running.                                                   *)
(***************************************************************************)
EXTENDS HeadRegistry

CONSTANT Overlap \* finalized slots the window keeps

VARIABLE tr
\* [pc, handoff, state, shown, cheap, fin, snap, expected, again, prev]: what this step has
\* read so far, the request it sends, and the last snapshot observed as selected.

\* unfinalized.New, and what Step has in hand before its first read.
IdleTracker(prev) ==
  [pc |-> "idle", handoff |-> None, state |-> None, shown |-> FALSE, cheap |-> FALSE,
   fin |-> None, snap |-> None, expected |-> 0, again |-> FALSE, prev |-> prev]

TrackerInit == tr = IdleTracker(None)

\* The process ends and is started again.
Exits == tr' = IdleTracker(None)
\* The step ends; Run polls again.
Waits == tr' = IdleTracker(tr.prev)

WindowStart(synced) ==
  LET low == IF synced + 1 > Overlap THEN synced + 1 - Overlap ELSE 0
  IN IF low < Origin THEN Origin ELSE low

\* Step: read the handoff head, blocked while it covers nothing.
ReadHandoff ==
  /\ tr.pc = "idle" /\ all.synced # Uncovered
  /\ tr' = [tr EXCEPT !.pc = "state", !.handoff = all]
  /\ UNCHANGED <<faults, regVars>>

\* Step: read the generation and its exposure.
ReadState ==
  /\ tr.pc = "state"
  /\ tr' = [tr EXCEPT !.pc = "fin", !.state = gen, !.shown = Exposed,
                      !.cheap = tr.prev # None /\ Exposed]
  /\ UNCHANGED <<faults, regVars>>

\* Build and unchangedSelectedSource read finality before the head.
ReadFinalized ==
  /\ tr.pc = "fin"
  /\ tr' = [tr EXCEPT !.pc = "head", !.fin = finBlk]
  /\ UNCHANGED <<faults, regVars>>

\* What Build makes of a finalized block and a head: the snapshot that is also
\* the request's claim.
Snapshot(f, h) ==
  LET start == WindowStart(tr.handoff.synced)
      blocks == {b \in Ancestry[h] : SlotOf[b] >= start /\ RowOf[b] # {}}
  IN [start |-> start, synced |-> SlotOf[h], head |-> h, fin |-> f, handoff |-> tr.handoff,
      rows |-> [s \in {SlotOf[b] : b \in blocks} |-> RowOf[CHOOSE b \in blocks : SlotOf[b] = s]]]

\* Build's walk by parent roots: the head descends from the finalized block.
AncestryProved(f, h) == f \in Ancestry[h]

\* Slip: the cheap path looks at finality and the handoff only.
UnchangedFinality(f, h) ==
  /\ tr.prev.fin = f /\ tr.prev.start = WindowStart(tr.handoff.synced)
  /\ tr.state.n > 0 /\ tr.state.handoff = tr.handoff

\* unchangedSelectedSource: everything still names the selected generation.
Unchanged(f, h) ==
  /\ tr.prev.head = h /\ tr.prev.fin = f /\ tr.prev.start = WindowStart(tr.handoff.synced)
  /\ tr.state.n > 0 /\ tr.state.claim = Snapshot(f, h) /\ tr.state.handoff = tr.handoff

\* Build over the canonical head, or the cheap path that spares it.
ReadHead ==
  LET f == tr.fin
      h == headBlk
      start == WindowStart(tr.handoff.synced)
  IN /\ tr.pc = "head"
     /\ IF tr.cheap
        THEN IF Unchanged(f, h) THEN Waits
             ELSE tr' = [tr EXCEPT !.pc = "fin", !.cheap = FALSE, !.fin = None]
        ELSE CASE start > SlotOf[h] -> Exits
               [] SlotOf[h] - start >= MaxWindow -> Waits
               [] OTHER -> IF ~AncestryProved(f, h) THEN Exits
                           ELSE IF tr.handoff.synced > SlotOf[f] THEN Waits
                           ELSE tr' = [tr EXCEPT !.pc = "stable", !.snap = Snapshot(f, h)]
     /\ UNCHANGED <<faults, regVars>>

Send(expected) ==
  calls' = {[c EXCEPT !.open = FALSE] : c \in calls} \cup
           {[expected |-> expected, claim |-> tr.snap, stage |-> "sent", st |-> None, same |-> FALSE, open |-> TRUE]}

\* The request heals a matching generation that is committed but not exposed.
Expected == IF tr.state.claim = tr.snap THEN tr.state.n - 1 ELSE tr.state.n

\* StableHead, then selectedGenerationMatches, then PostGeneration.
PostGeneration ==
  /\ tr.pc = "stable"
  /\ IF headBlk # tr.snap.head THEN Waits /\ UNCHANGED calls
     ELSE IF ~tr.again /\ tr.state.claim = tr.snap /\ tr.shown
     THEN tr' = IdleTracker(tr.snap) /\ UNCHANGED calls
     ELSE LET e == IF tr.again THEN tr.expected ELSE Expected
          IN tr' = [tr EXCEPT !.pc = "wait", !.expected = e] /\ Send(e)
  /\ UNCHANGED <<faults, all, chn, tip, gen, entry, link, stored, reply>>

\* The answer: observeSelected, classifyGenerationConflict (which reads the handoff
\* again), or the blobs the archive lacks.
ReadReply ==
  /\ tr.pc = "wait" /\ reply # None /\ reply' = None
  /\ CASE reply.kind \in {"ok", "noop"} -> tr' = IdleTracker(tr.snap)
       [] reply.kind = "conflict" -> IF all = tr.snap.handoff THEN Exits ELSE Waits
       [] reply.kind = "invalid" -> Exits
       [] reply.kind = "missing" -> IF tr.again \/ reply.n # tr.state.n THEN Exits
                                    ELSE tr' = [tr EXCEPT !.pc = "supply"]
  /\ UNCHANGED <<faults, all, chn, tip, gen, entry, link, stored, calls>>

\* supplyMissing: whole slots from a source that follows the canonical chain; a row
\* that is no longer canonical there cannot be supplied.
SupplyMissing ==
  /\ tr.pc = "supply"
  /\ IF \A s \in DOMAIN tr.snap.rows :
          tr.snap.rows[s] \subseteq stored \/ RowAt(headBlk, s) = tr.snap.rows[s]
     THEN /\ PutBlobs(UNION {tr.snap.rows[s] : s \in DOMAIN tr.snap.rows})
          /\ tr' = [tr EXCEPT !.pc = "stable", !.again = TRUE]
     ELSE Exits /\ UNCHANGED stored
  /\ UNCHANGED <<faults, all, chn, tip, gen, entry, link, calls, reply>>

\* archclient.do: no answer came.  The client sends the same body again, or gives up
\* and the tracker polls.  A restarted node has forgotten the request altogether.
NoAnswer ==
  /\ tr.pc = "wait" /\ reply = None
  /\ IF \E c \in calls : c.open THEN Fault("answer") ELSE UNCHANGED faults
  /\ \/ Send(tr.expected) /\ UNCHANGED tr
     \/ calls' = {[c EXCEPT !.open = FALSE] : c \in calls} /\ Waits
  /\ UNCHANGED <<all, chn, tip, gen, entry, link, stored, reply>>

TrackerRestart ==
  /\ tr # IdleTracker(None) /\ Fault("tracker") /\ Exits /\ reply' = None
  /\ calls' = {[c EXCEPT !.open = FALSE] : c \in calls}
  /\ UNCHANGED <<all, chn, tip, gen, entry, link, stored>>

TrackerStep ==
  \/ ReadHandoff \/ ReadState \/ ReadFinalized \/ ReadHead \/ PostGeneration
  \/ ReadReply \/ SupplyMissing \/ NoAnswer \/ TrackerRestart
================================================================================
