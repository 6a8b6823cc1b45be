----------------------------- MODULE PointerSchedule ---------------------------
(***************************************************************************)
(* The exact-pointer schedule of a node (p2p/pointerhint): the current     *)
(* roots and documents it advertises in the DHT, the documents it retains  *)
(* for them outside the archive, and the worker that provides them.  A     *)
(* pointer is <<"root", head, line>> or <<"doc", document>>; a manifest    *)
(* comes and goes with its root.  Whoever owns the schedule (an edge's     *)
(* PointerState or a daemon's pointerState) replaces it in three steps.    *)
(*                                                                         *)
(* A generation number is kept as what it is compared for: whether the     *)
(* worker's entry (cur) or its call (same) is of the pointer as scheduled  *)
(* now, and whether the schedule's version moved since it was applied.     *)
(* The bounded history of past documents is left out: it may only make     *)
(* more documents eligible than the active ones.                           *)
(***************************************************************************)
EXTENDS Publications

VARIABLES
  act,   \* documents retained for the schedule
  want,  \* the pointers scheduled
  provided, \* those the metrics call fresh
  begun, \* those whose Provide began since they were scheduled (an observer)
  wake,  \* the worker's wake slot
  wk     \* the worker: [pc, moved, st, at, same]

hintVars == <<act, want, provided, begun, wake, wk>>

NewWorker == [pc |-> "top", moved |-> FALSE, st |-> [p \in {} |-> 0], at |-> None, same |-> FALSE]
HintInit ==
  /\ act = {} /\ want = {} /\ provided = {} /\ begun = {} /\ wake = FALSE /\ wk = NewWorker
\* The process is gone, and its schedule with it.
HintsLost ==
  /\ act' = {} /\ want' = {} /\ provided' = {} /\ begun' = {} /\ wake' = FALSE /\ wk' = NewWorker

\* StageCurrentAfterVerification: the new documents join the old ones.
Stage(ds) == act' = act \cup ds

\* ReplaceCurrentDocuments: every one must have been staged.
Settle(ds) == ds \subseteq act /\ act' = ds

\* updatePointers: what stays keeps its generation, its freshness and its cadence.
Swap(ps) ==
  /\ want' = ps /\ provided' = provided \cap ps /\ begun' = begun \cap ps /\ wake' = TRUE
  /\ wk' = [wk EXCEPT !.moved = TRUE, !.same = @ /\ wk.at \in ps,
                      !.st = [p \in DOMAIN wk.st |-> [wk.st[p] EXCEPT !.cur = @ /\ p \in ps]]]

-----------------------------------------------------------------------------
\* Provider.run

\* reconcile
Reconciled(w) ==
  [p \in want |-> IF p \in DOMAIN w.st /\ w.st[p].cur THEN w.st[p] ELSE [due |-> TRUE, cur |-> TRUE]]

Snapshot ==
  /\ wk.pc = "top" /\ wk' = [wk EXCEPT !.pc = "pick", !.moved = FALSE, !.st = IF wk.moved THEN Reconciled(wk) ELSE @]
  /\ UNCHANGED <<act, want, provided, begun, wake>>

\* Slip: the slot is emptied before the wait.
WaitingDrained == wake' = FALSE

\* The slot is left as it is: an update since the snapshot has filled it.
Waiting == UNCHANGED wake

Due == {p \in DOMAIN wk.st : wk.st[p].due}
Pick ==
  /\ wk.pc = "pick"
  /\ IF Due = {} THEN Waiting /\ wk' = [wk EXCEPT !.pc = IF DOMAIN wk.st = {} THEN "block" ELSE "timer"]
     ELSE UNCHANGED wake /\ \E p \in Due : wk' = [wk EXCEPT !.pc = "check", !.at = p]
  /\ UNCHANGED <<act, want, provided, begun>>

Woken ==
  /\ wk.pc \in {"block", "timer"} /\ wake /\ wake' = FALSE /\ wk' = [wk EXCEPT !.pc = "top"]
  /\ UNCHANGED <<act, want, provided, begun>>

Timer ==
  /\ wk.pc = "timer" /\ \E p \in DOMAIN wk.st : wk' = [wk EXCEPT !.pc = "top", !.st[p].due = TRUE]
  /\ UNCHANGED <<act, want, provided, begun, wake>>

\* eligible, HasVerified: a document must be retained as verified; a root is eligible
\* while the archive holds it, which is not modelled here.
Eligible(p) == IF p[1] = "doc" THEN {p[2] \in act} ELSE {TRUE, FALSE}

\* An ineligible pointer is retried later; an update since the snapshot goes first.
CheckPointer ==
  /\ wk.pc = "check"
  /\ \E ok \in Eligible(wk.at) :
       /\ wk' = IF ~ok THEN [wk EXCEPT !.pc = "top", !.st[wk.at].due = FALSE, !.at = None]
                ELSE IF wk.moved THEN [wk EXCEPT !.pc = "top", !.at = None]
                ELSE [wk EXCEPT !.pc = "call", !.same = TRUE]
       /\ begun' = IF ok /\ ~wk.moved THEN begun \cup {wk.at} ELSE begun
  /\ UNCHANGED <<act, want, provided, wake>>

\* recordPointerSuccess
Success == provided' = IF wk.same THEN provided \cup {wk.at} ELSE provided

\* The DHT answers, with success or not; its record cannot be withdrawn.
CallDone ==
  /\ wk.pc = "call" /\ (Success \/ UNCHANGED provided)
  /\ wk' = [wk EXCEPT !.pc = "top", !.st[wk.at].due = FALSE, !.at = None, !.same = FALSE]
  /\ UNCHANGED <<act, want, begun, wake>>

ProviderStep == Snapshot \/ Pick \/ Woken \/ Timer \/ CheckPointer \/ CallDone

-----------------------------------------------------------------------------

\* The worker never sleeps on a schedule it has not applied, however many updates met
\* in the one wake slot (updatePointers, run, waitOrUpdate).
NoLostWakeup == wk.pc = "block" /\ wk.moved => wake

\* A pointer counts as provided only by a call begun since it was scheduled: one
\* dropped and scheduled again while its call was out starts over (recordPointerSuccess).
FreshIsProvided == provided \subseteq begun
================================================================================
