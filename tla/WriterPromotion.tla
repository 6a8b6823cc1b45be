---------------------------- MODULE WriterPromotion ----------------------------
(***************************************************************************)
(* A followed head that the operator makes a written one                   *)
(* (follow/promote.go, openHeads of cmd/bloard/serve.go, server/heads.go). *)
(* A follower's checkpoint is its authority and the root mirror goes with  *)
(* it in every batch; a writer knows the mirror only.  The handoff sets    *)
(* the mirror from the checkpoint and retires the checkpoint in one batch. *)
(* Only the finalized head may be promoted.                                *)
(***************************************************************************)
EXTENDS Follower

CONSTANT MaxLine \* coverage the writer extends its head to

VARIABLES
  mirror, \* the finalized head's row in the root store: a line or None
  role    \* what the configuration makes of the head: "follow" or "write"

promotionVars == <<mirror, role>>

PromotionInit == mirror = None /\ role = "follow"

\* The mirror's part of a follower's batch: a selected line, or nothing once withdrawn.
Mirrored ==
  mirror' = IF cp'["fin"] = cp["fin"] THEN mirror ELSE IF cp'["fin"].sel THEN cp'["fin"].line ELSE None

\* The operator moves the head to the configuration's heads section, and back while it
\* is not handed over.
Reassign ==
  /\ site.promote /\ up = "down"
  /\ \/ role = "follow" /\ role' = "write" /\ Fault("operator")
     \/ role = "write" /\ cp["fin"].doc # None /\ role' = "follow" /\ Calm
  /\ UNCHANGED <<mirror, up, cp, adopted, have, col>>

\* checkPromotionCompleteness: what the policy retains is held, without any fetch.
CompletelyHeld(r) == Closure(r) \subseteq have

\* Slip: the mirror is set and the checkpoint stays.
CheckpointLeft == cp

\* stageRetireCheckpoint
CheckpointRetired == [cp EXCEPT !["fin"] = NoCheckpoint]

\* ReconcileWriterPromotion: refused for a withdrawn head or one not completely held,
\* nothing to do for a head without a checkpoint.
ReconcilePromotion ==
  /\ role = "write" /\ up = "down" /\ up' = "opening" /\ Calm
  /\ IF cp["fin"].doc = None THEN UNCHANGED <<cp, mirror>>
     ELSE /\ cp["fin"].sel /\ CompletelyHeld(cp["fin"].line)
          /\ mirror' = cp["fin"].line /\ cp' = CheckpointRetired
  /\ UNCHANGED <<role, adopted, have, col>>

\* OpenHead: a head without a mirror starts empty.
OpenHead ==
  /\ up = "opening" /\ up' = "on" /\ Calm
  /\ \E r \in {IF mirror = None THEN 0 ELSE mirror} :
       /\ mirror = None \/ Index(r) \in have
       /\ mirror' = r /\ adopted' = [adopted EXCEPT !["fin"] = r]
       /\ Obtain(IF mirror = None THEN Closure(r) ELSE {Index(r)})
  /\ UNCHANGED <<role, cp>>

\* The writer extends its head; HeadRegistry has the steps of it.
WriterAppends ==
  /\ role = "write" /\ up = "on" /\ mirror < MaxLine /\ Calm
  /\ mirror' = mirror + 1 /\ adopted' = [adopted EXCEPT !["fin"] = mirror + 1]
  /\ Obtain(Closure(mirror + 1)) /\ UNCHANGED <<role, up, cp>>

Shutdown ==
  /\ role = "write" /\ up = "on" /\ ~Active /\ up' = "down" /\ adopted' = [adopted EXCEPT !["fin"] = None]
  /\ Calm /\ UNCHANGED <<role, mirror, cp, have, col>>

PromotionStep ==
  /\ Reassign \/ ReconcilePromotion \/ OpenHead \/ WriterAppends \/ Shutdown
  /\ UNCHANGED <<fetched, quar, memo, walk, ctlVars, runVars, floor, at, seq, deleg, dns, poll>>

-----------------------------------------------------------------------------
\* A promoted writer never opens behind what it followed or wrote, however often it
\* restarts: the handoff happens once (ReconcileWriterPromotion).
NeverRewound ==
  [][role = "write" /\ mirror # None => mirror' # None /\ mirror' >= mirror]_<<mirror, role>>

\* A head is opened for writing only with all it retains on disk: from then on nothing
\* fetches what is missing (checkPromotionCompleteness).
PromotedIsHeld == role = "write" /\ adopted["fin"] # None => Closure(adopted["fin"]) \subseteq have
================================================================================
