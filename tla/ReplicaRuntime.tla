---------------------------- MODULE ReplicaRuntime -----------------------------
(***************************************************************************)
(* What a replica process puts around its controller                       *)
(* (cmd/bloar-kubo-replica/runtime.go): the generation it holds to be the  *)
(* served one, the health gate that two goroutines write, and the gateway  *)
(* request that reads a generation's blocks under a lease of the gate.     *)
(***************************************************************************)
EXTENDS ReplicaController

VARIABLES
  health, \* [active, ok, by]: by is the generation the last verdict was about
  audit,  \* auditActive in progress: [pc, gen, moved, ok]; moved: activeVersion did
  lease   \* None, or what a request reads: [root, firm]

runVars == <<health, audit, lease>>

NoHealth == [active |-> None, ok |-> FALSE, by |-> None]
IdleAudit == [pc |-> "idle", gen |-> None, moved |-> FALSE, ok |-> FALSE]
RunInit == health = NoHealth /\ audit = IdleAudit /\ lease = None

\* A write of active: the version moves under an audit in progress.
SetActive(h) == health' = h /\ audit' = IF audit.pc = "idle" THEN audit ELSE [audit EXCEPT !.moved = TRUE]
ClearActive == SetActive(NoHealth)

\* activate: the generation now served must be pinned as the ledger says.
Activate(g) ==
  \/ Calm /\ SetActive(IF Audited(g) THEN [active |-> g, ok |-> TRUE, by |-> g] ELSE NoHealth)
  \/ Fault("kubo") /\ ClearActive

\* auditActive: the generation and its version are read, the pins are asked for
\* without a lock, and the verdict is written.
AuditRead ==
  /\ audit.pc = "idle" /\ audit' = [IdleAudit EXCEPT !.pc = "ask", !.gen = health.active]
  /\ Calm /\ UNCHANGED health

AuditAsk ==
  /\ audit.pc = "ask" /\ UNCHANGED health
  /\ \/ Calm /\ audit' = [audit EXCEPT !.pc = "set", !.ok = (audit.gen # None /\ Audited(audit.gen))]
     \/ audit.gen # None /\ Fault("kubo") /\ audit' = [audit EXCEPT !.pc = "set"]

Verdict(h, a) == IF a.moved THEN h ELSE [h EXCEPT !.ok = a.ok, !.by = a.gen]

AuditSet ==
  /\ audit.pc = "set" /\ health' = Verdict(health, audit) /\ audit' = IdleAudit /\ Calm

AuditStep == (AuditRead \/ AuditAsk \/ AuditSet) /\ UNCHANGED lease

\* A gateway request selects the served root and reads its blocks.  firm: the anchor
\* is the controller's own, committed one.
ReadBegin ==
  /\ lease = None /\ adopted["fin"] # None /\ Calm /\ UNCHANGED <<health, audit>>
  /\ lease' = [root |-> adopted["fin"],
               firm |-> led.cur.owned /\ <<"fin", adopted["fin"]>> \in led.cur.gen.heads]

ReadEnd == lease # None /\ lease' = None /\ Calm /\ UNCHANGED <<health, audit>>

\* Gate.Barrier: every request that could have selected the old snapshot has ended.
Drained == lease = None
================================================================================
