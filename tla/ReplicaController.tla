--------------------------- MODULE ReplicaController ---------------------------
(***************************************************************************)
(* The retention controller of a Kubo replica (replica/controller.go): the *)
(* durable ledger [cur, pend, clean] of generation anchors, the pins of    *)
(* the Kubo node it drives, and Prepare, Commit and Recover, whose RPCs    *)
(* may fail before or after they took effect.  A generation stands for its *)
(* anchor block; a ledger entry is [gen, owned].  One operation runs at a  *)
(* time (mu) on its own copy st of the ledger.                             *)
(***************************************************************************)
EXTENDS FollowSync

CONSTANT MaxCleanup \* maxGenerationHeads + 1, the bound of the cleanup list

VARIABLES
  led,  \* the durable controllerState
  pins, \* Kubo's recursive pins: [gen, ours], ours when under the reserved name
  rc    \* the operation in progress: [op, pc, gen, owned, seen, st, then, ok]

ctlVars == <<led, pins, rc>>

NoEntry == [gen |-> None, owned |-> FALSE]
NoLedger == [cur |-> NoEntry, pend |-> NoEntry, clean |-> {}]
IdleOp == [op |-> "none", pc |-> "idle", gen |-> None, owned |-> FALSE, seen |-> FALSE,
           st |-> NoLedger, then |-> "none", ok |-> TRUE]
CtlInit == led = NoLedger /\ pins = {} /\ rc = IdleOp

Ours(g) == [gen |-> g, ours |-> TRUE]
Pinned(g) == \E p \in pins : p.gen = g
\* requirePinned
Proven(e) == IF e.owned THEN Ours(e.gen) \in pins ELSE Pinned(e.gen)
\* stateRetained
Retained(st) == {e \in {st.cur, st.pend} \cup st.clean : e.gen # None}

\* What Prepare takes the ownership of the anchor to be, nothing where it refuses:
\* never for a generation without an anchor (candidate), never from the pin alone, and
\* never by making an operator's pin its own.
Ownership(g) ==
  LET known == {e \in Retained(led) : e.gen = g}
  IN IF g = None THEN {}
     ELSE IF known # {} THEN {e.owned : e \in {e \in known : Proven(e) \/ (e.owned /\ ~Pinned(g))}}
     ELSE IF Ours(g) \in pins THEN {} ELSE {~Pinned(g)}

Begin(op, g) == rc' = [IdleOp EXCEPT !.op = op, !.pc = "check", !.gen = g, !.st = led] /\ UNCHANGED <<led, pins>>
Ends(ok) == rc' = [rc EXCEPT !.pc = "end", !.ok = ok]
\* cleanupLocked comes next, and then the step named.
Cleans(st, then, ok) ==
  rc' = [rc EXCEPT !.pc = IF st.clean = {} THEN then ELSE "remove", !.st = st, !.then = then, !.ok = ok]

\* An owned anchor that leaves st must find room in its cleanup list.
NeedsRoom(st, g) ==
  st.cur.owned /\ st.cur.gen # g /\ st.cur \notin st.clean /\ Cardinality(st.clean) >= MaxCleanup

\* Prepare up to the ownership decision.
CheckPrepare ==
  /\ rc.pc = "check" /\ rc.op = "prepare" /\ UNCHANGED pins
  /\ IF led.cur.gen = rc.gen
     THEN IF Proven(led.cur)
          THEN \E st \in {[cur |-> led.cur, pend |-> NoEntry, clean |-> led.clean \cup {e \in {led.pend} : e.owned}]} :
                 led' = st /\ Cleans(st, "end", TRUE)
          ELSE Ends(FALSE) /\ UNCHANGED led
     ELSE /\ UNCHANGED led
          /\ \/ Ownership(rc.gen) = {} /\ Ends(FALSE)
             \/ \E owned \in Ownership(rc.gen) :
                  rc' = [rc EXCEPT !.owned = owned, !.seen = Pinned(rc.gen), !.then = "displace",
                                   !.pc = IF led.pend.owned /\ led.pend.gen # rc.gen /\ led.clean # {}
                                          THEN "remove" ELSE "displace"]

\* A pending anchor of another generation becomes debt.
Displace ==
  /\ rc.pc = "displace" /\ UNCHANGED <<led, pins>>
  /\ IF ~(rc.st.pend.owned /\ rc.st.pend.gen # rc.gen) THEN rc' = [rc EXCEPT !.pc = "room"]
     ELSE IF Cardinality(rc.st.clean) >= MaxCleanup THEN Ends(FALSE)
     ELSE rc' = [rc EXCEPT !.pc = "room", !.st.clean = @ \cup {rc.st.pend}]

\* The slot that Commit will need for the current anchor is reserved.
Room ==
  /\ rc.pc = "room" /\ UNCHANGED <<led, pins>>
  /\ IF NeedsRoom(rc.st, rc.gen) THEN Cleans(rc.st, "intend", rc.ok) ELSE rc' = [rc EXCEPT !.pc = "intend"]

\* Slip: the anchor is recorded once it is pinned and verified.
IntendLater(st) == led

\* The intent is durable before Kubo is asked to pin.
Intend(st) == st

IntendPending ==
  /\ rc.pc = "intend" /\ UNCHANGED pins
  /\ IF NeedsRoom(rc.st, rc.gen) THEN Ends(FALSE) /\ UNCHANGED led
     ELSE \E st \in {[cur |-> rc.st.cur, pend |-> [gen |-> rc.gen, owned |-> rc.owned],
                      clean |-> {e \in rc.st.clean : e.gen # rc.gen}]} :
            /\ led' = Intend(st)
            /\ rc' = [rc EXCEPT !.st = st, !.pc = IF rc.seen THEN "verify" ELSE "pin"]

\* Slip: PinUpdateRecursive unpins the anchor it starts from, which unpin=false prevents.
PinMoves ==
  /\ rc.pc = "pin" /\ UNCHANGED led
  /\ \/ /\ pins' = (pins \ {Ours(led.cur.gen)}) \cup {Ours(rc.gen)}
        /\ rc' = [rc EXCEPT !.pc = "verify"] /\ Calm
     \/ Fault("kubo") /\ pins' \in {pins, pins \cup {Ours(rc.gen)}} /\ Cleans(rc.st, "end", FALSE)

\* PinUpdateRecursive from the current anchor, without unpinning it, or
\* PinAddRecursive.  A failure may have pinned.
Pin ==
  /\ rc.pc = "pin" /\ UNCHANGED led
  /\ IF led.cur.owned /\ Ours(led.cur.gen) \notin pins THEN Ends(FALSE) /\ UNCHANGED pins /\ Calm
     ELSE \/ pins' = pins \cup {Ours(rc.gen)} /\ rc' = [rc EXCEPT !.pc = "verify"] /\ Calm
          \/ Fault("kubo") /\ pins' \in {pins, pins \cup {Ours(rc.gen)}} /\ Cleans(rc.st, "end", FALSE)
          \/ led.cur.owned /\ Fault("kubo") /\ Ends(FALSE) /\ UNCHANGED pins

Verify ==
  /\ rc.pc = "verify" /\ UNCHANGED <<led, pins>>
  /\ \/ Cleans(rc.st, "end", Proven(rc.st.pend)) /\ Calm
     \/ Fault("kubo") /\ Cleans(rc.st, "end", FALSE)

\* Commit of the generation the follower has just checkpointed.
CheckCommit ==
  /\ rc.pc = "check" /\ rc.op = "commit" /\ UNCHANGED <<led, pins>>
  /\ CASE led.pend.gen # rc.gen /\ led.cur.gen = rc.gen -> Cleans(led, "end", TRUE)
       [] led.pend.gen # rc.gen /\ led.cur.gen # rc.gen -> Ends(FALSE)
       [] led.pend.gen = rc.gen -> IF ~Proven(led.pend) THEN Ends(FALSE)
                                   ELSE IF NeedsRoom(led, rc.gen) THEN Cleans(led, "promote", TRUE)
                                   ELSE rc' = [rc EXCEPT !.pc = "promote"]

Promote ==
  /\ rc.pc = "promote" /\ UNCHANGED pins
  /\ IF NeedsRoom(rc.st, rc.gen) THEN Ends(FALSE) /\ UNCHANGED led
     ELSE \E st \in {[cur |-> rc.st.pend, pend |-> NoEntry,
                      clean |-> rc.st.clean \cup {e \in {rc.st.cur} : e.owned /\ e.gen # rc.gen}]} :
            led' = st /\ Cleans(st, "end", TRUE)

\* Recover: a reserved pin without an owned record, or a current one not pinned as
\* recorded, stops the process.
Sound ==
  /\ \A p \in pins : p.ours => \E e \in Retained(led) : e.owned /\ e.gen = p.gen
  /\ led.cur.gen # None => Proven(led.cur)
  /\ led.pend.gen # None /\ Pinned(led.pend.gen) => Proven(led.pend)

CheckRecover ==
  /\ rc.pc = "check" /\ rc.op = "recover" /\ UNCHANGED <<led, pins>>
  /\ IF Sound THEN Cleans(led, "end", TRUE) ELSE Ends(FALSE)

-----------------------------------------------------------------------------
\* cleanupLocked: an anchor whose pin is missing or renamed is forgotten; a removal
\* that failed, with or without effect, stays debt.
Remove ==
  /\ rc.pc = "remove" /\ UNCHANGED led
  /\ \E stuck \in SUBSET rc.st.clean :
       /\ IF stuck = {} THEN Calm ELSE Fault("kubo")
       /\ \E gone \in {{}, stuck} : pins' = pins \ {Ours(e.gen) : e \in (rc.st.clean \ stuck) \cup gone}
       /\ rc' = [rc EXCEPT !.pc = "save", !.st.clean = stuck]

SaveCleanup ==
  /\ rc.pc = "save" /\ led' = rc.st /\ rc' = [rc EXCEPT !.pc = rc.then] /\ UNCHANGED pins

\* An RPC that only asks fails.
RpcFails ==
  /\ rc.pc = "check" /\ Fault("kubo") /\ Ends(FALSE) /\ UNCHANGED <<led, pins>>

ControllerStep ==
  /\ rc.pc # "idle"
  /\ \/ (CheckPrepare \/ Displace \/ Room \/ IntendPending) /\ Calm
     \/ (CheckCommit \/ Promote \/ CheckRecover \/ SaveCleanup) /\ Calm
     \/ Pin \/ Verify \/ Remove \/ RpcFails

\* ProtectsAll: one committed or pending generation covers the whole set, and is pinned.
Protecting(heads) == {e \in {led.cur, led.pend} : e.gen # None /\ e.gen.heads = heads}
ProtectsAll(heads) == IF led.cur \in Protecting(heads) THEN Proven(led.cur)
                      ELSE led.pend \in Protecting(heads) /\ Proven(led.pend)
\* AuditGeneration
Audited(g) == IF led.cur.gen = g THEN Proven(led.cur) ELSE led.pend.gen = g /\ Proven(led.pend)
================================================================================
