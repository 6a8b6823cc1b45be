------------------------------- MODULE Rendezvous ------------------------------
(***************************************************************************)
(* The rendezvous service (p2p/rendezvous_service.go): one loop of rounds, *)
(* in each a goroutine that provides the keys and another that looks for   *)
(* peers under them and dials those it may, a watcher that asks for a      *)
(* round when the host's addresses change, and Close.                      *)
(*                                                                         *)
(* Time is what it is compared for: a task is due, due again soon (a       *)
(* retry) or after the interval, and a tracked peer may be dialled again   *)
(* or not yet.  The budgets on results and address bytes drop any result.  *)
(***************************************************************************)
EXTENDS Publications

CONSTANTS
  MaxTracked, \* peers remembered across rounds
  MaxDials    \* dials at once

VARIABLES
  addr,     \* the host's addresses: how often they changed
  watch,    \* the change its watcher last saw
  slot,     \* the refresh slot
  rv,       \* the loop: [pc, due, soon, expired, provide, call, lost, cutOff, find, hand, seen, found]
  carried,     \* key -> the addresses of the last Provide that succeeded for it
  barred,   \* the tracked peers: peer -> still in its cooldown or backoff
  dialing,  \* peer -> dials of it in flight
  closing   \* "open", "closing" or "closed"

rendezvousVars == <<addr, watch, slot, rv, carried, barred, dialing, closing>>

Tasks == {"provide", "find"}
\* The startup round is due at once.
NewLoop == [pc |-> "top", due |-> Tasks, soon |-> {}, expired |-> FALSE, provide |-> {}, call |-> None,
            lost |-> FALSE, cutOff |-> FALSE, find |-> {}, hand |-> None, seen |-> {}, found |-> FALSE]
RendezvousInit ==
  /\ addr = 0 /\ watch = 0 /\ slot = FALSE /\ rv = NewLoop /\ carried = [k \in site.keys |-> None]
  /\ barred = [p \in {} |-> TRUE] /\ dialing = [p \in site.peers |-> 0] /\ closing = "open"

-----------------------------------------------------------------------------
\* Addresses

AddressesMove ==
  /\ Fault("addresses") /\ addr' = addr + 1
  /\ UNCHANGED <<watch, slot, rv, carried, barred, dialing, closing>>

\* watchAddressChanges, Refresh: the slot holds one request.
WatchAddresses ==
  /\ closing = "open" /\ watch < addr /\ watch' = watch + 1 /\ slot' = TRUE
  /\ Calm /\ UNCHANGED <<addr, rv, carried, barred, dialing, closing>>

-----------------------------------------------------------------------------
\* round

BeginRound ==
  /\ rv.pc = "top"
  /\ rv' = [rv EXCEPT !.pc = "round", !.expired = FALSE, !.lost = FALSE, !.seen = {}, !.found = FALSE,
                      !.provide = IF "provide" \in rv.due THEN site.keys ELSE {},
                      !.cutOff = @ /\ "provide" \notin rv.due,
                      !.find = IF "find" \in rv.due THEN site.keys ELSE {}]
  /\ Calm /\ UNCHANGED <<addr, watch, slot, carried, barred, dialing, closing>>

\* RoundTimeout passes, or Close cancels.
Expire ==
  /\ rv.pc = "round" /\ ~rv.expired /\ rv' = [rv EXCEPT !.expired = TRUE]
  /\ IF closing = "open" THEN Fault("time") ELSE Calm
  /\ UNCHANGED <<addr, watch, slot, carried, barred, dialing, closing>>

\* Key by key; once the round has expired the rest are not tried.
ProvideKey ==
  /\ rv.pc = "round" /\ rv.call = None
  /\ \E k \in rv.provide :
       rv' = IF rv.expired THEN [rv EXCEPT !.provide = {}, !.cutOff = TRUE]
             ELSE [rv EXCEPT !.provide = @ \ {k}, !.call = <<k, addr>>]
  /\ Calm /\ UNCHANGED <<addr, watch, slot, carried, barred, dialing, closing>>

\* A record carries the addresses its call began with.  A failure does not stop the
\* others.
Provided ==
  /\ rv.call # None
  /\ \/ carried' = [carried EXCEPT ![rv.call[1]] = rv.call[2]] /\ rv' = [rv EXCEPT !.call = None] /\ Calm
     \/ /\ rv' = [rv EXCEPT !.call = None, !.lost = TRUE] /\ UNCHANGED carried
        /\ IF rv.expired THEN Calm ELSE Fault("routing")
  /\ UNCHANGED <<addr, watch, slot, barred, dialing, closing>>

\* recordDial: an entry makes room for a new one, first one that has run out.
Track(p) ==
  LET full == p \notin DOMAIN barred /\ Cardinality(DOMAIN barred) >= MaxTracked
      free == {e \in DOMAIN barred : ~barred[e]}
      kept(E) == [e \in (DOMAIN barred \ E) \cup {p} |-> IF e = p THEN TRUE ELSE barred[e]]
  IN \E E \in IF ~full THEN {{}} ELSE {{e} : e \in IF free # {} THEN free ELSE DOMAIN barred} : barred' = kept(E)

\* peerEligible
PeerEligible(p) == p \in DOMAIN barred => ~barred[p]

\* A provider came out of a query.  It is over the budget, connected already, not to be
\* dialled now, or waits for a slot.
FindPeer ==
  /\ rv.pc = "round" /\ rv.find # {} /\ rv.hand = None
  /\ \E p \in site.peers \ rv.seen :
       LET s == [rv EXCEPT !.seen = @ \cup {p}]
       IN \/ rv' = s /\ UNCHANGED barred
          \/ dialing[p] = 0 /\ rv' = [s EXCEPT !.found = TRUE] /\ Track(p)
          \/ PeerEligible(p) /\ rv' = [s EXCEPT !.hand = p] /\ UNCHANGED barred
  /\ Calm /\ UNCHANGED <<addr, watch, slot, carried, dialing, closing>>

InFlight == {p \in site.peers : dialing[p] > 0}

\* The slot comes, or the round expires first.
Dial ==
  /\ rv.hand # None
  /\ \/ /\ Cardinality(InFlight) < MaxDials /\ dialing' = [dialing EXCEPT ![rv.hand] = @ + 1]
        /\ rv' = [rv EXCEPT !.hand = None]
     \/ rv.expired /\ rv' = [rv EXCEPT !.hand = None, !.find = {}] /\ UNCHANGED dialing
  /\ Calm /\ UNCHANGED <<addr, watch, slot, carried, barred, closing>>

Dialled(p) ==
  /\ dialing[p] > 0 /\ dialing' = [dialing EXCEPT ![p] = @ - 1] /\ Track(p)
  /\ rv' \in {rv, [rv EXCEPT !.found = TRUE]}
  /\ Calm /\ UNCHANGED <<addr, watch, slot, carried, closing>>

\* One round dials a peer once, under however many keys it is found.
SeenSoFar == rv.seen

\* A query ends; an expired round, or one over its results, ends them all.
QueryEnds ==
  /\ rv.pc = "round" /\ rv.hand = None
  /\ \E k \in rv.find :
       rv' \in {[rv EXCEPT !.find = @ \ {k}, !.seen = SeenSoFar], [rv EXCEPT !.find = {}]}
  /\ Calm /\ UNCHANGED <<addr, watch, slot, carried, barred, dialing, closing>>

-----------------------------------------------------------------------------
\* run

\* dialWG and provideWG
Joined == rv.provide = {} /\ rv.call = None /\ InFlight = {}

\* A failed or empty pass is due again soon, a good one after the interval.
EndRound ==
  /\ rv.pc = "round" /\ rv.find = {} /\ rv.hand = None /\ Joined
  /\ rv' = [rv EXCEPT !.pc = IF closing = "open" THEN "wait" ELSE "gone", !.due = {}, !.seen = {},
                      !.soon = (@ \ rv.due) \cup {t \in rv.due : IF t = "provide" THEN rv.lost ELSE ~rv.found}]
  /\ Calm /\ UNCHANGED <<addr, watch, slot, carried, barred, dialing, closing>>

\* Slip: a request that came during the round is taken as answered by it.
RefreshAnswered == slot' = FALSE /\ UNCHANGED rv

\* A request makes both tasks due; time makes any of them.
Refreshed == slot' = FALSE /\ rv' = [rv EXCEPT !.pc = "top", !.due = Tasks]

Wait ==
  /\ rv.pc = "wait"
  /\ \/ slot /\ Refreshed
     \/ UNCHANGED slot /\ \E due \in SUBSET Tasks \ {{}} : rv' = [rv EXCEPT !.pc = "top", !.due = due]
     \/ closing # "open" /\ rv' = [rv EXCEPT !.pc = "gone"] /\ UNCHANGED slot
  /\ Calm /\ UNCHANGED <<addr, watch, carried, barred, dialing, closing>>

CoolDown(p) ==
  /\ p \in DOMAIN barred /\ barred[p] /\ barred' = [barred EXCEPT ![p] = FALSE]
  /\ Calm /\ UNCHANGED <<addr, watch, slot, rv, carried, dialing, closing>>

\* Close cancels, then waits for the loop and the watcher; the next start is a new service.
Close ==
  /\ \/ closing = "open" /\ closing' = "closing" /\ UNCHANGED <<watch, slot, rv, carried, barred, dialing>>
     \/ closing = "closing" /\ rv.pc = "gone" /\ closing' = "closed" /\ UNCHANGED <<watch, slot, rv, carried, barred, dialing>>
     \/ /\ closing = "closed" /\ closing' = "open" /\ watch' = addr /\ slot' = FALSE /\ rv' = NewLoop
        /\ carried' = [k \in site.keys |-> None] /\ barred' = [p \in {} |-> TRUE] /\ UNCHANGED dialing
  /\ Calm /\ UNCHANGED addr

RendezvousStep ==
  \/ AddressesMove \/ WatchAddresses \/ BeginRound \/ Expire \/ ProvideKey \/ Provided \/ FindPeer \/ Dial
  \/ QueryEnds \/ EndRound \/ Wait \/ Close \/ \E p \in site.peers : Dialled(p) \/ CoolDown(p)

-----------------------------------------------------------------------------
\* When nothing is pending, the records carry the addresses the host has now, or the
\* pass that failed is due again soon: a change during a round is not lost.  A pass cut
\* off by its timeout between two keys counts as good, so it is left out (run, Refresh).
RecordsFollowAddresses ==
  closing = "open" /\ rv.pc = "wait" /\ ~slot /\ watch = addr =>
    \/ \A k \in site.keys : carried[k] = addr
    \/ "provide" \in rv.soon \/ rv.cutOff

\* A peer found under several keys is dialled once, and one still in its backoff or
\* cooldown not at all (round, recordDial).
DialsSpared == \A p \in InFlight : dialing[p] = 1 /\ PeerEligible(p)

\* Once Close has returned, nothing of the service still runs (Close, round).
ClosedIsQuiet == closing = "closed" => InFlight = {} /\ rv.call = None
================================================================================
