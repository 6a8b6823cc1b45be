------------------------------ MODULE MCWriterNode -----------------------------
(***************************************************************************)
(* A chain with a missed slot and a fork above it:                         *)
(*   g(0) <- a1(1) <- a3(3)     a1 <- b2(2)                                *)
(* and the deployments of one run.  Open sources end at block 9.           *)
(***************************************************************************)
EXTENDS WriterNode, TLC

CONSTANTS g, a1, b2, a3, v1, v2, v3, alice, bob, i1, i2

MCSlotOf == (g :> 0) @@ (a1 :> 1) @@ (b2 :> 2) @@ (a3 :> 3)
MCParentOf == (g :> None) @@ (a1 :> g) @@ (b2 :> a1) @@ (a3 :> a1)
MCRowOf == (g :> {}) @@ (a1 :> {v1}) @@ (b2 :> {v2}) @@ (a3 :> {v1, v3})
MCPostedBy == (alice :> {v1, v2}) @@ (bob :> {v3})

Src(who, from, until) == [who |-> who, from |-> from, until |-> until]
MCSchedules == {<<Src(alice, 0, 9)>>,
                <<Src(alice, 0, 1), Src(bob, 2, 9)>>,
                <<Src(alice, 0, 2), Src(bob, 2, 9)>>,
                <<Src(alice, 0, 1), Src(bob, 3, 9)>>}

Plain == [blocks |-> Block, origin |-> 0, checkpoint |-> None, mirror |-> FALSE, fetch |-> FALSE,
          clients |-> {}, indexers |-> {i1}, faulty |-> {"indexer"}, limit |-> 2]
MCSites == {[Plain EXCEPT !.clients = {"tracker"}, !.faulty = {"tracker", "node", "operator"}, !.limit = 1],
            [Plain EXCEPT !.blocks = {a3}, !.clients = {"tracker"}, !.faulty = {"answer"}],
            [Plain EXCEPT !.clients = {"filter"}, !.faulty = {"filter", "operator"}, !.limit = 1],
            [Plain EXCEPT !.clients = {"filter"}, !.fetch = TRUE, !.indexers = {}, !.faulty = {"filter", "operator"}],
            [Plain EXCEPT !.indexers = {i1, i2}],
            [Plain EXCEPT !.origin = 1, !.checkpoint = g],
            [Plain EXCEPT !.mirror = TRUE]}

\* The same with fewer faults, for the properties that need the whole graph.
ProgressSites == {[Plain EXCEPT !.clients = {"tracker"}, !.faulty = {"node"}, !.limit = 1],
                  [Plain EXCEPT !.clients = {"filter"}, !.limit = 0],
                  [Plain EXCEPT !.indexers = {i1, i2}, !.limit = 1],
                  [Plain EXCEPT !.origin = 1, !.checkpoint = g],
                  [Plain EXCEPT !.mirror = TRUE]}
================================================================================
