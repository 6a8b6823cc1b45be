----------------------------- MODULE MCRetention -----------------------------
(* TLC instances of Retention.  The roots are those of a head with one slot  *)
(* to a window over slots 0 and 1, slot i carrying blob bi, under a window   *)
(* policy that retains the last slot: h is a Head, d its directory page, s a *)
(* sealed and o an open Segment.  The blocks each root retains and each      *)
(* mutation reads and writes are listed, and assumed to be the ones          *)
(* HeadIndex computes, which TLC evaluates.                                  *)
EXTENDS Retention, SequencesExt

CONSTANTS Undef, A

H == INSTANCE HeadIndex WITH SegBits <- 0, FanoutBits <- 1, OriginSlot <- 0,
                             WindowSlots <- 0, MaxOutputs <- 16

MCBlob == {"b0", "b1"}
MCBlock == {"h0", "h1", "h2", "d1", "d2", "s0", "s1", "o1", "o2"} \cup MCBlob
MCRoot == {"h0", "h1", "h2"}
MCInitRoot == [h \in Heads |-> "h0"]
MCNeed == [h0 |-> {"h0"},
           h1 |-> {"h1", "d1", "s0", "b0", "o1"},
           h2 |-> {"h2", "d2", "s0", "s1", "b1", "o2"}]
MCPuts == {{"b0"}, {"b1"}}

StepSeq(kind, s) == [i \in DOMAIN s |-> [kind |-> kind, block |-> s[i]]]
Change(from, to, gets, puts, refs) ==
  [head |-> A, from |-> from, to |-> to, refs |-> refs,
   steps |-> StepSeq("get", <<from>> \o gets) \o StepSeq("put", puts)]
MCMutation == {"apply1", "apply2", "replay1", "truncate"}
MCOp == [apply1 |-> Change("h0", "h1", <<"b0">>, <<"s0", "d1", "o1", "h1">>, {"b0"}),
         apply2 |-> Change("h1", "h2", <<"b1">>, <<"s1", "d2", "o2", "h2">>, {"b1"}),
         replay1 |-> Change("h1", "h1", <<>>, <<>>, {"b0"}),
         truncate |-> Change("h2", "h1", <<"b0">>, <<"s0", "d1", "o1", "h1">>, {})]

-----------------------------------------------------------------------------
\* The engine's own values

Rows == <<[slot |-> 0, vhs |-> <<"b0">>], [slot |-> 1, vhs |-> <<"b1">>]>>
S0 == H!EmptyState
Applied1 == H!ApplyRefs(S0, SubSeq(Rows, 1, 1), 0)
Applied2 == H!ApplyRefs(Applied1.st, SubSeq(Rows, 2, 2), 1)
State == [h0 |-> S0, h1 |-> Applied1.st, h2 |-> Applied2.st]
Result == [apply1 |-> Applied1, apply2 |-> Applied2,
           replay1 |-> H!ApplyRefs(State.h1, SubSeq(Rows, 1, 1), 0),
           truncate |-> H!Truncate(State.h2, 0, TRUE)]
Node == [h0 |-> H!HeadObject(State.h0), h1 |-> H!HeadObject(State.h1), h2 |-> H!HeadObject(State.h2),
         d1 |-> State.h1.dir, d2 |-> State.h2.dir, o1 |-> State.h1.open, o2 |-> State.h2.open,
         s0 |-> State.h2.dir.kids[1], s1 |-> State.h2.dir.kids[2],
         b0 |-> H!BlobBlock("b0"), b1 |-> H!BlobBlock("b1")]

Nodes(names) == {Node[x] : x \in names}
Done(m, kind) == {MCOp[m].steps[i].block : i \in {j \in DOMAIN MCOp[m].steps : MCOp[m].steps[j].kind = kind}}

ASSUME NeedsAgree == \A r \in MCRoot : Nodes(MCNeed[r]) = H!Retains("window", State[r])

ASSUME OpsAgree ==
  \A m \in MCMutation : /\ Result[m].st = State[MCOp[m].to]
                        /\ Nodes(Done(m, "put")) = Result[m].puts
                        /\ Nodes(Done(m, "get")) = {Node[MCOp[m].from]} \cup Result[m].gets
==============================================================================
