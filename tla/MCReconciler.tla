----------------------------- MODULE MCReconciler -----------------------------
(* TLC instances of Reconciler over three roots of a head with two slots to  *)
(* a window: h0 is empty, h1 has one open row, and h2 a sealed segment, the   *)
(* one that was open under h1, below a second open row.  d is the directory   *)
(* page, s0 and s1 are Segments.  The pins a policy asks for and the blocks   *)
(* they reach are listed, and assumed to be the ones HeadIndex computes,      *)
(* which TLC evaluates.                                                      *)
EXTENDS Reconciler

CONSTANT Undef

H == INSTANCE HeadIndex WITH SegBits <- 1, FanoutBits <- 1, OriginSlot <- 0,
                             WindowSlots <- 0, MaxOutputs <- 16

MCRoot == {"h0", "h1", "h2"}
MCPolicy == {"full", "window", "none"}
MCConfigs == {[h \in Heads |-> m] : m \in MCPolicy}
MCBlock == MCRoot \cup {"d", "s0", "s1", "b0", "b1"}

Direct(purpose, cid) == [purpose |-> purpose, cid |-> cid, recursive |-> FALSE]
Recursive(purpose, cid) == [purpose |-> purpose, cid |-> cid, recursive |-> TRUE]

Sealed == {Direct("root", "h2"), Direct("index", "d"), Direct("index", "s0")}
MCWant ==
  [full   |-> [h0 |-> {Recursive("root", "h0")}, h1 |-> {Recursive("root", "h1")},
               h2 |-> {Recursive("root", "h2")}],
   window |-> [h0 |-> {Direct("root", "h0")}, h1 |-> {Direct("root", "h1"), Recursive("open", "s0")},
               h2 |-> Sealed \cup {Recursive("open", "s1")}],
   none   |-> [h0 |-> {Direct("root", "h0")}, h1 |-> {Direct("root", "h1"), Direct("open", "s0")},
               h2 |-> Sealed \cup {Direct("open", "s1")}]]
MCPin == UNION {MCWant[m][r] : m \in MCPolicy, r \in MCRoot}

Below == [h0 |-> {}, h1 |-> {"s0", "b0"}, h2 |-> {"d", "s0", "b0", "s1", "b1"},
          s0 |-> {"b0"}, s1 |-> {"b1"}, d |-> {"s0", "b0"}]
MCReach == [p \in MCPin |-> {p.cid} \cup (IF p.recursive THEN Below[p.cid] ELSE {})]

-----------------------------------------------------------------------------
\* The engine's own values

Row(slot, vh) == [slot |-> slot, vhs |-> <<vh>>]
Opened == H!ApplyRefs(H!EmptyState, <<Row(0, "b0")>>, 0).st
Grown == H!ApplyRefs(Opened, <<Row(2, "b1")>>, 2).st
State == [h0 |-> H!EmptyState, h1 |-> Opened, h2 |-> Grown]
Node == [h0 |-> H!HeadObject(State.h0), h1 |-> H!HeadObject(State.h1), h2 |-> H!HeadObject(State.h2),
         d |-> Grown.dir, s0 |-> Opened.open, s1 |-> Grown.open,
         b0 |-> H!BlobBlock("b0"), b1 |-> H!BlobBlock("b1")]
NodePin(p) == [p EXCEPT !.cid = Node[@]]

ASSUME WantsAgree ==
  \A m \in MCPolicy, r \in MCRoot :
    {NodePin(p) : p \in MCWant[m][r]} = H!Desired(m, H!Enumerate(State[r]))

ASSUME ReachAgrees ==
  \A p \in MCPin : {Node[x] : x \in MCReach[p]} = H!Marked(NodePin(p))
===============================================================================
