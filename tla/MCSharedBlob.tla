---------------------------- MODULE MCSharedBlob ----------------------------
(* The smallest instances of Retention with two heads that archive the same  *)
(* blob: a head's index is its Head block alone, root 0 is empty and root 1  *)
(* names the blob.                                                           *)
EXTENDS Retention

CONSTANTS b0, A, B,
          Keeping,    \* the heads whose policy retains blobs
          OpNames     \* the mutations of a head: some of "apply", "replay", "truncate"

MCBlob == {b0}
MCRoot == Heads \X {0, 1}
MCBlock == MCBlob \cup MCRoot
MCInitRoot == [h \in Heads |-> <<h, 0>>]
MCNeed == [r \in MCRoot |-> IF r[2] = 1 /\ r[1] \in Keeping THEN {r, b0} ELSE {r}]
MCMutation == Heads \X OpNames
Step(kind, b) == [kind |-> kind, block |-> b]
Change(h, m, n, refs) ==
  [head |-> h, from |-> <<h, m>>, to |-> <<h, n>>, refs |-> refs,
   steps |-> IF m = n THEN <<Step("get", <<h, m>>)>>
             ELSE <<Step("get", <<h, m>>)>> \o (IF refs = {} THEN <<>> ELSE <<Step("get", b0)>>)
                    \o <<Step("put", <<h, n>>)>>]
MCOp == [x \in MCMutation |-> CASE x[2] = "apply" -> Change(x[1], 0, 1, {b0})
                                [] x[2] = "replay" -> Change(x[1], 1, 1, {b0})
                                [] x[2] = "truncate" -> Change(x[1], 1, 0, {})]
MCPuts == {{b0}}

=============================================================================
