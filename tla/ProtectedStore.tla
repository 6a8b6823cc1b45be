--------------------------- MODULE ProtectedStore ---------------------------
(* What the epoch blockstore promises: a set of blocks whose operations are  *)
(* atomic, in which a collection never deletes a block that a successful     *)
(* operation of the application has found or stored since it began.          *)
(* Retention takes its store to be this one.                                 *)
CONSTANT Key

VARIABLES
  stored,     \* the blocks present
  collecting, \* a collection is in progress
  known       \* the blocks the application may count on until the next one begins

vars == <<stored, collecting, known>>

Init == stored \subseteq Key /\ collecting = FALSE /\ known = {}

Read(k) == k \in stored /\ known' = known \cup {k} /\ UNCHANGED <<stored, collecting>>
Write(k) == stored' = stored \cup {k} /\ known' = known \cup {k} /\ UNCHANGED collecting

\* A failed write may have stored the block; nobody may count on it.
Fail(k) == stored' = stored \cup {k} /\ UNCHANGED <<known, collecting>>
Delete(k) == stored' = stored \ {k} /\ known' = known \ {k} /\ UNCHANGED collecting

Begin == ~collecting /\ collecting' = TRUE /\ known' = {} /\ UNCHANGED stored
Sweep(k) == collecting /\ k \notin known /\ stored' = stored \ {k} /\ UNCHANGED <<known, collecting>>
End == collecting /\ collecting' = FALSE /\ UNCHANGED <<stored, known>>

Next ==
  \/ \E k \in Key : Read(k) \/ Write(k) \/ Fail(k) \/ Delete(k) \/ Sweep(k)
  \/ Begin \/ End

Spec == Init /\ [][Next]_vars
=============================================================================
