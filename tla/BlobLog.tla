------------------------------ MODULE BlobLog ------------------------------
(***************************************************************************)
(* What a head promises, without its index: coverage of the slots from     *)
(* OriginSlot to synced, and for each slot the list of versioned hashes    *)
(* committed for it (none if the slot carried no blobs).  A covered slot's *)
(* answer never changes until an administrator rewinds coverage past it.   *)
(***************************************************************************)
EXTENDS Naturals

CONSTANTS OriginSlot, Slot, RowVHs

VARIABLES covered, synced, rows

NoRow == <<>>

Init == /\ covered = FALSE
        /\ synced = 0
        /\ rows = [x \in Slot |-> NoRow]

\* Coverage grows and only slots past the old coverage gain rows.
Extend ==
  /\ covered' = TRUE
  /\ synced' \in {x \in Slot : x >= OriginSlot /\ (covered => x > synced)}
  /\ rows' \in [Slot -> RowVHs \cup {NoRow}]
  /\ \A x \in Slot :
       IF x < OriginSlot \/ x > synced' THEN rows'[x] = NoRow
       ELSE covered /\ x <= synced => rows'[x] = rows[x]

\* Coverage shrinks to an earlier slot; what is still covered is unchanged.
Rewind ==
  /\ covered
  /\ covered' = TRUE
  /\ synced' \in OriginSlot .. synced
  /\ rows' = [x \in Slot |-> IF x <= synced' THEN rows[x] ELSE NoRow]

Reset ==
  /\ covered' = FALSE
  /\ synced' = 0
  /\ rows' = [x \in Slot |-> NoRow]

Next == Extend \/ Rewind \/ Reset

Spec == Init /\ [][Next]_<<covered, synced, rows>>
=============================================================================
