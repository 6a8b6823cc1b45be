---------------------------- MODULE FinalizedClaims ----------------------------
(***************************************************************************)
(* Comparing and arbitrating independently signed claims about one         *)
(* finalized head (follow/equivalence.go, follow/arbitration.go).          *)
(*                                                                         *)
(* A root commits to every slot below its synced_to and a manifest tip to  *)
(* every manifest below it, so a claim is the two histories it commits to. *)
(* An empty log is an uncovered line; an empty manifest history is a line  *)
(* that carries no manifest.                                               *)
(***************************************************************************)
EXTENDS Naturals, Sequences

\* Truncating the longer history to the shorter one's length reproduces it.
Projects(higher, lower) ==
  /\ Len(lower) <= Len(higher)
  /\ \A i \in 1 .. Len(lower) : higher[i] = lower[i]

\* compareClaimRoots: equal coverage needs equal roots, unequal coverage an
\* exact projection; anything else is cryptographic conflict evidence.
CompareRoots(l, r) ==
  IF l.log = r.log THEN "equivalent"
  ELSE IF Len(l.log) > Len(r.log) /\ Projects(l.log, r.log) THEN "left"
  ELSE IF Len(l.log) < Len(r.log) /\ Projects(r.log, l.log) THEN "right"
  ELSE "conflict"

\* compareClaimManifests: a manifest on one side only is incomparable, and two
\* tips neither of which descends from the other are a branch.
CompareManifests(l, r) ==
  IF l.mani = r.mani THEN "equivalent"
  ELSE IF l.mani = <<>> \/ r.mani = <<>> THEN "incomparable"
  ELSE IF Projects(l.mani, r.mani) THEN "left"
  ELSE IF Projects(r.mani, l.mani) THEN "right"
  ELSE "conflict"

\* classifyLoadedFinalizedClaims: the roots are compared first, and a conflict
\* there is reported before the manifests are read.
Relation(l, r) ==
  LET roots == CompareRoots(l, r)
      manifests == CompareManifests(l, r)
  IN  IF "conflict" \in {roots, manifests} THEN "conflict"
      ELSE IF roots = "equivalent" THEN manifests
      ELSE IF manifests = "equivalent" \/ roots = manifests THEN roots
      ELSE "incomparable"

Covers(l, r) == Relation(l, r) \in {"equivalent", "left"}

\* selectFinalizedClaim over the observations of one head, a function from the
\* sources (ordered by identifier) to their claims.
ConflictPairs(obs) ==
  {p \in (DOMAIN obs) \X (DOMAIN obs) : p[1] < p[2] /\ Relation(obs[p[1]], obs[p[2]]) = "conflict"}

Winners(obs) ==
  IF ConflictPairs(obs) # {} THEN {}
  ELSE {s \in DOMAIN obs : \A t \in DOMAIN obs : Covers(obs[s], obs[t])}

\* Equivalent winners are one semantic result; the first identifier names it.
Representative(obs) == CHOOSE s \in Winners(obs) : \A t \in Winners(obs) : s <= t
================================================================================
