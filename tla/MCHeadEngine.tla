---------------------------- MODULE MCHeadEngine ----------------------------
(* A TLC instance of HeadEngine: the versioned hashes and the rows.          *)
EXTENDS HeadEngine

CONSTANTS v1, v2

MCRowVHs == {<<v1>>, <<v2, v1>>}
=============================================================================
