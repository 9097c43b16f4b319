-------------------------- MODULE MCProjectionClient --------------------------
(* Model values for TLC; see client_reads.cfg and client_pages.cfg for bounds. *)
EXTENDS ProjectionClient

CONSTANTS alice, bob, carol, c1, c2, c3, t1, s1, r1

DataSymmetry == Permutations({c1, c2, c3}) \cup Permutations({alice, bob})
=============================================================================
