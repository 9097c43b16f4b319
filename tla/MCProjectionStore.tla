--------------------------- MODULE MCProjectionStore ---------------------------
(* Model values for TLC; see the .cfg files of the runs for the bounds.       *)
EXTENDS ProjectionStore

CONSTANTS alice, bob, c1, c2, c3, t1, t2, s1, s2, r1, r2

SettlementSymmetry == Permutations({s1, s2})
=============================================================================
