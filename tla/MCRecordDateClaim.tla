--------------------------- MODULE MCRecordDateClaim ---------------------------
(* Model values for TLC; see onchain_settlement.cfg for the bounds.           *)
EXTENDS RecordDateClaim, TLC

CONSTANTS registrar, alice, c1, c2, c3, t1, s1, s2

ContractSymmetry ==
    Permutations({s1, s2}) \cup Permutations({c1, c2, c3})
=============================================================================
