----------------------------- MODULE MCReadAccess -----------------------------
(* Model values for TLC; see read_access.cfg for the bounds.                  *)
EXTENDS ReadAccess, TLC

CONSTANTS tenant1, tenant2, register1, register2, key1, key2, ann, bob, api, console

AccessSymmetry == Permutations({tenant1, tenant2}) \cup Permutations({register1, register2})
                    \cup Permutations({key1, key2})
=============================================================================
