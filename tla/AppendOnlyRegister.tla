-------------------------- MODULE AppendOnlyRegister --------------------------
(***************************************************************************)
(* What a projected register promises its readers, whatever holds it: each *)
(* token has a history that only ever grows at its end, and every appended *)
(* fact takes effect strictly after the one before it.  The off-chain      *)
(* store and the on-chain register are shown to implement this module.     *)
(***************************************************************************)
EXTENDS Naturals, Sequences

CONSTANTS Token, Address, Instant

VARIABLE history    \* history[t] : the facts [holder, effectiveAt] of token t

Fact == [holder : Address, effectiveAt : Instant]

Init == history = [t \in Token |-> <<>>]

Append1(t, fact) ==
    /\ history[t] # <<>> => fact.effectiveAt > history[t][Len(history[t])].effectiveAt
    /\ history' = [history EXCEPT ![t] = Append(@, fact)]

Next == \E t \in Token, fact \in Fact : Append1(t, fact)

Spec == Init /\ [][Next]_history
=============================================================================
