--------------------------- MODULE RegisterProjection ---------------------------
(***************************************************************************)
(* contracts/RegisterProjection.sol: the on-chain register.  It repeats    *)
(* the kernel's rules in Solidity, with guards of its own: the first entry *)
(* has an entry point to itself, the version is computed instead of        *)
(* submitted, and a zero holder is refused.  A transaction either runs to  *)
(* its end or reverts, so each entry point is one step.                    *)
(***************************************************************************)
EXTENDS TokenProjection

CONSTANTS
    Token,
    ZERO_ADDRESS

ASSUME ZeroAddressAssumption == ZERO_ADDRESS \notin Address
ASSUME FirstVersionAssumption == UINT64_MAX >= 1

VARIABLE entries    \* entries[tok]: the RegisterEntry[] of a token

\* What a caller may pass as a commitment or a holder.
Word == Commitment \cup {ZERO_BYTES32}
HolderArgument == Address \cup {ZERO_ADDRESS}

EntriesInit == entries = [tok \in Token |-> <<>>]

\* A push, with the interval before it closed.
Pushed(es, version, holder, at, commitment, previousCommitment) ==
    Admit(es, [version |-> version, holder |-> holder, effectiveAt |-> at,
               recordCommitment |-> commitment, previousCommitment |-> previousCommitment])

\* initialize, called by the source authority.
Initialize(tok, commitment, holder, at) ==
    /\ entries[tok] = <<>>
    /\ commitment # ZERO_BYTES32
    /\ holder # ZERO_ADDRESS
    /\ entries' = [entries EXCEPT ![tok] = Pushed(@, 1, holder, at, commitment, ZERO_BYTES32)]

\* currentEntry, which reverts on an empty list: callers state that guard.
CurrentEntry(tok) == entries[tok][Len(entries[tok])]

\* Seeded fault: the commitments already seen are not looked up.
FollowsReused(tok, commitment, previousCommitment, at) ==
    /\ previousCommitment = CurrentEntry(tok).recordCommitment
    /\ at > CurrentEntry(tok).effectiveAt

\* Seeded fault: an entry may take effect at the instant of its predecessor.
FollowsAtSameInstant(tok, commitment, previousCommitment, at) ==
    /\ previousCommitment = CurrentEntry(tok).recordCommitment
    /\ at >= CurrentEntry(tok).effectiveAt
    /\ commitment \notin CommitmentsOf(entries[tok])

\* Seeded fault: effectiveAt is not compared with the predecessor's.
FollowsInAnyOrder(tok, commitment, previousCommitment, at) ==
    /\ previousCommitment = CurrentEntry(tok).recordCommitment
    /\ commitment \notin CommitmentsOf(entries[tok])

\* The entry extends the history: linked, strictly later, never seen before.
Follows(tok, commitment, previousCommitment, at) ==
    /\ previousCommitment = CurrentEntry(tok).recordCommitment
    /\ at > CurrentEntry(tok).effectiveAt
    /\ commitment \notin CommitmentsOf(entries[tok])

\* admit, called by the source authority.  Adding one to the largest uint64
\* reverts.
AdmitNext(tok, commitment, previousCommitment, holder, at) ==
    /\ entries[tok] # <<>>
    /\ commitment # ZERO_BYTES32
    /\ holder # ZERO_ADDRESS
    /\ Follows(tok, commitment, previousCommitment, at)
    /\ CurrentEntry(tok).version < UINT64_MAX
    /\ entries' = [entries EXCEPT ![tok] =
                     Pushed(@, CurrentEntry(tok).version + 1, holder, at, commitment,
                            previousCommitment)]
=============================================================================
