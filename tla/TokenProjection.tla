--------------------------- MODULE TokenProjection ---------------------------
(***************************************************************************)
(* One token's projection: the append-only sequence of entries that        *)
(* engine/projection/kernel.ts keeps in class TokenProjection, as          *)
(* operators on sequences.  A state machine that holds such a sequence     *)
(* (the off-chain store, the on-chain register) applies them; this module  *)
(* has no variables.                                                       *)
(*                                                                         *)
(* An entry is what types.ts calls ProjectionEntry.  registryReference is  *)
(* left out: no guard reads it.  The maps #commitments and #byVersion are  *)
(* indexes of the sequence and are computed from it here; as fields of     *)
(* their own, written by every admit and undo, they are in module          *)
(* IndexedProjection.                                                      *)
(***************************************************************************)
EXTENDS Naturals, Sequences

CONSTANTS
    Address,        \* who may hold a token
    Commitment,     \* record commitments (bytes32), the zero word excluded
    ZERO_BYTES32,   \* the zero word
    UINT64_MAX      \* the largest instant and version

ASSUME CommitmentAssumption == ZERO_BYTES32 \notin Commitment
ASSUME WidthAssumption == UINT64_MAX \in Nat

Uint64 == 0 .. UINT64_MAX

FIRST_VERSION == 1

\* What a submitter supplies.
CandidateEntry ==
    [version : Uint64, holder : Address, effectiveAt : Uint64,
     recordCommitment : Commitment \cup {ZERO_BYTES32},
     previousCommitment : Commitment \cup {ZERO_BYTES32}]

\* What is kept: supersededAt is 0 on the latest entry.
ProjectionEntry ==
    [version : Uint64, holder : Address, effectiveAt : Uint64, supersededAt : Uint64,
     recordCommitment : Commitment \cup {ZERO_BYTES32},
     previousCommitment : Commitment \cup {ZERO_BYTES32}]

\* validateCandidateShape, for a candidate whose fields have their types.
ValidShape(c) ==
    /\ c.recordCommitment # ZERO_BYTES32
    /\ c.recordCommitment # c.previousCommitment

CommitmentsOf(es) == {es[i].recordCommitment : i \in DOMAIN es}

\* Invariants 1 to 3, against the entry the candidate is to follow.
Succeeds(es, c) ==
    IF es = <<>>
    THEN /\ c.version = FIRST_VERSION
         /\ c.previousCommitment = ZERO_BYTES32
    ELSE LET previous == es[Len(es)]
         IN  /\ c.version = previous.version + 1
             /\ c.previousCommitment = previous.recordCommitment
             /\ c.effectiveAt > previous.effectiveAt

\* Seeded fault: an entry may take effect at the instant of its predecessor.
AdmissibleAtSameInstant(es, c) ==
    /\ ValidShape(c)
    /\ IF es = <<>>
       THEN /\ c.version = FIRST_VERSION
            /\ c.previousCommitment = ZERO_BYTES32
       ELSE LET previous == es[Len(es)]
            IN  /\ c.version = previous.version + 1
                /\ c.previousCommitment = previous.recordCommitment
                /\ c.effectiveAt >= previous.effectiveAt
    /\ c.recordCommitment \notin CommitmentsOf(es)

\* Seeded fault: effectiveAt is not compared with the predecessor's.
AdmissibleInAnyOrder(es, c) ==
    /\ ValidShape(c)
    /\ IF es = <<>>
       THEN /\ c.version = FIRST_VERSION
            /\ c.previousCommitment = ZERO_BYTES32
       ELSE LET previous == es[Len(es)]
            IN  /\ c.version = previous.version + 1
                /\ c.previousCommitment = previous.recordCommitment
    /\ c.recordCommitment \notin CommitmentsOf(es)

\* The guards of TokenProjection.admit, in the order the code tries them.
Admissible(es, c) ==
    /\ ValidShape(c)
    /\ Succeeds(es, c)
    /\ c.recordCommitment \notin CommitmentsOf(es)

NewEntry(c) ==
    [version |-> c.version, holder |-> c.holder, effectiveAt |-> c.effectiveAt,
     supersededAt |-> 0, recordCommitment |-> c.recordCommitment,
     previousCommitment |-> c.previousCommitment]

\* The sequence with the last entry's interval closed at an instant (0 opens it).
CloseLast(es, at) ==
    IF es = <<>> THEN es ELSE [es EXCEPT ![Len(es)].supersededAt = at]

\* TokenProjection.admit on an admissible candidate.
Admit(es, c) == Append(CloseLast(es, c.effectiveAt), NewEntry(c))

\* Seeded fault: the entry is taken off but the interval it closed stays closed.
UndoWithoutReopening(es) ==
    IF es = <<>> THEN es ELSE SubSeq(es, 1, Len(es) - 1)

\* TokenProjection.undoLastAdmit.
UndoLastAdmit(es) ==
    IF es = <<>> THEN es ELSE CloseLast(SubSeq(es, 1, Len(es) - 1), 0)

-----------------------------------------------------------------------------
(* Reads. *)

Covered(es, t) == es # <<>> /\ t >= es[1].effectiveAt

\* The index entryAsOf answers from: the last entry in effect at t.  The binary
\* search that finds it is module AsOfSearch.
AsOfIndex(es, t) ==
    CHOOSE i \in DOMAIN es :
        /\ es[i].effectiveAt <= t
        /\ \A j \in DOMAIN es : es[j].effectiveAt <= t => j <= i

EntryAsOf(es, t) == es[AsOfIndex(es, t)]

HolderAsOf(es, t) == EntryAsOf(es, t).holder

IsFinalAsOf(es, t) ==
    es # <<>> /\ es[1].effectiveAt <= t /\ t < es[Len(es)].effectiveAt

-----------------------------------------------------------------------------
(* The four projection invariants of the standard, as the kernel's header   *)
(* comment numbers them, and the supersededAt bookkeeping admit maintains.  *)

Consecutive(es) == \A i \in DOMAIN es : es[i].version = i

Linked(es) ==
    \A i \in DOMAIN es :
        es[i].previousCommitment = IF i = 1 THEN ZERO_BYTES32 ELSE es[i - 1].recordCommitment

Increasing(es) ==
    \A i, j \in DOMAIN es : i < j => es[i].effectiveAt < es[j].effectiveAt

NeverReused(es) ==
    \A i, j \in DOMAIN es : i # j => es[i].recordCommitment # es[j].recordCommitment

IntervalsClosed(es) ==
    \A i \in DOMAIN es :
        es[i].supersededAt = IF i = Len(es) THEN 0 ELSE es[i + 1].effectiveAt

ProjectionInvariants(es) ==
    /\ Consecutive(es)
    /\ Linked(es)
    /\ Increasing(es)
    /\ NeverReused(es)
    /\ IntervalsClosed(es)
=============================================================================
