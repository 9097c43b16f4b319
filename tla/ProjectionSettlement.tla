-------------------------- MODULE ProjectionSettlement --------------------------
(***************************************************************************)
(* contracts/ProjectionSettlement.sol over contracts/RegisterProjection    *)
(* .sol, with contracts/AttestationProofVerifier.sol as its verifier.  The *)
(* settlement contract is the register's immutable source authority, so    *)
(* these transactions are the only ones that write the register.           *)
(*                                                                         *)
(* A binding digest is the record of the fields it hashes (keccak256 over  *)
(* fixed-width fields is taken to be injective); chain id, contract,       *)
(* snapshot hash and registry reference are the same in every binding of   *)
(* the model and are left out.  A proof is the attestor's signature over a *)
(* binding, so a proof is the binding it was made for.                     *)
(***************************************************************************)
EXTENDS RegisterProjection, FiniteSets

CONSTANTS
    SettlementId,
    NoGap,              \* bytes32(0) as a settlement identifier
    Account,            \* who sends transactions
    Authority,          \* the accounts fixed at construction
    SettlementPeriod,
    MaxTime,            \* bound: block timestamps
    MaxSigned           \* bound: how many bindings the attestor signs

ASSUME SettlementAssumption ==
    /\ NoGap \notin SettlementId
    /\ Authority \subseteq Account
    /\ SettlementPeriod \in Nat \ {0}
    /\ MaxTime \in Nat /\ MaxSigned \in Nat

VARIABLES
    settlements,    \* _settlements
    openGap,        \* _openGap
    timestamp,      \* block.timestamp
    signed          \* the bindings the attestor has signed (external)

vars == <<entries, settlements, openGap, timestamp, signed>>

Time == 0 .. MaxTime

NoSettlement == [status |-> "NONE"]

Settlement ==
    [tokenId : Token, initiator : Account, expectedHolder : Address, deadline : Time,
     status : {"OPEN", "ADMITTED", "CANCELLED"}]

Binding ==
    [tokenId : Token, settlementId : SettlementId \cup {NoGap}, holder : Address,
     priorCommitment : Word, nextCommitment : Word, version : Uint64, effectiveAt : Uint64]

Init ==
    /\ EntriesInit
    /\ settlements = [sid \in SettlementId |-> NoSettlement]
    /\ openGap = [tok \in Token |-> NoGap]
    /\ timestamp = 0
    /\ signed = {}

-----------------------------------------------------------------------------
(* What a proof is bound to.                                                 *)

InitializationBinding(tok, commitment, holder, at) ==
    [tokenId |-> tok, settlementId |-> NoGap, holder |-> holder,
     priorCommitment |-> ZERO_BYTES32, nextCommitment |-> commitment,
     version |-> 1, effectiveAt |-> at]

\* Seeded fault: the settlement is not part of what is signed.
BindingOfAnySettlement(sid, commitment, at) ==
    LET record == settlements[sid]
        previous == CurrentEntry(record.tokenId)
    IN  [tokenId |-> record.tokenId, settlementId |-> NoGap, holder |-> record.expectedHolder,
         priorCommitment |-> previous.recordCommitment, nextCommitment |-> commitment,
         version |-> previous.version + 1, effectiveAt |-> at]

\* admissionBinding, of a known settlement over an initialised register.
AdmissionBinding(sid, commitment, at) ==
    LET record == settlements[sid]
        previous == CurrentEntry(record.tokenId)
    IN  [tokenId |-> record.tokenId, settlementId |-> sid, holder |-> record.expectedHolder,
         priorCommitment |-> previous.recordCommitment, nextCommitment |-> commitment,
         version |-> previous.version + 1, effectiveAt |-> at]

\* When admissionBinding does not revert.
Bindable(sid) ==
    /\ settlements[sid].status # "NONE"
    /\ entries[settlements[sid].tokenId] # <<>>
    /\ CurrentEntry(settlements[sid].tokenId).version < UINT64_MAX

\* verifyAdmission: the proof is the attestor's signature over this digest.
VerifyAdmission(digest, proof) == proof \in signed /\ proof = digest

-----------------------------------------------------------------------------
(* The attestor signs what the contract's two view functions answer at that *)
(* moment; the signature stays good for whoever holds it, whenever it is    *)
(* submitted.                                                                *)

Sign(digest) ==
    /\ Cardinality(signed) < MaxSigned
    /\ signed' = signed \cup {digest}
    /\ UNCHANGED <<entries, settlements, openGap, timestamp>>

SignInitialization(tok, commitment, holder, at) ==
    Sign(InitializationBinding(tok, commitment, holder, at))

SignAdmission(sid, commitment, at) ==
    Bindable(sid) /\ Sign(AdmissionBinding(sid, commitment, at))

-----------------------------------------------------------------------------
(* Transactions.                                                             *)

InitializeRegister(sender, tok, commitment, holder, at, proof) ==
    /\ sender \in Authority
    /\ VerifyAdmission(InitializationBinding(tok, commitment, holder, at), proof)
    /\ Initialize(tok, commitment, holder, at)
    /\ UNCHANGED <<settlements, openGap, timestamp, signed>>

\* Seeded fault: a second gap may be opened on a token.
UnusedIdentifier(sid, tok) == settlements[sid].status = "NONE"

\* The identifier is fresh and the token has no open gap.
MayOpen(sid, tok) == settlements[sid].status = "NONE" /\ openGap[tok] = NoGap

BeginSettlement(sender, sid, tok, holder, deadline) ==
    /\ holder # ZERO_ADDRESS
    /\ sender \in Authority
    /\ MayOpen(sid, tok)
    /\ deadline > timestamp
    /\ deadline - timestamp <= SettlementPeriod
    /\ settlements' = [settlements EXCEPT ![sid] =
                         [tokenId |-> tok, initiator |-> sender, expectedHolder |-> holder,
                          deadline |-> deadline, status |-> "OPEN"]]
    /\ openGap' = [openGap EXCEPT ![tok] = sid]
    /\ UNCHANGED <<entries, timestamp, signed>>

\* Seeded fault: the closed settlement keeps its status.
CloseOnlyPointer(sid, status) ==
    /\ openGap' = [openGap EXCEPT ![settlements[sid].tokenId] = NoGap]
    /\ settlements' = settlements

\* Seeded fault: the closed settlement keeps nothing but its status.
CloseForgetting(sid, status) ==
    /\ openGap' = [openGap EXCEPT ![settlements[sid].tokenId] = NoGap]
    /\ settlements' = [settlements EXCEPT ![sid] = [status |-> status]]

\* The status and the pointer, which finalize and cancel write one after the
\* other.
CloseGap(sid, status) ==
    /\ openGap' = [openGap EXCEPT ![settlements[sid].tokenId] = NoGap]
    /\ settlements' = [settlements EXCEPT ![sid].status = status]

\* Seeded fault: the deadline no longer ends what may be finalised.
OpenAtAnyTime(record) == record.status = "OPEN"

\* A settlement that may still be finalised.
OpenInTime(record) == record.status = "OPEN" /\ timestamp <= record.deadline

\* Anyone may send it.
FinalizeSettlement(sid, commitment, at, proof) ==
    LET record == settlements[sid]
    IN  /\ OpenInTime(record)
        /\ Bindable(sid)
        /\ VerifyAdmission(AdmissionBinding(sid, commitment, at), proof)
        /\ AdmitNext(record.tokenId, commitment, CurrentEntry(record.tokenId).recordCommitment,
                     record.expectedHolder, at)
        /\ CloseGap(sid, "ADMITTED")
        /\ UNCHANGED <<timestamp, signed>>

CancelSettlement(sender, sid) ==
    LET record == settlements[sid]
    IN  /\ record.status = "OPEN"
        /\ sender = record.initiator
        /\ timestamp > record.deadline
        /\ CloseGap(sid, "CANCELLED")
        /\ UNCHANGED <<entries, timestamp, signed>>

\* A block with a later timestamp.
NextBlock ==
    /\ timestamp < MaxTime
    /\ timestamp' = timestamp + 1
    /\ UNCHANGED <<entries, settlements, openGap, signed>>
-----------------------------------------------------------------------------

Next ==
    \/ \E tok \in Token, c \in Commitment, holder \in Address, at \in Uint64 :
          SignInitialization(tok, c, holder, at)
    \/ \E sid \in SettlementId, c \in Commitment, at \in Uint64 : SignAdmission(sid, c, at)
    \/ \E sender \in Account, tok \in Token, c \in Word, holder \in HolderArgument,
          at \in Uint64, proof \in signed :
          InitializeRegister(sender, tok, c, holder, at, proof)
    \/ \E sender \in Account, sid \in SettlementId, tok \in Token, holder \in HolderArgument,
          deadline \in Time : BeginSettlement(sender, sid, tok, holder, deadline)
    \/ \E sid \in SettlementId, c \in Word, at \in Uint64, proof \in signed :
          FinalizeSettlement(sid, c, at, proof)
    \/ \E sender \in Account, sid \in SettlementId : CancelSettlement(sender, sid)
    \/ NextBlock

Spec == Init /\ [][Next]_vars

-----------------------------------------------------------------------------
(* Properties.                                                               *)

\* Every variable has its type.
TypeOK ==
    /\ entries \in [Token -> Seq(ProjectionEntry)]
    /\ settlements \in [SettlementId -> Settlement \cup {NoSettlement}]
    /\ openGap \in [Token -> SettlementId \cup {NoGap}]
    /\ timestamp \in Time
    /\ signed \subseteq Binding

\* The contract keeps the four projection invariants of the standard and the
\* interval bookkeeping the kernel keeps off chain, though its guards are
\* written differently.
RegisterSound == \A tok \in Token : ProjectionInvariants(entries[tok])

\* No history without evidence: every entry, the first included, is one the
\* attestor signed, with its holder, its predecessor, its version, its instant
\* and the settlement it closed; and that settlement was for this token and
\* this holder, and is recorded as admitted.
EveryEntryProved ==
    \A tok \in Token : \A i \in DOMAIN entries[tok] :
        \E b \in signed :
            /\ b.tokenId = tok
            /\ b.holder = entries[tok][i].holder
            /\ b.priorCommitment = entries[tok][i].previousCommitment
            /\ b.nextCommitment = entries[tok][i].recordCommitment
            /\ b.version = i
            /\ b.effectiveAt = entries[tok][i].effectiveAt
            /\ b.settlementId = NoGap <=> i = 1
            /\ i > 1 => /\ settlements[b.settlementId].status = "ADMITTED"
                        /\ settlements[b.settlementId].tokenId = tok
                        /\ settlements[b.settlementId].expectedHolder = b.holder

\* A signature admits at most once: after the first, a token has exactly as
\* many entries as it has admitted settlements.
OneEntryPerSettlement ==
    \A tok \in Token :
        LET admitted == {sid \in SettlementId :
                            /\ settlements[sid].status = "ADMITTED"
                            /\ settlements[sid].tokenId = tok}
        IN  IF entries[tok] = <<>> THEN admitted = {}
            ELSE Len(entries[tok]) = 1 + Cardinality(admitted)

\* The two mappings agree: a token's pointer names exactly its open settlement.
GapPointerConsistent ==
    \A tok \in Token, sid \in SettlementId :
        openGap[tok] = sid <=>
            /\ settlements[sid].status = "OPEN"
            /\ settlements[sid].tokenId = tok

\* What an open gap promises: until its deadline it can only end by admitting
\* an entry on its token, after it only without one.
GapPromise ==
    [][\A sid \in SettlementId :
        LET before == settlements[sid]
            after == settlements'[sid]
            tok == before.tokenId
        IN  before.status = "OPEN" /\ after.status # "OPEN" =>
                IF timestamp <= before.deadline
                THEN after.status = "ADMITTED" /\ Len(entries'[tok]) = Len(entries[tok]) + 1
                ELSE after.status = "CANCELLED" /\ entries'[tok] = entries[tok]]_vars

\* Settlement confers no finality (ProjectionSettlement.sol:40-46): an instant
\* becomes final only in a step that admits an entry, only up to that entry's
\* effective time, and then stays final with the same answer.
FinalityOnlyByAdmission ==
    [][\A tok \in Token, t \in Uint64 :
        /\ IsFinalAsOf(entries'[tok], t) /\ ~IsFinalAsOf(entries[tok], t) =>
             /\ openGap[tok] # NoGap /\ openGap'[tok] = NoGap
             /\ CurrentEntry(tok).effectiveAt <= t
             /\ t < entries'[tok][Len(entries[tok]) + 1].effectiveAt
        /\ IsFinalAsOf(entries[tok], t) =>
             /\ IsFinalAsOf(entries'[tok], t)
             /\ EntryAsOf(entries'[tok], t) = EntryAsOf(entries[tok], t)]_vars

\* The contracts implement the append-only register.
Register ==
    INSTANCE AppendOnlyRegister WITH
        Instant <- Uint64,
        history <- [t \in Token |->
                      [i \in DOMAIN entries[t] |->
                         [holder |-> entries[t][i].holder,
                          effectiveAt |-> entries[t][i].effectiveAt]]]

ImplementsRegister == Register!Spec
=============================================================================
