----------------------- MODULE ProjectionSettlementProofs -----------------------
(***************************************************************************)
(* The contracts, for any number of tokens, settlements, senders and       *)
(* entries: types, the projection invariants of every history, the         *)
(* promises gaps are kept to, and the refinement of the append-only        *)
(* register; then the claim, for any register behind it, any ether forced  *)
(* into it and any code its payee runs while it is being paid.             *)
(***************************************************************************)
EXTENDS RecordDateClaim, TokenProjectionProofs, FiniteSetTheorems

-----------------------------------------------------------------------------
(* The register's own guards imply the kernel's.                            *)

Candidate(version, holder, at, commitment, previousCommitment) ==
    [version |-> version, holder |-> holder, effectiveAt |-> at,
     recordCommitment |-> commitment, previousCommitment |-> previousCommitment]

LEMMA CurrentEntryTyped ==
    ASSUME NEW es \in Seq(ProjectionEntry), es # <<>>
    PROVE  /\ Len(es) \in Nat /\ Len(es) >= 1
           /\ es[Len(es)] \in ProjectionEntry
           /\ es[Len(es)].version \in Nat
           /\ es[Len(es)].effectiveAt \in Nat
           /\ es[Len(es)].recordCommitment \in Word
<1>1. Len(es) \in Nat /\ Len(es) >= 1
  OBVIOUS
<1>2. es[Len(es)] \in ProjectionEntry
  BY <1>1
<1> QED
  BY <1>1, <1>2, WidthAssumption DEF ProjectionEntry, Uint64, Word

\* initialize and admit push what the kernel would have admitted.
LEMMA InitializeAdmits ==
    ASSUME entries \in [Token -> Seq(ProjectionEntry)],
           NEW tok \in Token, NEW commitment \in Word, NEW holder \in HolderArgument,
           NEW at \in Uint64, Initialize(tok, commitment, holder, at)
    PROVE  \E c \in CandidateEntry :
             /\ Admissible(entries[tok], c)
             /\ entries' = [entries EXCEPT ![tok] = Admit(entries[tok], c)]
<1> DEFINE c == Candidate(1, holder, at, commitment, ZERO_BYTES32)
<1>1. c \in CandidateEntry
  BY WidthAssumption, FirstVersionAssumption
  DEF Initialize, Candidate, CandidateEntry, Uint64, Word, HolderArgument
<1>2. Admissible(entries[tok], c)
  BY DEF Initialize, Candidate, Admissible, Succeeds, ValidShape, FIRST_VERSION, CommitmentsOf
<1>3. entries' = [entries EXCEPT ![tok] = Admit(entries[tok], c)]
  BY DEF Initialize, Pushed, Candidate
<1> QED
  BY <1>1, <1>2, <1>3

LEMMA AdmitNextAdmits ==
    ASSUME entries \in [Token -> Seq(ProjectionEntry)],
           NEW tok \in Token, NEW commitment \in Word, NEW previousCommitment \in Word,
           NEW holder \in HolderArgument, NEW at \in Uint64,
           AdmitNext(tok, commitment, previousCommitment, holder, at)
    PROVE  \E c \in CandidateEntry :
             /\ Admissible(entries[tok], c)
             /\ entries' = [entries EXCEPT ![tok] = Admit(entries[tok], c)]
<1> DEFINE es == entries[tok]
           c == Candidate(CurrentEntry(tok).version + 1, holder, at, commitment,
                          previousCommitment)
<1>1. /\ es \in Seq(ProjectionEntry) /\ es # <<>>
      /\ CurrentEntry(tok) = es[Len(es)]
  BY DEF AdmitNext, CurrentEntry
<1>2. CurrentEntry(tok).version \in Nat /\ CurrentEntry(tok).version < UINT64_MAX
  BY <1>1, CurrentEntryTyped DEF AdmitNext
<1>3. c \in CandidateEntry
  BY <1>2, WidthAssumption
  DEF AdmitNext, Candidate, CandidateEntry, Uint64, Word, HolderArgument
<1>4. es[Len(es)].recordCommitment \in CommitmentsOf(es)
  BY <1>1, CurrentEntryTyped DEF CommitmentsOf
<1>5. Admissible(es, c)
  BY <1>1, <1>4 DEF AdmitNext, Follows, Candidate, Admissible, Succeeds, ValidShape
<1>6. entries' = [entries EXCEPT ![tok] = Admit(es, c)]
  BY DEF AdmitNext, Pushed, Candidate
<1> QED
  BY <1>3, <1>5, <1>6

\* What a step does to the register: nothing, or one admission on one token.
Untouched == entries' = entries
Admits ==
    \E tok \in Token, c \in CandidateEntry :
        /\ Admissible(entries[tok], c)
        /\ entries' = [entries EXCEPT ![tok] = Admit(entries[tok], c)]

-----------------------------------------------------------------------------
(* Types.                                                                    *)

LEMMA InitTyped == Init => TypeOK
<1> SUFFICES ASSUME Init PROVE TypeOK
  OBVIOUS
<1>1. <<>> \in Seq(ProjectionEntry)
  OBVIOUS
<1>2. entries \in [Token -> Seq(ProjectionEntry)]
  BY <1>1 DEF Init, EntriesInit
<1>3. settlements \in [SettlementId -> Settlement \cup {NoSettlement}]
  BY DEF Init
<1>4. openGap \in [Token -> SettlementId \cup {NoGap}]
  BY DEF Init
<1>5. timestamp \in Time /\ signed \subseteq Binding
  BY SettlementAssumption DEF Init, Time
<1> QED
  BY <1>2, <1>3, <1>4, <1>5 DEF TypeOK

\* A recorded settlement has all its fields.
LEMMA RecordedTyped ==
    ASSUME TypeOK, NEW sid \in SettlementId, settlements[sid].status # "NONE"
    PROVE  /\ settlements[sid] \in Settlement
           /\ settlements[sid].tokenId \in Token
           /\ settlements[sid].expectedHolder \in Address
<1>1. settlements[sid] \in Settlement
  BY DEF TypeOK, NoSettlement
<1> QED
  BY <1>1 DEF Settlement

LEMMA AdmitsTyped ==
    ASSUME entries \in [Token -> Seq(ProjectionEntry)], Admits
    PROVE  entries' \in [Token -> Seq(ProjectionEntry)]
<1>1. PICK tok \in Token, c \in CandidateEntry :
        entries' = [entries EXCEPT ![tok] = Admit(entries[tok], c)]
  BY DEF Admits
<1>2. Admit(entries[tok], c) \in Seq(ProjectionEntry)
  BY AdmitShape
<1> QED
  BY <1>1, <1>2

LEMMA CloseGapTyped ==
    ASSUME TypeOK, NEW sid \in SettlementId, settlements[sid].status # "NONE",
           NEW status \in {"ADMITTED", "CANCELLED"}, CloseGap(sid, status)
    PROVE  /\ settlements' \in [SettlementId -> Settlement \cup {NoSettlement}]
           /\ openGap' \in [Token -> SettlementId \cup {NoGap}]
<1>1. settlements[sid] \in Settlement
  BY RecordedTyped
<1>2. [settlements[sid] EXCEPT !.status = status] \in Settlement
  BY <1>1 DEF Settlement
<1> QED
  BY <1>2 DEF CloseGap, TypeOK

-----------------------------------------------------------------------------
(* One lemma per entry point: it keeps the types, and it touches the        *)
(* register by at most one admission.                                       *)

StepOK == TypeOK' /\ (Untouched \/ Admits)

LEMMA SignOK ==
    ASSUME TypeOK, NEW digest \in Binding, Sign(digest)
    PROVE  StepOK
BY DEF TypeOK, Sign, StepOK, Untouched

LEMMA SignInitializationOK ==
    ASSUME TypeOK, NEW tok \in Token, NEW c \in Commitment, NEW holder \in Address,
           NEW at \in Uint64, SignInitialization(tok, c, holder, at)
    PROVE  StepOK
<1>1. InitializationBinding(tok, c, holder, at) \in Binding
  BY WidthAssumption, FirstVersionAssumption
  DEF InitializationBinding, Binding, Word, Uint64
<1> QED
  BY <1>1, SignOK DEF SignInitialization

LEMMA SignAdmissionOK ==
    ASSUME TypeOK, NEW sid \in SettlementId, NEW c \in Commitment, NEW at \in Uint64,
           SignAdmission(sid, c, at)
    PROVE  StepOK
<1> DEFINE tok == settlements[sid].tokenId
<1>1. /\ settlements[sid].status # "NONE"
      /\ entries[tok] # <<>>
      /\ CurrentEntry(tok).version < UINT64_MAX
  BY DEF SignAdmission, Bindable
<1>2. tok \in Token /\ settlements[sid].expectedHolder \in Address
  BY <1>1, RecordedTyped
<1>3. entries[tok] \in Seq(ProjectionEntry)
  BY <1>2 DEF TypeOK
<1>4. CurrentEntry(tok).version \in Nat /\ CurrentEntry(tok).recordCommitment \in Word
  BY <1>1, <1>3, CurrentEntryTyped DEF CurrentEntry
<1>5. AdmissionBinding(sid, c, at) \in Binding
  BY <1>1, <1>2, <1>4, WidthAssumption DEF AdmissionBinding, Binding, Word, Uint64
<1> QED
  BY <1>5, SignOK DEF SignAdmission

LEMMA InitializeRegisterOK ==
    ASSUME TypeOK, NEW sender, NEW tok \in Token, NEW c \in Word,
           NEW holder \in HolderArgument, NEW at \in Uint64, NEW proof,
           InitializeRegister(sender, tok, c, holder, at, proof)
    PROVE  StepOK
<1>1. Initialize(tok, c, holder, at) /\ UNCHANGED <<settlements, openGap, timestamp, signed>>
  BY DEF InitializeRegister
<1>2. entries \in [Token -> Seq(ProjectionEntry)]
  BY DEF TypeOK
<1>3. Admits
  BY <1>1, <1>2, InitializeAdmits DEF Admits
<1>4. entries' \in [Token -> Seq(ProjectionEntry)]
  BY <1>2, <1>3, AdmitsTyped
<1> QED
  BY <1>1, <1>3, <1>4 DEF StepOK, TypeOK

LEMMA BeginSettlementOK ==
    ASSUME TypeOK, NEW sender \in Account, NEW sid \in SettlementId, NEW tok \in Token,
           NEW holder \in HolderArgument, NEW deadline \in Time,
           BeginSettlement(sender, sid, tok, holder, deadline)
    PROVE  StepOK
<1> DEFINE record == [tokenId |-> tok, initiator |-> sender, expectedHolder |-> holder,
                      deadline |-> deadline, status |-> "OPEN"]
<1>1. record \in Settlement
  BY DEF BeginSettlement, Settlement, HolderArgument
<1>2. /\ settlements' = [settlements EXCEPT ![sid] = record]
      /\ openGap' = [openGap EXCEPT ![tok] = sid]
      /\ UNCHANGED <<entries, timestamp, signed>>
  BY DEF BeginSettlement
<1> HIDE DEF record
<1>3. /\ settlements' \in [SettlementId -> Settlement \cup {NoSettlement}]
      /\ openGap' \in [Token -> SettlementId \cup {NoGap}]
  BY <1>1, <1>2 DEF TypeOK
<1> QED
  BY <1>2, <1>3 DEF StepOK, TypeOK, Untouched

LEMMA FinalizeSettlementOK ==
    ASSUME TypeOK, NEW sid \in SettlementId, NEW c \in Word, NEW at \in Uint64, NEW proof,
           FinalizeSettlement(sid, c, at, proof)
    PROVE  StepOK
<1> DEFINE tok == settlements[sid].tokenId
<1>1. /\ settlements[sid].status # "NONE"
      /\ entries[tok] # <<>>
      /\ AdmitNext(tok, c, CurrentEntry(tok).recordCommitment,
                   settlements[sid].expectedHolder, at)
      /\ CloseGap(sid, "ADMITTED")
      /\ UNCHANGED <<timestamp, signed>>
  BY DEF FinalizeSettlement, Bindable
<1>2. tok \in Token /\ settlements[sid].expectedHolder \in HolderArgument
  BY <1>1, RecordedTyped DEF HolderArgument
<1>3. entries \in [Token -> Seq(ProjectionEntry)]
  BY DEF TypeOK
<1>4. CurrentEntry(tok).recordCommitment \in Word
  BY <1>1, <1>2, <1>3, CurrentEntryTyped DEF CurrentEntry
<1>5. Admits
  BY <1>1, <1>2, <1>3, <1>4, AdmitNextAdmits DEF Admits
<1>6. entries' \in [Token -> Seq(ProjectionEntry)]
  BY <1>3, <1>5, AdmitsTyped
<1>7. /\ settlements' \in [SettlementId -> Settlement \cup {NoSettlement}]
      /\ openGap' \in [Token -> SettlementId \cup {NoGap}]
  BY <1>1, CloseGapTyped
<1> QED
  BY <1>1, <1>5, <1>6, <1>7 DEF StepOK, TypeOK

LEMMA CancelSettlementOK ==
    ASSUME TypeOK, NEW sender, NEW sid \in SettlementId, CancelSettlement(sender, sid)
    PROVE  StepOK
<1>1. /\ settlements[sid].status # "NONE"
      /\ CloseGap(sid, "CANCELLED")
      /\ UNCHANGED <<entries, timestamp, signed>>
  BY DEF CancelSettlement
<1>2. /\ settlements' \in [SettlementId -> Settlement \cup {NoSettlement}]
      /\ openGap' \in [Token -> SettlementId \cup {NoGap}]
  BY <1>1, CloseGapTyped
<1> QED
  BY <1>1, <1>2 DEF StepOK, TypeOK, Untouched

LEMMA NextBlockOK ==
    ASSUME TypeOK, NextBlock
    PROVE  StepOK
BY SettlementAssumption DEF TypeOK, NextBlock, Time, StepOK, Untouched

LEMMA NextOK ==
    ASSUME TypeOK, [Next]_vars
    PROVE  StepOK
<1>1. CASE \E tok \in Token, c \in Commitment, holder \in Address, at \in Uint64 :
              SignInitialization(tok, c, holder, at)
  BY <1>1, SignInitializationOK
<1>2. CASE \E sid \in SettlementId, c \in Commitment, at \in Uint64 : SignAdmission(sid, c, at)
  BY <1>2, SignAdmissionOK
<1>3. CASE \E sender \in Account, tok \in Token, c \in Word, holder \in HolderArgument,
              at \in Uint64, proof \in signed :
              InitializeRegister(sender, tok, c, holder, at, proof)
  BY <1>3, InitializeRegisterOK
<1>4. CASE \E sender \in Account, sid \in SettlementId, tok \in Token,
              holder \in HolderArgument, deadline \in Time :
              BeginSettlement(sender, sid, tok, holder, deadline)
  BY <1>4, BeginSettlementOK
<1>5. CASE \E sid \in SettlementId, c \in Word, at \in Uint64, proof \in signed :
              FinalizeSettlement(sid, c, at, proof)
  BY <1>5, FinalizeSettlementOK
<1>6. CASE \E sender \in Account, sid \in SettlementId : CancelSettlement(sender, sid)
  BY <1>6, CancelSettlementOK
<1>7. CASE NextBlock
  BY <1>7, NextBlockOK
<1>8. CASE UNCHANGED vars
  BY <1>8 DEF vars, TypeOK, StepOK, Untouched
<1> QED
  BY <1>1, <1>2, <1>3, <1>4, <1>5, <1>6, <1>7, <1>8 DEF Next

\* Every variable of the two contracts keeps its type.
THEOREM ContractTypeCorrect == Spec => []TypeOK
<1>1. Init => TypeOK
  BY InitTyped
<1>2. TypeOK /\ [Next]_vars => TypeOK'
  BY NextOK DEF StepOK
<1> QED
  BY <1>1, <1>2, PTL DEF Spec

-----------------------------------------------------------------------------
(* The projection invariants.                                               *)

LEMMA RegisterSoundStep ==
    ASSUME TypeOK, RegisterSound, Untouched \/ Admits
    PROVE  RegisterSound'
<1>1. CASE Untouched
  BY <1>1 DEF Untouched, RegisterSound
<1>2. CASE Admits
  <2>1. PICK tok \in Token, c \in CandidateEntry :
          /\ Admissible(entries[tok], c)
          /\ entries' = [entries EXCEPT ![tok] = Admit(entries[tok], c)]
    BY <1>2 DEF Admits
  <2>2. ProjectionInvariants(Admit(entries[tok], c))
    BY <2>1, AdmitPreserves DEF TypeOK, RegisterSound
  <2>3. \A other \in Token :
          entries'[other] = IF other = tok THEN Admit(entries[tok], c) ELSE entries[other]
    BY <2>1 DEF TypeOK
  <2> QED
    BY <2>2, <2>3 DEF RegisterSound
<1> QED
  BY <1>1, <1>2

\* The on-chain register obeys the four projection invariants in every
\* reachable state, whoever calls whatever in whatever order.
THEOREM ContractsKeepTheInvariants == Spec => []RegisterSound
<1>1. Init => RegisterSound
  BY EmptyInvariants DEF Init, EntriesInit, RegisterSound
<1>2. TypeOK /\ RegisterSound /\ [Next]_vars => RegisterSound'
  BY NextOK, RegisterSoundStep DEF StepOK
<1> QED
  BY <1>1, <1>2, ContractTypeCorrect, PTL DEF Spec
-----------------------------------------------------------------------------
(* The refinement: what a reader sees of the entries is an append-only      *)
(* history.                                                                  *)

Seen == [t \in Token |-> FactsOf(entries[t])]

LEMMA AdmitIsAnAppend ==
    ASSUME TypeOK, Admits
    PROVE  \E tok \in Token, fact \in [holder : Address, effectiveAt : Uint64] :
             /\ Seen[tok] # <<>> => fact.effectiveAt > Seen[tok][Len(Seen[tok])].effectiveAt
             /\ Seen' = [Seen EXCEPT ![tok] = Append(Seen[tok], fact)]
<1>1. PICK tok \in Token, c \in CandidateEntry :
        /\ Admissible(entries[tok], c)
        /\ entries' = [entries EXCEPT ![tok] = Admit(entries[tok], c)]
  BY DEF Admits
<1> DEFINE es == entries[tok]
           fact == [holder |-> c.holder, effectiveAt |-> c.effectiveAt]
<1>2. es \in Seq(ProjectionEntry) /\ fact \in [holder : Address, effectiveAt : Uint64]
      /\ Seen[tok] = FactsOf(es)
  BY DEF TypeOK, CandidateEntry, Seen
<1>3. FactsOf(es) # <<>> => fact.effectiveAt > FactsOf(es)[Len(FactsOf(es))].effectiveAt
  BY <1>1, <1>2, AdmittedFactIsLater
<1>4. FactsOf(Admit(es, c)) = Append(FactsOf(es), fact)
  BY <1>2, AdmitAppendsFact
<1>5. \A other \in Token :
        entries'[other] = IF other = tok THEN Admit(es, c) ELSE entries[other]
  BY <1>1 DEF TypeOK
<1>6. Seen' = [Seen EXCEPT ![tok] = Append(Seen[tok], fact)]
  BY <1>2, <1>4, <1>5 DEF Seen
<1> QED
  BY <1>2, <1>3, <1>6

LEMMA SeenIsHistory ==
    Seen = [t \in Token |->
              [i \in DOMAIN entries[t] |->
                 [holder |-> entries[t][i].holder,
                  effectiveAt |-> entries[t][i].effectiveAt]]]
BY DEF Seen, FactsOf

\* The two contracts implement the append-only register: no transaction can
\* take back, reorder or rewrite what a reader has seen.
THEOREM ContractsImplementRegister == Spec => ImplementsRegister
<1>1. Init => Register!Init
  BY SeenIsHistory DEF Init, EntriesInit, Register!Init
<1>2. TypeOK /\ [Next]_vars => [Register!Next]_Seen
  <2> SUFFICES ASSUME TypeOK, [Next]_vars PROVE Register!Next \/ Seen' = Seen
    OBVIOUS
  <2>1. CASE Untouched
    BY <2>1 DEF Untouched, Seen
  <2>2. CASE Admits
    BY <2>2, AdmitIsAnAppend, SeenIsHistory
    DEF Register!Next, Register!Append1, Register!Fact, Seen, FactsOf
  <2> QED
    BY <2>1, <2>2, NextOK DEF StepOK
<1> QED
  BY <1>1, <1>2, ContractTypeCorrect, SeenIsHistory, PTL
  DEF Spec, ImplementsRegister, Register!Spec, Seen, FactsOf
-----------------------------------------------------------------------------
(* What a step does, by the mapping it writes.  The four properties below   *)
(* are each proved over these five cases.                                    *)

\* A signature that vouches for entry e as the i-th of a token.
Vouches(b, tok, i, e) ==
    /\ b.tokenId = tok
    /\ b.holder = e.holder
    /\ b.priorCommitment = e.previousCommitment
    /\ b.nextCommitment = e.recordCommitment
    /\ b.version = i
    /\ b.effectiveAt = e.effectiveAt

Registers(tok, c) ==
    /\ Admissible(entries[tok], c)
    /\ entries' = [entries EXCEPT ![tok] = Admit(entries[tok], c)]

\* A signature, a block, or nothing.
Kept == UNCHANGED <<entries, settlements, openGap>> /\ signed \subseteq signed'

Initialized(tok, c, b) ==
    /\ entries[tok] = <<>>
    /\ Registers(tok, c)
    /\ Vouches(b, tok, 1, NewEntry(c)) /\ b.settlementId = NoGap
    /\ UNCHANGED <<settlements, openGap, signed>>

Begun(sid, tok, record) ==
    /\ MayOpen(sid, tok)
    /\ record.status = "OPEN" /\ record.tokenId = tok
    /\ settlements' = [settlements EXCEPT ![sid] = record]
    /\ openGap' = [openGap EXCEPT ![tok] = sid]
    /\ UNCHANGED <<entries, signed>>

Finalized(sid, c, b) ==
    LET record == settlements[sid]
        tok == record.tokenId
    IN  /\ record.status = "OPEN" /\ timestamp <= record.deadline
        /\ entries[tok] # <<>>
        /\ Registers(tok, c)
        /\ Vouches(b, tok, Len(entries[tok]) + 1, NewEntry(c)) /\ b.settlementId = sid
        /\ c.holder = record.expectedHolder
        /\ CloseGap(sid, "ADMITTED")
        /\ UNCHANGED signed

Cancelled(sid) ==
    /\ settlements[sid].status = "OPEN" /\ timestamp > settlements[sid].deadline
    /\ CloseGap(sid, "CANCELLED")
    /\ UNCHANGED <<entries, signed>>

Steps ==
    \/ Kept
    \/ \E tok \in Token, c \in CandidateEntry, b \in signed : Initialized(tok, c, b)
    \/ \E sid \in SettlementId, tok \in Token, record \in Settlement : Begun(sid, tok, record)
    \/ \E sid \in SettlementId, c \in CandidateEntry, b \in signed : Finalized(sid, c, b)
    \/ \E sid \in SettlementId : Cancelled(sid)

LEMMA InitializeIsInitialized ==
    ASSUME TypeOK, NEW sender, NEW tok \in Token, NEW commitment \in Word,
           NEW holder \in HolderArgument, NEW at \in Uint64, NEW proof \in signed,
           InitializeRegister(sender, tok, commitment, holder, at, proof)
    PROVE  Steps
<1> DEFINE c == Candidate(1, holder, at, commitment, ZERO_BYTES32)
<1>1. /\ Initialize(tok, commitment, holder, at)
      /\ proof = InitializationBinding(tok, commitment, holder, at)
      /\ UNCHANGED <<settlements, openGap, signed>>
  BY DEF InitializeRegister, VerifyAdmission
<1>2. c \in CandidateEntry
  BY <1>1, WidthAssumption, FirstVersionAssumption
  DEF Initialize, Candidate, CandidateEntry, Uint64, Word, HolderArgument
<1>3. Registers(tok, c)
  BY <1>1 DEF Initialize, Pushed, Candidate, Registers, Admissible, Succeeds, ValidShape, FIRST_VERSION,
     CommitmentsOf
<1>4. Vouches(proof, tok, 1, NewEntry(c)) /\ proof.settlementId = NoGap
  BY <1>1 DEF InitializationBinding, Vouches, NewEntry, Candidate
<1> QED
  BY <1>1, <1>2, <1>3, <1>4 DEF Initialize, Initialized, Steps

LEMMA BeginIsBegun ==
    ASSUME TypeOK, NEW sender \in Account, NEW sid \in SettlementId, NEW tok \in Token,
           NEW holder \in HolderArgument, NEW deadline \in Time,
           BeginSettlement(sender, sid, tok, holder, deadline)
    PROVE  Steps
<1> DEFINE record == [tokenId |-> tok, initiator |-> sender, expectedHolder |-> holder,
                      deadline |-> deadline, status |-> "OPEN"]
<1>1. record \in Settlement /\ record.status = "OPEN" /\ record.tokenId = tok
  BY DEF BeginSettlement, Settlement, HolderArgument
<1>2. /\ MayOpen(sid, tok)
      /\ settlements' = [settlements EXCEPT ![sid] = record]
      /\ openGap' = [openGap EXCEPT ![tok] = sid]
      /\ UNCHANGED <<entries, signed>>
  BY DEF BeginSettlement
<1> HIDE DEF record
<1> QED
  BY <1>1, <1>2 DEF Begun, Steps

\* The version the contract computes is the next position, because the versions
\* before it are consecutive.
LEMMA FinalizeIsFinalized ==
    ASSUME TypeOK, RegisterSound, NEW sid \in SettlementId, NEW commitment \in Word,
           NEW at \in Uint64, NEW proof \in signed,
           FinalizeSettlement(sid, commitment, at, proof)
    PROVE  Steps
<1> DEFINE record == settlements[sid]
           tok == record.tokenId
           es == entries[tok]
           prior == CurrentEntry(tok).recordCommitment
           c == Candidate(CurrentEntry(tok).version + 1, record.expectedHolder, at, commitment,
                          prior)
<1>1. /\ record.status = "OPEN" /\ timestamp <= record.deadline
      /\ es # <<>>
      /\ proof = AdmissionBinding(sid, commitment, at)
      /\ AdmitNext(tok, commitment, prior, record.expectedHolder, at)
      /\ CloseGap(sid, "ADMITTED")
      /\ UNCHANGED signed
  BY DEF FinalizeSettlement, OpenInTime, Bindable, VerifyAdmission
<1>2. tok \in Token /\ record.expectedHolder \in Address
  BY <1>1, RecordedTyped
<1>3. es \in Seq(ProjectionEntry) /\ CurrentEntry(tok) = es[Len(es)]
  BY <1>2 DEF TypeOK, CurrentEntry
<1>4. /\ CurrentEntry(tok).version = Len(es) /\ Len(es) \in Nat
      /\ prior \in Word
      /\ prior \in CommitmentsOf(es)
  BY <1>1, <1>2, <1>3, CurrentEntryTyped
  DEF RegisterSound, ProjectionInvariants, Consecutive, CommitmentsOf
<1>5. c \in CandidateEntry
  BY <1>1, <1>2, <1>4, WidthAssumption
  DEF AdmitNext, Candidate, CandidateEntry, Uint64, Word
<1>6. Registers(tok, c)
  <2>1. Admissible(es, c)
    BY <1>1, <1>3, <1>4 DEF AdmitNext, Follows, Candidate, Admissible, Succeeds, ValidShape
  <2>2. entries' = [entries EXCEPT ![tok] = Admit(es, c)]
    BY <1>1 DEF AdmitNext, Pushed, Candidate
  <2> QED
    BY <2>1, <2>2 DEF Registers
<1>7. /\ Vouches(proof, tok, Len(es) + 1, NewEntry(c)) /\ proof.settlementId = sid
      /\ c.holder = record.expectedHolder
  BY <1>1, <1>4 DEF AdmissionBinding, Vouches, NewEntry, Candidate
<1> HIDE DEF c
<1> QED
  BY <1>1, <1>5, <1>6, <1>7 DEF Finalized, Steps

LEMMA NextSteps ==
    ASSUME TypeOK, RegisterSound, [Next]_vars
    PROVE  Steps
<1>1. CASE \E tok \in Token, c \in Commitment, holder \in Address, at \in Uint64 :
              SignInitialization(tok, c, holder, at)
  BY <1>1 DEF SignInitialization, Sign, Kept, Steps
<1>2. CASE \E sid \in SettlementId, c \in Commitment, at \in Uint64 : SignAdmission(sid, c, at)
  BY <1>2 DEF SignAdmission, Sign, Kept, Steps
<1>3. CASE \E sender \in Account, tok \in Token, c \in Word, holder \in HolderArgument,
              at \in Uint64, proof \in signed :
              InitializeRegister(sender, tok, c, holder, at, proof)
  BY <1>3, InitializeIsInitialized
<1>4. CASE \E sender \in Account, sid \in SettlementId, tok \in Token,
              holder \in HolderArgument, deadline \in Time :
              BeginSettlement(sender, sid, tok, holder, deadline)
  BY <1>4, BeginIsBegun
<1>5. CASE \E sid \in SettlementId, c \in Word, at \in Uint64, proof \in signed :
              FinalizeSettlement(sid, c, at, proof)
  BY <1>5, FinalizeIsFinalized
<1>6. CASE \E sender \in Account, sid \in SettlementId : CancelSettlement(sender, sid)
  BY <1>6 DEF CancelSettlement, Cancelled, Steps
<1>7. CASE NextBlock
  BY <1>7 DEF NextBlock, Kept, Steps
<1>8. CASE UNCHANGED vars
  BY <1>8 DEF vars, Kept, Steps
<1> QED
  BY <1>1, <1>2, <1>3, <1>4, <1>5, <1>6, <1>7, <1>8 DEF Next

\* A closed settlement keeps all but its status; every other is left alone.
LEMMA CloseGapShape ==
    ASSUME TypeOK, NEW sid \in SettlementId, settlements[sid].status = "OPEN",
           NEW status \in {"ADMITTED", "CANCELLED"}, CloseGap(sid, status)
    PROVE  /\ settlements[sid] \in Settlement /\ settlements[sid].tokenId \in Token
           /\ settlements'[sid] = [settlements[sid] EXCEPT !.status = status]
           /\ settlements'[sid].status = status
           /\ settlements'[sid].tokenId = settlements[sid].tokenId
           /\ settlements'[sid].expectedHolder = settlements[sid].expectedHolder
           /\ \A other \in SettlementId \ {sid} : settlements'[other] = settlements[other]
           /\ \A tok \in Token :
                openGap'[tok] = IF tok = settlements[sid].tokenId THEN NoGap ELSE openGap[tok]
<1>1. settlements[sid] \in Settlement /\ settlements[sid].tokenId \in Token
  BY RecordedTyped
<1>2. settlements'[sid] = [settlements[sid] EXCEPT !.status = status]
  BY DEF CloseGap, TypeOK
<1>3. \A other \in SettlementId \ {sid} : settlements'[other] = settlements[other]
  BY DEF CloseGap, TypeOK
<1>4. \A tok \in Token :
        openGap'[tok] = IF tok = settlements[sid].tokenId THEN NoGap ELSE openGap[tok]
  BY <1>1 DEF CloseGap, TypeOK
<1> QED
  BY <1>1, <1>2, <1>3, <1>4 DEF Settlement

-----------------------------------------------------------------------------
(* The two mappings of the settlement contract.                              *)

LEMMA GapPointerStep ==
    ASSUME TypeOK, GapPointerConsistent, Steps
    PROVE  GapPointerConsistent'
<1>1. CASE Kept
  BY <1>1 DEF Kept, GapPointerConsistent
<1>2. CASE \E tok \in Token, c \in CandidateEntry, b \in signed : Initialized(tok, c, b)
  BY <1>2 DEF Initialized, GapPointerConsistent
<1>3. ASSUME NEW sid \in SettlementId, NEW tok \in Token, NEW record \in Settlement,
             Begun(sid, tok, record)
      PROVE  GapPointerConsistent'
  <2>1. /\ \A other \in SettlementId :
             settlements'[other] = IF other = sid THEN record ELSE settlements[other]
        /\ \A other \in Token : openGap'[other] = IF other = tok THEN sid ELSE openGap[other]
    BY <1>3 DEF Begun, TypeOK
  <2>2. /\ settlements[sid].status = "NONE" /\ openGap[tok] = NoGap
        /\ record.status = "OPEN" /\ record.tokenId = tok
    BY <1>3 DEF Begun, MayOpen
  <2> QED
    BY <2>1, <2>2, SettlementAssumption DEF GapPointerConsistent
<1>4. ASSUME NEW sid \in SettlementId, settlements[sid].status = "OPEN",
             NEW status \in {"ADMITTED", "CANCELLED"}, CloseGap(sid, status)
      PROVE  GapPointerConsistent'
  <2> DEFINE closing == settlements[sid].tokenId
  <2>1. /\ closing \in Token
        /\ settlements'[sid].status # "OPEN"
        /\ \A other \in SettlementId \ {sid} : settlements'[other] = settlements[other]
        /\ \A tok \in Token : openGap'[tok] = IF tok = closing THEN NoGap ELSE openGap[tok]
    BY <1>4, CloseGapShape
  <2>2. openGap[closing] = sid
    BY <1>4, <2>1 DEF GapPointerConsistent
  <2>3. \A other \in SettlementId \ {sid} :
          settlements[other].status = "OPEN" => settlements[other].tokenId # closing
    BY <2>1, <2>2 DEF GapPointerConsistent
  <2> QED
    BY <1>4, <2>1, <2>2, <2>3, SettlementAssumption DEF GapPointerConsistent
<1> QED
  BY <1>1, <1>2, <1>3, <1>4 DEF Steps, Finalized, Cancelled

\* A token's pointer names exactly its open settlement, whatever is begun,
\* finalised and cancelled by whom.
THEOREM GapPointersAgree == Spec => []GapPointerConsistent
<1>1. Init => GapPointerConsistent
  BY SettlementAssumption DEF Init, GapPointerConsistent, NoSettlement
<1>2. TypeOK /\ RegisterSound /\ GapPointerConsistent /\ [Next]_vars => GapPointerConsistent'
  BY NextSteps, GapPointerStep
<1> QED
  BY <1>1, <1>2, ContractTypeCorrect, ContractsKeepTheInvariants, PTL DEF Spec

-----------------------------------------------------------------------------
(* Evidence.                                                                 *)

\* An admission keeps every field a signature speaks of.
LEMMA AdmitKeepsSignedFields ==
    ASSUME NEW es \in Seq(ProjectionEntry), NEW c \in CandidateEntry,
           NEW i \in 1 .. Len(es)
    PROVE  /\ Admit(es, c)[i].holder = es[i].holder
           /\ Admit(es, c)[i].effectiveAt = es[i].effectiveAt
           /\ Admit(es, c)[i].recordCommitment = es[i].recordCommitment
           /\ Admit(es, c)[i].previousCommitment = es[i].previousCommitment
<1>1. Admit(es, c)[i] =
        IF i = Len(es) THEN [es[i] EXCEPT !.supersededAt = c.effectiveAt] ELSE es[i]
  BY AdmitShape
<1>2. es[i] \in ProjectionEntry
  OBVIOUS
<1> QED
  BY <1>1, <1>2 DEF ProjectionEntry

\* The settlement a signature names was admitted, for its token and holder.
SettledFor(b, tok) ==
    /\ settlements[b.settlementId].status = "ADMITTED"
    /\ settlements[b.settlementId].tokenId = tok
    /\ settlements[b.settlementId].expectedHolder = b.holder

\* Entry e, the i-th of its token, was signed, and its settlement admitted.
ProvedBy(b, tok, i, e) ==
    /\ Vouches(b, tok, i, e)
    /\ b.settlementId = NoGap <=> i = 1
    /\ i > 1 => SettledFor(b, tok)

LEMMA EveryEntryProvedMeans ==
    EveryEntryProved <=>
        \A tok \in Token : \A i \in DOMAIN entries[tok] :
            \E b \in signed : ProvedBy(b, tok, i, entries[tok][i])
BY DEF EveryEntryProved, ProvedBy, Vouches, SettledFor

\* What was admitted stays admitted, as it was.
LEMMA AdmittedStays ==
    ASSUME TypeOK, Steps, NEW sid \in SettlementId, settlements[sid].status = "ADMITTED"
    PROVE  settlements'[sid] = settlements[sid]
<1>1. CASE Kept
  BY <1>1 DEF Kept
<1>2. CASE \E tok \in Token, c \in CandidateEntry, b \in signed : Initialized(tok, c, b)
  BY <1>2 DEF Initialized
<1>3. ASSUME NEW begun \in SettlementId, NEW tok \in Token, NEW record \in Settlement,
             Begun(begun, tok, record)
      PROVE  settlements'[sid] = settlements[sid]
  BY <1>3 DEF Begun, MayOpen, TypeOK
<1>4. ASSUME NEW closed \in SettlementId, settlements[closed].status = "OPEN",
             NEW status \in {"ADMITTED", "CANCELLED"}, CloseGap(closed, status)
      PROVE  settlements'[sid] = settlements[sid]
  <2>1. sid \in SettlementId \ {closed}
    BY <1>4
  <2> QED
    BY <1>4, <2>1, CloseGapShape
<1> QED
  BY <1>1, <1>2, <1>3, <1>4 DEF Steps, Finalized, Cancelled

\* A proved entry stays proved, by the same signature.
LEMMA ProvedStays ==
    ASSUME TypeOK, Steps, NEW b \in signed, NEW tok, NEW i, NEW e, ProvedBy(b, tok, i, e)
    PROVE  b \in signed' /\ ProvedBy(b, tok, i, e)'
<1>1. b \in signed'
  BY DEF Steps, Kept, Initialized, Begun, Finalized, Cancelled
<1>2. i # 1 => b.settlementId \in SettlementId
  BY DEF TypeOK, Binding, ProvedBy
<1>3. i > 1 => SettledFor(b, tok)'
  <2> SUFFICES ASSUME i > 1 PROVE SettledFor(b, tok)'
    OBVIOUS
  <2>1. settlements[b.settlementId].status = "ADMITTED" /\ SettledFor(b, tok)
    BY DEF ProvedBy, SettledFor
  <2>2. settlements'[b.settlementId] = settlements[b.settlementId]
    <3>1. CASE i = 1
      BY <3>1
    <3>2. CASE i # 1
      BY <3>2, <1>2, <2>1, AdmittedStays
    <3> QED
      BY <3>1, <3>2
  <2> QED
    BY <2>1, <2>2 DEF SettledFor
<1> QED
  BY <1>1, <1>3 DEF ProvedBy, Vouches

LEMMA ProvedAdmission ==
    ASSUME TypeOK, Steps, EveryEntryProved,
           NEW tok \in Token, NEW c \in CandidateEntry, Registers(tok, c),
           NEW n, n = Len(entries[tok]) + 1,
           NEW b \in signed', ProvedBy(b, tok, n, NewEntry(c))'
    PROVE  EveryEntryProved'
<1> DEFINE es == entries[tok]
<1>1. es \in Seq(ProjectionEntry) /\ DOMAIN es = 1 .. Len(es) /\ Len(es) \in Nat
  BY DEF TypeOK
<1>2. /\ entries'[tok] = Admit(es, c)
      /\ \A other \in Token \ {tok} : entries'[other] = entries[other]
  BY DEF Registers, TypeOK
<1>3. /\ DOMAIN Admit(es, c) = 1 .. Len(es) + 1
      /\ Admit(es, c)[Len(es) + 1] = NewEntry(c)
  BY <1>1, AdmitShape
<1> SUFFICES ASSUME NEW t \in Token, NEW i \in DOMAIN entries'[t]
             PROVE  \E v \in signed' : ProvedBy(v, t, i, entries[t][i])'
  BY DEF EveryEntryProved, ProvedBy, Vouches, SettledFor
<1>4. CASE t # tok
  <2>1. PICK v \in signed : ProvedBy(v, t, i, entries[t][i])
    BY <1>2, <1>4, EveryEntryProvedMeans
  <2>2. v \in signed' /\ ProvedBy(v, t, i, entries[t][i])'
    <3> DEFINE e == entries[t][i]
    <3>1. entries'[t][i] = e
      BY <1>2, <1>4
    <3>2. v \in signed'
      BY <2>1, ProvedStays
    <3>3. (i > 1 => SettledFor(v, t)')
      BY <2>1, ProvedStays DEF ProvedBy
    <3> QED
      BY <2>1, <3>1, <3>2, <3>3 DEF ProvedBy, Vouches
  <2> QED
    BY <2>2
<1>5. CASE t = tok /\ i = n
  <2>1. entries'[t][i] = NewEntry(c)
    BY <1>2, <1>3, <1>5
  <2>2. ProvedBy(b, t, i, entries[t][i])'
    BY <1>5, <2>1 DEF ProvedBy, Vouches
  <2> QED
    BY <2>2
<1>6. CASE t = tok /\ i # n
  <2>1. i \in 1 .. Len(es) /\ i \in DOMAIN es
    BY <1>1, <1>2, <1>3, <1>6
  <2>2. PICK v \in signed : ProvedBy(v, tok, i, es[i])
    BY <2>1, EveryEntryProvedMeans
  <2>3. v \in signed' /\ (i > 1 => SettledFor(v, tok)')
    BY <2>2, ProvedStays DEF ProvedBy
  <2>4. /\ Admit(es, c)[i].holder = es[i].holder
        /\ Admit(es, c)[i].effectiveAt = es[i].effectiveAt
        /\ Admit(es, c)[i].recordCommitment = es[i].recordCommitment
        /\ Admit(es, c)[i].previousCommitment = es[i].previousCommitment
    BY <1>1, <2>1, AdmitKeepsSignedFields
  <2>5. ProvedBy(v, tok, i, entries[tok][i])'
    BY <1>2, <2>2, <2>3, <2>4 DEF ProvedBy, Vouches
  <2> QED
    BY <1>6, <2>3, <2>5
<1> QED
  BY <1>4, <1>5, <1>6

LEMMA EveryEntryProvedStep ==
    ASSUME TypeOK, RegisterSound, EveryEntryProved, Steps
    PROVE  EveryEntryProved'
<1>1. ASSUME UNCHANGED entries
      PROVE  EveryEntryProved'
  <2> SUFFICES ASSUME NEW t \in Token, NEW i \in DOMAIN entries[t]
               PROVE  \E v \in signed' : ProvedBy(v, t, i, entries[t][i])'
    BY <1>1 DEF EveryEntryProved, ProvedBy, Vouches, SettledFor
  <2>1. PICK v \in signed : ProvedBy(v, t, i, entries[t][i])
    BY EveryEntryProvedMeans
  <2>2. v \in signed' /\ (i > 1 => SettledFor(v, t)')
    BY <2>1, ProvedStays DEF ProvedBy
  <2> QED
    BY <1>1, <2>1, <2>2 DEF ProvedBy, Vouches
<1>2. ASSUME NEW tok \in Token, NEW c \in CandidateEntry, NEW b \in signed,
             Initialized(tok, c, b)
      PROVE  EveryEntryProved'
  <2>1. /\ Registers(tok, c) /\ b \in signed'
        /\ Vouches(b, tok, 1, NewEntry(c)) /\ b.settlementId = NoGap
        /\ 1 = Len(entries[tok]) + 1
    BY <1>2 DEF Initialized
  <2>2. ProvedBy(b, tok, 1, NewEntry(c))'
    BY <2>1 DEF ProvedBy, Vouches
  <2> QED
    BY <2>1, <2>2, ProvedAdmission
<1>3. ASSUME NEW sid \in SettlementId, NEW c \in CandidateEntry, NEW b \in signed,
             Finalized(sid, c, b)
      PROVE  EveryEntryProved'
  <2>1. PICK tok, n : tok = settlements[sid].tokenId /\ n = Len(entries[tok]) + 1
    OBVIOUS
  <2>2. /\ settlements[sid].status = "OPEN" /\ entries[tok] # <<>>
        /\ Registers(tok, c) /\ b \in signed'
        /\ Vouches(b, tok, n, NewEntry(c)) /\ b.settlementId = sid
        /\ c.holder = settlements[sid].expectedHolder
        /\ CloseGap(sid, "ADMITTED")
    BY <1>3, <2>1 DEF Finalized
  <2>3. /\ tok \in Token
        /\ settlements'[sid].status = "ADMITTED"
        /\ settlements'[sid].tokenId = tok
        /\ settlements'[sid].expectedHolder = settlements[sid].expectedHolder
    BY <2>1, <2>2, CloseGapShape
  <2>4. n # 1 /\ b.settlementId # NoGap
    BY <2>1, <2>2, <2>3, CurrentEntryTyped, SettlementAssumption DEF TypeOK
  <2>5. SettledFor(b, tok)'
    BY <2>2, <2>3 DEF SettledFor, Vouches, NewEntry
  <2>6. ProvedBy(b, tok, n, NewEntry(c))'
    BY <2>2, <2>4, <2>5 DEF ProvedBy, Vouches
  <2> QED
    BY <2>1, <2>2, <2>3, <2>6, ProvedAdmission
<1>4. CASE Kept
  BY <1>1, <1>4 DEF Kept
<1>5. CASE \E sid \in SettlementId, tok \in Token, record \in Settlement : Begun(sid, tok, record)
  BY <1>1, <1>5 DEF Begun
<1>6. CASE \E sid \in SettlementId : Cancelled(sid)
  BY <1>1, <1>6 DEF Cancelled
<1> QED
  BY <1>2, <1>3, <1>4, <1>5, <1>6 DEF Steps

\* No history without evidence: every entry of every token was signed for, and
\* every entry after the first closed a settlement recorded as admitted for its
\* token and its holder.
THEOREM EntriesAreProved == Spec => []EveryEntryProved
<1>1. Init => EveryEntryProved
  BY DEF Init, EntriesInit, EveryEntryProved
<1>2. TypeOK /\ RegisterSound /\ EveryEntryProved /\ [Next]_vars => EveryEntryProved'
  BY NextSteps, EveryEntryProvedStep
<1> QED
  BY <1>1, <1>2, ContractTypeCorrect, ContractsKeepTheInvariants, PTL DEF Spec

-----------------------------------------------------------------------------
(* Counting.                                                                 *)

AdmittedFor(tok) ==
    {sid \in SettlementId : settlements[sid].status = "ADMITTED" /\ settlements[sid].tokenId = tok}

\* The count and, for the cardinality to mean anything, that it is finite:
\* SettlementId is not assumed to be.
Counted(tok) ==
    /\ IsFiniteSet(AdmittedFor(tok))
    /\ IF entries[tok] = <<>> THEN AdmittedFor(tok) = {}
       ELSE Len(entries[tok]) = 1 + Cardinality(AdmittedFor(tok))

LEMMA CountedStays ==
    ASSUME NEW tok, Counted(tok), entries'[tok] = entries[tok],
           AdmittedFor(tok)' = AdmittedFor(tok)
    PROVE  Counted(tok)'
BY DEF Counted

\* A closed gap adds at most its own settlement to one token's admitted ones.
LEMMA CloseGapCounts ==
    ASSUME TypeOK, NEW sid \in SettlementId, settlements[sid].status = "OPEN",
           NEW status \in {"ADMITTED", "CANCELLED"}, CloseGap(sid, status), NEW tok
    PROVE  /\ sid \notin AdmittedFor(tok)
           /\ AdmittedFor(tok)' =
                IF status = "ADMITTED" /\ tok = settlements[sid].tokenId
                THEN AdmittedFor(tok) \cup {sid} ELSE AdmittedFor(tok)
<1>1. /\ settlements'[sid].status = status
      /\ settlements'[sid].tokenId = settlements[sid].tokenId
      /\ \A other \in SettlementId \ {sid} : settlements'[other] = settlements[other]
  BY CloseGapShape
<1> QED
  BY <1>1 DEF AdmittedFor

LEMMA CountedStep ==
    ASSUME TypeOK, Steps, NEW t \in Token, Counted(t)
    PROVE  Counted(t)'
<1>1. CASE Kept
  BY <1>1, CountedStays DEF Kept, AdmittedFor
<1>2. ASSUME NEW tok \in Token, NEW c \in CandidateEntry, NEW b \in signed,
             Initialized(tok, c, b)
      PROVE  Counted(t)'
  <2>1. AdmittedFor(t)' = AdmittedFor(t)
    BY <1>2 DEF Initialized, AdmittedFor
  <2>2. CASE t # tok
    BY <1>2, <2>1, <2>2, CountedStays DEF Initialized, Registers, TypeOK
  <2>3. CASE t = tok
    <3>1. entries[t] = <<>> /\ entries'[t] = Admit(entries[t], c)
      BY <1>2, <2>3 DEF Initialized, Registers, TypeOK
    <3>2. Len(entries[t]) = 0 /\ entries[t] \in Seq(ProjectionEntry)
      BY <3>1 DEF TypeOK
    <3>3. Len(entries'[t]) = 1 /\ entries'[t] # <<>>
      <4>1. Len(Admit(entries[t], c)) = Len(entries[t]) + 1
        BY <3>2, AdmitShape
      <4> QED
        BY <3>1, <3>2, <4>1
    <3>4. AdmittedFor(t)' = {}
      BY <2>1, <3>1 DEF Counted
    <3>5. IsFiniteSet(AdmittedFor(t)') /\ Cardinality(AdmittedFor(t)') = 0
      BY <3>4, FS_EmptySet
    <3> QED
      BY <3>3, <3>5 DEF Counted
  <2> QED
    BY <2>2, <2>3
<1>3. ASSUME NEW sid \in SettlementId, NEW tok \in Token, NEW record \in Settlement,
             Begun(sid, tok, record)
      PROVE  Counted(t)'
  <2>1. /\ settlements'[sid].status # "ADMITTED" /\ settlements[sid].status # "ADMITTED"
        /\ \A other \in SettlementId \ {sid} : settlements'[other] = settlements[other]
        /\ UNCHANGED entries
    BY <1>3 DEF Begun, MayOpen, TypeOK
  <2>2. AdmittedFor(t)' = AdmittedFor(t)
    BY <2>1 DEF AdmittedFor
  <2> QED
    BY <2>1, <2>2, CountedStays
<1>4. ASSUME NEW sid \in SettlementId, NEW c \in CandidateEntry, NEW b \in signed,
             Finalized(sid, c, b)
      PROVE  Counted(t)'
  <2> DEFINE tok == settlements[sid].tokenId
             es == entries[tok]
  <2>1. /\ settlements[sid].status = "OPEN" /\ es # <<>>
        /\ Registers(tok, c) /\ CloseGap(sid, "ADMITTED")
    BY <1>4 DEF Finalized
  <2>2. /\ sid \notin AdmittedFor(t)
        /\ AdmittedFor(t)' = IF t = tok THEN AdmittedFor(t) \cup {sid} ELSE AdmittedFor(t)
    BY <2>1, CloseGapCounts
  <2>3. CASE t # tok
    <3>1. entries'[t] = entries[t]
      BY <2>1, <2>3 DEF Registers, TypeOK
    <3> QED
      BY <2>2, <2>3, <3>1, CountedStays
  <2>4. CASE t = tok
    <3>1. es \in Seq(ProjectionEntry) /\ Len(es) \in Nat /\ entries'[t] = Admit(es, c)
      BY <2>1, <2>4 DEF Registers, TypeOK
    <3>2. Len(entries'[t]) = Len(es) + 1 /\ entries'[t] # <<>>
      BY <3>1, AdmitShape
    <3>3. /\ IsFiniteSet(AdmittedFor(t)')
          /\ Cardinality(AdmittedFor(t)') = Cardinality(AdmittedFor(t)) + 1
      BY <2>2, <2>4, FS_AddElement DEF Counted
    <3>4. Cardinality(AdmittedFor(t)) \in Nat
      BY FS_CardinalityType DEF Counted
    <3>5. Len(es) = 1 + Cardinality(AdmittedFor(t))
      BY <2>1, <2>4 DEF Counted
    <3>6. Len(entries'[t]) = 1 + Cardinality(AdmittedFor(t)')
      BY <3>2, <3>3, <3>4, <3>5
    <3> QED
      BY <3>2, <3>3, <3>6 DEF Counted
  <2> QED
    BY <2>3, <2>4
<1>5. ASSUME NEW sid \in SettlementId, Cancelled(sid)
      PROVE  Counted(t)'
  <2>1. AdmittedFor(t)' = AdmittedFor(t)
    BY <1>5, CloseGapCounts DEF Cancelled
  <2> QED
    BY <1>5, <2>1, CountedStays DEF Cancelled
<1> QED
  BY <1>1, <1>2, <1>3, <1>4, <1>5 DEF Steps

\* A signature admits at most once: a token has one entry for its
\* initialisation and one for each settlement admitted for it, however often
\* and by whomever a signature is submitted.
THEOREM SignaturesAdmitOnce == Spec => []OneEntryPerSettlement
<1> DEFINE AllCounted == \A tok \in Token : Counted(tok)
<1>1. Init => AllCounted
  <2> SUFFICES ASSUME Init, NEW tok \in Token PROVE Counted(tok)
    OBVIOUS
  <2>1. AdmittedFor(tok) = {} /\ entries[tok] = <<>>
    BY DEF Init, EntriesInit, AdmittedFor, NoSettlement
  <2> QED
    BY <2>1, FS_EmptySet DEF Counted
<1>2. TypeOK /\ RegisterSound /\ AllCounted /\ [Next]_vars => AllCounted'
  <2> SUFFICES ASSUME TypeOK, RegisterSound, AllCounted, [Next]_vars, NEW t \in Token
               PROVE  Counted(t)'
    OBVIOUS
  <2> QED
    BY NextSteps, CountedStep
<1>3. AllCounted => OneEntryPerSettlement
  BY DEF Counted, AdmittedFor, OneEntryPerSettlement
<1> HIDE DEF AllCounted
<1> QED
  BY <1>1, <1>2, <1>3, ContractTypeCorrect, ContractsKeepTheInvariants, PTL DEF Spec

-----------------------------------------------------------------------------
(* What a step may do to a gap, and to an answer given as final.            *)

\* An open gap ends by an entry on its token up to its deadline, and only
\* without one after it.
THEOREM GapsKeepTheirPromise == Spec => GapPromise
<1> DEFINE Promise ==
      \A sid \in SettlementId :
        LET before == settlements[sid]
            after == settlements'[sid]
            tok == before.tokenId
        IN  before.status = "OPEN" /\ after.status # "OPEN" =>
                IF timestamp <= before.deadline
                THEN after.status = "ADMITTED" /\ Len(entries'[tok]) = Len(entries[tok]) + 1
                ELSE after.status = "CANCELLED" /\ entries'[tok] = entries[tok]
<1>1. TypeOK /\ RegisterSound /\ [Next]_vars => Promise
  <2> SUFFICES ASSUME TypeOK, Steps, NEW s \in SettlementId,
                      settlements[s].status = "OPEN", settlements'[s].status # "OPEN"
               PROVE  IF timestamp <= settlements[s].deadline
                      THEN /\ settlements'[s].status = "ADMITTED"
                           /\ Len(entries'[settlements[s].tokenId]) =
                                Len(entries[settlements[s].tokenId]) + 1
                      ELSE /\ settlements'[s].status = "CANCELLED"
                           /\ entries'[settlements[s].tokenId] = entries[settlements[s].tokenId]
    BY NextSteps
  <2>1. CASE Kept
    BY <2>1 DEF Kept
  <2>2. CASE \E tok \in Token, c \in CandidateEntry, b \in signed : Initialized(tok, c, b)
    BY <2>2 DEF Initialized
  <2>3. CASE \E sid \in SettlementId, tok \in Token, record \in Settlement :
                Begun(sid, tok, record)
    BY <2>3 DEF Begun, MayOpen, TypeOK
  <2>4. ASSUME NEW sid \in SettlementId, NEW c \in CandidateEntry, NEW b \in signed,
               Finalized(sid, c, b)
        PROVE  /\ timestamp <= settlements[s].deadline
               /\ settlements'[s].status = "ADMITTED"
               /\ Len(entries'[settlements[s].tokenId]) = Len(entries[settlements[s].tokenId]) + 1
    <3>1. settlements[sid].status = "OPEN" /\ CloseGap(sid, "ADMITTED")
      BY <2>4 DEF Finalized
    <3>2. sid = s /\ settlements'[s].status = "ADMITTED" /\ settlements[s].tokenId \in Token
      BY <3>1, CloseGapShape
    <3>3. entries'[settlements[s].tokenId] = Admit(entries[settlements[s].tokenId], c)
      BY <2>4, <3>2 DEF Finalized, Registers, TypeOK
    <3> QED
      BY <2>4, <3>2, <3>3, AdmitShape DEF Finalized, TypeOK
  <2>5. ASSUME NEW sid \in SettlementId, Cancelled(sid)
        PROVE  /\ ~(timestamp <= settlements[s].deadline)
               /\ settlements'[s].status = "CANCELLED"
               /\ entries'[settlements[s].tokenId] = entries[settlements[s].tokenId]
    <3>1. settlements[sid].status = "OPEN" /\ CloseGap(sid, "CANCELLED")
      BY <2>5 DEF Cancelled
    <3>2. sid = s /\ settlements'[s].status = "CANCELLED" /\ settlements[s] \in Settlement
      BY <3>1, CloseGapShape
    <3>3. settlements[s].deadline \in Nat /\ timestamp \in Nat
      BY <3>2, SettlementAssumption DEF Settlement, Time, TypeOK
    <3> QED
      BY <2>5, <3>2, <3>3 DEF Cancelled
  <2> QED
    BY <2>1, <2>2, <2>3, <2>4, <2>5 DEF Steps
<1>2. TypeOK /\ RegisterSound /\ [Next]_vars => [Promise]_vars
  BY <1>1
<1> HIDE DEF Promise
<1>3. Spec => [][Promise]_vars
  BY <1>2, ContractTypeCorrect, ContractsKeepTheInvariants, PTL DEF Spec
<1> QED
  BY <1>3 DEF GapPromise, Promise

\* The clauses of FinalityOnlyByAdmission, for one token and one instant.
NewlyFinalByAdmission(tok, t) ==
    IsFinalAsOf(entries'[tok], t) /\ ~IsFinalAsOf(entries[tok], t) =>
        /\ openGap[tok] # NoGap /\ openGap'[tok] = NoGap
        /\ CurrentEntry(tok).effectiveAt <= t
        /\ t < entries'[tok][Len(entries[tok]) + 1].effectiveAt

FinalStays(tok, t) ==
    IsFinalAsOf(entries[tok], t) =>
        /\ IsFinalAsOf(entries'[tok], t)
        /\ EntryAsOf(entries'[tok], t) = EntryAsOf(entries[tok], t)

LEMMA FinalStaysStep ==
    ASSUME TypeOK, RegisterSound, [Next]_vars, NEW tok \in Token, NEW t \in Uint64
    PROVE  FinalStays(tok, t)
<1>1. CASE Untouched
  BY <1>1 DEF Untouched, FinalStays
<1>2. CASE Admits
  <2>1. PICK a \in Token, c \in CandidateEntry :
          /\ Admissible(entries[a], c)
          /\ entries' = [entries EXCEPT ![a] = Admit(entries[a], c)]
    BY <1>2 DEF Admits
  <2>2. entries'[tok] = IF tok = a THEN Admit(entries[tok], c) ELSE entries[tok]
    BY <2>1 DEF TypeOK
  <2>3. entries[tok] \in Seq(ProjectionEntry) /\ ProjectionInvariants(entries[tok])
    BY DEF TypeOK, RegisterSound
  <2> QED
    BY <2>1, <2>2, <2>3, FinalAnswerSurvivesAdmit DEF FinalStays
<1> QED
  BY <1>1, <1>2, NextOK DEF StepOK

\* Only what lies between the last entry and the one admitted turns final.
LEMMA AdmitMakesFinal ==
    ASSUME NEW es \in Seq(ProjectionEntry), NEW c \in CandidateEntry, NEW t \in Uint64,
           es # <<>>, IsFinalAsOf(Admit(es, c), t), ~IsFinalAsOf(es, t)
    PROVE  /\ es[Len(es)].effectiveAt <= t
           /\ t < Admit(es, c)[Len(es) + 1].effectiveAt
<1>1. /\ Len(es) \in Nat /\ Len(es) >= 1 /\ es[Len(es)].effectiveAt \in Nat
      /\ 1 \in 1 .. Len(es)
  BY CurrentEntryTyped
<1>2. Len(Admit(es, c)) = Len(es) + 1
  BY AdmitShape
<1>3. Admit(es, c)[1].effectiveAt = es[1].effectiveAt
  BY <1>1, AdmitKeepsSignedFields
<1>4. t \in Nat
  BY WidthAssumption DEF Uint64
<1> QED
  BY <1>1, <1>2, <1>3, <1>4 DEF IsFinalAsOf

LEMMA NewlyFinalStep ==
    ASSUME TypeOK, RegisterSound, GapPointerConsistent, Steps,
           NEW tok \in Token, NEW t \in Uint64
    PROVE  NewlyFinalByAdmission(tok, t)
<1>1. ASSUME entries'[tok] = entries[tok]
      PROVE  NewlyFinalByAdmission(tok, t)
  BY <1>1 DEF NewlyFinalByAdmission
<1>2. ASSUME NEW a \in Token, NEW c \in CandidateEntry, NEW b \in signed,
             Initialized(a, c, b), a = tok
      PROVE  ~IsFinalAsOf(entries'[tok], t)
  <2>1. /\ entries'[tok] = Admit(entries[tok], c)
        /\ entries[tok] = <<>> /\ entries[tok] \in Seq(ProjectionEntry)
    BY <1>2 DEF Initialized, Registers, TypeOK
  <2>2. Len(entries[tok]) = 0
    BY <2>1
  <2>3. Len(entries'[tok]) = 1
    <3>1. Len(Admit(entries[tok], c)) = Len(entries[tok]) + 1
      BY <2>1, AdmitShape
    <3> QED
      BY <2>1, <2>2, <3>1
  <2>4. entries'[tok][1].effectiveAt \in Nat
    <3>1. Admit(entries[tok], c)[Len(entries[tok]) + 1] = NewEntry(c)
      BY <2>1, AdmitShape
    <3> QED
      BY <2>1, <2>2, <3>1, WidthAssumption DEF NewEntry, CandidateEntry, Uint64
  <2>5. t \in Nat
    BY WidthAssumption DEF Uint64
  <2> QED
    BY <2>3, <2>4, <2>5 DEF IsFinalAsOf
<1>3. ASSUME NEW sid \in SettlementId, NEW c \in CandidateEntry, NEW b \in signed,
             Finalized(sid, c, b), settlements[sid].tokenId = tok
      PROVE  NewlyFinalByAdmission(tok, t)
  <2>1. /\ settlements[sid].status = "OPEN" /\ entries[tok] # <<>>
        /\ CloseGap(sid, "ADMITTED")
        /\ entries'[tok] = Admit(entries[tok], c)
        /\ entries[tok] \in Seq(ProjectionEntry)
    BY <1>3 DEF Finalized, Registers, TypeOK
  <2>2. openGap[tok] = sid /\ openGap'[tok] = NoGap
    <3>1. \A other \in Token :
            openGap'[other] = IF other = settlements[sid].tokenId THEN NoGap ELSE openGap[other]
      BY <2>1, CloseGapShape
    <3> QED
      BY <1>3, <2>1, <3>1 DEF GapPointerConsistent
  <2> QED
    BY <2>1, <2>2, AdmitMakesFinal, SettlementAssumption
    DEF NewlyFinalByAdmission, CurrentEntry
<1>4. CASE Kept
  BY <1>1, <1>4 DEF Kept
<1>5. CASE \E a \in Token, c \in CandidateEntry, b \in signed : Initialized(a, c, b)
  <2>1. PICK a \in Token, c \in CandidateEntry, b \in signed : Initialized(a, c, b)
    BY <1>5
  <2>2. CASE a = tok
    BY <1>2, <2>1, <2>2 DEF NewlyFinalByAdmission
  <2>3. CASE a # tok
    BY <1>1, <2>1, <2>3 DEF Initialized, Registers, TypeOK
  <2> QED
    BY <2>2, <2>3
<1>6. CASE \E sid \in SettlementId, a \in Token, record \in Settlement : Begun(sid, a, record)
  BY <1>1, <1>6 DEF Begun
<1>7. CASE \E sid \in SettlementId, c \in CandidateEntry, b \in signed : Finalized(sid, c, b)
  <2>1. PICK sid \in SettlementId, c \in CandidateEntry, b \in signed : Finalized(sid, c, b)
    BY <1>7
  <2>2. CASE settlements[sid].tokenId = tok
    BY <1>3, <2>1, <2>2
  <2>3. CASE settlements[sid].tokenId # tok
    BY <1>1, <2>1, <2>3 DEF Finalized, Registers, TypeOK
  <2> QED
    BY <2>2, <2>3
<1>8. CASE \E sid \in SettlementId : Cancelled(sid)
  BY <1>1, <1>8 DEF Cancelled
<1> QED
  BY <1>4, <1>5, <1>6, <1>7, <1>8 DEF Steps

\* Settlement confers no finality: an instant turns final only in the step that
\* admits an entry after it, and from then on its answer stays.
THEOREM AdmissionAloneMakesFinal == Spec => FinalityOnlyByAdmission
<1> DEFINE Finality == \A tok \in Token, t \in Uint64 :
                         /\ NewlyFinalByAdmission(tok, t)
                         /\ FinalStays(tok, t)
<1>1. TypeOK /\ RegisterSound /\ GapPointerConsistent /\ [Next]_vars => [Finality]_vars
  BY NextSteps, NewlyFinalStep, FinalStaysStep
<1> HIDE DEF Finality
<1>2. Spec => [][Finality]_vars
  BY <1>1, ContractTypeCorrect, ContractsKeepTheInvariants, GapPointersAgree, PTL DEF Spec
<1> QED
  BY <1>2 DEF FinalityOnlyByAdmission, Finality, NewlyFinalByAdmission, FinalStays

-----------------------------------------------------------------------------
(* The record-date claim.                                                    *)

\* Every step of the claim, the payee's calls among them, is a step of the two
\* contracts or leaves them alone.
LEMMA ClaimStepsAreSteps ==
    ASSUME TypeOK, [ClaimNext]_allVars
    PROVE  [Next]_vars
<1>1. CASE PayeeCalls
  <2>1. ASSUME NEW sid \in SettlementId, CancelSettlement(payee, sid)
        PROVE  Next
    <3>1. settlements[sid] \in Settlement /\ payee = settlements[sid].initiator
      BY <2>1, RecordedTyped DEF CancelSettlement
    <3>2. payee \in Account
      BY <3>1 DEF Settlement
    <3> QED
      BY <2>1, <3>2 DEF Next
  <2>2. ASSUME payee \in Account, NEW sid \in SettlementId, NEW tok \in Token,
               NEW holder \in HolderArgument, NEW deadline \in Time,
               BeginSettlement(payee, sid, tok, holder, deadline)
        PROVE  Next
    BY <2>2 DEF Next
  <2>3. ASSUME NEW sid \in SettlementId, NEW c \in Word, NEW at \in Uint64, NEW proof \in signed,
               FinalizeSettlement(sid, c, at, proof)
        PROVE  Next
    BY <2>3 DEF Next
  <2>4. ASSUME payee \in Account, NEW tok \in Token, NEW c \in Word, NEW holder \in HolderArgument,
               NEW at \in Uint64, NEW proof \in signed,
               InitializeRegister(payee, tok, c, holder, at, proof)
        PROVE  Next
    BY <2>4 DEF Next
  <2> QED
    BY <1>1, <2>1, <2>2, <2>3, <2>4 DEF PayeeCalls
<1>2. CASE \E sender \in Address : Claim(sender)
  BY <1>2 DEF Claim
<1>3. CASE \E sender \in Address : ClaimRefused(sender)
  BY <1>3 DEF ClaimRefused, vars
<1>4. CASE PayeeReturns \/ ForcedFunds
  BY <1>4 DEF PayeeReturns, ForcedFunds, vars
<1>5. CASE ~Running /\ Next /\ UNCHANGED claimVars
  BY <1>5
<1>6. CASE UNCHANGED allVars
  BY <1>6 DEF allVars
<1> QED
  BY <1>1, <1>2, <1>3, <1>4, <1>5, <1>6 DEF ClaimNext

\* Neither the claim nor the payee's code can do to the register what its own
\* transactions could not: under the claim the contracts behave as they do alone,
\* and so keep every promise above.
THEOREM ClaimsOnlyCall == ClaimSpec => Spec
<1>1. ClaimInit => Init /\ TypeOK
  BY InitTyped DEF ClaimInit
<1>2. TypeOK /\ [ClaimNext]_allVars => [Next]_vars /\ TypeOK'
  BY ClaimStepsAreSteps, NextOK DEF StepOK
<1> QED
  BY <1>1, <1>2, PTL DEF ClaimSpec, Spec

LEMMA ContractsUnderClaim == ClaimSpec => [](TypeOK /\ RegisterSound)
BY ClaimsOnlyCall, ContractTypeCorrect, ContractsKeepTheInvariants, PTL

-----------------------------------------------------------------------------
(* One payment.                                                              *)

PaymentsTyped == claimed \in BOOLEAN /\ paid \in Seq(Address)

\* What each step does to the payments: claim() makes one, the rest none.
LEMMA PaymentCases ==
    ASSUME [ClaimNext]_allVars
    PROVE  \/ UNCHANGED <<claimed, paid>>
           \/ \E sender \in Address :
                 /\ ~claimed /\ claimed' = TRUE
                 /\ paid' = Append(paid, sender)
                 /\ Entitled(sender)
                 /\ UNCHANGED vars
BY DEF ClaimNext, allVars, claimVars, Claim, Claimable, Effects, ClaimRefused, PayoutFailed,
   PayeeCalls, PayeeReturns, ForcedFunds

\* The contract pays at most once, whatever ether it holds and whatever its
\* payee calls before claim() returns, and it counts as claimed exactly when it
\* has paid.
THEOREM PaysOnce == ClaimSpec => []PaidOnce
<1>1. ClaimInit => PaymentsTyped /\ PaidOnce
  <2> SUFFICES ASSUME ClaimInit PROVE PaymentsTyped /\ PaidOnce
    OBVIOUS
  <2>1. claimed = FALSE /\ paid = <<>>
    BY DEF ClaimInit
  <2>2. <<>> \in Seq(Address) /\ Len(<<>>) = 0
    OBVIOUS
  <2>3. PaymentsTyped
    BY <2>1, <2>2 DEF PaymentsTyped
  <2>4. Len(paid) <= 1
    BY <2>1, <2>2
  <2>5. claimed <=> paid # <<>>
    BY <2>1
  <2> QED
    BY <2>3, <2>4, <2>5 DEF PaidOnce
<1>2. PaymentsTyped /\ PaidOnce /\ [ClaimNext]_allVars => (PaymentsTyped /\ PaidOnce)'
  <2> SUFFICES ASSUME PaymentsTyped, PaidOnce, [ClaimNext]_allVars
               PROVE  (PaymentsTyped /\ PaidOnce)'
    OBVIOUS
  <2>1. CASE UNCHANGED <<claimed, paid>>
    BY <2>1 DEF PaymentsTyped, PaidOnce
  <2>2. ASSUME NEW sender \in Address, ~claimed, claimed' = TRUE, paid' = Append(paid, sender)
        PROVE  (PaymentsTyped /\ PaidOnce)'
    <3>1. paid = <<>> /\ paid \in Seq(Address)
      BY <2>2 DEF PaymentsTyped, PaidOnce
    <3>2. paid' \in Seq(Address) /\ Len(paid') = 1
      BY <2>2, <3>1
    <3> QED
      BY <2>2, <3>2 DEF PaymentsTyped, PaidOnce
  <2> QED
    BY <2>1, <2>2, PaymentCases
<1> QED
  BY <1>1, <1>2, PTL DEF ClaimSpec

-----------------------------------------------------------------------------
(* To the right holder.                                                      *)

\* Whoever was paid is the holder of record at the record date, in every state
\* from the payment on: the answer was final, and a final answer survives every
\* admission the register accepts, the ones the payee causes included.
THEOREM PaysHolderOfRecord == ClaimSpec => []PaidHolderOfRecord
<1>1. ClaimInit => PaidHolderOfRecord
  BY DEF ClaimInit, PaidHolderOfRecord
<1>2. ClaimSpec => []PaidOnce
  BY PaysOnce
<1>3. /\ TypeOK /\ RegisterSound /\ PaidOnce /\ PaidHolderOfRecord
      /\ [ClaimNext]_allVars
      => PaidHolderOfRecord'
  <2> SUFFICES ASSUME TypeOK, RegisterSound, PaidOnce, PaidHolderOfRecord,
                      [ClaimNext]_allVars
               PROVE  PaidHolderOfRecord'
    OBVIOUS
  <2>1. CASE UNCHANGED <<claimed, paid>>
    <3> SUFFICES ASSUME NEW i \in DOMAIN paid
                 PROVE  /\ IsFinalAsOf(entries'[ClaimToken], RecordDate)
                        /\ HolderAsOf(entries'[ClaimToken], RecordDate) = paid[i]
      BY <2>1 DEF PaidHolderOfRecord
    <3>1. /\ IsFinalAsOf(entries[ClaimToken], RecordDate)
          /\ HolderAsOf(entries[ClaimToken], RecordDate) = paid[i]
      BY DEF PaidHolderOfRecord
    <3>2. FinalStays(ClaimToken, RecordDate)
      BY ClaimStepsAreSteps, FinalStaysStep, ClaimAssumption
    <3> QED
      BY <3>1, <3>2 DEF FinalStays, HolderAsOf
  <2>2. ASSUME NEW sender \in Address, ~claimed, paid' = Append(paid, sender),
               Entitled(sender), UNCHANGED vars
        PROVE  PaidHolderOfRecord'
    <3>1. \A i \in DOMAIN paid' : paid'[i] = sender
      <4>1. paid = <<>>
        BY <2>2 DEF PaidOnce
      <4>2. <<>> \in Seq(Address) /\ Len(<<>>) = 0
        OBVIOUS
      <4> QED
        BY <2>2, <4>1, <4>2
    <3>2. entries' = entries
      BY <2>2 DEF vars
    <3> QED
      BY <2>2, <3>1, <3>2 DEF PaidHolderOfRecord, Entitled
  <2> QED
    BY <2>1, <2>2, PaymentCases
<1> QED
  BY <1>1, <1>2, <1>3, ContractsUnderClaim, PTL DEF ClaimSpec
=============================================================================
