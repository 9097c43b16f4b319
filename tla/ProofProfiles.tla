----------------------------- MODULE ProofProfiles -----------------------------
(***************************************************************************)
(* The verification profiles of engine/proof over the Ethereum adapter:    *)
(* the evidence a store asks for before it admits, made at one moment and  *)
(* submitted at any later one, while the frontier moves, gaps open and     *)
(* close, and time passes.  A store has one profile, for good.             *)
(*                                                                         *)
(* SHA-256 and Ed25519 are taken to be perfect: a digest is the record of  *)
(* what it hashes, a signature the record of what it signs.  A candidate   *)
(* entry is opaque, and with it the binding's prior commitment: the kernel *)
(* judges both (ProjectionStore).  Chain and contract are the same in      *)
(* every binding of one adapter.                                           *)
(***************************************************************************)
EXTENDS EthereumChainAdapter, SequencesExt

CONSTANTS
    Profile,                    \* which profiles a store may be configured with
    Candidate,                  \* candidate entries
    SettlementId, NoGap,
    Published,                  \* the lists of bindings the remote application may commit to
    Path,                       \* well-formed paths a caller may submit, whoever made them
    Issuer,                     \* the trusted issuers
    Signer,                     \* who signs attestations
    MAX_ATTESTATION_WINDOW,
    MaxTime,                    \* bound: the clock
    MaxEvidence                 \* bound: attestations and succinct proofs made

ASSUME ProfileAssumption ==
    /\ Profile \subseteq {"merkle", "zk", "attestation"}
    /\ NoGap \notin SettlementId
    /\ Issuer \subseteq Signer
    /\ \A path \in Path : Len(path) \in Nat
    /\ MAX_ATTESTATION_WINDOW \in Nat
    /\ MaxTime \in Nat /\ MaxEvidence \in Nat

VARIABLES
    profile,    \* the one verifier of the store
    openGaps,   \* the store's open gaps
    used,       \* settlement identifiers that were opened
    now,        \* the injected clock
    evidence,   \* attestations and succinct proofs made so far (external)
    accepted    \* history variable: what was admitted, at what height and time

profileVars == <<profile, openGaps, used, now, evidence, accepted>>
allVars == <<vars, profileVars>>

Time == 0 .. MaxTime

-----------------------------------------------------------------------------
(* What a proof is bound to.                                                 *)

Binding ==
    [tokenId : Token, settlementId : SettlementId \cup {NoGap}, candidate : Candidate]

\* The binding of an admission, as the store stands.
BindingNow(tok, c) == [tokenId |-> tok, settlementId |-> openGaps[tok], candidate |-> c]

\* Seeded fault: the settlement is left out of the digest.
DigestWithoutSettlement(b) == [tokenId |-> b.tokenId, candidate |-> b.candidate]

\* bindingDigest: length-prefixed fields, so injective.
BindingDigest(b) == b

-----------------------------------------------------------------------------
(* merkleProfile.ts.  Levels count from 1 here, positions from 0 as in the   *)
(* code.                                                                     *)

HashPair(left, right) == [left |-> left, right |-> right]

\* level[i] and its right neighbour, or itself when it has none.
Left(level, position) == level[2 * (position \div 2) + 1]
Right(level, position) ==
    LET right == 2 * (position \div 2) + 2
    IN  IF right <= Len(level) THEN level[right] ELSE Left(level, position)

\* One turn of the while loop.
NextLevel(level) ==
    [i \in 1 .. (Len(level) + 1) \div 2 |->
        HashPair(Left(level, 2 * (i - 1)), Right(level, 2 * (i - 1)))]

\* Seeded fault: a node without a neighbour adds no step to the path.
StepIfPaired(level, position) ==
    IF position % 2 = 1 THEN <<[hash |-> Left(level, position), side |-> "left"]>>
    ELSE IF position + 2 <= Len(level)
    THEN <<[hash |-> Right(level, position), side |-> "right"]>>
    ELSE <<>>

StepAt(level, position) ==
    IF position % 2 = 1 THEN <<[hash |-> Left(level, position), side |-> "left"]>>
    ELSE <<[hash |-> Right(level, position), side |-> "right"]>>

\* One turn of the loop of merklePath; merkleRoot's does the same without a path.
Turn(at) ==
    IF Len(at.level) <= 1 THEN at
    ELSE [level |-> NextLevel(at.level), position |-> at.position \div 2,
          path |-> at.path \o StepAt(at.level, at.position)]

\* while (level.length > 1): no list needs more turns than it has leaves.
Walk(leaves, index) ==
    LET at[n \in 0 .. Len(leaves)] ==
            IF n = 0 THEN [level |-> leaves, position |-> index, path |-> <<>>]
            ELSE Turn(at[n - 1])
    IN  at[Len(leaves)]

MerklePath(leaves, index) == Walk(leaves, index).path
MerkleRoot(leaves) == Walk(leaves, 0).level[1]

HashStep(node, step) ==
    IF step.side = "left" THEN HashPair(step.hash, node) ELSE HashPair(node, step.hash)

\* The for loop of verify.
Climb(leaf, path) ==
    LET node[n \in 0 .. Len(path)] ==
            IF n = 0 THEN leaf ELSE HashStep(node[n - 1], path[n])
    IN  node[Len(path)]

LongestPath == 64

MerkleVerify(height, path, b) ==
    /\ roots[height] # Unknown
    /\ Len(path) <= LongestPath
    /\ Climb(BindingDigest(b), path) = roots[height]

\* The application's tree over a list of bindings.
Leaves(list) == [i \in DOMAIN list |-> BindingDigest(list[i])]
RootOf == [list \in Published |-> MerkleRoot(Leaves(list))]
PathsOf ==
    [list \in Published |-> [i \in DOMAIN list |-> MerklePath(Leaves(list), i - 1)]]
PublishedRoots == {RootOf[list] : list \in Published}

\* A list is of bindings, none twice, and short enough for a path to be accepted
\* (up to 2^64 of them); what a node answers as a root is the root of one.
ASSUME PublishedAssumption ==
    /\ \A list \in Published :
          /\ list \in Seq(ToSet(list)) /\ list # <<>>
          /\ \A i, j \in DOMAIN list : list[i] = list[j] => i = j
          /\ \A i \in DOMAIN list :
                /\ DOMAIN list[i] = {"tokenId", "settlementId", "candidate"}
                /\ Len(PathsOf[list][i]) <= LongestPath
    /\ "merkle" \in Profile => Root = PublishedRoots

-----------------------------------------------------------------------------
(* zkProfile.ts and attestationProfile.ts.                                   *)

Expected(root, digest) == [root |-> root, digest |-> digest]

ZkVerify(height, proof, b) ==
    /\ roots[height] # Unknown
    /\ Expected(proof.root, BindingDigest(proof.binding))
         = Expected(roots[height], BindingDigest(b))

\* Bounded on both sides.
WithinWindow(expiresAt) == expiresAt > now /\ expiresAt - now <= MAX_ATTESTATION_WINDOW

AttestationVerify(attestation, b) ==
    /\ attestation.issuer \in Issuer
    /\ WithinWindow(attestation.expiresAt)
    /\ BindingDigest(attestation.binding) = BindingDigest(b)

-----------------------------------------------------------------------------

ProfileInit ==
    /\ Init
    /\ profile \in Profile
    /\ openGaps = [tok \in Token |-> NoGap]
    /\ used = {}
    /\ now = 0
    /\ evidence = {}
    /\ accepted = {}

\* What the store does once its profile has admitted.
Admitted(tok, c, height) ==
    /\ openGaps' = [openGaps EXCEPT ![tok] = NoGap]
    /\ accepted' = accepted \cup {[binding |-> BindingNow(tok, c), height |-> height, at |-> now]}
    /\ UNCHANGED <<profile, used, now, evidence>>

SubmitPath(tok, c, height, path) ==
    /\ profile = "merkle"
    /\ MerkleVerify(height, path, BindingNow(tok, c))
    /\ AdmitAt(tok, height)
    /\ Admitted(tok, c, height)

SubmitProof(tok, c, height, proof) ==
    /\ profile = "zk"
    /\ ZkVerify(height, proof, BindingNow(tok, c))
    /\ AdmitAt(tok, height)
    /\ Admitted(tok, c, height)

\* No root is asked for: the height need only be finalised and new.
SubmitAttestation(tok, c, height, attestation) ==
    /\ profile = "attestation"
    /\ AttestationVerify(attestation, BindingNow(tok, c))
    /\ AdmitUnrooted(tok, height)
    /\ Admitted(tok, c, height)

Makes(item) ==
    /\ Cardinality(evidence) < MaxEvidence
    /\ evidence' = evidence \cup {item}
    /\ UNCHANGED <<vars, profile, openGaps, used, now, accepted>>

\* An issuer, trusted or not, signs an admission it expects.
Attest(issuer, tok, c, expiresAt) ==
    /\ profile = "attestation"
    /\ Makes([issuer |-> issuer, expiresAt |-> expiresAt, binding |-> BindingNow(tok, c)])

\* prove(), at a height with a root.
Prove(tok, c, height) ==
    /\ profile = "zk"
    /\ roots[height] # Unknown
    /\ Makes([root |-> roots[height], binding |-> BindingNow(tok, c)])

\* The settlement engine meanwhile.
OpenGap(tok, sid) ==
    /\ openGaps[tok] = NoGap
    /\ sid \notin used
    /\ openGaps' = [openGaps EXCEPT ![tok] = sid]
    /\ used' = used \cup {sid}
    /\ UNCHANGED <<vars, profile, now, evidence, accepted>>

CancelGap(tok) ==
    /\ openGaps[tok] # NoGap
    /\ openGaps' = [openGaps EXCEPT ![tok] = NoGap]
    /\ UNCHANGED <<vars, profile, used, now, evidence, accepted>>

\* Only the attestation profile reads the clock.
Tick ==
    /\ profile = "attestation"
    /\ now < MaxTime
    /\ now' = now + 1
    /\ UNCHANGED <<vars, profile, openGaps, used, evidence, accepted>>

Refreshes ==
    \/ \E r \in Refresh : Call(r)
    \/ \E r \in Refresh, height \in Height, hash \in Hash : BlockArrives(r, height, hash)
    \/ \E r \in Refresh, root \in Root : RootArrives(r, root)
    \/ \E r \in Refresh : RefreshThrows(r)

ProfileNext ==
    \/ Refreshes /\ UNCHANGED profileVars
    \/ \E tok \in Token, c \in Candidate, height \in Height, path \in Path :
          SubmitPath(tok, c, height, path)
    \/ \E tok \in Token, c \in Candidate, height \in Height, item \in evidence :
          SubmitProof(tok, c, height, item) \/ SubmitAttestation(tok, c, height, item)
    \/ \E issuer \in Signer, tok \in Token, c \in Candidate, expiresAt \in Time :
          Attest(issuer, tok, c, expiresAt)
    \/ \E tok \in Token, c \in Candidate, height \in Height : Prove(tok, c, height)
    \/ \E tok \in Token, sid \in SettlementId : OpenGap(tok, sid)
    \/ \E tok \in Token : CancelGap(tok)
    \/ Tick

ProfileSpec == ProfileInit /\ [][ProfileNext]_allVars

-----------------------------------------------------------------------------
(* Properties.                                                               *)

\* What the maker of the evidence vouched for.
Vouched(a) ==
    CASE profile = "merkle" ->
            \E list \in Published :
                RootOf[list] = roots[a.height] /\ a.binding \in ToSet(list)
      [] profile = "zk" ->
            \E e \in evidence : e.root = roots[a.height] /\ e.binding = a.binding
      [] profile = "attestation" ->
            \E e \in evidence :
                /\ e.issuer \in Issuer
                /\ e.binding = a.binding
                /\ a.at < e.expiresAt /\ e.expiresAt <= a.at + MAX_ATTESTATION_WINDOW

\* Every admission is, field by field and with the very settlement it closed,
\* one that its evidence was made for: evidence that has been overtaken, by a gap
\* opened, cancelled or replaced, by a newer root or by its own expiry, admits
\* nothing, whenever and however often it is submitted.
AdmittedAsVouched == \A a \in accepted : Vouched(a)

\* merklePath, merkleRoot and verify agree: whatever the number of leaves, the
\* path built for a leaf leads from that leaf, and from no other, to the root the
\* adapter holds.
OwnPathVerifies ==
    \A height \in Height, list \in Published :
        profile = "merkle" /\ roots[height] = RootOf[list] =>
            \A i, j \in DOMAIN list :
                MerkleVerify(height, PathsOf[list][i], list[j]) <=> i = j
=============================================================================
