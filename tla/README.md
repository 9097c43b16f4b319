# A TLA+ model of the ERC-8415 Native Infrastructure Kit

This directory holds TLA+ modules that model the Kit, TLC configurations that
check them on small instances, and theorems about them that TLAPS checks for
every value of the constants. The reference is the code; file and line numbers
below are relative to the repository root. `PROJECT.json` maps every definition
to the lines it stands for.

Check a run with `tlc -config <run>.cfg <module>.tla` and a proof with
`tlapm <module>.tla`.

## 1. The system and its parts

The Kit records, per NFT, who an external register says held it, as an
append-only history in *effective time*. A reader asks three separate questions
about an instant: who held it, is that answer final, is a change in flight.

| Component | State | Operations that change it | Talks to |
| --- | --- | --- | --- |
| Kernel `engine/projection/kernel.ts` | the entries of one token, two indexes | `admit`, `undoLastAdmit` | called by the store |
| Store `engine/projection/store.ts` | histories, open-gap pointers, settlement records, the poison flag | `openGap`, `cancelGap`, `admit`, three `replay…` | kernel, journal, adapter, proof profile |
| Journal `engine/persistence/journal.ts` | a file; one descriptor | `bind`, `append`, `close` | file system |
| Restore `engine/persistence/restore.ts` | none | replays a journal into a new store | journal, store |
| Settlement engine `engine/settlement/` | none of its own; a clock and an allow list | `begin`, `finalize`, `cancel` | store |
| Adapters `adapters/memory`, `adapters/ethereum/ethereumChain.ts` | accepted height per token; the finalized frontier, block hashes and roots | `advanceHeight`, `refresh` (two awaits) | JSON-RPC node |
| Proof profiles `engine/proof/` | none (an issuer table) | none | adapter, clock |
| Contracts `contracts/RegisterProjection.sol`, `ProjectionSettlement.sol`, `AttestationProofVerifier.sol` | entries; settlements, open-gap pointers | `initializeRegister`, `beginSettlement`, `finalizeSettlement`, `cancelSettlement` | each other; an attestor's signatures |
| Example consumer `contracts/examples/RecordDateClaim.sol` | one flag | `claim` | both contracts |
| HTTP `api/` and operations `engine/ops/` | API keys, tenants, counters | `POST …/admission`; issue, revoke, add | store |
| Roles `engine/access/roles.ts`, console `console/` | who has which role | assign, revoke | store (reads) |
| SDK clients `sdk/js`, `sdk/python` | none between calls; `entries()` pages | none | HTTP |

Store, journal, engine and routes are synchronous JavaScript: a handler runs
without interleaving, and what can happen inside it is an exception from the
file system or the end of the process. `refresh` is asynchronous and may be in
flight several times. A Solidity transaction runs whole or reverts.

**What is hard here**, and what the properties are aimed at:

- one admission writes an entry, the `supersededAt` of the entry before it, an
  accepted height, a pointer and a settlement, then appends to a file; a failed
  append undoes all of that by hand;
- the kernel keeps its commitments and versions a second time, as indexes, and
  a rollback has to take the entry out of all three;
- the append may leave no bytes, some bytes or all of them, synced or not, and
  the process may end at each of those points; later starts must load what is
  there, under the right identity, and accept their own writer's records;
- an answer given as final must never change, whatever is undone or replayed;
- pointers and settlement records are separate maps, on chain and off;
- answers of a node arrive out of order and may disagree;
- a signature, a path or an attestation can be submitted late, twice, or for a
  gap that has ended;
- a payee's code runs in the middle of a claim and may call any contract;
- a request's body arrives in pieces and a console user is authenticated
  asynchronously, while keys, roles and tenants' registers change;
- a listing is read in several requests while the register admits, restarts or
  withdraws the caller's key;
- boundaries: strict or not at `effectiveAt`, at the deadline, in the search.

What makes each component correct:

| Component | Correct when |
| --- | --- |
| Kernel | versions consecutive, commitments linked and never reused, effective times strictly increasing, intervals closed; undo is the inverse of admit, in the indexes too; final answers never change; the search finds the entry in effect |
| Store with engine and routes | all parts of an admission move together or not at all; pointer and records agree; a gap ends once, by an entry for its holder in time or by its initiator after it |
| Journal and restore | acknowledged means durable; every file it can leave loads; memory is the replay of the file; a file is never presented as another register's; service resumes |
| Ethereum adapter | the frontier never rewinds and has its root; a height has one root for everyone; no evidence is used twice |
| Contracts | every entry was signed for and used once; the four invariants; gaps keep their promise; only admissions make instants final |
| Proof profiles | an admission is, field by field, one its evidence was made for; path, root and verification agree for every tree |
| Record-date claim | pays once, to the holder of record, whatever the payee does meanwhile |
| Gateway, roles and console | nobody is shown a register or a page that is not theirs at the moment it is shown |
| Both registers | readers see an append-only history |
| Routes and clients | a listing read in pages is one history, and all of it; a holder that comes with finality stands; the three facts of `resolve` are of one moment |

## 2. Modules

| Module | Models |
| --- | --- |
| `TokenProjection` | the kernel as operators on a sequence of entries; no variables, so that the store and the contracts share it as the code's two implementations share the standard |
| `FileJournal` | the journal file as a value: complete lines, whether a fragment follows, how many lines are durable, whether a cut of a fragment is; `#open`, `#write`, `read` and `bind` as operators, every place a write can stop, and what a power cut can leave |
| `ProjectionStore` | the store, engine, admission route and restore over the two above and an adapter, in a process that may fail and start again |
| `EthereumChainAdapter` | `refresh` split at its awaits, any number in flight, and the admissions that read what it stored |
| `ProjectionClient` | a caller of an SDK client, the gateway and the read routes, over `ProjectionStore` as it runs and fails |
| `RegisterProjection`, `ProjectionSettlement` | the two contracts and the verifier's answer |
| `RecordDateClaim` | the example consumer over the two contracts, with the payee's code running inside a claim |
| `ProofProfiles` | the three verifiers, and the makers of their evidence, over `EthereumChainAdapter` |
| `ReadAccess` | API keys, tenants and the role directory, and the requests that pass them |
| `IndexedProjection` | the kernel's class with all of its fields: the entries, the set of commitments and the version index, and the two methods that write them |
| `AsOfSearch` | the calls made of one such projection, `entryAsOf` as its loop, with the 32-bit shift |
| `AppendOnlyRegister` | the abstract specification: per token a history that only grows at its end, each fact effective strictly after the one before |
| `MC…` | names for the model values of a run, and symmetry |
| `TokenProjectionProofs`, `AsOfSearchProofs` | theorems about the kernel, its indexes and its search |
| `ProjectionStoreProofs`, then `JournalProofs`, then `ProjectionClientProofs` | theorems about the store's memory, about the journal and what readers are shown, and about what callers conclude; each uses the one before |
| `ProjectionSettlementProofs` | theorems about the contracts and the record-date claim over them |
| `EthereumChainAdapterProofs` | theorems about the adapter and the proof profiles over it |
| `ReadAccessProofs` | theorems about keys, tenants, roles and the requests that pass them |

An operator whose comment begins with "Seeded fault" is a wrong variant of the
operator it stands near. It is used only to check that a property notices:
`PROJECT.json` pairs each property of each passing run with one of them.

### ProjectionStore and the code

`mem` is what the process holds: `projections`, `openGaps` and `settlements`
are the three maps of the class, `heights` is the adapter's. A token that has
no `TokenProjection` and one with no entries are both the empty sequence: the
code treats them alike in everything the model's readers see.

| Action | Code |
| --- | --- |
| `Begin`, `Cancel`, `Finalize` | `engine/settlement/engine.ts:84-158` and the store call each makes |
| `PostAdmission` | `api/routes.ts:146-160` |
| `StoreAdmit` (used by both) | `store.ts:241-330`: guards, then `AdmissionApplied`, then `Record` |
| `Record` | `store.ts:100-108`: appended; or thrown and undone; or the process ends inside it |
| `CutShort` (used by `Record` and `DiesWriting`) | `journal.ts:183-230`: every file a `#write` can stop at, in `#open` between `ftruncate` and `fsync` too (`HalfOpened`): the fragment is gone, but a power cut may bring it back |
| `AdmissionUndone`, `GapForgotten`, … | the rollback closures, `store.ts:202-205, 225-228, 314-326` |
| `Restart`, `RestartFails` | `restore.ts:37-40` with the constructor's `bind`; the header write may throw or die |
| `ReplayLine`, `Serve` | `restore.ts:42-64`, one record per step, so that a crash can fall between |
| `Close` | `FileJournal.close`, on a journal that is or is not in use; the next append opens it again |
| `Crash`, `PowerCut`, `Tick`, `GiveUp` | outside the code: the process, the machine, the clock, its operator |

Replay skips the height checks as the code does (`store.ts:332-343`) but the
adapter's ratchet still applies, because `replayAdmitted` calls it.
`Adapter = "ethereum"` chooses the ratchet that throws
(`ethereumChain.ts:96-102`), `"memory"` the setter (`memoryChain.ts`).
`ReusesJournal` says whether a store that replaces a poisoned one is given the
same `FileJournal` object.

Two variables are history variables: `acked`, the records whose caller was told
they succeeded, with the identity they were written under, and `served`, what
readers were last shown. No action reads them.

Abstracted: the proof (a refused proof changes nothing, so any candidate may be
one whose proof verifies), `registryReference`, `snapshotHash` and `openedAt`
(no guard of the store reads them), byte contents of lines, and empty lines.
Journals edited by someone else are not inputs of the model: the file is only
what this code and its faults leave.

### ProjectionClient and the code

The module extends `ProjectionStore`: `StoreStep` is any step of the store, and
every other action leaves the store alone. `call` is the frame of the method in
progress, `wire` what is between client and server.

| Action or operator | Code |
| --- | --- |
| `Calls`, `RoutesOf`, `Request` | the methods of `sdk/js/client.ts` and `sdk/python/erc8415/client.py`: the requests each makes, in order |
| `Answers` with `Gateway` and `Answer` | `api/server.ts:35-71`, `api/gateway.ts:28-60`, the `GET` branches of `api/routes.ts`: one synchronous reading of the store |
| `Receives` | the code after the `await` in `#get`, and the loop body of `entries()` for a page |
| `Fails` | the deadline or the connection; nothing is retried, and a late answer reaches nobody |
| `Issue`, `Revoke` | `engine/ops/apiKeys.ts`; the keys are in memory and go with the process |

`since`, in a call, is how many entries readers had been shown when it began; it
is kept for the properties only. A caller that was told an instant is final and
then asks for its holder carries that knowledge into the call (`KnownFinal`):
finality first and holder second is safe, the other order is what `resolve`
exists for. The client runs have no power cut, which could take back an entry
that readers saw (finding 3) and with it every promise about older answers;
`store_power` has them. The methods `entryAt` and `entryCount` are single
requests like `entryAsOf` and are left out.

Keys end with the process, so a call of several pages never spans two
processes: after a restart its next page is refused, and the call throws. For
that reason no run reaches the `INVALID_PAGE` branch; it guards against a server
that is not this one.

### EthereumChainAdapter and the code

`pending[r]` is the local state of one call: idle, awaiting the block, or
awaiting the root with the block's number and hash in hand. `BlockArrives` and
`RootArrives` are the continuations after the two awaits
(`ethereumChain.ts:53` and `:62`); everything after the second runs in one
step. The node is unconstrained. `RefreshThrows` is any failure: transport,
malformed answer or a refusal by the recheck, none of which writes anything.
Accepted heights start anywhere, since a restore sets them before the first
refresh.

### ProofProfiles and the code

The module extends `EthereumChainAdapter`: `Refreshes` restates the part of its
`Next` that is the refresh, and the three `Submit…` actions take the place of
its unconstrained admission, each being a profile's `verify` followed by what
the store does with the verdict. A store has one profile for its life.

| Definition | Code |
| --- | --- |
| `BindingNow`, `BindingDigest` | `engine/proof/binding.ts`: the fields are length-prefixed, so the digest is the binding |
| `Turn`, `Walk`, `MerkleRoot`, `MerklePath` (the loops that build), `HashStep`, `Climb`, `MerkleVerify` (the loop that verifies) | `engine/proof/merkleProfile.ts` |
| `Expected`, `ZkVerify`, `Prove` | `engine/proof/zkProfile.ts` |
| `WithinWindow`, `AttestationVerify` | `engine/proof/attestationProfile.ts` |
| `Attest`, the lists `Published` | the remote register: an issuer, trusted or not, and an application that commits to a list of bindings (external) |

SHA-256 and Ed25519 are perfect: a hash is the pair it hashes, and only its
maker signs. The Merkle run submits the paths that `merklePath` makes and
paths that somebody else made of them, cut short at either end, with a step
turned round or one added; the theorems take any set of paths, `Path`. Chain, contract and register identifier are equal in every binding
of one store and are left out; the candidate is opaque. Only the attestation
profile reads the clock, so only it lets the clock move. An attestation needs no
root: its height need only be finalised and new, and its admission is recorded
without one (`AdmitUnrooted`), so that `EvidenceAdvances` speaks of it as of the others. `PublishedAssumption` says what a
tree is made over: a non-empty list of bindings, none twice, whose paths are within
the 64 steps that `verify` accepts, and that a root the node answers is the root of
such a list.

### ReadAccess and the code

A handler is synchronous, so a request is three steps at most: it arrives, its
body comes in pieces (or its user is being authenticated), and it is answered
from the keys, roles and registers of that moment
(`api/server.ts`, `api/gateway.ts`, `console/server.ts`). `entitled` and
`granted` are history variables: what issue and revoke, assign and revoke have
said so far, kept per tenant and per person where the code keeps records and
lower-cased names. What a register answers, and what a restart does to the keys,
are in `ProjectionClient`.

### ProjectionSettlement and the code

Each transaction is an action. The settlement contract is the register's source
authority (an immutable of `RegisterProjection`), so no other caller of
`initialize` and `admit` exists. A digest is the record of the fields it
hashes; `keccak256` over fixed-width fields is taken as injective, and chain
id, contract address, snapshot hash and registry reference, equal in every
binding of one deployment's gap, are left out. A proof is the binding the
attestor signed. The attestor signs whatever the two public binding functions
answer at some moment; `signed` is everything it has ever signed, and anybody
can submit any of it at any later time.

### RecordDateClaim and the code

`claim()` is split where the code calls the payee. Until the payee returns, only
its own calls happen: another `Claim`, or a transaction of the settlement
contract (`PayeeCalls`); the block time and the attestor stand still. The
transactions include `initializeRegister`, for a token other than the claim's:
the claim's has a final entry while the payee runs. The run has one token, so
there this call is always refused; theorem `ClaimsOnlyCall` covers it. A payee
that fails has its own effects undone by the machine, so that case is the one
step `ClaimRefused`. `ForcedFunds` is ether that reaches a contract without a
payable function; without it a second payment would fail for want of funds and
hide a missing flag.

### IndexedProjection, AsOfSearch and the code

`IndexedProjection` is `class TokenProjection` with `#entries`, `#commitments` and
`#byVersion`; `AdmitEntry` checks a commitment against the set, as `admit` does, and
not against the entries. The store and contract models hold the entries alone and
compute the commitments from them, which `IndexesAgree` shows to be the same.
`AsOfSearch` adds the calls, one after another: `AdmitCall` and `UndoCall`, each
one step, and `entryAsOf`, whose variables are those of `kernel.ts:143-158`.
`ToInt32` is what `>> 1` does to its operand. Indices count from 0, as in the code.
The contract's loop (`RegisterProjection.sol:180-192`) is the same without the
32-bit reduction.

## 3. Runs

| Run | Specification and bounds | What it shows |
| --- | --- | --- |
| `store_gaps` | 1 token, 2 settlements, 2 holders, 2 commitments, versions and instants 0..2, clock 0..2, memory adapter, 2 faults among failed appends and crashes; the journal closed at any time | gaps, deadlines, rollbacks, poisoning and replay keep memory, file and gap records in agreement; a gap closes on its side of its deadline (`GapsCloseInTime`) |
| `store_power` | 2 tokens, 2 register identities, 2 settlements, 2 power cuts, Ethereum ratchet | acknowledged is durable, identities are not mixed, the file loads |
| `store_resumes` | `SupervisedSpec`, 2 settlements, 2 commitments, clock 0..2, 2 faults | the register is able to write again and again, and no gap whose initiator keeps trying to cancel it lasts |
| `onchain_settlement` | 1 token, 2 settlements, 2 accounts, 3 commitments, instants 0..3, timestamps 0..2, 3 signatures; a claim at record date 1 with twice its amount | the contract properties, the refinement of `AppendOnlyRegister`, and the claim with its payee calling back |
| `adapter_refresh` | 2 concurrent refreshes, 2 hashes, heights 0..2, trees of 1 and of 5 leaves, each profile in turn, 1 token, 2 settlements, the paths of both trees and altered ones, window 1, clock 0..2, one attestation or proof | the adapter and proof properties under every interleaving |
| `client_reads` | 1 token, 1 settlement, 2 holders, 3 entries, no faults; `resolve`, `isFinalAsOf`, `holderAsOf`, `openGapOf` and the console's overview, asked about instant 1 | what single requests answer, and what a caller may conclude from two in order, while admissions and gaps go on |
| `client_pages` | 1 token, 1 holder, 3 entries, 2 failed appends or crashes, revocation, one entry a page; `entries` and `entryAsOf` | a listing is one history and all of it, or throws; histories stay sound, final answers stay, and readers see an append-only register across restarts (`AppendOnlyRegister` through the refinement `Register`) |
| `read_access` | 2 tenants, 2 registers, 2 keys, a body of at most one piece, 2 persons with two spellings, one connection to each server | an answer is from the register its key is issued for now, a page is for a role its reader has now |
| `as_of_search` | one projection, admissions and rollbacks in any order up to 7 entries, commitments fresh or used before, instants 0..7 | the two indexes follow the entries; the search ends, on the right entry |
| `ethereum_rollback`, `journal_reused`, `unsynced_restart` | as `store_…`, smaller | expected violations, section 6 |

Why the bounds are enough. A rollback or a replay touches the last entry and
the one before it, so two entries are the least at which each can go wrong and
three let a middle entry be wrong. A tree of five leaves has full pairs and, on two
levels, a node without a neighbour, the one case in which the code duplicates. Two settlements are the least at which one
can be taken for the other or a closed identifier used again. Two faults let a
recovery be interrupted and recovered from; nothing the code keeps counts
faults. The clock reaches one past the longest deadline, so that expiry and the
exact deadline both occur. Three commitments let a history of three
exist, and let its first commitment be offered again. Three signatures allow one to be left unused, or
used late, next to the two that make a history. One attestation is enough to be
late, early, for another gap, or submitted again. Two settlements let the gap it
was made for be cancelled, or expire, and another be open when it is submitted. `UINT64_MAX` is the bound
itself, so the version overflow of the contracts and the largest instant are
within every run.

Instant 1 lies between two of the entries, on one, before all or after all of
them, as their effective times are chosen. Three entries are the least with
which an answer can change and then become final; with one entry a page they
make three pages, and an admission, a fault or a revocation fits between any
two of them.

Bounds are constants: `Methods`, `Instants`, `MaxFaults`, `MaxTime`, `MaxHeight`, `MaxSigned`,
`MaxLength`, `MaxEvidence`, `MaxBalance`, `Key`, `UINT64_MAX`. Deadlock checking is on in
`adapter_refresh`, `read_access` and `as_of_search`, and off in the others: a
poisoned store with no operator, and a store or a contract whose settlements and
time are used up, do stop. Symmetry is over settlement identifiers
and commitments (contracts), settlement identifiers (store), calls and hashes
(adapter), commitments and holders (clients), and tenants, registers and keys
(access); no temporal property with fairness is
checked under symmetry.

**Fairness.** Only two runs assume any. `SupervisedSpec` makes weakly fair:
starting the process when it is down, each replay step, the return of restore,
and giving up a poisoned store. The first and last are what a process
supervisor or an operator does (the code leaves that to its deployment: a
poisoned store refuses writes until it is replaced, and a crashed process does
not restart itself); the middle two are a synchronous loop running to its end. No caller's action is
fair: nobody has to open, admit or cancel. `GapsEnd` therefore has a hypothesis,
`Attended`: the clock goes on, and an initiator who may cancel keeps trying
(weak fairness of `Tick` and of `Cancel`). It says that the code never takes that away, in particular
that a pointer never outlives its settlement record. Faults are bounded by `MaxFaults`, so the claim
is that service resumes once faults stop. `FairSpec` of the search says a
synchronous call keeps running.

## 4. What is proved

TLAPS checks these for every value of the constants that satisfies the named
assumptions of the modules. Every safety invariant and every action property of
the passing runs is stated by one of them; the three liveness properties are not.

| Module | Theorem | Statement |
| --- | --- | --- |
| `TokenProjectionProofs` | `AdmitPreserves`, `UndoRestores`, `FinalAnswerSurvivesAdmit` | admit preserves the invariants; undo is its exact inverse; a final instant keeps its answer |
| `AsOfSearchProofs` | `IndexesStayInAgreement`, `SearchIsCorrect`, `SearchHalves`, `BoundsStayInside` | `IndexesAgree`, `FindsTheEntry`, `Halves`, and the type of the search with its bounds (no run checks it) |
| `ProjectionStoreProofs` | `TypeCorrect`, `ProjectionsAlwaysSound`, `FinalAnswersNeverChange` | `TypeOK`, `ProjectionsSound`, `FinalAnswersStable`, without a hypothesis |
| `JournalProofs` (D) | `AcknowledgedStaysDurable`, `JournalAlwaysLoads`, `MemoryIsTheJournal`, `GapPointersAgree`, `SettlementsAreHonoured`, `IdentityStaysBound`, `AdmissionsAreAtomic`, `DeadlinesAreKept` | `AckedDurable`, `JournalLoads`, `MemoryMatchesJournal`, `GapPointerConsistent`, `SettlementsHonoured`, `IdentityBound`, `AdmissionAtomic`, `GapsCloseInTime` |
| `JournalProofs` (D, S) | `StoreImplementsRegister` | `Spec => ServesARegister`: the store implements `AppendOnlyRegister` |
| `ProjectionClientProofs` (D, S) | `FinalHoldersStand`, `EntriesReadOneHistory`, `EntriesReadItAll`, `GapAndHolderReadTogether` | `FinalHolderStands`, `EntriesAreOneHistory`, `EntriesAreComplete`, `GapAndHolderAgree` |
| `ProjectionSettlementProofs` | `ContractTypeCorrect`, `ContractsKeepTheInvariants`, `ContractsImplementRegister` | `TypeOK`, `RegisterSound`, and `ImplementsRegister`: the contracts implement `AppendOnlyRegister` |
| | `GapPointersAgree`, `EntriesAreProved`, `SignaturesAdmitOnce`, `GapsKeepTheirPromise`, `AdmissionAloneMakesFinal` | `GapPointerConsistent`, `EveryEntryProved`, `OneEntryPerSettlement`, `GapPromise`, `FinalityOnlyByAdmission` |
| | `ClaimsOnlyCall`, `PaysOnce`, `PaysHolderOfRecord` | `ClaimSpec => Spec`, so that the contracts keep all of the above under a claim; `PaidOnce`, `PaidHolderOfRecord` |
| `EthereumChainAdapterProofs` | `FrontierRooted`, `OneRootForEachHeight`, `FrontierIsMonotone`, `EvidenceOnlyAdvances` | `FrontierIsRooted` (no run checks it), `OneRootPerHeight`, `FrontierNeverRewinds`, `EvidenceAdvances`, of the adapter with any admissions |
| | `ProfilesKeepTheEvidence` | the last three of them of a store with each profile above the adapter |
| | `OwnPathsVerify`, `EvidenceVouches` | `OwnPathVerifies`, `AdmittedAsVouched` |
| `ReadAccessProofs` | `RegistersAreOwn`, `PagesAreByRole` | `OwnRegisterOnly`, `PagesByRole` |

### Hypotheses

The assumptions on constants are weak: a commitment is not the zero word, an
address is not the zero address, "no gap" and "no identity" are not identifiers,
bounds are naturals, `UINT64_MAX >= 1`, histories are at most half of 2^31
entries, and `PublishedAssumption` (section 2). Two hypotheses are not, and are
written into the theorems marked D and S:

- **D**, `Disciplined`: if appends can fail, a poisoned store is not replaced over
  the same `FileJournal` object, and the adapter is the memory one. Without the
  first, run `journal_reused` ends with a journal that does not load; without the
  second, run `ethereum_rollback` leaves a gap closed for an entry that is gone,
  in a store that goes on writing. Both are findings of section 6. Where appends
  do not fail, D says nothing.
- **S**, `ServesDurably`: power is cut only where neither crashes nor failed appends
  leave lines that were never synced. Without it run `unsynced_restart` shows
  readers an entry and takes it back.

Every passing run of the store and of the clients has constants that satisfy both:
failed appends and crashes over the memory adapter in `store_gaps`, `store_resumes`
and `client_pages`, power cuts over the Ethereum one in `store_power`.

### The arguments

- **Store.** `ProjectionsSound` alone is not inductive: a step may roll back, and
  what it restores is sound only because undoing the entry just admitted gives
  back exactly the history before (`UndoRestores`). `StoreOK` puts memory in
  `SoundMemory` (typed and sound) and adds that a store which is not down has a
  real identity, which the type of `acked` needs. `Grows` says that a step of a
  running store leaves each history alone or adds one admissible entry;
  `FinalAnswersNeverChange` follows from it and `FinalAnswerSurvivesAdmit`.
- **Durability.** `AckedDurable` is not inductive either: an append to an open
  file that ends in a fragment would acknowledge a line that does not parse.
  `DurableOK` adds that a store which may write has no fragment behind its open
  descriptor, and that a process that is down has none open. Each file operation
  is a lemma of the form `Keeps(f, g)`: what was durable in `f` is durable in `g`,
  at the same place.
- **Replay.** `ReplayOK` is the strengthening from which `JournalLoads`,
  `MemoryMatchesJournal`, `GapPointerConsistent`, `SettlementsHonoured` and
  `IdentityBound` are read off. It says the file is `Lawful`: every line is one that
  a store could have written after the lines before it, so that every *prefix*
  replays without a refusal, to a sound memory whose pointers and settlement
  records agree and for whose settlements the lines account (`Told`). It has to
  speak of every prefix because a crash falls between two replayed lines, a failed
  append leaves memory one line behind, and a power cut shortens the file. It also
  says memory is what the lines applied so far replay to (`Remembers`), and that
  the header of the running store, and durably that of every store that
  acknowledged anything, is on disk (`Headed`, `Vouched`). For each mutation the
  proof shows, `Journals(r)`: the record it writes is lawful, replaying that record
  does to memory what the mutation did, and the rollback is exact.
  `Replay` is a recursive function of the number of lines; its values over a file
  are a trace (`Traces`), and what must hold of all of a trace is proved by taking
  the least index at which it fails.
- **Atomicity.** `AdmissionsAreAtomic` needs the same invariant: an admission
  closes exactly the gap its token points at, which is one that was open.
- **Deadlines.** A record that closes a gap is written by a store whose settlement
  record is the one the opening line carries (`Opens`, a part of `Told`), deadline
  included; so the comparison `finalize`, `cancel` or the route makes in memory is
  one with the deadline on disk (`Timely`). No other step adds a line to the file
  but a header (`AddsAtMost`).
- **What readers are shown.** `ServedOK`: readers have seen the journal or the
  journal without its last line, and while a store serves they see its memory. The
  refinement maps every step to a stutter or to one appended fact; a restart maps
  to a stutter because replay gives back what was shown.
- **Callers.** The caller's steps are stutters of the store (`ReadersOnlyRead`), so the
  theorems about `Spec` hold under `ClientSpec`. One lemma about the register carries all four theorems: the history
  readers are shown only grows (`Continues`). `ClientOK` says of a result, of a call
  in progress and of an answer on its way in which sense each is a reading of the
  present history: pages collected are its beginning, closed within the pinned
  count exactly as it closed (`Collected`, `Page`); a holder that came with finality
  is still the holder (`FactsStand`). For a gap shown beside a holder the journal
  supplies the rest (`GapStory`): a gap that stood open behind entry `L` can only be
  closed by entry `L + 1`.
- **Contracts.** Every write of the register is `Admit` of an admissible
  candidate (`InitializeAdmits`, `AdmitNextAdmits`), so the kernel's lemmas give
  the invariants, and the append is a step of the abstract register. The five gap
  and signature properties are proved over the five things a transaction can do to
  the mappings (`Steps`). `OneEntryPerSettlement` is an equation between a length
  and a cardinality and needs the finiteness of what it counts (`Counted`).
- **Claim.** The flag stands while the payee runs, so a second payment has no first
  step (`PaymentCases`). `PaidHolderOfRecord` then rests on the register, not on
  the claim: the answer was final, and `FinalStays` through every transaction the
  payee causes.
- **Adapter.** `EvidenceOK` types what a pending call carries; the root on record
  at a height can only be rewritten by an equal one. `AdmissionsBehind` says every
  admission made so far lies at or below its token's accepted height and the
  frontier.
- **Merkle.** Building and verifying are two recursive functions over one tree.
  *Completeness*: after any number of turns the path so far leads from the leaf to
  the node at the position (`OnTheWay`), each turn shortens the level, and all paths
  are read off the same levels (`OneTree`). *Uniqueness*: hashing a pair is injective,
  so a path leads to a node from one leaf only (`ClimbInjective`). *Soundness*: a
  node is a leaf or hashed from two nodes (`LeafOrPair`), so a climb that ends in the
  tree was in the tree at every step, and began at a leaf, because no binding is a
  pair (`OnlyLeavesClimb`); this is of any steps, not only of those `merklePath`
  makes. `AdmittedAsVouched` adds that a root on record stands (`RootsStand`) and
  that evidence only accumulates.
- **Access.** What a handler looks at when it answers agrees with what was given
  and taken back: an authenticating key is issued and not withdrawn, a role held
  under a lower-cased name is the person's own (`AccessInv`). Nothing needs to be
  remembered from the moment the request arrived, and that is the point.
- **Indexes.** `IndexedInv` says what `byVersion` is, version `v` at index `v - 1`,
  which holds only of consecutive versions; undo removes exactly one commitment
  because none is reused (`CommitmentsAfterUndo`). It needs the projection
  invariants, and they need the set to be right: the guard of `admit` reads it.
- **Search.** `Bracket` is the loop invariant: `low` is in effect and nothing
  above `high` is. The 32-bit operation is exact as long as twice the length of
  a history fits (`SearchAssumption`, `MiddleIsExact`); what happens beyond that,
  past 2^30 entries of one token, is assumed away and not examined.

For the proofs' sake some definitions are written in a form the provers can
expand: two small operators, `Together` and `Put`, stand for the merging of two
functions; conditions are `IF` where arms of a `CASE` would overlap; and replay,
the Merkle loops and the climb are recursive functions.

**Only model-checked.** The liveness properties `ServiceResumes`, `GapsEnd` and
`Returns`: fairness is outside the prover. That a Merkle tree is as deep as its
path bound requires is assumed of the lists, and that `Published` lists of one and
five leaves reach every branch of the loops is what the run shows.

## 5. What is not modelled, and why

- Cryptography, hashing, ABI, JSON and base64 coding, HTTP parsing and sockets:
  pure or I/O; a proof is a fact and a message a value.
- `nullJournal`, which keeps nothing, and a store constructed directly over a
  journal that holds records (`store.ts:54-71` binds and serves it empty): the
  model goes through `restoreProjectionStore`, as the code documents.
- An adapter object that outlives its store. With the Ethereum adapter a restore
  in the same process replays heights the ratchet has passed and throws
  (`store.ts:353`), in every behaviour and at the first record.
- The memory adapter's test controls, which move the frontier and publish roots:
  the frontier is a constant of a run.
- `EthereumProjectionReader`: ABI coding around single calls, no state between them.
- The console's timeline and pages, metrics and audit export: they order, count
  and render what the store holds.
- Termination of `entries()`: the count is pinned at the first page and each
  request has a deadline, so there is no wait to reason about but the server's.
- A gap past its deadline refuses admissions of its token until its initiator
  cancels it (`admission.ts:10`, `engine.ts:150-156`). Nothing makes the
  initiator act: off chain `GapsEnd` assumes it does, and says only that the code
  then lets it; on chain no liveness of
  settlements is claimed.
- A refresh may stay pending forever: the transport has no timeout.

## 6. Where the code and its description disagree

1. **`ethereum_rollback`.** The rollback of a failed append calls
   `adapter.advanceHeight(tokenId, priorHeight)` (`store.ts:321`), for which "the
   port is a setter". `EthereumChainAdapter.advanceHeight` throws unless the height
   grows (`ethereumChain.ts:98-100`). The rollback stops there, the gap stays
   closed for an entry that is gone, the height stays, and the store is not
   poisoned (`store.ts:104-105`). Contradicts `store.ts:33-35`.
2. **`journal_reused`.** `#open` cuts the fragment only when it opens the file
   (`journal.ts:209`). A `FileJournal` object that is given to a second store after
   a failed append glues its next record to the fragment and acknowledges it.
   Contradicts `journal.ts:203-206`.
3. **`unsynced_restart`.** Replay serves a line that was written and never
   synced; a power cut can still take it back after readers saw it. Contradicts
   `kernel.ts:116-118` and `docs/ERC8415-SEMANTIC-MODEL.md:80-81`.

Without a run of its own: `engine/persistence/README.md:45-47` says reading
truncates the torn tail; `journal.ts:150` says, and the code does, that reading
changes nothing and opening for append does.

## 7. Plan

Done: the kernel, journal, store, restore, settlement engine, routes, clients,
gateway, tenants, roles, Ethereum adapter, proof profiles, contracts, example
consumer and search above, with the theorems of section 4.

Next models, in order:

1. The projection reader over the contracts: finality asked first and the holder
   second, in two calls with blocks between, as `KnownFinal` does off chain.
2. The order of the timeline's rows across entries and gap events.

Next theorems. The safety properties the runs check are proved; what is left is to
narrow hypothesis S. Where power cuts meet crashes a weaker promise should hold (an
entry that was shown and synced is never taken back), which needs a history variable
that tells the two apart.
