-------------------------- MODULE EthereumChainAdapter --------------------------
(***************************************************************************)
(* adapters/ethereum/ethereumChain.ts: the monitoring step, with any       *)
(* number of refreshes in flight at once, and the admissions that read     *)
(* what it stored.  refresh() awaits two JSON-RPC calls; between them and  *)
(* after them other refreshes and admissions run.  The node is external    *)
(* and unconstrained: it may lag, answer from different replicas, change   *)
(* its mind, or fail.  One adapter object; a new process starts with a new *)
(* one.                                                                    *)
(***************************************************************************)
EXTENDS Naturals

CONSTANTS
    Refresh,        \* concurrent calls of refresh()
    Token,
    Hash,           \* block hashes the node may answer
    Root,           \* application roots the node may answer
    Unknown,        \* no value recorded
    MaxHeight       \* bound: block numbers

ASSUME AdapterAssumption ==
    /\ Unknown \notin Hash /\ Unknown \notin Root
    /\ MaxHeight \in Nat

VARIABLES
    finalizedHeight,    \* #finalizedHeight
    hashes,             \* #hashes
    roots,              \* #roots
    heights,            \* #heights: accepted per token
    pending,            \* pending[r]: where the call r of refresh stands
    admissions          \* history variable: at what height, against what root or none

vars == <<finalizedHeight, hashes, roots, heights, pending, admissions>>

Height == 0 .. MaxHeight

Idle == [at |-> "idle"]
AwaitsBlock == [at |-> "block"]
AwaitsRoot == [at : {"root"}, height : Height, hash : Hash]

\* replayAdmitted sets accepted heights before the first refresh.
Init ==
    /\ finalizedHeight = 0
    /\ hashes = [h \in Height |-> Unknown]
    /\ roots = [h \in Height |-> Unknown]
    /\ heights \in [Token -> Height]
    /\ pending = [r \in Refresh |-> Idle]
    /\ admissions = {}

-----------------------------------------------------------------------------
(* refresh().                                                                *)

\* The call is made and eth_getBlockByNumber is sent.
Call(r) ==
    /\ pending[r] = Idle
    /\ pending' = [pending EXCEPT ![r] = AwaitsBlock]
    /\ UNCHANGED <<finalizedHeight, hashes, roots, heights, admissions>>

\* The finalized block arrives and eth_call is sent, pinned to its hash.
BlockArrives(r, height, hash) ==
    /\ pending[r] = AwaitsBlock
    /\ pending' = [pending EXCEPT ![r] = [at |-> "root", height |-> height, hash |-> hash]]
    /\ UNCHANGED <<finalizedHeight, hashes, roots, heights, admissions>>

Agrees(known, answer) == known = Unknown \/ known = answer

\* Seeded fault: the answer is not compared with the frontier again.
UncheckedAnswer(height, hash, root) ==
    Agrees(hashes[height], hash) /\ Agrees(roots[height], root)

\* Seeded fault: only the block hash is compared with what is known.
AnswerForKnownBlock(height, hash, root) ==
    height >= finalizedHeight /\ Agrees(hashes[height], hash)

\* The recheck after the second await.
Acceptable(height, hash, root) ==
    /\ height >= finalizedHeight
    /\ Agrees(hashes[height], hash)
    /\ Agrees(roots[height], root)

Stores(height, hash, root) ==
    /\ finalizedHeight' = height
    /\ hashes' = [hashes EXCEPT ![height] = hash]
    /\ roots' = [roots EXCEPT ![height] = root]

\* The root arrives: the rest of refresh runs without another await.
RootArrives(r, root) ==
    /\ pending[r].at = "root"
    /\ Acceptable(pending[r].height, pending[r].hash, root)
    /\ Stores(pending[r].height, pending[r].hash, root)
    /\ pending' = [pending EXCEPT ![r] = Idle]
    /\ UNCHANGED <<heights, admissions>>

\* The transport throws, an answer is malformed, or the recheck refuses it.
RefreshThrows(r) ==
    /\ pending[r] # Idle
    /\ pending' = [pending EXCEPT ![r] = Idle]
    /\ UNCHANGED <<finalizedHeight, hashes, roots, heights, admissions>>

-----------------------------------------------------------------------------
(* What the store asks of the port in admit.  A profile that verifies against *)
(* a root reads the one recorded at the height; attestation reads none.       *)

IsFinalized(height) == 0 < height /\ height <= finalizedHeight

\* Seeded fault: a height already accepted is accepted again.
Unspent(tok, height) == TRUE

\* The height has not been accepted for the token, nor any later one.
Advances(tok, height) == height > heights[tok]

\* isFinalized, acceptedHeight and advanceHeight of one admission.
AdmitUnder(tok, height, root) ==
    /\ IsFinalized(height)
    /\ Advances(tok, height)
    /\ heights' = [heights EXCEPT ![tok] = height]
    /\ admissions' = admissions \cup
         {[token |-> tok, height |-> height, root |-> root, frontier |-> finalizedHeight]}
    /\ UNCHANGED <<finalizedHeight, hashes, roots, pending>>

\* With stateRootAt: the proof leads to the root recorded at its height.
AdmitAt(tok, height) == roots[height] # Unknown /\ AdmitUnder(tok, height, roots[height])

AdmitUnrooted(tok, height) == AdmitUnder(tok, height, Unknown)
-----------------------------------------------------------------------------

Next ==
    \/ \E r \in Refresh : Call(r)
    \/ \E r \in Refresh, height \in Height, hash \in Hash : BlockArrives(r, height, hash)
    \/ \E r \in Refresh, root \in Root : RootArrives(r, root)
    \/ \E r \in Refresh : RefreshThrows(r)
    \/ \E tok \in Token, height \in Height : AdmitAt(tok, height) \/ AdmitUnrooted(tok, height)

Spec == Init /\ [][Next]_vars

-----------------------------------------------------------------------------
(* Properties.                                                               *)

\* Concurrent refreshes cannot rewind state (ethereumChain.ts:67), in whatever
\* order their answers arrive.
FrontierNeverRewinds == [][finalizedHeight' >= finalizedHeight]_vars

\* The frontier is never ahead of the evidence: once a refresh has succeeded
\* the frontier has its root and its hash, and nothing is recorded beyond it.
FrontierIsRooted ==
    /\ finalizedHeight > 0 => roots[finalizedHeight] # Unknown
    /\ \A h \in Height : roots[h] # Unknown <=> hashes[h] # Unknown
    /\ \A h \in Height : roots[h] # Unknown => h <= finalizedHeight

\* All admissions at one height that were verified against a root, of any token
\* and at any time, were verified against one and the same, still on record.
OneRootPerHeight == \A a \in admissions : a.root # Unknown => a.root = roots[a.height]

\* No two admissions of a token, rooted or attested, rest on the same remote
\* height, and a later one rests on a later height under a frontier no lower.
EvidenceAdvances ==
    [][\A a \in admissions, b \in admissions' \ admissions :
         a.token = b.token => a.height < b.height /\ a.frontier <= b.frontier]_vars
=============================================================================
