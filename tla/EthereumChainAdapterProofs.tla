----------------------- MODULE EthereumChainAdapterProofs -----------------------
(***************************************************************************)
(* The adapter with any number of refreshes in flight, any node and any    *)
(* heights: the frontier never rewinds, and a height keeps its one root.   *)
(* Then the profiles of ProofProfiles over it: the Merkle tree over a list *)
(* of any length, and what an admission's evidence vouched for.            *)
(***************************************************************************)
EXTENDS ProofProfiles, WellFoundedInduction, TLAPS

\* The part of the state the arguments rest on.
EvidenceOK ==
    /\ finalizedHeight \in Nat
    /\ hashes \in [Height -> Hash \cup {Unknown}]
    /\ roots \in [Height -> Root \cup {Unknown}]
    /\ heights \in [Token -> Height]
    /\ pending \in [Refresh -> {Idle, AwaitsBlock} \cup AwaitsRoot]
    /\ \A a \in admissions : a.height \in Height

LEMMA AwaitingRootTyped ==
    ASSUME EvidenceOK, NEW r \in Refresh, pending[r].at = "root"
    PROVE  pending[r].height \in Height /\ pending[r].hash \in Hash
<1>1. pending[r] \in {Idle, AwaitsBlock} \cup AwaitsRoot
  BY DEF EvidenceOK
<1>2. pending[r] # Idle /\ pending[r] # AwaitsBlock
  BY DEF Idle, AwaitsBlock
<1> QED
  BY <1>1, <1>2 DEF AwaitsRoot

LEMMA InitEvidence == Init => EvidenceOK /\ OneRootPerHeight
BY DEF Init, EvidenceOK, OneRootPerHeight, Idle, Height

\* One lemma per action.  Only RootArrives writes the frontier or a root, and
\* then it has just compared both with what is there.
LEMMA CallOK ==
    ASSUME EvidenceOK, OneRootPerHeight, NEW r \in Refresh, Call(r)
    PROVE  EvidenceOK' /\ OneRootPerHeight' /\ finalizedHeight' >= finalizedHeight
BY DEF EvidenceOK, OneRootPerHeight, Call

LEMMA BlockArrivesOK ==
    ASSUME EvidenceOK, OneRootPerHeight, NEW r \in Refresh, NEW height \in Height,
           NEW hash \in Hash, BlockArrives(r, height, hash)
    PROVE  EvidenceOK' /\ OneRootPerHeight' /\ finalizedHeight' >= finalizedHeight
<1>1. [at |-> "root", height |-> height, hash |-> hash] \in AwaitsRoot
  BY DEF AwaitsRoot
<1> QED
  BY <1>1 DEF EvidenceOK, OneRootPerHeight, BlockArrives

LEMMA RootArrivesOK ==
    ASSUME EvidenceOK, OneRootPerHeight, NEW r \in Refresh, NEW root \in Root,
           RootArrives(r, root)
    PROVE  EvidenceOK' /\ OneRootPerHeight' /\ finalizedHeight' >= finalizedHeight
<1> DEFINE height == pending[r].height
           hash == pending[r].hash
<1>1. height \in Height /\ hash \in Hash
  BY AwaitingRootTyped DEF RootArrives
<1>2. /\ Acceptable(height, hash, root)
      /\ finalizedHeight' = height
      /\ hashes' = [hashes EXCEPT ![height] = hash]
      /\ roots' = [roots EXCEPT ![height] = root]
      /\ pending' = [pending EXCEPT ![r] = Idle]
      /\ UNCHANGED <<heights, admissions>>
  BY DEF RootArrives, Stores
<1> HIDE DEF height, hash
<1>3. EvidenceOK'
  <2>1. finalizedHeight' \in Nat
    BY <1>1, <1>2, AdapterAssumption DEF Height
  <2>2. /\ hashes' \in [Height -> Hash \cup {Unknown}]
        /\ roots' \in [Height -> Root \cup {Unknown}]
    BY <1>1, <1>2 DEF EvidenceOK
  <2>3. pending' \in [Refresh -> {Idle, AwaitsBlock} \cup AwaitsRoot]
    BY <1>2 DEF EvidenceOK
  <2> QED
    BY <1>2, <2>1, <2>2, <2>3 DEF EvidenceOK
<1>4. OneRootPerHeight'
  <2> SUFFICES ASSUME NEW a \in admissions, a.root # Unknown PROVE a.root = roots'[a.height]
    BY <1>2 DEF OneRootPerHeight
  <2>1. a.height \in Height /\ a.root # Unknown /\ a.root = roots[a.height]
    BY DEF EvidenceOK, OneRootPerHeight
  <2>2. a.height = height => roots[height] = root
    BY <1>2, <2>1 DEF Acceptable, Agrees
  <2> QED
    BY <1>1, <1>2, <2>1, <2>2 DEF EvidenceOK
<1>5. finalizedHeight' >= finalizedHeight
  BY <1>2 DEF Acceptable
<1> QED
  BY <1>3, <1>4, <1>5

LEMMA RefreshThrowsOK ==
    ASSUME EvidenceOK, OneRootPerHeight, NEW r \in Refresh, RefreshThrows(r)
    PROVE  EvidenceOK' /\ OneRootPerHeight' /\ finalizedHeight' >= finalizedHeight
BY DEF EvidenceOK, OneRootPerHeight, RefreshThrows

LEMMA AdmitUnderOK ==
    ASSUME EvidenceOK, OneRootPerHeight, NEW tok \in Token, NEW height \in Height,
           NEW root, root = Unknown \/ root = roots[height], AdmitUnder(tok, height, root)
    PROVE  EvidenceOK' /\ OneRootPerHeight' /\ finalizedHeight' >= finalizedHeight
BY DEF EvidenceOK, OneRootPerHeight, AdmitUnder

\* Rooted or not, an admission is one of AdmitUnder.
LEMMA AdmissionIsUnder ==
    ASSUME NEW tok \in Token, NEW height \in Height,
           AdmitAt(tok, height) \/ AdmitUnrooted(tok, height)
    PROVE  \E root : (root = Unknown \/ root = roots[height]) /\ AdmitUnder(tok, height, root)
BY DEF AdmitAt, AdmitUnrooted

LEMMA NextEvidence ==
    ASSUME EvidenceOK, OneRootPerHeight, [Next]_vars
    PROVE  EvidenceOK' /\ OneRootPerHeight' /\ finalizedHeight' >= finalizedHeight
<1>1. CASE UNCHANGED vars
  BY <1>1 DEF EvidenceOK, OneRootPerHeight, vars
<1>2. ASSUME NEW tok \in Token, NEW height \in Height,
             AdmitAt(tok, height) \/ AdmitUnrooted(tok, height)
      PROVE  EvidenceOK' /\ OneRootPerHeight' /\ finalizedHeight' >= finalizedHeight
  BY <1>2, AdmissionIsUnder, AdmitUnderOK
<1> QED
  BY <1>1, <1>2, CallOK, BlockArrivesOK, RootArrivesOK, RefreshThrowsOK DEF Next

THEOREM EvidenceInvariant == Spec => [](EvidenceOK /\ OneRootPerHeight)
BY InitEvidence, NextEvidence, PTL DEF Spec

\* All admissions at one remote height were verified against one root, whatever
\* the node answered to however many refreshes in whatever order.
THEOREM OneRootForEachHeight == Spec => []OneRootPerHeight
BY EvidenceInvariant, PTL

\* Concurrent refreshes cannot rewind the finalized frontier.
THEOREM FrontierIsMonotone == Spec => FrontierNeverRewinds
<1>1. EvidenceOK /\ OneRootPerHeight /\ [Next]_vars =>
        [finalizedHeight' >= finalizedHeight]_vars
  BY NextEvidence
<1> QED
  BY <1>1, EvidenceInvariant, PTL DEF Spec, FrontierNeverRewinds

-----------------------------------------------------------------------------
(* The frontier and the evidence.                                            *)

\* A recorded height lies at or below the frontier; hashes and roots are
\* recorded together.
LEMMA RootedStep ==
    ASSUME EvidenceOK, OneRootPerHeight, FrontierIsRooted, [Next]_vars
    PROVE  FrontierIsRooted'
<1>1. CASE UNCHANGED <<finalizedHeight, hashes, roots>>
  BY <1>1 DEF FrontierIsRooted
<1>2. ASSUME NEW r \in Refresh, NEW root \in Root, RootArrives(r, root)
      PROVE  FrontierIsRooted'
  <2> DEFINE height == pending[r].height
             hash == pending[r].hash
  <2>1. height \in Height /\ hash \in Hash
    BY <1>2, AwaitingRootTyped DEF RootArrives
  <2>2. /\ height >= finalizedHeight
        /\ finalizedHeight' = height
        /\ hashes' = [hashes EXCEPT ![height] = hash]
        /\ roots' = [roots EXCEPT ![height] = root]
    BY <1>2 DEF RootArrives, Stores, Acceptable
  <2>3. hash # Unknown /\ root # Unknown
    BY <2>1, AdapterAssumption
  <2> HIDE DEF height, hash
  <2>4. /\ \A h \in Height : hashes'[h] = IF h = height THEN hash ELSE hashes[h]
        /\ \A h \in Height : roots'[h] = IF h = height THEN root ELSE roots[h]
    BY <2>1, <2>2 DEF EvidenceOK
  <2>5. \A h \in Height : roots'[h] # Unknown => h <= finalizedHeight'
    <3> SUFFICES ASSUME NEW h \in Height, roots'[h] # Unknown
                 PROVE  h <= height
      BY <2>2
    <3>1. CASE h = height
      BY <2>1, <3>1, AdapterAssumption DEF Height
    <3>2. CASE h # height
      BY <2>1, <2>2, <2>4, <3>2, AdapterAssumption DEF FrontierIsRooted, EvidenceOK, Height
    <3> QED
      BY <3>1, <3>2
  <2> QED
    BY <2>1, <2>2, <2>3, <2>4, <2>5 DEF FrontierIsRooted
<1> QED
  BY <1>1, <1>2
  DEF Next, Call, BlockArrives, RefreshThrows, AdmitAt, AdmitUnrooted, AdmitUnder, vars

\* The frontier is never ahead of the evidence, however refreshes interleave.
THEOREM FrontierRooted == Spec => []FrontierIsRooted
<1>1. Init => FrontierIsRooted
  BY AdapterAssumption DEF Init, FrontierIsRooted, Height
<1>2. EvidenceOK /\ OneRootPerHeight /\ FrontierIsRooted /\ [Next]_vars => FrontierIsRooted'
  BY RootedStep
<1> QED
  BY <1>1, <1>2, EvidenceInvariant, PTL DEF Spec

\* What the adapter holds bounds every admission made so far: its token's
\* accepted height and the frontier have only grown since.
AdmissionsBehind ==
    \A a \in admissions :
        /\ a.token \in Token /\ a.height \in Nat /\ a.frontier \in Nat
        /\ a.height <= heights[a.token]
        /\ a.frontier <= finalizedHeight

\* An admission rests on a later height than any before it on its token.
Advance ==
    \A a \in admissions, b \in admissions' \ admissions :
        a.token = b.token => a.height < b.height /\ a.frontier <= b.frontier

LEMMA AdvanceStep ==
    ASSUME EvidenceOK, OneRootPerHeight, AdmissionsBehind, [Next]_vars
    PROVE  AdmissionsBehind' /\ Advance
<1>1. ASSUME UNCHANGED <<admissions, heights>>
      PROVE  AdmissionsBehind' /\ Advance
  <2>1. finalizedHeight' \in Nat /\ finalizedHeight \in Nat /\ finalizedHeight' >= finalizedHeight
    BY NextEvidence DEF EvidenceOK
  <2>2. \A a \in admissions : a.frontier <= finalizedHeight'
    BY <2>1 DEF AdmissionsBehind
  <2> QED
    BY <1>1, <2>2 DEF AdmissionsBehind, Advance
<1>2. ASSUME NEW tok \in Token, NEW height \in Height, NEW root, AdmitUnder(tok, height, root)
      PROVE  AdmissionsBehind' /\ Advance
  <2> DEFINE new == [token |-> tok, height |-> height, root |-> root,
                     frontier |-> finalizedHeight]
  <2>1. /\ height > heights[tok]
        /\ heights' = [heights EXCEPT ![tok] = height]
        /\ admissions' = admissions \cup {new}
        /\ finalizedHeight' = finalizedHeight
    BY <1>2 DEF AdmitUnder, Advances
  <2>2. heights[tok] \in Nat /\ height \in Nat /\ finalizedHeight \in Nat
    BY AdapterAssumption DEF EvidenceOK, Height
  <2>3. new.token = tok /\ new.height = height /\ new.frontier = finalizedHeight
    OBVIOUS
  <2> HIDE DEF new
  <2>4. \A t \in Token : heights'[t] = IF t = tok THEN height ELSE heights[t]
    BY <2>1 DEF EvidenceOK
  <2>5. \A a \in admissions : a.height <= heights'[a.token]
    <3> SUFFICES ASSUME NEW a \in admissions PROVE a.height <= heights'[a.token]
      OBVIOUS
    <3>1. a.token \in Token /\ a.height \in Nat /\ a.height <= heights[a.token]
      BY DEF AdmissionsBehind
    <3>2. CASE a.token = tok
      BY <2>1, <2>2, <2>4, <3>1, <3>2
    <3>3. CASE a.token # tok
      BY <2>4, <3>1, <3>3
    <3> QED
      BY <3>2, <3>3
  <2>6. AdmissionsBehind'
    BY <2>1, <2>2, <2>3, <2>4, <2>5 DEF AdmissionsBehind
  <2>7. Advance
    <3> SUFFICES ASSUME NEW a \in admissions, a.token = tok
                 PROVE  a.height < height /\ a.frontier <= finalizedHeight
      BY <2>1, <2>3 DEF Advance
    <3> QED
      BY <2>1, <2>2 DEF AdmissionsBehind
  <2> QED
    BY <2>6, <2>7
<1> QED
  BY <1>1, <1>2, AdmissionIsUnder DEF Next, Call, BlockArrives, RootArrives, RefreshThrows, vars

\* No two admissions of a token rest on the same remote height; each rests on a
\* later one, under a frontier no lower.
THEOREM EvidenceOnlyAdvances == Spec => EvidenceAdvances
<1>1. Init => AdmissionsBehind
  BY DEF Init, AdmissionsBehind
<1>2. EvidenceOK /\ OneRootPerHeight /\ AdmissionsBehind /\ [Next]_vars => AdmissionsBehind'
  BY AdvanceStep
<1>3. EvidenceOK /\ OneRootPerHeight /\ AdmissionsBehind /\ [Next]_vars => [Advance]_vars
  BY AdvanceStep
<1>4. Spec => []AdmissionsBehind
  BY <1>1, <1>2, EvidenceInvariant, PTL DEF Spec
<1> HIDE DEF Advance
<1>5. Spec => [][Advance]_vars
  BY <1>3, <1>4, EvidenceInvariant, PTL DEF Spec
<1> QED
  BY <1>5 DEF EvidenceAdvances, Advance

-----------------------------------------------------------------------------
(* The Merkle profile, for a list of any length.                             *)

\* The library's well-founded order on the naturals, as a plain set of pairs.
LEMMA NatOrder ==
    \E R : IsWellFoundedOn(R, Nat) /\ \A x, y \in Nat : <<y, x>> \in R <=> y < x
<1> DEFINE R == OpToRel(<, Nat)
<1>1. IsWellFoundedOn(R, Nat)
  BY NatLessThanWellFounded
<1>2. \A x, y \in Nat : <<y, x>> \in R <=> y < x
  BY DEF OpToRel
<1> HIDE DEF R
<1> QED
  BY <1>1, <1>2, Zenon

\* A nonempty set of naturals has a least element.
LEMMA LeastNatural ==
    ASSUME NEW T, T \subseteq Nat, T # {}
    PROVE  \E x \in T : \A y \in T : x <= y
<1>1. PICK R : IsWellFoundedOn(R, Nat) /\ \A x, y \in Nat : <<y, x>> \in R <=> y < x
  BY NatOrder
<1>2. PICK x \in T : \A y \in T : ~ (<<y, x>> \in R)
  BY <1>1, WFMin
<1>3. ASSUME NEW y \in T
      PROVE  x <= y
  <2>1. x \in Nat /\ y \in Nat
    OBVIOUS
  <2>2. ~ (<<y, x>> \in R)
    BY <1>2
  <2>3. ~ (y < x)
    BY <1>1, <2>1, <2>2, Zenon
  <2> QED
    BY <2>1, <2>3
<1> QED
  BY <1>3

LEMMA HashPairInjective ==
    ASSUME NEW a, NEW b, NEW c, NEW d, HashPair(a, b) = HashPair(c, d)
    PROVE  a = c /\ b = d
<1>1. HashPair(a, b).left = a /\ HashPair(a, b).right = b
  BY DEF HashPair
<1>2. HashPair(c, d).left = c /\ HashPair(c, d).right = d
  BY DEF HashPair
<1> QED
  BY <1>1, <1>2

LEMMA HashStepInjective ==
    ASSUME NEW a, NEW b, NEW step, HashStep(a, step) = HashStep(b, step)
    PROVE  a = b
BY HashPairInjective DEF HashStep

\* The nodes from a leaf up a path, level by level.
Climbs(node, leaf, path) ==
    /\ node[0] = leaf
    /\ \A k \in 1 .. Len(path) : node[k] = HashStep(node[k - 1], path[k])

\* The recursive definition of Climb has a solution, because one for n - 1 steps
\* extends to one for n.
LEMMA ClimbExists ==
    ASSUME NEW leaf, NEW path, NEW N \in Nat
    PROVE  \E f : f = [n \in 0 .. N |->
                        IF n = 0 THEN leaf ELSE HashStep(f[n - 1], path[n])]
<1> DEFINE Solves(f, m) == f = [n \in 0 .. m |->
                        IF n = 0 THEN leaf ELSE HashStep(f[n - 1], path[n])]
           T == {m \in Nat : ~\E f : Solves(f, m)}
<1> SUFFICES ASSUME T # {} PROVE FALSE
  OBVIOUS
<1>1. PICK x \in T : \A y \in T : x <= y
  <2>1. T \subseteq Nat
    OBVIOUS
  <2> HIDE DEF T
  <2> QED
    BY <2>1, LeastNatural
<1>2. x \in Nat /\ \A f : ~Solves(f, x)
  OBVIOUS
<1>3. CASE x = 0
  <2>1. Solves([n \in 0 .. 0 |-> leaf], 0)
    OBVIOUS
  <2> QED
    BY <1>2, <1>3, <2>1
<1>4. CASE x # 0
  <2>1. x - 1 \in Nat /\ x - 1 \notin T
    BY <1>1, <1>2, <1>4
  <2>2. PICK f : Solves(f, x - 1)
    BY <2>1
  <2> DEFINE g == [n \in 0 .. x |-> IF n = x THEN HashStep(f[x - 1], path[x]) ELSE f[n]]
  <2>3. \A n \in 0 .. x - 1 : g[n] = f[n]
    BY <1>2, <2>1
  <2>4. \A n \in 0 .. x - 1 : f[n] = IF n = 0 THEN leaf ELSE HashStep(f[n - 1], path[n])
    BY <2>2
  <2>5. \A n \in 0 .. x : g[n] = IF n = 0 THEN leaf ELSE HashStep(g[n - 1], path[n])
    <3> SUFFICES ASSUME NEW n \in 0 .. x
                 PROVE  g[n] = IF n = 0 THEN leaf ELSE HashStep(g[n - 1], path[n])
      OBVIOUS
    <3>1. CASE n = x
      <4>1. g[x] = HashStep(f[x - 1], path[x])
        BY <1>2
      <4>2. g[x - 1] = f[x - 1]
        BY <2>1, <2>3
      <4> QED
        BY <1>4, <3>1, <4>1, <4>2
    <3>2. CASE n # x /\ n # 0
      <4>1. n \in 0 .. x - 1 /\ n - 1 \in 0 .. x - 1
        BY <1>2, <3>2
      <4> HIDE DEF g
      <4> QED
        BY <2>3, <2>4, <3>2, <4>1
    <3>3. CASE n = 0
      BY <1>2, <1>4, <2>1, <2>3, <2>4, <3>3
    <3> QED
      BY <3>1, <3>2, <3>3
  <2>6. Solves(g, x)
    BY <2>5
  <2> QED
    BY <1>2, <2>6
<1> QED
  BY <1>3, <1>4

LEMMA ClimbClimbs ==
    ASSUME NEW leaf, NEW path, Len(path) \in Nat
    PROVE  \E node : Climbs(node, leaf, path) /\ Climb(leaf, path) = node[Len(path)]
<1> DEFINE f == CHOOSE f : f = [n \in 0 .. Len(path) |->
                  IF n = 0 THEN leaf ELSE HashStep(f[n - 1], path[n])]
<1>1. f = [n \in 0 .. Len(path) |->
                  IF n = 0 THEN leaf ELSE HashStep(f[n - 1], path[n])]
  BY ClimbExists
<1>2. Climb(leaf, path) = f[Len(path)]
  BY DEF Climb
<1> HIDE DEF f
<1>3. Climbs(f, leaf, path)
  BY <1>1 DEF Climbs
<1> QED
  BY <1>2, <1>3

\* Two climbs by the same steps agree at one node only if they agree at all of
\* them from there down, and at every node from their leaf up.
LEMMA ClimbsAgree ==
    ASSUME NEW n \in Nat, NEW f, NEW g, NEW p, NEW q, f[0] = g[0],
           \A k \in 1 .. n : f[k] = HashStep(f[k - 1], p[k]),
           \A k \in 1 .. n : g[k] = HashStep(g[k - 1], q[k]),
           \A k \in 1 .. n : p[k] = q[k]
    PROVE  f[n] = g[n]
<1> DEFINE T == {k \in 0 .. n : f[k] # g[k]}
<1> SUFFICES ASSUME T # {} PROVE FALSE
  OBVIOUS
<1>1. PICK x \in T : \A y \in T : x <= y
  <2>1. T \subseteq Nat
    OBVIOUS
  <2> HIDE DEF T
  <2> QED
    BY <2>1, LeastNatural
<1>2. x # 0 /\ x \in 1 .. n /\ x - 1 \in 0 .. n
  OBVIOUS
<1>3. x - 1 \notin T
  BY <1>1, <1>2
<1>4. f[x - 1] = g[x - 1]
  BY <1>2, <1>3
<1> QED
  BY <1>2, <1>4

LEMMA ClimbEmpty ==
    ASSUME NEW leaf
    PROVE  Climb(leaf, <<>>) = leaf
BY ClimbClimbs DEF Climbs

LEMMA ClimbAppend ==
    ASSUME NEW leaf, NEW S, NEW path \in Seq(S), NEW step
    PROVE  Climb(leaf, path \o <<step>>) = HashStep(Climb(leaf, path), step)
<1> DEFINE longer == path \o <<step>>
           n == Len(path)
<1>1. n \in Nat /\ Len(longer) = n + 1 /\ longer[n + 1] = step
  OBVIOUS
<1>2. \A k \in 1 .. n : longer[k] = path[k]
  OBVIOUS
<1>3. PICK f : Climbs(f, leaf, path) /\ Climb(leaf, path) = f[n]
  BY <1>1, ClimbClimbs
<1> HIDE DEF longer, n
<1>4. PICK g : Climbs(g, leaf, longer) /\ Climb(leaf, longer) = g[n + 1]
  BY <1>1, ClimbClimbs
<1>5. f[n] = g[n]
  <2>1. /\ f[0] = g[0]
        /\ \A k \in 1 .. n : f[k] = HashStep(f[k - 1], path[k])
        /\ \A k \in 1 .. n : g[k] = HashStep(g[k - 1], longer[k])
    BY <1>1, <1>3, <1>4 DEF Climbs, n
  <2>2. \A k \in 1 .. n : path[k] = longer[k]
    BY <1>2
  <2>3. n \in Nat
    BY <1>1
  <2> QED
    BY <2>1, <2>2, <2>3, ClimbsAgree
<1>6. g[n + 1] = HashStep(g[n], step)
  BY <1>1, <1>4 DEF Climbs
<1> QED
  BY <1>3, <1>4, <1>5, <1>6 DEF longer

\* A path leads to one node from one leaf only.
LEMMA ClimbInjective ==
    ASSUME NEW a, NEW b, NEW path, Len(path) \in Nat, Climb(a, path) = Climb(b, path)
    PROVE  a = b
<1>1. PICK f : Climbs(f, a, path) /\ Climb(a, path) = f[Len(path)]
  BY ClimbClimbs
<1>2. PICK g : Climbs(g, b, path) /\ Climb(b, path) = g[Len(path)]
  BY ClimbClimbs
<1> DEFINE T == {k \in 0 .. Len(path) : f[k] = g[k]}
<1>3. PICK x \in T : \A y \in T : x <= y
  <2>0. Len(path) \in 0 .. Len(path)
    OBVIOUS
  <2>1. f[Len(path)] = g[Len(path)]
    BY <1>1, <1>2, Zenon
  <2>2. T \subseteq Nat /\ Len(path) \in T
    BY <2>0, <2>1
  <2> HIDE DEF T
  <2> QED
    BY <2>2, LeastNatural
<1>4. CASE x = 0
  BY <1>1, <1>2, <1>4 DEF Climbs
<1>5. CASE x # 0
  <2>1. x \in 1 .. Len(path) /\ x - 1 \in 0 .. Len(path)
    BY <1>5
  <2>2. f[x] = HashStep(f[x - 1], path[x]) /\ g[x] = HashStep(g[x - 1], path[x])
    BY <1>1, <1>2, <2>1 DEF Climbs
  <2>3. f[x - 1] = g[x - 1]
    BY <2>2, HashStepInjective
  <2>4. x - 1 \in T
    BY <2>1, <2>3
  <2> QED
    BY <1>3, <2>1, <2>4
<1> QED
  BY <1>4, <1>5

Start(leaves, index) == [level |-> leaves, position |-> index, path |-> <<>>]

\* The tree, level by level, beside the path of one leaf: the turns of the loop.
Walks(at, leaves, index) ==
    /\ at[0] = Start(leaves, index)
    /\ \A n \in 1 .. Len(leaves) : at[n] = Turn(at[n - 1])

LEMMA WalkExists ==
    ASSUME NEW start, NEW N \in Nat
    PROVE  \E f : f = [n \in 0 .. N |->
                        IF n = 0 THEN start ELSE Turn(f[n - 1])]
<1> DEFINE Solves(f, m) == f = [n \in 0 .. m |->
                        IF n = 0 THEN start ELSE Turn(f[n - 1])]
           T == {m \in Nat : ~\E f : Solves(f, m)}
<1> SUFFICES ASSUME T # {} PROVE FALSE
  OBVIOUS
<1>1. PICK x \in T : \A y \in T : x <= y
  <2>1. T \subseteq Nat
    OBVIOUS
  <2> HIDE DEF T
  <2> QED
    BY <2>1, LeastNatural
<1>2. x \in Nat /\ \A f : ~Solves(f, x)
  OBVIOUS
<1>3. CASE x = 0
  <2>1. Solves([n \in 0 .. 0 |-> start], 0)
    OBVIOUS
  <2> QED
    BY <1>2, <1>3, <2>1
<1>4. CASE x # 0
  <2>1. x - 1 \in Nat /\ x - 1 \notin T
    <3>1. x \in Nat
      BY <1>2
    <3> HIDE DEF T
    <3> QED
      BY <1>1, <1>4, <3>1
  <2>2. PICK f : Solves(f, x - 1)
    BY <2>1
  <2> DEFINE g == [n \in 0 .. x |-> IF n = x THEN Turn(f[x - 1]) ELSE f[n]]
  <2>3. \A n \in 0 .. x - 1 : g[n] = f[n]
    BY <1>2, <2>1
  <2>4. \A n \in 0 .. x - 1 : f[n] = IF n = 0 THEN start ELSE Turn(f[n - 1])
    BY <2>2
  <2>5. \A n \in 0 .. x : g[n] = IF n = 0 THEN start ELSE Turn(g[n - 1])
    <3> SUFFICES ASSUME NEW n \in 0 .. x
                 PROVE  g[n] = IF n = 0 THEN start ELSE Turn(g[n - 1])
      OBVIOUS
    <3>1. CASE n = x
      <4>1. g[x] = Turn(f[x - 1])
        BY <1>2
      <4>2. g[x - 1] = f[x - 1]
        BY <2>1, <2>3
      <4> QED
        BY <1>4, <3>1, <4>1, <4>2
    <3>2. CASE n # x /\ n # 0
      <4>1. n \in 0 .. x - 1 /\ n - 1 \in 0 .. x - 1
        BY <1>2, <3>2
      <4> HIDE DEF g
      <4> QED
        BY <2>3, <2>4, <3>2, <4>1
    <3>3. CASE n = 0
      BY <1>2, <1>4, <2>1, <2>3, <2>4, <3>3
    <3> QED
      BY <3>1, <3>2, <3>3
  <2>6. Solves(g, x)
    BY <2>5
  <2> QED
    BY <1>2, <2>6
<1> QED
  BY <1>3, <1>4

LEMMA WalkWalks ==
    ASSUME NEW leaves, NEW index, Len(leaves) \in Nat
    PROVE  \E at : Walks(at, leaves, index) /\ Walk(leaves, index) = at[Len(leaves)]
<1>0. PICK start : start = [level |-> leaves, position |-> index, path |-> <<>>]
  OBVIOUS
<1> DEFINE f == CHOOSE f : f = [n \in 0 .. Len(leaves) |->
                  IF n = 0 THEN start ELSE Turn(f[n - 1])]
<1>1. f = [n \in 0 .. Len(leaves) |-> IF n = 0 THEN start ELSE Turn(f[n - 1])]
  BY WalkExists
<1>2. Walk(leaves, index) = f[Len(leaves)]
  BY <1>0, Zenon DEF Walk
<1> HIDE DEF f
<1>3. Walks(f, leaves, index)
  BY <1>0, <1>1 DEF Walks, Start
<1> QED
  BY <1>2, <1>3

-----------------------------------------------------------------------------
\* A level of the tree, and a position on it.
IsLevel(level) == \E S : level \in Seq(S) /\ Len(level) >= 1

OnLevel(level, position) == position \in Nat /\ position < Len(level)

\* The next level has a node for every two, the last of an odd number paired
\* with itself.
LEMMA NextLevelIs ==
    ASSUME NEW level, IsLevel(level)
    PROVE  /\ IsLevel(NextLevel(level))
           /\ Len(NextLevel(level)) = (Len(level) + 1) \div 2
           /\ \A q \in Nat : q < (Len(level) + 1) \div 2 =>
                 NextLevel(level)[q + 1] = HashPair(Left(level, 2 * q), Right(level, 2 * q))
<1>1. Len(level) \in Nat /\ Len(level) >= 1
  BY DEF IsLevel
<1> DEFINE m == (Len(level) + 1) \div 2
           E(i) == HashPair(Left(level, 2 * (i - 1)), Right(level, 2 * (i - 1)))
           next == [i \in 1 .. m |-> E(i)]
           S == {E(i) : i \in 1 .. m}
<1>2. m \in Nat /\ m >= 1
  BY <1>1
<1>3. next = NextLevel(level)
  BY DEF NextLevel
<1>4. next \in Seq(S) /\ Len(next) = m
  <2> HIDE DEF m, E
  <2>1. next \in [1 .. m -> S]
    OBVIOUS
  <2> HIDE DEF next, S
  <2>2. next \in Seq(S)
    BY <1>2, <2>1
  <2>3. DOMAIN next = 1 .. m /\ DOMAIN next = 1 .. Len(next) /\ Len(next) \in Nat
    BY <2>1, <2>2
  <2> QED
    BY <1>2, <2>2, <2>3
<1>5. ASSUME NEW q \in Nat, q < m
      PROVE  next[q + 1] = HashPair(Left(level, 2 * q), Right(level, 2 * q))
  <2>1. q + 1 \in 1 .. m /\ (q + 1) - 1 = q
    BY <1>2, <1>5
  <2>2. next[q + 1] = E(q + 1)
    BY <2>1
  <2> QED
    BY <2>1, <2>2
<1> HIDE DEF next, S, E
<1>6. IsLevel(next)
  BY <1>2, <1>4 DEF IsLevel
<1> HIDE DEF m
<1> QED
  BY <1>3, <1>4, <1>5, <1>6 DEF m

\* One step of the path leads from the node at a position to its parent.
LEMMA StepLeadsUp ==
    ASSUME NEW level, IsLevel(level), NEW position, OnLevel(level, position)
    PROVE  \E step :
              /\ StepAt(level, position) = <<step>>
              /\ OnLevel(NextLevel(level), position \div 2)
              /\ HashStep(level[position + 1], step) = NextLevel(level)[(position \div 2) + 1]
<1> DEFINE q == position \div 2
<1>1. Len(level) \in Nat /\ Len(level) >= 1 /\ position \in Nat /\ position < Len(level)
  BY DEF IsLevel, OnLevel
<1>2. /\ q \in Nat /\ q < (Len(level) + 1) \div 2 /\ (2 * q) \div 2 = q
      /\ position % 2 = 1 => position = 2 * q + 1
      /\ position % 2 # 1 => position = 2 * q
  BY <1>1
<1> HIDE DEF q
<1>3. NextLevel(level)[q + 1] = HashPair(Left(level, 2 * q), Right(level, 2 * q))
  BY <1>2, NextLevelIs
<1>4. Left(level, position) = Left(level, 2 * q) /\ Right(level, position) = Right(level, 2 * q)
  BY <1>2 DEF Left, Right, q
<1>5. OnLevel(NextLevel(level), q)
  BY <1>2, NextLevelIs DEF OnLevel
<1>6. CASE position % 2 = 1
  <2> DEFINE step == [hash |-> Left(level, position), side |-> "left"]
  <2>1. StepAt(level, position) = <<step>>
    BY <1>6 DEF StepAt
  <2>2. level[position + 1] = Right(level, position)
    BY <1>1, <1>2, <1>6 DEF Right, q
  <2>3. step.side = "left" /\ step.hash = Left(level, position)
    OBVIOUS
  <2> HIDE DEF step
  <2>4. HashStep(level[position + 1], step) = NextLevel(level)[q + 1]
    BY <1>3, <1>4, <2>2, <2>3 DEF HashStep
  <2> QED
    BY <1>5, <2>1, <2>4 DEF q
<1>7. CASE position % 2 # 1
  <2> DEFINE step == [hash |-> Right(level, position), side |-> "right"]
  <2>1. StepAt(level, position) = <<step>>
    BY <1>7 DEF StepAt
  <2>2. level[position + 1] = Left(level, position)
    BY <1>1, <1>2, <1>7 DEF Left, q
  <2>3. step.side # "left" /\ step.hash = Right(level, position)
    OBVIOUS
  <2> HIDE DEF step
  <2>4. HashStep(level[position + 1], step) = NextLevel(level)[q + 1]
    BY <1>3, <1>4, <2>2, <2>3 DEF HashStep
  <2> QED
    BY <1>5, <2>1, <2>4 DEF q
<1> QED
  BY <1>6, <1>7

\* After any number of turns: the path so far leads from the leaf to the node at
\* the position, and the level is down to one node or shorter by every turn.
OnTheWay(at, leaves, leaf, n) ==
    /\ IsLevel(at[n].level) /\ OnLevel(at[n].level, at[n].position)
    /\ \E S : at[n].path \in Seq(S)
    /\ Climb(leaf, at[n].path) = at[n].level[at[n].position + 1]
    /\ Len(at[n].level) <= 1 \/ Len(at[n].level) + n <= Len(leaves)

LEMMA TurnKeepsTheWay ==
    ASSUME NEW leaves, NEW leaf, NEW index, NEW at, Walks(at, leaves, index),
           NEW n \in Nat, n + 1 \in 1 .. Len(leaves), Len(leaves) \in Nat,
           OnTheWay(at, leaves, leaf, n)
    PROVE  OnTheWay(at, leaves, leaf, n + 1)
<1> DEFINE here == at[n]
           next == at[n + 1]
<1>1. next = Turn(here)
  BY DEF Walks
<1>2. /\ IsLevel(here.level) /\ OnLevel(here.level, here.position)
      /\ Climb(leaf, here.path) = here.level[here.position + 1]
      /\ Len(here.level) <= 1 \/ Len(here.level) + n <= Len(leaves)
  BY DEF OnTheWay
<1>3. PICK S : here.path \in Seq(S)
  BY DEF OnTheWay
<1>4. Len(here.level) \in Nat
  BY <1>2 DEF IsLevel
<1> SUFFICES /\ IsLevel(next.level) /\ OnLevel(next.level, next.position)
             /\ \E R : next.path \in Seq(R)
             /\ Climb(leaf, next.path) = next.level[next.position + 1]
             /\ Len(next.level) <= 1 \/ Len(next.level) + (n + 1) <= Len(leaves)
  BY DEF OnTheWay
<1> HIDE DEF here, next
<1>5. CASE Len(here.level) <= 1
  BY <1>1, <1>2, <1>3, <1>5 DEF Turn
<1>6. CASE Len(here.level) > 1
  <2>1. /\ next.level = NextLevel(here.level)
        /\ next.position = here.position \div 2
        /\ next.path = here.path \o StepAt(here.level, here.position)
    <3>1. next = [level |-> NextLevel(here.level), position |-> here.position \div 2,
                  path |-> here.path \o StepAt(here.level, here.position)]
      BY <1>1, <1>4, <1>6 DEF Turn
    <3> QED
      BY <3>1, Zenon
  <2>2. PICK step :
            /\ StepAt(here.level, here.position) = <<step>>
            /\ OnLevel(NextLevel(here.level), here.position \div 2)
            /\ HashStep(here.level[here.position + 1], step)
                 = NextLevel(here.level)[(here.position \div 2) + 1]
    BY <1>2, StepLeadsUp
  <2>3. IsLevel(next.level) /\ Len(next.level) = (Len(here.level) + 1) \div 2
    BY <1>2, <2>1, NextLevelIs
  <2>4. next.path \in Seq(S \cup {step})
    BY <1>3, <2>1, <2>2
  <2>5. Climb(leaf, next.path) = HashStep(Climb(leaf, here.path), step)
    BY <1>3, <2>1, <2>2, ClimbAppend
  <2>6. Climb(leaf, next.path) = next.level[next.position + 1]
    BY <1>2, <2>1, <2>2, <2>5
  <2>7. Len(next.level) <= 1 \/ Len(next.level) + (n + 1) <= Len(leaves)
    <3>1. Len(here.level) + n <= Len(leaves)
      BY <1>2, <1>4, <1>6
    <3> DEFINE a == Len(here.level)
               b == Len(leaves)
    <3>2. a \in Nat /\ a > 1 /\ a + n <= b /\ b \in Nat
      BY <1>4, <1>6, <3>1
    <3>3. Len(next.level) = (a + 1) \div 2
      BY <2>3
    <3> HIDE DEF a, b
    <3>4. (a + 1) \div 2 + (n + 1) <= b
      BY <3>2
    <3> QED
      BY <3>3, <3>4 DEF b
  <2> QED
    BY <2>1, <2>2, <2>3, <2>4, <2>6, <2>7
<1>7. Len(here.level) <= 1 \/ Len(here.level) > 1
  BY <1>4
<1> QED
  BY <1>5, <1>6, <1>7, Zenon

LEMMA WholeWay ==
    ASSUME NEW leaves, IsLevel(leaves), NEW index, OnLevel(leaves, index),
           NEW at, Walks(at, leaves, index)
    PROVE  \A n \in 0 .. Len(leaves) : OnTheWay(at, leaves, leaves[index + 1], n)
<1> DEFINE leaf == leaves[index + 1]
           T == {n \in 0 .. Len(leaves) : ~OnTheWay(at, leaves, leaf, n)}
<1>1. Len(leaves) \in Nat /\ Len(leaves) >= 1
  BY DEF IsLevel
<1> SUFFICES ASSUME T # {} PROVE FALSE
  BY <1>1
<1>2. PICK x \in T : \A y \in T : x <= y
  <2>1. T \subseteq Nat
    OBVIOUS
  <2> HIDE DEF T
  <2> QED
    BY <2>1, LeastNatural
<1>3. OnTheWay(at, leaves, leaf, 0)
  <2>1. at[0].level = leaves /\ at[0].position = index /\ at[0].path = <<>>
    BY DEF Walks, Start
  <2>2. Climb(leaf, <<>>) = leaf
    BY ClimbEmpty
  <2>3. <<>> \in Seq({})
    OBVIOUS
  <2> HIDE DEF T
  <2> QED
    BY <1>1, <2>1, <2>2, <2>3 DEF OnTheWay
<1>4. x \in 0 .. Len(leaves) /\ ~OnTheWay(at, leaves, leaf, x)
  OBVIOUS
<1>5. x # 0
  BY <1>3, <1>4
<1>6. x - 1 \in Nat /\ x - 1 \in 0 .. Len(leaves) /\ (x - 1) + 1 = x /\ x \in 1 .. Len(leaves)
  BY <1>1, <1>4, <1>5
<1>7. x - 1 \notin T
  <2> HIDE DEF T
  <2> QED
    BY <1>2, <1>6
<1>8. OnTheWay(at, leaves, leaf, x - 1)
  BY <1>6, <1>7
<1> HIDE DEF T, leaf
<1>9. OnTheWay(at, leaves, leaf, (x - 1) + 1)
  BY <1>1, <1>6, <1>8, TurnKeepsTheWay
<1> QED
  BY <1>4, <1>6, <1>9

\* Every path, and the root, is read off one and the same tree.
LEMMA OneTree ==
    ASSUME NEW leaves, Len(leaves) \in Nat, NEW i, NEW j, NEW at, Walks(at, leaves, i),
           NEW other, Walks(other, leaves, j)
    PROVE  at[Len(leaves)].level = other[Len(leaves)].level
<1> DEFINE T == {n \in 0 .. Len(leaves) : at[n].level # other[n].level}
<1> SUFFICES ASSUME T # {} PROVE FALSE
  OBVIOUS
<1>2. PICK x \in T : \A y \in T : x <= y
  <2>1. T \subseteq Nat
    OBVIOUS
  <2> HIDE DEF T
  <2> QED
    BY <2>1, LeastNatural
<1>3. at[0].level = other[0].level
  BY DEF Walks, Start
<1>4. x \in 0 .. Len(leaves) /\ at[x].level # other[x].level
  OBVIOUS
<1>5. x # 0
  BY <1>3, <1>4
<1>6. x - 1 \in 0 .. Len(leaves) /\ x \in 1 .. Len(leaves) /\ x - 1 < x
  BY <1>4, <1>5
<1>7. x - 1 \notin T
  <2> HIDE DEF T
  <2> QED
    BY <1>2, <1>6
<1>8. at[x - 1].level = other[x - 1].level
  BY <1>6, <1>7
<1>9. at[x] = Turn(at[x - 1]) /\ other[x] = Turn(other[x - 1])
  BY <1>6 DEF Walks
<1> QED
  BY <1>4, <1>8, <1>9 DEF Turn

\* What merklePath returns leads from its leaf to what merkleRoot returns.
LEMMA PathLeadsToRoot ==
    ASSUME NEW leaves, IsLevel(leaves), NEW index, OnLevel(leaves, index)
    PROVE  /\ \E S : MerklePath(leaves, index) \in Seq(S)
           /\ Climb(leaves[index + 1], MerklePath(leaves, index)) = MerkleRoot(leaves)
<1> DEFINE N == Len(leaves)
<1>1. N \in Nat /\ N >= 1
  BY DEF IsLevel
<1>2. PICK at : Walks(at, leaves, index) /\ Walk(leaves, index) = at[N]
  BY <1>1, WalkWalks
<1>3. PICK root : Walks(root, leaves, 0) /\ Walk(leaves, 0) = root[N]
  BY <1>1, WalkWalks
<1>4. OnTheWay(at, leaves, leaves[index + 1], N)
  BY <1>1, <1>2, WholeWay
<1>5. at[N].level = root[N].level
  BY <1>1, <1>2, <1>3, OneTree
<1>6. Len(at[N].level) \in Nat /\ Len(at[N].level) >= 1 /\ Len(at[N].level) <= 1
  BY <1>1, <1>4 DEF OnTheWay, IsLevel
<1>7. at[N].position = 0
  BY <1>4, <1>6 DEF OnTheWay, OnLevel
<1> QED
  BY <1>2, <1>3, <1>4, <1>5, <1>7 DEF OnTheWay, MerklePath, MerkleRoot

\* A node of the tree, on whatever level.
InTree(at, leaves, node) ==
    \E n \in 0 .. Len(leaves) : \E x \in 1 .. Len(at[n].level) : at[n].level[x] = node

LEMMA NodesOfNextLevel ==
    ASSUME NEW level, IsLevel(level), NEW x \in 1 .. Len(NextLevel(level))
    PROVE  \E y, z \in 1 .. Len(level) : NextLevel(level)[x] = HashPair(level[y], level[z])
<1>1. Len(level) \in Nat /\ Len(level) >= 1
  BY DEF IsLevel
<1>2. Len(NextLevel(level)) = (Len(level) + 1) \div 2
  BY NextLevelIs
<1> DEFINE q == x - 1
<1>3. /\ q \in Nat /\ q < (Len(level) + 1) \div 2 /\ (2 * q) \div 2 = q /\ q + 1 = x
      /\ 2 * q + 1 \in 1 .. Len(level)
  BY <1>1, <1>2
<1>4. NextLevel(level)[q + 1] = HashPair(Left(level, 2 * q), Right(level, 2 * q))
  BY <1>3, NextLevelIs
<1> HIDE DEF q
<1>5. Left(level, 2 * q) = level[2 * q + 1]
  BY <1>3 DEF Left
<1>6. Right(level, 2 * q) = level[2 * q + 1] \/
        (Right(level, 2 * q) = level[2 * q + 2] /\ 2 * q + 2 \in 1 .. Len(level))
  BY <1>1, <1>3, <1>5 DEF Right
<1> QED
  BY <1>3, <1>4, <1>5, <1>6

\* A node is a leaf, or hashed from two nodes.
LEMMA LeafOrPair ==
    ASSUME NEW leaves, IsLevel(leaves), NEW at, Walks(at, leaves, 0),
           NEW node, InTree(at, leaves, node)
    PROVE  \/ \E x \in 1 .. Len(leaves) : node = leaves[x]
           \/ \E a, b : /\ InTree(at, leaves, a) /\ InTree(at, leaves, b)
                        /\ node = HashPair(a, b)
<1> DEFINE On(n) == \E x \in 1 .. Len(at[n].level) : at[n].level[x] = node
           T == {n \in 0 .. Len(leaves) : On(n)}
<1>1. Len(leaves) \in Nat /\ Len(leaves) >= 1 /\ OnLevel(leaves, 0)
  BY DEF IsLevel, OnLevel
<1>2. \A n \in 0 .. Len(leaves) : IsLevel(at[n].level)
  BY <1>1, WholeWay DEF OnTheWay
<1>3. PICK n \in T : \A m \in T : n <= m
  <2>1. T # {}
    BY DEF InTree
  <2>2. T \subseteq Nat
    OBVIOUS
  <2> HIDE DEF T
  <2> QED
    BY <2>1, <2>2, LeastNatural
<1>4. n \in 0 .. Len(leaves) /\ On(n)
  OBVIOUS
<1>5. CASE n = 0
  <2>1. at[n].level = leaves
    BY <1>5 DEF Walks, Start
  <2> QED
    BY <1>4, <2>1
<1>6. CASE n # 0
  <2>1. n \in 1 .. Len(leaves) /\ n - 1 \in 0 .. Len(leaves) /\ ~(n <= n - 1)
    BY <1>4, <1>6
  <2>2. at[n] = Turn(at[n - 1])
    BY <2>1 DEF Walks
  <2>3. n - 1 \notin T
    <3> HIDE DEF T
    <3> QED
      BY <1>3, <2>1
  <2>4. ~On(n - 1)
    BY <2>1, <2>3
  <2> DEFINE below == at[n - 1].level
  <2>5. at[n].level = below \/ at[n].level = NextLevel(below)
    <3>1. CASE Len(below) <= 1
      BY <2>2, <3>1 DEF Turn
    <3>2. CASE ~(Len(below) <= 1)
      <4>1. at[n] = [level |-> NextLevel(below), position |-> at[n - 1].position \div 2,
                     path |-> at[n - 1].path \o StepAt(below, at[n - 1].position)]
        BY <2>2, <3>2, Zenon DEF Turn
      <4> HIDE DEF below
      <4>2. at[n].level = NextLevel(below)
        BY <4>1
      <4> QED
        BY <4>2
    <3> QED
      BY <3>1, <3>2
  <2>6. at[n].level = NextLevel(below)
    BY <1>4, <2>4, <2>5
  <2>7. PICK x \in 1 .. Len(NextLevel(below)) : NextLevel(below)[x] = node
    BY <1>4, <2>6
  <2>8. IsLevel(below)
    BY <1>2, <2>1
  <2> HIDE DEF below
  <2>9. PICK y, z \in 1 .. Len(below) : node = HashPair(below[y], below[z])
    BY <2>7, <2>8, NodesOfNextLevel
  <2>10. InTree(at, leaves, below[y]) /\ InTree(at, leaves, below[z])
    BY <2>1, <2>9 DEF InTree, below
  <2> QED
    BY <2>9, <2>10
<1> QED
  BY <1>5, <1>6

\* The leaves are digests of bindings, none of which is a pair of hashes.
IsBinding(b) == DOMAIN b = {"tokenId", "settlementId", "candidate"}

LEMMA BindingIsNoPair ==
    ASSUME NEW b, IsBinding(b), NEW x, NEW y
    PROVE  b # HashPair(x, y)
<1>1. DOMAIN HashPair(x, y) = {"left", "right"}
  BY DEF HashPair
<1> QED
  BY <1>1 DEF IsBinding

\* A climb that ends in the tree begins at one of its leaves: no other binding
\* leads to the root, by whatever steps.
LEMMA OnlyLeavesClimb ==
    ASSUME NEW leaves, IsLevel(leaves), \A x \in 1 .. Len(leaves) : IsBinding(leaves[x]),
           NEW b, IsBinding(b), NEW path, Len(path) \in Nat,
           Climb(b, path) = MerkleRoot(leaves)
    PROVE  \E x \in 1 .. Len(leaves) : b = leaves[x]
<1> DEFINE N == Len(leaves)
<1>1. N \in Nat /\ N >= 1 /\ OnLevel(leaves, 0)
  BY DEF IsLevel, OnLevel
<1>2. PICK at : Walks(at, leaves, 0) /\ Walk(leaves, 0) = at[N]
  BY <1>1, WalkWalks
<1>3. InTree(at, leaves, MerkleRoot(leaves))
  <2>1. IsLevel(at[N].level)
    BY <1>1, <1>2, WholeWay DEF OnTheWay
  <2>2. Len(at[N].level) \in Nat /\ Len(at[N].level) >= 1
    BY <2>1 DEF IsLevel
  <2>3. MerkleRoot(leaves) = at[N].level[1]
    BY <1>2 DEF MerkleRoot
  <2> QED
    BY <1>1, <2>2, <2>3 DEF InTree
<1>4. PICK node : Climbs(node, b, path) /\ Climb(b, path) = node[Len(path)]
  BY ClimbClimbs
<1> DEFINE T == {k \in 0 .. Len(path) : InTree(at, leaves, node[k])}
<1>5. PICK k \in T : \A m \in T : k <= m
  <2>1. T \subseteq Nat
    OBVIOUS
  <2>2. Len(path) \in T
    BY <1>3, <1>4
  <2> HIDE DEF T
  <2> QED
    BY <2>1, <2>2, LeastNatural
<1>6. k \in 0 .. Len(path) /\ InTree(at, leaves, node[k])
  OBVIOUS
<1>7. \/ \E x \in 1 .. Len(leaves) : node[k] = leaves[x]
      \/ \E u, w : InTree(at, leaves, u) /\ InTree(at, leaves, w) /\ node[k] = HashPair(u, w)
  BY <1>2, <1>6, LeafOrPair
<1>8. CASE k = 0
  <2>1. node[k] = b
    BY <1>4, <1>8 DEF Climbs
  <2> QED
    BY <1>7, <2>1, BindingIsNoPair
<1>9. CASE k # 0
  <2>1. k \in 1 .. Len(path) /\ k - 1 \in 0 .. Len(path) /\ ~(k <= k - 1)
    BY <1>6, <1>9
  <2>2. node[k] = HashStep(node[k - 1], path[k])
    BY <1>4, <2>1 DEF Climbs
  <2>3. PICK u, w : node[k] = HashPair(u, w) /\ (node[k - 1] = u \/ node[k - 1] = w)
    BY <2>2 DEF HashStep
  <2>4. ~\E x \in 1 .. Len(leaves) : node[k] = leaves[x]
    BY <2>3, BindingIsNoPair
  <2>5. PICK c, d : InTree(at, leaves, c) /\ InTree(at, leaves, d) /\ node[k] = HashPair(c, d)
    BY <1>7, <2>4
  <2>6. InTree(at, leaves, node[k - 1])
    <3>1. HashPair(u, w) = HashPair(c, d)
      BY <2>3, <2>5
    <3>2. u = c /\ w = d
      BY <3>1, HashPairInjective
    <3> QED
      BY <2>3, <2>5, <3>2
  <2>7. k - 1 \in T
    BY <2>1, <2>6
  <2> HIDE DEF T
  <2> QED
    BY <1>5, <2>1, <2>7
<1> QED
  BY <1>8, <1>9

\* The tree over a published list.
LEMMA PublishedTree ==
    ASSUME NEW list \in Published
    PROVE  /\ IsLevel(Leaves(list)) /\ Len(Leaves(list)) = Len(list)
           /\ DOMAIN list = 1 .. Len(list)
           /\ \A x \in DOMAIN list : Leaves(list)[x] = list[x] /\ IsBinding(list[x])
           /\ \A x \in DOMAIN list : list[x] \in ToSet(list)
<1>1. list \in Seq(ToSet(list)) /\ list # <<>>
  BY PublishedAssumption
<1>2. Leaves(list) = [x \in DOMAIN list |-> list[x]]
  BY DEF Leaves, BindingDigest
<1>3. Leaves(list) = list
  BY <1>1, <1>2
<1>4. Len(list) \in Nat /\ Len(list) >= 1 /\ DOMAIN list = 1 .. Len(list)
  BY <1>1
<1>5. \A x \in DOMAIN list : IsBinding(list[x])
  BY PublishedAssumption DEF IsBinding
<1>6. \A x \in DOMAIN list : list[x] \in ToSet(list)
  BY DEF ToSet
<1> QED
  BY <1>1, <1>3, <1>4, <1>5, <1>6 DEF IsLevel

\* The path of each leaf leads from that leaf, and from no other, to the root.
LEMMA PathIsItsLeafsOwn ==
    ASSUME NEW list \in Published, NEW i \in DOMAIN list, NEW j \in DOMAIN list
    PROVE  /\ Len(PathsOf[list][i]) \in Nat
           /\ Climb(list[j], PathsOf[list][i]) = RootOf[list] <=> i = j
<1> DEFINE path == PathsOf[list][i]
<1>1. /\ IsLevel(Leaves(list)) /\ Len(Leaves(list)) = Len(list)
      /\ DOMAIN list = 1 .. Len(list)
      /\ Leaves(list)[i] = list[i]
  BY PublishedTree
<1>2. path = MerklePath(Leaves(list), i - 1) /\ RootOf[list] = MerkleRoot(Leaves(list))
  BY DEF PathsOf, RootOf
<1>3. OnLevel(Leaves(list), i - 1) /\ (i - 1) + 1 = i
  <2>1. Len(list) \in Nat
    BY <1>1 DEF IsLevel
  <2> QED
    BY <1>1, <2>1 DEF OnLevel
<1> HIDE DEF path
<1>4. /\ \E S : path \in Seq(S)
      /\ Climb(list[i], path) = RootOf[list]
  BY <1>1, <1>2, <1>3, PathLeadsToRoot
<1>5. Len(path) \in Nat
  BY <1>4
<1>6. ASSUME Climb(list[j], path) = RootOf[list]
      PROVE  i = j
  <2>1. list[j] = list[i]
    BY <1>4, <1>5, <1>6, ClimbInjective
  <2> QED
    BY <2>1, PublishedAssumption
<1> QED
  BY <1>4, <1>5, <1>6 DEF path

\* A binding that a path leads from to a published root is on its list.
LEMMA OnlyTheListed ==
    ASSUME NEW list \in Published, NEW b, IsBinding(b), NEW path, Len(path) \in Nat,
           Climb(b, path) = RootOf[list]
    PROVE  b \in ToSet(list)
<1>1. /\ IsLevel(Leaves(list)) /\ Len(Leaves(list)) = Len(list)
      /\ DOMAIN list = 1 .. Len(list)
      /\ \A x \in 1 .. Len(list) : /\ Leaves(list)[x] = list[x] /\ IsBinding(list[x])
                                   /\ list[x] \in ToSet(list)
  BY PublishedTree
<1>2. RootOf[list] = MerkleRoot(Leaves(list))
  BY DEF RootOf
<1>3. \A x \in 1 .. Len(Leaves(list)) : IsBinding(Leaves(list)[x])
  BY <1>1
<1>4. PICK x \in 1 .. Len(Leaves(list)) : b = Leaves(list)[x]
  BY <1>1, <1>2, <1>3, OnlyLeavesClimb
<1> QED
  BY <1>1, <1>4

-----------------------------------------------------------------------------
(* The profiles over the adapter.                                            *)

\* Every step of a store with its profile is one of the adapter's or leaves the
\* adapter alone.
LEMMA StepOfTheAdapter ==
    ASSUME [ProfileNext]_allVars
    PROVE  [Next]_vars
<1>1. CASE UNCHANGED allVars
  BY <1>1 DEF allVars
<1>2. CASE Refreshes
  BY <1>2, Zenon DEF Refreshes, Next
<1>3. ASSUME NEW tok \in Token, NEW c \in Candidate, NEW height \in Height, NEW path,
             SubmitPath(tok, c, height, path)
      PROVE  [Next]_vars
  BY <1>3, Zenon DEF SubmitPath, Next
<1>4. ASSUME NEW tok \in Token, NEW c \in Candidate, NEW height \in Height, NEW item,
             SubmitProof(tok, c, height, item)
      PROVE  [Next]_vars
  BY <1>4, Zenon DEF SubmitProof, Next
<1>5. ASSUME NEW tok \in Token, NEW c \in Candidate, NEW height \in Height, NEW item,
             SubmitAttestation(tok, c, height, item)
      PROVE  [Next]_vars
  BY <1>5, Zenon DEF SubmitAttestation, Next
<1>6. ASSUME NEW issuer, NEW tok, NEW c, NEW expiresAt, Attest(issuer, tok, c, expiresAt)
      PROVE  UNCHANGED vars
  BY <1>6, Zenon DEF Attest, Makes
<1>7. ASSUME NEW tok, NEW c, NEW height, Prove(tok, c, height)
      PROVE  UNCHANGED vars
  BY <1>7, Zenon DEF Prove, Makes
<1>8. ASSUME NEW tok, NEW sid, OpenGap(tok, sid) \/ CancelGap(tok) \/ Tick
      PROVE  UNCHANGED vars
  BY <1>8, Zenon DEF OpenGap, CancelGap, Tick
<1> QED
  BY <1>1, <1>2, <1>3, <1>4, <1>5, <1>6, <1>7, <1>8, Zenon DEF ProfileNext

LEMMA ProfilesUseTheAdapter == ProfileSpec => Spec
<1>1. ProfileInit => Init
  BY DEF ProfileInit
<1> QED
  BY <1>1, StepOfTheAdapter, PTL DEF ProfileSpec, Spec

\* A root, once on record, stands.
LEMMA RootsStand ==
    ASSUME EvidenceOK, [ProfileNext]_allVars, NEW h \in Height, roots[h] # Unknown
    PROVE  roots'[h] = roots[h]
<1>1. ASSUME NEW r \in Refresh, NEW root \in Root, RootArrives(r, root)
      PROVE  roots'[h] = roots[h]
  <2> DEFINE height == pending[r].height
  <2>1. height \in Height
    BY <1>1, AwaitingRootTyped DEF RootArrives
  <2>2. roots' = [roots EXCEPT ![height] = root] /\ Agrees(roots[height], root)
    BY <1>1 DEF RootArrives, Stores, Acceptable
  <2> HIDE DEF height
  <2> QED
    BY <2>1, <2>2 DEF EvidenceOK, Agrees
<1>2. CASE UNCHANGED roots
  BY <1>2
<1> QED
  BY <1>1, <1>2, StepOfTheAdapter
  DEF Next, Call, BlockArrives, RefreshThrows, AdmitAt, AdmitUnrooted, AdmitUnder, vars

\* What the profiles' own state needs beside the adapter's.
ProfileOK ==
    /\ profile \in Profile
    /\ now \in Nat
    /\ \A a \in accepted : a.height \in Height
    /\ profile # "attestation" => \A a \in accepted : roots[a.height] # Unknown
    /\ profile = "attestation" => \A e \in evidence : e.expiresAt \in Nat

\* Time passes, evidence only grows, and an admission once accepted stays so.
LEMMA WhatWasVouched ==
    ASSUME EvidenceOK, ProfileOK, AdmittedAsVouched, [ProfileNext]_allVars,
           profile' = profile, evidence \subseteq evidence'
    PROVE  \A a \in accepted :
              /\ Vouched(a)'
              /\ profile # "attestation" => roots'[a.height] # Unknown
<1> SUFFICES ASSUME NEW a \in accepted
             PROVE  /\ Vouched(a)'
                    /\ profile # "attestation" => roots'[a.height] # Unknown
  OBVIOUS
<1>1. Vouched(a) /\ a.height \in Height
  BY DEF AdmittedAsVouched, ProfileOK
<1>2. profile # "attestation" => roots'[a.height] = roots[a.height] /\ roots[a.height] # Unknown
  BY <1>1, RootsStand DEF ProfileOK
<1>3. profile \in {"merkle", "zk", "attestation"}
  BY ProfileAssumption DEF ProfileOK
<1>4. CASE profile = "merkle"
  BY <1>1, <1>2, <1>4 DEF Vouched
<1>5. CASE profile = "zk"
  BY <1>1, <1>2, <1>5 DEF Vouched
<1>6. CASE profile = "attestation"
  BY <1>1, <1>6 DEF Vouched
<1> QED
  BY <1>2, <1>3, <1>4, <1>5, <1>6

\* One lemma per way in: what it admits, its evidence vouches for.
LEMMA PathVouches ==
    ASSUME EvidenceOK, ProfileOK, NEW tok \in Token, NEW c \in Candidate, NEW height \in Height,
           NEW path \in Path, SubmitPath(tok, c, height, path),
           NEW at, NEW a, a = [binding |-> BindingNow(tok, c), height |-> height, at |-> at]
    PROVE  Vouched(a)' /\ roots'[height] # Unknown
<1> DEFINE b == BindingNow(tok, c)
<1>1. /\ profile = "merkle" /\ profile' = profile /\ roots' = roots
      /\ roots[height] # Unknown /\ Climb(b, path) = roots[height]
  BY DEF SubmitPath, MerkleVerify, BindingDigest, AdmitAt, AdmitUnder, Admitted
<1>2. IsBinding(b)
  BY DEF BindingNow, IsBinding
<1>3. a.binding = b /\ a.height = height
  OBVIOUS
<1> HIDE DEF b
<1>4. PICK list \in Published : roots[height] = RootOf[list]
  <2>1. roots[height] \in Root
    BY <1>1 DEF EvidenceOK
  <2>2. Root = PublishedRoots
    BY <1>1, PublishedAssumption DEF ProfileOK
  <2> QED
    BY <2>1, <2>2 DEF PublishedRoots
<1>5. Len(path) \in Nat
  BY ProfileAssumption
<1>6. b \in ToSet(list)
  BY <1>1, <1>2, <1>4, <1>5, OnlyTheListed
<1> QED
  BY <1>1, <1>3, <1>4, <1>6 DEF Vouched

LEMMA ProofVouches ==
    ASSUME NEW tok, NEW c, NEW height, NEW proof \in evidence,
           SubmitProof(tok, c, height, proof),
           NEW at, NEW a, a = [binding |-> BindingNow(tok, c), height |-> height, at |-> at]
    PROVE  Vouched(a)' /\ roots'[height] # Unknown
<1> DEFINE b == BindingNow(tok, c)
<1>1. /\ profile = "zk" /\ profile' = profile /\ roots' = roots /\ evidence' = evidence
      /\ roots[height] # Unknown
      /\ Expected(proof.root, proof.binding) = Expected(roots[height], b)
  BY DEF SubmitProof, ZkVerify, BindingDigest, AdmitAt, AdmitUnder, Admitted
<1>2. a.binding = b /\ a.height = height
  OBVIOUS
<1> HIDE DEF b
<1>3. proof.root = roots[height] /\ proof.binding = b
  BY <1>1 DEF Expected
<1> QED
  BY <1>1, <1>2, <1>3 DEF Vouched

LEMMA AttestationVouches ==
    ASSUME ProfileOK, NEW tok, NEW c, NEW height, NEW attestation \in evidence,
           SubmitAttestation(tok, c, height, attestation),
           NEW a, a = [binding |-> BindingNow(tok, c), height |-> height, at |-> now]
    PROVE  Vouched(a)'
<1> DEFINE b == BindingNow(tok, c)
<1>1. /\ profile = "attestation" /\ profile' = profile /\ evidence' = evidence
      /\ attestation.issuer \in Issuer
      /\ attestation.expiresAt > now
      /\ attestation.expiresAt - now <= MAX_ATTESTATION_WINDOW
      /\ attestation.binding = b
  BY DEF SubmitAttestation, AttestationVerify, WithinWindow, BindingDigest, Admitted
<1>2. a.binding = b /\ a.at = now
  OBVIOUS
<1> HIDE DEF b
<1>3. now < attestation.expiresAt /\ attestation.expiresAt <= now + MAX_ATTESTATION_WINDOW
  BY <1>1, ProfileAssumption DEF ProfileOK
<1> QED
  BY <1>1, <1>2, <1>3 DEF Vouched

ProfileInv == EvidenceOK /\ OneRootPerHeight /\ ProfileOK /\ AdmittedAsVouched

LEMMA ProfileInvInit == ProfileInit => ProfileInv
<1> SUFFICES ASSUME ProfileInit PROVE ProfileInv
  OBVIOUS
<1>1. EvidenceOK /\ OneRootPerHeight
  BY InitEvidence DEF ProfileInit
<1>2. accepted = {} /\ evidence = {} /\ profile \in Profile /\ now = 0
  BY DEF ProfileInit
<1> QED
  BY <1>1, <1>2 DEF ProfileInv, ProfileOK, AdmittedAsVouched

\* An admission: the ones before it are vouched for as they were, and so is it.
LEMMA AdmissionKeeps ==
    ASSUME ProfileInv, [ProfileNext]_allVars, NEW tok \in Token, NEW c \in Candidate,
           NEW height \in Height, Admitted(tok, c, height),
           NEW a, a = [binding |-> BindingNow(tok, c), height |-> height, at |-> now],
           Vouched(a)', profile # "attestation" => roots'[height] # Unknown
    PROVE  ProfileOK' /\ AdmittedAsVouched'
<1>1. /\ accepted' = accepted \cup {a} /\ a.height = height
      /\ profile' = profile /\ now' = now /\ evidence' = evidence
  BY DEF Admitted
<1>2. \A x \in accepted : Vouched(x)' /\ (profile # "attestation" => roots'[x.height] # Unknown)
  BY <1>1, WhatWasVouched DEF ProfileInv
<1>3. AdmittedAsVouched'
  BY <1>1, <1>2 DEF AdmittedAsVouched
<1>4. ProfileOK'
  BY <1>1, <1>2 DEF ProfileOK, ProfileInv
<1> QED
  BY <1>3, <1>4

\* Any other step admits nothing.
LEMMA OthersKeep ==
    ASSUME ProfileInv, [ProfileNext]_allVars, profile' = profile, accepted' = accepted,
           evidence \subseteq evidence', now' \in Nat,
           profile = "attestation" => \A e \in evidence' : e.expiresAt \in Nat
    PROVE  ProfileOK' /\ AdmittedAsVouched'
<1>1. \A x \in accepted : Vouched(x)' /\ (profile # "attestation" => roots'[x.height] # Unknown)
  BY WhatWasVouched DEF ProfileInv
<1> QED
  BY <1>1 DEF AdmittedAsVouched, ProfileOK, ProfileInv

LEMMA ProfileInvStep ==
    ASSUME ProfileInv, [ProfileNext]_allVars
    PROVE  ProfileInv'
<1>1. EvidenceOK' /\ OneRootPerHeight'
  BY StepOfTheAdapter, NextEvidence DEF ProfileInv
<1>2. now \in Nat /\ profile = "attestation" => \A e \in evidence : e.expiresAt \in Nat
  BY DEF ProfileInv, ProfileOK
<1>3. now \in Nat
  BY DEF ProfileInv, ProfileOK
<1>4. ASSUME UNCHANGED profileVars
      PROVE  ProfileOK' /\ AdmittedAsVouched'
  BY <1>2, <1>3, <1>4, OthersKeep DEF profileVars
<1>5. ASSUME NEW tok \in Token, NEW c \in Candidate, NEW height \in Height,
             NEW path \in Path, SubmitPath(tok, c, height, path)
      PROVE  ProfileOK' /\ AdmittedAsVouched'
  <2>1. PICK a : a = [binding |-> BindingNow(tok, c), height |-> height, at |-> now]
    OBVIOUS
  <2>2. Vouched(a)' /\ roots'[height] # Unknown
    BY <1>5, <2>1, PathVouches DEF ProfileInv
  <2> QED
    BY <1>5, <2>1, <2>2, AdmissionKeeps DEF SubmitPath
<1>6. ASSUME NEW tok \in Token, NEW c \in Candidate, NEW height \in Height,
             NEW item \in evidence, SubmitProof(tok, c, height, item)
      PROVE  ProfileOK' /\ AdmittedAsVouched'
  <2>1. PICK a : a = [binding |-> BindingNow(tok, c), height |-> height, at |-> now]
    OBVIOUS
  <2>2. Vouched(a)' /\ roots'[height] # Unknown
    BY <1>6, <2>1, ProofVouches
  <2> QED
    BY <1>6, <2>1, <2>2, AdmissionKeeps DEF SubmitProof
<1>7. ASSUME NEW tok \in Token, NEW c \in Candidate, NEW height \in Height,
             NEW item \in evidence, SubmitAttestation(tok, c, height, item)
      PROVE  ProfileOK' /\ AdmittedAsVouched'
  <2>1. PICK a : a = [binding |-> BindingNow(tok, c), height |-> height, at |-> now]
    OBVIOUS
  <2>2. Vouched(a)'
    BY <1>7, <2>1, AttestationVouches DEF ProfileInv
  <2> QED
    BY <1>7, <2>1, <2>2, AdmissionKeeps DEF SubmitAttestation
<1>8. ASSUME NEW issuer \in Signer, NEW tok \in Token, NEW c \in Candidate, NEW expiresAt \in Time,
             Attest(issuer, tok, c, expiresAt)
      PROVE  ProfileOK' /\ AdmittedAsVouched'
  <2> DEFINE item == [issuer |-> issuer, expiresAt |-> expiresAt, binding |-> BindingNow(tok, c)]
  <2>1. /\ evidence' = evidence \cup {item}
        /\ profile' = profile /\ accepted' = accepted /\ now' = now
    BY <1>8 DEF Attest, Makes
  <2>2. item.expiresAt \in Nat
    BY ProfileAssumption DEF Time
  <2> HIDE DEF item
  <2> QED
    BY <1>2, <1>3, <2>1, <2>2, OthersKeep
<1>9. ASSUME NEW tok \in Token, NEW c \in Candidate, NEW height \in Height, Prove(tok, c, height)
      PROVE  ProfileOK' /\ AdmittedAsVouched'
  <2>1. /\ evidence \subseteq evidence' /\ profile = "zk"
        /\ profile' = profile /\ accepted' = accepted /\ now' = now
    BY <1>9 DEF Prove, Makes
  <2> QED
    BY <1>3, <2>1, OthersKeep
<1>10. ASSUME (\E tok \in Token, sid \in SettlementId : OpenGap(tok, sid)) \/
                (\E tok \in Token : CancelGap(tok))
       PROVE  ProfileOK' /\ AdmittedAsVouched'
  <2>1. evidence' = evidence /\ profile' = profile /\ accepted' = accepted /\ now' = now
    BY <1>10 DEF OpenGap, CancelGap
  <2> QED
    BY <1>2, <1>3, <2>1, OthersKeep
<1>11. ASSUME Tick
       PROVE  ProfileOK' /\ AdmittedAsVouched'
  <2>1. /\ evidence' = evidence /\ profile' = profile /\ accepted' = accepted
        /\ now' = now + 1
    BY <1>11 DEF Tick
  <2> QED
    BY <1>2, <1>3, <2>1, OthersKeep
<1>12. ProfileOK' /\ AdmittedAsVouched'
  <2>1. CASE UNCHANGED allVars
    <3>1. UNCHANGED profileVars
      BY <2>1 DEF allVars
    <3> QED
      BY <1>4, <3>1
  <2>2. CASE ProfileNext
    BY <1>4, <1>5, <1>6, <1>7, <1>8, <1>9, <1>10, <1>11, <2>2, Zenon DEF ProfileNext
  <2> QED
    BY <2>1, <2>2
<1> QED
  BY <1>1, <1>12 DEF ProfileInv

LEMMA ProfileInvariant == ProfileSpec => []ProfileInv
BY ProfileInvInit, ProfileInvStep, PTL DEF ProfileSpec

\* Whatever was overtaken meanwhile, an admission is one its evidence was made
\* for, with the settlement it closed; for any tree, path, proof and window.
THEOREM EvidenceVouches == ProfileSpec => []AdmittedAsVouched
<1>1. ProfileInv => AdmittedAsVouched
  BY DEF ProfileInv
<1> QED
  BY <1>1, ProfileInvariant, PTL

\* merklePath, merkleRoot and verify agree on trees with any number of leaves.
THEOREM OwnPathsVerify == ProfileSpec => []OwnPathVerifies
<1>1. ProfileInv => OwnPathVerifies
  <2> SUFFICES ASSUME ProfileInv, NEW height \in Height, NEW list \in Published,
                      profile = "merkle", roots[height] = RootOf[list],
                      NEW i \in DOMAIN list, NEW j \in DOMAIN list
               PROVE  MerkleVerify(height, PathsOf[list][i], list[j]) <=> i = j
    BY DEF OwnPathVerifies
  <2>1. roots[height] # Unknown
    <3>1. RootOf[list] \in PublishedRoots
      BY DEF PublishedRoots
    <3>2. Root = PublishedRoots
      BY PublishedAssumption DEF ProfileInv, ProfileOK
    <3> QED
      BY <3>1, <3>2, AdapterAssumption
  <2>2. Len(PathsOf[list][i]) <= LongestPath
    BY PublishedAssumption
  <2> QED
    BY <2>1, <2>2, PathIsItsLeafsOwn DEF MerkleVerify, BindingDigest
<1> QED
  BY <1>1, ProfileInvariant, PTL

\* The adapter keeps its promises to a store under whichever profile the store
\* has: a height keeps the one root its admissions were verified against, and
\* every admission of a token, attested ones without a root included, rests on a
\* later height than the one before.
THEOREM ProfilesKeepTheEvidence ==
    ProfileSpec => []OneRootPerHeight /\ FrontierNeverRewinds /\ EvidenceAdvances
BY ProfilesUseTheAdapter, OneRootForEachHeight, FrontierIsMonotone, EvidenceOnlyAdvances
===============================================================================
