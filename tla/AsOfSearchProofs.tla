---------------------------- MODULE AsOfSearchProofs ----------------------------
(***************************************************************************)
(* However admissions and rollbacks follow one another, the kernel's two   *)
(* indexes are those of its entries; and the binary search of entryAsOf    *)
(* answers from the entry in effect, for every history and every instant   *)
(* (histories short enough that twice their length is a positive 32-bit    *)
(* integer), every iteration halving its interval.                         *)
(***************************************************************************)
EXTENDS AsOfSearch, TokenProjectionProofs

(* The invariant of the indexes: byVersion is written out, because versions  *)
(* count from 1 and indexes from 0.                                          *)

IndexedInv ==
    /\ es \in Seq(ProjectionEntry)
    /\ ProjectionInvariants(es)
    /\ commitments = CommitmentsOf(es)
    /\ byVersion = [v \in 1 .. Len(es) |-> v - 1]

(* The loop invariant: low is in effect, nothing above high is.              *)

Bracket ==
    /\ es # <<>>
    /\ low \in Nat /\ high \in Nat /\ low <= high /\ high < Len(es)
    /\ es[low + 1].effectiveAt <= instant
    /\ \A j \in 1 .. Len(es) : j > high + 1 => es[j].effectiveAt > instant

SearchInv ==
    /\ IndexedInv /\ Len(es) <= MaxLength
    /\ instant \in Uint64
    /\ low \in Nat /\ high \in Nat
    /\ at \in {"idle", "start", "loop", "found", "uncovered"}
    /\ at \in {"loop", "found"} => Bracket
    /\ at = "found" => low = high
    /\ at = "uncovered" => ~Covered(es, instant)

LEMMA StampsAreNatural ==
    ASSUME NEW s \in Seq(ProjectionEntry), NEW j \in 1 .. Len(s)
    PROVE  s[j].effectiveAt \in Nat
<1>1. s[j] \in ProjectionEntry
  OBVIOUS
<1> QED
  BY <1>1, WidthAssumption DEF ProjectionEntry, Uint64

\* A sum of two indexes does not reach the sign bit of >> 1.
LEMMA MiddleIsExact ==
    ASSUME NEW l \in Nat, NEW h \in Nat, l < h, h < MaxLength
    PROVE  /\ Middle(l, h) \in Nat
           /\ l < Middle(l, h)
           /\ Middle(l, h) <= h
           /\ l + h <= 2 * Middle(l, h)
           /\ 2 * Middle(l, h) <= l + h + 1
<1> DEFINE n == l + h + 1
<1>1. n \in Nat /\ n < HALF_WORD /\ HALF_WORD \in Nat
  BY SearchAssumption
<1>2. (n + HALF_WORD) % (2 * HALF_WORD) = n + HALF_WORD
  <2> HIDE DEF n
  <2> QED
    BY <1>1
<1>3. ToInt32(n) = n
  BY <1>1, <1>2 DEF ToInt32
<1>4. Middle(l, h) = n \div 2
  BY <1>3 DEF Middle
<1> QED
  BY <1>4

LEMMA InitInv == Init => SearchInv
<1> SUFFICES ASSUME Init PROVE SearchInv
  OBVIOUS
<1>1. es = <<>> /\ commitments = {} /\ byVersion = [v \in {} |-> 0]
  BY DEF Init, NewProjection
<1>2. ProjectionInvariants(es)
  BY <1>1, EmptyInvariants
<1>3. commitments = CommitmentsOf(es)
  BY <1>1 DEF CommitmentsOf
<1>4. byVersion = [v \in 1 .. Len(es) |-> v - 1]
  <2>1. 1 .. Len(es) = {}
    BY <1>1
  <2> QED
    BY <1>1, <2>1
<1>5. es \in Seq(ProjectionEntry) /\ Len(es) = 0
  BY <1>1
<1> QED
  BY <1>2, <1>3, <1>4, <1>5, SearchAssumption, WidthAssumption
     DEF Init, SearchInv, IndexedInv, Uint64

\* admit writes all three fields of the projection.
LEMMA AdmitIndexed ==
    ASSUME IndexedInv, NEW c \in CandidateEntry, AdmitEntry(c)
    PROVE  IndexedInv' /\ Len(es') = Len(es) + 1
<1>1. Admissible(es, c)
  BY DEF IndexedInv, AdmitEntry, Admissible
<1>2. es' = Admit(es, c) /\ es \in Seq(ProjectionEntry) /\ Len(es) \in Nat
  BY DEF AdmitEntry, IndexedInv
<1>3. es' \in Seq(ProjectionEntry) /\ Len(es') = Len(es) + 1
  BY <1>2, AdmitShape
<1>4. ProjectionInvariants(es')
  BY <1>1, <1>2, AdmitPreserves DEF IndexedInv
<1>5. commitments' = CommitmentsOf(es')
  BY <1>2, CommitmentsAfterAdmit DEF IndexedInv, AdmitEntry
<1>6. c.version = Len(es) + 1
  <2>1. CASE es = <<>>
    BY <1>1, <2>1 DEF Admissible, Succeeds, FIRST_VERSION
  <2>2. CASE es # <<>>
    <3>1. Len(es) \in DOMAIN es
      BY <1>2, <2>2
    <3>2. es[Len(es)].version = Len(es)
      BY <3>1 DEF IndexedInv, ProjectionInvariants, Consecutive
    <3> QED
      BY <1>1, <2>2, <3>2 DEF Admissible, Succeeds
  <2> QED
    BY <2>1, <2>2
<1>7. byVersion' = [v \in 1 .. Len(es) + 1 |-> v - 1]
  <2>1. byVersion = [v \in 1 .. Len(es) |-> v - 1]
    BY DEF IndexedInv
  <2>2. DOMAIN byVersion \cup {c.version} = 1 .. Len(es) + 1
    BY <1>2, <1>6, <2>1
  <2>3. \A v \in 1 .. Len(es) + 1 :
          (IF v = c.version THEN Len(es) ELSE byVersion[v]) = v - 1
    BY <1>2, <1>6, <2>1
  <2>4. byVersion' = [v \in DOMAIN byVersion \cup {c.version} |->
                        IF v = c.version THEN Len(es) ELSE byVersion[v]]
    BY DEF AdmitEntry
  <2> QED
    BY <2>2, <2>3, <2>4
<1> QED
  BY <1>3, <1>4, <1>5, <1>7 DEF IndexedInv

\* undoLastAdmit takes the last entry out of all three.
LEMMA UndoIndexed ==
    ASSUME IndexedInv, UndoEntry
    PROVE  IndexedInv' /\ Len(es') = Len(es) - 1
<1>1. /\ es # <<>> /\ es' = UndoLastAdmit(es)
      /\ es \in Seq(ProjectionEntry) /\ ProjectionInvariants(es)
  BY DEF UndoEntry, IndexedInv
<1>2. Len(es) \in Nat /\ Len(es) \in DOMAIN es
  BY <1>1
<1>3. es' \in Seq(ProjectionEntry) /\ Len(es') = Len(es) - 1
  BY <1>1, UndoShape
<1>4. ProjectionInvariants(es')
  BY <1>1, UndoPreserves
<1>5. commitments' = CommitmentsOf(es')
  BY <1>1, CommitmentsAfterUndo DEF IndexedInv, UndoEntry, ProjectionInvariants
<1>6. es[Len(es)].version = Len(es)
  BY <1>1, <1>2 DEF ProjectionInvariants, Consecutive
<1>7. byVersion' = [v \in 1 .. Len(es) - 1 |-> v - 1]
  <2>1. byVersion = [v \in 1 .. Len(es) |-> v - 1]
    BY DEF IndexedInv
  <2>2. DOMAIN byVersion \ {es[Len(es)].version} = 1 .. Len(es) - 1
    BY <1>2, <1>6, <2>1
  <2>3. byVersion' = [v \in DOMAIN byVersion \ {es[Len(es)].version} |-> byVersion[v]]
    BY DEF UndoEntry
  <2> QED
    BY <1>2, <2>1, <2>2, <2>3
<1> QED
  BY <1>3, <1>4, <1>5, <1>7 DEF IndexedInv

LEMMA AdmitCallInv == SearchInv /\ AdmitCall => SearchInv'
<1> SUFFICES ASSUME SearchInv, AdmitCall PROVE SearchInv'
  OBVIOUS
<1>1. PICK c \in Candidate : AdmitEntry(c)
  BY DEF AdmitCall
<1>2. c \in CandidateEntry
  BY SearchAssumption
<1>3. IndexedInv' /\ Len(es') = Len(es) + 1
  BY <1>1, <1>2, AdmitIndexed DEF SearchInv
<1>4. Len(es) \in Nat /\ Len(es) < MaxLength /\ at = "idle" /\ UNCHANGED search
  BY DEF AdmitCall, SearchInv, IndexedInv
<1> QED
  BY <1>3, <1>4, SearchAssumption DEF SearchInv, search

LEMMA UndoCallInv == SearchInv /\ UndoCall => SearchInv'
<1> SUFFICES ASSUME SearchInv, UndoCall PROVE SearchInv'
  OBVIOUS
<1>1. IndexedInv' /\ Len(es') = Len(es) - 1
  BY UndoIndexed DEF SearchInv, UndoCall
<1>2. Len(es) \in Nat /\ at = "idle" /\ UNCHANGED search
  BY DEF UndoCall, SearchInv, IndexedInv
<1> QED
  BY <1>1, <1>2, SearchAssumption DEF SearchInv, search

LEMMA AsOfCallInv == ASSUME SearchInv, NEW t \in Uint64, AsOfCall(t) PROVE SearchInv'
BY DEF SearchInv, IndexedInv, AsOfCall

LEMMA ReturnInv == SearchInv /\ Return => SearchInv'
BY WidthAssumption DEF SearchInv, IndexedInv, Return, projection, Uint64

LEMMA StartInv == SearchInv /\ Start => SearchInv'
<1> SUFFICES ASSUME SearchInv, Start PROVE SearchInv'
  OBVIOUS
<1>1. CASE es = <<>> \/ instant < es[1].effectiveAt
  <2>1. ~Covered(es, instant)
    <3>1. CASE es = <<>>
      BY <3>1 DEF Covered
    <3>2. CASE es # <<>> /\ instant < es[1].effectiveAt
      <4>1. es[1].effectiveAt \in Nat /\ instant \in Nat
        BY <3>2, StampsAreNatural, WidthAssumption DEF SearchInv, IndexedInv, Uint64
      <4> QED
        BY <3>2, <4>1 DEF Covered
    <3> QED
      BY <1>1, <3>1, <3>2
  <2> QED
    BY <1>1, <2>1 DEF SearchInv, IndexedInv, Start, Covered
<1>2. CASE es # <<>> /\ ~(instant < es[1].effectiveAt)
  <2>1. es[1].effectiveAt \in Nat /\ instant \in Nat /\ Len(es) \in Nat /\ Len(es) >= 1
    BY <1>2, StampsAreNatural, WidthAssumption DEF SearchInv, IndexedInv, Uint64
  <2>2. low' = 0 /\ high' = Len(es) - 1 /\ at' = "loop" /\ UNCHANGED <<es, commitments, byVersion, instant>>
    BY <1>2 DEF Start, LastIndex
  <2>3. Bracket'
    BY <1>2, <2>1, <2>2 DEF Bracket
  <2> QED
    BY <2>1, <2>2, <2>3 DEF SearchInv, IndexedInv
<1> QED
  BY <1>1, <1>2

LEMMA IterateInv == SearchInv /\ Iterate => SearchInv' /\ 2 * (high' - low') <= high - low
<1> SUFFICES ASSUME SearchInv, Iterate
             PROVE  SearchInv' /\ 2 * (high' - low') <= high - low
  OBVIOUS
<1> DEFINE mid == Middle(low, high)
<1>1. Bracket /\ Len(es) \in Nat /\ instant \in Nat
  BY WidthAssumption DEF SearchInv, IndexedInv, Iterate, Uint64
<1>2. /\ mid \in Nat /\ low < mid /\ mid <= high
      /\ low + high <= 2 * mid /\ 2 * mid <= low + high + 1
  BY <1>1, MiddleIsExact, SearchAssumption DEF SearchInv, IndexedInv, Iterate, Bracket
<1> HIDE DEF mid
<1>3. \A j \in 1 .. Len(es) : es[j].effectiveAt \in Nat
  BY StampsAreNatural DEF SearchInv, IndexedInv
<1>4. UNCHANGED <<es, commitments, byVersion, instant, at>> /\ at = "loop"
  BY DEF Iterate
<1>5. CASE EffectiveBy(mid)
  <2>1. low' = mid /\ high' = high
    BY <1>5 DEF Iterate, mid
  <2>2. Bracket'
    BY <1>1, <1>2, <1>4, <1>5, <2>1 DEF Bracket, EffectiveBy
  <2> QED
    BY <1>1, <1>2, <1>4, <2>1, <2>2 DEF SearchInv, IndexedInv, Bracket
<1>6. CASE ~EffectiveBy(mid)
  <2>1. high' = mid - 1 /\ low' = low
    BY <1>6 DEF Iterate, mid
  <2>2. es[mid + 1].effectiveAt > instant
    BY <1>1, <1>2, <1>3, <1>6 DEF EffectiveBy, Bracket
  <2>3. \A j \in 1 .. Len(es) : j > mid => es[j].effectiveAt > instant
    <3> SUFFICES ASSUME NEW j \in 1 .. Len(es), j > mid
                 PROVE  es[j].effectiveAt > instant
      OBVIOUS
    <3>1. mid + 1 \in 1 .. Len(es) /\ (j = mid + 1 \/ mid + 1 < j)
      BY <1>1, <1>2 DEF Bracket
    <3>2. mid + 1 < j => es[mid + 1].effectiveAt < es[j].effectiveAt
      BY <3>1 DEF SearchInv, IndexedInv, ProjectionInvariants, Increasing
    <3> QED
      BY <1>1, <1>3, <2>2, <3>1, <3>2
  <2>4. Bracket'
    BY <1>1, <1>2, <1>4, <2>1, <2>3 DEF Bracket
  <2> QED
    BY <1>1, <1>2, <1>4, <2>1, <2>4 DEF SearchInv, IndexedInv, Bracket
<1> QED
  BY <1>5, <1>6

LEMMA FoundInv == SearchInv /\ Found => SearchInv'
BY DEF SearchInv, IndexedInv, Found, Bracket

LEMMA NextInv == SearchInv /\ [Next]_vars => SearchInv'
<1> SUFFICES ASSUME SearchInv, [Next]_vars PROVE SearchInv'
  OBVIOUS
<1>1. CASE UNCHANGED vars
  BY <1>1 DEF SearchInv, IndexedInv, Bracket, vars, search
<1> QED
  BY <1>1, AdmitCallInv, UndoCallInv, AsOfCallInv, StartInv, IterateInv, FoundInv, ReturnInv
     DEF Next, Run

\* The indexes and the loop invariant hold throughout.
THEOREM SearchInvariant == Spec => []SearchInv
BY InitInv, NextInv, PTL DEF Spec

\* What the three fields of the invariant say of one another.
LEMMA InvAgrees ==
    ASSUME SearchInv
    PROVE  IndexesAgree
<1>1. /\ es \in Seq(ProjectionEntry) /\ Consecutive(es) /\ commitments = CommitmentsOf(es)
      /\ byVersion = [v \in 1 .. Len(es) |-> v - 1]
  BY DEF SearchInv, IndexedInv, ProjectionInvariants
<1>2. Len(es) \in Nat /\ DOMAIN es = 1 .. Len(es) /\ DOMAIN byVersion = 1 .. Len(es)
  BY <1>1
<1>3. \A i \in 1 .. Len(es) : es[i].version = i
  BY <1>1, <1>2 DEF Consecutive
<1>4. \A v \in 1 .. Len(es) : EntryAt(v) = es[v]
  BY <1>1, <1>2 DEF EntryAt
<1> QED
  BY <1>1, <1>2, <1>3, <1>4 DEF IndexesAgree, KnownVersion

\* The kernel's indexes (kernel.ts:29-30) never go stale: after any admissions and
\* rollbacks the commitments are those of the entries, and entryAt finds exactly
\* the versions that are there, each at its entry.
THEOREM IndexesStayInAgreement == Spec => []IndexesAgree
BY SearchInvariant, InvAgrees, PTL

\* What the bracket leaves when low meets high is the reference definition.
LEMMA BracketFinds ==
    ASSUME SearchInv
    PROVE  FindsTheEntry
<1>1. CASE at = "found"
  <2>1. Bracket /\ low = high /\ Len(es) \in Nat /\ instant \in Nat
    BY <1>1, WidthAssumption DEF SearchInv, IndexedInv, Uint64
  <2>2. \A j \in 1 .. Len(es) : es[j].effectiveAt \in Nat
    BY StampsAreNatural DEF SearchInv, IndexedInv
  <2>3. /\ low + 1 \in 1 .. Len(es)
        /\ es[low + 1].effectiveAt <= instant
        /\ \A j \in 1 .. Len(es) : es[j].effectiveAt <= instant => j <= low + 1
    BY <2>1, <2>2 DEF Bracket
  <2>4. DOMAIN es = 1 .. Len(es)
    BY DEF SearchInv, IndexedInv
  <2>5. AsOfIndex(es, instant) = low + 1
    <3>1. /\ AsOfIndex(es, instant) \in DOMAIN es
          /\ es[AsOfIndex(es, instant)].effectiveAt <= instant
          /\ \A j \in DOMAIN es : es[j].effectiveAt <= instant => j <= AsOfIndex(es, instant)
      BY <2>3, <2>4 DEF AsOfIndex
    <3> QED
      BY <2>3, <2>4, <3>1
  <2>6. es[1].effectiveAt <= instant
    <3>1. 1 \in 1 .. Len(es) /\ (low + 1 = 1 \/ 1 < low + 1)
      BY <2>1 DEF Bracket
    <3>2. 1 < low + 1 => es[1].effectiveAt < es[low + 1].effectiveAt
      BY <2>3, <2>4, <3>1 DEF SearchInv, IndexedInv, ProjectionInvariants, Increasing
    <3> QED
      BY <2>1, <2>2, <2>3, <3>1, <3>2
  <2>7. es[1].effectiveAt \in Nat
    BY <2>1, <2>2 DEF Bracket
  <2> QED
    BY <1>1, <2>1, <2>5, <2>6, <2>7 DEF FindsTheEntry, Covered, Bracket
<1>2. CASE at # "found"
  BY <1>2 DEF FindsTheEntry, SearchInv
<1> QED
  BY <1>1, <1>2

\* entryAsOf (kernel.ts and RegisterProjection.sol) answers from the last entry
\* in effect at the instant, and refuses exactly the instants before the first.
THEOREM SearchIsCorrect == Spec => []FindsTheEntry
BY SearchInvariant, BracketFinds, PTL

\* Its loop cannot run forever: every iteration at least halves the interval.
THEOREM SearchHalves == Spec => Halves
<1>1. SearchInv /\ [Next]_vars =>
        [at = "loop" /\ at' = "loop" => 2 * (high' - low') <= high - low]_vars
  BY IterateInv
     DEF Next, Run, AdmitCall, UndoCall, AsOfCall, Start, Found, Return, search
<1> QED
  BY <1>1, SearchInvariant, PTL DEF Spec, Halves

\* Low and high stay indices of the history while the loop runs, and integers of
\* its length before and after it: no read is out of bounds.
THEOREM BoundsStayInside == Spec => []TypeOK
<1>1. SearchInv => TypeOK
  BY DEF SearchInv, IndexedInv, Bracket, TypeOK
<1> QED
  BY <1>1, SearchInvariant, PTL
===============================================================================
