------------------------ MODULE TokenProjectionProofs ------------------------
(***************************************************************************)
(* What the operators of TokenProjection preserve and undo.  The modules   *)
(* that hold entry sequences cite these lemmas.                            *)
(***************************************************************************)
EXTENDS TokenProjection, Integers, WellFoundedInduction, TLAPS

\* Closing or opening the last interval keeps the type, the length and every
\* field but the last entry's supersededAt.
LEMMA CloseLastShape ==
    ASSUME NEW es \in Seq(ProjectionEntry), NEW at \in Uint64
    PROVE  /\ CloseLast(es, at) \in Seq(ProjectionEntry)
           /\ Len(CloseLast(es, at)) = Len(es)
           /\ \A i \in 1 .. Len(es) :
                CloseLast(es, at)[i] =
                    IF i = Len(es) THEN [es[i] EXCEPT !.supersededAt = at] ELSE es[i]
<1>1. CASE es = <<>>
  BY <1>1 DEF CloseLast
<1>2. CASE es # <<>>
  <2>1. Len(es) \in 1 .. Len(es) /\ Len(es) \in DOMAIN es
    BY <1>2
  <2>2. CloseLast(es, at) = [es EXCEPT ![Len(es)] = [es[Len(es)] EXCEPT !.supersededAt = at]]
    BY <1>2 DEF CloseLast
  <2>3. [es[Len(es)] EXCEPT !.supersededAt = at] \in ProjectionEntry
    <3>1. es[Len(es)] \in ProjectionEntry
      BY <2>1
    <3> QED
      BY <3>1 DEF ProjectionEntry
  <2> QED
    BY <2>1, <2>2, <2>3
<1> QED
  BY <1>1, <1>2

\* admit keeps the type of the sequence, lengthens it by one, puts the new
\* entry last and touches nothing else but the preceding supersededAt.
LEMMA AdmitShape ==
    ASSUME NEW es \in Seq(ProjectionEntry), NEW c \in CandidateEntry
    PROVE  /\ Admit(es, c) \in Seq(ProjectionEntry)
           /\ Len(Admit(es, c)) = Len(es) + 1
           /\ Admit(es, c)[Len(es) + 1] = NewEntry(c)
           /\ \A i \in 1 .. Len(es) :
                Admit(es, c)[i] =
                    IF i = Len(es) THEN [es[i] EXCEPT !.supersededAt = c.effectiveAt] ELSE es[i]
<1> DEFINE closed == CloseLast(es, c.effectiveAt)
<1>1. NewEntry(c) \in ProjectionEntry
  BY WidthAssumption DEF NewEntry, ProjectionEntry, CandidateEntry, Uint64
<1>2. c.effectiveAt \in Uint64
  BY DEF CandidateEntry
<1>3. /\ closed \in Seq(ProjectionEntry)
      /\ Len(closed) = Len(es)
      /\ \A i \in 1 .. Len(es) :
           closed[i] = IF i = Len(es) THEN [es[i] EXCEPT !.supersededAt = c.effectiveAt] ELSE es[i]
  BY <1>2, CloseLastShape
<1> HIDE DEF closed
<1>4. Admit(es, c) = Append(closed, NewEntry(c))
  BY DEF Admit, closed
<1> QED
  BY <1>1, <1>3, <1>4

\* Undoing an admission restores the sequence exactly, supersededAt included,
\* provided the last interval was open (which IntervalsClosed says).
LEMMA UndoRestores ==
    ASSUME NEW es \in Seq(ProjectionEntry), NEW c \in CandidateEntry,
           IntervalsClosed(es)
    PROVE  UndoLastAdmit(Admit(es, c)) = es
<1> DEFINE longer == Admit(es, c)
           shorter == SubSeq(longer, 1, Len(longer) - 1)
<1>1. /\ longer \in Seq(ProjectionEntry)
      /\ Len(longer) = Len(es) + 1
      /\ \A i \in 1 .. Len(es) :
           longer[i] = IF i = Len(es) THEN [es[i] EXCEPT !.supersededAt = c.effectiveAt] ELSE es[i]
  BY AdmitShape
<1> HIDE DEF longer
<1>2. /\ shorter \in Seq(ProjectionEntry)
      /\ Len(shorter) = Len(es)
      /\ \A i \in 1 .. Len(es) : shorter[i] = longer[i]
  BY <1>1
<1> HIDE DEF shorter
<1>3. UndoLastAdmit(longer) = CloseLast(shorter, 0)
  BY <1>1 DEF UndoLastAdmit, shorter
<1>4. 0 \in Uint64
  BY WidthAssumption DEF Uint64
<1>5. /\ CloseLast(shorter, 0) \in Seq(ProjectionEntry)
      /\ Len(CloseLast(shorter, 0)) = Len(es)
      /\ \A i \in 1 .. Len(es) :
           CloseLast(shorter, 0)[i] =
               IF i = Len(es) THEN [shorter[i] EXCEPT !.supersededAt = 0] ELSE shorter[i]
  <2>1. shorter \in Seq(ProjectionEntry)
    BY <1>2
  <2>2. /\ CloseLast(shorter, 0) \in Seq(ProjectionEntry)
        /\ Len(CloseLast(shorter, 0)) = Len(shorter)
        /\ \A i \in 1 .. Len(shorter) :
             CloseLast(shorter, 0)[i] =
                 IF i = Len(shorter) THEN [shorter[i] EXCEPT !.supersededAt = 0] ELSE shorter[i]
    BY ONLY <2>1, <1>4, CloseLastShape
  <2> QED
    BY <1>2, <2>2
<1>6. \A i \in 1 .. Len(es) : CloseLast(shorter, 0)[i] = es[i]
  <2> SUFFICES ASSUME NEW i \in 1 .. Len(es)
               PROVE  CloseLast(shorter, 0)[i] = es[i]
    OBVIOUS
  <2>1. CASE i # Len(es)
    BY <2>1, <1>1, <1>2, <1>5
  <2>2. CASE i = Len(es)
    <3>1. es[i] \in ProjectionEntry /\ es[i].supersededAt = 0
      BY <2>2 DEF IntervalsClosed
    <3>2. shorter[i] = [es[i] EXCEPT !.supersededAt = c.effectiveAt]
      BY <2>2, <1>1, <1>2
    <3>3. CloseLast(shorter, 0)[i] = [shorter[i] EXCEPT !.supersededAt = 0]
      BY <2>2, <1>5
    <3>4. [[es[i] EXCEPT !.supersededAt = c.effectiveAt] EXCEPT !.supersededAt = 0] = es[i]
      BY <3>1 DEF ProjectionEntry
    <3> QED
      BY <3>2, <3>3, <3>4
  <2> QED
    BY <2>1, <2>2
<1>7. CloseLast(shorter, 0) = es
  BY <1>5, <1>6
<1> QED
  BY <1>3, <1>7 DEF longer

\* The empty projection satisfies all four invariants.
LEMMA EmptyInvariants == ProjectionInvariants(<<>>)
BY DEF ProjectionInvariants, Consecutive, Linked, Increasing, NeverReused, IntervalsClosed

\* admit keeps the four projection invariants and the closed intervals: the
\* guards of one call are enough, no other call's guard is needed.
LEMMA AdmitPreserves ==
    ASSUME NEW es \in Seq(ProjectionEntry), NEW c \in CandidateEntry,
           ProjectionInvariants(es), Admissible(es, c)
    PROVE  ProjectionInvariants(Admit(es, c))
<1> DEFINE longer == Admit(es, c)
           n == Len(es)
<1>1. /\ longer \in Seq(ProjectionEntry)
      /\ Len(longer) = n + 1
      /\ longer[n + 1] = NewEntry(c)
      /\ \A i \in 1 .. n :
           longer[i] = IF i = n THEN [es[i] EXCEPT !.supersededAt = c.effectiveAt] ELSE es[i]
  BY AdmitShape
<1>2. n \in Nat /\ DOMAIN es = 1 .. n /\ DOMAIN longer = 1 .. (n + 1)
  BY <1>1
<1>3. \A i \in 1 .. n : es[i] \in ProjectionEntry
  BY <1>2
<1>4. \A i \in 1 .. n :
        /\ longer[i].version = es[i].version
        /\ longer[i].effectiveAt = es[i].effectiveAt
        /\ longer[i].recordCommitment = es[i].recordCommitment
        /\ longer[i].previousCommitment = es[i].previousCommitment
        /\ longer[i].supersededAt = IF i = n THEN c.effectiveAt ELSE es[i].supersededAt
  BY <1>1, <1>2, <1>3 DEF ProjectionEntry
<1>5. /\ longer[n + 1].version = c.version
      /\ longer[n + 1].effectiveAt = c.effectiveAt
      /\ longer[n + 1].recordCommitment = c.recordCommitment
      /\ longer[n + 1].previousCommitment = c.previousCommitment
      /\ longer[n + 1].supersededAt = 0
  BY <1>1 DEF NewEntry
<1>6. \A i \in 1 .. n : es[i].effectiveAt \in Nat /\ es[i].version = i
  BY <1>2, <1>3, WidthAssumption DEF ProjectionEntry, Uint64, ProjectionInvariants, Consecutive
<1>7. c.effectiveAt \in Nat
  BY WidthAssumption DEF CandidateEntry, Uint64
<1>8. CASE n = 0
  <2>1. es = <<>>
    BY <1>2, <1>8
  <2>2. c.version = 1 /\ c.previousCommitment = ZERO_BYTES32
    BY <2>1 DEF Admissible, Succeeds, FIRST_VERSION
  <2> QED
    BY <1>1, <1>2, <1>5, <1>8, <2>2
       DEF ProjectionInvariants, Consecutive, Linked, Increasing, NeverReused, IntervalsClosed
<1>9. CASE n > 0
  <2>1. es # <<>>
    BY <1>9
  <2>2. /\ c.version = es[n].version + 1
        /\ c.previousCommitment = es[n].recordCommitment
        /\ c.effectiveAt > es[n].effectiveAt
    BY <2>1 DEF Admissible, Succeeds
  <2>3. \A i \in 1 .. n : c.recordCommitment # es[i].recordCommitment
    BY <1>2 DEF Admissible, CommitmentsOf
  <2> HIDE DEF longer, n
  <2>4. Consecutive(longer)
    BY <1>2, <1>4, <1>5, <1>6, <1>9, <2>2 DEF Consecutive
  <2>5. Linked(longer)
    <3>1. \A i \in 1 .. n :
            es[i].previousCommitment = IF i = 1 THEN ZERO_BYTES32 ELSE es[i - 1].recordCommitment
      BY <1>2 DEF ProjectionInvariants, Linked
    <3> QED
      BY <1>2, <1>4, <1>5, <1>9, <2>2, <3>1 DEF Linked
  <2>6. Increasing(longer)
    <3>1. \A i, j \in 1 .. n : i < j => es[i].effectiveAt < es[j].effectiveAt
      BY <1>2 DEF ProjectionInvariants, Increasing
    <3>2. \A i \in 1 .. n : es[i].effectiveAt < c.effectiveAt
      <4> SUFFICES ASSUME NEW i \in 1 .. n
                   PROVE  es[i].effectiveAt < c.effectiveAt
        OBVIOUS
      <4>1. es[i].effectiveAt <= es[n].effectiveAt
        BY <1>2, <1>6, <1>9, <3>1
      <4> QED
        BY <1>2, <1>6, <1>7, <1>9, <2>2, <4>1
    <3> QED
      BY <1>2, <1>4, <1>5, <3>1, <3>2 DEF Increasing
  <2>7. NeverReused(longer)
    <3>1. \A i, j \in 1 .. n : i # j => es[i].recordCommitment # es[j].recordCommitment
      BY <1>2 DEF ProjectionInvariants, NeverReused
    <3> QED
      BY <1>2, <1>4, <1>5, <2>3, <3>1 DEF NeverReused
  <2>8. IntervalsClosed(longer)
    <3>1. \A i \in 1 .. n :
            es[i].supersededAt = IF i = n THEN 0 ELSE es[i + 1].effectiveAt
      BY <1>2 DEF ProjectionInvariants, IntervalsClosed, n
    <3> QED
      BY <1>1, <1>2, <1>4, <1>5, <3>1 DEF IntervalsClosed
  <2> QED
    BY <2>4, <2>5, <2>6, <2>7, <2>8 DEF ProjectionInvariants, longer
<1> QED
  BY <1>2, <1>8, <1>9 DEF longer

\* Undoing takes the last entry off, opens the interval of the one before it and
\* touches nothing else.
LEMMA UndoShape ==
    ASSUME NEW es \in Seq(ProjectionEntry), es # <<>>
    PROVE  /\ UndoLastAdmit(es) \in Seq(ProjectionEntry)
           /\ Len(UndoLastAdmit(es)) = Len(es) - 1
           /\ \A i \in 1 .. Len(es) - 1 :
                UndoLastAdmit(es)[i] =
                    IF i = Len(es) - 1 THEN [es[i] EXCEPT !.supersededAt = 0] ELSE es[i]
<1> DEFINE shorter == SubSeq(es, 1, Len(es) - 1)
<1>1. /\ shorter \in Seq(ProjectionEntry)
      /\ Len(shorter) = Len(es) - 1
      /\ \A i \in 1 .. Len(es) - 1 : shorter[i] = es[i]
  <2>1. PICK n \in Nat : Len(es) = n + 1
    <3>1. Len(es) \in Nat /\ Len(es) # 0
      OBVIOUS
    <3> QED
      BY <3>1
  <2> QED
    BY <2>1
<1>2. UndoLastAdmit(es) = CloseLast(shorter, 0)
  BY DEF UndoLastAdmit
<1>3. 0 \in Uint64
  BY WidthAssumption DEF Uint64
<1> HIDE DEF shorter
<1>4. /\ CloseLast(shorter, 0) \in Seq(ProjectionEntry)
      /\ Len(CloseLast(shorter, 0)) = Len(shorter)
      /\ \A i \in 1 .. Len(shorter) :
           CloseLast(shorter, 0)[i] =
               IF i = Len(shorter) THEN [shorter[i] EXCEPT !.supersededAt = 0] ELSE shorter[i]
  <2>1. shorter \in Seq(ProjectionEntry)
    BY <1>1
  <2> QED
    BY ONLY <2>1, <1>3, CloseLastShape
<1> QED
  BY <1>1, <1>2, <1>4

\* undoLastAdmit keeps the projection invariants, whatever was admitted last.
LEMMA UndoPreserves ==
    ASSUME NEW es \in Seq(ProjectionEntry), es # <<>>, ProjectionInvariants(es)
    PROVE  ProjectionInvariants(UndoLastAdmit(es))
<1> DEFINE shorter == UndoLastAdmit(es)
           n == Len(es) - 1
<1>1. /\ shorter \in Seq(ProjectionEntry)
      /\ Len(shorter) = n
      /\ \A i \in 1 .. n :
           shorter[i] = IF i = n THEN [es[i] EXCEPT !.supersededAt = 0] ELSE es[i]
  BY UndoShape
<1>2. n \in Nat /\ DOMAIN es = 1 .. n + 1 /\ DOMAIN shorter = 1 .. n /\ Len(es) = n + 1
  BY <1>1
<1>3. \A i \in 1 .. n : es[i] \in ProjectionEntry
  BY <1>2
<1>4. \A i \in 1 .. n :
        /\ shorter[i].version = es[i].version
        /\ shorter[i].effectiveAt = es[i].effectiveAt
        /\ shorter[i].recordCommitment = es[i].recordCommitment
        /\ shorter[i].previousCommitment = es[i].previousCommitment
        /\ shorter[i].supersededAt = IF i = n THEN 0 ELSE es[i].supersededAt
  BY <1>1, <1>2, <1>3 DEF ProjectionEntry
<1> HIDE DEF shorter, n
<1>5. Consecutive(shorter)
  BY <1>2, <1>4 DEF ProjectionInvariants, Consecutive
<1>6. Linked(shorter)
  <2>1. \A i \in 1 .. n + 1 :
          es[i].previousCommitment = IF i = 1 THEN ZERO_BYTES32 ELSE es[i - 1].recordCommitment
    BY <1>2 DEF ProjectionInvariants, Linked
  <2> QED
    BY <1>2, <1>4, <2>1 DEF Linked
<1>7. Increasing(shorter)
  BY <1>2, <1>4 DEF ProjectionInvariants, Increasing
<1>8. NeverReused(shorter)
  BY <1>2, <1>4 DEF ProjectionInvariants, NeverReused
<1>9. IntervalsClosed(shorter)
  <2>1. \A i \in 1 .. n + 1 :
          es[i].supersededAt = IF i = n + 1 THEN 0 ELSE es[i + 1].effectiveAt
    BY <1>2 DEF ProjectionInvariants, IntervalsClosed
  <2> QED
    BY <1>1, <1>2, <1>4, <2>1 DEF IntervalsClosed
<1> QED
  BY <1>5, <1>6, <1>7, <1>8, <1>9 DEF ProjectionInvariants, shorter

\* The commitments after an admission and after an undo, which the kernel
\* keeps as a set of their own.
LEMMA CommitmentsAfterAdmit ==
    ASSUME NEW es \in Seq(ProjectionEntry), NEW c \in CandidateEntry
    PROVE  CommitmentsOf(Admit(es, c)) = CommitmentsOf(es) \cup {c.recordCommitment}
<1> DEFINE longer == Admit(es, c)
           n == Len(es)
<1>1. /\ longer \in Seq(ProjectionEntry)
      /\ Len(longer) = n + 1
      /\ longer[n + 1] = NewEntry(c)
      /\ \A i \in 1 .. n :
           longer[i] = IF i = n THEN [es[i] EXCEPT !.supersededAt = c.effectiveAt] ELSE es[i]
  BY AdmitShape
<1>2. n \in Nat /\ DOMAIN es = 1 .. n /\ DOMAIN longer = 1 .. n + 1
  BY <1>1
<1>3. \A i \in 1 .. n : longer[i].recordCommitment = es[i].recordCommitment
  <2>1. \A i \in 1 .. n : es[i] \in ProjectionEntry
    BY <1>2
  <2> QED
    BY <1>1, <2>1 DEF ProjectionEntry
<1>4. longer[n + 1].recordCommitment = c.recordCommitment
  BY <1>1 DEF NewEntry
<1> HIDE DEF longer, n
<1>5. CommitmentsOf(longer) = CommitmentsOf(es) \cup {c.recordCommitment}
  BY <1>2, <1>3, <1>4 DEF CommitmentsOf
<1> QED
  BY <1>5 DEF longer

LEMMA CommitmentsAfterUndo ==
    ASSUME NEW es \in Seq(ProjectionEntry), es # <<>>, NeverReused(es)
    PROVE  CommitmentsOf(UndoLastAdmit(es)) =
             CommitmentsOf(es) \ {es[Len(es)].recordCommitment}
<1> DEFINE shorter == UndoLastAdmit(es)
           n == Len(es) - 1
<1>1. /\ shorter \in Seq(ProjectionEntry)
      /\ Len(shorter) = n
      /\ \A i \in 1 .. n :
           shorter[i] = IF i = n THEN [es[i] EXCEPT !.supersededAt = 0] ELSE es[i]
  BY UndoShape
<1>2. n \in Nat /\ DOMAIN es = 1 .. n + 1 /\ DOMAIN shorter = 1 .. n /\ Len(es) = n + 1
  BY <1>1
<1>3. \A i \in 1 .. n : shorter[i].recordCommitment = es[i].recordCommitment
  <2>1. \A i \in 1 .. n : es[i] \in ProjectionEntry
    BY <1>2
  <2> QED
    BY <1>1, <2>1 DEF ProjectionEntry
<1> HIDE DEF shorter, n
<1>4. \A i \in 1 .. n : es[i].recordCommitment # es[n + 1].recordCommitment
  BY <1>2 DEF NeverReused
<1>5. CommitmentsOf(shorter) = CommitmentsOf(es) \ {es[n + 1].recordCommitment}
  BY <1>2, <1>3, <1>4 DEF CommitmentsOf
<1> QED
  BY <1>2, <1>5 DEF shorter

\* The library's well-founded order on the naturals, as a plain set of pairs.
LEMMA NatOrder ==
    \E R : IsWellFoundedOn(R, Nat) /\ \A x, y \in Nat : <<y, x>> \in R <=> y < x
<1> DEFINE R == OpToRel(<, Nat)
<1>1. IsWellFoundedOn(R, Nat)
  BY NatLessThanWellFounded
<1>2. \A x, y \in Nat : <<y, x>> \in R <=> y < x
  BY DEF OpToRel
<1> HIDE DEF R
<1> QED
  BY <1>1, <1>2, Zenon

\* A nonempty set of naturals has a least element.
LEMMA LeastNatural ==
    ASSUME NEW T, T \subseteq Nat, T # {}
    PROVE  \E x \in T : \A y \in T : x <= y
<1>1. PICK R : IsWellFoundedOn(R, Nat) /\ \A x, y \in Nat : <<y, x>> \in R <=> y < x
  BY NatOrder
<1>2. PICK x \in T : \A y \in T : ~ (<<y, x>> \in R)
  BY <1>1, WFMin
<1>3. ASSUME NEW y \in T
      PROVE  x <= y
  <2>1. x \in Nat /\ y \in Nat
    OBVIOUS
  <2>2. ~ (<<y, x>> \in R)
    BY <1>2
  <2>3. ~ (y < x)
    BY <1>1, <2>1, <2>2, Zenon
  <2> QED
    BY <2>1, <2>3
<1> QED
  BY <1>3

\* entryAsOf has an answer at every covered instant: a last entry in effect.
LEMMA AsOfIndexExists ==
    ASSUME NEW es \in Seq(ProjectionEntry), NEW t \in Uint64, Covered(es, t)
    PROVE  /\ AsOfIndex(es, t) \in 1 .. Len(es)
           /\ es[AsOfIndex(es, t)].effectiveAt <= t
           /\ \A j \in 1 .. Len(es) : es[j].effectiveAt <= t => j <= AsOfIndex(es, t)
<1> DEFINE inEffect == {j \in 1 .. Len(es) : es[j].effectiveAt <= t}
           fromEnd == {Len(es) - j : j \in inEffect}
<1>1. DOMAIN es = 1 .. Len(es) /\ Len(es) \in Nat
  OBVIOUS
<1>2. /\ 1 \in 1 .. Len(es)
      /\ es[1].effectiveAt \in Nat
      /\ t \in Nat
  <2>1. 1 \in 1 .. Len(es)
    BY <1>1 DEF Covered
  <2>2. es[1] \in ProjectionEntry
    BY <1>1, <2>1
  <2> QED
    BY <2>1, <2>2, WidthAssumption DEF ProjectionEntry, Uint64
<1>3. 1 \in inEffect
  BY <1>2 DEF Covered
<1>4. fromEnd \subseteq Nat /\ fromEnd # {}
  BY <1>1, <1>3
<1>5. PICK x \in fromEnd : \A y \in fromEnd : x <= y
  BY <1>4, LeastNatural
<1>6. PICK i \in inEffect : x = Len(es) - i
  BY <1>5
<1>7. \A j \in inEffect : j <= i
  <2> SUFFICES ASSUME NEW j \in inEffect
               PROVE  j <= i
    OBVIOUS
  <2>1. Len(es) - j \in fromEnd
    OBVIOUS
  <2>2. Len(es) - i <= Len(es) - j
    BY <1>5, <1>6, <2>1
  <2> QED
    BY <1>1, <2>2
<1>8. \E k \in DOMAIN es :
        /\ es[k].effectiveAt <= t
        /\ \A j \in DOMAIN es : es[j].effectiveAt <= t => j <= k
  BY <1>1, <1>6, <1>7
<1> QED
  BY <1>1, <1>8 DEF AsOfIndex

\* The index is characterised by the property it is chosen for.
LEMMA AsOfIndexUnique ==
    ASSUME NEW es \in Seq(ProjectionEntry), NEW t \in Uint64,
           NEW i \in 1 .. Len(es),
           es[i].effectiveAt <= t,
           \A j \in 1 .. Len(es) : es[j].effectiveAt <= t => j <= i
    PROVE  AsOfIndex(es, t) = i
<1>1. DOMAIN es = 1 .. Len(es)
  OBVIOUS
<1>2. /\ AsOfIndex(es, t) \in DOMAIN es
      /\ es[AsOfIndex(es, t)].effectiveAt <= t
      /\ \A j \in DOMAIN es : es[j].effectiveAt <= t => j <= AsOfIndex(es, t)
  BY <1>1 DEF AsOfIndex
<1> QED
  BY <1>1, <1>2

\* A final answer survives every admission: the instant stays final and the
\* entry that answers for it is the same in every field, supersededAt included.
LEMMA FinalAnswerSurvivesAdmit ==
    ASSUME NEW es \in Seq(ProjectionEntry), NEW c \in CandidateEntry, NEW t \in Uint64,
           ProjectionInvariants(es), Admissible(es, c), IsFinalAsOf(es, t)
    PROVE  /\ IsFinalAsOf(Admit(es, c), t)
           /\ EntryAsOf(Admit(es, c), t) = EntryAsOf(es, t)
<1> DEFINE longer == Admit(es, c)
           n == Len(es)
           i == AsOfIndex(es, t)
<1>1. /\ longer \in Seq(ProjectionEntry)
      /\ Len(longer) = n + 1
      /\ longer[n + 1] = NewEntry(c)
      /\ \A k \in 1 .. n :
           longer[k] = IF k = n THEN [es[k] EXCEPT !.supersededAt = c.effectiveAt] ELSE es[k]
  BY AdmitShape
<1>2. es # <<>> /\ n \in Nat /\ n >= 1 /\ t \in Nat /\ c.effectiveAt \in Nat
  BY WidthAssumption DEF IsFinalAsOf, CandidateEntry, Uint64
<1>3. \A k \in 1 .. n : es[k] \in ProjectionEntry /\ es[k].effectiveAt \in Nat
  <2>1. \A k \in 1 .. n : es[k] \in ProjectionEntry
    BY <1>2
  <2> QED
    BY <2>1, WidthAssumption DEF ProjectionEntry, Uint64
<1>4. \A k \in 1 .. n : longer[k].effectiveAt = es[k].effectiveAt
  BY <1>1, <1>3 DEF ProjectionEntry
<1>5. longer[n + 1].effectiveAt = c.effectiveAt
  BY <1>1 DEF NewEntry
<1>6. c.effectiveAt > es[n].effectiveAt /\ es[n].effectiveAt > t /\ es[1].effectiveAt <= t
  BY <1>2, <1>3 DEF Admissible, Succeeds, IsFinalAsOf
<1>7. /\ i \in 1 .. n
      /\ es[i].effectiveAt <= t
      /\ \A j \in 1 .. n : es[j].effectiveAt <= t => j <= i
  BY <1>2, <1>6, AsOfIndexExists DEF Covered
<1> HIDE DEF longer, n, i
<1>8. i # n
  BY <1>2, <1>3, <1>6, <1>7
<1>9. c.effectiveAt > t
  BY <1>2, <1>3, <1>6
<1>10. /\ i \in 1 .. Len(longer)
       /\ longer[i].effectiveAt <= t
       /\ \A j \in 1 .. Len(longer) : longer[j].effectiveAt <= t => j <= i
  BY <1>1, <1>2, <1>4, <1>5, <1>7, <1>9
<1>11. AsOfIndex(longer, t) = i
  BY <1>1, <1>10, AsOfIndexUnique
<1>12. longer[i] = es[i]
  BY <1>1, <1>7, <1>8
<1>13. IsFinalAsOf(longer, t)
  BY <1>1, <1>2, <1>4, <1>5, <1>6, <1>9 DEF IsFinalAsOf
<1> QED
  BY <1>11, <1>12, <1>13 DEF EntryAsOf, longer, i

-----------------------------------------------------------------------------
(* What a reader sees of the entries is an append-only history.              *)

FactsOf(es) ==
    [i \in DOMAIN es |-> [holder |-> es[i].holder, effectiveAt |-> es[i].effectiveAt]]

\* An admission appends one fact and changes no earlier one: closing an
\* interval is not visible in the history.
LEMMA AdmitAppendsFact ==
    ASSUME NEW es \in Seq(ProjectionEntry), NEW c \in CandidateEntry
    PROVE  FactsOf(Admit(es, c)) =
             Append(FactsOf(es), [holder |-> c.holder, effectiveAt |-> c.effectiveAt])
<1> DEFINE longer == Admit(es, c)
           n == Len(es)
           fact == [holder |-> c.holder, effectiveAt |-> c.effectiveAt]
<1>1. /\ longer \in Seq(ProjectionEntry)
      /\ Len(longer) = n + 1
      /\ longer[n + 1] = NewEntry(c)
      /\ \A k \in 1 .. n :
           longer[k] = IF k = n THEN [es[k] EXCEPT !.supersededAt = c.effectiveAt] ELSE es[k]
  BY AdmitShape
<1>2. n \in Nat /\ DOMAIN es = 1 .. n /\ DOMAIN longer = 1 .. n + 1
  BY <1>1
<1>3. \A k \in 1 .. n :
        longer[k].holder = es[k].holder /\ longer[k].effectiveAt = es[k].effectiveAt
  <2>1. \A k \in 1 .. n : es[k] \in ProjectionEntry
    BY <1>2
  <2> QED
    BY <1>1, <2>1 DEF ProjectionEntry
<1>4. longer[n + 1].holder = c.holder /\ longer[n + 1].effectiveAt = c.effectiveAt
  BY <1>1 DEF NewEntry
<1> HIDE DEF longer, n
<1>5. FactsOf(es) \in Seq({[holder |-> es[k].holder, effectiveAt |-> es[k].effectiveAt]
                             : k \in 1 .. n})
      /\ Len(FactsOf(es)) = n
      /\ \A k \in 1 .. n :
           FactsOf(es)[k] = [holder |-> es[k].holder, effectiveAt |-> es[k].effectiveAt]
  BY <1>2 DEF FactsOf
<1>6. FactsOf(longer) =
        [k \in 1 .. n + 1 |-> IF k = n + 1 THEN fact ELSE FactsOf(es)[k]]
  BY <1>2, <1>3, <1>4, <1>5 DEF FactsOf
<1>7. Append(FactsOf(es), fact) =
        [k \in 1 .. n + 1 |-> IF k = n + 1 THEN fact ELSE FactsOf(es)[k]]
  BY <1>2, <1>5
<1> QED
  BY <1>6, <1>7 DEF longer

\* The fact it appends is later than the last one.
LEMMA AdmittedFactIsLater ==
    ASSUME NEW es \in Seq(ProjectionEntry), NEW c \in CandidateEntry, Admissible(es, c),
           FactsOf(es) # <<>>
    PROVE  c.effectiveAt > FactsOf(es)[Len(FactsOf(es))].effectiveAt
<1>1. DOMAIN es = 1 .. Len(es) /\ Len(es) \in Nat
  OBVIOUS
<1>2. es # <<>>
  BY DEF FactsOf
<1>3. Len(FactsOf(es)) = Len(es)
  BY <1>1 DEF FactsOf
<1>4. FactsOf(es)[Len(es)].effectiveAt = es[Len(es)].effectiveAt
  BY <1>1, <1>2 DEF FactsOf
<1> QED
  BY <1>1, <1>2, <1>3, <1>4 DEF Admissible, Succeeds
=============================================================================
