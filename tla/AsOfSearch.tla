------------------------------- MODULE AsOfSearch -------------------------------
(***************************************************************************)
(* One projection and the calls made of it, one after another: admit,      *)
(* undoLastAdmit, and entryAsOf as the loop it is, kernel.ts:143-158 (the  *)
(* same loop as RegisterProjection.sol:180-192).  The calls are            *)
(* synchronous: while one runs, no other does.                             *)
(*                                                                         *)
(* The kernel halves with >> 1, which first reduces its operand to a       *)
(* signed 32-bit integer; Solidity halves a uint256.  HALF_WORD is 2^31.   *)
(* Indexes count from 0 as in the code, so entry k of the code is          *)
(* es[k + 1].                                                              *)
(***************************************************************************)
EXTENDS IndexedProjection, Integers

CONSTANTS
    Candidate,      \* the candidates submitted
    MaxLength,      \* bound: entries of a history
    HALF_WORD

ASSUME SearchAssumption ==
    /\ Candidate \subseteq CandidateEntry
    /\ MaxLength \in Nat
    /\ HALF_WORD \in Nat
    /\ 2 * MaxLength <= HALF_WORD

VARIABLES
    instant,    \* what is asked
    low, high,
    at          \* "idle" between calls; "start", "loop", "found", "uncovered" in entryAsOf

search == <<instant, low, high, at>>
vars == <<es, commitments, byVersion, instant, low, high, at>>

Init ==
    /\ NewProjection
    /\ instant = 0
    /\ low = 0
    /\ high = 0
    /\ at = "idle"

\* The store admits; histories are bounded by MaxLength.
AdmitCall ==
    /\ at = "idle"
    /\ Len(es) < MaxLength
    /\ \E c \in Candidate : AdmitEntry(c)
    /\ UNCHANGED search

\* The store's append failed.
UndoCall ==
    /\ at = "idle"
    /\ UndoEntry
    /\ UNCHANGED search

\* entryAsOf(t) is called.
AsOfCall(t) ==
    /\ at = "idle"
    /\ at' = "start"
    /\ instant' = t
    /\ UNCHANGED <<es, commitments, byVersion, low, high>>

LastIndex == Len(es) - 1

\* INSTANT_NOT_COVERED, or the bounds of the loop.
Start ==
    /\ at = "start"
    /\ IF es = <<>> \/ instant < es[1].effectiveAt
       THEN at' = "uncovered" /\ UNCHANGED <<low, high>>
       ELSE at' = "loop" /\ low' = 0 /\ high' = LastIndex
    /\ UNCHANGED <<es, commitments, byVersion, instant>>

\* What a 32-bit operator makes of an integer.
ToInt32(n) == ((n + HALF_WORD) % (2 * HALF_WORD)) - HALF_WORD

\* Seeded fault: the middle is rounded down.
MiddleBelow(l, h) == ToInt32(l + h) \div 2

\* Seeded fault: half the upper bound, instead of half the interval, above low.
MiddleTooFar(l, h) == l + ToInt32(h + 1) \div 2

Middle(l, h) == ToInt32(l + h + 1) \div 2

\* Seeded fault: an entry is not yet in effect at its own effective time.
EffectiveAfter(mid) == mid \in 0 .. Len(es) - 1 /\ es[mid + 1].effectiveAt < instant

\* candidate !== undefined && candidate.effectiveAt <= instant
EffectiveBy(mid) == mid \in 0 .. Len(es) - 1 /\ es[mid + 1].effectiveAt <= instant

Iterate ==
    /\ at = "loop"
    /\ low < high
    /\ LET mid == Middle(low, high)
       IN  IF EffectiveBy(mid) THEN low' = mid /\ high' = high
           ELSE high' = mid - 1 /\ low' = low
    /\ UNCHANGED <<es, commitments, byVersion, instant, at>>

Found ==
    /\ at = "loop"
    /\ ~(low < high)
    /\ at' = "found"
    /\ UNCHANGED <<es, commitments, byVersion, instant, low, high>>

\* The caller has its answer, or INSTANT_NOT_COVERED; the locals are gone.
Return ==
    /\ at \in {"found", "uncovered"}
    /\ at' = "idle"
    /\ instant' = 0 /\ low' = 0 /\ high' = 0
    /\ UNCHANGED projection

Run == Start \/ Iterate \/ Found

Next ==
    \/ AdmitCall
    \/ UndoCall
    \/ \E t \in Uint64 : AsOfCall(t)
    \/ Run
    \/ Return

Spec == Init /\ [][Next]_vars

\* A synchronous call runs to its end.
FairSpec == Spec /\ WF_vars(Run)

-----------------------------------------------------------------------------
(* Properties.                                                               *)

\* Every variable has its type, and the bounds stay inside the history.
TypeOK ==
    /\ es \in Seq(ProjectionEntry) /\ Len(es) <= MaxLength
    /\ instant \in Uint64
    /\ low \in Int /\ high \in Int
    /\ at \in {"idle", "start", "loop", "found", "uncovered"}
    /\ at \in {"loop", "found"} => 0 <= low /\ low <= high /\ high < Len(es)

\* The search answers with the entry in effect at the instant, whatever the
\* history, and refuses exactly the instants before it.
FindsTheEntry ==
    /\ at = "found" => Covered(es, instant) /\ low + 1 = AsOfIndex(es, instant)
    /\ at = "uncovered" => ~Covered(es, instant)

\* Every iteration at least halves the interval: the loop cannot run forever, and
\* a history of n entries is read at most log2(n) + 1 times.
Halves == [][at = "loop" /\ at' = "loop" => 2 * (high' - low') <= high - low]_vars

\* A call of entryAsOf returns, or throws.
Returns == at = "start" ~> at \in {"found", "uncovered"}
=============================================================================
