--------------------------- MODULE IndexedProjection ---------------------------
(***************************************************************************)
(* class TokenProjection of engine/projection/kernel.ts with all three of  *)
(* its fields: the entries, the set of commitments that invariant 4 is     *)
(* checked against, and the map that entryAt looks versions up in.  admit  *)
(* and undoLastAdmit write all three.                                      *)
(*                                                                         *)
(* The modules that hold projections as plain sequences compute the other  *)
(* two from the entries; that this comes to the same is IndexesAgree.      *)
(***************************************************************************)
EXTENDS TokenProjection

VARIABLES
    es,             \* #entries
    commitments,    \* #commitments
    byVersion       \* #byVersion: versions to indexes that count from 0

projection == <<es, commitments, byVersion>>

\* A projection as the class constructs it.
NewProjection ==
    /\ es = <<>>
    /\ commitments = {}
    /\ byVersion = [v \in {} |-> 0]

\* admit.  A refused candidate throws before anything is written.
AdmitEntry(c) ==
    /\ ValidShape(c)
    /\ Succeeds(es, c)
    /\ c.recordCommitment \notin commitments
    /\ es' = Admit(es, c)
    /\ commitments' = commitments \cup {c.recordCommitment}
    /\ byVersion' = [v \in DOMAIN byVersion \cup {c.version} |->
                        IF v = c.version THEN Len(es) ELSE byVersion[v]]

\* Seeded fault: only the entry is taken off; its commitment and its version stay.
UndoEntryOnly ==
    /\ es # <<>>
    /\ es' = UndoLastAdmit(es)
    /\ UNCHANGED <<commitments, byVersion>>

\* undoLastAdmit; on an empty projection it returns at once.
UndoEntry ==
    /\ es # <<>>
    /\ es' = UndoLastAdmit(es)
    /\ commitments' = commitments \ {es[Len(es)].recordCommitment}
    /\ byVersion' = [v \in DOMAIN byVersion \ {es[Len(es)].version} |-> byVersion[v]]

\* What entryAt answers with; of other versions it throws UNKNOWN_VERSION.
KnownVersion(v) == v \in DOMAIN byVersion
EntryAt(v) == es[byVersion[v] + 1]

-----------------------------------------------------------------------------
(* Properties.                                                               *)

\* However admissions and rollbacks follow one another, the two indexes are
\* those of the entries: no commitment of an admission that was undone is
\* refused as reused, none of one that stands is forgotten, and entryAt finds
\* every version that is there, at its entry, and no other.
IndexesAgree ==
    /\ commitments = CommitmentsOf(es)
    /\ \A v \in Uint64 :
         /\ KnownVersion(v) <=> \E i \in DOMAIN es : es[i].version = v
         /\ KnownVersion(v) => EntryAt(v).version = v
=============================================================================
