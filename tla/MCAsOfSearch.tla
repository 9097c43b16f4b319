------------------------------ MODULE MCAsOfSearch ------------------------------
(***************************************************************************)
(* Instance of AsOfSearch for TLC.  Commitments are numbers, and the zero  *)
(* word is 0.                                                              *)
(***************************************************************************)
EXTENDS AsOfSearch

\* Entries at every instant, linked into one chain of commitments; at each
\* version the same with the first commitment again, which is to be refused
\* while an entry has it.
MCCandidate ==
    {c \in CandidateEntry : /\ c.previousCommitment + 1 = c.version
                            /\ c.recordCommitment \in {1, c.version}}
=============================================================================
