---------------------------- MODULE MCProofProfiles ----------------------------
(* Model values for TLC; see adapter_refresh.cfg for the bounds.              *)
EXTENDS ProofProfiles

CONSTANTS f1, f2, t1, t2, h1, h2, s1, s2, c1, c2, landreg, impostor

ProfileSymmetry == Permutations({f1, f2}) \cup Permutations({h1, h2})

B(tok, sid, c) == [tokenId |-> tok, settlementId |-> sid, candidate |-> c]

\* A tree of one leaf, and one of five: full pairs, and a node without a
\* neighbour on two levels.
MCPublished ==
    {<<B(t1, s1, c1)>>,
     <<B(t2, s1, c1), B(t1, NoGap, c1), B(t1, s1, c2), B(t1, s2, c1), B(t1, s1, c1)>>}

MCPublishedPaths == UNION {{PathsOf[list][i] : i \in DOMAIN list} : list \in MCPublished}

Swapped(step) == [step EXCEPT !.side = IF step.side = "left" THEN "right" ELSE "left"]

\* The paths merklePath makes, and paths that somebody else made of them: cut
\* short at either end, a step turned round, a step added.
MCPath ==
    MCPublishedPaths \cup UNION
        {{Tail(p), Front(p), [p EXCEPT ![1] = Swapped(p[1])], Append(p, p[1])} :
            p \in MCPublishedPaths \ {<<>>}}
=============================================================================
