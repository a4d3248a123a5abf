------------------------ MODULE MCDerivationPipeline ------------------------
(* Small instances of DerivationPipeline.                                   *)
EXTENDS DerivationPipeline

CONSTANTS m1, m2, m3, w1, w2

OneTurn == << <<m1>> >>

TwoTurns == << <<m1, m2>>, <<m3>> >>

\* Of two idle workers it makes no difference which takes the work.
InOrder == work'[w2] = work[w2] \/ work[w2].pc # "idle" \/ work[w1].pc # "idle"

\* Bound: with explicit derives there is one edit; a derive and a lapse come together once
\* each, in one turn without failures.  With a second turn no lease lapses, and there is one
\* of edit and failure and one derive.
Bounded ==
  /\ count'.derives > 0 => /\ count'.edits <= 1
                           /\ count'.lapses = 0 \/ (/\ count'.lapses + count'.derives = 2
                                                    /\ count'.failures = 0 /\ closed' = 1)
  /\ closed' = 2 => /\ count'.lapses = 0
                    /\ count'.edits + count'.failures <= 1
                    /\ count'.derives <= 1

BoundedNext == Next /\ InOrder /\ Bounded

BoundedSpec == Init /\ [][BoundedNext]_vars /\ Fairness
=============================================================================
