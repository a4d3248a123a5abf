----------------------------- MODULE MCCompact -----------------------------
(* CompactRun for TLC: the callers are alike, and a third call runs alone. *)
EXTENDS CompactRun

CONSTANTS c1, c2, a1, a2

OneRuns == \E c \in Callers : \A d \in Callers \ {c} : At(d, "idle")

KindsInPlay == {identity[a] : a \in Attempts} \cup {call[c].facts.kind : c \in Callers}

\* A third call runs alone, after two of its kind; calls with one attempt id
\* overlap without a tool pair.
Bound ==
  /\ calls <= 2 \/ (OneRuns /\ ~(Kinds \subseteq KindsInPlay))
  /\ overlapped = {} \/ "pending_tool" \notin KindsInPlay

\* While two calls run the agent waits for them and nothing fails.
AgentWaits == turns' # turns => OneRuns \/ \E c \in Callers : EndsTurn(c) \/ Marks(c)
CalmOverlap == faults' # faults => OneRuns

Symmetry == Permutations({c1, c2}) \cup Permutations({a1, a2})
=============================================================================
