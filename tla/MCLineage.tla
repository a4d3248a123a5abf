------------------------------ MODULE MCLineage ------------------------------
(***************************************************************************)
(* The lineage of the sessions of two threads, with two wrappers.  Wrappers,*)
(* threads and sessions are numbers, taken into use in their order.         *)
(***************************************************************************)
EXTENDS SessionLineage

\* A machine without lineage, with or without a session that was never wrapped, or one from
\* before the registry: a thread of two accepted sessions.
OldLineages ==
  {[rows |-> <<>>, native |-> {}],
   [rows |-> <<>>, native |-> {1}],
   [rows |-> <<Row(1, 1, "none", TRUE), Row(2, 1, "verified", TRUE)>>, native |-> {}]}

\* Which of two alike values is taken makes no difference: the lower one is.
TakenInOrder ==
  /\ \A s \in Session : NeverUsed(s) /\ ~ NeverUsed(s)' => \A r \in 1..(s - 1) : ~ NeverUsed(r)
  /\ \A t \in Thread : Unused(t) /\ ~ Unused(t)' => \A u \in 1..(t - 1) : ~ Unused(u)
  /\ \A w \in Wrapper : AtStep(w, "down") /\ ~ AtStep(w, "down")' =>
       \A v \in 1..(w - 1) : ~ AtStep(v, "down")

\* Bound: the reads and registrations of an import are not cut short, and nobody comes
\* between them; the pointer is not handed over between a launch's read and its repair; a
\* behaviour has one crash, or up to two faults and handovers.
Undisturbed ==
  /\ \A w \in Wrapper : wrapper[w].pc \in {"lookup", "import"} =>
       wrapper'[w].pc \notin {"lookup", "down"} /\ wrapper'[w] # wrapper[w]
  /\ tally'.handovers # tally.handovers =>
       \A w \in Wrapper : wrapper[w].pc \notin {"reconcile", "record"}
  /\ tally'.faults + 2 * tally'.crashes + tally'.handovers <= 2

\* Bound: nobody comes between the facts a sweep reads about one rebuild.
SweepUndisturbed ==
  \A w \in Wrapper : wrapper[w].pc \in {"known", "pointer", "awaits"} => wrapper'[w] # wrapper[w]

BoundedNext == LineageNext /\ TakenInOrder /\ Undisturbed /\ SweepUndisturbed

BoundedSpec == LineageInit /\ [][BoundedNext]_lineageVars

\* Sweeps run beside everything else.
SweepNext == LineageNext /\ TakenInOrder /\ Undisturbed

SweepSpec == LineageInit /\ [][SweepNext]_lineageVars
=============================================================================
