------------------------------- MODULE MCHosts -------------------------------
(***************************************************************************)
(* The parts of a cc-lhc host that share no state, each run by itself: the  *)
(* lease of the thread, the wrapper of the child, the capture of its        *)
(* transcript, the sessions of its threads, and the decision table of a     *)
(* mid-turn compaction, which is asked one input and answers.               *)
(***************************************************************************)
EXTENDS ThreadOwner, WrapperRun, TranscriptCapture, CompactDecision, MCLineage

VARIABLES part, asked

rest == <<part, asked>>

\* The inputs the run asks of the table: a settled seam above the threshold, the
\* runtime's own facts proven and the runway safe; the rest is free.
Asked ==
  [versionOk : {TRUE}, seam : {"settled"}, kind : {"none", "active_non_tool", "pending_tool"},
   correlated : BOOLEAN, ids : {TRUE},
   boundary : {NotApplied} \cup {Applied(2, f, k) : f \in BOOLEAN, k \in BOOLEAN},
   writer : {"none", "lhc", "native", "conflict"},
   authority : {"unknown", "live_owner", "no_live_owner"},
   proven : {TRUE}, pressure : {"above"}, valid : BOOLEAN, useful : {TRUE}, safe : {TRUE},
   full : BOOLEAN, escalated : BOOLEAN, install : BOOLEAN,
   host : {"unset", "not_required", "awaiting", "ok", "failed"},
   advance : BOOLEAN, attempt : 1..2, budget : {2}]
NotAsked == <<>>

\* The parts that do not run stay as they began.
OwnerRests == OwnerInit /\ lease = NoLease
RunRests == RunInit /\ desc = Descriptor("none")
TranscriptRests ==
  TranscriptInit /\ base = 0 /\ text = [i \in LineIds |-> CHOOSE c \in Contents : TRUE]

LineageRests == LineageInit /\ rows = <<>> /\ \A s \in Session : transcript[s] = "absent"

HostsInit ==
  /\ part \in {"owner", "run", "transcript", "lineage", "table"}
  /\ IF part = "owner" THEN OwnerInit ELSE OwnerRests
  /\ IF part = "run" THEN RunInit ELSE RunRests
  /\ IF part = "transcript" THEN TranscriptInit ELSE TranscriptRests
  /\ IF part = "lineage" THEN LineageInit ELSE LineageRests
  /\ IF part = "table" THEN asked \in Asked ELSE asked = NotAsked

HostsNext ==
  \/ part = "owner" /\ OwnerNext /\ UNCHANGED <<runVars, transcriptVars, lineageVars, rest>>
  \/ part = "run" /\ RunNext /\ UNCHANGED <<ownerVars, transcriptVars, lineageVars, rest>>
  \/ part = "transcript" /\ TranscriptNext /\ UNCHANGED <<ownerVars, runVars, lineageVars, rest>>
  \/ part = "lineage" /\ BoundedNext /\ UNCHANGED <<ownerVars, runVars, transcriptVars, rest>>

HostsSpec == HostsInit /\ [][HostsNext]_<<ownerVars, runVars, transcriptVars, lineageVars, rest>>

\* Whatever the table decides, its validator takes for a receipt (decideCompactContinuation,
\* validateCompactContinuationDecision).
OracleIsValid == part = "table" => DecisionIsValid(Decide(asked))

HostsTypeOK == OwnerTypeOK /\ RunTypeOK /\ TranscriptTypeOK
=============================================================================
