-------------------------- MODULE CompactDecision --------------------------
(***************************************************************************)
(* The decision table of a mid-turn compaction and the validator of its    *)
(* receipts: decideCompactContinuation maps what a runtime knows at a seam *)
(* to an outcome, the path of states behind it and the effects in their    *)
(* order; validateCompactContinuationDecision says which receipts may be   *)
(* stored.  Both are pure.  Reasons are left out, a warning is its code    *)
(* among the effects, and token counts are the questions asked of them.    *)
(***************************************************************************)
EXTENDS Naturals, Sequences, SequencesExt

\* The id of a turn that is not there (an empty or missing continuationTurnId).
NoTurn == 0

NotApplied == [applied |-> FALSE, turn |-> NoTurn, forcedThisSeam |-> FALSE, marker |-> FALSE]

Applied(t, forcedThisSeam, marker) ==
  [applied |-> TRUE, turn |-> t, forcedThisSeam |-> forcedThisSeam, marker |-> marker]

\* What a runtime may find at a seam.
InputOver(turns, retries) ==
  [versionOk : BOOLEAN,
   seam : {"settled", "unsettled", "transport_retry"},
   kind : {"none", "active_non_tool", "pending_tool"},
   correlated : BOOLEAN,     \* the pending call and its result are proven a pair
   ids : BOOLEAN,            \* protectedToolCallIds is not empty
   boundary : {NotApplied} \cup {Applied(t, f, k) : t \in turns, f \in BOOLEAN, k \in BOOLEAN},
   writer : {"none", "lhc", "native", "conflict"},
   authority : {"unknown", "live_owner", "no_live_owner"},
   proven : BOOLEAN,         \* capture complete, provider identity valid, one open turn
   pressure : {"no_usage", "below", "above"},
   valid : BOOLEAN,          \* compactStructurallyValid
   useful : BOOLEAN,         \* usefulReduction
   safe : BOOLEAN,           \* provider request provable and projected runway safe
   full : BOOLEAN,           \* no derivation missing, lower target met
   escalated : BOOLEAN,      \* protectedEscalationApplied
   install : BOOLEAN,        \* installSucceeds
   host : {"unset", "not_required", "awaiting", "ok", "failed"},
   advance : BOOLEAN,        \* the visibility boundary moves
   attempt : 1..retries,
   budget : 1..retries]

-----------------------------------------------------------------------------
(* The decision *)

WarningCode ==
  {"unsupported_contract_version_omitted", "pending_boundary_discarded",
   "boundary_marker_claim_untrusted", "stale_writer_row_reclaimed", "writer_owned_elsewhere",
   "capture_or_identity_unproven", "tool_correlation_unproven", "protected_tool_pairs_invalid",
   "continuation_boundary_unavailable", "unsafe_runway_or_request", "compact_attempt_failed",
   "install_attempt_failed", "compact_retry_budget_exhausted", "host_validation_failed"}

If(condition, effects) == IF condition THEN effects ELSE <<>>

Opt(condition, effect) == If(condition, <<effect>>)

\* A receipt that changed nothing: the prior view serves, no turn was opened.
Unchanged(in, outcome, path, effects) ==
  [outcome |-> outcome, path |-> path, effects |-> effects,
   attempt |-> in.attempt, budget |-> in.budget, retry |-> FALSE,
   base |-> in.pressure # "no_usage", turnEnd |-> FALSE, opened |-> FALSE, sameTurn |-> TRUE,
   released |-> TRUE, priorIntact |-> TRUE, applied |-> FALSE, turn |-> NoTurn,
   marker |-> FALSE, served |-> FALSE, discarded |-> FALSE, nextAllowed |-> TRUE,
   host |-> IF in.host = "unset" THEN "not_required" ELSE in.host]

\* appliedBoundaryResidualOverlay: a boundary that was forced before is reported
\* by whatever the attempt now decides; the marker of an earlier seam is trusted.
Overlaid(in, d) ==
  IF ~in.boundary.applied THEN d
  ELSE [d EXCEPT !.turnEnd = TRUE, !.opened = TRUE, !.sameTurn = FALSE, !.applied = TRUE,
                 !.turn = in.boundary.turn,
                 !.marker = ~in.boundary.forcedThisSeam /\ in.boundary.marker]

DeclineUnsupportedVersion(in) ==
  [Unchanged(in, "decline_to_ordinary_compact", <<"idle", "terminal_decline_ordinary">>,
             <<"discard_pending_boundary", "unsupported_contract_version_omitted", "record_receipt">>)
     EXCEPT !.attempt = 1, !.budget = 2, !.base = FALSE, !.host = "not_required", !.discarded = TRUE]

Skip(in) ==
  [Overlaid(in, Unchanged(in, "skip_seam", <<"idle", "terminal_skip">>, <<"skip_seam", "record_receipt">>))
     EXCEPT !.nextAllowed = FALSE]

\* declineToOrdinary, with declineEffects
Decline(in, path, prelude, code) ==
  [Overlaid(in, Unchanged(in, "decline_to_ordinary_compact", Append(path, "terminal_decline_ordinary"),
     prelude.effects \o <<code>> \o Opt(in.writer = "lhc", "claim_writer") \o <<"record_receipt">>
       \o Opt(in.writer = "lhc", "release_writer")))
     EXCEPT !.discarded = prelude.discarded]

WriterOwnedElsewhere(in, path, prelude) ==
  [Overlaid(in, Unchanged(in, "continue_current_body", Append(path, "terminal_continue_current_body"),
                          prelude.effects \o <<"writer_owned_elsewhere", "record_receipt">>))
     EXCEPT !.discarded = prelude.discarded]

ContinueNormal(in, path, prelude) ==
  [Unchanged(in, "continue_normal",
             path \o Opt(in.pressure = "below", "below_trigger") \o <<"terminal_continue_normal">>,
             Append(prelude.effects, "record_receipt")) EXCEPT !.discarded = prelude.discarded]

NormalComplete(in, path, prelude) ==
  [Unchanged(in, "normal_complete", path \o <<"path_normal_complete", "terminal_normal_complete">>,
             Append(prelude.effects, "record_receipt"))
     EXCEPT !.discarded = prelude.discarded, !.sameTurn = FALSE]

\* Faulty variant: the budget counts the retries and not the attempts.
RetryUpToBudget(in) == in.attempt <= in.budget

\* retryClassification
RetryAuthorized(in) == in.attempt < in.budget

\* attemptFailedAfterPreserve and attemptFailedAfterContinue
AttemptFailed(in, path, code, effects, continued, marker) ==
  LET retry == RetryAuthorized(in)
  IN [Unchanged(in, IF retry THEN "retry_compact" ELSE "continue_current_body",
                Append(path, IF retry THEN "terminal_retry" ELSE "terminal_continue_current_body"),
                effects \o <<code>> \o Opt(~retry, "compact_retry_budget_exhausted")
                  \o <<"record_receipt", "release_writer">>)
        EXCEPT !.retry = retry, !.host = "not_required",
               !.turnEnd = continued, !.opened = continued, !.sameTurn = ~continued,
               !.applied = continued, !.turn = IF continued THEN in.boundary.turn ELSE NoTurn,
               !.marker = continued /\ (marker \/ (~in.boundary.forcedThisSeam /\ in.boundary.marker))]

HostEffects(host) ==
  If(host # "not_required",
     <<"await_host_validation">> \o If(host = "failed", <<"record_host_validation", "host_validation_failed">>))

Installed(in, path, effects, continued, host, success) ==
  LET outcome == IF ~in.useful THEN "no_reduction" ELSE IF ~in.full THEN "degraded_compact" ELSE success
      terminal == IF ~in.useful THEN "terminal_no_reduction"
                  ELSE IF ~in.full THEN "terminal_degraded"
                  ELSE IF continued THEN "terminal_continue_turn" ELSE "terminal_preserve_tool"
  IN [Unchanged(in, outcome, path \o <<"installing", terminal>>, effects \o <<"record_receipt", "release_writer">>)
        EXCEPT !.priorIntact = FALSE, !.host = host, !.nextAllowed = host # "awaiting",
               !.turnEnd = continued, !.opened = continued, !.sameTurn = ~continued,
               !.applied = continued, !.turn = IF continued THEN in.boundary.turn ELSE NoTurn,
               !.marker = continued, !.served = continued]

\* postCompactTail on a turn that was ended for the compaction.
ContinueTurn(in, before, prelude) ==
  LET path == before \o <<"path_continue_turn", "compacting">>
      claimed == prelude.effects \o <<"claim_writer">>
                   \o Opt(in.boundary.forcedThisSeam, "force_turn_end") \o <<"compact">>
      assembled == claimed \o Opt(~in.full, "degrade_fidelity") \o Opt(~in.safe, "unsafe_runway_or_request")
                     \o <<"insert_continuation_marker">>
      tools == in.kind = "pending_tool" /\ in.ids
      pending == tools /\ in.escalated
      host == IF in.host # "unset" THEN in.host ELSE IF pending THEN "awaiting" ELSE "not_required"
  IN IF ~in.boundary.applied \/ in.boundary.turn = NoTurn
     THEN Decline(in, Append(before, "path_continue_turn"), prelude, "continuation_boundary_unavailable")
     ELSE IF ~in.valid THEN AttemptFailed(in, path, "compact_attempt_failed", claimed, TRUE, FALSE)
     ELSE IF ~in.install
     THEN AttemptFailed(in, Append(path, "installing"), "install_attempt_failed", assembled, TRUE, TRUE)
     ELSE [Installed(in, path,
                     assembled \o Opt(tools, "preserve_tool_pairs_verbatim")
                       \o Opt(in.advance, "advance_visibility_boundary") \o <<"install_serving_view">>
                       \o HostEffects(host),
                     TRUE, host, IF pending THEN "compact_preserve_tool_escalated" ELSE "compact_continue_turn")
             EXCEPT !.discarded = prelude.discarded]

\* postCompactTail on an open turn whose last tool pair stays as it is.
PreserveTool(in, before, prelude) ==
  LET path == before \o <<"path_preserve_tool", "compacting">>
      claimed == prelude.effects \o <<"claim_writer", "compact">>
      assembled == claimed \o Opt(~in.full, "degrade_fidelity") \o Opt(~in.safe, "unsafe_runway_or_request")
                     \o <<"preserve_tool_pairs_verbatim">>
      host == IF in.host = "unset" THEN "not_required" ELSE in.host
  IN IF ~in.valid THEN AttemptFailed(in, path, "compact_attempt_failed", claimed, FALSE, FALSE)
     ELSE IF ~in.install
     THEN AttemptFailed(in, Append(path, "installing"), "install_attempt_failed", assembled, FALSE, FALSE)
     ELSE [Installed(in, path, assembled \o <<"install_serving_view">> \o HostEffects(host), FALSE, host,
                     "compact_preserve_tool") EXCEPT !.discarded = prelude.discarded]

\* The call and the result that wait for the model cannot be protected.
Unprotectable(in) == in.kind = "pending_tool" /\ ~(in.correlated /\ in.ids)

ProtectionCode(in) ==
  IF in.correlated THEN "protected_tool_pairs_invalid" ELSE "tool_correlation_unproven"

Evaluate(in, path, prelude) ==
  IF in.boundary.applied
  THEN IF Unprotectable(in) THEN Decline(in, path, prelude, ProtectionCode(in))
       ELSE ContinueTurn(in, path, prelude)
  ELSE IF in.kind = "none" THEN NormalComplete(in, path, prelude)
  ELSE IF in.pressure # "above" THEN ContinueNormal(in, path, prelude)
  ELSE IF in.kind = "active_non_tool" THEN Decline(in, path, prelude, "continuation_boundary_unavailable")
  ELSE IF Unprotectable(in) THEN Decline(in, path, prelude, ProtectionCode(in))
  ELSE PreserveTool(in, path, prelude)

\* A boundary that this seam cannot use is discarded and the seam starts fresh.
Unusable(in) == in.boundary.applied /\ (in.kind = "none" \/ in.boundary.turn = NoTurn)

CheckInvariants(in, prelude) ==
  LET path == <<"at_seam", "checking_invariants">>
      foreign == in.writer \in {"native", "conflict"}
      reclaimed == prelude.effects \o If(foreign, <<"reclaim_writer", "stale_writer_row_reclaimed">>)
                     \o If(~in.proven, <<"capture_or_identity_unproven", "omit_signed_reasoning">>)
  IN IF foreign /\ in.authority # "no_live_owner" THEN WriterOwnedElsewhere(in, path, prelude)
     ELSE Evaluate([in EXCEPT !.writer = IF foreign THEN "none" ELSE @], Append(path, "evaluating_pressure"),
                   [prelude EXCEPT !.effects = reclaimed])

\* decideCompactContinuation
Decide(in) ==
  LET fresh == IF Unusable(in) THEN [in EXCEPT !.boundary = NotApplied] ELSE in
      untrusted == fresh.boundary.applied /\ fresh.boundary.forcedThisSeam /\ fresh.boundary.marker
  IN IF ~in.versionOk THEN DeclineUnsupportedVersion(in)
     ELSE IF in.seam # "settled" THEN Skip(in)
     ELSE CheckInvariants(fresh,
            [effects |-> If(Unusable(in), <<"discard_pending_boundary", "pending_boundary_discarded">>)
                           \o Opt(untrusted, "boundary_marker_claim_untrusted"),
             discarded |-> Unusable(in)])

-----------------------------------------------------------------------------
(* validateCompactContinuationDecision *)

Has(d, effect) == effect \in ToSet(d.effects)

Place(d, effect) == CHOOSE n \in DOMAIN d.effects : d.effects[n] = effect

InOrder(d, first, second) == Has(d, first) /\ Has(d, second) => Place(d, first) < Place(d, second)

ResidualIsValid(d) ==
  /\ d.released
  /\ d.served => d.marker

RetryIsValid(d) ==
  /\ d.attempt >= 1 /\ d.budget >= 1
  /\ d.retry => d.attempt < d.budget
  /\ d.retry <=> d.outcome = "retry_compact"

EffectsAreValid(d) ==
  /\ Has(d, "force_turn_end") => d.turnEnd
  /\ Has(d, "claim_writer") => Has(d, "release_writer")
  /\ InOrder(d, "claim_writer", "release_writer")
  /\ InOrder(d, "force_turn_end", "compact")
  /\ InOrder(d, "compact", "install_serving_view")
  /\ InOrder(d, "compact", "degrade_fidelity")
  /\ InOrder(d, "degrade_fidelity", "install_serving_view")
  /\ Has(d, "insert_continuation_marker") => d.marker
  /\ Has(d, "install_attempt_failed") => ~Has(d, "install_serving_view") /\ ~d.served

ViewIsValid(d) ==
  /\ Has(d, "install_serving_view") => ~d.priorIntact
  /\ d.outcome \in {"retry_compact", "continue_current_body"} /\ ~Has(d, "install_serving_view") => d.priorIntact

ContinuationIsValid(d) ==
  /\ d.applied => d.turnEnd /\ d.opened
  /\ d.served => Has(d, "insert_continuation_marker")
  /\ d.opened => ~d.sameTurn
  /\ d.outcome = "compact_continue_turn" => d.turnEnd /\ Has(d, "insert_continuation_marker")

SeamIsValid(d) ==
  IF d.outcome = "skip_seam" THEN ~d.nextAllowed ELSE ~d.nextAllowed => d.host = "awaiting"

PathIsValid(d) ==
  /\ "compacting" \in ToSet(d.path) => {"path_preserve_tool", "path_continue_turn"} \cap ToSet(d.path) # {}
  /\ "below_trigger" \in ToSet(d.path) => d.base

DecisionIsValid(d) ==
  /\ ResidualIsValid(d) /\ RetryIsValid(d) /\ EffectsAreValid(d) /\ ViewIsValid(d)
  /\ ContinuationIsValid(d) /\ SeamIsValid(d) /\ PathIsValid(d)
=============================================================================
