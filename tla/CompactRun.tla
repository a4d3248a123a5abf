----------------------------- MODULE CompactRun -----------------------------
(***************************************************************************)
(* runCompactContinuation: a compaction in the middle of a turn.  A call   *)
(* claims the thread's one compaction writer, ends the open turn so that a *)
(* continuation turn opens behind it, prepares a view, records a marker on *)
(* the continuation turn, installs the view and stores a receipt.  Each of *)
(* these is a transaction of its own, a process may stop or a write fail   *)
(* between any two, and what a call left is taken up by a later call with  *)
(* the same attempt id.  One thread; a caller is a process of the host.    *)
(***************************************************************************)
EXTENDS CompactDecision, FiniteSets

CONSTANTS
  Callers,     \* processes that may call
  Attempts,    \* attempt ids the host hands out
  NoAttempt,
  Kinds,       \* continuation kinds the host reports
  Budget,      \* policy.compactRetryBudget
  MaxTurns,    \* bound: turns of the thread
  MaxCalls,    \* bound: calls made
  MaxFaults    \* bound: crashes and failed writes

ASSUME CompactRunAssumption ==
  /\ NoAttempt \notin Attempts
  /\ Kinds \subseteq {"none", "active_non_tool", "pending_tool"}
  /\ Budget \in Nat \ {0}
  /\ MaxTurns \in Nat \ {0}

VARIABLES
  turns,       \* the thread's turns, the last one open: members, pair (a settled tool call), by (who forced it)
  keys,        \* attempts whose turn_end event is recorded
  markers,     \* turns whose continuation marker is recorded
  served,      \* attempts whose view was installed
  writer,      \* compact_continuation_writer: the attempt that holds the claim
  identity,    \* compact_continuation_attempt: the operation each attempt id stands for
  force,       \* compact_continuation_force_intent
  boundary,    \* compact_continuation_boundary, by continuation turn
  failures,    \* compact_failed and install_failed rows of the stage log
  hostval,     \* compact_continuation_host_validation
  receipt,     \* compact_continuation_receipt
  call,        \* what each caller is doing
  overlapped,  \* history: attempts that two calls ran for at one time
  calls, faults

thread == <<turns, keys, markers, served>>
rows == <<identity, force, boundary, failures, hostval, receipt>>
vars == <<thread, writer, rows, call, overlapped, calls, faults>>

\* What a host reports; an unsettled seam is not looked at any further.
Facts ==
  {f \in [kind : Kinds, settled : BOOLEAN, pressure : {"below", "above"}, claim : {"none", "native"}] :
     (~f.settled \/ f.pressure = "below") => f.claim = "none" /\ (f.settled \/ f.pressure = "above")}

NoMaterial == [prepared |-> FALSE, valid |-> FALSE, useful |-> FALSE, full |-> FALSE]

\* What prepareCompact and the candidate assembled from it may come to.
Materials ==
  {NoMaterial, [NoMaterial EXCEPT !.prepared = TRUE]}
    \cup {m \in [prepared : {TRUE}, valid : {TRUE}, useful : BOOLEAN, full : BOOLEAN] : m.useful \/ m.full}

NoBoundary == [owner |-> NoAttempt, status |-> "none", marker |-> FALSE]
NoReceipt == [stored |-> FALSE, terminal |-> FALSE, released |-> TRUE, outcome |-> "none", retry |-> FALSE,
              nextAllowed |-> TRUE]
NoPlan == [status |-> "none", marker |-> FALSE, turn |-> NoTurn, release |-> FALSE, terminal |-> FALSE]
Resting == [pc |-> "idle", attempt |-> NoAttempt,
            facts |-> [kind |-> "none", settled |-> FALSE, pressure |-> "below", claim |-> "none"],
            pending |-> NotApplied, force |-> "none", owns |-> FALSE, reclaimed |-> FALSE, needs |-> "none",
            escalated |-> FALSE, forced |-> NotApplied, material |-> NoMaterial, installed |-> FALSE,
            index |-> 1, decision |-> NoReceipt, plan |-> NoPlan]

CompactInit ==
  /\ turns = <<[members |-> TRUE, pair |-> "pending_tool" \in Kinds, by |-> NoAttempt]>>
  /\ keys = {} /\ markers = {} /\ served = {}
  /\ writer = NoAttempt
  /\ identity = [a \in Attempts |-> "unregistered"]
  /\ force = [a \in Attempts |-> "none"]
  /\ boundary = [t \in 1..MaxTurns |-> NoBoundary]
  /\ failures = [a \in Attempts |-> 0]
  /\ hostval = [a \in Attempts |-> "none"]
  /\ receipt = [a \in Attempts |-> NoReceipt]
  /\ call = [c \in Callers |-> Resting]
  /\ overlapped = {} /\ calls = 0 /\ faults = 0

-----------------------------------------------------------------------------
(* The durable rows *)

Unresolved == {t \in 1..MaxTurns : boundary[t].status \in {"pending", "failed_repairable"}}

\* readPendingBoundary and pendingBoundaryAsForced
PendingBoundary ==
  IF Unresolved = {} THEN NotApplied
  ELSE LET t == CHOOSE t \in Unresolved : TRUE IN Applied(t, FALSE, boundary[t].marker)

\* findContinuationTurnFromForceKey
ForcedTurn(a) ==
  LET opened == {t \in DOMAIN turns : turns[t].by = a}
  IN IF opened = {} THEN NoTurn ELSE CHOOSE t \in opened : TRUE

\* upsertBoundary writes its owner's row only; the unique index admits one unresolved row.
Writable(t, a, status) ==
  /\ boundary[t].owner \in {NoAttempt, a}
  /\ status # "complete" => Unresolved \subseteq {t}

Upserted(t, a, status, marker) ==
  [boundary EXCEPT ![t] = [owner |-> a, status |-> status, marker |-> marker]]

\* Faulty variant: a claim that is held is taken over.
ClaimableAlways(a) == TRUE

\* claimLhcWriter
Claimable(a) == writer \in {NoAttempt, a}

\* releaseLhcWriter, and the releases that look at the claim first
Released(a) == IF writer = a THEN NoAttempt ELSE writer

\* proveProtectedToolPairSet: the call and its result are on the open turn.
PairProven == turns[Len(turns)].pair

-----------------------------------------------------------------------------
(* The call *)

At(c, pc) == call[c].pc = pc
Goes(c, to) == call' = [call EXCEPT ![c] = to]
To(c, pc) == Goes(c, [call[c] EXCEPT !.pc = pc])
Returns(c) == Goes(c, Resting)

Starts(c) == \E a \in Attempts, f \in Facts :
  /\ At(c, "idle") /\ calls < MaxCalls
  /\ Goes(c, [Resting EXCEPT !.pc = "enter", !.attempt = a, !.facts = f])
  /\ overlapped' = IF \E d \in Callers : call[d].attempt = a THEN overlapped \cup {a} ELSE overlapped
  /\ calls' = calls + 1
  /\ UNCHANGED <<thread, writer, rows, faults>>

\* A terminal receipt is answered again; a claim its attempt still holds is released.
Replays(c) ==
  /\ At(c, "enter") /\ receipt[call[c].attempt].terminal
  /\ writer' = IF identity[call[c].attempt] = call[c].facts.kind THEN Released(call[c].attempt) ELSE writer
  /\ Returns(c)
  /\ UNCHANGED <<thread, rows, overlapped, calls, faults>>

\* No terminal receipt: the durable rows are read once, in a later transaction.
Enters(c) ==
  /\ At(c, "enter") /\ ~receipt[call[c].attempt].terminal
  /\ To(c, "read")
  /\ UNCHANGED <<thread, writer, rows, overlapped, calls, faults>>

\* A boundary of another attempt ends the call before it changed anything.
ReadsState(c) ==
  /\ At(c, "read")
  /\ LET a == call[c].attempt IN
     IF \E t \in Unresolved : boundary[t].owner # a THEN Returns(c)
     ELSE Goes(c, [call[c] EXCEPT !.pc = "register", !.pending = PendingBoundary, !.force = force[a],
                                  !.owns = writer = a])
  /\ UNCHANGED <<thread, writer, rows, overlapped, calls, faults>>

\* insertAttemptIntent; the posture is a log row
Registers(c) ==
  /\ At(c, "register")
  /\ LET a == call[c].attempt  kind == call[c].facts.kind IN
     /\ identity' = [identity EXCEPT ![a] = IF @ = "unregistered" THEN kind ELSE @]
     /\ IF identity[a] \notin {"unregistered", kind} THEN Returns(c)
        ELSE To(c, IF call[c].force = "intent" /\ ~call[c].pending.applied THEN "reconcile" ELSE "classify")
  /\ UNCHANGED <<thread, writer, force, boundary, failures, hostval, receipt, overlapped, calls, faults>>

\* The turn was forced and the boundary row never written.
Reconciles(c) ==
  /\ At(c, "reconcile")
  /\ LET a == call[c].attempt  t == ForcedTurn(a) IN
     IF t = NoTurn
     THEN To(c, "classify") /\ UNCHANGED <<boundary, force>>
     ELSE IF ~Writable(t, a, "pending")
     THEN Returns(c) /\ UNCHANGED <<boundary, force>>
     ELSE /\ boundary' = Upserted(t, a, "pending", t \in markers)
          /\ force' = [force EXCEPT ![a] = "reconciled"]
          /\ Goes(c, [call[c] EXCEPT !.pc = "classify", !.pending = Applied(t, FALSE, t \in markers)])
  /\ UNCHANGED <<thread, writer, identity, failures, hostval, receipt, overlapped, calls, faults>>

\* buildOracleInput
OracleInput(r, kindProven, b, w, authority, host) ==
  [versionOk |-> TRUE, seam |-> IF r.facts.settled THEN "settled" ELSE "unsettled", kind |-> r.facts.kind,
   correlated |-> kindProven, ids |-> TRUE, boundary |-> b, writer |-> w, authority |-> authority,
   proven |-> TRUE, pressure |-> r.facts.pressure, valid |-> r.material.valid, useful |-> r.material.useful,
   safe |-> TRUE, full |-> r.material.full, escalated |-> r.escalated, install |-> r.installed, host |-> host,
   advance |-> r.escalated, attempt |-> r.index, budget |-> Budget]

Summary(d) ==
  [stored |-> TRUE, terminal |-> FALSE, released |-> d.released, outcome |-> d.outcome, retry |-> d.retry,
   nextAllowed |-> d.nextAllowed]

\* A call that decides before it claims: only the receipt and its own claim are touched.
Settles(c, d, release, terminal) ==
  Goes(c, [call[c] EXCEPT !.pc = "finalize", !.decision = Summary(d),
                          !.plan = [NoPlan EXCEPT !.release = release, !.terminal = terminal]])

\* The owner of a claim is asked for; a check that throws counts as a live owner.
Classifies(c) == \E alive \in BOOLEAN :
  /\ At(c, "classify")
  /\ LET r == call[c]
         owned == IF r.owns THEN "lhc" ELSE "none"
         open == ~r.pending.applied
         native == r.facts.claim # "none"
         tool == r.facts.kind = "pending_tool"
         proven == tool => PairProven
         need == IF r.pending.applied \/ (r.facts.pressure = "above" /\ r.facts.kind = "active_non_tool")
                 THEN "continue"
                 ELSE IF r.facts.pressure = "above" /\ tool THEN "preserve" ELSE "none"
         decided(b, w, authority) == Decide(OracleInput(r, proven, b, w, authority, "not_required"))
     IN /\ native \/ ~alive
        /\ IF ~r.facts.settled THEN Settles(c, decided(r.pending, owned, "unknown"), r.owns, open)
           ELSE IF native /\ alive
           THEN Settles(c, decided(r.pending, "native", "live_owner"), r.owns, open)
           ELSE IF r.pending.applied /\ r.facts.kind = "none"
           THEN Settles(c, decided(r.pending, owned, "unknown"), r.owns, open)
           ELSE IF ~proven THEN Settles(c, decided(r.pending, owned, "unknown"), r.owns /\ open, open)
           ELSE IF need = "none" THEN Settles(c, decided(NotApplied, owned, "unknown"), r.owns /\ open, open)
           ELSE Goes(c, [r EXCEPT !.pc = "claim", !.needs = need, !.reclaimed = native])
  /\ UNCHANGED <<thread, writer, rows, overlapped, calls, faults>>

\* A pair kept on the open turn must leave a small enough request, or the turn is ended too.
Claims(c) == \E escalate \in BOOLEAN :
  /\ At(c, "claim")
  /\ LET r == [call[c] EXCEPT !.owns = FALSE, !.force = "none"] IN
     /\ escalate => r.needs = "preserve"
     /\ IF ~Claimable(r.attempt) THEN Returns(c) /\ UNCHANGED writer
        ELSE /\ writer' = r.attempt
             /\ Goes(c, [r EXCEPT !.forced = r.pending, !.index = failures[r.attempt] + 1,
                                  !.needs = IF escalate THEN "continue" ELSE @, !.escalated = escalate,
                                  !.pc = IF r.pending.applied \/ (r.needs = "preserve" /\ ~escalate)
                                         THEN "prepare" ELSE "open"])
  /\ UNCHANGED <<thread, rows, overlapped, calls, faults>>

\* The open turn needs members to be ended; a turn this attempt ended before is adopted.
ChecksTurn(c) ==
  /\ At(c, "open")
  /\ LET r == call[c] IN
     IF ~turns[Len(turns)].members
     THEN Settles(c, Decide(OracleInput(r, TRUE, NotApplied, "lhc", "unknown", "not_required")), TRUE, TRUE)
     ELSE To(c, IF ForcedTurn(r.attempt) = NoTurn THEN "intend" ELSE "adopt")
  /\ UNCHANGED <<thread, writer, rows, overlapped, calls, faults>>

Abandons(c) == To(c, "release")

\* The boundary becomes this call's, as force_turn_end's row.
TakesBoundary(c, t, marker, forcedNow) ==
  LET a == call[c].attempt IN
  IF ~Writable(t, a, "pending") \/ force[a] = "none"
  THEN Abandons(c) /\ UNCHANGED <<boundary, force>>
  ELSE /\ boundary' = Upserted(t, a, "pending", marker)
       /\ force' = [force EXCEPT ![a] = "reconciled"]
       /\ Goes(c, [call[c] EXCEPT !.pc = "prepare", !.forced = Applied(t, forcedNow, marker)])

Adopts(c) ==
  /\ At(c, "adopt")
  /\ TakesBoundary(c, ForcedTurn(call[c].attempt), ForcedTurn(call[c].attempt) \in markers, FALSE)
  /\ UNCHANGED <<thread, writer, identity, failures, hostval, receipt, overlapped, calls, faults>>

\* recordForceIntent
Intends(c) ==
  /\ At(c, "intend")
  /\ force' = [force EXCEPT ![call[c].attempt] = IF @ = "reconciled" THEN @ ELSE "intent"]
  /\ To(c, "force")
  /\ UNCHANGED <<thread, writer, identity, boundary, failures, hostval, receipt, overlapped, calls, faults>>

\* The turn_end event: recorded once for its key; on a turn without members it opens nothing.
EndsTurn(c) ==
  /\ At(c, "force")
  /\ LET a == call[c].attempt
         opens == a \notin keys /\ turns[Len(turns)].members
     IN /\ opens => Len(turns) < MaxTurns
        /\ keys' = keys \cup {a}
        /\ turns' = IF opens THEN Append(turns, [members |-> FALSE, pair |-> FALSE, by |-> a]) ELSE turns
        /\ IF opens \/ ForcedTurn(a) # NoTurn THEN To(c, "bind") ELSE Abandons(c)
  /\ UNCHANGED <<markers, served, writer, rows, overlapped, calls, faults>>

Binds(c) ==
  /\ At(c, "bind")
  /\ TakesBoundary(c, ForcedTurn(call[c].attempt), FALSE, TRUE)
  /\ UNCHANGED <<thread, writer, identity, failures, hostval, receipt, overlapped, calls, faults>>

\* prepareCompact, the candidate and the pending tool pair's prune preview
Prepares(c) == \E m \in Materials :
  /\ At(c, "prepare")
  /\ Goes(c, [call[c] EXCEPT !.material = m, !.escalated = @ \/ (m.prepared /\ call[c].needs = "continue"
                                                                 /\ call[c].facts.kind = "pending_tool"),
                             !.pc = IF ~m.valid THEN "decide"
                                    ELSE IF call[c].needs = "continue" THEN "mark" ELSE "install"])
  /\ UNCHANGED <<thread, writer, rows, overlapped, calls, faults>>

\* The marker message, recorded once for its key.
Marks(c) ==
  /\ At(c, "mark")
  /\ markers' = markers \cup {call[c].forced.turn}
  /\ turns' = IF call[c].forced.turn \in markers THEN turns
              ELSE [turns EXCEPT ![Len(turns)].members = TRUE]
  /\ To(c, "note")
  /\ UNCHANGED <<keys, served, writer, rows, overlapped, calls, faults>>

\* The boundary row says so; the candidate is assembled again from the prepared view.
NotesMarker(c) == \E valid \in BOOLEAN :
  /\ At(c, "note")
  /\ LET r == call[c]  t == r.forced.turn IN
     IF ~Writable(t, r.attempt, "pending") THEN Abandons(c) /\ UNCHANGED boundary
     ELSE /\ boundary' = Upserted(t, r.attempt, "pending", TRUE)
          /\ Goes(c, [r EXCEPT !.material.valid = valid, !.pc = IF valid THEN "install" ELSE "decide"])
  /\ UNCHANGED <<thread, writer, identity, force, failures, hostval, receipt, overlapped, calls, faults>>

\* installPreparedCompact
Installs(c) == \E ok \in BOOLEAN :
  /\ At(c, "install")
  /\ served' = IF ok THEN served \cup {call[c].attempt} ELSE served
  /\ Goes(c, [call[c] EXCEPT !.installed = ok, !.pc = IF ok /\ call[c].escalated THEN "await" ELSE "decide"])
  /\ UNCHANGED <<turns, keys, markers, writer, rows, overlapped, calls, faults>>

\* A view installed in place of a protected pair waits for the host's word.
Awaits(c) ==
  /\ At(c, "await")
  /\ LET a == call[c].attempt IN
     IF hostval[a] \in {"ok", "failed"} THEN Abandons(c) /\ UNCHANGED hostval
     ELSE hostval' = [hostval EXCEPT ![a] = "awaiting"] /\ To(c, "decide")
  /\ UNCHANGED <<thread, writer, identity, force, boundary, failures, receipt, overlapped, calls, faults>>

Succeeded(d) ==
  d.outcome \in {"compact_continue_turn", "degraded_compact", "no_reduction", "compact_preserve_tool_escalated"}

\* compactPathInvariants and the last oracle input: the marker is read again.
Outcome(r) ==
  LET f == r.forced
      final == IF r.needs = "continue" /\ f.applied
               THEN Applied(f.turn, f.forcedThisSeam, ~f.forcedThisSeam /\ f.turn \in markers) ELSE NotApplied
      host == IF r.escalated THEN "awaiting" ELSE "not_required"
  IN IF r.reclaimed THEN Decide(OracleInput(r, TRUE, final, "native", "no_live_owner", host))
     ELSE Decide(OracleInput(r, TRUE, final, "lhc", "unknown", host))

Planned(r, status, terminal) ==
  [status |-> status, marker |-> status = "complete" \/ r.forced.turn \in markers, turn |-> r.forced.turn,
   release |-> TRUE, terminal |-> terminal]

Unbounded(r) == ~(r.needs = "continue" /\ r.forced.applied)

\* Faulty variant: the boundary row stays when the budget is used up.
PlanKeepsRow(r, d) ==
  IF Unbounded(r) THEN [NoPlan EXCEPT !.release = TRUE, !.terminal = TRUE]
  ELSE IF Succeeded(d) /\ r.installed THEN Planned(r, "complete", TRUE)
  ELSE Planned(r, "failed_repairable", ~d.retry)

\* Faulty variant: a last try completes the boundary whether or not it installed.
PlanCompletes(r, d) ==
  IF Unbounded(r) THEN [NoPlan EXCEPT !.release = TRUE, !.terminal = TRUE]
  ELSE IF ~d.retry THEN Planned(r, "complete", TRUE)
  ELSE Planned(r, "failed_repairable", FALSE)

\* What the receipt's transaction does to the boundary: complete it, keep it for a
\* repair by the same attempt, or give it up when the budget is used up.
PlanFor(r, d) ==
  IF Unbounded(r) THEN [NoPlan EXCEPT !.release = TRUE, !.terminal = TRUE]
  ELSE IF Succeeded(d) /\ r.installed THEN Planned(r, "complete", TRUE)
  ELSE IF d.retry THEN Planned(r, "failed_repairable", FALSE)
  ELSE Planned(r, "discarded", TRUE)

\* A failure is logged, and so counted, before the receipt is written.
Decides(c) ==
  /\ At(c, "decide")
  /\ LET r == call[c]  d == Outcome(r)  plan == PlanFor(r, d) IN
     /\ failures' = IF plan.status \in {"failed_repairable", "discarded"}
                    THEN [failures EXCEPT ![r.attempt] = @ + 1] ELSE failures
     /\ Goes(c, [r EXCEPT !.pc = "finalize", !.decision = Summary(d), !.plan = plan])
  /\ UNCHANGED <<thread, writer, identity, force, boundary, hostval, receipt, overlapped, calls, faults>>

\* A receipt is not terminal while its attempt keeps the claim.
IsTerminal(a, plan) == plan.terminal /\ (plan.release \/ writer # a)

\* finalizeAttempt: receipt, boundary and claim in one transaction that throws as a whole.
Finalizes(c) ==
  /\ At(c, "finalize")
  /\ LET r == call[c]  a == r.attempt  p == r.plan
         throws == \/ p.release /\ ~Claimable(a)
                   \/ p.status \in {"complete", "failed_repairable"} /\ ~Writable(p.turn, a, p.status)
                   \/ p.status = "discarded" /\ boundary[p.turn].owner \notin {NoAttempt, a}
     IN IF receipt[a].terminal \/ throws THEN UNCHANGED <<receipt, boundary, writer>>
        ELSE /\ receipt' = [receipt EXCEPT ![a] = [r.decision EXCEPT !.terminal = IsTerminal(a, p),
                                                                     !.released = p.release \/ writer # a]]
             /\ boundary' = CASE p.status = "none" -> boundary
                              [] p.status = "discarded" -> [boundary EXCEPT ![p.turn] = NoBoundary]
                              [] OTHER -> Upserted(p.turn, a, p.status, p.marker)
             /\ writer' = IF p.release THEN Released(a) ELSE writer
  /\ Returns(c)
  /\ UNCHANGED <<thread, identity, force, failures, hostval, overlapped, calls, faults>>

\* releaseOwnWriterIfHeld, on every way out after the claim but the receipt's
Releases(c) ==
  /\ At(c, "release")
  /\ writer' = Released(call[c].attempt)
  /\ Returns(c)
  /\ UNCHANGED <<thread, rows, overlapped, calls, faults>>

-----------------------------------------------------------------------------
(* Failures and the host *)

Claimed == {"open", "adopt", "intend", "force", "bind", "prepare", "mark", "note", "install", "await",
            "decide"}

\* A read or a write fails: nothing of it is recorded, and a call that claimed gives the claim back.
Fails(c) ==
  /\ call[c].pc \in Claimed /\ faults < MaxFaults
  /\ Abandons(c)
  /\ faults' = faults + 1
  /\ UNCHANGED <<thread, writer, rows, overlapped, calls>>

\* The process stops, or a write fails where the call returns without giving the claim back.
Crashes(c) ==
  /\ ~At(c, "idle") /\ faults < MaxFaults
  /\ Returns(c)
  /\ faults' = faults + 1
  /\ UNCHANGED <<thread, writer, rows, overlapped, calls>>

\* The agent works on: a message, or a tool call with its result, on the open turn.
Works == \E pair \in BOOLEAN :
  /\ pair => "pending_tool" \in Kinds
  /\ LET last == turns[Len(turns)]
         next == [last EXCEPT !.members = TRUE, !.pair = @ \/ pair]
     IN next # last /\ turns' = [turns EXCEPT ![Len(turns)] = next]
  /\ UNCHANGED <<keys, markers, served, writer, rows, call, overlapped, calls, faults>>

\* A user prompt closes a turn with members and opens the next.
Prompts ==
  /\ turns[Len(turns)].members /\ Len(turns) < MaxTurns
  /\ turns' = Append(turns, [members |-> TRUE, pair |-> FALSE, by |-> NoAttempt])
  /\ UNCHANGED <<keys, markers, served, writer, rows, call, overlapped, calls, faults>>

\* recordCompactContinuationHostValidation: a second word may only repeat the first.
Validates(a) == \E result \in {"ok", "failed"} :
  /\ receipt[a].stored /\ ~receipt[a].nextAllowed
  /\ hostval[a] \notin {"ok", "failed"}
  /\ hostval' = [hostval EXCEPT ![a] = result]
  /\ UNCHANGED <<thread, writer, identity, force, boundary, failures, receipt, call, overlapped, calls, faults>>

CompactNext ==
  \/ \E c \in Callers :
       \/ Starts(c) \/ Replays(c) \/ Enters(c) \/ ReadsState(c) \/ Registers(c) \/ Reconciles(c)
       \/ Classifies(c) \/ Claims(c) \/ ChecksTurn(c) \/ Adopts(c) \/ Intends(c)
       \/ EndsTurn(c) \/ Binds(c) \/ Prepares(c) \/ Marks(c) \/ NotesMarker(c) \/ Installs(c)
       \/ Awaits(c) \/ Decides(c) \/ Finalizes(c) \/ Releases(c) \/ Fails(c) \/ Crashes(c)
  \/ Works \/ Prompts
  \/ \E a \in Attempts : Validates(a)

CompactSpec == CompactInit /\ [][CompactNext]_vars

-----------------------------------------------------------------------------
(* Properties *)

CompactTypeOK ==
  /\ turns \in Seq([members : BOOLEAN, pair : BOOLEAN, by : Attempts \cup {NoAttempt}])
  /\ Len(turns) \in 1..MaxTurns
  /\ keys \subseteq Attempts /\ served \subseteq Attempts /\ overlapped \subseteq Attempts
  /\ markers \subseteq 1..MaxTurns
  /\ writer \in Attempts \cup {NoAttempt}
  /\ force \in [Attempts -> {"none", "intent", "reconciled"}]
  /\ failures \in [Attempts -> Nat]

\* A terminal receipt is answered again for ever, so whatever its attempt still
\* held would never be taken up: it leaves no claim and no unresolved boundary
\* behind, unless two calls with its id ran at one time.
TerminalIsSettled ==
  \A a \in Attempts \ overlapped :
    receipt[a].terminal =>
      /\ writer # a
      /\ \A t \in Unresolved : boundary[t].owner # a

\* A continuation turn is complete only when its marker is recorded and its
\* attempt's view was installed, through every crash and repair in between.
CompleteIsServed ==
  \A t \in 1..MaxTurns :
    boundary[t].status = "complete" => t \in markers /\ boundary[t].owner \in served

\* Of two attempts at most one is past the claim: no two of them end turns or
\* install views at one time, unless calls with one id overlapped and the first
\* to finish gave the claim away.
SectionIsExclusive ==
  \A c, d \in Callers :
    /\ call[c].pc \in Claimed /\ call[d].pc \in Claimed
    /\ call[c].attempt \notin overlapped /\ call[d].attempt \notin overlapped
    => call[c].attempt = call[d].attempt

\* An owner is never turned away: the receipt of an attempt whose boundary is
\* unresolved does not send the host to an ordinary compaction
\* (README.md of compact-continuation: "same attempt must be able to repair").
OwnerCanRepair ==
  \A t \in Unresolved : receipt[boundary[t].owner].outcome # "decline_to_ordinary_compact"

\* A receipt that asks for another try of the compaction can be tried again:
\* it is not terminal (README.md of compact-continuation, "Write terminal only for").
RetryIsNotTerminal == \A a \in Attempts : receipt[a].retry => ~receipt[a].terminal
=============================================================================
