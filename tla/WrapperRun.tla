------------------------------ MODULE WrapperRun ------------------------------
(***************************************************************************)
(* One cc-lhc wrapper of a Claude child (cc-lhc/src/wrapper/run.ts and      *)
(* handoff.ts): the routed child, the capture of its transcript, the        *)
(* retrieval descriptor, the automatic compaction a settled turn asks for,  *)
(* and the handoff that replaces the child by one that runs the rebuilt     *)
(* session.  The wrapper is one thread: an action runs to the next await,   *)
(* and what the rest of the world does comes between.  A child is gone when *)
(* its exit callback has run.                                               *)
(***************************************************************************)
EXTENDS Naturals

CONSTANTS MaxSessions,      \* bound: sessions, the first one and the rebuilt ones
          MaxSeams,         \* bound: settled turns of a session that ask for a compaction
          MaxLaunches,      \* bound: wrappers started one after another
          StoreFails,       \* whether the receipt store may fail
          Attempts,         \* replacementAttempts
          NonviableLimit    \* nonviableSwapLimit

ASSUME WrapperAssumption ==
  /\ {MaxSessions, MaxSeams, MaxLaunches, Attempts, NonviableLimit} \subseteq Nat \ {0}
  /\ StoreFails \in BOOLEAN

VARIABLES
  child,      \* the routed child: its session, and whether its exit was seen
  cand,       \* the replacement that is not routed yet
  old,        \* the child routed before: none, live, gone, or told (its exit was seen)
  report,     \* what the last old-child cleanup said of it
  ended,      \* no, tearing (exited is set) or over (the process is gone)
  handoff,    \* handoffInProgress
  holder,     \* who holds the command guard: nobody, auto or manual
  op,         \* the operation under the guard
  flight,     \* autoOperationScheduled: the seam and whether its receipt is stored
  swaps,      \* nonviableSwaps
  alarm,      \* standingNonviabilityAlarm is set
  cap,        \* captureSession, or captureContinuation when phase is none
  drains,     \* a replaced capture is still stopping
  rebuild,    \* the capture rebuild in flight
  slipped,    \* a forced rebuild landed over the capture of a later handoff
  desc,       \* the runtime descriptor: its state and the session it names
  receipts,   \* handoffOutcome of the stored governor receipts
  mutated,    \* how often a seam's operation began to mutate, counted up to 2
  lost,       \* seams whose outcome never reached the store
  carryThrew, \* invokeCarryover threw in a handoff
  sessions,   \* sessions made so far
  launches

kidVars == <<child, cand, old, report>>
opVars == <<handoff, holder, op>>
swapVars == <<swaps, alarm>>
capVars == <<cap, drains, rebuild, slipped>>
seamVars == <<flight, receipts, mutated, lost>>
runVars == <<kidVars, opVars, swapVars, capVars, seamVars, ended, desc, carryThrew,
             sessions, launches>>

Seams == (1..MaxSessions) \X (1..MaxSeams)
Kid(s) == [sess |-> s, told |-> FALSE]
NoKid == Kid(0)
NoSeam == <<0, 0>>
NoFlight == [seam |-> NoSeam, kept |-> FALSE]
Idle == [pc |-> "idle", tries |-> 0, from |-> 0]
Capture(s) == [sess |-> s, phase |-> "binding", tried |-> FALSE]
NoRebuild == [at |-> "none", sess |-> 0, forced |-> FALSE, overtaken |-> FALSE]
Descriptor(state) == [st |-> state, sess |-> 0]
Running == ended # "over"

Places_of_op == {"idle", "refusing", "mutating", "spawn", "watch", "discard", "switch", "old",
                 "capture", "settle", "failed", "s_spawn", "s_watch", "s_discard", "s_switch",
                 "s_kill"}

RunTypeOK ==
  /\ {child, cand} \subseteq [sess : 0..MaxSessions, told : BOOLEAN]
  /\ old \in {"none", "live", "gone", "told"}
  /\ report \in {"none", "retained", "terminated", "surviving_orphan", "unknown"}
  /\ ended \in {"no", "tearing", "over"}
  /\ holder \in {"nobody", "auto", "manual"}
  /\ op \in [pc : Places_of_op, tries : 0..Attempts, from : 0..MaxSessions]
  /\ flight \in [seam : Seams \cup {NoSeam}, kept : BOOLEAN]
  /\ swaps \in 0..NonviableLimit
  /\ cap \in [sess : 1..MaxSessions, tried : BOOLEAN,
              phase : {"none", "binding", "ready", "degraded", "closed"}]
  /\ rebuild \in [at : {"none", "due", "stopping"}, sess : 0..MaxSessions, forced : BOOLEAN,
                  overtaken : BOOLEAN]
  /\ desc \in [st : {"none", "opening", "ready", "degraded"}, sess : 0..MaxSessions]
  /\ receipts \in [Seams -> {"none", "scheduled", "deferred", "terminal"}]
  /\ mutated \in [Seams -> 0..2]
  /\ lost \subseteq Seams
  /\ {handoff, alarm, drains, slipped, carryThrew} \subseteq BOOLEAN
  /\ sessions \in 1..MaxSessions /\ launches \in 1..MaxLaunches

\* A wrapper that has just launched its child on session s.
Launched(s) ==
  /\ child' = Kid(s) /\ cand' = NoKid /\ old' = "none" /\ report' = "none"
  /\ handoff' = FALSE /\ holder' = "nobody" /\ op' = Idle
  /\ flight' = NoFlight /\ swaps' = 0 /\ alarm' = FALSE
  /\ cap' = Capture(s) /\ drains' = FALSE /\ rebuild' = NoRebuild /\ slipped' = FALSE
  /\ desc' = Descriptor("opening") /\ carryThrew' = FALSE

RunInit ==
  /\ child = Kid(1) /\ cand = NoKid /\ old = "none" /\ report = "none"
  /\ ended = "no" /\ handoff = FALSE /\ holder = "nobody" /\ op = Idle
  /\ flight = NoFlight /\ swaps = 0 /\ alarm = FALSE
  /\ cap = Capture(1) /\ drains = FALSE /\ rebuild = NoRebuild /\ slipped = FALSE
  /\ desc \in {Descriptor("opening"), Descriptor("none")} /\ carryThrew = FALSE
  /\ receipts = [r \in Seams |-> "none"] /\ mutated = [r \in Seams |-> 0] /\ lost = {}
  /\ sessions = 1 /\ launches = 1

--------------------------------------------------------------------------
\* Teardown, crash and the next launch.

\* teardownAndExit up to its first await: exited is set and the descriptor revoked; a
\* revocation that cannot be proved ends the process at once.
Leaves ==
  /\ desc' = Descriptor("none")
  /\ ended' \in {"tearing"} \cup {e \in {"over"} : desc.st # "none"}

\* handleChildExit of the routed child.
RoutedExits ==
  /\ Running /\ ~child.told
  /\ child' = [child EXCEPT !.told = TRUE]
  /\ \/ /\ handoff \/ ended # "no"
        /\ UNCHANGED <<ended, desc>>
     \/ ~handoff /\ ended = "no" /\ Leaves
  /\ UNCHANGED <<cand, old, report, opVars, swapVars, capVars, seamVars, carryThrew, sessions,
                 launches>>

\* The last await of the teardown, a signal or a power cut: the memory is gone with the
\* process, and only the receipts are in a database.
ProcessEnds ==
  /\ Running
  /\ ended' = "over"
  /\ Launched(1)
  /\ lost' = lost \cup {r \in Seams : receipts[r] = "deferred" /\ mutated[r] > 0}
  /\ UNCHANGED <<receipts, mutated, sessions, launches>>

\* The thread's next wrapper resumes one of its sessions.
Relaunch ==
  /\ ended = "over" /\ launches < MaxLaunches
  /\ launches' = launches + 1
  /\ ended' = "no"
  /\ \E s \in 1..sessions : Launched(s)
  /\ lost' = lost \cup {r \in Seams : receipts[r] = "deferred" /\ mutated[r] > 0}
  /\ UNCHANGED <<receipts, mutated, sessions>>

--------------------------------------------------------------------------
\* Capture, its rebuild and the descriptor.

\* publishDescriptorFromCapture, from descriptor d and capture c: what may be held after it.
Published(d, c) ==
  IF d.st = "opening" /\ c.phase = "ready" THEN {d, [st |-> "ready", sess |-> c.sess]}
  ELSE IF d.st \in {"opening", "ready"} /\ c.phase = "degraded" THEN {d, Descriptor("degraded")}
  ELSE {d}

\* A capture becomes ready when it has read the transcript; not once it is being stopped.
CaptureReady ==
  /\ Running /\ cap.phase = "binding"
  /\ rebuild.at # "stopping" \/ rebuild.overtaken
  /\ cap' = [cap EXCEPT !.phase = "ready"]
  /\ desc' \in Published(desc, cap')
  /\ UNCHANGED <<kidVars, opVars, swapVars, drains, rebuild, slipped, seamVars, ended,
                 carryThrew, sessions, launches>>

\* capture_degraded in onCaptureLifecycle: the capability is revoked, and a revocation that
\* cannot be proved kills the child and the wrapper (triggerFatalRevocation).
RevokedByDegrade ==
  IF desc.st \in {"opening", "ready"}
  THEN /\ desc' \in {Descriptor("none"), Descriptor("degraded")}
       /\ ended' \in {ended} \cup {e \in {"over"} : desc'.st = "none"}
  ELSE UNCHANGED <<desc, ended>>

CaptureDegrades ==
  /\ Running /\ cap.phase \in {"binding", "ready"}
  /\ cap' = [cap EXCEPT !.phase = "degraded"]
  /\ RevokedByDegrade
  /\ UNCHANGED <<kidVars, opVars, swapVars, drains, rebuild, slipped, seamVars, carryThrew,
                 sessions, launches>>

\* A capture that was replaced still reports to the same sink until it has stopped.
DrainingDegrades ==
  /\ Running /\ drains
  /\ drains' = FALSE
  /\ RevokedByDegrade
  /\ UNCHANGED <<kidVars, opVars, swapVars, cap, rebuild, slipped, seamVars, carryThrew,
                 sessions, launches>>

\* Mutant: a rebuild also starts under a handoff or a command.
RebuildAnyTime(force) ==
  IF rebuild.at # "none" \/ (~force /\ cap.tried)
  THEN UNCHANGED <<cap, rebuild>>
  ELSE /\ cap' = [cap EXCEPT !.tried = TRUE]
       /\ rebuild' = [NoRebuild EXCEPT !.at = "due", !.sess = cap.sess, !.forced = force]

\* rebuildCaptureFromTranscript up to its setImmediate.
RebuildDue(force) ==
  IF rebuild.at # "none" \/ (~force /\ (handoff \/ holder # "nobody" \/ cap.tried))
  THEN UNCHANGED <<cap, rebuild>>
  ELSE /\ cap' = [cap EXCEPT !.tried = TRUE]
       /\ rebuild' = [NoRebuild EXCEPT !.at = "due", !.sess = cap.sess, !.forced = force]

\* Its setImmediate: stop() of the capture to replace, which may take its time.
RebuildStops ==
  /\ Running /\ rebuild.at = "due"
  /\ rebuild' = [rebuild EXCEPT !.at = "stopping"]
  /\ UNCHANGED <<kidVars, opVars, swapVars, cap, drains, slipped, seamVars, ended, desc,
                 carryThrew, sessions, launches>>

\* The capture to replace has stopped: a new one takes its place, or its start throws.
RebuildLands ==
  /\ Running /\ rebuild.at = "stopping"
  /\ rebuild' = NoRebuild
  /\ \/ /\ cap' = Capture(rebuild.sess)
        /\ slipped' = (slipped \/ (rebuild.forced /\ rebuild.overtaken))
     \/ /\ cap' = IF rebuild.overtaken THEN cap ELSE [cap EXCEPT !.phase = "closed"]
        /\ UNCHANGED slipped
  /\ UNCHANGED <<kidVars, opVars, swapVars, drains, seamVars, ended, desc, carryThrew,
                 sessions, launches>>

\* switchCaptureToRebuilt: the old capture stops by itself; the new one may not start.
CaptureSwitches(s) ==
  /\ cap' \in {Capture(s), [cap EXCEPT !.sess = s, !.phase = "none"]}
  /\ drains' = (drains \/ cap.phase # "none")
  /\ rebuild' = [rebuild EXCEPT !.overtaken = @ \/ rebuild.at # "none"]
  /\ UNCHANGED slipped

--------------------------------------------------------------------------
\* Receipts and the settled seam.

\* attachGovernorHandoffOutcome; the store may fail.
Attach(f, outcome) ==
  \/ /\ f.kept
     /\ receipts' = [receipts EXCEPT ![f.seam] = outcome]
     /\ UNCHANGED lost
  \/ /\ StoreFails \/ ~f.kept
     /\ lost' = IF f.kept /\ outcome = "terminal" /\ receipts[f.seam] = "deferred"
                THEN lost \cup {f.seam} ELSE lost
     /\ UNCHANGED receipts

\* setGovernorOperationInFlight: no seam asks for a mutation meanwhile.
InFlight == holder = "auto" \/ (holder = "manual" /\ handoff)

\* Mutant: a receipt that is scheduled is scheduled again by the next observation.
GoesUnlessTerminal(r) == receipts[r] # "terminal"

\* Only a new receipt, or one whose last attempt was deferred, goes on.
GoesOn(r) == receipts[r] \in {"none", "deferred"}

\* Why a seam is not scheduled although its receipt is new or deferred.
Busy == ended # "no" \/ handoff \/ flight # NoFlight

\* runSettledSeam of seam r; the store takes the observation or fails (kept is FALSE).
SettledSeam(r, kept) ==
  /\ Running /\ ~InFlight
  /\ r[1] = cap.sess /\ cap.phase # "none"
  /\ IF kept THEN GoesOn(r) ELSE StoreFails
  /\ LET held == [seam |-> r, kept |-> kept]
         known == [receipts EXCEPT ![r] = IF kept THEN "scheduled" ELSE @]
     IN
     \/ /\ Busy \/ (~alarm /\ cap.phase # "ready")
        /\ receipts' = IF kept THEN [receipts EXCEPT ![r] = "deferred"] ELSE receipts
        /\ IF ~Busy /\ cap.phase = "degraded" THEN RebuildDue(FALSE) ELSE UNCHANGED <<cap, rebuild>>
        /\ UNCHANGED <<flight, lost>>
     \/ /\ ~Busy /\ alarm
        /\ receipts' = IF kept THEN [receipts EXCEPT ![r] = "terminal"] ELSE receipts
        /\ UNCHANGED <<flight, lost, cap, rebuild>>
     \/ /\ ~Busy /\ ~alarm /\ cap.phase = "ready"
        /\ flight' = held
        /\ receipts' = IF receipts[r] = "none" THEN known ELSE receipts
        /\ lost' = IF kept THEN lost ELSE lost \cup {r}
        /\ UNCHANGED <<cap, rebuild>>
  /\ UNCHANGED <<kidVars, opVars, swapVars, drains, slipped, mutated, ended, desc, carryThrew,
                 sessions, launches>>

--------------------------------------------------------------------------
\* The operation under the guard.

At(pc) == Running /\ op.pc = pc
Goto(pc) == op' = [op EXCEPT !.pc = pc]

Release ==
  /\ op' = Idle /\ holder' = "nobody" /\ handoff' = FALSE
  /\ flight' = IF holder = "auto" THEN NoFlight ELSE flight

\* The receipt of the operation, if it has one, gets its outcome.
Outcome == IF holder = "auto" THEN Attach(flight, "terminal") ELSE UNCHANGED <<receipts, lost>>

\* Mutant: nobody looks whether the routed child is still there.
FinishBlindly == Release /\ UNCHANGED <<ended, desc>>

\* The end of performHandoff: a routed child that died meanwhile ends the run.
Finish ==
  /\ Release
  /\ IF child.told /\ ended = "no" THEN Leaves ELSE UNCHANGED <<ended, desc>>

\* A panel command takes the guard and finds the seam settled.
ManualBegins ==
  /\ ended = "no" /\ holder = "nobody" /\ cap.phase = "ready"
  /\ holder' = "manual"
  /\ op' = [Idle EXCEPT !.pc = "mutating", !.from = cap.sess]
  /\ UNCHANGED <<kidVars, handoff, swapVars, capVars, seamVars, ended, desc, carryThrew,
                 sessions, launches>>

\* runAutoOperation up to the first await of runContextMutation.
AutoBegins ==
  /\ Running /\ flight # NoFlight /\ holder # "auto"
  /\ \/ /\ ended # "no" \/ handoff \/ holder # "nobody"
        /\ Attach(flight, "deferred")
        /\ flight' = NoFlight
        /\ UNCHANGED <<holder, op, mutated>>
     \/ /\ ended = "no" /\ ~handoff /\ holder = "nobody"
        /\ holder' = "auto"
        /\ op' = [Idle EXCEPT !.from = cap.sess,
                              !.pc = IF cap.phase = "ready" THEN "mutating" ELSE "refusing"]
        /\ mutated' = [mutated EXCEPT ![flight.seam] =
                          IF cap.phase = "ready" /\ @ < 2 THEN @ + 1 ELSE @]
        /\ UNCHANGED <<flight, receipts, lost>>
  /\ UNCHANGED <<kidVars, handoff, swapVars, capVars, ended, desc, carryThrew, sessions,
                 launches>>

\* The mutation refused, changed nothing, or could not write the rebuilt session.
MutationEnds ==
  /\ At("mutating") \/ At("refusing")
  /\ Outcome /\ Release
  /\ UNCHANGED <<kidVars, swapVars, capVars, mutated, ended, desc, carryThrew, sessions,
                 launches>>

\* The rebuilt session is written: the handoff begins, or is cancelled by preHandoffStop.
MutationRebuilds ==
  /\ At("mutating") /\ sessions < MaxSessions
  /\ sessions' = sessions + 1
  /\ \/ /\ ended = "no"
        /\ handoff' = TRUE /\ Goto("spawn")
        /\ UNCHANGED <<holder, flight, receipts, lost>>
     \/ /\ ended # "no"
        /\ Outcome /\ Release
  /\ UNCHANGED <<kidVars, swapVars, capVars, mutated, ended, desc, carryThrew, launches>>

\* establishReplacement: the next attempt, whose spawn may throw, or none is left.
SpawnCandidate ==
  /\ At("spawn")
  /\ \/ /\ op.tries < Attempts
        /\ \/ cand' = Kid(sessions) /\ op' = [op EXCEPT !.tries = @ + 1, !.pc = "watch"]
           \/ UNCHANGED cand /\ op' = [op EXCEPT !.tries = @ + 1]
     \/ op.tries = Attempts /\ UNCHANGED cand /\ Goto("failed")
  /\ UNCHANGED <<child, old, report, handoff, holder, swapVars, capVars, seamVars, ended, desc,
                 carryThrew, sessions, launches>>

CandidateExits ==
  /\ Running /\ cand # NoKid /\ ~cand.told
  /\ cand' = [cand EXCEPT !.told = TRUE]
  /\ UNCHANGED <<child, old, report, opVars, swapVars, capVars, seamVars, ended, desc,
                 carryThrew, sessions, launches>>

\* awaitCandidateViable: it spoke and stayed, or it exited, was silent or left early.
WatchCandidate ==
  /\ \/ At("watch") /\ ~cand.told /\ Goto("switch")
     \/ At("watch") /\ Goto("discard")
     \/ At("s_watch") /\ ~cand.told /\ Goto("s_switch")
     \/ At("s_watch") /\ Goto("s_discard")
  /\ UNCHANGED <<kidVars, handoff, holder, swapVars, capVars, seamVars, ended, desc, carryThrew,
                 sessions, launches>>

\* discardCandidate: its exit is awaited for a while, and then forgotten.
DiscardCandidate ==
  /\ At("discard")
  /\ cand' = NoKid
  /\ Goto("spawn")
  /\ UNCHANGED <<child, old, report, handoff, holder, swapVars, capVars, seamVars, ended, desc,
                 carryThrew, sessions, launches>>

\* adoptCandidateDescriptor: the candidate has one unless its creation failed.
AdoptedDescriptors == {Descriptor("opening"), Descriptor("none")}

\* switchToCandidate
SwitchToCandidate ==
  /\ At("switch")
  /\ \/ /\ cand.told
        /\ cand' = NoKid /\ Goto("failed")
        /\ UNCHANGED <<child, old, report, capVars, desc>>
     \/ /\ ~cand.told
        /\ child' = cand /\ cand' = NoKid
        /\ old' = IF child.told THEN "told" ELSE "live"
        /\ desc' \in AdoptedDescriptors
        /\ CaptureSwitches(cand.sess)
        /\ report' = "none" /\ Goto("old")
  /\ UNCHANGED <<handoff, holder, swapVars, seamVars, ended, carryThrew, sessions, launches>>

--------------------------------------------------------------------------
\* After the switch.

\* The old child ends by itself or as it was asked; the wrapper hears of it later.
OldEnds ==
  /\ At("old")
  /\ \/ old = "live" /\ old' = "gone"
     \/ old = "gone" /\ old' = "told"
  /\ UNCHANGED <<child, cand, report, opVars, swapVars, capVars, seamVars, ended, desc,
                 carryThrew, sessions, launches>>

\* killOldChild keeps a child with adopted background tasks as their host.
RetainOld ==
  /\ At("old") /\ old = "live"
  /\ report' = "retained" /\ Goto("capture")
  /\ UNCHANGED <<child, cand, old, handoff, holder, swapVars, capVars, seamVars, ended, desc,
                 carryThrew, sessions, launches>>

\* What a probe of the old child's pid may say: its own identity, another process's (the
\* pid was used again), nothing there, or it failed.
ProbeOld(o) == IF o = "live" THEN {"own", "failed"} ELSE {"other", "not_found", "failed"}

\* classifyOldChildCleanup, when the exit was not seen.
Classified(baseline, threw, post) ==
  IF post = "not_found" \/ (post = "other" /\ baseline = "own")
     \/ (post = "own" /\ baseline = "other")
  THEN "terminated"
  ELSE IF post \in {"own", "other"} /\ post = baseline /\ ~threw THEN "surviving_orphan"
  ELSE "unknown"

\* observeOldChildCleanup: probe, terminate with SIGTERM and then SIGKILL, probe again.
TerminateOld ==
  /\ At("old")
  /\ \/ old = "told" /\ report' = "terminated"
     \/ /\ old # "told"
        /\ \E baseline \in {"own", "none"} \cup (ProbeOld(old) \ {"not_found", "failed"}), threw \in BOOLEAN,
              post \in ProbeOld(old) :
             report' = Classified(baseline, threw, post)
  /\ Goto("capture")
  /\ UNCHANGED <<child, cand, old, handoff, holder, swapVars, capVars, seamVars, ended, desc,
                 carryThrew, sessions, launches>>

\* awaitReplacementCaptureReady, the reconciliation when it is not, and the publication.
AwaitCapture ==
  /\ At("capture")
  /\ \/ cap.phase = "ready" /\ UNCHANGED <<cap, rebuild>>
     \/ cap.phase # "ready" /\ RebuildDue(TRUE)
  /\ desc' \in Published(desc, cap)
  /\ Goto("settle")
  /\ old' = "none" /\ report' = "none"
  /\ UNCHANGED <<child, cand, handoff, holder, swapVars, drains, slipped, seamVars, ended,
                 carryThrew, sessions, launches>>

\* performHandoff after a success; invokeCarryover may throw past everything but the finally.
HandoffSucceeds ==
  /\ At("settle")
  /\ Outcome
  /\ \/ carryThrew' = TRUE /\ Release /\ UNCHANGED <<ended, desc>>
     \/ Finish /\ UNCHANGED carryThrew
  /\ UNCHANGED <<kidVars, swapVars, capVars, mutated, sessions, launches>>

\* The replacement was not viable; the last one allowed raises the alarm (noteNonviableSwap).
HandoffFails ==
  /\ At("failed")
  /\ Outcome
  /\ swaps' = IF swaps < NonviableLimit THEN swaps + 1 ELSE swaps
  /\ alarm' = (swaps' = NonviableLimit)
  /\ \/ alarm' /\ ~alarm /\ Goto("s_spawn") /\ UNCHANGED <<handoff, holder, flight, ended, desc>>
     \/ ~(alarm' /\ ~alarm) /\ Finish
  /\ UNCHANGED <<kidVars, capVars, mutated, carryThrew, sessions, launches>>

\* relaunchOldSessionForSurvival: a new child of the old session.
SurvivalSpawn ==
  /\ At("s_spawn")
  /\ \/ cand' = Kid(op.from) /\ Goto("s_watch") /\ UNCHANGED <<handoff, holder, flight, ended, desc>>
     \/ UNCHANGED cand /\ Finish
  /\ UNCHANGED <<child, old, report, swapVars, capVars, receipts, mutated, lost, carryThrew,
                 sessions, launches>>

SurvivalSwitch ==
  /\ \/ /\ At("s_discard") \/ (At("s_switch") /\ cand.told)
        /\ cand' = NoKid
        /\ Finish
        /\ UNCHANGED <<child, old>>
     \/ /\ At("s_switch") /\ ~cand.told
        /\ child' = cand /\ cand' = NoKid /\ UNCHANGED old
        /\ desc' \in UNION {Published(d, cap) : d \in AdoptedDescriptors}
        /\ Goto("s_kill")
        /\ UNCHANGED <<handoff, holder, flight, ended>>
     \/ /\ At("s_kill")
        /\ Finish
        /\ UNCHANGED <<child, cand, old>>
  /\ UNCHANGED <<report, swapVars, capVars, receipts, mutated, lost, carryThrew, sessions,
                 launches>>

RunNext ==
  \/ RoutedExits \/ ProcessEnds \/ Relaunch
  \/ CaptureReady \/ CaptureDegrades \/ DrainingDegrades
  \/ RebuildStops \/ RebuildLands
  \/ \E r \in Seams, kept \in BOOLEAN : SettledSeam(r, kept)
  \/ ManualBegins \/ AutoBegins \/ MutationEnds \/ MutationRebuilds
  \/ SpawnCandidate \/ CandidateExits \/ WatchCandidate \/ DiscardCandidate
  \/ SwitchToCandidate \/ OldEnds \/ RetainOld \/ TerminateOld \/ AwaitCapture
  \/ HandoffSucceeds \/ HandoffFails \/ SurvivalSpawn \/ SurvivalSwitch

RunSpec == RunInit /\ [][RunNext]_runVars

--------------------------------------------------------------------------
\* Properties.

\* A routed child whose exit fell into a handoff, where the exit callback returns without
\* a word, still ends the wrapper when the handoff is over; only invokeCarryover, which
\* throws past the check, leaves a wrapper with a dead child (performHandoff).
DeadChildEndsTheRun == ended = "no" /\ ~handoff /\ child.told => carryThrew

\* Whatever handoffs, rebuilds and relaunches there were, the capture records the session
\* the routed child runs, and a ready descriptor lets it read that session; the exception
\* is a forced rebuild that was still stopping its capture when the next handoff switched
\* (switchCaptureToRebuilt, rebuildCaptureFromTranscript).
CaptureFollowsRoute ==
  ended = "no" /\ ~slipped =>
    /\ cap.sess = child.sess
    /\ desc.st = "ready" => desc.sess = child.sess

\* A settled turn is compacted at most once, however often it is observed, deferred and
\* observed again, by this wrapper or the next; the exception is a deferred receipt whose
\* retry ended without its outcome in the store (runSettledSeam, runAutoOperation).
ReceiptMutatesOnce == \A r \in Seams : mutated[r] <= 1 \/ r \in lost
=============================================================================
