---------------------------- MODULE Wrapper_proofs ----------------------------
(***************************************************************************)
(* Proofs about the wrapper process.  Its lease: the guard makes acquire    *)
(* and release exclusive, so the lease a process has read is the lease that *)
(* is there, and a process that was dead never becomes the one a lease      *)
(* names.  Its run: a routed child that exits in a handoff still ends the   *)
(* wrapper, a settled turn's operation mutates once, and the capture and    *)
(* the descriptor follow the routed child.  Its transcript: a line that was *)
(* written to its end stays in the file, and what a ready capture has       *)
(* passed is in the record.                                                 *)
(***************************************************************************)
EXTENDS ThreadOwner, WrapperRun, TranscriptCapture, SequenceTheorems, TLAPS

-----------------------------------------------------------------------------
(* The lease of a thread.                                                  *)

\* A process in the guard is there alone, and the guard is taken.
GuardIsExclusive ==
  /\ \A p \in Pids : InGuard(p) => guard
  /\ \A p, q \in Pids : InGuard(p) /\ InGuard(q) => p = q

\* A lease names a process that has been started.
NamesAStart(l) == l \in Identities => l[2] <= starts[l[1]]

\* From the link to the end of a release the lease is the process's own.
HoldsLease == \A p \in Pids : wrap[p] \in {"hand_over", "owner", "remove"} => lease = Identity(p)

\* An acquirer that probes or unlinks has read the lease that is there, and unlinks only
\* the lease of a process that is gone.
FoundIsThere ==
  \A p \in Pids :
    /\ wrap[p] \in {"probe", "unlink"} => lease = found[p] /\ lease \in Identities
    /\ wrap[p] = "unlink" => ~SameProcess(found[p])

\* An acquirer in the loop has a turn left.
TurnsLeft == \A p \in Pids : wrap[p] \in {"link", "read", "probe", "unlink"} => tries[p] < 2

Typed == OwnerTypeOK /\ TurnsLeft

OwnerInv == Typed /\ GuardIsExclusive /\ NamesAStart(lease) /\ HoldsLease /\ FoundIsThere

\* The owner's lease is its own in every state of the invariant.
LEMMA OwnerInvHolds == OwnerInv => OwnerHoldsLease
  BY DEF OwnerInv, HoldsLease, OwnerHoldsLease

LEMMA OwnerInitHolds == OwnerInit => OwnerInv
  <1> SUFFICES ASSUME OwnerInit PROVE OwnerInv
    OBVIOUS
  <1>1. Typed
    <2>1. NoLease \in Leases /\ Damaged \in Leases /\ "dead" \in Places
      BY DEF Leases, Places
    <2>2. lease \in Leases /\ guard \in BOOLEAN
      BY <2>1 DEF OwnerInit
    <2>3. starts \in [Pids -> Nat] /\ tries \in [Pids -> 0..2]
      BY DEF OwnerInit
    <2>4. wrap \in [Pids -> Places] /\ found \in [Pids -> Leases]
      BY <2>1 DEF OwnerInit
    <2>5. TurnsLeft
      BY DEF OwnerInit, TurnsLeft
    <2> QED
      BY <2>2, <2>3, <2>4, <2>5 DEF OwnerTypeOK, Typed
  <1>2. GuardIsExclusive /\ HoldsLease /\ FoundIsThere
    BY DEF OwnerInit, GuardIsExclusive, InGuard, Acquiring, Releasing, HoldsLease, FoundIsThere
  <1>3. NamesAStart(lease)
    BY LeaseAssumption DEF OwnerInit, NamesAStart, Identities
  <1> QED
    BY <1>1, <1>2, <1>3 DEF OwnerInv

\* Every step keeps the types and the count of turns.
LEMMA OwnerTypeStep == Typed /\ [OwnerNext]_ownerVars => Typed'
  <1> SUFFICES ASSUME Typed, [OwnerNext]_ownerVars PROVE Typed'
    OBVIOUS
  <1> USE DEF Typed, TurnsLeft, OwnerTypeOK, Places, Acquiring, Releasing, Leases, Moves
  <1>1. CASE UNCHANGED ownerVars
    BY <1>1 DEF ownerVars
  <1>2. CASE ClearGuard
    BY <1>2 DEF ClearGuard
  <1>3. ASSUME NEW p \in Pids,
               \/ Start(p) \/ TakeGuard(p) \/ Link(p) \/ ReadLease(p) \/ Probe(p) \/ Unlink(p)
               \/ DropGuard(p) \/ TakeReleaseGuard(p) \/ CheckToken(p) \/ RemoveLease(p)
               \/ LeaveGuard(p) \/ Dies(p)
        PROVE  Typed'
    <2>1. Identity(p) \in Identities
      BY DEF Identity, Identities
    <2>2. CASE Start(p)
      BY <2>2 DEF Start
    <2>3. CASE TakeGuard(p)
      BY <2>3 DEF TakeGuard
    <2>4. CASE Link(p)
      BY <2>1, <2>4 DEF Link
    <2>5. CASE ReadLease(p)
      BY <2>5 DEF ReadLease, LoopsOn
    <2>6. CASE Probe(p) \/ CheckToken(p)
      BY <2>6 DEF Probe, CheckToken
    <2>7. CASE Unlink(p)
      BY <2>7 DEF Unlink, LoopsOn
    <2>8. CASE DropGuard(p) \/ TakeReleaseGuard(p) \/ LeaveGuard(p)
      BY <2>8 DEF DropGuard, TakeReleaseGuard, LeaveGuard
    <2>9. CASE RemoveLease(p) \/ Dies(p)
      BY <2>9 DEF RemoveLease, Dies
    <2> QED
      BY <1>3, <2>2, <2>3, <2>4, <2>5, <2>6, <2>7, <2>8, <2>9
  <1> QED
    BY <1>1, <1>2, <1>3 DEF OwnerNext

\* The guard stays exclusive: it is made by one process and removed by the one inside, or
\* by the operator when nobody is.
LEMMA GuardStep == OwnerInv /\ [OwnerNext]_ownerVars => GuardIsExclusive'
  <1> SUFFICES ASSUME OwnerInv, [OwnerNext]_ownerVars PROVE GuardIsExclusive'
    OBVIOUS
  <1> USE DEF OwnerInv, Typed, OwnerTypeOK, GuardIsExclusive, InGuard, Acquiring, Releasing, Moves
  <1>1. CASE UNCHANGED ownerVars
    BY <1>1 DEF ownerVars
  <1>2. CASE ClearGuard
    BY <1>2 DEF ClearGuard
  <1>3. ASSUME NEW p \in Pids, Start(p) \/ Dies(p)
        PROVE  GuardIsExclusive'
    BY <1>3 DEF Start, Dies
  <1>4. ASSUME NEW p \in Pids, TakeGuard(p) \/ TakeReleaseGuard(p)
        PROVE  GuardIsExclusive'
    BY <1>4 DEF TakeGuard, TakeReleaseGuard
  <1>5. ASSUME NEW p \in Pids, Link(p) \/ Probe(p) \/ CheckToken(p) \/ RemoveLease(p)
        PROVE  GuardIsExclusive'
    BY <1>5 DEF Link, Probe, CheckToken, RemoveLease
  <1>6. ASSUME NEW p \in Pids, ReadLease(p) \/ Unlink(p)
        PROVE  GuardIsExclusive'
    BY <1>6 DEF ReadLease, Unlink, LoopsOn
  <1>7. ASSUME NEW p \in Pids, DropGuard(p) \/ LeaveGuard(p)
        PROVE  GuardIsExclusive'
    BY <1>7 DEF DropGuard, LeaveGuard
  <1> QED
    BY <1>1, <1>2, <1>3, <1>4, <1>5, <1>6, <1>7 DEF OwnerNext

\* The three facts about the lease itself are kept by every step.
LEMMA LeaseStep ==
  OwnerInv /\ [OwnerNext]_ownerVars => (NamesAStart(lease) /\ HoldsLease /\ FoundIsThere)'
  <1> SUFFICES ASSUME OwnerInv, [OwnerNext]_ownerVars
               PROVE  (NamesAStart(lease) /\ HoldsLease /\ FoundIsThere)'
    OBVIOUS
  <1> USE LeaseAssumption DEF OwnerInv, Typed, OwnerTypeOK, NamesAStart, HoldsLease, FoundIsThere,
                              Identity, Identities, Moves
  <1>1. CASE UNCHANGED ownerVars
    BY <1>1 DEF ownerVars, SameProcess, Live
  <1>2. CASE ClearGuard
    BY <1>2 DEF ClearGuard, InGuard, Acquiring, Releasing, SameProcess, Live
  <1>3. ASSUME NEW p \in Pids, Start(p)
        PROVE  (NamesAStart(lease) /\ HoldsLease /\ FoundIsThere)'
    <2>1. NamesAStart(lease)'
      BY <1>3 DEF Start
    <2>2. HoldsLease'
      BY <1>3 DEF Start
    <2>3. ASSUME NEW q \in Pids, wrap'[q] \in {"probe", "unlink"}
          PROVE  lease' = found'[q] /\ lease' \in Identities
      BY <1>3, <2>3 DEF Start
    <2>4. ASSUME NEW q \in Pids, wrap'[q] = "unlink"
          PROVE  ~SameProcess(found[q])'
      <3>1. lease = found[q] /\ lease \in Identities /\ ~SameProcess(found[q]) /\ q # p
        BY <1>3, <2>4 DEF Start
      <3>2. ASSUME NEW r \in Pids, wrap'[r] # "dead", found[q] = <<r, starts'[r]>>
            PROVE  FALSE
        <4>1. r = p
          BY <1>3, <3>1, <3>2 DEF Start, SameProcess, Live
        <4>2. starts'[p] = starts[p] + 1 /\ found[q][2] <= starts[p] /\ starts[p] \in Nat
          BY <1>3, <3>1, <3>2, <4>1 DEF Start
        <4> QED
          BY <3>2, <4>1, <4>2
      <3> QED
        BY <1>3, <3>2 DEF Start, SameProcess, Live
    <2> QED
      BY <2>1, <2>2, <2>3, <2>4
  <1>4. ASSUME NEW p \in Pids, Dies(p)
        PROVE  (NamesAStart(lease) /\ HoldsLease /\ FoundIsThere)'
    BY <1>4 DEF Dies, SameProcess, Live
  <1>5. ASSUME NEW p \in Pids, TakeGuard(p) \/ TakeReleaseGuard(p) \/ DropGuard(p) \/ LeaveGuard(p)
        PROVE  (NamesAStart(lease) /\ HoldsLease /\ FoundIsThere)'
    BY <1>5 DEF TakeGuard, TakeReleaseGuard, DropGuard, LeaveGuard, SameProcess, Live
  <1>6. ASSUME NEW p \in Pids, CheckToken(p)
        PROVE  (NamesAStart(lease) /\ HoldsLease /\ FoundIsThere)'
    BY <1>6 DEF CheckToken, SameProcess, Live
  <1>7. ASSUME NEW p \in Pids, Probe(p)
        PROVE  (NamesAStart(lease) /\ HoldsLease /\ FoundIsThere)'
    BY <1>7 DEF Probe, SameProcess, Live
  <1>8. ASSUME NEW p \in Pids, ReadLease(p)
        PROVE  (NamesAStart(lease) /\ HoldsLease /\ FoundIsThere)'
    BY <1>8 DEF ReadLease, LoopsOn, SameProcess, Live
  <1>9. ASSUME NEW p \in Pids, Link(p) \/ Unlink(p) \/ RemoveLease(p)
        PROVE  (NamesAStart(lease) /\ HoldsLease /\ FoundIsThere)'
    <2>1. InGuard(p)
      BY <1>9 DEF InGuard, Acquiring, Releasing, Link, Unlink, RemoveLease, LoopsOn
    <2>2. \A q \in Pids : InGuard(q) => q = p
      BY <2>1 DEF GuardIsExclusive
    <2>3. FoundIsThere'
      BY <1>9, <2>2 DEF InGuard, Acquiring, Releasing, Link, Unlink, RemoveLease, LoopsOn
    <2>4. NamesAStart(lease)'
      BY <1>9 DEF Link, Unlink, RemoveLease, LoopsOn
    <2>5. HoldsLease'
      BY <1>9, <2>2 DEF InGuard, Acquiring, Releasing, Link, Unlink, RemoveLease, LoopsOn,
                        SameProcess, Live
    <2> QED
      BY <2>3, <2>4, <2>5
  <1> QED
    BY <1>1, <1>2, <1>3, <1>4, <1>5, <1>6, <1>7, <1>8, <1>9 DEF OwnerNext

\* The invariant holds in every reachable state.
THEOREM OwnerInvariant == OwnerSpec => []OwnerInv
  <1>1. OwnerInv /\ [OwnerNext]_ownerVars => OwnerInv'
    BY OwnerTypeStep, GuardStep, LeaseStep DEF OwnerInv
  <1> QED
    BY OwnerInitHolds, <1>1, PTL DEF OwnerSpec

\* A wrapper that runs the thread is the one its lease names, for any number of wrappers,
\* pids used again any number of times, and deaths at any step (acquireThreadOwner).
THEOREM OwnerHasTheLease == OwnerSpec => []OwnerHoldsLease
  BY OwnerInvariant, OwnerInvHolds, PTL

\* Two wrappers that run the thread are one (acquireThreadOwner).
OneOwnerOnly == \A p, q \in Pids : wrap[p] = "owner" /\ wrap[q] = "owner" => p = q

\* A thread never has two owners (acquireThreadOwner).
THEOREM ThreadHasOneOwner == OwnerSpec => []OneOwnerOnly
  <1>1. OwnerHoldsLease => OneOwnerOnly
    BY DEF OwnerHoldsLease, OneOwnerOnly, Identity
  <1> QED
    BY OwnerHasTheLease, <1>1, PTL

-----------------------------------------------------------------------------
(* The run of a wrapper.                                                   *)

\* The records of a child and of the operation, whatever is in them.
IsKid(k) == k = [sess |-> k.sess, told |-> k.told]
IsOp(o) == o = [pc |-> o.pc, tries |-> o.tries, from |-> o.from]

\* The places of the operation before its handoff.
Unhanded == {"idle", "refusing", "mutating"}

\* A handoff belongs to an operation that has rebuilt a session, and an operation to a
\* holder of the guard.
HandoffHasAnOperation ==
  /\ IsKid(child) /\ IsKid(cand) /\ IsOp(op)
  /\ handoff => op.pc \notin Unhanded
  /\ holder = "nobody" => op.pc = "idle"

RunInv == HandoffHasAnOperation /\ DeadChildEndsTheRun

\* The actions that leave the children, the operation and its guard, the end of the run and
\* invokeCarryover's throw as they are.
Aside ==
  \/ CaptureReady \/ RebuildStops \/ RebuildLands
  \/ \E r \in Seams, kept \in BOOLEAN : SettledSeam(r, kept)
  \/ OldEnds

LEMMA AsideKeeps == Aside => UNCHANGED <<child, cand, opVars, ended, carryThrew>>
  BY DEF Aside, CaptureReady, RebuildStops, RebuildLands, SettledSeam, OldEnds, kidVars, opVars

LEMMA RunInitHolds == RunInit => RunInv
  BY DEF RunInit, RunInv, HandoffHasAnOperation, DeadChildEndsTheRun, IsKid, IsOp, Kid, NoKid, Idle,
         Unhanded

\* A new process begins with a child that lives.
LEMMA LaunchHolds == ASSUME NEW s, Launched(s) PROVE RunInv'
  BY DEF Launched, RunInv, HandoffHasAnOperation, DeadChildEndsTheRun, IsKid, IsOp, Kid, NoKid, Idle,
         Unhanded

\* Every step keeps the invariant.
LEMMA RunStep == RunInv /\ [RunNext]_runVars => RunInv'
  <1> SUFFICES ASSUME RunInv, [RunNext]_runVars PROVE RunInv'
    OBVIOUS
  <1> USE DEF RunInv, HandoffHasAnOperation, DeadChildEndsTheRun, IsKid, IsOp, Unhanded,
              kidVars, opVars
  <1>1. CASE UNCHANGED runVars \/ Aside
    <2>1. UNCHANGED <<child, cand, opVars, ended, carryThrew>>
      BY <1>1, AsideKeeps DEF runVars
    <2> QED
      BY <2>1
  <1>2. CASE RoutedExits
    BY <1>2 DEF RoutedExits, Leaves
  <1>3. CASE ProcessEnds \/ Relaunch
    BY <1>3, LaunchHolds DEF ProcessEnds, Relaunch
  <1>4. CASE CaptureDegrades \/ DrainingDegrades
    <2>1. UNCHANGED <<child, cand, handoff, holder, op, carryThrew>> /\ (ended' = ended \/ ended' = "over")
      BY <1>4 DEF CaptureDegrades, DrainingDegrades, RevokedByDegrade
    <2> QED
      BY <2>1
  <1>5. CASE ManualBegins
    BY <1>5 DEF ManualBegins, Idle
  <1>6. CASE AutoBegins
    <2>1. UNCHANGED <<child, cand, handoff, ended, carryThrew>>
      BY <1>6 DEF AutoBegins
    <2>2. CASE UNCHANGED <<holder, op>>
      BY <2>1, <2>2
    <2>3. CASE ~handoff /\ holder' = "auto" /\ \E pc \in {"mutating", "refusing"} :
                                                  op' = [pc |-> pc, tries |-> 0, from |-> cap.sess]
      BY <2>1, <2>3
    <2> QED
      BY <1>6, <2>2, <2>3 DEF AutoBegins, Idle
  <1>7. CASE MutationEnds
    <2>1. ~handoff /\ UNCHANGED <<child, cand, ended, carryThrew>> /\ op' = Idle /\ handoff' = FALSE
      BY <1>7 DEF MutationEnds, Release, At
    <2> QED
      BY <2>1 DEF Idle
  <1>8. CASE MutationRebuilds
    BY <1>8 DEF MutationRebuilds, Release, Idle, At, Goto
  <1>9. CASE SpawnCandidate \/ CandidateExits \/ DiscardCandidate
    <2>1. UNCHANGED <<child, handoff, holder, ended, carryThrew>>
      BY <1>9 DEF SpawnCandidate, CandidateExits, DiscardCandidate
    <2>2. IsKid(cand)'
      BY <1>9 DEF SpawnCandidate, CandidateExits, DiscardCandidate, Kid, NoKid
    <2>3. IsOp(op)' /\ (op' = op \/ (op.pc \notin Unhanded /\ op'.pc \notin Unhanded))
      BY <1>9 DEF SpawnCandidate, CandidateExits, DiscardCandidate, At, Goto
    <2> QED
      BY <2>1, <2>2, <2>3
  <1>10. CASE WatchCandidate
    BY <1>10 DEF WatchCandidate, At, Goto
  <1>11. CASE SwitchToCandidate
    BY <1>11 DEF SwitchToCandidate, At, Goto, Kid, NoKid
  <1>12. CASE RetainOld \/ TerminateOld \/ AwaitCapture
    BY <1>12 DEF RetainOld, TerminateOld, AwaitCapture, At, Goto
  <1>13. CASE HandoffSucceeds
    BY <1>13 DEF HandoffSucceeds, Finish, Release, Leaves, Idle
  <1>14. CASE HandoffFails
    BY <1>14 DEF HandoffFails, Finish, Release, Leaves, Idle, At, Goto
  <1>15. CASE SurvivalSpawn
    BY <1>15 DEF SurvivalSpawn, Finish, Release, Leaves, Idle, At, Goto, Kid
  <1>16. CASE SurvivalSwitch
    BY <1>16 DEF SurvivalSwitch, Finish, Release, Leaves, Idle, At, Goto, Kid, NoKid
  <1> QED
    BY <1>1, <1>2, <1>3, <1>4, <1>5, <1>6, <1>7, <1>8, <1>9, <1>10, <1>11, <1>12, <1>13, <1>14,
       <1>15, <1>16 DEF RunNext, Aside

\* A child that exits in a handoff ends the wrapper when the handoff is over, whatever the
\* number of sessions, launches and attempts (performHandoff, handleChildExit).
THEOREM DeadChildIsNoticed == RunSpec => []DeadChildEndsTheRun
  <1>1. RunInv => DeadChildEndsTheRun
    BY DEF RunInv
  <1> QED
    BY RunInitHolds, RunStep, <1>1, PTL DEF RunSpec

--------------------------------------------------------------------------
\* A settled turn's operation mutates once.

Outcomes == {"none", "scheduled", "deferred", "terminal"}
Decided == {"scheduled", "terminal"}

\* The places of the operation once its outcome went to the store.
Survival == {"s_spawn", "s_watch", "s_discard", "s_switch", "s_kill"}

SeamTypes ==
  /\ receipts \in [Seams -> Outcomes]
  /\ mutated \in [Seams -> 0..2]
  /\ flight # NoFlight => flight.seam \in Seams
  /\ holder = "auto" => flight # NoFlight

\* A flight without a stored receipt is lost from its beginning; a stored one has a receipt.
FlightIsKnown ==
  flight # NoFlight =>
    IF flight.kept THEN receipts[flight.seam] # "none" ELSE flight.seam \in lost

\* The outcome of an operation was stored, or the store will never take it up again.
OutcomeIsKnown ==
  holder = "auto" /\ op.pc \in Survival =>
    receipts[flight.seam] \in Decided \/ flight.seam \in lost

\* A seam that was mutated is decided and in no flight that waits, or is the one the running
\* operation holds.
MutatedIsDecided ==
  \A r \in Seams \ lost :
    \/ mutated[r] = 0
    \/ mutated[r] = 1 /\ receipts[r] \in Decided /\ (flight.seam = r => holder = "auto")
    \/ mutated[r] = 1 /\ holder = "auto" /\ flight.seam = r

SeamInv == SeamTypes /\ FlightIsKnown /\ OutcomeIsKnown /\ MutatedIsDecided

LEMMA NoSeamIsNone == NoSeam \notin Seams
  BY DEF NoSeam, Seams

\* The actions that leave the receipts and the flight as they are.
SeamAside ==
  \/ RoutedExits \/ CaptureReady \/ CaptureDegrades \/ DrainingDegrades
  \/ RebuildStops \/ RebuildLands \/ SpawnCandidate \/ CandidateExits \/ WatchCandidate
  \/ DiscardCandidate \/ SwitchToCandidate \/ OldEnds \/ RetainOld \/ TerminateOld \/ AwaitCapture

LEMMA SeamAsideKeeps ==
  IsOp(op) /\ SeamAside =>
    /\ UNCHANGED <<holder, flight, receipts, mutated, lost>>
    /\ op'.pc \in Survival => op.pc \in Survival
  <1> USE DEF IsOp, Survival, opVars, seamVars, At, Goto
  <1>1. RoutedExits \/ CaptureReady \/ CaptureDegrades \/ DrainingDegrades \/ RebuildStops \/ RebuildLands
          \/ OldEnds \/ CandidateExits => UNCHANGED <<holder, op, flight, receipts, mutated, lost>>
    BY DEF RoutedExits, CaptureReady, CaptureDegrades, DrainingDegrades, RebuildStops, RebuildLands,
           OldEnds, CandidateExits
  <1>2. ASSUME IsOp(op), SpawnCandidate \/ DiscardCandidate
        PROVE  UNCHANGED <<holder, flight, receipts, mutated, lost>> /\ op'.pc \notin Survival
    BY <1>2 DEF SpawnCandidate, DiscardCandidate
  <1>3. ASSUME IsOp(op), WatchCandidate
        PROVE  UNCHANGED <<holder, flight, receipts, mutated, lost>>
               /\ (op'.pc \in Survival => op.pc \in Survival)
    BY <1>3 DEF WatchCandidate
  <1>4. ASSUME IsOp(op), SwitchToCandidate \/ RetainOld \/ TerminateOld \/ AwaitCapture
        PROVE  UNCHANGED <<holder, flight, receipts, mutated, lost>> /\ op'.pc \notin Survival
    BY <1>4 DEF SwitchToCandidate, RetainOld, TerminateOld, AwaitCapture
  <1> QED
    BY <1>1, <1>2, <1>3, <1>4 DEF SeamAside

\* Once the outcome was stored or refused, the running operation's seam is settled, and
\* nothing else has changed.
SettledAfter(l, rs) ==
  /\ rs \in [Seams -> Outcomes]
  /\ lost \subseteq l
  /\ \A r \in Seams \ l : mutated[r] = 0 \/ (mutated[r] = 1 /\ rs[r] \in Decided
                                                /\ (flight.seam = r => holder = "auto"))
  /\ holder = "auto" => rs[flight.seam] \in Decided \/ flight.seam \in l
  /\ \A r \in Seams : rs[r] = "none" => receipts[r] = "none"

LEMMA OutcomeSettles == SeamInv /\ Outcome => SettledAfter(lost', receipts')
  <1> SUFFICES ASSUME SeamInv, Outcome PROVE SettledAfter(lost', receipts')
    OBVIOUS
  <1> USE DEF SeamInv, SeamTypes, FlightIsKnown, MutatedIsDecided, SettledAfter, Outcomes, Decided
  <1>1. CASE holder # "auto"
    BY <1>1 DEF Outcome
  <1>2. CASE holder = "auto"
    <2>1. flight # NoFlight /\ flight.seam \in Seams
      BY <1>2
    <2>2. CASE flight.kept /\ receipts' = [receipts EXCEPT ![flight.seam] = "terminal"] /\ lost' = lost
      BY <1>2, <2>1, <2>2
    <2>3. CASE /\ receipts' = receipts
               /\ lost' = IF flight.kept /\ receipts[flight.seam] = "deferred"
                          THEN lost \cup {flight.seam} ELSE lost
      BY <1>2, <2>1, <2>3
    <2> QED
      BY <1>2, <2>2, <2>3 DEF Outcome, Attach
  <1> QED
    BY <1>1, <1>2

\* The guard goes back with everything settled.
LEMMA ReleaseSettles ==
  SeamInv /\ SettledAfter(lost', receipts') /\ mutated' = mutated /\ Release => SeamInv'
  <1> SUFFICES ASSUME SeamInv, SettledAfter(lost', receipts'), mutated' = mutated, Release PROVE SeamInv'
    OBVIOUS
  <1> USE DEF SeamInv, SeamTypes, FlightIsKnown, OutcomeIsKnown, MutatedIsDecided, SettledAfter, Release
  <1>1. holder' = "nobody" /\ (flight' = NoFlight \/ (flight' = flight /\ holder # "auto"))
    OBVIOUS
  <1>2. SeamTypes' /\ OutcomeIsKnown'
    BY <1>1
  <1>3. FlightIsKnown'
    BY <1>1
  <1>4. MutatedIsDecided'
    BY <1>1, NoSeamIsNone DEF NoFlight
  <1> QED
    BY <1>2, <1>3, <1>4

\* An operation that goes on for the survival of the old session keeps its settled seam.
LEMMA SurvivalSettles ==
  SeamInv /\ SettledAfter(lost', receipts') /\ UNCHANGED <<mutated, holder, flight>> => SeamInv'
  BY DEF SeamInv, SeamTypes, FlightIsKnown, OutcomeIsKnown, MutatedIsDecided, SettledAfter

\* What a released operation has settled before is settled still.
LEMMA SettledBefore == SeamInv /\ op.pc \in Survival => SettledAfter(lost, receipts)
  BY DEF SeamInv, SeamTypes, FlightIsKnown, OutcomeIsKnown, MutatedIsDecided, SettledAfter, Decided

\* A process that ends forgets its flight, and the store keeps what it has.
LEMMA LaunchSettles ==
  ASSUME SeamInv, NEW s, Launched(s), UNCHANGED <<receipts, mutated>>,
         lost' = lost \cup {r \in Seams : receipts[r] = "deferred" /\ mutated[r] > 0}
  PROVE  SeamInv'
  <1>1. flight' = NoFlight /\ holder' = "nobody"
    BY DEF Launched
  <1>2. \A r \in Seams \ lost' : mutated[r] = 0 \/ (mutated[r] = 1 /\ receipts[r] \in Decided)
    BY DEF SeamInv, SeamTypes, FlightIsKnown, MutatedIsDecided, Outcomes, Decided
  <1> QED
    BY <1>1, <1>2, NoSeamIsNone
    DEF SeamInv, SeamTypes, FlightIsKnown, OutcomeIsKnown, MutatedIsDecided, NoFlight

\* An observation schedules or defers only a seam that no operation has begun to mutate.
LEMMA SettledSeamSettles ==
  ASSUME SeamInv, NEW r \in Seams, NEW kept \in BOOLEAN, SettledSeam(r, kept)
  PROVE  SeamInv'
  <1> USE DEF SeamInv, SeamTypes
  <1>1. holder # "auto" /\ UNCHANGED <<holder, mutated>> /\ (kept => receipts[r] \in {"none", "deferred"})
    BY DEF SettledSeam, InFlight, GoesOn, opVars
  <1>2. kept /\ r \notin lost => mutated[r] = 0
    BY <1>1 DEF MutatedIsDecided, Decided
  <1>3. CASE /\ receipts' \in {receipts} \cup
                  {[receipts EXCEPT ![r] = o] : o \in IF kept THEN {"deferred", "terminal"} ELSE {}}
             /\ UNCHANGED <<flight, lost>>
    BY <1>1, <1>2, <1>3
    DEF FlightIsKnown, OutcomeIsKnown, MutatedIsDecided, Outcomes, Decided
  <1>4. CASE /\ flight = NoFlight /\ flight' = [seam |-> r, kept |-> kept]
             /\ receipts' = IF kept /\ receipts[r] = "none"
                            THEN [receipts EXCEPT ![r] = "scheduled"] ELSE receipts
             /\ lost' = IF kept THEN lost ELSE lost \cup {r}
    <2>1. SeamTypes'
      BY <1>1, <1>4 DEF Outcomes
    <2>2. FlightIsKnown' /\ OutcomeIsKnown'
      BY <1>1, <1>4 DEF FlightIsKnown, OutcomeIsKnown
    <2>3. MutatedIsDecided'
      BY <1>1, <1>2, <1>4 DEF MutatedIsDecided, Decided
    <2> QED
      BY <2>1, <2>2, <2>3
  <1>5. CASE receipts' = receipts /\ UNCHANGED <<flight, lost>>
    BY <1>3, <1>5
  <1>6. \/ UNCHANGED <<flight, lost>> /\ kept /\ receipts' = [receipts EXCEPT ![r] = "deferred"]
        \/ UNCHANGED <<flight, lost>> /\ kept /\ receipts' = [receipts EXCEPT ![r] = "terminal"]
        \/ UNCHANGED <<flight, lost>> /\ receipts' = receipts
        \/ /\ flight = NoFlight /\ flight' = [seam |-> r, kept |-> kept]
           /\ receipts' = IF kept /\ receipts[r] = "none"
                          THEN [receipts EXCEPT ![r] = "scheduled"] ELSE receipts
           /\ lost' = IF kept THEN lost ELSE lost \cup {r}
    BY DEF SettledSeam, Busy
  <1> QED
    BY <1>3, <1>4, <1>5, <1>6

\* An operation begins to mutate a seam that no other has begun.
LEMMA AutoSettles == SeamInv /\ AutoBegins => SeamInv'
  <1> SUFFICES ASSUME SeamInv, AutoBegins PROVE SeamInv'
    OBVIOUS
  <1> USE DEF SeamInv, SeamTypes
  <1>1. holder # "auto" /\ flight # NoFlight /\ flight.seam \in Seams
    BY DEF AutoBegins
  <1>2. flight.seam \notin lost => mutated[flight.seam] = 0 /\ flight.kept
    BY <1>1 DEF FlightIsKnown, MutatedIsDecided
  <1>3. CASE flight' = NoFlight /\ Attach(flight, "deferred") /\ UNCHANGED <<holder, op, mutated>>
    <2>1. lost' = lost /\ (receipts' = receipts \/ receipts' = [receipts EXCEPT ![flight.seam] = "deferred"])
      BY <1>3 DEF Attach
    <2>2. SeamTypes' /\ FlightIsKnown' /\ OutcomeIsKnown'
      BY <1>1, <1>3, <2>1 DEF FlightIsKnown, OutcomeIsKnown, Outcomes
    <2>3. MutatedIsDecided'
      BY <1>1, <1>2, <1>3, <2>1, NoSeamIsNone DEF MutatedIsDecided, NoFlight
    <2> QED
      BY <2>2, <2>3
  <1>4. CASE /\ holder' = "auto" /\ UNCHANGED <<flight, receipts, lost>>
             /\ op' = [Idle EXCEPT !.from = cap.sess,
                                   !.pc = IF cap.phase = "ready" THEN "mutating" ELSE "refusing"]
             /\ mutated' = [mutated EXCEPT ![flight.seam] =
                               IF cap.phase = "ready" /\ @ < 2 THEN @ + 1 ELSE @]
    <2>1. SeamTypes' /\ FlightIsKnown'
      BY <1>1, <1>4 DEF FlightIsKnown
    <2>2. op'.pc \notin Survival
      BY <1>4 DEF Idle, Survival
    <2>3. MutatedIsDecided'
      BY <1>1, <1>2, <1>4 DEF MutatedIsDecided
    <2> QED
      BY <2>1, <2>2, <2>3 DEF OutcomeIsKnown
  <1> QED
    BY <1>3, <1>4 DEF AutoBegins

\* Every step keeps the invariant.
LEMMA SeamStep == HandoffHasAnOperation /\ SeamInv /\ [RunNext]_runVars => SeamInv'
  <1> SUFFICES ASSUME HandoffHasAnOperation, SeamInv, [RunNext]_runVars PROVE SeamInv'
    OBVIOUS
  <1>1. CASE UNCHANGED runVars \/ SeamAside
    <2>1. UNCHANGED <<holder, flight, receipts, mutated, lost>>
          /\ (op'.pc \in Survival => op.pc \in Survival)
      BY <1>1, SeamAsideKeeps DEF HandoffHasAnOperation, runVars, opVars, seamVars
    <2> QED
      BY <2>1 DEF SeamInv, SeamTypes, FlightIsKnown, OutcomeIsKnown, MutatedIsDecided
  <1>2. CASE ProcessEnds \/ Relaunch
    BY <1>2, LaunchSettles DEF ProcessEnds, Relaunch
  <1>3. ASSUME NEW r \in Seams, NEW kept \in BOOLEAN, SettledSeam(r, kept) PROVE SeamInv'
    BY <1>3, SettledSeamSettles
  <1>4. CASE ManualBegins
    BY <1>4 DEF ManualBegins, Idle, Survival, seamVars, SeamInv, SeamTypes, FlightIsKnown,
                OutcomeIsKnown, MutatedIsDecided
  <1>5. CASE AutoBegins
    BY <1>5, AutoSettles
  <1>6. CASE MutationEnds
    BY <1>6, OutcomeSettles, ReleaseSettles DEF MutationEnds
  <1>7. CASE MutationRebuilds
    <2>1. CASE Outcome /\ Release /\ mutated' = mutated
      BY <2>1, OutcomeSettles, ReleaseSettles
    <2>2. CASE UNCHANGED <<holder, flight, receipts, mutated, lost>> /\ op'.pc = "spawn"
      BY <2>2 DEF Survival, SeamInv, SeamTypes, FlightIsKnown, OutcomeIsKnown, MutatedIsDecided
    <2> QED
      BY <1>7, <2>1, <2>2 DEF MutationRebuilds, Goto, HandoffHasAnOperation, IsOp
  <1>8. CASE HandoffSucceeds
    BY <1>8, OutcomeSettles, ReleaseSettles DEF HandoffSucceeds, Finish
  <1>9. CASE HandoffFails
    BY <1>9, OutcomeSettles, ReleaseSettles, SurvivalSettles DEF HandoffFails, Finish
  <1>10. CASE SurvivalSpawn \/ SurvivalSwitch
    <2>1. op.pc \in Survival /\ UNCHANGED <<receipts, mutated, lost>>
      BY <1>10 DEF SurvivalSpawn, SurvivalSwitch, At, Survival
    <2>2. Release \/ UNCHANGED <<holder, flight>>
      BY <1>10 DEF SurvivalSpawn, SurvivalSwitch, Finish
    <2> QED
      BY <2>1, <2>2, SettledBefore, ReleaseSettles, SurvivalSettles
  <1> QED
    BY <1>1, <1>2, <1>3, <1>4, <1>5, <1>6, <1>7, <1>8, <1>9, <1>10 DEF RunNext, SeamAside

LEMMA SeamInitHolds == RunInit => SeamInv
  <1> SUFFICES ASSUME RunInit PROVE SeamInv
    OBVIOUS
  <1>1. SeamTypes
    BY DEF RunInit, SeamTypes, Outcomes
  <1>2. FlightIsKnown /\ OutcomeIsKnown /\ MutatedIsDecided
    BY DEF RunInit, FlightIsKnown, OutcomeIsKnown, MutatedIsDecided
  <1> QED
    BY <1>1, <1>2 DEF SeamInv

\* A settled turn is compacted at most once, for any number of sessions, settled turns and
\* launches and a store that may fail; the exception is a retried receipt whose outcome
\* never reached the store (runSettledSeam, runAutoOperation).
THEOREM SeamMutatesOnce == RunSpec => []ReceiptMutatesOnce
  <1>1. SeamInv => ReceiptMutatesOnce
    BY DEF SeamInv, SeamTypes, MutatedIsDecided, ReceiptMutatesOnce
  <1>2. RunInv /\ SeamInv /\ [RunNext]_runVars => (RunInv /\ SeamInv)'
    BY RunStep, SeamStep DEF RunInv
  <1> QED
    BY RunInitHolds, SeamInitHolds, <1>1, <1>2, PTL DEF RunSpec

--------------------------------------------------------------------------
\* The capture and the descriptor follow the routed child.

IsCapture(c) == c = [sess |-> c.sess, phase |-> c.phase, tried |-> c.tried]
IsRebuild(r) == r = [at |-> r.at, sess |-> r.sess, forced |-> r.forced, overtaken |-> r.overtaken]

RouteTypes == IsKid(child) /\ IsKid(cand) /\ IsOp(op) /\ IsCapture(cap) /\ IsRebuild(rebuild)

\* The property, also while the run ends.
RouteIsFollowed ==
  ~slipped =>
    /\ cap.sess = child.sess
    /\ desc.st = "ready" => desc.sess = child.sess

\* A rebuild nobody forced keeps every operation out until it lands: its capture is not
\* ready, and no seam is in flight. A forced one is for the capture, unless it was overtaken.
RebuildIsKnown ==
  rebuild.at # "none" =>
    /\ ~rebuild.overtaken => rebuild.sess = cap.sess
    /\ rebuild.forced \/
         /\ ~rebuild.overtaken /\ cap.phase = "degraded"
         /\ holder = "nobody" /\ op.pc = "idle" /\ flight = NoFlight

\* The places of the operation at which the capture is still the one it began with.
BeforeSwitch == {"mutating", "spawn", "watch", "discard", "switch", "failed", "s_spawn", "s_watch",
                 "s_discard", "s_switch"}

\* The old session of a failed handoff is the one that is still captured.
OriginIsKnown ==
  /\ ~slipped /\ op.pc \in BeforeSwitch => op.from = cap.sess
  /\ op.pc \in {"s_watch", "s_switch"} => cand.sess = op.from
  /\ holder = "nobody" => op.pc = "idle"

RouteInv == RouteTypes /\ RouteIsFollowed /\ RebuildIsKnown /\ OriginIsKnown

\* Steps that touch none of it but the descriptor, which they only take back.
LEMMA RouteRests ==
  ASSUME RouteInv, UNCHANGED <<child, cand, op, holder, cap, rebuild, slipped>>,
         flight' = flight \/ flight' = NoFlight,
         desc' = desc \/ desc'.st # "ready"
  PROVE  RouteInv'
BY DEF RouteInv, RouteTypes, IsKid, IsOp, IsCapture, IsRebuild, RouteIsFollowed, RebuildIsKnown,
       OriginIsKnown

\* The operation ends.
LEMMA RouteReleases ==
  ASSUME RouteInv, Release, UNCHANGED <<child, cap, rebuild, slipped>>, IsKid(cand'),
         desc' = desc \/ desc'.st # "ready"
  PROVE  RouteInv'
BY DEF Release, Idle, RouteInv, RouteTypes, IsKid, IsOp, IsCapture, IsRebuild, RouteIsFollowed,
       RebuildIsKnown, OriginIsKnown, BeforeSwitch

\* The operation goes on to another place on the same side of the switch.
LEMMA RouteGoesOn ==
  ASSUME RouteInv, UNCHANGED <<child, cap, rebuild, slipped, holder, desc, flight>>, IsKid(cand'),
         IsOp(op'), op'.from = op.from, op.pc # "idle", holder # "nobody",
         op'.pc \in BeforeSwitch => op.pc \in BeforeSwitch,
         op'.pc \in {"s_watch", "s_switch"} => cand'.sess = op'.from
  PROVE  RouteInv'
BY DEF RouteInv, RouteTypes, IsKid, IsCapture, IsRebuild, RouteIsFollowed,
       RebuildIsKnown, OriginIsKnown

LEMMA RouteLaunches == ASSUME NEW s, Launched(s) PROVE RouteInv'
BY DEF Launched, Kid, NoKid, Idle, Capture, NoRebuild, Descriptor, RouteInv, RouteTypes, IsKid,
       IsOp, IsCapture, IsRebuild, RouteIsFollowed, RebuildIsKnown, OriginIsKnown, BeforeSwitch

LEMMA RouteStarts == RunInit => RouteInv
BY DEF RunInit, Kid, NoKid, Idle, Capture, NoRebuild, Descriptor, RouteInv, RouteTypes, IsKid,
       IsOp, IsCapture, IsRebuild, RouteIsFollowed, RebuildIsKnown, OriginIsKnown, BeforeSwitch

\* What a publication from a capture says: nothing new, or the capture's session.
LEMMA PublishedNames ==
  ASSUME NEW d, NEW c, NEW e \in Published(d, c), e.st = "ready"
  PROVE  e = d \/ e.sess = c.sess
BY DEF Published, Descriptor

LEMMA RouteCaptures ==
  ASSUME RouteInv, CaptureReady \/ CaptureDegrades \/ DrainingDegrades PROVE RouteInv'
<1> USE DEF RouteInv
<1>1. UNCHANGED <<child, cand, op, holder, flight, rebuild, slipped>>
  BY DEF CaptureReady, CaptureDegrades, DrainingDegrades, kidVars, opVars, seamVars
<1>2. CASE CaptureReady
  <2>1. cap' = [cap EXCEPT !.phase = "ready"] /\ cap.phase = "binding" /\ desc' \in Published(desc, cap')
    BY <1>2 DEF CaptureReady
  <2>2. cap'.sess = cap.sess /\ cap'.phase = "ready" /\ IsCapture(cap')
    BY <2>1 DEF RouteTypes, IsCapture
  <2>3. desc'.st = "ready" => desc' = desc \/ desc'.sess = cap.sess
    <3>1. desc'.st = "ready" => desc' = desc \/ desc'.sess = cap'.sess BY <2>1, PublishedNames
    <3> QED BY <2>2, <3>1
  <2> QED BY <1>1, <2>1, <2>2, <2>3
    DEF RouteTypes, IsKid, IsOp, IsRebuild, RouteIsFollowed, RebuildIsKnown, OriginIsKnown
<1>3. CASE CaptureDegrades
  <2>1. cap' = [cap EXCEPT !.phase = "degraded"] /\ cap.phase \in {"binding", "ready"}
    BY <1>3 DEF CaptureDegrades
  <2>2. cap'.sess = cap.sess /\ cap'.phase = "degraded" /\ IsCapture(cap')
    BY <2>1 DEF RouteTypes, IsCapture
  <2>3. desc' = desc \/ desc'.st # "ready" BY <1>3 DEF CaptureDegrades, RevokedByDegrade, Descriptor
  <2> QED BY <1>1, <2>1, <2>2, <2>3
    DEF RouteTypes, IsKid, IsOp, IsRebuild, RouteIsFollowed, RebuildIsKnown, OriginIsKnown
<1>4. CASE DrainingDegrades
  <2>1. cap' = cap /\ (desc' = desc \/ desc'.st # "ready")
    BY <1>4 DEF DrainingDegrades, RevokedByDegrade, Descriptor
  <2> QED BY <1>1, <2>1, RouteRests
<1> QED BY <1>2, <1>3, <1>4

\* A rebuild that lands replaces the capture by one of the same session, or has slipped.
LEMMA RouteRebuilds == ASSUME RouteInv, RebuildStops \/ RebuildLands PROVE RouteInv'
<1> USE DEF RouteInv
<1>1. UNCHANGED <<child, cand, op, holder, flight, desc>>
  BY DEF RebuildStops, RebuildLands, kidVars, opVars, seamVars
<1>2. CASE RebuildStops
  <2>1. rebuild' = [rebuild EXCEPT !.at = "stopping"] /\ rebuild.at = "due" /\ UNCHANGED <<cap, slipped>>
    BY <1>2 DEF RebuildStops
  <2> QED BY <1>1, <2>1
    DEF RouteTypes, IsKid, IsOp, IsCapture, IsRebuild, RouteIsFollowed, RebuildIsKnown, OriginIsKnown
<1>3. CASE RebuildLands
  <2>1. rebuild.at = "stopping" /\ rebuild'.at = "none" /\ IsRebuild(rebuild')
    BY <1>3 DEF RebuildLands, NoRebuild, IsRebuild
  <2>2. IsCapture(cap') BY <1>3 DEF RebuildLands, Capture, IsCapture, RouteTypes
  <2>3. ~slipped' => ~slipped /\ cap'.sess = cap.sess
    <3>1. CASE cap' = Capture(rebuild.sess) /\ slipped' = (slipped \/ (rebuild.forced /\ rebuild.overtaken))
      BY <2>1, <3>1 DEF Capture, RebuildIsKnown
    <3>2. CASE /\ cap' = IF rebuild.overtaken THEN cap ELSE [cap EXCEPT !.phase = "closed"]
               /\ UNCHANGED slipped
      BY <3>2 DEF RouteTypes, IsCapture
    <3> QED BY <1>3, <3>1, <3>2 DEF RebuildLands
  <2> QED BY <1>1, <2>1, <2>2, <2>3
    DEF RouteTypes, IsKid, IsOp, RouteIsFollowed, RebuildIsKnown, OriginIsKnown
<1> QED BY <1>2, <1>3

\* A settled seam flies, or has the capture rebuilt, never both.
LEMMA RouteSettles ==
  ASSUME RouteInv, NEW r \in Seams, NEW kept \in BOOLEAN, SettledSeam(r, kept) PROVE RouteInv'
<1> USE DEF RouteInv
<1>1. UNCHANGED <<child, cand, op, holder, handoff, slipped, desc>>
  BY DEF SettledSeam, kidVars, opVars
<1>2. CASE UNCHANGED <<flight, cap, rebuild>> BY <1>1, <1>2, RouteRests
<1>3. CASE /\ flight = NoFlight /\ holder = "nobody" /\ cap.phase = "degraded" /\ rebuild.at = "none"
           /\ flight' = flight
           /\ cap' = [cap EXCEPT !.tried = TRUE]
           /\ rebuild' = [NoRebuild EXCEPT !.at = "due", !.sess = cap.sess, !.forced = FALSE]
  BY <1>1, <1>3
  DEF NoRebuild, RouteTypes, IsKid, IsOp, IsCapture, IsRebuild, RouteIsFollowed, RebuildIsKnown, OriginIsKnown
<1>4. CASE cap.phase = "ready" /\ UNCHANGED <<cap, rebuild>>
  BY <1>1, <1>4
  DEF RouteTypes, IsKid, IsOp, IsCapture, IsRebuild, RouteIsFollowed, RebuildIsKnown, OriginIsKnown
<1> QED BY <1>2, <1>3, <1>4 DEF SettledSeam, RebuildDue, Busy

\* An operation begins with the session that is captured, and never beside a rebuild that
\* keeps the operations out.
LEMMA RouteBegins == ASSUME RouteInv, ManualBegins \/ AutoBegins PROVE RouteInv'
<1> USE DEF RouteInv
<1>1. UNCHANGED <<child, cand, cap, rebuild, slipped, desc>>
  BY DEF ManualBegins, AutoBegins, kidVars, capVars
<1>2. CASE UNCHANGED <<holder, op>> /\ flight' = NoFlight BY <1>1, <1>2, RouteRests
<1>3. CASE /\ cap.phase = "ready" \/ flight # NoFlight
           /\ holder' # "nobody" /\ flight' = flight
           /\ IsOp(op') /\ op'.from = cap.sess
           /\ op'.pc \in {"mutating", "refusing"}
  BY <1>1, <1>3
  DEF RouteTypes, IsKid, IsCapture, IsRebuild, RouteIsFollowed, RebuildIsKnown, OriginIsKnown
<1>4. CASE ManualBegins BY <1>3, <1>4 DEF ManualBegins, Idle, IsOp, seamVars
<1>5. CASE AutoBegins BY <1>2, <1>3, <1>5 DEF AutoBegins, Idle, IsOp
<1> QED BY <1>4, <1>5

\* Up to the switch the wrapper only looks for a viable replacement.
LEMMA RouteReplaces ==
  ASSUME RouteInv,
         MutationRebuilds \/ SpawnCandidate \/ CandidateExits \/ WatchCandidate \/ DiscardCandidate
  PROVE  RouteInv'
<1> USE DEF RouteInv
<1>1. UNCHANGED <<child, cap, rebuild, slipped, desc>>
  BY DEF MutationRebuilds, SpawnCandidate, CandidateExits, WatchCandidate, DiscardCandidate,
         kidVars, capVars
<1>2. op.pc # "idle" => holder # "nobody" BY DEF OriginIsKnown
<1>3. CASE MutationRebuilds
  <2>1. cand' = cand BY <1>3 DEF MutationRebuilds, kidVars
  <2>2. CASE Release BY <1>1, <2>1, <2>2, RouteReleases DEF RouteTypes
  <2>3. CASE Goto("spawn") /\ UNCHANGED <<holder, flight>>
    BY <1>1, <1>2, <1>3, <2>1, <2>3, RouteGoesOn
    DEF MutationRebuilds, At, Goto, RouteTypes, IsOp, IsKid, BeforeSwitch
  <2> QED BY <1>3, <2>2, <2>3 DEF MutationRebuilds
<1>4. CASE SpawnCandidate
  <2>1. UNCHANGED <<holder, flight>> /\ op.pc = "spawn" BY <1>4 DEF SpawnCandidate, At, seamVars
  <2>2. IsKid(cand') BY <1>4 DEF SpawnCandidate, Kid, IsKid, RouteTypes
  <2>3. IsOp(op') /\ op'.from = op.from /\ op'.pc \in {"watch", "spawn", "failed"}
    BY <1>4 DEF SpawnCandidate, At, Goto, IsOp, RouteTypes
  <2> QED BY <1>1, <1>2, <2>1, <2>2, <2>3, RouteGoesOn DEF BeforeSwitch
<1>5. CASE CandidateExits
  <2>1. UNCHANGED <<op, holder, flight>> BY <1>5 DEF CandidateExits, opVars, seamVars
  <2>2. IsKid(cand') /\ cand'.sess = cand.sess BY <1>5 DEF CandidateExits, IsKid, RouteTypes
  <2> QED BY <1>1, <2>1, <2>2
    DEF RouteTypes, RouteIsFollowed, RebuildIsKnown, OriginIsKnown, IsOp, IsKid, IsCapture, IsRebuild
<1>6. CASE WatchCandidate
  <2>1. UNCHANGED <<cand, holder, flight>> BY <1>6 DEF WatchCandidate, kidVars, seamVars
  <2>2. /\ IsOp(op') /\ op'.from = op.from /\ op.pc \in {"watch", "s_watch"}
        /\ op'.pc \in {"switch", "discard", "s_switch", "s_discard"}
        /\ op'.pc \in {"s_watch", "s_switch"} => op.pc = "s_watch"
    BY <1>6 DEF WatchCandidate, At, Goto, IsOp, RouteTypes
  <2> QED BY <1>1, <1>2, <2>1, <2>2, RouteGoesOn DEF BeforeSwitch, RouteTypes, OriginIsKnown
<1>7. CASE DiscardCandidate
  <2>1. UNCHANGED <<holder, flight>> /\ op.pc = "discard" BY <1>7 DEF DiscardCandidate, At, seamVars
  <2>2. IsKid(cand') BY <1>7 DEF DiscardCandidate, NoKid, Kid, IsKid
  <2>3. IsOp(op') /\ op'.from = op.from /\ op'.pc = "spawn"
    BY <1>7 DEF DiscardCandidate, Goto, IsOp, RouteTypes
  <2> QED BY <1>1, <1>2, <2>1, <2>2, <2>3, RouteGoesOn DEF BeforeSwitch
<1> QED BY <1>3, <1>4, <1>5, <1>6, <1>7

\* The switch takes the capture along, and whatever rebuild is in flight is overtaken.
LEMMA RouteSwitches == ASSUME RouteInv, SwitchToCandidate PROVE RouteInv'
<1> USE DEF RouteInv
<1>1. op.pc = "switch" /\ holder # "nobody" /\ UNCHANGED <<holder, flight>>
  BY DEF SwitchToCandidate, At, OriginIsKnown, seamVars
<1>2. IsOp(op') /\ op'.from = op.from /\ op'.pc \in {"failed", "old"}
  BY DEF SwitchToCandidate, Goto, IsOp, RouteTypes
<1>3. IsKid(cand') BY DEF SwitchToCandidate, NoKid, Kid, IsKid
<1>4. CASE UNCHANGED <<child, capVars, desc>>
  BY <1>1, <1>2, <1>3, <1>4, RouteGoesOn DEF capVars, BeforeSwitch
<1>5. CASE child' = cand /\ desc' \in AdoptedDescriptors /\ CaptureSwitches(cand.sess) /\ op'.pc = "old"
  <2>1. cap'.sess = cand.sess /\ IsCapture(cap') /\ slipped' = slipped
    <3>1. cap' = Capture(cand.sess) \/ cap' = [cap EXCEPT !.sess = cand.sess, !.phase = "none"]
      BY <1>5 DEF CaptureSwitches
    <3>2. cap = [sess |-> cap.sess, phase |-> cap.phase, tried |-> cap.tried]
      BY DEF RouteTypes, IsCapture
    <3>3. \/ cap' = [sess |-> cand.sess, phase |-> "binding", tried |-> FALSE]
          \/ cap' = [sess |-> cand.sess, phase |-> "none", tried |-> cap.tried]
      BY <3>1, <3>2 DEF Capture
    <3>4. cap'.sess = cand.sess /\ IsCapture(cap') BY <3>3 DEF IsCapture
    <3> QED BY <1>5, <3>4 DEF CaptureSwitches
  <2>2. /\ IsRebuild(rebuild') /\ rebuild'.at = rebuild.at /\ rebuild'.forced = rebuild.forced
        /\ rebuild.at # "none" => rebuild'.overtaken
    <3>1. rebuild' = [rebuild EXCEPT !.overtaken = rebuild.overtaken \/ rebuild.at # "none"]
      BY <1>5 DEF CaptureSwitches
    <3>2. DOMAIN rebuild = {"at", "sess", "forced", "overtaken"} BY DEF RouteTypes, IsRebuild
    <3>3. rebuild'.at = rebuild.at /\ rebuild'.forced = rebuild.forced /\ IsRebuild(rebuild')
      BY <3>1, <3>2 DEF IsRebuild
    <3>4. rebuild'.overtaken = (rebuild.overtaken \/ rebuild.at # "none") BY <3>1, <3>2
    <3> QED BY <3>3, <3>4
  <2>3. desc'.st # "ready" BY <1>5 DEF AdoptedDescriptors, Descriptor
  <2>4. RouteIsFollowed' BY <1>5, <2>1, <2>3 DEF RouteIsFollowed
  <2>5. RebuildIsKnown' BY <1>1, <2>2 DEF RebuildIsKnown
  <2>6. OriginIsKnown' BY <1>1, <1>5 DEF OriginIsKnown, BeforeSwitch
  <2>7. RouteTypes' BY <1>2, <1>3, <1>5, <2>1, <2>2 DEF RouteTypes
  <2> QED BY <2>4, <2>5, <2>6, <2>7
<1>6. CASE cand.told BY <1>4, <1>6 DEF SwitchToCandidate
<1>7. CASE ~cand.told BY <1>2, <1>5, <1>7 DEF SwitchToCandidate, Goto, RouteTypes, IsOp
<1> QED BY <1>6, <1>7

\* After the switch: the old child goes, and the capture may be rebuilt and published.
LEMMA RouteAwaits ==
  ASSUME RouteInv, OldEnds \/ RetainOld \/ TerminateOld \/ AwaitCapture PROVE RouteInv'
<1> USE DEF RouteInv
<1>1. UNCHANGED <<child, cand, holder, flight, slipped>> /\ op.pc \in {"old", "capture"}
      /\ holder # "nobody"
  BY DEF OldEnds, RetainOld, TerminateOld, AwaitCapture, At, opVars, capVars, seamVars, OriginIsKnown
<1>2. CASE OldEnds BY <1>1, <1>2, RouteRests DEF OldEnds, opVars, capVars
<1>3. CASE RetainOld \/ TerminateOld
  BY <1>1, <1>3, RouteGoesOn
  DEF RetainOld, TerminateOld, Goto, capVars, RouteTypes, IsOp, BeforeSwitch
<1>4. CASE AwaitCapture
  <2>1. IsOp(op') /\ op'.pc = "settle" BY <1>4 DEF AwaitCapture, Goto, RouteTypes, IsOp
  <2>2. /\ cap'.sess = cap.sess /\ IsCapture(cap') /\ IsRebuild(rebuild')
        /\ rebuild' = rebuild
           \/ (rebuild'.sess = cap.sess /\ rebuild'.forced /\ ~rebuild'.overtaken)
    <3>1. CASE cap' = cap /\ rebuild' = rebuild
      <4>1. IsCapture(cap) /\ IsRebuild(rebuild) BY DEF RouteTypes
      <4> QED BY <3>1, <4>1
    <3>2. CASE /\ cap' = [cap EXCEPT !.tried = TRUE]
               /\ rebuild' = [at |-> "due", sess |-> cap.sess, forced |-> TRUE, overtaken |-> FALSE]
      BY <3>2 DEF RouteTypes, IsCapture, IsRebuild
    <3> QED BY <1>4, <3>1, <3>2 DEF AwaitCapture, RebuildDue, NoRebuild
  <2>3. desc'.st = "ready" => desc' = desc \/ desc'.sess = cap.sess
    BY <1>4, PublishedNames DEF AwaitCapture
  <2>4. RouteIsFollowed' BY <1>1, <2>2, <2>3 DEF RouteIsFollowed
  <2>5. RebuildIsKnown' BY <1>1, <2>2 DEF RebuildIsKnown
  <2>6. OriginIsKnown' BY <1>1, <2>1 DEF OriginIsKnown, BeforeSwitch
  <2>7. RouteTypes' BY <1>1, <2>1, <2>2 DEF RouteTypes
  <2> QED BY <2>4, <2>5, <2>6, <2>7
<1> QED BY <1>2, <1>3, <1>4

\* The end of an operation, whatever it came to.
LEMMA RouteFinishes ==
  ASSUME RouteInv, Finish, UNCHANGED <<child, cap, rebuild, slipped>>, IsKid(cand') PROVE RouteInv'
BY RouteReleases DEF Finish, Leaves, Descriptor

LEMMA RouteEnds ==
  ASSUME RouteInv, MutationEnds \/ HandoffSucceeds \/ HandoffFails PROVE RouteInv'
<1> USE DEF RouteInv
<1>1. UNCHANGED <<child, cand, cap, rebuild, slipped>>
  BY DEF MutationEnds, HandoffSucceeds, HandoffFails, kidVars, capVars
<1>2. CASE Release /\ desc' = desc BY <1>1, <1>2, RouteReleases DEF RouteTypes
<1>3. CASE Finish BY <1>1, <1>3, RouteFinishes DEF RouteTypes
<1>4. CASE op.pc = "failed" /\ Goto("s_spawn") /\ UNCHANGED <<holder, flight, desc>>
  BY <1>1, <1>4, RouteGoesOn DEF Goto, RouteTypes, IsOp, BeforeSwitch, OriginIsKnown
<1> QED BY <1>2, <1>3, <1>4 DEF MutationEnds, HandoffSucceeds, HandoffFails, At

\* The survival puts a new child of the captured session on the route.
LEMMA RouteSurvives == ASSUME RouteInv, SurvivalSpawn \/ SurvivalSwitch PROVE RouteInv'
<1> USE DEF RouteInv
<1>1. UNCHANGED <<cap, rebuild, slipped>> /\ op.pc \in {"s_spawn", "s_discard", "s_switch", "s_kill"}
      /\ holder # "nobody"
  BY DEF SurvivalSpawn, SurvivalSwitch, At, capVars, OriginIsKnown
<1>2. IsKid(cand') BY DEF SurvivalSpawn, SurvivalSwitch, NoKid, Kid, IsKid, RouteTypes
<1>3. CASE Finish /\ UNCHANGED child BY <1>1, <1>2, <1>3, RouteFinishes
<1>4. CASE cand' = Kid(op.from) /\ op.pc = "s_spawn" /\ Goto("s_watch")
           /\ UNCHANGED <<child, holder, flight, desc>>
  BY <1>1, <1>2, <1>4, RouteGoesOn DEF Goto, Kid, RouteTypes, IsOp, BeforeSwitch
<1>5. CASE /\ child' = cand /\ op.pc = "s_switch" /\ Goto("s_kill") /\ UNCHANGED <<holder, flight>>
           /\ desc' \in UNION {Published(d, cap) : d \in AdoptedDescriptors}
  <2>1. IsOp(op') /\ op'.pc = "s_kill" BY <1>5 DEF Goto, RouteTypes, IsOp
  <2>2. ~slipped => cand.sess = cap.sess BY <1>5 DEF OriginIsKnown, BeforeSwitch
  <2>3. desc'.st = "ready" => desc'.sess = cap.sess
    <3>1. PICK d \in AdoptedDescriptors : desc' \in Published(d, cap) BY <1>5
    <3> QED BY <3>1, PublishedNames DEF AdoptedDescriptors, Descriptor
  <2>4. RouteIsFollowed' BY <1>1, <1>5, <2>2, <2>3 DEF RouteIsFollowed
  <2>5. RebuildIsKnown' BY <1>1, <1>5 DEF RebuildIsKnown
  <2>6. OriginIsKnown' BY <1>1, <1>5, <2>1 DEF OriginIsKnown, BeforeSwitch
  <2>7. RouteTypes' BY <1>1, <1>2, <1>5, <2>1 DEF RouteTypes
  <2> QED BY <2>4, <2>5, <2>6, <2>7
<1>6. CASE SurvivalSpawn BY <1>3, <1>4, <1>6 DEF SurvivalSpawn, At, seamVars
<1>7. CASE SurvivalSwitch BY <1>3, <1>5, <1>7 DEF SurvivalSwitch, At
<1> QED BY <1>6, <1>7

\* Every step keeps the route's invariant.
LEMMA RouteStep == RouteInv /\ [RunNext]_runVars => RouteInv'
<1> SUFFICES ASSUME RouteInv, [RunNext]_runVars PROVE RouteInv' OBVIOUS
<1>1. CASE UNCHANGED runVars
  BY <1>1, RouteRests DEF runVars, kidVars, opVars, capVars, seamVars
<1>2. CASE RoutedExits
  <2>1. UNCHANGED <<cand, op, holder, cap, rebuild, slipped, flight>>
        /\ (desc' = desc \/ desc'.st # "ready")
    BY <1>2 DEF RoutedExits, Leaves, Descriptor, opVars, capVars, seamVars
  <2>2. IsKid(child') /\ child'.sess = child.sess
    BY <1>2 DEF RoutedExits, RouteInv, RouteTypes, IsKid
  <2> QED BY <2>1, <2>2
    DEF RouteInv, RouteTypes, RouteIsFollowed, RebuildIsKnown, OriginIsKnown, IsKid, IsOp, IsCapture,
        IsRebuild
<1>3. CASE ProcessEnds \/ Relaunch BY <1>3, RouteLaunches DEF ProcessEnds, Relaunch
<1>4. CASE CaptureReady \/ CaptureDegrades \/ DrainingDegrades BY <1>4, RouteCaptures
<1>5. CASE RebuildStops \/ RebuildLands BY <1>5, RouteRebuilds
<1>6. CASE \E r \in Seams, kept \in BOOLEAN : SettledSeam(r, kept) BY <1>6, RouteSettles
<1>7. CASE ManualBegins \/ AutoBegins BY <1>7, RouteBegins
<1>8. CASE MutationEnds \/ HandoffSucceeds \/ HandoffFails BY <1>8, RouteEnds
<1>9. CASE MutationRebuilds \/ SpawnCandidate \/ CandidateExits \/ WatchCandidate \/ DiscardCandidate
  BY <1>9, RouteReplaces
<1>10. CASE SwitchToCandidate BY <1>10, RouteSwitches
<1>11. CASE OldEnds \/ RetainOld \/ TerminateOld \/ AwaitCapture BY <1>11, RouteAwaits
<1>12. CASE SurvivalSpawn \/ SurvivalSwitch BY <1>12, RouteSurvives
<1> QED BY <1>1, <1>2, <1>3, <1>4, <1>5, <1>6, <1>7, <1>8, <1>9, <1>10, <1>11, <1>12 DEF RunNext

\* The capture records the routed child's session, and a ready descriptor names it, for any
\* number of sessions, handoffs, rebuilds and launches; the exception is a forced rebuild
\* that lands over the capture of a later handoff (switchCaptureToRebuilt,
\* rebuildCaptureFromTranscript).
THEOREM CaptureFollowsChild == RunSpec => []CaptureFollowsRoute
<1>1. RouteInv => CaptureFollowsRoute BY DEF RouteInv, RouteIsFollowed, CaptureFollowsRoute
<1> QED BY RouteStarts, RouteStep, <1>1, PTL DEF RunSpec

-----------------------------------------------------------------------------
(* The capture of a transcript.                                            *)

Line == [id : Nat, st : LineStates]

\* Only the last line is ever without its newline, and one that no living child wrote is
\* there only because its repair was refused.
FileKnown ==
  /\ file \in Seq(Line)
  /\ \A i \in 1..Len(file) - 1 : Ended(file[i])
  /\ Torn /\ ~mine => refused

\* The prefix and what has been read are lines with their newline.
ReadKnown ==
  /\ base \in Nat /\ base <= Len(file) /\ \A i \in 1..base : Ended(file[i])
  /\ offset \in Nat /\ offset <= Len(file) /\ \A i \in 1..offset : Ended(file[i])
  /\ queue \in Seq(Seq(Line))

\* What the record and the prefix say.
Said == {text[id] : id \in recorded \cup 1..base}

\* A batch that is read and not committed has the line.
Waits(l) == \E b \in 1..Len(queue) : \E k \in 1..Len(queue[b]) : queue[b][k] = l

\* What is known by content is said, and the lines a capture has passed wait or are said.
GapKnown ==
  /\ seen \subseteq Said /\ signed \subseteq Said
  /\ phase \in {"binding", "ready"} =>
       \A i \in base + 1..offset : Waits(file[i]) \/ (file[i].st = "line" /\ text[file[i].id] \in Said)

CaptureInv == FileKnown /\ ReadKnown /\ GapKnown /\ WholeLinesSurvive

--------------------------------------------------------------------------
\* What happens to the file.

LEMMA LineIsWritten == \A l \in Line : l.id \in Nat /\ l.st \in LineStates
BY DEF Line

\* The last line changes its state and nothing else.
LEMMA TailChanges ==
  ASSUME FileKnown, Torn, NEW st \in LineStates
  PROVE  LET f == NewTail(st) n == Len(file) IN
         /\ n \in Nat \ {0} /\ f \in Seq(Line) /\ Len(f) = n
         /\ \A i \in 1..n - 1 : f[i] = file[i]
         /\ f[n].st = st /\ f[n].id = file[n].id
<1> DEFINE n == Len(file)
           l == [file[n] EXCEPT !.st = st]
<1>1. file \in Seq(Line) /\ file # <<>> BY DEF FileKnown, Torn
<1>2. n \in Nat \ {0} BY <1>1, EmptySeq
<1>3. file[n] \in Line BY <1>1, <1>2, ElementOfSeq
<1>4. l \in Line /\ l.st = st /\ l.id = file[n].id BY <1>3 DEF Line
<1>5. NewTail(st) = [file EXCEPT ![n] = l] BY DEF NewTail
<1> QED BY <1>1, <1>2, <1>4, <1>5, ExceptSeq

LEMMA LineBegins ==
  ASSUME FileKnown, NEW l \in Line
  PROVE  LET f == Append(file, l) n == Len(file) IN
         /\ n \in Nat /\ f \in Seq(Line) /\ Len(f) = n + 1
         /\ \A i \in 1..n : f[i] = file[i]
         /\ f[n + 1] = l
BY AppendProperties, LenProperties DEF FileKnown

LEMMA LineDrops ==
  ASSUME FileKnown, Torn
  PROVE  LET f == Front(file) n == Len(file) IN
         /\ n \in Nat \ {0} /\ f \in Seq(Line) /\ Len(f) = n - 1
         /\ \A i \in 1..n - 1 : f[i] = file[i]
<1>1. file \in Seq(Line) /\ file # <<>> /\ Len(file) \in Nat \ {0}
  BY EmptySeq DEF FileKnown, Torn
<1>2. \A i \in 1..Len(file) - 1 : file[i] \in Line BY <1>1, ElementOfSeq
<1> DEFINE f == SubSeq(file, 1, Len(file) - 1)
<1>3. /\ f \in Seq(Line)
      /\ Len(f) = IF 1 <= Len(file) - 1 THEN Len(file) - 1 - 1 + 1 ELSE 0
      /\ \A i \in 1..Len(file) - 1 - 1 + 1 : f[i] = file[1 + i - 1]
  <2>1. 1 \in Int /\ Len(file) - 1 \in Int BY <1>1
  <2> QED BY <1>2, <2>1, SubSeqProperties
<1> HIDE DEF f
<1>4. f \in Seq(Line) /\ Len(f) = Len(file) - 1
  <2> DEFINE n == Len(file)
  <2>1. n \in Nat \ {0} /\ Len(f) = IF 1 <= n - 1 THEN n - 1 - 1 + 1 ELSE 0 BY <1>1, <1>3
  <2> HIDE DEF n
  <2>2. Len(f) = n - 1 BY <2>1
  <2> QED BY <1>3, <2>2 DEF n
<1>5. \A i \in 1..Len(file) - 1 : f[i] = file[i] BY <1>1, <1>3
<1>6. Front(file) = f BY DEF Front, f
<1> QED BY <1>1, <1>4, <1>5, <1>6

\* A torn tail has not been read.
LEMMA TailIsUnread ==
  ASSUME FileKnown, ReadKnown, Torn
  PROVE  base <= Len(file) - 1 /\ offset <= Len(file) - 1 /\ Len(file) \in Nat \ {0}
<1>1. Len(file) \in Nat \ {0} /\ ~Ended(file[Len(file)])
  BY EmptySeq DEF FileKnown, Torn, LastLine
<1>2. base # Len(file) /\ offset # Len(file) BY <1>1 DEF ReadKnown
<1> QED BY <1>1, <1>2 DEF ReadKnown

\* What is read and recorded rests on the lines that are read.
LEMMA ReadRests ==
  ASSUME FileKnown, ReadKnown, GapKnown, UNCHANGED <<lineVars, captureVars, recordVars>>,
         Len(file') \in Nat, base <= Len(file'), offset <= Len(file'),
         \A i \in 1..Len(file) : i <= base \/ i <= offset => file'[i] = file[i]
  PROVE  ReadKnown' /\ GapKnown'
<1>1. UNCHANGED <<text, base, offset, queue, seen, signed, recorded, phase>>
  BY DEF lineVars, captureVars, recordVars
<1>2. ReadKnown'
  <2>1. \A i \in 1..base : file'[i] = file[i] BY DEF ReadKnown
  <2>2. \A i \in 1..offset : file'[i] = file[i] BY DEF ReadKnown
  <2> QED BY <1>1, <2>1, <2>2 DEF ReadKnown
<1>3. GapKnown'
  <2>1. Said' = Said /\ \A l : Waits(l)' <=> Waits(l) BY <1>1 DEF Said, Waits
  <2>2. \A i \in base + 1..offset : file'[i] = file[i] BY DEF ReadKnown
  <2> QED BY <1>1, <2>1, <2>2 DEF GapKnown
<1> QED BY <1>2, <1>3

\* What is read lies before the last line.
LEMMA ReadIsBefore ==
  ASSUME ReadKnown, NEW n \in Nat, base <= n - 1, offset <= n - 1,
         \A i \in 1..n - 1 : file'[i] = file[i]
  PROVE  \A i \in 1..n : i <= base \/ i <= offset => file'[i] = file[i]
<1> SUFFICES ASSUME NEW i \in 1..n, i <= base \/ i <= offset PROVE file'[i] = file[i]
  OBVIOUS
<1>1. base \in Nat /\ offset \in Nat BY DEF ReadKnown
<1>2. i \in 1..n - 1 BY <1>1
<1> QED BY <1>2

\* A line that was whole is still there when the lines that are bare or end stay as they are.
LEMMA WholeStays ==
  ASSUME FileKnown, WholeLinesSurvive, refused \/ whole' = whole, refused => refused',
         \A i \in DOMAIN file : file[i].st \in {"bare", "line"} =>
           /\ i \in DOMAIN file' /\ file'[i].id = file[i].id
           /\ file'[i].st \in {"bare", "line"}
  PROVE  WholeLinesSurvive'
BY DEF WholeLinesSurvive

\* A new line, or the tail of another one goes on.
LEMMA WriteBeginsKeeps == CaptureInv /\ WriteBegins => CaptureInv'
<1> SUFFICES ASSUME CaptureInv, WriteBegins PROVE CaptureInv' OBVIOUS
<1> USE DEF CaptureInv
<1> DEFINE n == Len(file)
<1>1. /\ mine' /\ UNCHANGED <<whole, refused, lineVars, captureVars, recordVars>>
      /\ n \in Nat /\ DOMAIN file = 1..n
  BY LenProperties DEF WriteBegins, FileKnown
<1>2. CASE Torn
  <2>1. file' = NewTail("glued") /\ ~mine /\ refused BY <1>2 DEF WriteBegins, FileKnown
  <2>2. /\ n \in Nat \ {0} /\ file' \in Seq(Line) /\ Len(file') = n
        /\ \A i \in 1..n - 1 : file'[i] = file[i]
    BY <1>2, <2>1, TailChanges DEF LineStates
  <2>3. base <= n - 1 /\ offset <= n - 1 BY <1>2, TailIsUnread
  <2>4. ReadKnown' /\ GapKnown'
    <3> HIDE DEF n
    <3>1. n \in Nat /\ base \in Nat /\ offset \in Nat BY <1>1 DEF ReadKnown
    <3>2. \A i \in 1..n : i <= base \/ i <= offset => file'[i] = file[i]
      BY <2>2, <2>3, <3>1, ReadIsBefore
    <3>3. base <= Len(file') /\ offset <= Len(file') BY <2>2, <2>3, <3>1
    <3>4. Len(file') \in Nat BY <2>2, <3>1
    <3>5. \A i \in 1..Len(file) : i <= base \/ i <= offset => file'[i] = file[i] BY <3>2 DEF n
    <3> QED BY <1>1, <3>3, <3>4, <3>5, ReadRests
  <2>5. FileKnown' BY <1>1, <2>2 DEF FileKnown, Ended
  <2>6. WholeLinesSurvive' BY <1>1, <2>1 DEF WholeLinesSurvive
  <2> QED BY <2>4, <2>5, <2>6
<1>3. CASE ~Torn
  <2> DEFINE l == [id |-> n + 1, st |-> "torn"]
  <2>1. file' = Append(file, l) BY <1>3 DEF WriteBegins
  <2>2. l \in Line BY <1>1 DEF Line, LineStates
  <2>3. /\ file' \in Seq(Line) /\ Len(file') = n + 1 /\ \A i \in 1..n : file'[i] = file[i]
    BY <2>1, <2>2, LineBegins
  <2>4. ReadKnown' /\ GapKnown'
    <3>1. base \in Nat /\ offset \in Nat /\ base <= n /\ offset <= n BY DEF ReadKnown
    <3>2. Len(file') \in Nat /\ base <= Len(file') /\ offset <= Len(file') BY <1>1, <2>3, <3>1
    <3> QED BY <1>1, <2>3, <3>2, ReadRests
  <2>5. \A i \in 1..n : Ended(file[i])
    BY <1>1, <1>3 DEF FileKnown, Torn, LastLine
  <2>6. FileKnown' BY <1>1, <2>3, <2>5 DEF FileKnown, Ended
  <2>7. DOMAIN file' = 1..n + 1 BY <2>3, LenProperties
  <2>8. WholeLinesSurvive' BY <1>1, <2>3, <2>7, WholeStays
  <2> QED BY <2>4, <2>6, <2>8
<1> QED BY <1>2, <1>3

\* A line gets its text, or its newline.
LEMMA WriteEndsKeeps == CaptureInv /\ WriteEnds => CaptureInv'
<1> SUFFICES ASSUME CaptureInv, WriteEnds PROVE CaptureInv' OBVIOUS
<1> USE DEF CaptureInv
<1> DEFINE n == Len(file)
<1>1. /\ Torn /\ mine /\ mine' = mine /\ UNCHANGED <<refused, lineVars, captureVars, recordVars>>
      /\ n \in Nat /\ DOMAIN file = 1..n
  BY LenProperties DEF WriteEnds, FileKnown
<1>2. PICK st \in {"bare", "line", "bad"} :
        /\ file' = NewTail(st)
        /\ (st = "bare") => (whole' = whole \cup {file[n].id})
        /\ (st # "bare") => (whole' = whole)
        /\ st = "bad" => file[n].st = "glued"
  BY DEF WriteEnds, LastLine
<1>3. /\ n \in Nat \ {0} /\ file' \in Seq(Line) /\ Len(file') = n
      /\ \A i \in 1..n - 1 : file'[i] = file[i]
      /\ file'[n].st = st /\ file'[n].id = file[n].id
  BY <1>1, <1>2, TailChanges DEF LineStates
<1>4. base <= n - 1 /\ offset <= n - 1 BY <1>1, TailIsUnread
<1>5. ReadKnown' /\ GapKnown'
  <2> HIDE DEF n
  <2>1. n \in Nat /\ base \in Nat /\ offset \in Nat BY <1>1 DEF ReadKnown
  <2>2. \A i \in 1..n : i <= base \/ i <= offset => file'[i] = file[i]
    BY <1>3, <1>4, <2>1, ReadIsBefore
  <2>3. base <= Len(file') /\ offset <= Len(file') BY <1>3, <1>4, <2>1
  <2>4. Len(file') \in Nat BY <1>3, <2>1
  <2>5. \A i \in 1..Len(file) : i <= base \/ i <= offset => file'[i] = file[i] BY <2>2 DEF n
  <2> QED BY <1>1, <2>3, <2>4, <2>5, ReadRests
<1>6. FileKnown' BY <1>1, <1>3 DEF FileKnown, Ended
<1>7. DOMAIN file' = 1..n BY <1>3, LenProperties
<1>8. WholeLinesSurvive'
  <2>1. \A i \in 1..n : file[i].st \in {"bare", "line"} =>
          (file'[i].id = file[i].id /\ file'[i].st \in {"bare", "line"})
    BY <1>2, <1>3
  <2>2. \A id \in whole' : id \in whole \/ (id = file'[n].id /\ file'[n].st = "bare")
    BY <1>2, <1>3
  <2> QED BY <1>1, <1>3, <1>7, <2>1, <2>2 DEF WholeLinesSurvive
<1> QED BY <1>5, <1>6, <1>8

--------------------------------------------------------------------------
\* Launch and death.

\* A capture that starts has passed nothing and knows what the lineage database has.
LEMMA StartsKnown ==
  ASSUME ReadKnown, GapKnown, CaptureStarts, UNCHANGED <<lineVars, recordVars>>,
         Len(file') \in Nat, base <= Len(file'), \A i \in 1..base : file'[i] = file[i]
  PROVE  ReadKnown' /\ GapKnown'
<1>1. /\ UNCHANGED <<text, base, signed, recorded>> /\ offset' = base /\ queue' = <<>>
      /\ seen' = signed'
  BY DEF CaptureStarts, lineVars, recordVars
<1>2. <<>> \in Seq(Seq(Line)) BY EmptySeq
<1>3. ReadKnown' BY <1>1, <1>2 DEF ReadKnown
<1>4. Said' = Said BY <1>1 DEF Said
<1>5. base + 1..base = {} BY DEF ReadKnown
<1> QED BY <1>1, <1>3, <1>4, <1>5 DEF GapKnown

LEMMA LaunchKeeps == CaptureInv /\ LaunchWrapper => CaptureInv'
<1> SUFFICES ASSUME CaptureInv, LaunchWrapper PROVE CaptureInv' OBVIOUS
<1> USE DEF CaptureInv
<1> DEFINE n == Len(file)
<1>1. /\ mine' = FALSE /\ CaptureStarts /\ UNCHANGED <<whole, lineVars, recordVars>>
      /\ n \in Nat /\ DOMAIN file = 1..n /\ base <= n
  BY LenProperties DEF LaunchWrapper, FileKnown, ReadKnown
<1>2. CASE file' = file /\ (refused' = (refused \/ Torn) \/ (~Torn /\ refused' = refused))
  <2>1. ReadKnown' /\ GapKnown' BY <1>1, <1>2, StartsKnown
  <2>2. Torn' = Torn BY <1>2 DEF Torn, LastLine
  <2>3. FileKnown' BY <1>2, <2>2 DEF FileKnown
  <2>4. WholeLinesSurvive' BY <1>1, <1>2 DEF WholeLinesSurvive
  <2> QED BY <2>1, <2>3, <2>4
<1>3. CASE Torn /\ file' = NewTail("line") /\ LastLine.st = "bare" /\ refused' = refused
  <2>1. /\ n \in Nat \ {0} /\ file' \in Seq(Line) /\ Len(file') = n
        /\ \A i \in 1..n - 1 : file'[i] = file[i]
        /\ file'[n].st = "line" /\ file'[n].id = file[n].id
    BY <1>3, TailChanges DEF LineStates
  <2>2. base <= n - 1 BY <1>3, TailIsUnread
  <2>3. ReadKnown' /\ GapKnown' BY <1>1, <2>1, <2>2, StartsKnown DEF ReadKnown
  <2>4. ~Torn' BY <2>1 DEF Torn, LastLine, Ended
  <2>5. FileKnown' BY <2>1, <2>4 DEF FileKnown, Ended
  <2>6. DOMAIN file' = 1..n BY <2>1, LenProperties
  <2>7. WholeLinesSurvive' BY <1>1, <1>3, <2>1, <2>6, WholeStays
  <2> QED BY <2>3, <2>5, <2>7
<1>4. CASE Torn /\ file' = Front(file) /\ LastLine.st # "bare" /\ refused' = refused
  <2>1. /\ n \in Nat \ {0} /\ file' \in Seq(Line) /\ Len(file') = n - 1
        /\ \A i \in 1..n - 1 : file'[i] = file[i]
    BY <1>4, LineDrops
  <2>2. base <= n - 1 BY <1>4, TailIsUnread
  <2>3. ReadKnown' /\ GapKnown' BY <1>1, <2>1, <2>2, StartsKnown DEF ReadKnown
  <2>4. ~Torn' BY <2>1, LenProperties DEF Torn, LastLine, FileKnown
  <2>5. FileKnown' BY <2>1, <2>4 DEF FileKnown, Ended
  <2>6. DOMAIN file' = 1..n - 1 BY <2>1, LenProperties
  <2>7. file[n].st \notin {"bare", "line"} BY <1>4 DEF Torn, LastLine, Ended
  <2>8. WholeLinesSurvive' BY <1>1, <1>4, <2>1, <2>6, <2>7, WholeStays
  <2> QED BY <2>3, <2>5, <2>8
<1> QED BY <1>2, <1>3, <1>4 DEF LaunchWrapper, RepairedTail

\* The wrapper dies: nothing is read or known by content any more.
LEMMA WrapperDiesKeeps == CaptureInv /\ WrapperDies => CaptureInv'
<1> SUFFICES ASSUME CaptureInv, WrapperDies PROVE CaptureInv' OBVIOUS
<1>1. /\ UNCHANGED <<file, mine, whole, refused, text, base, signed, recorded>>
      /\ phase' = "none" /\ offset' = 0 /\ queue' = <<>> /\ seen' = {}
  BY DEF WrapperDies, lineVars, fileVars, recordVars
<1>2. <<>> \in Seq(Seq(Line)) BY EmptySeq
<1>3. ReadKnown' BY <1>1, <1>2 DEF CaptureInv, ReadKnown, FileKnown
<1>4. GapKnown' BY <1>1 DEF CaptureInv, GapKnown, Said
<1>5. FileKnown' BY <1>1 DEF CaptureInv, FileKnown, Torn, LastLine
<1> QED BY <1>1, <1>3, <1>4, <1>5 DEF CaptureInv, WholeLinesSurvive

--------------------------------------------------------------------------
\* Watcher and batches.

\* What a read delivers: the lines after those already read, up to the last newline.
LEMMA UnreadIs ==
  ASSUME FileKnown, ReadKnown
  PROVE  /\ Unread \in Seq(Line) /\ Len(Unread) \in Nat
         /\ offset + Len(Unread) <= Len(file)
         /\ \A i \in offset + 1..offset + Len(Unread) :
              /\ Ended(file[i]) /\ i - offset \in 1..Len(Unread) /\ Unread[i - offset] = file[i]
<1> DEFINE n == IF Torn THEN Len(file) - 1 ELSE Len(file)
           m == offset + 1
<1>1. /\ Len(file) \in Nat /\ offset \in Nat /\ n \in Nat /\ offset <= n /\ n <= Len(file)
  BY TailIsUnread, LenProperties DEF FileKnown, ReadKnown
<1>2. \A i \in 1..n : Ended(file[i]) BY <1>1 DEF FileKnown, Torn, LastLine
<1>3. \A i \in m..n : file[i] \in Line BY <1>1, ElementOfSeq DEF FileKnown
<1>4. Unread = SubSeq(file, m, n) BY DEF Unread
<1> HIDE DEF n
<1>5. m \in Int /\ n \in Int BY <1>1
<1>6. /\ Unread \in Seq(Line)
      /\ Len(Unread) = IF m <= n THEN n - m + 1 ELSE 0
      /\ \A i \in 1..n - m + 1 : Unread[i] = file[m + i - 1]
  BY <1>3, <1>4, <1>5, SubSeqProperties
<1>7. Len(Unread) = n - offset
  <2>1. m = offset + 1 OBVIOUS
  <2> HIDE DEF m
  <2> QED BY <1>1, <1>6, <2>1
<1>8. \A i \in m..n : Unread[i - offset] = file[i]
  <2> TAKE i \in m..n
  <2>1. i - offset \in 1..n - m + 1 /\ m + (i - offset) - 1 = i BY <1>1
  <2> QED BY <1>6, <2>1
<1> QED BY <1>1, <1>2, <1>6, <1>7, <1>8

LEMMA QueuedIs ==
  ASSUME FileKnown, ReadKnown
  PROVE  /\ Queued \in Seq(Seq(Line))
         /\ \A b \in 1..Len(queue) : b \in 1..Len(Queued) /\ Queued[b] = queue[b]
         /\ Unread # <<>> => Len(Queued) \in 1..Len(Queued) /\ Queued[Len(Queued)] = Unread
<1>1. queue \in Seq(Seq(Line)) /\ Unread \in Seq(Line) /\ Len(queue) \in Nat
  BY UnreadIs, LenProperties DEF ReadKnown
<1>2. CASE Unread = <<>> BY <1>1, <1>2 DEF Queued
<1>3. CASE Unread # <<>>
  <2>1. Queued = Append(queue, Unread) BY <1>3 DEF Queued
  <2>2. /\ Queued \in Seq(Seq(Line)) /\ Len(Queued) = Len(queue) + 1
        /\ \A b \in 1..Len(queue) : Queued[b] = queue[b]
        /\ Queued[Len(queue) + 1] = Unread
    BY <1>1, <2>1, AppendProperties
  <2> QED BY <1>1, <2>2
<1> QED BY <1>2, <1>3

\* A read that is queued leaves no gap.
LEMMA ReadLeavesNoGap ==
  ASSUME FileKnown, ReadKnown, GapKnown, queue' = Queued, offset' = offset + Len(Unread),
         UNCHANGED <<file, text, base, seen, signed, recorded>>, phase' = phase
  PROVE  ReadKnown' /\ GapKnown'
<1>1. /\ Unread \in Seq(Line) /\ Len(Unread) \in Nat /\ offset' <= Len(file)
      /\ \A i \in offset + 1..offset' :
           Ended(file[i]) /\ i - offset \in 1..Len(Unread) /\ Unread[i - offset] = file[i]
  BY UnreadIs
<1>2. /\ queue' \in Seq(Seq(Line))
      /\ \A b \in 1..Len(queue) : b \in 1..Len(queue') /\ queue'[b] = queue[b]
      /\ Unread # <<>> => Len(queue') \in 1..Len(queue') /\ queue'[Len(queue')] = Unread
  BY QueuedIs
<1>3. ReadKnown' BY <1>1, <1>2 DEF ReadKnown
<1>4. \A l : Waits(l) => Waits(l)'
  BY <1>2 DEF Waits
<1>5. \A i \in offset + 1..offset' : Waits(file[i])'
  <2> TAKE i \in offset + 1..offset'
  <2>1. i - offset \in 1..Len(Unread) /\ Unread[i - offset] = file[i] BY <1>1
  <2>2. Unread # <<>> BY <1>1, <2>1
  <2> QED BY <1>2, <2>1, <2>2 DEF Waits
<1>6. Said' = Said BY DEF Said
<1>7. ASSUME phase' \in {"binding", "ready"}, NEW i \in base' + 1..offset'
      PROVE  Waits(file[i])' \/ (file'[i].st = "line" /\ text'[file'[i].id] \in Said')
  <2>1. base \in Nat /\ offset \in Nat /\ base' = base /\ offset' \in Nat /\ i \in Nat
    BY <1>3 DEF ReadKnown
  <2>2. CASE i <= offset
    <3>1. i \in base + 1..offset BY <2>1, <2>2
    <3>2. Waits(file[i]) \/ (file[i].st = "line" /\ text[file[i].id] \in Said)
      BY <1>7, <3>1 DEF GapKnown
    <3>3. Waits(file[i]) => Waits(file[i])' BY <1>4
    <3> QED BY <1>6, <3>2, <3>3
  <2>3. CASE i > offset BY <1>5, <2>1, <2>3
  <2> QED BY <2>1, <2>2, <2>3
<1>8. GapKnown' BY <1>6, <1>7 DEF GapKnown
<1> QED BY <1>3, <1>8

\* A batch that is committed leaves nothing unsaid, or the capture degrades.
LEMMA CommitKeeps == ASSUME FileKnown, ReadKnown, GapKnown, CommitBatch PROVE ReadKnown' /\ GapKnown'
<1> DEFINE h == Head(queue)
<1>1. /\ queue # <<>> /\ queue' = Tail(queue)
      /\ UNCHANGED <<file, text, base, offset>>
  BY DEF CommitBatch, lineVars, fileVars
<1>2. queue \in Seq(Seq(Line)) /\ Len(queue) \in Nat \ {0} BY <1>1, EmptySeq DEF ReadKnown
<1>3. /\ h \in Seq(Line) /\ queue' \in Seq(Seq(Line)) /\ Len(queue') = Len(queue) - 1
      /\ \A b \in 1..Len(queue') : queue'[b] = queue[b + 1]
  BY <1>1, <1>2, HeadTailProperties
<1>4. h = queue[1] BY <1>2
<1>5. DOMAIN h = 1..Len(h) /\ Len(h) \in Nat BY <1>3, LenProperties
<1>6. ReadKnown' BY <1>1, <1>3 DEF ReadKnown
<1>7. \A l : Waits(l) => Waits(l)' \/ \E k \in 1..Len(h) : h[k] = l
  <2> SUFFICES ASSUME NEW l, NEW b \in 1..Len(queue), NEW k \in 1..Len(queue[b]), queue[b][k] = l
               PROVE  Waits(l)' \/ \E j \in 1..Len(h) : h[j] = l
    BY DEF Waits
  <2>1. CASE b = 1 BY <1>4, <2>1
  <2>2. CASE b # 1
    <3>1. b - 1 \in 1..Len(queue') /\ queue'[b - 1] = queue[b] BY <1>2, <1>3, <2>2
    <3> QED BY <3>1 DEF Waits
  <2> QED BY <2>1, <2>2
<1>8. PICK stored \in BOOLEAN, signatures \in BOOLEAN :
        LET new == IF stored THEN Sent(h) \ recorded ELSE {}
            says == {text[id] : id \in new}
        IN /\ recorded' = recorded \cup new
           /\ seen' = seen \cup says
           /\ signed' = IF signatures THEN signed \cup says ELSE signed
           /\ phase' = PhaseAfter(\E l \in ToSet(h) : l.st = "bad", stored, signatures)
  BY DEF CommitBatch, Commits
<1>9. recorded \subseteq recorded' /\ Said \subseteq Said' BY <1>1, <1>8 DEF Said
<1>10. seen' \subseteq Said' /\ signed' \subseteq Said'
  <2> DEFINE new == IF stored THEN Sent(h) \ recorded ELSE {}
             says == {text[id] : id \in new}
  <2>1. recorded' = recorded \cup new /\ seen' \subseteq seen \cup says /\ signed' \subseteq signed \cup says
    BY <1>8
  <2> HIDE DEF new
  <2>2. says \subseteq Said' BY <1>1, <2>1 DEF Said
  <2> QED BY <1>9, <2>1, <2>2 DEF GapKnown
<1>11. ASSUME phase' \in {"binding", "ready"}, NEW i \in base + 1..offset
       PROVE  Waits(file[i])' \/ (file[i].st = "line" /\ text[file[i].id] \in Said')
  <2>1. stored /\ phase \in {"binding", "ready"} /\ ~\E l \in ToSet(h) : l.st = "bad"
    BY <1>8, <1>11 DEF PhaseAfter
  <2>2. Waits(file[i]) \/ (file[i].st = "line" /\ text[file[i].id] \in Said)
    BY <2>1 DEF GapKnown
  <2>3. ASSUME NEW k \in 1..Len(h), h[k] = file[i]
        PROVE  file[i].st = "line" /\ text[file[i].id] \in Said'
    <3>1. Ended(file[i]) BY DEF ReadKnown
    <3>2. h[k].st # "bad" BY <1>5, <2>1 DEF ToSet
    <3>3. h[k].st = "line" BY <2>3, <3>1, <3>2 DEF Ended
    <3>4. CASE Passes(h, k)
      <4>1. h[k].id \in Sent(h) BY <1>5, <3>4 DEF Sent
      <4>2. h[k].id \in recorded' BY <1>8, <2>1, <4>1
      <4> QED BY <1>1, <2>3, <3>3, <4>2 DEF Said
    <3>5. CASE ~Passes(h, k)
      <4>1. \A n \in 1..k : Known(h[n]) BY <3>3, <3>5 DEF Passes
      <4>2. text[h[k].id] \in seen BY <3>2, <4>1 DEF Known
      <4> QED BY <1>9, <2>3, <3>3, <4>2 DEF GapKnown
    <3> QED BY <3>4, <3>5
  <2>4. CASE Waits(file[i])
    <3>1. PICK l : l = file[i] OBVIOUS
    <3>2. Waits(l)' \/ \E k \in 1..Len(h) : h[k] = file[i] BY <1>7, <2>4, <3>1
    <3>3. Waits(l)' => Waits(file[i])' BY <1>1, <3>1 DEF Waits
    <3> QED BY <2>3, <3>2, <3>3
  <2> QED BY <1>9, <2>2, <2>4
<1>12. GapKnown' BY <1>1, <1>10, <1>11 DEF GapKnown
<1> QED BY <1>6, <1>12

--------------------------------------------------------------------------
\* The invariant.

LEMMA CaptureInvStarts == TranscriptAssumption /\ TranscriptInit => CaptureInv
<1> SUFFICES ASSUME TranscriptInit PROVE CaptureInv OBVIOUS
<1>1. base \in Nat /\ file = [i \in 1..base |-> [id |-> i, st |-> "line"]] BY DEF TranscriptInit
<1>2. \A i \in 1..base : [id |-> i, st |-> "line"] \in Line BY <1>1 DEF Line, LineStates
<1>3. file \in Seq(Line) /\ Len(file) = base /\ \A i \in 1..base : Ended(file[i])
  BY <1>1, <1>2 DEF Ended
<1>4. FileKnown BY <1>1, <1>3 DEF FileKnown, Torn, LastLine
<1>5. queue \in Seq(Seq(Line)) /\ offset = 0 /\ seen = {} /\ phase = "none" /\ whole = {}
      /\ signed = {text[i] : i \in 1..base} /\ recorded = {}
  BY EmptySeq DEF TranscriptInit
<1>6. ReadKnown BY <1>1, <1>3, <1>5 DEF ReadKnown
<1>7. GapKnown BY <1>5 DEF GapKnown, Said
<1> QED BY <1>4, <1>5, <1>6, <1>7 DEF CaptureInv, WholeLinesSurvive

\* What the steps of the wrapper leave: the file.
LEMMA FileRests ==
  ASSUME FileKnown, WholeLinesSurvive, UNCHANGED <<file, mine, whole, refused>>
  PROVE  FileKnown' /\ WholeLinesSurvive'
BY DEF FileKnown, WholeLinesSurvive, Torn, LastLine

\* The capture forgets what it has read.
LEMMA ForgetKeeps ==
  ASSUME ReadKnown, GapKnown, queue' = <<>>, phase' = "degraded",
         UNCHANGED <<file, text, base, offset, seen, signed, recorded>>
  PROVE  ReadKnown' /\ GapKnown'
<1>1. queue' \in Seq(Seq(Line)) BY EmptySeq
<1> QED BY <1>1 DEF ReadKnown, GapKnown, Said

LEMMA CaptureStep == CaptureInv /\ [TranscriptNext]_transcriptVars => CaptureInv'
<1> SUFFICES ASSUME CaptureInv, [TranscriptNext]_transcriptVars PROVE CaptureInv' OBVIOUS
<1>1. FileKnown /\ ReadKnown /\ GapKnown /\ WholeLinesSurvive BY DEF CaptureInv
<1>2. ASSUME UNCHANGED <<file, mine, whole, refused>>, ReadKnown' /\ GapKnown' PROVE CaptureInv'
  BY <1>1, <1>2, FileRests DEF CaptureInv
<1>3. ASSUME UNCHANGED <<file, mine, whole, refused, text, base, offset, queue, seen, signed, recorded>>,
             phase' = phase \/ (phase = "binding" /\ phase' = "ready")
      PROVE  CaptureInv'
  BY <1>1, <1>2, <1>3 DEF ReadKnown, GapKnown, Said, Waits
<1>4. CASE WriteBegins BY <1>4, WriteBeginsKeeps
<1>5. CASE WriteEnds BY <1>5, WriteEndsKeeps
<1>6. CASE ChildDies \/ BecomesReady \/ UNCHANGED transcriptVars
  BY <1>3, <1>6 DEF ChildDies, BecomesReady, transcriptVars, fileVars, lineVars, captureVars, recordVars
<1>7. CASE LaunchWrapper BY <1>7, LaunchKeeps
<1>8. CASE WrapperDies BY <1>8, WrapperDiesKeeps
<1>9. CASE ReadMore
  BY <1>1, <1>2, <1>9, ReadLeavesNoGap DEF ReadMore, fileVars, lineVars, recordVars
<1>10. CASE WatchFails
  BY <1>1, <1>2, <1>10, ForgetKeeps DEF WatchFails, fileVars, lineVars, recordVars
<1>11. CASE CommitBatch
  BY <1>1, <1>2, <1>11, CommitKeeps DEF CommitBatch, fileVars
<1>12. CASE RebuildStopsCapture
  <2>1. UNCHANGED <<file, mine, whole, refused, text, base, seen, signed, recorded, phase>>
    BY <1>12 DEF RebuildStopsCapture, fileVars, lineVars, recordVars
  <2>2. CASE watching
    BY <1>1, <1>2, <1>12, <2>1, <2>2, ReadLeavesNoGap DEF RebuildStopsCapture
  <2>3. CASE ~watching BY <1>3, <1>12, <2>1, <2>3 DEF RebuildStopsCapture
  <2> QED BY <2>2, <2>3
<1>13. CASE RebuildStarts
  <2>1. UNCHANGED <<file, mine, whole, refused, lineVars, recordVars>> /\ CaptureStarts /\ base' = base
    BY <1>13 DEF RebuildStarts, fileVars, lineVars
  <2>2. Len(file') \in Nat /\ base <= Len(file') /\ \A i \in 1..base : file'[i] = file[i]
    BY <1>1, <2>1, LenProperties DEF FileKnown, ReadKnown
  <2>3. ReadKnown' /\ GapKnown' BY <1>1, <2>1, <2>2, StartsKnown
  <2> QED BY <1>2, <2>1, <2>3
<1> QED BY <1>4, <1>5, <1>6, <1>7, <1>8, <1>9, <1>10, <1>11, <1>12, <1>13 DEF TranscriptNext

\* The inductive invariant of the capture holds, for any length of the transcript and any
\* contents.
THEOREM CaptureInvariant == TranscriptSpec => []CaptureInv
BY CaptureInvStarts, CaptureStep, TranscriptAssumption, PTL DEF TranscriptSpec

\* What a line says that a ready capture has passed is in the record, through failed intakes,
\* crashes and repeated reads (enqueueEmissions, flushBatch, filterReplayEvents).
THEOREM ReadyCaptureHasAll == TranscriptSpec => []ReadyHasNoGap
<1>1. CaptureInv => ReadyHasNoGap
  <2> SUFFICES ASSUME CaptureInv, phase = "ready", NEW i \in base + 1..offset,
                      \A b \in ToSet(queue) : file[i] \notin ToSet(b)
               PROVE  file[i].st = "line" /\ text[file[i].id] \in Said
    BY DEF ReadyHasNoGap, Said
  <2>1. ~Waits(file[i])
    <3>1. queue \in Seq(Seq(Line)) BY DEF CaptureInv, ReadKnown
    <3>2. \A b \in 1..Len(queue) : queue[b] \in ToSet(queue)
      BY <3>1, LenProperties DEF ToSet
    <3>3. \A b \in 1..Len(queue) : queue[b] \in Seq(Line) BY <3>1, ElementOfSeq
    <3>4. \A b \in 1..Len(queue) : \A k \in 1..Len(queue[b]) : queue[b][k] \in ToSet(queue[b])
      BY <3>3, LenProperties DEF ToSet
    <3> QED BY <3>2, <3>4 DEF Waits
  <2> QED BY <2>1 DEF CaptureInv, GapKnown
<1> QED BY CaptureInvariant, <1>1, PTL

\* A line written to its end stays in the transcript through deaths and repairs, unless a
\* repair was refused (repairTornTranscriptTail).
THEOREM WholeLinesStay == TranscriptSpec => []WholeLinesSurvive
<1>1. CaptureInv => WholeLinesSurvive BY DEF CaptureInv
<1> QED BY CaptureInvariant, <1>1, PTL
=============================================================================
