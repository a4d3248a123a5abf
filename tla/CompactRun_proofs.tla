-------------------------- MODULE CompactRun_proofs --------------------------
(***************************************************************************)
(* What CompactRun promises for every set of callers and attempts and      *)
(* every bound: one attempt past the claim, a continuation turn complete   *)
(* only with its marker and its view, nothing held behind a terminal       *)
(* receipt; and what the decision table answers passes its validator.      *)
(*                                                                         *)
(* The invariant says what a call knows at each of its steps.  Two calls   *)
(* with one attempt id may undo each other's steps, so what a call knows   *)
(* about the claim and about its attempt's unresolved boundary is said of  *)
(* attempts that never overlapped; what it knows about markers and         *)
(* installed views holds for all, since those are never taken back.        *)
(***************************************************************************)
EXTENDS CompactRun, SequenceTheorems, TLAPS

CallFields ==
  {"pc", "attempt", "facts", "pending", "force", "owns", "reclaimed", "needs", "escalated", "forced",
   "material", "installed", "index", "decision", "plan"}

IsCall(r) ==
  /\ DOMAIN r = CallFields
  /\ IF r.pc = "idle" THEN r.attempt = NoAttempt ELSE r.attempt \in Attempts

\* Each function has its domain; a decision is shaped as the receipt it becomes.
Shapes ==
  /\ call = [c \in Callers |-> call[c]]
  /\ boundary = [t \in 1..MaxTurns |-> boundary[t]]
  /\ receipt = [a \in Attempts |-> receipt[a]]
  /\ \A c \in Callers : IsCall(call[c]) /\ DOMAIN call[c].decision = DOMAIN NoReceipt

OverlapKnown ==
  \A c, d \in Callers :
    c # d /\ call[c].attempt = call[d].attempt => call[c].attempt \in overlapped \cup {NoAttempt}

\* The unique index of compact_continuation_boundary.
OneUnresolved == \A t, u \in Unresolved : t = u

Own(a) == {t \in Unresolved : boundary[t].owner = a}

\* Which turns a call takes its attempt's unresolved boundary to be on.
AtMost(b) == IF b.applied THEN {b.turn} ELSE {}

Known(r) ==
  IF r.pc \in {"register", "reconcile", "classify", "claim"} THEN AtMost(r.pending)
  ELSE IF r.pc \in {"prepare", "mark", "note", "install", "await", "decide"} THEN AtMost(r.forced)
  ELSE IF r.pc = "finalize" /\ r.plan.status # "none" THEN {r.plan.turn}
  ELSE {}

Informed ==
  {"register", "reconcile", "classify", "claim", "open", "adopt", "intend", "force", "bind", "prepare", "mark",
   "note", "install", "await", "decide"}

\* How the call's needs follow from the boundary it found or made.
NeedsKnown(r) ==
  /\ r.pc = "reconcile" => ~r.pending.applied
  /\ r.pc = "claim" => r.needs \in {"continue", "preserve"} /\ (r.pending.applied => r.needs = "continue")
  /\ r.pc \in {"open", "adopt", "intend", "force", "bind", "mark", "note"} => r.needs = "continue"
  /\ r.pc \in {"prepare", "mark", "note", "install", "await", "decide"} =>
       (r.forced.applied <=> r.needs = "continue")
  /\ r.pc = "finalize" =>
       /\ r.plan.status \in {"none", "complete", "failed_repairable", "discarded"}
       /\ r.plan.terminal => r.plan.status # "failed_repairable"

\* What was recorded before the call came to its step.
Recorded(r) ==
  /\ r.installed =>
       /\ r.pc \in {"await", "decide", "finalize", "release"}
       /\ r.attempt \in served
       /\ r.needs = "continue" => r.forced.turn \in markers
  /\ r.pc \in {"note", "install"} /\ r.needs = "continue" => r.forced.turn \in markers
  /\ r.pc = "finalize" /\ r.plan.status = "complete" => r.attempt \in served /\ r.plan.turn \in markers

\* What the call alone decides, as long as no other call runs for its attempt.
Held(r) ==
  r.attempt \notin overlapped =>
    /\ r.pc \in Claimed => writer = r.attempt
    /\ r.pc \in Informed \/ (r.pc = "finalize" /\ r.plan.terminal) => Own(r.attempt) \subseteq Known(r)

CallKnown(r) == NeedsKnown(r) /\ Recorded(r) /\ Held(r)

\* Nothing is left of an attempt that is answered for ever.
TerminalKnown(a) ==
  receipt[a].terminal /\ a \notin overlapped =>
    /\ writer # a
    /\ Own(a) = {}
    /\ \A c \in Callers : call[c].attempt = a => call[c].pc = "enter"

CompactInv ==
  /\ Shapes /\ OverlapKnown /\ OneUnresolved /\ CompleteIsServed
  /\ \A c \in Callers : CallKnown(call[c])
  /\ \A a \in Attempts : TerminalKnown(a)

-----------------------------------------------------------------------------
(* What a step of one call leaves alone *)

\* The step of caller c, for attempt a, as the other calls and attempts see it.
Leaves(c, a) ==
  /\ call' = [call EXCEPT ![c] = call'[c]]
  /\ IsCall(call'[c]) /\ DOMAIN call'[c].decision = DOMAIN NoReceipt
  /\ call'[c].attempt \in {a, NoAttempt}
  /\ \A d \in Callers \ {c} : call[d].attempt = a => a \in overlapped'
  /\ boundary' = [t \in 1..MaxTurns |-> boundary'[t]]
  /\ receipt' = [b \in Attempts |-> receipt'[b]]
  /\ markers \subseteq markers' /\ served \subseteq served' /\ overlapped \subseteq overlapped'
  /\ writer' = writer \/ (writer \in {NoAttempt, a} /\ writer' \in {NoAttempt, a})
  /\ \A t \in 1..MaxTurns :
       boundary'[t] = boundary[t] \/ boundary'[t].owner = a \/ boundary'[t].status = "none"
  /\ \A b \in Attempts \ {a} : receipt'[b] = receipt[b]

LEMMA OwnShrinks ==
  ASSUME NEW c \in Callers, NEW a \in Attempts, Leaves(c, a), NEW b, b # a
  PROVE  Own(b)' \subseteq Own(b)
BY DEF Own, Unresolved, Leaves

LEMMA OthersKnow ==
  ASSUME CompactInv, NEW c \in Callers, NEW a \in Attempts, Leaves(c, a), NEW d \in Callers, d # c
  PROVE  CallKnown(call[d])'
<1> DEFINE r == call[d]
<1>1. call'[d] = r /\ IsCall(r) /\ CallKnown(r)
  BY DEF CompactInv, Shapes, Leaves
<1>2. NeedsKnown(call[d])' /\ Recorded(call[d])'
  BY <1>1 DEF CallKnown, NeedsKnown, Recorded, Leaves
<1>3. SUFFICES ASSUME NEW b, b = r.attempt, b \notin overlapped', r.pc # "idle"
               PROVE  Held(call[d])'
  BY <1>1, <1>2 DEF CallKnown, Held, Claimed, Informed
<1>4. b \in Attempts /\ b # a /\ b \notin overlapped
  BY <1>1, <1>3 DEF Leaves, IsCall
<1>5. Own(b)' \subseteq Own(b)
  BY <1>4, OwnShrinks
<1>6. writer = b => writer' = b
  BY <1>4, CompactRunAssumption DEF Leaves
<1>7. call'[d].attempt = b /\ Held(r) BY <1>1, <1>3 DEF CallKnown
<1>8. b \notin overlapped => (r.pc \in Claimed => writer = b)
                             /\ (r.pc \in Informed \/ (r.pc = "finalize" /\ r.plan.terminal) => Own(b) \subseteq Known(r))
  BY <1>3, <1>7 DEF Held
<1>9. Known(call[d])' = Known(r) BY <1>1 DEF Known, AtMost
<1> QED BY <1>1, <1>4, <1>5, <1>6, <1>7, <1>8, <1>9 DEF Held

LEMMA OthersSettled ==
  ASSUME CompactInv, NEW c \in Callers, NEW a \in Attempts, Leaves(c, a), NEW b \in Attempts, b # a
  PROVE  TerminalKnown(b)'
<1>1. Own(b)' \subseteq Own(b) BY OwnShrinks
<1>2. SUFFICES ASSUME receipt'[b].terminal, b \notin overlapped'
               PROVE  /\ writer' # b /\ Own(b)' = {}
                      /\ \A d \in Callers : call'[d].attempt = b => call'[d].pc = "enter"
  BY DEF TerminalKnown
<1>3. receipt[b].terminal /\ b \notin overlapped BY <1>2 DEF Leaves
<1>4. writer # b /\ Own(b) = {} /\ \A d \in Callers : call[d].attempt = b => call[d].pc = "enter"
  BY <1>3 DEF CompactInv, TerminalKnown
<1>5. ASSUME NEW d \in Callers, call'[d].attempt = b PROVE call'[d].pc = "enter"
  <2>1. d # c BY <1>5, CompactRunAssumption DEF Leaves
  <2> QED BY <2>1, <1>4, <1>5 DEF Leaves, CompactInv, Shapes
<1> QED BY <1>1, <1>4, <1>5, CompactRunAssumption DEF Leaves

\* So a step keeps the invariant when it keeps what its own call and attempt know.
LEMMA StepKeeps ==
  ASSUME CompactInv, NEW c \in Callers, NEW a \in Attempts, Leaves(c, a),
         OneUnresolved', CompleteIsServed', CallKnown(call[c])', TerminalKnown(a)'
  PROVE  CompactInv'
<1>1. Shapes'
  BY DEF Shapes, Leaves, CompactInv
<1>2. OverlapKnown'
  BY DEF OverlapKnown, Leaves, CompactInv, Shapes, IsCall
<1>3. \A d \in Callers : CallKnown(call[d])' BY OthersKnow
<1>4. \A b \in Attempts : TerminalKnown(b)' BY OthersSettled
<1> QED BY <1>1, <1>2, <1>3, <1>4 DEF CompactInv

\* A step that changes what a call remembers and nothing that others rely on.
LEMMA QuietStep ==
  ASSUME CompactInv, NEW c \in Callers, call[c].pc # "idle",
         UNCHANGED <<markers, served, writer, boundary, receipt, overlapped>>,
         NEW r, call' = [call EXCEPT ![c] = r], IsCall(r), DOMAIN r.decision = DOMAIN NoReceipt,
         \/ r = Resting
         \/ /\ r.attempt = call[c].attempt
            /\ call[c].pc = "enter" => ~receipt[r.attempt].terminal
            /\ CallKnown(r)
  PROVE  CompactInv'
<1>0. PICK a : a = call[c].attempt OBVIOUS
<1>1. a \in Attempts /\ a # NoAttempt /\ IsCall(call[c])
  BY <1>0, CompactRunAssumption DEF CompactInv, Shapes, IsCall
<1>2. call'[c] = r /\ r.attempt \in {a, NoAttempt}
  BY <1>0 DEF CompactInv, Shapes, Resting
<1>3. Leaves(c, a)
  <2>1. \A d \in Callers \ {c} : call[d].attempt = a => a \in overlapped
    BY <1>0, <1>1 DEF CompactInv, OverlapKnown
  <2> QED BY <1>1, <1>2, <2>1 DEF Leaves, CompactInv, Shapes
<1>4. OneUnresolved' /\ CompleteIsServed'
  BY DEF CompactInv, OneUnresolved, Unresolved, CompleteIsServed
<1>5. CallKnown(call[c])'
  <2>1. CASE r = Resting
    <3>1. r.pc = "idle" /\ r.installed = FALSE BY <2>1 DEF Resting
    <3> QED BY <1>2, <3>1 DEF CallKnown, NeedsKnown, Recorded, Held, Claimed, Informed
  <2>2. CASE CallKnown(r)
    <3>1. NeedsKnown(call[c])' /\ Recorded(call[c])'
      BY <1>2, <2>2 DEF CallKnown, NeedsKnown, Recorded
    <3>2. ASSUME NEW b PROVE Own(b)' = Own(b) BY DEF Own, Unresolved
    <3>3. PICK b : b = r.attempt OBVIOUS
    <3>4. Own(b)' = Own(b) /\ Held(r) BY <3>2, <2>2 DEF CallKnown
    <3>5. Known(call[c])' = Known(r) BY <1>2 DEF Known, AtMost
    <3>6. Held(call[c])' BY <1>2, <3>3, <3>4, <3>5 DEF Held
    <3> QED BY <3>1, <3>6 DEF CallKnown
  <2> QED BY <2>1, <2>2
<1>6. TerminalKnown(a)'
  <2>1. Own(a)' = Own(a) BY DEF Own, Unresolved
  <2>2. TerminalKnown(a) BY <1>1 DEF CompactInv
  <2>3. receipt[a].terminal /\ a \notin overlapped => r.attempt = NoAttempt
    BY <1>0, <2>2 DEF TerminalKnown, Resting
  <2>4. \A d \in Callers : d # c => call'[d] = call[d] BY DEF CompactInv, Shapes
  <2> QED BY <1>1, <1>2, <2>1, <2>2, <2>3, <2>4 DEF TerminalKnown
<1> QED BY <1>1, <1>3, <1>4, <1>5, <1>6, StepKeeps

-----------------------------------------------------------------------------
(* The steps that change nothing but what their call remembers *)

LEMMA Here ==
  ASSUME CompactInv, NEW c \in Callers
  PROVE  /\ IsCall(call[c]) /\ CallKnown(call[c])
         /\ DOMAIN call[c].decision = DOMAIN NoReceipt
BY DEF CompactInv, Shapes

\* A call that goes on to another step knows there what that step's row of the invariant asks.
LEMMA GoesOn ==
  ASSUME CompactInv, NEW c \in Callers, NEW pc, To(c, pc), pc # "idle", call[c].pc # "idle",
         UNCHANGED <<markers, served, writer, boundary, receipt, overlapped>>,
         call[c].pc = "enter" => ~receipt[call[c].attempt].terminal,
         CallKnown([call[c] EXCEPT !.pc = pc])
  PROVE  CompactInv'
<1> DEFINE r == [call[c] EXCEPT !.pc = pc]
<1>1. IsCall(call[c]) /\ DOMAIN call[c].decision = DOMAIN NoReceipt BY Here
<1>2. IsCall(r) /\ r.attempt = call[c].attempt /\ r.decision = call[c].decision
  BY <1>1 DEF IsCall, CallFields
<1>3. call' = [call EXCEPT ![c] = r] BY DEF To, Goes
<1>4. CallKnown(r) OBVIOUS
<1> HIDE DEF r
<1> QED BY <1>1, <1>2, <1>3, <1>4, QuietStep

LEMMA Returned ==
  ASSUME CompactInv, NEW c \in Callers, Returns(c), call[c].pc # "idle",
         UNCHANGED <<markers, served, writer, boundary, receipt, overlapped>>
  PROVE  CompactInv'
<1>1. IsCall(Resting) /\ DOMAIN Resting.decision = DOMAIN NoReceipt
  BY DEF IsCall, CallFields, Resting
<1>2. call' = [call EXCEPT ![c] = Resting] BY DEF Returns, Goes
<1> QED BY <1>1, <1>2, QuietStep

LEMMA Abandoned ==
  ASSUME CompactInv, NEW c \in Callers, Abandons(c), call[c].pc \in Claimed,
         UNCHANGED <<markers, served, writer, boundary, receipt, overlapped>>
  PROVE  CompactInv'
<1> DEFINE r == [call[c] EXCEPT !.pc = "release"]
<1>1. IsCall(call[c]) /\ CallKnown(call[c]) BY Here
<1>2. CallKnown(r)
  BY <1>1 DEF IsCall, CallFields, CallKnown, NeedsKnown, Recorded, Held, Claimed, Informed
<1> QED BY <1>2, GoesOn DEF Abandons, Claimed

LEMMA EntersKeeps ==
  ASSUME CompactInv, NEW c \in Callers, Enters(c)
  PROVE  CompactInv'
<1> DEFINE r == [call[c] EXCEPT !.pc = "read"]
<1>1. IsCall(call[c]) /\ CallKnown(call[c]) /\ call[c].pc = "enter" BY Here DEF Enters, At
<1>2. CallKnown(r)
  BY <1>1 DEF IsCall, CallFields, CallKnown, NeedsKnown, Recorded, Held, Claimed, Informed
<1> QED BY <1>1, <1>2, GoesOn DEF Enters, thread, rows

LEMMA CrashesKeeps ==
  ASSUME CompactInv, NEW c \in Callers, Crashes(c) PROVE CompactInv'
BY Returned DEF Crashes, At, thread, rows

LEMMA FailsKeeps ==
  ASSUME CompactInv, NEW c \in Callers, Fails(c) PROVE CompactInv'
BY Abandoned DEF Fails, thread, rows

LEMMA IntendsKeeps ==
  ASSUME CompactInv, NEW c \in Callers, Intends(c)
  PROVE  CompactInv'
<1> DEFINE r == [call[c] EXCEPT !.pc = "force"]
<1>1. IsCall(call[c]) /\ CallKnown(call[c]) /\ call[c].pc = "intend" BY Here DEF Intends, At
<1>2. CallKnown(r)
  BY <1>1 DEF IsCall, CallFields, CallKnown, NeedsKnown, Recorded, Held, Known, Claimed, Informed
<1> QED BY <1>1, <1>2, GoesOn DEF Intends, thread

LEMMA EndsTurnKeeps ==
  ASSUME CompactInv, NEW c \in Callers, EndsTurn(c)
  PROVE  CompactInv'
<1> DEFINE r == [call[c] EXCEPT !.pc = "bind"]
<1>1. IsCall(call[c]) /\ CallKnown(call[c]) /\ call[c].pc = "force" BY Here DEF EndsTurn, At
<1>2. CallKnown(r)
  BY <1>1 DEF IsCall, CallFields, CallKnown, NeedsKnown, Recorded, Held, Known, Claimed, Informed
<1>3. To(c, "bind") \/ Abandons(c) BY DEF EndsTurn
<1>4. UNCHANGED <<markers, served, writer, boundary, receipt, overlapped>> BY DEF EndsTurn, rows
<1>5. CASE To(c, "bind") BY <1>1, <1>2, <1>4, <1>5, GoesOn
<1>6. CASE Abandons(c) BY <1>1, <1>4, <1>6, Abandoned DEF Claimed
<1> QED BY <1>3, <1>5, <1>6

LEMMA RegistersKeeps ==
  ASSUME CompactInv, NEW c \in Callers, Registers(c)
  PROVE  CompactInv'
<1> DEFINE r(pc) == [call[c] EXCEPT !.pc = pc]
<1>1. IsCall(call[c]) /\ CallKnown(call[c]) /\ call[c].pc = "register" BY Here DEF Registers, At
<1>2. CallKnown(r("classify"))
  BY <1>1 DEF IsCall, CallFields, CallKnown, NeedsKnown, Recorded, Held, Known, Claimed, Informed
<1>3. ~call[c].pending.applied => CallKnown(r("reconcile"))
  BY <1>1 DEF IsCall, CallFields, CallKnown, NeedsKnown, Recorded, Held, Known, Claimed, Informed
<1>4. UNCHANGED <<markers, served, writer, boundary, receipt, overlapped>> BY DEF Registers, thread
<1>5. CASE Returns(c) BY <1>1, <1>4, <1>5, Returned
<1>6. CASE To(c, "classify") BY <1>1, <1>2, <1>4, <1>6, GoesOn
<1>7. CASE To(c, "reconcile") /\ ~call[c].pending.applied BY <1>1, <1>3, <1>4, <1>7, GoesOn
<1> QED BY <1>5, <1>6, <1>7 DEF Registers
\* A boundary that the durable rows show is the attempt's own, and there is one.
LEMMA PendingIsOwn ==
  ASSUME OneUnresolved, NEW a, \A t \in Unresolved : boundary[t].owner = a
  PROVE  Own(a) \subseteq AtMost(PendingBoundary)
<1>1. CASE Unresolved = {} BY <1>1 DEF Own
<1>2. CASE Unresolved # {}
  <2>1. PICK t \in Unresolved : t = CHOOSE u \in Unresolved : TRUE BY <1>2
  <2>2. PendingBoundary.applied = TRUE /\ PendingBoundary.turn = t
    BY <1>2, <2>1 DEF PendingBoundary, Applied
  <2> QED BY <2>1, <2>2 DEF AtMost, Own, OneUnresolved
<1> QED BY <1>1, <1>2

LEMMA ReadsStateKeeps ==
  ASSUME CompactInv, NEW c \in Callers, ReadsState(c)
  PROVE  CompactInv'
<1>1. IsCall(call[c]) /\ CallKnown(call[c]) /\ call[c].pc = "read"
      /\ DOMAIN call[c].decision = DOMAIN NoReceipt
  BY Here DEF ReadsState, At
<1>2. UNCHANGED <<markers, served, writer, boundary, receipt, overlapped>> BY DEF ReadsState, thread, rows
<1>3. CASE Returns(c) BY <1>1, <1>2, <1>3, Returned
<1>4. CASE ~Returns(c)
  <2>1. PICK a : a = call[c].attempt OBVIOUS
  <2> DEFINE r == [call[c] EXCEPT !.pc = "register", !.pending = PendingBoundary, !.force = force[a],
                                  !.owns = writer = a]
  <2>2. (\A t \in Unresolved : boundary[t].owner = a) /\ call' = [call EXCEPT ![c] = r]
    BY <1>4, <2>1 DEF ReadsState, Goes
  <2>3. Own(a) \subseteq AtMost(PendingBoundary) BY <2>2, PendingIsOwn DEF CompactInv
  <2>4. /\ IsCall(r) /\ r.attempt = a /\ r.decision = call[c].decision /\ r.pc = "register"
        /\ r.pending = PendingBoundary /\ r.installed = call[c].installed /\ r.needs = call[c].needs
        /\ r.forced = call[c].forced
    BY <1>1, <2>1 DEF IsCall, CallFields
  <2> HIDE DEF r
  <2>5. CallKnown(r)
    BY <1>1, <2>1, <2>3, <2>4 DEF CallKnown, NeedsKnown, Recorded, Held, Known, Claimed, Informed
  <2> QED BY <1>1, <1>2, <2>1, <2>2, <2>4, <2>5, QuietStep
<1> QED BY <1>3, <1>4

\* A call that decides without the claim names no boundary, and is final only if it found none.
LEMMA Settled ==
  ASSUME CompactInv, NEW c \in Callers, NEW d, NEW release, NEW terminal, Settles(c, d, release, terminal),
         call[c].pc \in {"classify", "open"},
         call[c].pc = "classify" => terminal = ~call[c].pending.applied,
         UNCHANGED <<markers, served, writer, boundary, receipt, overlapped>>
  PROVE  CompactInv'
<1>1. IsCall(call[c]) /\ CallKnown(call[c]) BY Here
<1> DEFINE r == [call[c] EXCEPT !.pc = "finalize", !.decision = Summary(d),
                                !.plan = [NoPlan EXCEPT !.release = release, !.terminal = terminal]]
<1>2. call' = [call EXCEPT ![c] = r] BY DEF Settles, Goes
<1>3. /\ IsCall(r) /\ r.attempt = call[c].attempt /\ r.pc = "finalize" /\ r.decision = Summary(d)
      /\ r.plan.status = "none" /\ r.plan.terminal = terminal /\ r.installed = call[c].installed
  BY <1>1 DEF IsCall, CallFields, NoPlan
<1>4. DOMAIN r.decision = DOMAIN NoReceipt BY <1>3 DEF Summary, NoReceipt
<1> HIDE DEF r
<1>5. CallKnown(r)
  BY <1>1, <1>3 DEF CallKnown, NeedsKnown, Recorded, Held, Known, AtMost, Claimed, Informed
<1> QED BY <1>2, <1>3, <1>4, <1>5, QuietStep

LEMMA ChecksTurnKeeps ==
  ASSUME CompactInv, NEW c \in Callers, ChecksTurn(c)
  PROVE  CompactInv'
<1> DEFINE r(pc) == [call[c] EXCEPT !.pc = pc]
<1>1. IsCall(call[c]) /\ CallKnown(call[c]) /\ call[c].pc = "open" BY Here DEF ChecksTurn, At
<1>2. CallKnown(r("intend")) /\ CallKnown(r("adopt"))
  BY <1>1 DEF IsCall, CallFields, CallKnown, NeedsKnown, Recorded, Held, Known, Claimed, Informed
<1>3. UNCHANGED <<markers, served, writer, boundary, receipt, overlapped>> BY DEF ChecksTurn, thread, rows
<1>4. CASE \E d : Settles(c, d, TRUE, TRUE) BY <1>1, <1>3, <1>4, Settled
<1>5. CASE To(c, "intend") \/ To(c, "adopt") BY <1>1, <1>2, <1>3, <1>5, GoesOn
<1> QED BY <1>4, <1>5 DEF ChecksTurn
LEMMA ClassifiesKeeps ==
  ASSUME CompactInv, NEW c \in Callers, Classifies(c)
  PROVE  CompactInv'
<1>1. IsCall(call[c]) /\ CallKnown(call[c]) /\ call[c].pc = "classify"
      /\ DOMAIN call[c].decision = DOMAIN NoReceipt
  BY Here DEF Classifies, At
<1>2. UNCHANGED <<markers, served, writer, boundary, receipt, overlapped>> BY DEF Classifies, thread, rows
<1>3. \/ \E d, release : Settles(c, d, release, ~call[c].pending.applied)
      \/ \E need \in {"continue", "preserve"} : \E native :
           /\ call[c].pending.applied => need = "continue"
           /\ Goes(c, [call[c] EXCEPT !.pc = "claim", !.needs = need, !.reclaimed = native])
  BY DEF Classifies
<1>4. CASE \E d, release : Settles(c, d, release, ~call[c].pending.applied)
  BY <1>1, <1>2, <1>4, Settled
<1>5. ASSUME NEW need \in {"continue", "preserve"}, NEW native, call[c].pending.applied => need = "continue",
             Goes(c, [call[c] EXCEPT !.pc = "claim", !.needs = need, !.reclaimed = native])
      PROVE  CompactInv'
  <2> DEFINE r == [call[c] EXCEPT !.pc = "claim", !.needs = need, !.reclaimed = native]
  <2>1. call' = [call EXCEPT ![c] = r] BY <1>5 DEF Goes
  <2>2. /\ IsCall(r) /\ r.attempt = call[c].attempt /\ r.pc = "claim" /\ r.decision = call[c].decision
        /\ r.pending = call[c].pending /\ r.installed = call[c].installed /\ r.needs = need
    BY <1>1 DEF IsCall, CallFields
  <2> HIDE DEF r
  <2>3. CallKnown(r)
    BY <1>1, <1>5, <2>2 DEF CallKnown, NeedsKnown, Recorded, Held, Known, Claimed, Informed
  <2> QED BY <1>1, <1>2, <2>1, <2>2, <2>3, QuietStep
<1> QED BY <1>3, <1>4, <1>5

LEMMA PreparesKeeps ==
  ASSUME CompactInv, NEW c \in Callers, Prepares(c)
  PROVE  CompactInv'
<1>1. IsCall(call[c]) /\ CallKnown(call[c]) /\ call[c].pc = "prepare"
      /\ DOMAIN call[c].decision = DOMAIN NoReceipt
  BY Here DEF Prepares, At
<1>2. UNCHANGED <<markers, served, writer, boundary, receipt, overlapped>> BY DEF Prepares, thread, rows
<1>3. PICK m, escalated, pc :
        /\ pc = "decide" \/ (pc = "mark" /\ call[c].needs = "continue")
             \/ (pc = "install" /\ call[c].needs # "continue")
        /\ call' = [call EXCEPT ![c] = [call[c] EXCEPT !.material = m, !.escalated = escalated, !.pc = pc]]
  <2>1. PICK m \in Materials :
          Goes(c, [call[c] EXCEPT !.material = m, !.escalated = @ \/ (m.prepared /\ call[c].needs = "continue"
                                                                 /\ call[c].facts.kind = "pending_tool"),
                                  !.pc = IF ~m.valid THEN "decide"
                                    ELSE IF call[c].needs = "continue" THEN "mark" ELSE "install"])
    BY DEF Prepares
  <2> QED BY <2>1 DEF Goes
<1> DEFINE r == [call[c] EXCEPT !.material = m, !.escalated = escalated, !.pc = pc]
<1>4. /\ IsCall(r) /\ r.attempt = call[c].attempt /\ r.pc = pc /\ r.decision = call[c].decision
      /\ r.forced = call[c].forced /\ r.installed = call[c].installed /\ r.needs = call[c].needs
  BY <1>1, <1>3 DEF IsCall, CallFields
<1>5. call' = [call EXCEPT ![c] = r] BY <1>3
<1> HIDE DEF r
<1>6. CallKnown(r)
  BY <1>1, <1>3, <1>4 DEF CallKnown, NeedsKnown, Recorded, Held, Known, Claimed, Informed
<1> QED BY <1>1, <1>2, <1>4, <1>5, <1>6, QuietStep

LEMMA AwaitsKeeps ==
  ASSUME CompactInv, NEW c \in Callers, Awaits(c)
  PROVE  CompactInv'
<1> DEFINE r == [call[c] EXCEPT !.pc = "decide"]
<1>1. IsCall(call[c]) /\ CallKnown(call[c]) /\ call[c].pc = "await" BY Here DEF Awaits, At
<1>2. CallKnown(r)
  BY <1>1 DEF IsCall, CallFields, CallKnown, NeedsKnown, Recorded, Held, Known, Claimed, Informed
<1>3. To(c, "decide") \/ Abandons(c) BY DEF Awaits
<1>4. UNCHANGED <<markers, served, writer, boundary, receipt, overlapped>> BY DEF Awaits, thread
<1>5. CASE To(c, "decide") BY <1>1, <1>2, <1>4, <1>5, GoesOn
<1>6. CASE Abandons(c) BY <1>1, <1>4, <1>6, Abandoned DEF Claimed
<1> QED BY <1>3, <1>5, <1>6

\* The plan of a decision: complete only when installed, kept only when not final.
LEMMA PlanIsSound ==
  ASSUME NEW r, NEW d, NEW p, p = PlanFor(r, d)
  PROVE  /\ p.status = "none" => ~(r.needs = "continue" /\ r.forced.applied)
         /\ p.status # "none" => r.needs = "continue" /\ r.forced.applied /\ p.turn = r.forced.turn
         /\ p.status = "complete" => r.installed
         /\ p.terminal => p.status # "failed_repairable"
         /\ p.status \in {"none", "complete", "failed_repairable", "discarded"}
BY DEF PlanFor, Unbounded, Planned, NoPlan

LEMMA DecidesKeeps ==
  ASSUME CompactInv, NEW c \in Callers, Decides(c)
  PROVE  CompactInv'
<1>1. IsCall(call[c]) /\ CallKnown(call[c]) /\ call[c].pc = "decide" BY Here DEF Decides, At
<1>2. UNCHANGED <<markers, served, writer, boundary, receipt, overlapped>> BY DEF Decides, thread
<1>3. PICK d, p : /\ p = PlanFor(call[c], d)
                  /\ call' = [call EXCEPT ![c] =
                                [call[c] EXCEPT !.pc = "finalize", !.decision = Summary(d), !.plan = p]]
  BY DEF Decides, Goes
<1> DEFINE r == [call[c] EXCEPT !.pc = "finalize", !.decision = Summary(d), !.plan = p]
<1>4. /\ IsCall(r) /\ r.attempt = call[c].attempt /\ r.pc = "finalize" /\ r.decision = Summary(d)
      /\ r.plan = p /\ r.forced = call[c].forced /\ r.installed = call[c].installed
      /\ r.needs = call[c].needs
  BY <1>1 DEF IsCall, CallFields
<1>5. DOMAIN r.decision = DOMAIN NoReceipt BY <1>4 DEF Summary, NoReceipt
<1>6. call' = [call EXCEPT ![c] = r] BY <1>3
<1> HIDE DEF r
<1>7. CallKnown(r)
  <2>1. NeedsKnown(r) BY <1>3, <1>4, PlanIsSound DEF NeedsKnown
  <2>2. Recorded(r) BY <1>1, <1>3, <1>4, PlanIsSound DEF CallKnown, Recorded
  <2>3. Held(r)
    BY <1>1, <1>3, <1>4, PlanIsSound DEF CallKnown, NeedsKnown, Held, Known, AtMost, Claimed, Informed
  <2> QED BY <2>1, <2>2, <2>3 DEF CallKnown
<1> QED BY <1>2, <1>1, <1>4, <1>5, <1>6, <1>7, QuietStep
-----------------------------------------------------------------------------
(* The boundary row *)

Upserting(t, a, status, marker) ==
  Writable(t, a, status) /\ boundary' = Upserted(t, a, status, marker)

LEMMA Upserts ==
  ASSUME NEW t, NEW a, NEW status, NEW marker, Shapes, Upserting(t, a, status, marker),
         status \in {"pending", "failed_repairable", "complete"}
  PROVE  /\ boundary' = [u \in 1..MaxTurns |-> boundary'[u]]
         /\ \A u \in 1..MaxTurns : boundary'[u] = boundary[u] \/ boundary'[u].owner = a
         /\ \A u \in 1..MaxTurns : u # t => boundary'[u] = boundary[u]
         /\ t \in 1..MaxTurns => boundary'[t] = [owner |-> a, status |-> status, marker |-> marker]
         /\ status = "complete" => \A u \in Unresolved' : u \in Unresolved /\ u # t
         /\ status # "complete" => \A u \in Unresolved' : u = t
<1>1. boundary' = [u \in 1..MaxTurns |-> IF u = t THEN [owner |-> a, status |-> status, marker |-> marker]
                                         ELSE boundary[u]]
  BY DEF Shapes, Upserting, Upserted
<1>2. \A u \in Unresolved' : u \in 1..MaxTurns /\ boundary'[u].status \in {"pending", "failed_repairable"}
  BY DEF Unresolved
<1>3. \A u \in 1..MaxTurns : u # t => boundary'[u] = boundary[u] BY <1>1
<1>4. t \in 1..MaxTurns => boundary'[t] = [owner |-> a, status |-> status, marker |-> marker] BY <1>1
<1>5. status = "complete" => \A u \in Unresolved' : u \in Unresolved /\ u # t
  <2> SUFFICES ASSUME status = "complete", NEW u \in Unresolved' PROVE u \in Unresolved /\ u # t
    OBVIOUS
  <2>1. u # t BY <1>2, <1>4
  <2> QED BY <1>2, <1>3, <2>1 DEF Unresolved
<1>6. status # "complete" => \A u \in Unresolved' : u = t
  <2> SUFFICES ASSUME status # "complete", NEW u \in Unresolved', u # t PROVE FALSE
    OBVIOUS
  <2>1. u \in Unresolved BY <1>2, <1>3 DEF Unresolved
  <2> QED BY <2>1 DEF Upserting, Writable
<1> QED BY <1>1, <1>3, <1>4, <1>5, <1>6

\* A call takes its attempt's boundary, and knows the turn it is on.
LEMMA TakesKeeps ==
  ASSUME CompactInv, NEW c \in Callers, NEW a, a = call[c].attempt, call[c].pc \notin {"idle", "enter"},
         NEW t, NEW marker, Upserting(t, a, "pending", marker),
         UNCHANGED <<markers, served, writer, receipt, overlapped>>,
         NEW r, call' = [call EXCEPT ![c] = r], IsCall(r), DOMAIN r.decision = DOMAIN NoReceipt,
         r.attempt = a, r.pc # "idle", NeedsKnown(r), Recorded(r), t \in Known(r),
         a \notin overlapped /\ r.pc \in Claimed => writer = a
  PROVE  CompactInv'
<1>1. a \in Attempts /\ a # NoAttempt
  BY CompactRunAssumption DEF CompactInv, Shapes, IsCall
<1>2. call'[c] = r BY DEF CompactInv, Shapes
<1>3. /\ boundary' = [u \in 1..MaxTurns |-> boundary'[u]]
      /\ \A u \in 1..MaxTurns : boundary'[u] = boundary[u] \/ boundary'[u].owner = a
      /\ \A u \in 1..MaxTurns : u # t => boundary'[u] = boundary[u]
      /\ t \in 1..MaxTurns => boundary'[t].status = "pending"
      /\ Unresolved' \subseteq {t}
  <2>1. Shapes /\ "pending" \in {"pending", "failed_repairable", "complete"} /\ "pending" # "complete"
    BY DEF CompactInv
  <2>2. t \in 1..MaxTurns => boundary'[t] = [owner |-> a, status |-> "pending", marker |-> marker]
    BY <2>1, Upserts
  <2>3. t \in 1..MaxTurns => boundary'[t].status = "pending" BY <2>2
  <2>4. boundary' = [u \in 1..MaxTurns |-> boundary'[u]] BY <2>1, Upserts
  <2>6. \A u \in 1..MaxTurns : boundary'[u] = boundary[u] \/ boundary'[u].owner = a
    BY <2>1 DEF Shapes, Upserting, Upserted
  <2>7. \A u \in 1..MaxTurns : u # t => boundary'[u] = boundary[u] BY <2>1, Upserts
  <2>5. \A u \in Unresolved' : u = t
    <3> DEFINE pending == "pending"
    <3>1. Upserting(t, a, pending, marker) /\ pending \in {"pending", "failed_repairable", "complete"}
            /\ pending # "complete"
      BY <2>1
    <3> HIDE DEF pending
    <3> QED BY <2>1, <3>1, Upserts
  <2> QED BY <2>3, <2>4, <2>5, <2>6, <2>7
<1>4. Leaves(c, a)
  <2>1. \A d \in Callers \ {c} : call[d].attempt = a => a \in overlapped
    BY <1>1 DEF CompactInv, OverlapKnown
  <2> QED BY <1>1, <1>2, <1>3, <2>1 DEF Leaves, CompactInv, Shapes
<1>5. OneUnresolved' BY <1>3 DEF OneUnresolved
<1>6. CompleteIsServed' BY <1>3 DEF CompactInv, CompleteIsServed
<1>7. CallKnown(call[c])'
  <2>1. NeedsKnown(call[c])' /\ Recorded(call[c])' BY <1>2 DEF NeedsKnown, Recorded
  <2>2. Own(a)' \subseteq {t} BY <1>3 DEF Own
  <2>3. Known(call[c])' = Known(r) BY <1>2 DEF Known, AtMost
  <2> QED BY <1>2, <2>1, <2>2, <2>3 DEF CallKnown, Held
<1>8. TerminalKnown(a)'
  <2>1. TerminalKnown(a) BY <1>1 DEF CompactInv
  <2>2. ~(receipt[a].terminal /\ a \notin overlapped) BY <2>1 DEF TerminalKnown
  <2> QED BY <2>2 DEF TerminalKnown
<1> QED BY <1>1, <1>4, <1>5, <1>6, <1>7, <1>8, StepKeeps

LEMMA ReconcilesKeeps ==
  ASSUME CompactInv, NEW c \in Callers, Reconciles(c)
  PROVE  CompactInv'
<1>1. IsCall(call[c]) /\ CallKnown(call[c]) /\ call[c].pc = "reconcile"
      /\ DOMAIN call[c].decision = DOMAIN NoReceipt
  BY Here DEF Reconciles, At
<1>2. UNCHANGED <<markers, served, writer, receipt, overlapped>> BY DEF Reconciles, thread
<1>3. PICK a, t : a = call[c].attempt /\ t = ForcedTurn(a) OBVIOUS
<1>4. CASE To(c, "classify") /\ UNCHANGED boundary
  <2> DEFINE r == [call[c] EXCEPT !.pc = "classify"]
  <2>1. CallKnown(r)
    BY <1>1 DEF IsCall, CallFields, CallKnown, NeedsKnown, Recorded, Held, Known, Claimed, Informed
  <2> QED BY <1>1, <1>2, <1>4, <2>1, GoesOn
<1>5. CASE Returns(c) /\ UNCHANGED boundary BY <1>1, <1>2, <1>5, Returned
<1>6. CASE /\ Upserting(t, a, "pending", t \in markers)
           /\ Goes(c, [call[c] EXCEPT !.pc = "classify", !.pending = Applied(t, FALSE, t \in markers)])
  <2> DEFINE r == [call[c] EXCEPT !.pc = "classify", !.pending = Applied(t, FALSE, t \in markers)]
  <2>1. call' = [call EXCEPT ![c] = r] BY <1>6 DEF Goes
  <2>2. /\ IsCall(r) /\ r.attempt = a /\ r.pc = "classify" /\ r.decision = call[c].decision
        /\ r.pending.turn = t /\ r.pending.applied = TRUE /\ r.installed = call[c].installed
    BY <1>1, <1>3 DEF IsCall, CallFields, Applied
  <2> HIDE DEF r
  <2>3. NeedsKnown(r) /\ Recorded(r) /\ t \in Known(r) /\ r.pc \notin Claimed
    BY <1>1, <2>2 DEF CallKnown, NeedsKnown, Recorded, Known, AtMost, Claimed
  <2> QED BY <1>1, <1>2, <1>3, <1>6, <2>1, <2>2, <2>3, TakesKeeps
<1> QED BY <1>3, <1>4, <1>5, <1>6 DEF Reconciles, Upserting
\* The two ways to come by a boundary: a turn ended before is adopted, the turn just ended bound.
LEMMA TakesBoundaryKeeps ==
  ASSUME CompactInv, NEW c \in Callers, NEW t, NEW marker, NEW forcedNow, TakesBoundary(c, t, marker, forcedNow),
         call[c].pc \in {"adopt", "bind"}, UNCHANGED <<markers, served, writer, receipt, overlapped>>
  PROVE  CompactInv'
<1>1. IsCall(call[c]) /\ CallKnown(call[c]) /\ DOMAIN call[c].decision = DOMAIN NoReceipt
  BY Here
<1>2. PICK a : a = call[c].attempt OBVIOUS
<1>3. CASE Abandons(c) /\ UNCHANGED boundary BY <1>1, <1>3, Abandoned DEF Claimed
<1>4. CASE /\ Upserting(t, a, "pending", marker)
           /\ Goes(c, [call[c] EXCEPT !.pc = "prepare", !.forced = Applied(t, forcedNow, marker)])
  <2> DEFINE r == [call[c] EXCEPT !.pc = "prepare", !.forced = Applied(t, forcedNow, marker)]
  <2>1. call' = [call EXCEPT ![c] = r] BY <1>4 DEF Goes
  <2>2. /\ IsCall(r) /\ r.attempt = a /\ r.pc = "prepare" /\ r.decision = call[c].decision
        /\ r.forced.turn = t /\ r.forced.applied = TRUE /\ r.installed = call[c].installed
        /\ r.needs = call[c].needs
    BY <1>1, <1>2 DEF IsCall, CallFields, Applied
  <2> HIDE DEF r
  <2>3. NeedsKnown(r) /\ Recorded(r) /\ t \in Known(r)
    BY <1>1, <2>2 DEF CallKnown, NeedsKnown, Recorded, Known, AtMost
  <2>4. a \notin overlapped => writer = a BY <1>1, <1>2 DEF CallKnown, Held, Claimed
  <2> QED BY <1>1, <1>2, <1>4, <2>1, <2>2, <2>3, <2>4, TakesKeeps
<1> QED BY <1>2, <1>3, <1>4 DEF TakesBoundary, Upserting

LEMMA AdoptsKeeps ==
  ASSUME CompactInv, NEW c \in Callers, Adopts(c) PROVE CompactInv'
BY TakesBoundaryKeeps DEF Adopts, At, thread

LEMMA BindsKeeps ==
  ASSUME CompactInv, NEW c \in Callers, Binds(c) PROVE CompactInv'
BY TakesBoundaryKeeps DEF Binds, At, thread

LEMMA NotesMarkerKeeps ==
  ASSUME CompactInv, NEW c \in Callers, NotesMarker(c)
  PROVE  CompactInv'
<1>1. IsCall(call[c]) /\ CallKnown(call[c]) /\ call[c].pc = "note" /\ DOMAIN call[c].decision = DOMAIN NoReceipt
  BY Here DEF NotesMarker, At
<1>2. UNCHANGED <<markers, served, writer, receipt, overlapped>> BY DEF NotesMarker, thread
<1>3. PICK a, t : a = call[c].attempt /\ t = call[c].forced.turn OBVIOUS
<1>4. CASE Abandons(c) /\ UNCHANGED boundary BY <1>1, <1>2, <1>4, Abandoned DEF Claimed
<1>5. ASSUME NEW valid, NEW pc \in {"install", "decide"}, Upserting(t, a, "pending", TRUE),
             call' = [call EXCEPT ![c] = [call[c] EXCEPT !.material.valid = valid, !.pc = pc]]
      PROVE  CompactInv'
  <2> DEFINE r == [call[c] EXCEPT !.material.valid = valid, !.pc = pc]
  <2>1. call' = [call EXCEPT ![c] = r] BY <1>5
  <2>2. /\ IsCall(r) /\ r.attempt = a /\ r.pc = pc /\ r.decision = call[c].decision
        /\ r.forced = call[c].forced /\ r.installed = call[c].installed /\ r.needs = call[c].needs
    BY <1>1, <1>3, <1>5 DEF IsCall, CallFields
  <2> HIDE DEF r
  <2>3. NeedsKnown(r) /\ Recorded(r)
    BY <1>1, <1>5, <2>2 DEF CallKnown, NeedsKnown, Recorded
  <2>4. t \in Known(r)
    BY <1>1, <1>3, <1>5, <2>2 DEF CallKnown, NeedsKnown, Known, AtMost
  <2>5. a \notin overlapped => writer = a BY <1>1, <1>3 DEF CallKnown, Held, Claimed
  <2> QED BY <1>1, <1>2, <1>3, <1>5, <2>1, <2>2, <2>3, <2>4, <2>5, TakesKeeps
<1> QED BY <1>3, <1>4, <1>5 DEF NotesMarker, Upserting, Goes, Abandons

-----------------------------------------------------------------------------
(* The claim, the marker, the view *)

\* A step that leaves boundary and receipts alone.
LEMMA RowsStay ==
  ASSUME CompactInv, NEW c \in Callers, NEW a, a = call[c].attempt, call[c].pc # "idle",
         UNCHANGED <<boundary, receipt, overlapped>>,
         markers \subseteq markers', served \subseteq served',
         writer' = writer \/ (writer \in {NoAttempt, a} /\ writer' \in {NoAttempt, a}),
         NEW r, call' = [call EXCEPT ![c] = r], IsCall(r), DOMAIN r.decision = DOMAIN NoReceipt,
         \/ r = Resting /\ (receipt[a].terminal => writer' = writer \/ writer' = NoAttempt)
         \/ r.attempt = a /\ CallKnown(call[c])' /\ call[c].pc # "enter"
  PROVE  CompactInv'
<1>1. a \in Attempts /\ a # NoAttempt /\ IsCall(call[c])
  BY CompactRunAssumption DEF CompactInv, Shapes, IsCall
<1>2. call'[c] = r /\ r.attempt \in {a, NoAttempt}
  BY DEF CompactInv, Shapes, Resting
<1>3. Leaves(c, a)
  <2>1. \A d \in Callers \ {c} : call[d].attempt = a => a \in overlapped
    BY <1>1 DEF CompactInv, OverlapKnown
  <2> QED BY <1>1, <1>2, <2>1 DEF Leaves, CompactInv, Shapes
<1>4. OneUnresolved' /\ CompleteIsServed'
  BY DEF CompactInv, OneUnresolved, Unresolved, CompleteIsServed
<1>5. CallKnown(call[c])'
  <2>1. CASE r = Resting
    <3>1. r.pc = "idle" /\ r.installed = FALSE BY <2>1 DEF Resting
    <3> QED BY <1>2, <3>1 DEF CallKnown, NeedsKnown, Recorded, Held, Claimed, Informed
  <2> QED BY <2>1
<1>6. TerminalKnown(a)'
  <2>1. SUFFICES ASSUME receipt[a].terminal, a \notin overlapped PROVE TerminalKnown(a)'
    BY DEF TerminalKnown
  <2>2. writer # a /\ Own(a) = {} /\ \A d \in Callers : call[d].attempt = a => call[d].pc = "enter"
    BY <1>1, <2>1 DEF CompactInv, TerminalKnown
  <2>3. r = Resting BY <2>2
  <2>4. Own(a)' = Own(a) BY DEF Own, Unresolved
  <2>5. \A d \in Callers : call'[d] = IF d = c THEN r ELSE call[d] BY DEF CompactInv, Shapes
  <2> QED BY <1>1, <2>1, <2>2, <2>3, <2>4, <2>5 DEF TerminalKnown, Resting
<1> QED BY <1>1, <1>3, <1>4, <1>5, <1>6, StepKeeps
LEMMA ClaimsKeeps ==
  ASSUME CompactInv, NEW c \in Callers, Claims(c)
  PROVE  CompactInv'
<1>1. IsCall(call[c]) /\ CallKnown(call[c]) /\ call[c].pc = "claim" /\ DOMAIN call[c].decision = DOMAIN NoReceipt
  BY Here DEF Claims, At
<1>2. UNCHANGED <<markers, served, boundary, receipt, overlapped>> BY DEF Claims, thread, rows
<1>3. PICK a : a = call[c].attempt OBVIOUS
<1>4. CASE Returns(c) /\ UNCHANGED writer BY <1>1, <1>2, <1>4, Returned
<1>5. CASE ~(Returns(c) /\ UNCHANGED writer)
  <2>1. PICK escalate \in BOOLEAN :
          /\ escalate => call[c].needs = "preserve"
          /\ writer \in {NoAttempt, a} /\ writer' = a
          /\ LET r == [call[c] EXCEPT !.owns = FALSE, !.force = "none"]
             IN Goes(c, [r EXCEPT !.forced = r.pending, !.index = failures[r.attempt] + 1,
                                  !.needs = IF escalate THEN "continue" ELSE @, !.escalated = escalate,
                                  !.pc = IF r.pending.applied \/ (r.needs = "preserve" /\ ~escalate)
                                         THEN "prepare" ELSE "open"])
    <3>1. [call[c] EXCEPT !.owns = FALSE, !.force = "none"].attempt = a
          /\ [call[c] EXCEPT !.owns = FALSE, !.force = "none"].needs = call[c].needs
      BY <1>1, <1>3 DEF IsCall, CallFields
    <3> QED BY <1>5, <3>1 DEF Claims, Claimable
  <2> DEFINE q == [call[c] EXCEPT !.owns = FALSE, !.force = "none"]
             r == [q EXCEPT !.forced = q.pending, !.index = failures[q.attempt] + 1,
                            !.needs = IF escalate THEN "continue" ELSE @, !.escalated = escalate,
                            !.pc = IF q.pending.applied \/ (q.needs = "preserve" /\ ~escalate)
                                   THEN "prepare" ELSE "open"]
  <2>2. call' = [call EXCEPT ![c] = r] BY <2>1 DEF Goes
  <2>3. /\ DOMAIN q = CallFields /\ q.attempt = a /\ q.pending = call[c].pending /\ q.needs = call[c].needs
        /\ q.decision = call[c].decision /\ q.installed = call[c].installed
    BY <1>1, <1>3 DEF IsCall, CallFields
  <2> HIDE DEF q
  <2>4. /\ DOMAIN r = CallFields /\ r.attempt = a /\ r.decision = call[c].decision
        /\ r.installed = call[c].installed /\ r.forced = call[c].pending
        /\ r.needs = IF escalate THEN "continue" ELSE call[c].needs
        /\ r.pc = IF call[c].pending.applied \/ (call[c].needs = "preserve" /\ ~escalate)
                  THEN "prepare" ELSE "open"
    BY <2>3 DEF CallFields
  <2> HIDE DEF r
  <2>5. IsCall(r) BY <1>1, <1>3, <2>4 DEF IsCall
  <2>6. call'[c] = r BY <2>2 DEF CompactInv, Shapes
  <2>7. NeedsKnown(call[c])' /\ Recorded(call[c])'
    BY <1>1, <1>2, <2>1, <2>4, <2>6 DEF CallKnown, NeedsKnown, Recorded
  <2>8. Held(call[c])'
    <3>1. Own(a)' = Own(a) BY <1>2 DEF Own, Unresolved
    <3>2. a \notin overlapped => Own(a) \subseteq AtMost(call[c].pending)
      BY <1>1, <1>3 DEF CallKnown, Held, Known, Informed
    <3>3. AtMost(call[c].pending) \subseteq Known(r)
      BY <2>4 DEF Known, AtMost
    <3>4. Known(call[c])' = Known(r) BY <2>6 DEF Known, AtMost
    <3> QED BY <1>2, <2>1, <2>4, <2>6, <3>1, <3>2, <3>3, <3>4 DEF Held
  <2>9. CallKnown(call[c])' BY <2>7, <2>8 DEF CallKnown
  <2>10. writer \in {NoAttempt, a} /\ writer' \in {NoAttempt, a} BY <2>1
  <2>11. DOMAIN r.decision = DOMAIN NoReceipt BY <1>1, <2>4
  <2> QED BY <1>1, <1>2, <1>3, <2>2, <2>4, <2>5, <2>9, <2>10, <2>11, RowsStay
<1> QED BY <1>4, <1>5

LEMMA MarksKeeps ==
  ASSUME CompactInv, NEW c \in Callers, Marks(c)
  PROVE  CompactInv'
<1> DEFINE r == [call[c] EXCEPT !.pc = "note"]
<1>1. IsCall(call[c]) /\ CallKnown(call[c]) /\ call[c].pc = "mark" /\ DOMAIN call[c].decision = DOMAIN NoReceipt
  BY Here DEF Marks, At
<1>2. UNCHANGED <<served, writer, boundary, receipt, overlapped>> BY DEF Marks, rows
<1>3. PICK a : a = call[c].attempt OBVIOUS
<1>4. markers' = markers \cup {call[c].forced.turn} /\ call' = [call EXCEPT ![c] = r]
  BY DEF Marks, To, Goes
<1>5. /\ IsCall(r) /\ r.attempt = a /\ r.pc = "note" /\ r.decision = call[c].decision
      /\ r.forced = call[c].forced /\ r.installed = call[c].installed /\ r.needs = call[c].needs
  BY <1>1, <1>3 DEF IsCall, CallFields
<1> HIDE DEF r
<1>6. call'[c] = r BY <1>4 DEF CompactInv, Shapes
<1>7. NeedsKnown(call[c])' /\ Recorded(call[c])'
  BY <1>1, <1>4, <1>5, <1>6 DEF CallKnown, NeedsKnown, Recorded
<1>8. Held(call[c])'
  <2>1. Own(a)' = Own(a) BY <1>2 DEF Own, Unresolved
  <2>2. Known(call[c])' = Known(call[c]) BY <1>1, <1>5, <1>6 DEF Known, AtMost
  <2> QED BY <1>1, <1>2, <1>3, <1>5, <1>6, <2>1, <2>2 DEF CallKnown, Held, Claimed, Informed
<1>9. CallKnown(call[c])' BY <1>7, <1>8 DEF CallKnown
<1>10. markers \subseteq markers' /\ DOMAIN r.decision = DOMAIN NoReceipt BY <1>1, <1>4, <1>5
<1> QED BY <1>1, <1>2, <1>3, <1>4, <1>5, <1>9, <1>10, RowsStay

LEMMA InstallsKeeps ==
  ASSUME CompactInv, NEW c \in Callers, Installs(c)
  PROVE  CompactInv'
<1>1. IsCall(call[c]) /\ CallKnown(call[c]) /\ call[c].pc = "install" /\ DOMAIN call[c].decision = DOMAIN NoReceipt
  BY Here DEF Installs, At
<1>2. UNCHANGED <<markers, writer, boundary, receipt, overlapped>> BY DEF Installs, rows
<1>3. PICK a : a = call[c].attempt OBVIOUS
<1>4. PICK ok \in BOOLEAN, pc \in {"await", "decide"} :
        /\ served' = IF ok THEN served \cup {a} ELSE served
        /\ call' = [call EXCEPT ![c] = [call[c] EXCEPT !.installed = ok, !.pc = pc]]
  BY <1>3 DEF Installs, Goes
<1> DEFINE r == [call[c] EXCEPT !.installed = ok, !.pc = pc]
<1>5. /\ IsCall(r) /\ r.attempt = a /\ r.pc = pc /\ r.decision = call[c].decision
      /\ r.forced = call[c].forced /\ r.installed = ok /\ r.needs = call[c].needs
  BY <1>1, <1>3, <1>4 DEF IsCall, CallFields
<1>6. call' = [call EXCEPT ![c] = r] BY <1>4
<1> HIDE DEF r
<1>7. call'[c] = r BY <1>6 DEF CompactInv, Shapes
<1>8. NeedsKnown(call[c])' /\ Recorded(call[c])'
  BY <1>1, <1>2, <1>3, <1>4, <1>5, <1>7 DEF CallKnown, NeedsKnown, Recorded
<1>9. Held(call[c])'
  <2>1. Own(a)' = Own(a) BY <1>2 DEF Own, Unresolved
  <2>2. Known(call[c])' = Known(call[c]) BY <1>1, <1>4, <1>5, <1>7 DEF Known, AtMost
  <2> QED BY <1>1, <1>2, <1>3, <1>4, <1>5, <1>7, <2>1, <2>2 DEF CallKnown, Held, Claimed, Informed
<1>10. CallKnown(call[c])' BY <1>8, <1>9 DEF CallKnown
<1>11. served \subseteq served' /\ DOMAIN r.decision = DOMAIN NoReceipt BY <1>1, <1>4, <1>5
<1> QED BY <1>1, <1>2, <1>3, <1>5, <1>6, <1>10, <1>11, RowsStay

\* A call that ends gives up its own attempt's claim and no other.
LEMMA GivesUp ==
  ASSUME CompactInv, NEW c \in Callers, Returns(c), call[c].pc # "idle",
         writer' \in {writer, Released(call[c].attempt)},
         UNCHANGED <<markers, served, boundary, receipt, overlapped>>
  PROVE  CompactInv'
<1>1. PICK a : a = call[c].attempt OBVIOUS
<1>2. writer' = writer \/ (writer = a /\ writer' = NoAttempt) BY <1>1 DEF Released
<1>3. IsCall(Resting) /\ DOMAIN Resting.decision = DOMAIN NoReceipt
  BY DEF IsCall, CallFields, Resting
<1>4. call' = [call EXCEPT ![c] = Resting] BY DEF Returns, Goes
<1>5. writer' = writer \/ (writer \in {NoAttempt, a} /\ writer' \in {NoAttempt, a}) BY <1>2
<1> QED BY <1>1, <1>2, <1>3, <1>4, <1>5, RowsStay

LEMMA ReplaysKeeps ==
  ASSUME CompactInv, NEW c \in Callers, Replays(c) PROVE CompactInv'
BY GivesUp DEF Replays, At, thread, rows

LEMMA ReleasesKeeps ==
  ASSUME CompactInv, NEW c \in Callers, Releases(c) PROVE CompactInv'
BY GivesUp DEF Releases, At, thread, rows
-----------------------------------------------------------------------------
(* The receipt *)

\* What the receipt's transaction does to the boundary row: a final plan leaves its
\* attempt no unresolved boundary, and no plan gives another attempt one.
LEMMA PlanSettlesTheRow ==
  ASSUME Shapes, OneUnresolved, CompleteIsServed, NEW a, NEW p,
         p.status \in {"none", "complete", "failed_repairable", "discarded"},
         p.status = "complete" => a \in served /\ p.turn \in markers,
         p.status \in {"complete", "failed_repairable"} => Writable(p.turn, a, p.status),
         UNCHANGED <<markers, served>>,
         p.status = "none" => boundary' = boundary,
         p.status = "discarded" => boundary' = [boundary EXCEPT ![p.turn] = NoBoundary],
         p.status \in {"complete", "failed_repairable"} =>
           boundary' = Upserted(p.turn, a, p.status, p.marker)
  PROVE  /\ boundary' = [u \in 1..MaxTurns |-> boundary'[u]]
         /\ \A u \in 1..MaxTurns :
              boundary'[u] = boundary[u] \/ boundary'[u].owner = a \/ boundary'[u].status = "none"
         /\ OneUnresolved' /\ CompleteIsServed'
         /\ p.status = "none" => Own(a)' = Own(a)
         /\ p.status \in {"complete", "discarded"} => Own(a)' \subseteq Own(a) \ {p.turn}
<1>1. CASE p.status = "none"
  <2>1. boundary' = boundary BY <1>1
  <2> QED BY <1>1, <2>1 DEF Shapes, OneUnresolved, CompleteIsServed, Own, Unresolved
<1>2. CASE p.status = "discarded"
  <2>1. boundary' = [boundary EXCEPT ![p.turn] = NoBoundary] BY <1>2
  <2>2. boundary' = [u \in 1..MaxTurns |-> IF u = p.turn THEN NoBoundary ELSE boundary[u]]
    BY <2>1 DEF Shapes
  <2>3. \A u \in 1..MaxTurns : boundary'[u] = boundary[u] \/ (u = p.turn /\ boundary'[u].status = "none")
    BY <2>2 DEF NoBoundary
  <2>4. \A u \in Unresolved' : u \in Unresolved /\ boundary'[u] = boundary[u] BY <2>3 DEF Unresolved
  <2>5. p.turn \notin Unresolved' BY <2>2 DEF Unresolved, NoBoundary
  <2>6. OneUnresolved' BY <2>4 DEF OneUnresolved
  <2>7. CompleteIsServed' BY <2>3 DEF CompleteIsServed
  <2>8. Own(a)' \subseteq Own(a) \ {p.turn} BY <2>4, <2>5 DEF Own
  <2> QED BY <1>2, <2>2, <2>3, <2>6, <2>7, <2>8
<1>3. CASE p.status \in {"complete", "failed_repairable"}
  <2>1. Upserting(p.turn, a, p.status, p.marker) BY <1>3 DEF Upserting
  <2>2. p.status \in {"pending", "failed_repairable", "complete"} BY <1>3
  <2>3. boundary' = [u \in 1..MaxTurns |-> boundary'[u]] BY <2>1, <2>2, Upserts
  <2>4. \A u \in 1..MaxTurns : boundary'[u] = boundary[u] \/ boundary'[u].owner = a
    BY <2>1, <2>2 DEF Shapes, Upserting, Upserted
  <2>5. ASSUME p.status = "complete" PROVE \A u \in Unresolved' : u \in Unresolved /\ u # p.turn
    <3>1. Upserting(p.turn, a, "complete", p.marker) BY <2>1, <2>5
    <3> QED BY <3>1, Upserts
  <2>6. p.status # "complete" => \A u \in Unresolved' : u = p.turn BY <2>1, <2>2, Upserts
  <2>7. \A u \in 1..MaxTurns : u # p.turn => boundary'[u] = boundary[u] BY <2>1, <2>2, Upserts
  <2>8. p.turn \in 1..MaxTurns =>
          boundary'[p.turn] = [owner |-> a, status |-> p.status, marker |-> p.marker]
    BY <2>1, <2>2, Upserts
  <2>9. OneUnresolved' BY <2>5, <2>6 DEF OneUnresolved
  <2>10. CompleteIsServed'
    <3>1. \A u \in 1..MaxTurns : boundary'[u] = boundary[u]
             \/ (u = p.turn /\ boundary'[u].owner = a /\ boundary'[u].status = p.status)
      BY <2>7, <2>8
    <3> QED BY <3>1 DEF CompleteIsServed
  <2>11. p.status = "complete" => Own(a)' \subseteq Own(a) \ {p.turn}
    <3>1. \A u \in Unresolved' : u \in 1..MaxTurns BY DEF Unresolved
    <3> QED BY <2>5, <2>7, <3>1 DEF Own
  <2> QED BY <1>3, <2>3, <2>4, <2>9, <2>10, <2>11
<1> QED BY <1>1, <1>2, <1>3

LEMMA FinalizesKeeps ==
  ASSUME CompactInv, NEW c \in Callers, Finalizes(c)
  PROVE  CompactInv'
<1>1. IsCall(call[c]) /\ CallKnown(call[c]) /\ call[c].pc = "finalize"
      /\ DOMAIN call[c].decision = DOMAIN NoReceipt
  BY Here DEF Finalizes, At
<1>2. UNCHANGED <<markers, served, overlapped>> /\ Returns(c) BY DEF Finalizes, thread
<1>3. PICK a, p : a = call[c].attempt /\ p = call[c].plan OBVIOUS
<1>4. CASE UNCHANGED <<receipt, boundary, writer>> BY <1>1, <1>2, <1>4, Returned
<1>5. CASE ~UNCHANGED <<receipt, boundary, writer>>
  <2>1. a \in Attempts /\ a # NoAttempt BY <1>1, <1>3, CompactRunAssumption DEF IsCall
  <2>2. /\ p.release => Claimable(a)
        /\ p.status \in {"complete", "failed_repairable"} => Writable(p.turn, a, p.status)
        /\ receipt' = [receipt EXCEPT ![a] = [call[c].decision EXCEPT !.terminal = IsTerminal(a, p),
                                                                     !.released = p.release \/ writer # a]]
        /\ writer' = IF p.release THEN Released(a) ELSE writer
    BY <1>3, <1>5 DEF Finalizes
  <2>12. boundary' = CASE p.status = "none" -> boundary
                       [] p.status = "discarded" -> [boundary EXCEPT ![p.turn] = NoBoundary]
                       [] OTHER -> Upserted(p.turn, a, p.status, p.marker)
    BY <1>3, <1>5 DEF Finalizes
  <2>13. /\ p.status = "none" => boundary' = boundary
         /\ p.status = "discarded" => boundary' = [boundary EXCEPT ![p.turn] = NoBoundary]
         /\ p.status \in {"complete", "failed_repairable"} =>
              boundary' = Upserted(p.turn, a, p.status, p.marker)
    BY <2>12
  <2>3. /\ p.status \in {"none", "complete", "failed_repairable", "discarded"}
        /\ p.terminal => p.status # "failed_repairable"
        /\ p.status = "complete" => a \in served /\ p.turn \in markers
    BY <1>1, <1>3 DEF CallKnown, NeedsKnown, Recorded
  <2>4. /\ boundary' = [u \in 1..MaxTurns |-> boundary'[u]]
        /\ \A u \in 1..MaxTurns :
             boundary'[u] = boundary[u] \/ boundary'[u].owner = a \/ boundary'[u].status = "none"
        /\ OneUnresolved' /\ CompleteIsServed'
        /\ p.status = "none" => Own(a)' = Own(a)
        /\ p.status \in {"complete", "discarded"} => Own(a)' \subseteq Own(a) \ {p.turn}
    BY <1>2, <2>2, <2>3, <2>13, PlanSettlesTheRow DEF CompactInv
  <2>5. /\ receipt' = [b \in Attempts |-> receipt'[b]]
        /\ \A b \in Attempts \ {a} : receipt'[b] = receipt[b]
        /\ receipt'[a].terminal = IsTerminal(a, p)
    <3> DEFINE d == [call[c].decision EXCEPT !.terminal = IsTerminal(a, p), !.released = p.release \/ writer # a]
    <3>1. d.terminal = IsTerminal(a, p) BY <1>1 DEF NoReceipt
    <3> HIDE DEF d
    <3>2. receipt' = [b \in Attempts |-> IF b = a THEN d ELSE receipt[b]]
      BY <2>2 DEF CompactInv, Shapes, d
    <3> QED BY <2>1, <3>1, <3>2
  <2>6. writer' = writer \/ (writer = a /\ writer' = NoAttempt) BY <2>2 DEF Released
  <2>7. /\ call'[c] = Resting /\ call' = [call EXCEPT ![c] = call'[c]]
        /\ Resting.attempt = NoAttempt /\ Resting.pc = "idle" /\ Resting.installed = FALSE
        /\ IsCall(Resting) /\ DOMAIN Resting.decision = DOMAIN NoReceipt
    BY <1>2 DEF CompactInv, Shapes, Returns, Goes, IsCall, CallFields, Resting
  <2>8. \A d \in Callers \ {c} : call[d].attempt = a => a \in overlapped
    BY <1>3, <2>1 DEF CompactInv, OverlapKnown
  <2>9. Leaves(c, a)
    BY <1>2, <2>1, <2>4, <2>5, <2>6, <2>7, <2>8 DEF Leaves
  <2>10. CallKnown(call[c])'
    BY <2>7 DEF CallKnown, NeedsKnown, Recorded, Held, Claimed, Informed
  <2>11. TerminalKnown(a)'
    <3>1. SUFFICES ASSUME IsTerminal(a, p), a \notin overlapped PROVE TerminalKnown(a)'
      BY <1>2, <2>5 DEF TerminalKnown
    <3>2. writer' # a
      BY <2>1, <2>2, <3>1 DEF IsTerminal, Released
    <3>3. p.terminal BY <3>1 DEF IsTerminal
    <3>4. Own(a) \subseteq Known(call[c]) BY <1>1, <1>3, <3>1, <3>3 DEF CallKnown, Held
    <3>5. Own(a)' = {}
      BY <1>1, <1>3, <2>3, <2>4, <3>3, <3>4 DEF Known
    <3>6. \A d \in Callers : call'[d].attempt # a
      BY <2>1, <2>7, <2>8, <3>1 DEF CompactInv, Shapes
    <3> QED BY <3>2, <3>5, <3>6 DEF TerminalKnown
  <2> QED BY <2>1, <2>4, <2>9, <2>10, <2>11, StepKeeps
<1> QED BY <1>4, <1>5
-----------------------------------------------------------------------------
(* The start of a call, and the steps of the agent and the host *)

LEMMA StartsKeeps ==
  ASSUME CompactInv, NEW c \in Callers, Starts(c)
  PROVE  CompactInv'
<1>1. PICK a \in Attempts, f \in Facts :
        /\ At(c, "idle")
        /\ Goes(c, [Resting EXCEPT !.pc = "enter", !.attempt = a, !.facts = f])
        /\ overlapped' = IF \E d \in Callers : call[d].attempt = a THEN overlapped \cup {a} ELSE overlapped
  BY DEF Starts
<1>2. UNCHANGED <<markers, served, writer, boundary, receipt>> BY DEF Starts, thread, rows
<1> DEFINE r == [Resting EXCEPT !.pc = "enter", !.attempt = a, !.facts = f]
<1>3. /\ IsCall(r) /\ r.attempt = a /\ r.pc = "enter" /\ r.installed = FALSE
      /\ DOMAIN r.decision = DOMAIN NoReceipt
  BY DEF IsCall, CallFields, Resting
<1>4. call' = [call EXCEPT ![c] = r] BY <1>1 DEF Goes
<1> HIDE DEF r
<1>5. call'[c] = r /\ \A d \in Callers \ {c} : call'[d] = call[d] BY <1>4 DEF CompactInv, Shapes
<1>6. a # NoAttempt BY CompactRunAssumption
<1>7. Leaves(c, a)
  <2>1. \A d \in Callers \ {c} : call[d].attempt = a => a \in overlapped' BY <1>1
  <2>2. overlapped \subseteq overlapped' BY <1>1
  <2> QED BY <1>2, <1>3, <1>4, <1>5, <2>1, <2>2 DEF Leaves, CompactInv, Shapes
<1>8. OneUnresolved' /\ CompleteIsServed'
  BY <1>2 DEF CompactInv, OneUnresolved, Unresolved, CompleteIsServed
<1>9. CallKnown(call[c])'
  BY <1>3, <1>5 DEF CallKnown, NeedsKnown, Recorded, Held, Claimed, Informed
<1>10. TerminalKnown(a)'
  <2>1. TerminalKnown(a) BY DEF CompactInv
  <2>2. Own(a)' = Own(a) BY <1>2 DEF Own, Unresolved
  <2>3. overlapped \subseteq overlapped' BY <1>1
  <2> QED BY <1>2, <1>3, <1>5, <2>1, <2>2, <2>3 DEF TerminalKnown
<1> QED BY <1>7, <1>8, <1>9, <1>10, StepKeeps

\* A step that no row or call takes part in.
LEMMA OutsideKeeps ==
  ASSUME CompactInv, UNCHANGED <<markers, served, writer, boundary, receipt, call, overlapped>>
  PROVE  CompactInv'
<1>1. Shapes' /\ OverlapKnown' /\ OneUnresolved' /\ CompleteIsServed'
  BY DEF CompactInv, Shapes, OverlapKnown, OneUnresolved, CompleteIsServed, Unresolved
<1>2. \A a : Own(a)' = Own(a) BY DEF Own, Unresolved
<1>3. ASSUME NEW c \in Callers PROVE CallKnown(call[c])'
  <2>1. CallKnown(call[c]) BY DEF CompactInv
  <2>2. NeedsKnown(call[c])' /\ Recorded(call[c])' BY <2>1 DEF CallKnown, NeedsKnown, Recorded
  <2>3. PICK a : a = call[c].attempt OBVIOUS
  <2>4. Own(a)' = Own(a) BY <1>2
  <2>5. Known(call[c])' = Known(call[c]) BY DEF Known, AtMost
  <2> QED BY <2>1, <2>2, <2>3, <2>4, <2>5 DEF CallKnown, Held
<1>4. ASSUME NEW a \in Attempts PROVE TerminalKnown(a)'
  <2>1. Own(a)' = Own(a) BY <1>2
  <2> QED BY <2>1 DEF CompactInv, TerminalKnown
<1> QED BY <1>1, <1>3, <1>4 DEF CompactInv

LEMMA InvInit == CompactInit => CompactInv
<1> SUFFICES ASSUME CompactInit PROVE CompactInv OBVIOUS
<1>1. /\ \A c \in Callers : call[c] = Resting
      /\ \A t \in 1..MaxTurns : boundary[t].status = "none"
      /\ \A a \in Attempts : receipt[a].terminal = FALSE
  BY DEF CompactInit, NoBoundary, NoReceipt
<1>2. Resting.pc = "idle" /\ Resting.attempt = NoAttempt /\ Resting.installed = FALSE
      /\ IsCall(Resting) /\ DOMAIN Resting.decision = DOMAIN NoReceipt
  BY DEF IsCall, CallFields, Resting
<1>3. Shapes
  <2>1. call = [c \in Callers |-> call[c]] BY DEF CompactInit
  <2>2. boundary = [t \in 1..MaxTurns |-> boundary[t]] BY DEF CompactInit
  <2>3. receipt = [a \in Attempts |-> receipt[a]] BY DEF CompactInit
  <2> QED BY <1>1, <1>2, <2>1, <2>2, <2>3 DEF Shapes
<1>4. OverlapKnown BY <1>1, <1>2 DEF OverlapKnown
<1>5. OneUnresolved /\ CompleteIsServed BY <1>1 DEF OneUnresolved, CompleteIsServed, Unresolved
<1>6. \A c \in Callers : CallKnown(call[c])
  BY <1>1, <1>2 DEF CallKnown, NeedsKnown, Recorded, Held, Claimed, Informed
<1>7. \A a \in Attempts : TerminalKnown(a) BY <1>1 DEF TerminalKnown
<1> QED BY <1>3, <1>4, <1>5, <1>6, <1>7 DEF CompactInv

LEMMA InvNext == CompactInv /\ [CompactNext]_vars => CompactInv'
<1> SUFFICES ASSUME CompactInv, [CompactNext]_vars PROVE CompactInv' OBVIOUS
<1>1. ASSUME NEW c \in Callers,
             \/ Starts(c) \/ Replays(c) \/ Enters(c) \/ ReadsState(c) \/ Registers(c) \/ Reconciles(c)
             \/ Classifies(c) \/ Claims(c) \/ ChecksTurn(c) \/ Adopts(c) \/ Intends(c)
      PROVE  CompactInv'
  BY <1>1, StartsKeeps, ReplaysKeeps, EntersKeeps, ReadsStateKeeps, RegistersKeeps, ReconcilesKeeps,
     ClassifiesKeeps, ClaimsKeeps, ChecksTurnKeeps, AdoptsKeeps, IntendsKeeps
<1>2. ASSUME NEW c \in Callers,
             \/ EndsTurn(c) \/ Binds(c) \/ Prepares(c) \/ Marks(c) \/ NotesMarker(c) \/ Installs(c)
             \/ Awaits(c) \/ Decides(c) \/ Finalizes(c) \/ Releases(c) \/ Fails(c) \/ Crashes(c)
      PROVE  CompactInv'
  BY <1>2, EndsTurnKeeps, BindsKeeps, PreparesKeeps, MarksKeeps, NotesMarkerKeeps, InstallsKeeps, AwaitsKeeps,
     DecidesKeeps, FinalizesKeeps, ReleasesKeeps, FailsKeeps, CrashesKeeps
<1>3. ASSUME Works \/ Prompts \/ \E a \in Attempts : Validates(a)
      PROVE  CompactInv'
  BY <1>3, OutsideKeeps DEF Works, Prompts, Validates, thread, rows
<1>4. CASE UNCHANGED vars BY <1>4, OutsideKeeps DEF vars, thread, rows
<1> QED BY <1>1, <1>2, <1>3, <1>4 DEF CompactNext

-----------------------------------------------------------------------------
(* What follows *)

LEMMA Follows == CompactInv => TerminalIsSettled /\ CompleteIsServed /\ SectionIsExclusive
<1> SUFFICES ASSUME CompactInv PROVE TerminalIsSettled /\ CompleteIsServed /\ SectionIsExclusive OBVIOUS
<1>1. TerminalIsSettled
  BY DEF CompactInv, TerminalKnown, TerminalIsSettled, Own
<1>2. SectionIsExclusive
  BY DEF CompactInv, CallKnown, Held, SectionIsExclusive
<1> QED BY <1>1, <1>2 DEF CompactInv

\* What a call knows at each of its steps, what other calls leave of it, and what a
\* final receipt leaves behind: the invariant that the rest follows from.
THEOREM CompactInvariant == CompactSpec => []CompactInv
BY InvInit, InvNext, PTL DEF CompactSpec

\* Of two attempts at most one is past the claim (claimLhcWriter), however calls crash,
\* fail and are tried again.
THEOREM OneAttemptCompacts == CompactSpec => []SectionIsExclusive
<1>1. CompactInv => SectionIsExclusive BY Follows
<1> QED BY <1>1, CompactInvariant, PTL

\* A continuation turn is complete only with its marker recorded and its attempt's view
\* installed (finalizeAttempt after installPreparedCompact).
THEOREM CompleteTurnsAreServed == CompactSpec => []CompleteIsServed
<1>1. CompactInv => CompleteIsServed BY Follows
<1> QED BY <1>1, CompactInvariant, PTL

\* An attempt with a terminal receipt, which is answered again for ever, holds neither the
\* claim nor an unresolved boundary.
THEOREM TerminalHoldsNothing == CompactSpec => []TerminalIsSettled
<1>1. CompactInv => TerminalIsSettled BY Follows
<1> QED BY <1>1, CompactInvariant, PTL

-----------------------------------------------------------------------------
(* The effects of a decision come in stages; what the validator wants in   *)
(* order is in different stages.                                           *)

Stages ==
  << {"discard_pending_boundary", "unsupported_contract_version_omitted", "pending_boundary_discarded",
      "boundary_marker_claim_untrusted", "reclaim_writer", "stale_writer_row_reclaimed",
      "capture_or_identity_unproven", "omit_signed_reasoning", "skip_seam", "writer_owned_elsewhere",
      "tool_correlation_unproven", "protected_tool_pairs_invalid", "continuation_boundary_unavailable"},
     {"claim_writer"}, {"force_turn_end"}, {"compact"}, {"degrade_fidelity"},
     {"unsafe_runway_or_request", "insert_continuation_marker", "preserve_tool_pairs_verbatim",
      "advance_visibility_boundary"},
     {"install_serving_view"},
     {"await_host_validation", "record_host_validation", "host_validation_failed", "compact_attempt_failed",
      "install_attempt_failed", "compact_retry_budget_exhausted", "record_receipt"},
     {"release_writer"} >>

Effects == UNION {Stages[n] : n \in 1..9}

StageOf(e) ==
  IF e \in Stages[1] THEN 1 ELSE IF e \in Stages[2] THEN 2 ELSE IF e \in Stages[3] THEN 3
  ELSE IF e \in Stages[4] THEN 4 ELSE IF e \in Stages[5] THEN 5 ELSE IF e \in Stages[6] THEN 6
  ELSE IF e \in Stages[7] THEN 7 ELSE IF e \in Stages[8] THEN 8 ELSE 9

\* A run of effects E in stages a to b.
Staged(s, E, a, b) ==
  /\ s \in Seq(Effects) /\ ToSet(s) = E
  /\ \A i \in DOMAIN s : a <= StageOf(s[i]) /\ StageOf(s[i]) <= b
  /\ \A i, j \in DOMAIN s : i <= j => StageOf(s[i]) <= StageOf(s[j])

LEMMA StageIsNat == \A e : StageOf(e) \in 1..9
  BY DEF StageOf

LEMMA SetOfJoin ==
  ASSUME NEW S, NEW s \in Seq(S), NEW t \in Seq(S)
  PROVE  ToSet(s \o t) = ToSet(s) \cup ToSet(t)
<1>1. s \o t \in Seq(S) /\ Len(s \o t) = Len(s) + Len(t)
      /\ \A i \in 1..(Len(s) + Len(t)) : (s \o t)[i] = IF i <= Len(s) THEN s[i] ELSE t[i - Len(s)]
  BY ConcatProperties
<1>2. Len(s) \in Nat /\ Len(t) \in Nat /\ DOMAIN s = 1..Len(s) /\ DOMAIN t = 1..Len(t)
      /\ DOMAIN (s \o t) = 1..(Len(s) + Len(t))
  BY <1>1, LenProperties
<1>3. ASSUME NEW i \in DOMAIN s PROVE s[i] \in ToSet(s \o t)
  BY <1>1, <1>2, i \in 1..(Len(s) + Len(t)) DEF ToSet
<1>4. ASSUME NEW i \in DOMAIN t PROVE t[i] \in ToSet(s \o t)
  <2>1. i + Len(s) \in 1..(Len(s) + Len(t)) /\ ~ (i + Len(s) <= Len(s)) /\ (i + Len(s)) - Len(s) = i
    BY <1>2
  <2> QED BY <1>1, <1>2, <2>1 DEF ToSet
<1>5. ASSUME NEW i \in DOMAIN (s \o t) PROVE (s \o t)[i] \in ToSet(s) \cup ToSet(t)
  <2>1. CASE i <= Len(s)
    BY <1>1, <1>2, <2>1, i \in DOMAIN s DEF ToSet
  <2>2. CASE ~ (i <= Len(s))
    BY <1>1, <1>2, <2>2, i - Len(s) \in DOMAIN t DEF ToSet
  <2> QED BY <2>1, <2>2
<1> QED BY <1>3, <1>4, <1>5 DEF ToSet

LEMMA Join ==
  ASSUME NEW s, NEW E, NEW a \in Nat, NEW b \in Nat, Staged(s, E, a, b),
         NEW t, NEW F, NEW c \in Nat, NEW d \in Nat, Staged(t, F, c, d),
         a <= b, b <= c, c <= d
  PROVE  Staged(s \o t, E \cup F, a, d)
<1>1. s \o t \in Seq(Effects) /\ Len(s \o t) = Len(s) + Len(t)
      /\ \A i \in 1..(Len(s) + Len(t)) : (s \o t)[i] = IF i <= Len(s) THEN s[i] ELSE t[i - Len(s)]
  BY ConcatProperties DEF Staged
<1>2. Len(s) \in Nat /\ Len(t) \in Nat /\ DOMAIN s = 1..Len(s) /\ DOMAIN t = 1..Len(t)
      /\ DOMAIN (s \o t) = 1..(Len(s) + Len(t))
  BY <1>1, LenProperties DEF Staged
<1>3. ToSet(s \o t) = E \cup F
  BY SetOfJoin DEF Staged
<1>4. ASSUME NEW i \in DOMAIN (s \o t)
      PROVE  \/ i \in DOMAIN s /\ (s \o t)[i] = s[i]
             \/ ~ (i <= Len(s)) /\ i - Len(s) \in DOMAIN t /\ (s \o t)[i] = t[i - Len(s)]
  BY <1>1, <1>2
<1>5. \A e : StageOf(e) \in Nat
  BY StageIsNat
<1>6. \A i \in DOMAIN (s \o t) : a <= StageOf((s \o t)[i]) /\ StageOf((s \o t)[i]) <= d
  BY <1>4, <1>5 DEF Staged
<1>7. ASSUME NEW i \in DOMAIN (s \o t), NEW j \in DOMAIN (s \o t), i <= j
      PROVE  StageOf((s \o t)[i]) <= StageOf((s \o t)[j])
  <2>1. CASE j <= Len(s)
    BY <1>1, <1>2, <1>7, <2>1 DEF Staged
  <2>2. CASE i <= Len(s) /\ ~ (j <= Len(s))
    <3>1. StageOf((s \o t)[i]) <= b
      BY <1>1, <1>2, <2>2 DEF Staged
    <3>2. c <= StageOf((s \o t)[j])
      BY <1>1, <1>2, <2>2, j - Len(s) \in DOMAIN t DEF Staged
    <3> QED BY <1>5, <3>1, <3>2
  <2>3. CASE ~ (i <= Len(s))
    BY <1>1, <1>2, <1>7, <2>3, i - Len(s) \in DOMAIN t, j - Len(s) \in DOMAIN t, i - Len(s) <= j - Len(s) DEF Staged
  <2> QED BY <1>2, <2>1, <2>2, <2>3
<1> QED BY <1>1, <1>3, <1>6, <1>7 DEF Staged

LEMMA Nothing == ASSUME NEW a, NEW b PROVE Staged(<<>>, {}, a, b)
  BY DEF Staged, ToSet

LEMMA OneEffect == ASSUME NEW e \in Effects PROVE Staged(<<e>>, {e}, StageOf(e), StageOf(e))
<1>1. <<e>> \in Seq(Effects) /\ DOMAIN <<e>> = {1} /\ <<e>>[1] = e
  OBVIOUS
<1> QED BY <1>1, StageIsNat DEF Staged, ToSet

LEMMA Wider ==
  ASSUME NEW s, NEW E, NEW a \in Nat, NEW b \in Nat, Staged(s, E, a, b),
         NEW c \in Nat, NEW d \in Nat, c <= a, b <= d
  PROVE  Staged(s, E, c, d)
  BY StageIsNat DEF Staged

LEMMA Ordered ==
  ASSUME NEW d, NEW E, Staged(d.effects, E, 1, 9), NEW e, NEW f, StageOf(e) < StageOf(f)
  PROVE  InOrder(d, e, f)
<1> SUFFICES ASSUME Has(d, e), Has(d, f) PROVE Place(d, e) < Place(d, f)
  BY DEF InOrder
<1>1. Place(d, e) \in DOMAIN d.effects /\ d.effects[Place(d, e)] = e
  BY DEF Has, ToSet, Place
<1>2. Place(d, f) \in DOMAIN d.effects /\ d.effects[Place(d, f)] = f
  BY DEF Has, ToSet, Place
<1>3. DOMAIN d.effects \subseteq Nat
  BY LenProperties DEF Staged
<1>4. ~ (Place(d, f) <= Place(d, e))
  BY <1>1, <1>2, StageIsNat DEF Staged
<1> QED BY <1>1, <1>2, <1>3, <1>4

LEMMA InStage ==
  ASSUME NEW n \in 1..9, NEW e \in Stages[n] PROVE e \in Effects /\ StageOf(e) = n
<1>1. e \in Effects
  BY DEF Effects
<1>2. n = 1 \/ n = 2 \/ n = 3 \/ n = 4 \/ n = 5 \/ n = 6 \/ n = 7 \/ n = 8 \/ n = 9
  OBVIOUS
<1>3. StageOf(e) = n
  BY <1>2 DEF StageOf, Stages
<1> QED BY <1>1, <1>3

LEMMA Single == ASSUME NEW n \in 1..9, NEW e \in Stages[n] PROVE Staged(<<e>>, {e}, n, n)
  BY InStage, OneEffect

\* What a receipt says that compacted nothing.
Kept(d, E) ==
  /\ Staged(d.effects, E, 1, 9) /\ E \subseteq Stages[1] \cup Stages[2] \cup {"record_receipt"} \cup Stages[9]
  /\ "claim_writer" \in E => "release_writer" \in E
  /\ d.released /\ ~d.served /\ ~d.retry /\ d.priorIntact
  /\ d.attempt \in Nat \ {0} /\ d.budget \in Nat \ {0}
  /\ d.outcome \notin {"retry_compact", "compact_continue_turn"}
  /\ d.applied => d.turnEnd /\ d.opened
  /\ d.opened => ~d.sameTurn
  /\ d.nextAllowed <=> d.outcome # "skip_seam"
  /\ PathIsValid(d)

LEMMA EffectsInOrder ==
  ASSUME NEW d, NEW E, Staged(d.effects, E, 1, 9)
  PROVE  /\ InOrder(d, "claim_writer", "release_writer")
         /\ InOrder(d, "force_turn_end", "compact")
         /\ InOrder(d, "compact", "install_serving_view")
         /\ InOrder(d, "compact", "degrade_fidelity")
         /\ InOrder(d, "degrade_fidelity", "install_serving_view")
         /\ \A e : Has(d, e) <=> e \in E
<1>1. \A e : Has(d, e) <=> e \in E
  BY DEF Has, Staged
<1>2. StageOf("claim_writer") = 2 /\ StageOf("release_writer") = 9
  BY InStage DEF Stages
<1>3. StageOf("force_turn_end") = 3 /\ StageOf("compact") = 4
  BY InStage DEF Stages
<1>4. StageOf("degrade_fidelity") = 5 /\ StageOf("install_serving_view") = 7
  BY InStage DEF Stages
<1>5. StageOf("claim_writer") < StageOf("release_writer") /\ StageOf("force_turn_end") < StageOf("compact")
  BY <1>2, <1>3
<1>6. StageOf("compact") < StageOf("install_serving_view") /\ StageOf("compact") < StageOf("degrade_fidelity")
      /\ StageOf("degrade_fidelity") < StageOf("install_serving_view")
  BY <1>3, <1>4
<1>7. InOrder(d, "claim_writer", "release_writer") /\ InOrder(d, "force_turn_end", "compact")
  BY <1>5, Ordered, Zenon
<1>8. InOrder(d, "compact", "install_serving_view") /\ InOrder(d, "compact", "degrade_fidelity")
      /\ InOrder(d, "degrade_fidelity", "install_serving_view")
  BY <1>6, Ordered, Zenon
<1> QED BY <1>1, <1>7, <1>8

LEMMA KeptIsValid == ASSUME NEW d, NEW E, Kept(d, E) PROVE DecisionIsValid(d)
<1>1. "record_receipt" \in Stages[8] /\ "release_writer" \in Stages[9]
  BY DEF Stages
<1>2. \A e \in {"force_turn_end", "compact", "degrade_fidelity", "install_serving_view",
               "insert_continuation_marker", "install_attempt_failed"} : e \notin E
  BY DEF Kept, Stages
<1>3. EffectsAreValid(d)
  BY <1>2, EffectsInOrder DEF EffectsAreValid, Kept
<1>4. ViewIsValid(d) /\ ContinuationIsValid(d) /\ SeamIsValid(d)
  BY <1>2, EffectsInOrder DEF ViewIsValid, ContinuationIsValid, SeamIsValid, Kept
<1>5. ResidualIsValid(d) /\ RetryIsValid(d)
  BY DEF ResidualIsValid, RetryIsValid, Kept
<1> QED BY <1>3, <1>4, <1>5 DEF DecisionIsValid, Kept

States ==
  {"idle", "at_seam", "checking_invariants", "evaluating_pressure", "below_trigger", "path_normal_complete",
   "path_continue_turn", "path_preserve_tool", "compacting", "installing", "terminal_skip",
   "terminal_decline_ordinary", "terminal_continue_current_body", "terminal_continue_normal",
   "terminal_normal_complete", "terminal_retry", "terminal_no_reduction", "terminal_degraded",
   "terminal_continue_turn", "terminal_preserve_tool"}

\* A way that has compacted only on one of its two paths, and that is not below the trigger.
Routed(p) ==
  /\ p \in Seq(States) /\ "below_trigger" \notin ToSet(p)
  /\ "compacting" \in ToSet(p) => {"path_preserve_tool", "path_continue_turn"} \cap ToSet(p) # {}

LEMMA Longer == ASSUME NEW p, Routed(p), NEW q, Routed(q) PROVE Routed(p \o q)
<1>1. p \in Seq(States) /\ q \in Seq(States)
  BY DEF Routed
<1>2. ToSet(p \o q) = ToSet(p) \cup ToSet(q)
  BY <1>1, SetOfJoin
<1>3. p \o q \in Seq(States)
  BY <1>1, ConcatProperties
<1> QED BY <1>2, <1>3 DEF Routed

LEMMA Extended ==
  ASSUME NEW p, Routed(p), NEW q \in States, q \notin {"below_trigger", "compacting"}
  PROVE  Routed(Append(p, q)) /\ Routed(p \o <<q>>)
<1>1. Append(p, q) = p \o <<q>>
  BY AppendIsConcat DEF Routed
<1>2. <<q>> \in Seq(States) /\ ToSet(<<q>>) = {q}
  BY DEF ToSet
<1>3. Routed(<<q>>)
  BY <1>2 DEF Routed
<1> QED BY <1>1, <1>3, Longer

LEMMA Compacting ==
  ASSUME NEW p, Routed(p), NEW q \in {"path_preserve_tool", "path_continue_turn"}
  PROVE  Routed(p \o <<q, "compacting">>)
<1>1. <<q, "compacting">> \in Seq(States)
  BY DEF States
<1>2. ToSet(<<q, "compacting">>) = {q, "compacting"}
  BY DEF ToSet
<1>3. Routed(<<q, "compacting">>)
  BY <1>1, <1>2 DEF Routed
<1> QED BY <1>3, Longer

LEMMA RoutedIsValid == ASSUME NEW d, Routed(d.path) PROVE PathIsValid(d)
  BY DEF Routed, PathIsValid

Prelude(p) ==
  "effects" \in DOMAIN p /\ \E P \in SUBSET Stages[1] : Staged(p.effects, P, 1, 1)

IsInput(in) == \E ts, retries : retries \in Nat /\ in \in InputOver(ts, retries)

LEMMA InputFields ==
  ASSUME NEW in, IsInput(in)
  PROVE  /\ in.attempt \in Nat \ {0} /\ in.budget \in Nat \ {0}
         /\ in.boundary = NotApplied \/ \E t, f, k : in.boundary = Applied(t, f, k)
         /\ in.boundary.applied \in BOOLEAN
         /\ in.pressure \in {"no_usage", "below", "above"}
         /\ in.host \in {"unset", "not_required", "awaiting", "ok", "failed"}
         /\ {in.ids, in.valid, in.useful, in.safe, in.full, in.escalated, in.install, in.advance} \subseteq BOOLEAN
<1>1. PICK ts, retries : retries \in Nat /\ in \in InputOver(ts, retries)
  BY DEF IsInput
<1>2. in.attempt \in 1..retries /\ in.budget \in 1..retries
  BY <1>1 DEF InputOver
<1>3. in.boundary \in {NotApplied} \cup {Applied(t, f, k) : t \in ts, f \in BOOLEAN, k \in BOOLEAN}
  BY <1>1 DEF InputOver
<1>4. in.boundary = NotApplied \/ \E t, f, k : in.boundary = Applied(t, f, k)
  BY <1>3
<1>5. in.boundary.applied \in BOOLEAN
  <2>1. CASE in.boundary = NotApplied
    BY <2>1 DEF NotApplied
  <2>2. ASSUME NEW t, NEW f, NEW k, in.boundary = Applied(t, f, k) PROVE in.boundary.applied \in BOOLEAN
    BY <2>2 DEF Applied
  <2> QED BY <1>4, <2>1, <2>2
<1>6. in.pressure \in {"no_usage", "below", "above"}
      /\ in.host \in {"unset", "not_required", "awaiting", "ok", "failed"}
  BY <1>1 DEF InputOver
<1>7. {in.ids, in.valid, in.useful, in.safe, in.full, in.escalated, in.install, in.advance} \subseteq BOOLEAN
  BY <1>1 DEF InputOver
<1> QED BY <1>1, <1>2, <1>4, <1>5, <1>6, <1>7

LEMMA DeclineIsValid ==
  ASSUME NEW in, IsInput(in), NEW path, Routed(path), NEW p, Prelude(p), NEW code \in Stages[1]
  PROVE  DecisionIsValid(Decline(in, path, p, code))
<1> DEFINE d == Decline(in, path, p, code)
<1>1. PICK P \in SUBSET Stages[1] : Staged(p.effects, P, 1, 1)
  BY DEF Prelude
<1> DEFINE E1 == P \cup {code}
           E2 == E1 \cup (IF in.writer = "lhc" THEN {"claim_writer"} ELSE {})
           E3 == E2 \cup {"record_receipt"}
           E4 == E3 \cup (IF in.writer = "lhc" THEN {"release_writer"} ELSE {})
           s1 == p.effects \o <<code>>
           s2 == s1 \o Opt(in.writer = "lhc", "claim_writer")
           s3 == s2 \o <<"record_receipt">>
           s4 == s3 \o Opt(in.writer = "lhc", "release_writer")
<1>2. "claim_writer" \in Stages[2] /\ "record_receipt" \in Stages[8] /\ "release_writer" \in Stages[9]
  BY DEF Stages
<1>3. /\ Staged(<<code>>, {code}, 1, 1)
      /\ Staged(Opt(in.writer = "lhc", "claim_writer"), IF in.writer = "lhc" THEN {"claim_writer"} ELSE {}, 2, 2)
      /\ Staged(<<"record_receipt">>, {"record_receipt"}, 8, 8)
      /\ Staged(Opt(in.writer = "lhc", "release_writer"), IF in.writer = "lhc" THEN {"release_writer"} ELSE {}, 9, 9)
  BY <1>2, Single, Nothing DEF Opt, If
<1> HIDE DEF E1, E2, E3, E4, s1, s2, s3, s4
<1>4. Staged(s2, E2, 1, 2)
  <2>1. Staged(s1, E1, 1, 1)
    BY <1>1, <1>3, Join DEF s1, E1
  <2> QED BY <1>3, <2>1, Join DEF s2, E2
<1>5. Staged(s3, E3, 1, 8)
  BY <1>3, <1>4, Join DEF s3, E3
<1>6. Staged(s4, E4, 1, 9)
  BY <1>3, <1>5, Join DEF s4, E4
<1>7. d.effects = s4 /\ d.path = Append(path, "terminal_decline_ordinary")
  BY DEF s1, s2, s3, s4, Decline, Overlaid, Unchanged
<1>8. PathIsValid(d)
  BY <1>7, Extended, RoutedIsValid DEF States
<1>9. /\ d.released /\ ~d.served /\ ~d.retry /\ d.priorIntact
      /\ d.attempt = in.attempt /\ d.budget = in.budget
      /\ d.outcome = "decline_to_ordinary_compact"
      /\ d.applied => d.turnEnd /\ d.opened
      /\ d.opened => ~d.sameTurn
      /\ d.nextAllowed
  BY DEF Decline, Overlaid, Unchanged
<1>10. "claim_writer" \in E4 => "release_writer" \in E4
  BY <1>1, <1>2 DEF E1, E2, E3, E4, Stages
<1>11. E4 \subseteq Stages[1] \cup Stages[2] \cup {"record_receipt"} \cup Stages[9]
  BY <1>1, <1>2 DEF E1, E2, E3, E4
<1>12. Kept(d, E4)
  BY <1>6, <1>7, <1>8, <1>9, <1>10, <1>11, InputFields DEF Kept
<1> QED BY <1>12, KeptIsValid

\* The receipts that compacted nothing: what their effects are, and what else they say.
LEMMA SkipIsValid == ASSUME NEW in, IsInput(in) PROVE DecisionIsValid(Skip(in))
<1> DEFINE d == Skip(in)
           E == {"skip_seam", "record_receipt"}
<1>1. "skip_seam" \in Stages[1] /\ "record_receipt" \in Stages[8]
  BY DEF Stages
<1>2. Staged(<<"skip_seam", "record_receipt">>, E, 1, 8)
  BY <1>1, InStage, StageIsNat DEF Staged, ToSet
<1>3. d.effects = <<"skip_seam", "record_receipt">> /\ d.path = <<"idle", "terminal_skip">>
  BY DEF Skip, Overlaid, Unchanged
<1>4. PathIsValid(d)
  BY <1>3 DEF PathIsValid, ToSet
<1>5. /\ d.released /\ ~d.served /\ ~d.retry /\ d.priorIntact
      /\ d.attempt = in.attempt /\ d.budget = in.budget
      /\ d.outcome = "skip_seam" /\ ~d.nextAllowed
      /\ d.applied => d.turnEnd /\ d.opened
      /\ d.opened => ~d.sameTurn
  BY DEF Skip, Overlaid, Unchanged
<1>6. E \subseteq Stages[1] \cup Stages[2] \cup {"record_receipt"} \cup Stages[9] /\ "claim_writer" \notin E
  BY <1>1
<1>7. Staged(d.effects, E, 1, 9)
  BY <1>2, <1>3, Wider
<1>8. Kept(d, E)
  BY <1>4, <1>5, <1>6, <1>7, InputFields DEF Kept
<1> QED BY <1>8, KeptIsValid

LEMMA UnsupportedIsValid == ASSUME NEW in PROVE DecisionIsValid(DeclineUnsupportedVersion(in))
<1> DEFINE d == DeclineUnsupportedVersion(in)
           s == <<"discard_pending_boundary", "unsupported_contract_version_omitted", "record_receipt">>
           E == {"discard_pending_boundary", "unsupported_contract_version_omitted", "record_receipt"}
<1>1. {"discard_pending_boundary", "unsupported_contract_version_omitted"} \subseteq Stages[1]
      /\ "record_receipt" \in Stages[8]
  BY DEF Stages
<1>2. Staged(s, E, 1, 8)
  BY <1>1, InStage, StageIsNat DEF Staged, ToSet
<1>3. d.effects = s /\ d.path = <<"idle", "terminal_decline_ordinary">>
  BY DEF DeclineUnsupportedVersion, Unchanged
<1>4. PathIsValid(d)
  BY <1>3 DEF PathIsValid, ToSet
<1>5. /\ d.released /\ ~d.served /\ ~d.retry /\ d.priorIntact
      /\ d.attempt = 1 /\ d.budget = 2
      /\ d.outcome = "decline_to_ordinary_compact" /\ d.nextAllowed
      /\ ~d.applied /\ ~d.opened
  BY DEF DeclineUnsupportedVersion, Unchanged
<1>6. E \subseteq Stages[1] \cup Stages[2] \cup {"record_receipt"} \cup Stages[9] /\ "claim_writer" \notin E
  BY <1>1
<1>7. Staged(d.effects, E, 1, 9)
  BY <1>2, <1>3, Wider
<1>8. Kept(d, E)
  BY <1>4, <1>5, <1>6, <1>7 DEF Kept
<1> QED BY <1>8, KeptIsValid

\* A prelude, one effect more and the receipt.
LEMMA PreludeAndReceipt ==
  ASSUME NEW p, Prelude(p)
  PROVE  /\ \E P \in SUBSET Stages[1] : Staged(Append(p.effects, "record_receipt"), P \cup {"record_receipt"}, 1, 9)
         /\ \A e \in Stages[1] : \E P \in SUBSET Stages[1] :
               Staged(p.effects \o <<e, "record_receipt">>, P \cup {"record_receipt"}, 1, 9)
<1>1. PICK P \in SUBSET Stages[1] : Staged(p.effects, P, 1, 1)
  BY DEF Prelude
<1>2. "record_receipt" \in Stages[8]
  BY DEF Stages
<1>3. Staged(<<"record_receipt">>, {"record_receipt"}, 8, 8)
  BY <1>2, Single
<1>4. Append(p.effects, "record_receipt") = p.effects \o <<"record_receipt">>
  <2>1. p.effects \in Seq(Effects) /\ "record_receipt" \in Effects
    BY <1>1, <1>2, InStage DEF Staged
  <2> QED BY <2>1, AppendIsConcat
<1>5. Staged(p.effects \o <<"record_receipt">>, P \cup {"record_receipt"}, 1, 8)
  BY <1>1, <1>3, Join
<1>6. ASSUME NEW e \in Stages[1]
      PROVE  \E Q \in SUBSET Stages[1] : Staged(p.effects \o <<e, "record_receipt">>, Q \cup {"record_receipt"}, 1, 9)
  <2> DEFINE t == <<e, "record_receipt">>
  <2>1. Staged(t, {e, "record_receipt"}, 1, 8)
    BY <1>2, InStage, StageIsNat DEF Staged, ToSet
  <2> HIDE DEF t
  <2>2. Staged(p.effects \o t, P \cup {e, "record_receipt"}, 1, 8)
    BY <1>1, <2>1, Join
  <2>3. Staged(p.effects \o t, (P \cup {e}) \cup {"record_receipt"}, 1, 9)
    <3>1. P \cup {e, "record_receipt"} = (P \cup {e}) \cup {"record_receipt"}
      OBVIOUS
    <3> QED BY <2>2, <3>1, Wider
  <2> QED BY <2>3 DEF t
<1>7. Staged(Append(p.effects, "record_receipt"), P \cup {"record_receipt"}, 1, 9)
  <2> DEFINE t == p.effects \o <<"record_receipt">>
  <2>1. Staged(t, P \cup {"record_receipt"}, 1, 8)
    BY <1>5
  <2> HIDE DEF t
  <2>2. Staged(t, P \cup {"record_receipt"}, 1, 9)
    BY <2>1, Wider
  <2> QED BY <1>4, <2>2 DEF t
<1> QED BY <1>6, <1>7

LEMMA ElsewhereIsValid ==
  ASSUME NEW in, IsInput(in), NEW path, Routed(path), NEW p, Prelude(p)
  PROVE  DecisionIsValid(WriterOwnedElsewhere(in, path, p))
<1> DEFINE d == WriterOwnedElsewhere(in, path, p)
<1>1. PICK P \in SUBSET Stages[1] :
        Staged(p.effects \o <<"writer_owned_elsewhere", "record_receipt">>, P \cup {"record_receipt"}, 1, 9)
  BY PreludeAndReceipt, "writer_owned_elsewhere" \in Stages[1] DEF Stages
<1>2. d.effects = p.effects \o <<"writer_owned_elsewhere", "record_receipt">>
      /\ d.path = Append(path, "terminal_continue_current_body")
  BY DEF WriterOwnedElsewhere, Overlaid, Unchanged
<1>3. PathIsValid(d)
  BY <1>2, Extended, RoutedIsValid DEF States
<1>4. /\ d.released /\ ~d.served /\ ~d.retry /\ d.priorIntact
      /\ d.attempt = in.attempt /\ d.budget = in.budget
      /\ d.outcome = "continue_current_body" /\ d.nextAllowed
      /\ d.applied => d.turnEnd /\ d.opened
      /\ d.opened => ~d.sameTurn
  BY DEF WriterOwnedElsewhere, Overlaid, Unchanged
<1>5. "claim_writer" \notin P \cup {"record_receipt"}
  BY DEF Stages
<1>6. Kept(d, P \cup {"record_receipt"})
  BY <1>1, <1>2, <1>3, <1>4, <1>5, InputFields DEF Kept
<1> QED BY <1>6, KeptIsValid

LEMMA NormalIsValid ==
  ASSUME NEW in, IsInput(in), NEW path, Routed(path), NEW p, Prelude(p)
  PROVE  DecisionIsValid(ContinueNormal(in, path, p)) /\ DecisionIsValid(NormalComplete(in, path, p))
<1>1. PICK P \in SUBSET Stages[1] : Staged(Append(p.effects, "record_receipt"), P \cup {"record_receipt"}, 1, 9)
  BY PreludeAndReceipt
<1>2. "claim_writer" \notin P \cup {"record_receipt"}
  BY DEF Stages
<1>3. ASSUME NEW d, d = ContinueNormal(in, path, p) \/ d = NormalComplete(in, path, p), PathIsValid(d)
      PROVE  DecisionIsValid(d)
  <2>1. d.effects = Append(p.effects, "record_receipt")
    <3>1. CASE d = ContinueNormal(in, path, p)
      BY <3>1 DEF ContinueNormal, Unchanged
    <3>2. CASE d = NormalComplete(in, path, p)
      BY <3>2 DEF NormalComplete, Unchanged
    <3> QED BY <1>3, <3>1, <3>2
  <2>2. /\ d.released /\ ~d.served /\ ~d.retry /\ d.priorIntact
        /\ d.attempt = in.attempt /\ d.budget = in.budget
        /\ d.outcome \in {"continue_normal", "normal_complete"} /\ d.nextAllowed
        /\ ~d.applied /\ ~d.opened
    <3>1. CASE d = ContinueNormal(in, path, p)
      BY <3>1 DEF ContinueNormal, Unchanged
    <3>2. CASE d = NormalComplete(in, path, p)
      BY <3>2 DEF NormalComplete, Unchanged
    <3> QED BY <1>3, <3>1, <3>2
  <2>3. Kept(d, P \cup {"record_receipt"})
    BY <1>1, <1>2, <1>3, <2>1, <2>2, InputFields DEF Kept
  <2> QED BY <2>3, KeptIsValid
<1>4. PathIsValid(NormalComplete(in, path, p))
  <2>1. Routed(<<"path_normal_complete", "terminal_normal_complete">>)
    BY DEF Routed, States, ToSet
  <2>2. NormalComplete(in, path, p).path = path \o <<"path_normal_complete", "terminal_normal_complete">>
    BY DEF NormalComplete, Unchanged
  <2> QED BY <2>1, <2>2, Longer, RoutedIsValid
<1>5. PathIsValid(ContinueNormal(in, path, p))
  <2> DEFINE d == ContinueNormal(in, path, p)
             u == Opt(in.pressure = "below", "below_trigger")
             v == path \o u
             w == <<"terminal_continue_normal">>
  <2>1. d.path = v \o w /\ (in.pressure = "below" => d.base)
    BY DEF ContinueNormal, Unchanged
  <2>2. u \in Seq(States) /\ ToSet(u) = IF in.pressure = "below" THEN {"below_trigger"} ELSE {}
    <3>1. CASE in.pressure = "below"
      <4>1. u = <<"below_trigger">>
        BY <3>1 DEF Opt, If
      <4>2. <<"below_trigger">> \in Seq(States) /\ ToSet(<<"below_trigger">>) = {"below_trigger"}
        BY DEF States, ToSet
      <4> QED BY <3>1, <4>1, <4>2
    <3>2. CASE in.pressure # "below"
      <4>1. u = <<>>
        BY <3>2 DEF Opt, If
      <4>2. <<>> \in Seq(States) /\ ToSet(<<>>) = {}
        BY DEF ToSet
      <4> QED BY <3>2, <4>1, <4>2
    <3> QED BY <3>1, <3>2
  <2>3. w \in Seq(States) /\ ToSet(w) = {"terminal_continue_normal"}
    BY DEF States, ToSet
  <2>4. path \in Seq(States)
    BY DEF Routed
  <2> HIDE DEF d, u, w
  <2>5. v \in Seq(States) /\ ToSet(v) = ToSet(path) \cup ToSet(u)
    BY <2>2, <2>4, SetOfJoin, ConcatProperties
  <2> HIDE DEF v
  <2>6. ToSet(d.path) = ToSet(path) \cup ToSet(u) \cup ToSet(w)
    BY <2>1, <2>3, <2>5, SetOfJoin
  <2>7. "compacting" \in ToSet(d.path) => "compacting" \in ToSet(path)
    BY <2>2, <2>3, <2>6
  <2>8. "below_trigger" \in ToSet(d.path) => in.pressure = "below"
    BY <2>2, <2>3, <2>6 DEF Routed
  <2>9. PathIsValid(d)
    BY <2>1, <2>6, <2>7, <2>8 DEF PathIsValid, Routed
  <2> QED BY <2>9 DEF d
<1> QED BY <1>3, <1>4, <1>5

Ending == <<"record_receipt", "release_writer">>

LEMMA EndingIsStaged == Staged(Ending, {"record_receipt", "release_writer"}, 8, 9)
<1>1. "record_receipt" \in Stages[8] /\ "release_writer" \in Stages[9]
  BY DEF Stages
<1> QED BY <1>1, InStage, StageIsNat DEF Staged, ToSet, Ending

\* What a receipt says that has claimed the writer and compacted.
Tried(d, E) ==
  /\ Staged(d.effects, E, 1, 9) /\ "release_writer" \in E
  /\ d.released /\ (d.served <=> d.marker /\ ~d.priorIntact)
  /\ d.attempt \in Nat \ {0} /\ d.budget \in Nat \ {0}
  /\ d.retry <=> d.outcome = "retry_compact"
  /\ d.retry => d.attempt < d.budget
  /\ "force_turn_end" \in E => d.turnEnd
  /\ "insert_continuation_marker" \in E => d.marker
  /\ d.served => "insert_continuation_marker" \in E
  /\ d.priorIntact <=> "install_serving_view" \notin E
  /\ "install_attempt_failed" \in E => d.priorIntact
  /\ d.applied => d.turnEnd /\ d.opened
  /\ d.opened => ~d.sameTurn
  /\ d.outcome = "compact_continue_turn" => d.turnEnd /\ d.served
  /\ d.outcome # "skip_seam" /\ (~d.nextAllowed => d.host = "awaiting")
  /\ PathIsValid(d)

LEMMA TriedIsValid == ASSUME NEW d, NEW E, Tried(d, E) PROVE DecisionIsValid(d)
<1>1. EffectsAreValid(d)
  BY EffectsInOrder DEF EffectsAreValid, Tried
<1>2. ViewIsValid(d) /\ ContinuationIsValid(d) /\ SeamIsValid(d)
  BY EffectsInOrder DEF ViewIsValid, ContinuationIsValid, SeamIsValid, Tried
<1>3. ResidualIsValid(d) /\ RetryIsValid(d)
  BY DEF ResidualIsValid, RetryIsValid, Tried
<1> QED BY <1>1, <1>2, <1>3 DEF DecisionIsValid, Tried

LEMMA AttemptFailedIsValid ==
  ASSUME NEW in, IsInput(in), NEW path, Routed(path),
         NEW code \in {"compact_attempt_failed", "install_attempt_failed"},
         NEW effects, NEW E, Staged(effects, E, 1, 6), "install_serving_view" \notin E,
         NEW continued \in BOOLEAN, NEW marker \in BOOLEAN,
         "force_turn_end" \in E => continued, "insert_continuation_marker" \in E => continued /\ marker
  PROVE  DecisionIsValid(AttemptFailed(in, path, code, effects, continued, marker))
<1> DEFINE d == AttemptFailed(in, path, code, effects, continued, marker)
           retry == RetryAuthorized(in)
           u == <<code>>
           v == Opt(~retry, "compact_retry_budget_exhausted")
           U == {code}
           V == IF retry THEN {} ELSE {"compact_retry_budget_exhausted"}
           F == ((E \cup U) \cup V) \cup {"record_receipt", "release_writer"}
<1>1. Staged(u, U, 8, 8)
  BY Single, code \in Stages[8] DEF Stages
<1>2. Staged(v, V, 8, 8)
  <2>1. Staged(<<"compact_retry_budget_exhausted">>, {"compact_retry_budget_exhausted"}, 8, 8)
    BY Single, "compact_retry_budget_exhausted" \in Stages[8] DEF Stages
  <2>2. CASE retry
    BY <2>2, Nothing DEF Opt, If
  <2>3. CASE ~ retry
    BY <2>1, <2>3 DEF Opt, If
  <2> QED BY <2>2, <2>3
<1>3. d.effects = ((effects \o u) \o v) \o Ending
      /\ d.path = Append(path, IF retry THEN "terminal_retry" ELSE "terminal_continue_current_body")
  BY DEF AttemptFailed, Unchanged, Ending
<1>4. PathIsValid(d)
  BY <1>3, Extended, RoutedIsValid DEF States
<1>5. /\ d.released /\ ~d.served /\ d.priorIntact
      /\ d.attempt = in.attempt /\ d.budget = in.budget
      /\ d.retry <=> retry
      /\ d.outcome = IF retry THEN "retry_compact" ELSE "continue_current_body"
      /\ d.nextAllowed
      /\ d.applied <=> continued
      /\ d.turnEnd <=> continued
      /\ d.opened <=> continued
      /\ d.sameTurn <=> ~continued
      /\ continued /\ marker => d.marker
  <2>1. /\ d.released /\ ~d.served /\ d.priorIntact
        /\ d.attempt = in.attempt /\ d.budget = in.budget
        /\ d.outcome = IF retry THEN "retry_compact" ELSE "continue_current_body"
        /\ d.nextAllowed
    BY DEF AttemptFailed, Unchanged
  <2>2. /\ d.retry <=> retry
        /\ d.applied <=> continued
        /\ d.turnEnd <=> continued
        /\ d.opened <=> continued
    BY DEF AttemptFailed, Unchanged
  <2>3. d.sameTurn <=> ~continued
    BY DEF AttemptFailed, Unchanged
  <2>4. continued /\ marker => d.marker
    BY DEF AttemptFailed, Unchanged
  <2> QED BY <2>1, <2>2, <2>3, <2>4
<1> HIDE DEF u, v, U, V
<1>6. Staged(effects \o u, E \cup U, 1, 8)
  BY <1>1, Join
<1>7. Staged((effects \o u) \o v, (E \cup U) \cup V, 1, 8)
  BY <1>2, <1>6, Join
<1>8. Staged(d.effects, F, 1, 9)
  BY <1>3, <1>7, EndingIsStaged, Join
<1>9. /\ "release_writer" \in F /\ "install_serving_view" \notin F
      /\ "force_turn_end" \in F <=> "force_turn_end" \in E
      /\ "insert_continuation_marker" \in F <=> "insert_continuation_marker" \in E
  BY DEF U, V
<1>10. d.retry => d.attempt < d.budget
  BY <1>5 DEF RetryAuthorized
<1> HIDE DEF d, F, retry
<1>11. Tried(d, F)
  BY <1>4, <1>5, <1>8, <1>9, <1>10, InputFields DEF Tried
<1> QED BY <1>11, TriedIsValid DEF d

LEMMA InstalledIsValid ==
  ASSUME NEW in, IsInput(in), NEW path, Routed(path),
         NEW effects, NEW E, Staged(effects, E, 1, 8),
         "install_serving_view" \in E, "install_attempt_failed" \notin E,
         NEW continued \in BOOLEAN, "force_turn_end" \in E => continued,
         "insert_continuation_marker" \in E <=> continued,
         NEW host, NEW x,
         NEW success \in {"compact_continue_turn", "compact_preserve_tool", "compact_preserve_tool_escalated"},
         success = "compact_continue_turn" => continued
  PROVE  DecisionIsValid([Installed(in, path, effects, continued, host, success) EXCEPT !.discarded = x])
<1> DEFINE d == [Installed(in, path, effects, continued, host, success) EXCEPT !.discarded = x]
           terminal == IF ~in.useful THEN "terminal_no_reduction"
                       ELSE IF ~in.full THEN "terminal_degraded"
                       ELSE IF continued THEN "terminal_continue_turn" ELSE "terminal_preserve_tool"
           F == E \cup {"record_receipt", "release_writer"}
<1>1. d.effects = effects \o Ending /\ d.path = path \o <<"installing", terminal>>
  BY DEF Installed, Unchanged, Ending
<1>2. PathIsValid(d)
  <2> DEFINE t == <<"installing", terminal>>
  <2>1. Routed(t)
    BY DEF Routed, States, ToSet
  <2>2. d.path = path \o t
    BY <1>1
  <2> HIDE DEF t, d
  <2>3. Routed(path \o t)
    BY <2>1, Longer
  <2> QED BY <2>2, <2>3, RoutedIsValid
<1>3. /\ d.released /\ ~d.retry /\ ~d.priorIntact
      /\ d.attempt = in.attempt /\ d.budget = in.budget
      /\ d.outcome \in {"no_reduction", "degraded_compact", success}
      /\ d.host = host /\ (d.nextAllowed <=> host # "awaiting")
      /\ d.applied <=> continued
      /\ d.turnEnd <=> continued
      /\ d.opened <=> continued
      /\ d.sameTurn <=> ~continued
      /\ d.marker <=> continued
      /\ d.served <=> continued
  <2>1. /\ d.released /\ ~d.retry /\ ~d.priorIntact
        /\ d.attempt = in.attempt /\ d.budget = in.budget
        /\ d.host = host
    BY DEF Installed, Unchanged
  <2>2. d.nextAllowed <=> host # "awaiting"
    BY DEF Installed, Unchanged
  <2>3. d.outcome \in {"no_reduction", "degraded_compact", success}
    BY DEF Installed, Unchanged
  <2>4. /\ d.applied <=> continued
        /\ d.turnEnd <=> continued
        /\ d.opened <=> continued
        /\ d.sameTurn <=> ~continued
        /\ d.marker <=> continued
        /\ d.served <=> continued
    BY DEF Installed, Unchanged
  <2> QED BY <2>1, <2>2, <2>3, <2>4
<1>4. "release_writer" \in F /\ "install_attempt_failed" \notin F /\ "install_serving_view" \in F
      /\ ("force_turn_end" \in F => continued) /\ ("insert_continuation_marker" \in F <=> continued)
  OBVIOUS
<1> HIDE DEF d
<1>5. Staged(d.effects, F, 1, 9)
  BY <1>1, EndingIsStaged, Join
<1> HIDE DEF F
<1>6. Tried(d, F)
  BY <1>2, <1>3, <1>4, <1>5, InputFields DEF Tried
<1> QED BY <1>6, TriedIsValid DEF d

\* What stands before a compaction: the prelude, the claim, and what may be forced.
ClaimedFor(s, F) ==
  \E E \in SUBSET (Stages[1] \cup {"claim_writer", "compact"} \cup F) : Staged(s, E, 1, 4)

\* What stands before an installation: the compaction, its warnings and the marker.
Assembled(s, F) ==
  \E E \in SUBSET (Stages[1] \cup {"claim_writer", "compact", "degrade_fidelity", "unsafe_runway_or_request",
                                   "preserve_tool_pairs_verbatim"} \cup F) : F \cap Stages[6] \subseteq E /\ Staged(s, E, 1, 6)

LEMMA ClaimedTwice ==
  ASSUME NEW p, Prelude(p), NEW u \in {<<>>, <<"force_turn_end">>}
  PROVE  /\ ClaimedFor(p.effects \o <<"claim_writer", "compact">>, {})
         /\ ClaimedFor(((p.effects \o <<"claim_writer">>) \o u) \o <<"compact">>, {"force_turn_end"})
<1>1. PICK P \in SUBSET Stages[1] : Staged(p.effects, P, 1, 1)
  BY DEF Prelude
<1>2. "claim_writer" \in Stages[2] /\ "force_turn_end" \in Stages[3] /\ "compact" \in Stages[4]
  BY DEF Stages
<1>3. ClaimedFor(p.effects \o <<"claim_writer", "compact">>, {})
  <2> DEFINE t == <<"claim_writer", "compact">>
  <2>1. Staged(t, {"claim_writer", "compact"}, 2, 4)
    BY <1>2, InStage, StageIsNat DEF Staged, ToSet
  <2> HIDE DEF t
  <2>2. Staged(p.effects \o t, P \cup {"claim_writer", "compact"}, 1, 4)
    BY <1>1, <2>1, Join
  <2> QED BY <2>2 DEF ClaimedFor, t
<1>4. PICK U \in SUBSET {"force_turn_end"} : Staged(u, U, 3, 3)
  <2>1. Staged(<<"force_turn_end">>, {"force_turn_end"}, 3, 3)
    BY <1>2, Single
  <2> QED BY <2>1, Nothing
<1> DEFINE a == <<"claim_writer">>
           c == <<"compact">>
<1>5. Staged(a, {"claim_writer"}, 2, 2) /\ Staged(c, {"compact"}, 4, 4)
  BY <1>2, Single
<1> HIDE DEF a, c
<1>6. Staged(p.effects \o a, P \cup {"claim_writer"}, 1, 2)
  BY <1>1, <1>5, Join
<1>7. Staged((p.effects \o a) \o u, (P \cup {"claim_writer"}) \cup U, 1, 3)
  BY <1>4, <1>6, Join
<1>8. Staged(((p.effects \o a) \o u) \o c, ((P \cup {"claim_writer"}) \cup U) \cup {"compact"}, 1, 4)
  BY <1>5, <1>7, Join
<1>9. ClaimedFor(((p.effects \o a) \o u) \o c, {"force_turn_end"})
  BY <1>8 DEF ClaimedFor
<1> QED BY <1>3, <1>9 DEF a, c

LEMMA AssembledWith ==
  ASSUME NEW s, NEW F, ClaimedFor(s, F), F \cap Stages[6] = {},
         NEW u \in {<<>>, <<"degrade_fidelity">>}, NEW v \in {<<>>, <<"unsafe_runway_or_request">>},
         NEW e \in {"insert_continuation_marker", "preserve_tool_pairs_verbatim"}
  PROVE  Assembled(((s \o u) \o v) \o <<e>>, F \cup {e})
<1>1. PICK E \in SUBSET (Stages[1] \cup {"claim_writer", "compact"} \cup F) : Staged(s, E, 1, 4)
  BY DEF ClaimedFor
<1>2. "degrade_fidelity" \in Stages[5] /\ "unsafe_runway_or_request" \in Stages[6] /\ e \in Stages[6]
  BY DEF Stages
<1>3. PICK U \in SUBSET {"degrade_fidelity"} : Staged(u, U, 5, 5)
  <2>1. Staged(<<"degrade_fidelity">>, {"degrade_fidelity"}, 5, 5)
    BY <1>2, Single
  <2> QED BY <2>1, Nothing
<1>4. PICK V \in SUBSET {"unsafe_runway_or_request"} : Staged(v, V, 6, 6)
  <2>1. Staged(<<"unsafe_runway_or_request">>, {"unsafe_runway_or_request"}, 6, 6)
    BY <1>2, Single
  <2> QED BY <2>1, Nothing
<1> DEFINE w == <<e>>
<1>5. Staged(w, {e}, 6, 6)
  BY <1>2, Single
<1> HIDE DEF w
<1>6. Staged(s \o u, E \cup U, 1, 5)
  BY <1>1, <1>3, Join
<1>7. Staged((s \o u) \o v, (E \cup U) \cup V, 1, 6)
  BY <1>4, <1>6, Join
<1>8. Staged(((s \o u) \o v) \o w, ((E \cup U) \cup V) \cup {e}, 1, 6)
  BY <1>5, <1>7, Join
<1>9. (F \cup {e}) \cap Stages[6] \subseteq ((E \cup U) \cup V) \cup {e}
  OBVIOUS
<1>10. Assembled(((s \o u) \o v) \o w, F \cup {e})
  BY <1>8, <1>9 DEF Assembled
<1> QED BY <1>10 DEF w

LEMMA HostIsStaged ==
  ASSUME NEW host
  PROVE  \E H \in SUBSET {"await_host_validation", "record_host_validation", "host_validation_failed"} :
           Staged(HostEffects(host), H, 8, 8)
<1> DEFINE a == <<"await_host_validation">>
           b == If(host = "failed", <<"record_host_validation", "host_validation_failed">>)
           H == {"await_host_validation", "record_host_validation", "host_validation_failed"}
<1>1. H \subseteq Stages[8]
  BY DEF Stages
<1>2. Staged(a, {"await_host_validation"}, 8, 8)
  BY <1>1, Single
<1>3. Staged(<<"record_host_validation", "host_validation_failed">>,
             {"record_host_validation", "host_validation_failed"}, 8, 8)
  BY <1>1, InStage, StageIsNat DEF Staged, ToSet
<1>4. PICK B \in SUBSET {"record_host_validation", "host_validation_failed"} : Staged(b, B, 8, 8)
  BY <1>3, Nothing DEF If
<1> HIDE DEF a, b
<1>5. Staged(a \o b, {"await_host_validation"} \cup B, 8, 8)
  BY <1>2, <1>4, Join
<1>6. HostEffects(host) = a \o b \/ HostEffects(host) = <<>>
  BY DEF HostEffects, If, a, b
<1>7. Staged(<<>>, {}, 8, 8)
  BY Nothing
<1> QED BY <1>5, <1>6, <1>7

LEMMA ContinueTurnIsValid ==
  ASSUME NEW in, IsInput(in), NEW before, Routed(before), NEW p, Prelude(p)
  PROVE  DecisionIsValid(ContinueTurn(in, before, p))
<1> DEFINE path == before \o <<"path_continue_turn", "compacting">>
           u == Opt(in.boundary.forcedThisSeam, "force_turn_end")
           claimed == ((p.effects \o <<"claim_writer">>) \o u) \o <<"compact">>
           v == Opt(~in.full, "degrade_fidelity")
           w == Opt(~in.safe, "unsafe_runway_or_request")
           assembled == ((claimed \o v) \o w) \o <<"insert_continuation_marker">>
           tools == in.kind = "pending_tool" /\ in.ids
           pending == tools /\ in.escalated
           host == IF in.host # "unset" THEN in.host ELSE IF pending THEN "awaiting" ELSE "not_required"
           x == Opt(tools, "preserve_tool_pairs_verbatim")
           y == Opt(in.advance, "advance_visibility_boundary")
           z == <<"install_serving_view">>
           hosted == HostEffects(host)
           installed == (((assembled \o x) \o y) \o z) \o hosted
           success == IF pending THEN "compact_preserve_tool_escalated" ELSE "compact_continue_turn"
<1>1. Routed(path)
  BY Compacting
<1>2. ClaimedFor(claimed, {"force_turn_end"})
  BY ClaimedTwice DEF Opt, If
<1>3. v \in {<<>>, <<"degrade_fidelity">>} /\ w \in {<<>>, <<"unsafe_runway_or_request">>}
  BY DEF Opt, If
<1>4. {"force_turn_end"} \cap Stages[6] = {}
  BY DEF Stages
<1>5. ContinueTurn(in, before, p) =
        IF ~in.boundary.applied \/ in.boundary.turn = NoTurn
        THEN Decline(in, Append(before, "path_continue_turn"), p, "continuation_boundary_unavailable")
        ELSE IF ~in.valid THEN AttemptFailed(in, path, "compact_attempt_failed", claimed, TRUE, FALSE)
        ELSE IF ~in.install
        THEN AttemptFailed(in, Append(path, "installing"), "install_attempt_failed", assembled, TRUE, TRUE)
        ELSE [Installed(in, path, installed, TRUE, host, success) EXCEPT !.discarded = p.discarded]
  BY DEF ContinueTurn
<1> HIDE DEF claimed, path, v, w
<1>6. Assembled(assembled, {"force_turn_end"} \cup {"insert_continuation_marker"})
  BY <1>2, <1>3, <1>4, AssembledWith
<1> HIDE DEF assembled
<1>7. DecisionIsValid(Decline(in, Append(before, "path_continue_turn"), p, "continuation_boundary_unavailable"))
  <2>1. Routed(Append(before, "path_continue_turn"))
    BY Extended DEF States
  <2>2. "continuation_boundary_unavailable" \in Stages[1]
    BY DEF Stages
  <2> QED BY <2>1, <2>2, DeclineIsValid
<1>8. DecisionIsValid(AttemptFailed(in, path, "compact_attempt_failed", claimed, TRUE, FALSE))
  <2>1. PICK E \in SUBSET (Stages[1] \cup {"claim_writer", "compact"} \cup {"force_turn_end"}) : Staged(claimed, E, 1, 4)
    BY <1>2 DEF ClaimedFor
  <2>2. Staged(claimed, E, 1, 6)
    BY <2>1, Wider
  <2>3. "install_serving_view" \notin E /\ "insert_continuation_marker" \notin E
    BY DEF Stages
  <2> QED BY <1>1, <2>2, <2>3, AttemptFailedIsValid
<1>9. PICK E \in SUBSET (Stages[1] \cup {"claim_writer", "compact", "degrade_fidelity", "unsafe_runway_or_request",
                                      "preserve_tool_pairs_verbatim"}
                       \cup ({"force_turn_end"} \cup {"insert_continuation_marker"})) :
        "insert_continuation_marker" \in E /\ Staged(assembled, E, 1, 6)
  <2>1. "insert_continuation_marker" \in Stages[6]
    BY DEF Stages
  <2> QED BY <1>6, <2>1 DEF Assembled
<1>10. "install_serving_view" \notin E /\ "install_attempt_failed" \notin E
  BY DEF Stages
<1>11. DecisionIsValid(AttemptFailed(in, Append(path, "installing"), "install_attempt_failed", assembled, TRUE, TRUE))
  <2>1. Routed(Append(path, "installing"))
    BY <1>1, Extended DEF States
  <2> QED BY <1>9, <1>10, <2>1, AttemptFailedIsValid
<1>12. DecisionIsValid([Installed(in, path, installed, TRUE, host, success) EXCEPT !.discarded = p.discarded])
  <2>1. "preserve_tool_pairs_verbatim" \in Stages[6] /\ "advance_visibility_boundary" \in Stages[6]
        /\ "install_serving_view" \in Stages[7]
    BY DEF Stages
  <2>2. PICK X \in SUBSET {"preserve_tool_pairs_verbatim"} : Staged(x, X, 6, 6)
    <3>1. Staged(<<"preserve_tool_pairs_verbatim">>, {"preserve_tool_pairs_verbatim"}, 6, 6)
      BY <2>1, Single
    <3> QED BY <3>1, Nothing DEF Opt, If
  <2>3. PICK Y \in SUBSET {"advance_visibility_boundary"} : Staged(y, Y, 6, 6)
    <3>1. Staged(<<"advance_visibility_boundary">>, {"advance_visibility_boundary"}, 6, 6)
      BY <2>1, Single
    <3> QED BY <3>1, Nothing DEF Opt, If
  <2>4. Staged(z, {"install_serving_view"}, 7, 7)
    BY <2>1, Single
  <2>5. PICK H \in SUBSET {"await_host_validation", "record_host_validation", "host_validation_failed"} :
          Staged(hosted, H, 8, 8)
    BY HostIsStaged
  <2>6. success \in {"compact_continue_turn", "compact_preserve_tool", "compact_preserve_tool_escalated"}
    OBVIOUS
  <2> HIDE DEF x, y, z, hosted, host, success
  <2>7. Staged(assembled \o x, E \cup X, 1, 6)
    BY <1>9, <2>2, Join
  <2>8. Staged((assembled \o x) \o y, (E \cup X) \cup Y, 1, 6)
    BY <2>3, <2>7, Join
  <2>9. Staged(((assembled \o x) \o y) \o z, ((E \cup X) \cup Y) \cup {"install_serving_view"}, 1, 7)
    BY <2>4, <2>8, Join
  <2>10. Staged(installed, (((E \cup X) \cup Y) \cup {"install_serving_view"}) \cup H, 1, 8)
    BY <2>5, <2>9, Join
  <2> DEFINE G == (((E \cup X) \cup Y) \cup {"install_serving_view"}) \cup H
  <2>11. "install_serving_view" \in G /\ "install_attempt_failed" \notin G /\ "insert_continuation_marker" \in G
    BY <1>9, <1>10
  <2>12. Staged(installed, G, 1, 8)
    BY <2>10
  <2> HIDE DEF installed, G
  <2> QED BY <1>1, <2>6, <2>11, <2>12, InstalledIsValid
<1> QED BY <1>5, <1>7, <1>8, <1>11, <1>12

LEMMA PreserveToolIsValid ==
  ASSUME NEW in, IsInput(in), NEW before, Routed(before), NEW p, Prelude(p)
  PROVE  DecisionIsValid(PreserveTool(in, before, p))
<1> DEFINE path == before \o <<"path_preserve_tool", "compacting">>
           claimed == p.effects \o <<"claim_writer", "compact">>
           v == Opt(~in.full, "degrade_fidelity")
           w == Opt(~in.safe, "unsafe_runway_or_request")
           assembled == ((claimed \o v) \o w) \o <<"preserve_tool_pairs_verbatim">>
           host == IF in.host = "unset" THEN "not_required" ELSE in.host
           z == <<"install_serving_view">>
           hosted == HostEffects(host)
           installed == (assembled \o z) \o hosted
<1>1. Routed(path)
  BY Compacting
<1>2. ClaimedFor(claimed, {})
  BY ClaimedTwice
<1>3. v \in {<<>>, <<"degrade_fidelity">>} /\ w \in {<<>>, <<"unsafe_runway_or_request">>}
  BY DEF Opt, If
<1>4. PreserveTool(in, before, p) =
        IF ~in.valid THEN AttemptFailed(in, path, "compact_attempt_failed", claimed, FALSE, FALSE)
        ELSE IF ~in.install
        THEN AttemptFailed(in, Append(path, "installing"), "install_attempt_failed", assembled, FALSE, FALSE)
        ELSE [Installed(in, path, installed, FALSE, host, "compact_preserve_tool") EXCEPT !.discarded = p.discarded]
  BY DEF PreserveTool
<1> HIDE DEF claimed, path, v, w
<1>5. Assembled(assembled, {} \cup {"preserve_tool_pairs_verbatim"})
  BY <1>2, <1>3, AssembledWith
<1> HIDE DEF assembled
<1>6. DecisionIsValid(AttemptFailed(in, path, "compact_attempt_failed", claimed, FALSE, FALSE))
  <2>1. PICK E \in SUBSET (Stages[1] \cup {"claim_writer", "compact"} \cup {}) : Staged(claimed, E, 1, 4)
    BY <1>2 DEF ClaimedFor
  <2>2. Staged(claimed, E, 1, 6)
    BY <2>1, Wider
  <2>3. "install_serving_view" \notin E /\ "insert_continuation_marker" \notin E /\ "force_turn_end" \notin E
    BY DEF Stages
  <2> QED BY <1>1, <2>2, <2>3, AttemptFailedIsValid
<1>7. PICK E \in SUBSET (Stages[1] \cup {"claim_writer", "compact", "degrade_fidelity", "unsafe_runway_or_request",
                                      "preserve_tool_pairs_verbatim"}) :
        Staged(assembled, E, 1, 6)
  BY <1>5 DEF Assembled
<1>8. /\ "install_serving_view" \notin E /\ "install_attempt_failed" \notin E
      /\ "insert_continuation_marker" \notin E /\ "force_turn_end" \notin E
  BY DEF Stages
<1>9. DecisionIsValid(AttemptFailed(in, Append(path, "installing"), "install_attempt_failed", assembled, FALSE, FALSE))
  <2>1. Routed(Append(path, "installing"))
    BY <1>1, Extended DEF States
  <2> QED BY <1>7, <1>8, <2>1, AttemptFailedIsValid
<1>10. DecisionIsValid([Installed(in, path, installed, FALSE, host, "compact_preserve_tool")
                          EXCEPT !.discarded = p.discarded])
  <2>1. Staged(z, {"install_serving_view"}, 7, 7)
    BY Single, "install_serving_view" \in Stages[7] DEF Stages
  <2>2. PICK H \in SUBSET {"await_host_validation", "record_host_validation", "host_validation_failed"} :
          Staged(hosted, H, 8, 8)
    BY HostIsStaged
  <2> HIDE DEF z, hosted, host
  <2>3. Staged(assembled \o z, E \cup {"install_serving_view"}, 1, 7)
    BY <1>7, <2>1, Join
  <2> DEFINE G == (E \cup {"install_serving_view"}) \cup H
  <2>4. Staged(installed, G, 1, 8)
    BY <2>2, <2>3, Join
  <2>5. /\ "install_serving_view" \in G /\ "install_attempt_failed" \notin G
        /\ "insert_continuation_marker" \notin G /\ "force_turn_end" \notin G
    BY <1>8
  <2> HIDE DEF installed, G
  <2> QED BY <1>1, <2>4, <2>5, InstalledIsValid
<1> QED BY <1>4, <1>6, <1>9, <1>10

LEMMA EvaluateIsValid ==
  ASSUME NEW in, IsInput(in), NEW path, Routed(path), NEW p, Prelude(p)
  PROVE  DecisionIsValid(Evaluate(in, path, p))
<1>1. ProtectionCode(in) \in Stages[1] /\ "continuation_boundary_unavailable" \in Stages[1]
  BY DEF ProtectionCode, Stages
<1>2. DecisionIsValid(Decline(in, path, p, ProtectionCode(in)))
      /\ DecisionIsValid(Decline(in, path, p, "continuation_boundary_unavailable"))
  BY <1>1, DeclineIsValid
<1> QED BY <1>2, ContinueTurnIsValid, PreserveToolIsValid, NormalIsValid DEF Evaluate

LEMMA CheckedIsValid ==
  ASSUME NEW in, IsInput(in), NEW p, Prelude(p) PROVE DecisionIsValid(CheckInvariants(in, p))
<1> DEFINE path == <<"at_seam", "checking_invariants">>
           foreign == in.writer \in {"native", "conflict"}
           a == If(foreign, <<"reclaim_writer", "stale_writer_row_reclaimed">>)
           b == If(~in.proven, <<"capture_or_identity_unproven", "omit_signed_reasoning">>)
           reclaimed == (p.effects \o a) \o b
           free == [in EXCEPT !.writer = IF foreign THEN "none" ELSE @]
           after == [p EXCEPT !.effects = reclaimed]
<1>1. Routed(path)
  BY DEF Routed, States, ToSet
<1>2. Routed(Append(path, "evaluating_pressure"))
  BY <1>1, Extended DEF States
<1>3. PICK P \in SUBSET Stages[1] : Staged(p.effects, P, 1, 1)
  BY DEF Prelude
<1>4. {"reclaim_writer", "stale_writer_row_reclaimed", "capture_or_identity_unproven", "omit_signed_reasoning"}
        \subseteq Stages[1]
  BY DEF Stages
<1>5. PICK A \in SUBSET Stages[1] : Staged(a, A, 1, 1)
  <2>1. Staged(<<"reclaim_writer", "stale_writer_row_reclaimed">>, {"reclaim_writer", "stale_writer_row_reclaimed"}, 1, 1)
    BY <1>4, InStage, StageIsNat DEF Staged, ToSet
  <2> QED BY <1>4, <2>1, Nothing DEF If
<1>6. PICK B \in SUBSET Stages[1] : Staged(b, B, 1, 1)
  <2>1. Staged(<<"capture_or_identity_unproven", "omit_signed_reasoning">>,
               {"capture_or_identity_unproven", "omit_signed_reasoning"}, 1, 1)
    BY <1>4, InStage, StageIsNat DEF Staged, ToSet
  <2> QED BY <1>4, <2>1, Nothing DEF If
<1> HIDE DEF a, b
<1>7. Staged(p.effects \o a, P \cup A, 1, 1)
  BY <1>3, <1>5, Join
<1>8. Staged(reclaimed, (P \cup A) \cup B, 1, 1)
  BY <1>6, <1>7, Join
<1> HIDE DEF reclaimed
<1>9. Prelude(after)
  <2>1. after.effects = reclaimed /\ "effects" \in DOMAIN after
    BY DEF Prelude
  <2> QED BY <1>8, <2>1 DEF Prelude
<1>10. IsInput(free)
  BY DEF IsInput, InputOver
<1>11. CheckInvariants(in, p) =
         IF foreign /\ in.authority # "no_live_owner" THEN WriterOwnedElsewhere(in, path, p)
         ELSE Evaluate(free, Append(path, "evaluating_pressure"), after)
  BY DEF CheckInvariants, reclaimed, a, b
<1> HIDE DEF after, free, path, foreign
<1> QED BY <1>1, <1>2, <1>9, <1>10, <1>11, ElsewhereIsValid, EvaluateIsValid

\* Every decision of the table is a receipt that its validator takes, for all bounds of the
\* turns and of the retries (decideCompactContinuation, validateCompactContinuationDecision).
THEOREM DecisionsAreReceipts ==
  ASSUME NEW ts, NEW retries \in Nat, NEW in \in InputOver(ts, retries)
  PROVE  DecisionIsValid(Decide(in))
<1> DEFINE fresh == IF Unusable(in) THEN [in EXCEPT !.boundary = NotApplied] ELSE in
           untrusted == fresh.boundary.applied /\ fresh.boundary.forcedThisSeam /\ fresh.boundary.marker
           a == If(Unusable(in), <<"discard_pending_boundary", "pending_boundary_discarded">>)
           b == Opt(untrusted, "boundary_marker_claim_untrusted")
           p == [effects |-> a \o b, discarded |-> Unusable(in)]
<1>1. IsInput(in)
  BY DEF IsInput
<1>2. IsInput(fresh)
  <2>1. CASE Unusable(in)
    BY <2>1 DEF IsInput, InputOver
  <2>2. CASE ~ Unusable(in)
    BY <1>1, <2>2
  <2> QED BY <2>1, <2>2
<1>3. {"discard_pending_boundary", "pending_boundary_discarded", "boundary_marker_claim_untrusted"} \subseteq Stages[1]
  BY DEF Stages
<1>4. PICK A \in SUBSET Stages[1] : Staged(a, A, 1, 1)
  <2>1. Staged(<<"discard_pending_boundary", "pending_boundary_discarded">>,
               {"discard_pending_boundary", "pending_boundary_discarded"}, 1, 1)
    BY <1>3, InStage, StageIsNat DEF Staged, ToSet
  <2> QED BY <1>3, <2>1, Nothing DEF If
<1>5. PICK B \in SUBSET Stages[1] : Staged(b, B, 1, 1)
  <2>1. Staged(<<"boundary_marker_claim_untrusted">>, {"boundary_marker_claim_untrusted"}, 1, 1)
    BY <1>3, Single
  <2> QED BY <1>3, <2>1, Nothing DEF Opt, If
<1>6. Decide(in) = IF ~in.versionOk THEN DeclineUnsupportedVersion(in)
                   ELSE IF in.seam # "settled" THEN Skip(in)
                   ELSE CheckInvariants(fresh, p)
  BY DEF Decide
<1> HIDE DEF a, b, fresh
<1>7. Staged(a \o b, A \cup B, 1, 1)
  BY <1>4, <1>5, Join
<1>8. Prelude(p)
  BY <1>7 DEF Prelude
<1> HIDE DEF p
<1> QED BY <1>1, <1>2, <1>6, <1>8, UnsupportedIsValid, SkipIsValid, CheckedIsValid

-----------------------------------------------------------------------------
(* What a call asks the table, and what its receipt tells *)

IsBoundary(b) == b = NotApplied \/ \E t : \E f, k \in BOOLEAN : b = Applied(t, f, k)

IsFacts(f) ==
  f \in [kind : {"none", "active_non_tool", "pending_tool"}, settled : BOOLEAN, pressure : {"below", "above"},
         claim : {"none", "native"}]

IsMaterial(m) == m \in [prepared : BOOLEAN, valid : BOOLEAN, useful : BOOLEAN, full : BOOLEAN]

\* What a call knows is an input of the table, and what it has decided is a decision of it.
Asks(r) ==
  /\ IsFacts(r.facts) /\ IsBoundary(r.pending) /\ IsBoundary(r.forced) /\ IsMaterial(r.material)
  /\ r.escalated \in BOOLEAN /\ r.installed \in BOOLEAN /\ r.index \in Nat \ {0}
  /\ r.plan.marker \in BOOLEAN
  /\ r.pc = "finalize" => \E d : DecisionIsValid(d) /\ r.decision = Summary(d)

TellsADecision(s) ==
  \E d : DecisionIsValid(d) /\ s.outcome = d.outcome /\ s.retry = d.retry /\ s.nextAllowed = d.nextAllowed

\* A stored receipt tells what a decision said that the validator takes.
ReceiptsAreValid == \A a \in Attempts : receipt[a].stored => TellsADecision(receipt[a])

AskInv ==
  /\ failures \in [Attempts -> Nat]
  /\ \A t \in 1..MaxTurns : boundary[t].marker \in BOOLEAN
  /\ \A c \in Callers : Asks(call[c])
  /\ ReceiptsAreValid

LEMMA TableIsAsked ==
  ASSUME NEW r, Asks(r), NEW kp \in BOOLEAN, NEW b, IsBoundary(b),
         NEW w \in {"none", "lhc", "native", "conflict"},
         NEW authority \in {"unknown", "live_owner", "no_live_owner"},
         NEW host \in {"unset", "not_required", "awaiting", "ok", "failed"}
  PROVE  DecisionIsValid(Decide(OracleInput(r, kp, b, w, authority, host)))
<1> DEFINE in == OracleInput(r, kp, b, w, authority, host)
           ts == {b.turn}
           retries == r.index + Budget
<1>1. b \in {NotApplied} \cup {Applied(t, f, k) : t \in ts, f \in BOOLEAN, k \in BOOLEAN}
  <2>1. ASSUME NEW t, NEW f \in BOOLEAN, NEW k \in BOOLEAN, b = Applied(t, f, k)
        PROVE  b \in {Applied(u, g, h) : u \in ts, g \in BOOLEAN, h \in BOOLEAN}
    <3>1. b.turn = t
      BY <2>1 DEF Applied
    <3> QED BY <2>1, <3>1
  <2> QED BY <2>1 DEF IsBoundary
<1>2. retries \in Nat /\ r.index \in 1..retries /\ Budget \in 1..retries
  BY CompactRunAssumption DEF Asks
<1>3. r.facts.kind \in {"none", "active_non_tool", "pending_tool"} /\ r.facts.pressure \in {"below", "above"}
  BY DEF Asks, IsFacts
<1>4. r.material.valid \in BOOLEAN /\ r.material.useful \in BOOLEAN /\ r.material.full \in BOOLEAN
      /\ r.escalated \in BOOLEAN /\ r.installed \in BOOLEAN
  BY DEF Asks, IsMaterial
<1> HIDE DEF ts, retries
<1>5. in \in InputOver(ts, retries)
  BY <1>1, <1>2, <1>3, <1>4 DEF InputOver, OracleInput
<1> HIDE DEF in
<1>6. DecisionIsValid(Decide(in))
  BY <1>2, <1>5, DecisionsAreReceipts
<1> QED BY <1>6 DEF in

\* A step of one call that writes no receipt.
LEMMA AsksOn ==
  ASSUME AskInv, Shapes, NEW c \in Callers, NEW r, Goes(c, r), Asks(r), UNCHANGED receipt,
         failures' \in [Attempts -> Nat], \A t \in 1..MaxTurns : boundary'[t].marker \in BOOLEAN
  PROVE  AskInv'
<1>1. \A d \in Callers : call'[d] = IF d = c THEN r ELSE call[d]
  BY DEF Goes, Shapes
<1>2. ASSUME NEW d \in Callers PROVE Asks(call[d])'
  <2>1. Asks(call'[d])
    BY <1>1 DEF AskInv
  <2> QED BY <2>1 DEF Asks
<1>3. ReceiptsAreValid'
  BY DEF AskInv, ReceiptsAreValid
<1> QED BY <1>2, <1>3 DEF AskInv

LEMMA RestingAsks == Asks(Resting)
<1>1. IsFacts(Resting.facts)
  BY DEF Resting, IsFacts
<1>2. IsMaterial(Resting.material)
  BY DEF Resting, IsMaterial, NoMaterial
<1>3. IsBoundary(Resting.pending) /\ IsBoundary(Resting.forced)
  BY DEF Resting, IsBoundary
<1>4. Resting.escalated \in BOOLEAN /\ Resting.installed \in BOOLEAN /\ Resting.plan.marker \in BOOLEAN
  BY DEF Resting, NoPlan
<1>5. Resting.index \in Nat \ {0} /\ Resting.pc # "finalize"
  BY DEF Resting
<1> QED BY <1>1, <1>2, <1>3, <1>4, <1>5 DEF Asks

LEMMA ShapeOf ==
  ASSUME Shapes, NEW c \in Callers
  PROVE  DOMAIN call[c] = CallFields
  BY DEF Shapes, IsCall

\* Steps that change only where a call is, or what it knows of its boundary.
LEMMA MovesAsk ==
  ASSUME AskInv, Shapes, NEW c \in Callers,
         \/ Starts(c) \/ Replays(c) \/ Enters(c) \/ Registers(c) \/ Claims(c) \/ Intends(c) \/ EndsTurn(c)
         \/ Marks(c) \/ Installs(c) \/ Awaits(c) \/ Releases(c) \/ Fails(c) \/ Crashes(c) \/ Prepares(c)
  PROVE  AskInv'
<1> DEFINE r == call[c]
<1>1. DOMAIN r = CallFields /\ Asks(r)
  BY ShapeOf DEF AskInv
<1>2. \A pc : pc # "finalize" => Asks([r EXCEPT !.pc = pc])
  BY <1>1 DEF Asks, CallFields
<1>3. UNCHANGED <<receipt, failures>>
  BY DEF Starts, Replays, Enters, Registers, Claims, Intends, EndsTurn, Marks, Installs, Awaits, Releases, Fails,
         Crashes, Prepares, rows
<1>4. UNCHANGED boundary
  BY DEF Starts, Replays, Enters, Registers, Claims, Intends, EndsTurn, Marks, Installs, Awaits, Releases, Fails,
         Crashes, Prepares, rows
<1>5. ASSUME NEW q, Goes(c, q), Asks(q) PROVE AskInv'
  BY <1>3, <1>4, <1>5, AsksOn DEF AskInv
<1>6. ASSUME NEW pc, pc # "finalize", To(c, pc) PROVE AskInv'
  BY <1>2, <1>5, <1>6 DEF To
<1>7. CASE Replays(c) \/ Releases(c) \/ Crashes(c)
  BY <1>5, <1>7, RestingAsks DEF Replays, Releases, Crashes, Returns
<1>8. CASE Enters(c) \/ Intends(c) \/ Marks(c) \/ Fails(c)
  BY <1>6, <1>8 DEF Enters, Intends, Marks, Fails, Abandons
<1>9. CASE Registers(c)
  BY <1>5, <1>6, <1>9, RestingAsks DEF Registers, Returns
<1>10. CASE EndsTurn(c)
  BY <1>6, <1>10 DEF EndsTurn, Abandons
<1>11. CASE Awaits(c)
  BY <1>6, <1>11 DEF Awaits, Abandons
<1>12. CASE Starts(c)
  <2>1. PICK a \in Attempts, f \in Facts : Goes(c, [Resting EXCEPT !.pc = "enter", !.attempt = a, !.facts = f])
    BY <1>12 DEF Starts
  <2> DEFINE q == [Resting EXCEPT !.pc = "enter", !.attempt = a, !.facts = f]
  <2>2. IsFacts(f)
    BY CompactRunAssumption DEF IsFacts, Facts
  <2>3. /\ q.facts = f /\ q.pending = Resting.pending /\ q.forced = Resting.forced
        /\ q.material = Resting.material /\ q.escalated = Resting.escalated /\ q.installed = Resting.installed
        /\ q.index = Resting.index /\ q.plan = Resting.plan /\ q.pc = "enter"
    BY DEF Resting
  <2>4. Asks(q)
    BY <2>2, <2>3, RestingAsks DEF Asks
  <2> QED BY <1>5, <2>1, <2>4
<1>13. CASE Installs(c)
  <2>1. PICK ok \in BOOLEAN, pc \in {"await", "decide"} : Goes(c, [r EXCEPT !.installed = ok, !.pc = pc])
    BY <1>13 DEF Installs
  <2>2. Asks([r EXCEPT !.installed = ok, !.pc = pc])
    BY <1>1 DEF Asks, CallFields
  <2> QED BY <1>5, <2>1, <2>2
<1>14. CASE Prepares(c)
  <2>1. PICK m \in Materials, e \in BOOLEAN, pc \in {"decide", "mark", "install"} :
          Goes(c, [r EXCEPT !.material = m, !.escalated = e, !.pc = pc])
    <3>1. PICK m \in Materials :
            Goes(c, [r EXCEPT !.material = m, !.escalated = @ \/ (m.prepared /\ r.needs = "continue"
                                                                  /\ r.facts.kind = "pending_tool"),
                              !.pc = IF ~m.valid THEN "decide"
                                     ELSE IF r.needs = "continue" THEN "mark" ELSE "install"])
      BY <1>14 DEF Prepares
    <3> QED BY <3>1
  <2>2. IsMaterial(m)
    <3>1. NoMaterial \in [prepared : BOOLEAN, valid : BOOLEAN, useful : BOOLEAN, full : BOOLEAN]
      BY DEF NoMaterial
    <3>3. CASE m = NoMaterial \/ m = [NoMaterial EXCEPT !.prepared = TRUE]
      BY <3>1, <3>3 DEF IsMaterial
    <3>2. CASE m \in [prepared : {TRUE}, valid : {TRUE}, useful : BOOLEAN, full : BOOLEAN]
      BY <3>2 DEF IsMaterial
    <3> QED BY <3>2, <3>3 DEF Materials
  <2>3. Asks([r EXCEPT !.material = m, !.escalated = e, !.pc = pc])
    BY <1>1, <2>2 DEF Asks, CallFields
  <2> QED BY <1>5, <2>1, <2>3
<1>15. CASE Claims(c)
  <2>1. r.attempt \in Attempts
    BY <1>15 DEF Claims, At, Shapes, IsCall
  <2>2. failures[r.attempt] + 1 \in Nat \ {0}
    BY <2>1 DEF AskInv
  <2>3. CASE Returns(c)
    BY <1>5, <2>3, RestingAsks DEF Returns
  <2>4. CASE ~Returns(c)
    <3>1. PICK e \in BOOLEAN :
            Goes(c, [[r EXCEPT !.owns = FALSE, !.force = "none"]
                       EXCEPT !.forced = r.pending, !.index = failures[r.attempt] + 1,
                              !.needs = IF e THEN "continue" ELSE @, !.escalated = e,
                              !.pc = IF r.pending.applied \/ (r.needs = "preserve" /\ ~e)
                                     THEN "prepare" ELSE "open"])
      BY <1>1, <1>15, <2>4 DEF Claims, CallFields
    <3>2. Asks([[r EXCEPT !.owns = FALSE, !.force = "none"]
                  EXCEPT !.forced = r.pending, !.index = failures[r.attempt] + 1,
                         !.needs = IF e THEN "continue" ELSE @, !.escalated = e,
                         !.pc = IF r.pending.applied \/ (r.needs = "preserve" /\ ~e)
                                THEN "prepare" ELSE "open"])
      BY <1>1, <2>2 DEF Asks, CallFields
    <3> QED BY <1>5, <3>1, <3>2
  <2> QED BY <2>3, <2>4
<1> QED BY <1>7, <1>8, <1>9, <1>10, <1>11, <1>12, <1>13, <1>14, <1>15

LEMMA UpsertAsks ==
  ASSUME AskInv, Shapes, NEW t, NEW a, NEW status, NEW marker \in BOOLEAN,
         boundary' = Upserted(t, a, status, marker)
  PROVE  \A u \in 1..MaxTurns : boundary'[u].marker \in BOOLEAN
<1>1. ASSUME NEW u \in 1..MaxTurns PROVE boundary'[u].marker \in BOOLEAN
  <2>1. CASE u = t
    BY <2>1 DEF Upserted, Shapes
  <2>2. CASE u # t
    BY <2>2 DEF Upserted, Shapes, AskInv
  <2> QED BY <2>1, <2>2
<1> QED BY <1>1

\* Steps that read the boundary, or write it.
LEMMA BoundariesAsk ==
  ASSUME AskInv, Shapes, NEW c \in Callers,
         ReadsState(c) \/ Reconciles(c) \/ Adopts(c) \/ Binds(c) \/ NotesMarker(c)
  PROVE  AskInv'
<1> DEFINE r == call[c]
<1>1. DOMAIN r = CallFields /\ Asks(r)
  BY ShapeOf DEF AskInv
<1>2. UNCHANGED <<receipt, failures>>
  BY DEF ReadsState, Reconciles, Adopts, Binds, NotesMarker, rows
<1>3. failures' \in [Attempts -> Nat]
  BY <1>2 DEF AskInv
<1>4. ASSUME NEW q, Goes(c, q), Asks(q), UNCHANGED boundary PROVE AskInv'
  BY <1>2, <1>3, <1>4, AsksOn DEF AskInv
<1>5. ASSUME NEW q, Goes(c, q), Asks(q), NEW t, NEW a, NEW status, NEW marker \in BOOLEAN,
             boundary' = Upserted(t, a, status, marker)
      PROVE  AskInv'
  BY <1>2, <1>3, <1>5, AsksOn, UpsertAsks
<1>6. \A pc : pc # "finalize" => Asks([r EXCEPT !.pc = pc])
  BY <1>1 DEF Asks, CallFields
<1>7. CASE ReadsState(c)
  <2>1. CASE Returns(c)
    BY <1>4, <1>7, <2>1, RestingAsks DEF ReadsState, Returns, rows
  <2>2. CASE ~Returns(c)
    <3>1. PICK f, o : Goes(c, [r EXCEPT !.pc = "register", !.pending = PendingBoundary, !.force = f, !.owns = o])
      BY <1>7, <2>2 DEF ReadsState
    <3>2. IsBoundary(PendingBoundary)
      <4>1. CASE Unresolved = {}
        BY <4>1 DEF PendingBoundary, IsBoundary
      <4>2. CASE Unresolved # {}
        <5>1. PICK t \in Unresolved : PendingBoundary = Applied(t, FALSE, boundary[t].marker)
          BY <4>2 DEF PendingBoundary
        <5>2. boundary[t].marker \in BOOLEAN
          BY DEF AskInv, Unresolved
        <5> QED BY <5>1, <5>2 DEF IsBoundary
      <4> QED BY <4>1, <4>2
    <3>3. Asks([r EXCEPT !.pc = "register", !.pending = PendingBoundary, !.force = f, !.owns = o])
      BY <1>1, <3>2 DEF Asks, CallFields
    <3> QED BY <1>4, <1>7, <3>1, <3>3 DEF ReadsState, rows
  <2> QED BY <2>1, <2>2
<1>8. CASE Reconciles(c)
  <2> DEFINE t == ForcedTurn(r.attempt)
  <2>1. CASE To(c, "classify") /\ UNCHANGED boundary
    BY <1>4, <1>6, <2>1 DEF To
  <2>2. CASE Returns(c) /\ UNCHANGED boundary
    BY <1>4, <2>2, RestingAsks DEF Returns
  <2>3. CASE /\ boundary' = Upserted(t, r.attempt, "pending", t \in markers)
             /\ Goes(c, [r EXCEPT !.pc = "classify", !.pending = Applied(t, FALSE, t \in markers)])
    <3>1. (t \in markers) \in BOOLEAN
      OBVIOUS
    <3> HIDE DEF t
    <3>2. IsBoundary(Applied(t, FALSE, t \in markers))
      BY <3>1 DEF IsBoundary
    <3>3. Asks([r EXCEPT !.pc = "classify", !.pending = Applied(t, FALSE, t \in markers)])
      BY <1>1, <3>2 DEF Asks, CallFields
    <3> QED BY <1>5, <2>3, <3>1, <3>3
  <2> QED BY <1>8, <2>1, <2>2, <2>3 DEF Reconciles
<1>9. ASSUME NEW t, NEW marker \in BOOLEAN, NEW now \in BOOLEAN, TakesBoundary(c, t, marker, now) PROVE AskInv'
  <2>1. CASE Abandons(c) /\ UNCHANGED boundary
    BY <1>4, <1>6, <2>1 DEF Abandons, To
  <2>2. CASE /\ boundary' = Upserted(t, r.attempt, "pending", marker)
             /\ Goes(c, [r EXCEPT !.pc = "prepare", !.forced = Applied(t, now, marker)])
    <3>1. Asks([r EXCEPT !.pc = "prepare", !.forced = Applied(t, now, marker)])
      BY <1>1 DEF Asks, CallFields, IsBoundary
    <3> QED BY <1>5, <2>2, <3>1
  <2> QED BY <1>9, <2>1, <2>2 DEF TakesBoundary
<1>10. CASE Binds(c)
  BY <1>9, <1>10 DEF Binds
<1>12. CASE Adopts(c)
  <2> DEFINE t == ForcedTurn(r.attempt)
  <2>1. TakesBoundary(c, t, t \in markers, FALSE)
    BY <1>12 DEF Adopts
  <2>2. (t \in markers) \in BOOLEAN
    OBVIOUS
  <2> HIDE DEF t
  <2> QED BY <1>9, <2>1, <2>2
<1>11. CASE NotesMarker(c)
  <2>1. CASE Abandons(c) /\ UNCHANGED boundary
    BY <1>4, <1>6, <2>1 DEF Abandons, To
  <2>2. CASE ~ (Abandons(c) /\ UNCHANGED boundary)
    <3>1. PICK valid \in BOOLEAN, pc \in {"install", "decide"} :
            /\ boundary' = Upserted(r.forced.turn, r.attempt, "pending", TRUE)
            /\ Goes(c, [r EXCEPT !.material.valid = valid, !.pc = pc])
      BY <1>11, <2>2 DEF NotesMarker
    <3>2. IsMaterial([r.material EXCEPT !.valid = valid])
      BY <1>1 DEF Asks, IsMaterial
    <3>3. [r EXCEPT !.material.valid = valid, !.pc = pc]
            = [r EXCEPT !.material = [r.material EXCEPT !.valid = valid], !.pc = pc]
      OBVIOUS
    <3>4. Asks([r EXCEPT !.material = [r.material EXCEPT !.valid = valid], !.pc = pc])
      BY <1>1, <3>2 DEF Asks, CallFields
    <3> QED BY <1>5, <3>1, <3>3, <3>4
  <2> QED BY <2>1, <2>2
<1> QED BY <1>7, <1>8, <1>10, <1>11, <1>12

\* Steps that decide.
LEMMA SettlesAsks ==
  ASSUME AskInv, Shapes, NEW c \in Callers, NEW d, DecisionIsValid(d), NEW release, NEW terminal,
         Settles(c, d, release, terminal), UNCHANGED <<receipt, failures, boundary>>
  PROVE  AskInv'
<1> DEFINE r == call[c]
           plan == [NoPlan EXCEPT !.release = release, !.terminal = terminal]
           q == [r EXCEPT !.pc = "finalize", !.decision = Summary(d), !.plan = plan]
<1>1. DOMAIN r = CallFields /\ Asks(r)
  BY ShapeOf DEF AskInv
<1>2. plan.marker \in BOOLEAN
  BY DEF NoPlan
<1> HIDE DEF plan
<1>3. /\ q.facts = r.facts /\ q.pending = r.pending /\ q.forced = r.forced /\ q.material = r.material
      /\ q.escalated = r.escalated /\ q.installed = r.installed /\ q.index = r.index /\ q.plan = plan
      /\ q.decision = Summary(d)
  BY <1>1 DEF CallFields
<1>4. Goes(c, q)
  BY DEF Settles, plan
<1> HIDE DEF q
<1>5. Asks(q)
  BY <1>1, <1>2, <1>3 DEF Asks
<1> QED BY <1>4, <1>5, AsksOn DEF AskInv

LEMMA ClassifiesAsks == ASSUME AskInv, Shapes, NEW c \in Callers, Classifies(c) PROVE AskInv'
<1> DEFINE r == call[c]
           proven == r.facts.kind = "pending_tool" => PairProven
           owned == IF r.owns THEN "lhc" ELSE "none"
           decided(b, w, authority) == Decide(OracleInput(r, proven, b, w, authority, "not_required"))
<1>1. DOMAIN r = CallFields /\ Asks(r) /\ UNCHANGED <<receipt, failures, boundary>>
  BY ShapeOf DEF AskInv, Classifies, rows
<1>2. proven \in BOOLEAN /\ owned \in {"none", "lhc", "native", "conflict"}
  OBVIOUS
<1>3. IsBoundary(r.pending) /\ IsBoundary(NotApplied)
  BY <1>1 DEF Asks, IsBoundary
<1> HIDE DEF proven, owned
<1>4. DecisionIsValid(decided(r.pending, owned, "unknown"))
      /\ DecisionIsValid(decided(r.pending, "native", "live_owner"))
      /\ DecisionIsValid(decided(NotApplied, owned, "unknown"))
  BY <1>1, <1>2, <1>3, TableIsAsked
<1>5. \/ \E release, terminal : Settles(c, decided(r.pending, owned, "unknown"), release, terminal)
      \/ \E release, terminal : Settles(c, decided(r.pending, "native", "live_owner"), release, terminal)
      \/ \E release, terminal : Settles(c, decided(NotApplied, owned, "unknown"), release, terminal)
      \/ \E needs, reclaimed : Goes(c, [r EXCEPT !.pc = "claim", !.needs = needs, !.reclaimed = reclaimed])
  BY DEF Classifies, proven, owned
<1> HIDE DEF decided
<1>6. ASSUME NEW needs, NEW reclaimed, Goes(c, [r EXCEPT !.pc = "claim", !.needs = needs, !.reclaimed = reclaimed])
      PROVE  AskInv'
  <2>1. Asks([r EXCEPT !.pc = "claim", !.needs = needs, !.reclaimed = reclaimed])
    BY <1>1 DEF Asks, CallFields
  <2> QED BY <1>1, <1>6, <2>1, AsksOn DEF AskInv
<1> QED BY <1>1, <1>4, <1>5, <1>6, SettlesAsks

LEMMA ChecksTurnAsks == ASSUME AskInv, Shapes, NEW c \in Callers, ChecksTurn(c) PROVE AskInv'
<1> DEFINE r == call[c]
           d == Decide(OracleInput(r, TRUE, NotApplied, "lhc", "unknown", "not_required"))
<1>1. DOMAIN r = CallFields /\ Asks(r) /\ UNCHANGED <<receipt, failures, boundary>>
  BY ShapeOf DEF AskInv, ChecksTurn, rows
<1>2. DecisionIsValid(d)
  BY <1>1, TableIsAsked DEF IsBoundary
<1>3. Settles(c, d, TRUE, TRUE) \/ To(c, "intend") \/ To(c, "adopt")
  BY DEF ChecksTurn
<1> HIDE DEF d
<1>4. ASSUME NEW pc, pc # "finalize", To(c, pc) PROVE AskInv'
  <2>1. Asks([r EXCEPT !.pc = pc])
    BY <1>1, <1>4 DEF Asks, CallFields
  <2> QED BY <1>1, <1>4, <2>1, AsksOn DEF AskInv, To
<1> QED BY <1>1, <1>2, <1>3, <1>4, SettlesAsks

LEMMA DecidesAsks == ASSUME AskInv, Shapes, NEW c \in Callers, Decides(c) PROVE AskInv'
<1> DEFINE r == call[c]
           d == Outcome(r)
           plan == PlanFor(r, d)
           q == [r EXCEPT !.pc = "finalize", !.decision = Summary(d), !.plan = plan]
<1>1. DOMAIN r = CallFields /\ Asks(r) /\ UNCHANGED <<receipt, boundary>>
  BY ShapeOf DEF AskInv, Decides
<1>2. DecisionIsValid(d)
  <2> DEFINE f == r.forced
             k == ~f.forcedThisSeam /\ f.turn \in markers
             final == IF r.needs = "continue" /\ f.applied THEN Applied(f.turn, f.forcedThisSeam, k) ELSE NotApplied
             host == IF r.escalated THEN "awaiting" ELSE "not_required"
  <2>1. k \in BOOLEAN /\ host \in {"unset", "not_required", "awaiting", "ok", "failed"}
    OBVIOUS
  <2>2. f.applied => f.forcedThisSeam \in BOOLEAN
    <3>1. CASE f = NotApplied
      BY <3>1 DEF NotApplied
    <3>2. ASSUME NEW t, NEW g \in BOOLEAN, NEW h \in BOOLEAN, f = Applied(t, g, h) PROVE f.forcedThisSeam \in BOOLEAN
      BY <3>2 DEF Applied
    <3> QED BY <1>1, <3>1, <3>2 DEF Asks, IsBoundary
  <2>3. d = IF r.reclaimed THEN Decide(OracleInput(r, TRUE, final, "native", "no_live_owner", host))
            ELSE Decide(OracleInput(r, TRUE, final, "lhc", "unknown", host))
    BY DEF Outcome
  <2> HIDE DEF k, host, d, f
  <2>4. IsBoundary(final)
    BY <2>1, <2>2 DEF IsBoundary
  <2> HIDE DEF final
  <2> QED BY <1>1, <2>1, <2>3, <2>4, TableIsAsked
<1>3. plan.marker \in BOOLEAN
  BY DEF PlanFor, Planned, NoPlan
<1>4. Goes(c, q)
  BY DEF Decides
<1>7. failures' \in [Attempts -> Nat]
  <2>1. failures' = failures \/ failures' = [failures EXCEPT ![r.attempt] = @ + 1]
    BY DEF Decides
  <2> QED BY <2>1 DEF AskInv
<1> HIDE DEF d, plan
<1>5. /\ q.facts = r.facts /\ q.pending = r.pending /\ q.forced = r.forced /\ q.material = r.material
      /\ q.escalated = r.escalated /\ q.installed = r.installed /\ q.index = r.index /\ q.plan = plan
      /\ q.decision = Summary(d)
  BY <1>1 DEF CallFields
<1> HIDE DEF q
<1>6. Asks(q)
  BY <1>1, <1>2, <1>3, <1>5 DEF Asks
<1> QED BY <1>1, <1>4, <1>6, <1>7, AsksOn DEF AskInv

LEMMA FinalizesAsks == ASSUME AskInv, Shapes, NEW c \in Callers, Finalizes(c) PROVE AskInv'
<1> DEFINE r == call[c]
           a == r.attempt
           p == r.plan
<1>1. Asks(r) /\ r.pc = "finalize" /\ DOMAIN r.decision = DOMAIN NoReceipt
  BY DEF AskInv, Finalizes, At, Shapes
<1>2. PICK d : DecisionIsValid(d) /\ r.decision = Summary(d)
  BY <1>1 DEF Asks
<1>3. \A e \in Callers : call'[e] = IF e = c THEN Resting ELSE call[e]
  BY DEF Finalizes, Returns, Goes, Shapes
<1>4. ASSUME NEW e \in Callers PROVE Asks(call[e])'
  <2>1. Asks(call'[e])
    BY <1>3, RestingAsks DEF AskInv
  <2> QED BY <2>1 DEF Asks
<1>5. failures' \in [Attempts -> Nat]
  BY DEF AskInv, Finalizes
<1>6. \A t \in 1..MaxTurns : boundary'[t].marker \in BOOLEAN
  <2>1. CASE UNCHANGED boundary
    BY <2>1 DEF AskInv
  <2>2. CASE boundary' = [boundary EXCEPT ![p.turn] = NoBoundary]
    BY <2>2 DEF AskInv, Shapes, NoBoundary
  <2>3. CASE boundary' = Upserted(p.turn, a, p.status, p.marker)
    BY <1>1, <2>3, UpsertAsks DEF Asks
  <2>4. \/ UNCHANGED boundary
        \/ boundary' = [boundary EXCEPT ![p.turn] = NoBoundary]
        \/ boundary' = Upserted(p.turn, a, p.status, p.marker)
    BY DEF Finalizes
  <2> QED BY <2>1, <2>2, <2>3, <2>4
<1>7. ReceiptsAreValid'
  <2>1. CASE UNCHANGED receipt
    BY <2>1 DEF AskInv, ReceiptsAreValid
  <2>2. CASE ~ (UNCHANGED receipt)
    <3>1. PICK terminal, released :
            receipt' = [receipt EXCEPT ![a] = [r.decision EXCEPT !.terminal = terminal, !.released = released]]
      BY <2>2 DEF Finalizes
    <3> DEFINE s == [r.decision EXCEPT !.terminal = terminal, !.released = released]
    <3>2. s.outcome = d.outcome /\ s.retry = d.retry /\ s.nextAllowed = d.nextAllowed
      BY <1>2 DEF Summary
    <3>3. TellsADecision(s)
      BY <1>2, <3>2 DEF TellsADecision
    <3> HIDE DEF s
    <3>4. \A b \in Attempts : receipt'[b] = IF b = a THEN s ELSE receipt[b]
      BY <3>1 DEF Shapes, s
    <3> QED BY <3>3, <3>4 DEF AskInv, ReceiptsAreValid
  <2> QED BY <2>1, <2>2
<1> QED BY <1>4, <1>5, <1>6, <1>7 DEF AskInv

LEMMA AskInit == CompactInit => AskInv
<1> SUFFICES ASSUME CompactInit PROVE AskInv OBVIOUS
<1>1. failures \in [Attempts -> Nat]
  BY DEF CompactInit
<1>2. \A t \in 1..MaxTurns : boundary[t].marker \in BOOLEAN
  BY DEF CompactInit, NoBoundary
<1>3. ASSUME NEW c \in Callers PROVE Asks(call[c])
  <2>1. call[c] = Resting
    BY DEF CompactInit
  <2> QED BY <2>1, RestingAsks
<1>4. ReceiptsAreValid
  BY DEF CompactInit, ReceiptsAreValid, NoReceipt
<1> QED BY <1>1, <1>2, <1>3, <1>4 DEF AskInv

LEMMA AskNext == CompactInv /\ AskInv /\ [CompactNext]_vars => AskInv'
<1> SUFFICES ASSUME CompactInv, AskInv, [CompactNext]_vars PROVE AskInv' OBVIOUS
<1>1. Shapes
  BY DEF CompactInv
<1>2. ASSUME NEW c \in Callers,
             \/ Starts(c) \/ Replays(c) \/ Enters(c) \/ ReadsState(c) \/ Registers(c) \/ Reconciles(c)
             \/ Classifies(c) \/ Claims(c) \/ ChecksTurn(c) \/ Adopts(c) \/ Intends(c)
      PROVE  AskInv'
  BY <1>1, <1>2, MovesAsk, BoundariesAsk, ClassifiesAsks, ChecksTurnAsks
<1>3. ASSUME NEW c \in Callers,
             \/ EndsTurn(c) \/ Binds(c) \/ Prepares(c) \/ Marks(c) \/ NotesMarker(c) \/ Installs(c)
             \/ Awaits(c) \/ Decides(c) \/ Finalizes(c) \/ Releases(c) \/ Fails(c) \/ Crashes(c)
      PROVE  AskInv'
  BY <1>1, <1>3, MovesAsk, BoundariesAsk, DecidesAsks, FinalizesAsks
<1>4. ASSUME UNCHANGED <<failures, boundary, call, receipt>> PROVE AskInv'
  <2>1. ASSUME NEW c \in Callers PROVE Asks(call[c])'
    BY <1>4 DEF AskInv, Asks
  <2>2. ReceiptsAreValid'
    BY <1>4 DEF AskInv, ReceiptsAreValid
  <2> QED BY <1>4, <2>1, <2>2 DEF AskInv
<1>5. ASSUME Works \/ Prompts \/ (\E a \in Attempts : Validates(a)) \/ UNCHANGED vars PROVE AskInv'
  BY <1>4, <1>5 DEF Works, Prompts, Validates, vars, thread, rows
<1> QED BY <1>2, <1>3, <1>5 DEF CompactNext

\* A receipt that is stored tells the outcome of a decision that its validator takes, though
\* nothing validates it when it is stored: every question the runtime asks is in the table.
THEOREM StoredReceiptsAreValid == CompactSpec => []ReceiptsAreValid
<1>1. AskInv => ReceiptsAreValid BY DEF AskInv
<1> QED BY <1>1, AskInit, AskNext, CompactInvariant, PTL DEF CompactSpec
=============================================================================
