----------------------------- MODULE Scheduler -----------------------------
(***************************************************************************)
(* The per-thread drain scheduler of packages/lhc/src/shared-tech/         *)
(* scheduler.ts, one in each process that has the thread file open in      *)
(* background mode: the post-commit poke, the first-touch catch-up, the    *)
(* pending flag, the wake timer and drainSettled, together with the drain  *)
(* they start and the explicit derive that claims past it.                 *)
(*                                                                         *)
(* The queue is abstracted to who put each item in and to the claim on the *)
(* head; WorkQueue models the tables.  A wake timer may fire early here:   *)
(* it then finds the head still in flight and is armed again.              *)
(***************************************************************************)
EXTENDS Naturals, Sequences

CONSTANTS
  Proc,         \* processes with the thread file open
  Slot,         \* drain loops a process could have at the same time
  MaxQueue,     \* bound: items queued at once
  MaxEnqueues,  \* bound: items ever enqueued
  MaxWaiters,   \* bound: drainSettled calls waiting in one process
  MaxFailures,  \* bound: drains and derives that end in a storage error
  MaxCrashes    \* bound: process exits and crashes

\* An item that an explicit derive put in an empty queue and claimed at once.
CONSTANT Direct

ASSUME SchedulerAssumption ==
  /\ Direct \notin Proc
  /\ Slot \subseteq Nat \ {0}
  /\ Slot # {}
  /\ Proc # {}
  /\ MaxQueue \in Nat
  /\ MaxEnqueues \in Nat
  /\ MaxWaiters \in Nat
  /\ MaxFailures \in Nat
  /\ MaxCrashes \in Nat

VARIABLES
  queue,    \* who enqueued each live item, oldest first
  head,     \* the claim on the oldest item
  state,    \* ThreadDrainState of each process
  loop,     \* the runLoop calls of each process
  derive,   \* whether an explicit derive of the process runs its handler
  lost,     \* history: the process died or gave a drain up, and looked no more
  count     \* enqueues, failures and crashes so far

vars == <<queue, head, state, loop, derive, lost, count>>

-----------------------------------------------------------------------------
\* A worker is a drain loop <<p, k>> or the explicit derive <<p, 0>> of p.
Worker == Proc \X (Slot \cup {0})

Claims == [status : {"queued", "claimed"}, holder : Worker,
           lapsed : BOOLEAN, claimExpired : BOOLEAN]

\* Faulty variant: a claim is given back with a status no reader knows.
UnclaimedUnknown == [status |-> "released", holder |-> CHOOSE w \in Worker : TRUE,
                     lapsed |-> FALSE, claimExpired |-> FALSE]

Unclaimed == [status |-> "queued", holder |-> CHOOSE w \in Worker : TRUE,
              lapsed |-> FALSE, claimExpired |-> FALSE]

ClaimedBy(w) == [head EXCEPT !.status = "claimed", !.holder = w, !.lapsed = FALSE]

State == [seen : BOOLEAN, running : BOOLEAN, pending : BOOLEAN,
          wake : BOOLEAN, waiters : 0..MaxWaiters]

NoState == [seen |-> FALSE, running |-> FALSE, pending |-> FALSE,
            wake |-> FALSE, waiters |-> 0]

Loop == [pc : {"off", "pass", "claim", "handler", "check"},
         report : {"none", "empty", "in_flight", "failed"}]

NoLoop == [pc |-> "off", report |-> "none"]

NewLoop == [pc |-> "pass", report |-> "none"]

FirstFree(loops, k) == /\ loops[k].pc = "off"
                       /\ \A l \in Slot : loops[l].pc = "off" => k <= l

Counts == [enqueues : 0..MaxEnqueues, failures : 0..MaxFailures, crashes : 0..MaxCrashes]

Owns(w) == queue # <<>> /\ head.status = "claimed" /\ head.holder = w

Init == /\ queue = <<>>
        /\ head = Unclaimed
        /\ state = [p \in Proc |-> NoState]
        /\ loop = [p \in Proc |-> [k \in Slot |-> NoLoop]]
        /\ derive = [p \in Proc |-> FALSE]
        /\ lost = [p \in Proc |-> FALSE]
        /\ count = [enqueues |-> 0, failures |-> 0, crashes |-> 0]

-----------------------------------------------------------------------------
(* schedule, and the ways into it.  lp is the loops as the caller left      *)
(* them, st the state of p.                                                 *)

\* Faulty variant: a poke of a running drain is taken to be seen by it.
ScheduleDropped(p, st, lp) ==
  /\ state' = [state EXCEPT ![p] = [st EXCEPT !.wake = FALSE, !.running = TRUE]]
  /\ IF st.running THEN loop' = lp
     ELSE \E k \in Slot : FirstFree(lp[p], k) /\ loop' = [lp EXCEPT ![p][k] = NewLoop]
  /\ lost' = [lost EXCEPT ![p] = FALSE]

\* Faulty variant: each poke starts a loop of its own.
ScheduleTwice(p, st, lp) ==
  /\ state' = [state EXCEPT ![p] = [st EXCEPT !.wake = FALSE, !.running = TRUE]]
  /\ \E k \in Slot : FirstFree(lp[p], k) /\ loop' = [lp EXCEPT ![p][k] = NewLoop]
  /\ lost' = [lost EXCEPT ![p] = FALSE]

Schedule(p, st, lp) ==
  /\ \/ /\ st.running
        /\ state' = [state EXCEPT ![p] = [st EXCEPT !.wake = FALSE, !.pending = TRUE]]
        /\ loop' = lp
     \/ /\ ~ st.running
        /\ state' = [state EXCEPT ![p] = [st EXCEPT !.wake = FALSE, !.running = TRUE]]
        /\ \E k \in Slot :
             /\ FirstFree(lp[p], k)
             /\ loop' = [lp EXCEPT ![p][k] = NewLoop]
  /\ lost' = [lost EXCEPT ![p] = FALSE]

\* touch: the first open of the file by a process catches up on leftover work.
Open(p) ==
  LET st == [state[p] EXCEPT !.seen = TRUE]
  IN  /\ ~ state[p].seen
      /\ \/ /\ queue # <<>>
            /\ Schedule(p, st, loop)
         \/ /\ queue = <<>>
            /\ state' = [state EXCEPT ![p] = st]
            /\ UNCHANGED <<loop, lost>>
      /\ UNCHANGED <<queue, head, derive, count>>

\* A process may enqueue only after a touch; its items go behind all others.
Enqueueable(p) == state[p].seen /\ Len(queue) < MaxQueue /\ count.enqueues < MaxEnqueues

Counted == count' = [count EXCEPT !.enqueues = @ + 1]

\* enqueue, committed and poked.
Enqueue(p) ==
  /\ Enqueueable(p)
  /\ Counted
  /\ queue' = Append(queue, p)
  /\ Schedule(p, state[p], loop)
  /\ UNCHANGED <<head, derive>>

\* Faulty variant: the timer that fires is forgotten and nothing is scheduled.
FireForgets(p) ==
  /\ state[p].wake
  /\ state' = [state EXCEPT ![p].wake = FALSE]
  /\ UNCHANGED <<queue, head, loop, derive, lost, count>>

\* The armed timer fires.
Fire(p) ==
  /\ state[p].wake
  /\ Schedule(p, state[p], loop)
  /\ UNCHANGED <<queue, head, derive, count>>

\* drainSettled, when it does not return at once.
DrainSettled(p) ==
  /\ state[p].running \/ state[p].pending \/ state[p].wake
  /\ state[p].waiters < MaxWaiters
  /\ state' = [state EXCEPT ![p].waiters = @ + 1]
  /\ UNCHANGED <<queue, head, loop, derive, lost, count>>

-----------------------------------------------------------------------------
(* runLoop and the drain.                                                   *)

Goto(p, k, pc) == [loop EXCEPT ![p][k].pc = pc]

Ended(p, k, report) == [loop EXCEPT ![p][k] = [pc |-> "check", report |-> report]]

\* The top of runLoop's body: st.pending = false, then the drain.
StartPass(p, k) ==
  /\ loop[p][k].pc = "pass"
  /\ state' = [state EXCEPT ![p].pending = FALSE]
  /\ loop' = Goto(p, k, "claim")
  /\ UNCHANGED <<queue, head, derive, lost, count>>

\* A head whose lease has passed is re-queued once; the second time it fails
\* and leaves the queue.  requeueExpiredClaim re-checks what claimNext found,
\* so the two are one step here.
Expire == /\ head.status = "claimed" /\ head.lapsed
          /\ \/ /\ ~ head.claimExpired
                /\ head' = [Unclaimed EXCEPT !.claimExpired = TRUE]
                /\ UNCHANGED queue
             \/ /\ head.claimExpired
                /\ head' = Unclaimed
                /\ queue' = Tail(queue)

\* Faulty variant: a drain that meets an unexpired claim reports an empty queue.
ClaimBlind(p, k) ==
  /\ loop[p][k].pc = "claim"
  /\ IF queue = <<>> \/ head.status = "claimed"
     THEN loop' = Ended(p, k, "empty") /\ UNCHANGED <<queue, head>>
     ELSE head' = ClaimedBy(<<p, k>>) /\ loop' = Goto(p, k, "handler") /\ UNCHANGED queue
  /\ UNCHANGED <<state, derive, lost, count>>

\* claimNext and what drainOpenDb makes of its outcome.
Claim(p, k) ==
  /\ loop[p][k].pc = "claim"
  /\ \/ /\ queue = <<>>
        /\ loop' = Ended(p, k, "empty")
        /\ UNCHANGED <<queue, head>>
     \/ /\ queue # <<>> /\ head.status = "queued"
        /\ head' = ClaimedBy(<<p, k>>)
        /\ loop' = Goto(p, k, "handler")
        /\ UNCHANGED queue
     \/ /\ queue # <<>> /\ head.status = "claimed" /\ ~ head.lapsed
        /\ loop' = Ended(p, k, "in_flight")
        /\ UNCHANGED <<queue, head>>
     \/ /\ queue # <<>> /\ Expire
        /\ UNCHANGED loop
  /\ UNCHANGED <<state, derive, lost, count>>

\* The handler's outcome is committed if the claim is still held, else dropped.
\* When followUp holds, the same commit enqueues an item behind all others.
Complete(w, followUp) ==
  /\ head' = IF Owns(w) THEN Unclaimed ELSE head
  /\ queue' = IF ~ Owns(w) THEN queue
              ELSE IF followUp THEN Append(Tail(queue), w[1]) ELSE Tail(queue)

Handled(p, k) ==
  /\ loop[p][k].pc = "handler"
  /\ Complete(<<p, k>>, FALSE)
  /\ loop' = Goto(p, k, "claim")
  /\ UNCHANGED <<state, derive, lost, count>>

HandledWithFollowUp(p, k) ==
  /\ loop[p][k].pc = "handler"
  /\ Owns(<<p, k>>)
  /\ count.enqueues < MaxEnqueues
  /\ Counted
  /\ Complete(<<p, k>>, TRUE)
  /\ Schedule(p, state[p], Goto(p, k, "claim"))
  /\ UNCHANGED derive

\* runDrain reports a storage error or a DerivationCompletionError.
DrainFails(p, k) ==
  /\ loop[p][k].pc \in {"claim", "handler"}
  /\ count.failures < MaxFailures
  /\ count' = [count EXCEPT !.failures = @ + 1]
  /\ loop' = Ended(p, k, "failed")
  /\ UNCHANGED <<queue, head, state, derive, lost>>

\* while (st.pending), and the finally block.
Check(p, k) ==
  LET rest == [state[p] EXCEPT !.running = FALSE]
      inFlight == loop[p][k].report = "in_flight"
  IN  /\ loop[p][k].pc = "check"
      /\ \/ /\ state[p].pending
            /\ loop' = [loop EXCEPT ![p][k] = NewLoop]
            /\ UNCHANGED <<state, lost>>
         \/ /\ ~ state[p].pending
            /\ loop' = [loop EXCEPT ![p][k] = NoLoop]
            /\ state' = [state EXCEPT ![p] =
                           IF inFlight /\ ~ state[p].wake
                           THEN [rest EXCEPT !.wake = TRUE]
                           ELSE [rest EXCEPT !.waiters = 0]]
            /\ lost' = [lost EXCEPT ![p] = @ \/ loop[p][k].report = "failed"]
      /\ UNCHANGED <<queue, head, derive, count>>

-----------------------------------------------------------------------------
(* Explicit derive, in the same process as a scheduler.                     *)

\* The call finds the queue empty and claims its item, or claims a queued head.
DeriveClaims(p) ==
  /\ state[p].seen /\ ~ derive[p]
  /\ \/ /\ queue = <<>> /\ Enqueueable(p)
        /\ Counted
        /\ queue' = <<Direct>>
     \/ /\ queue # <<>> /\ head.status = "queued"
        /\ UNCHANGED <<queue, count>>
  /\ head' = ClaimedBy(<<p, 0>>)
  /\ derive' = [derive EXCEPT ![p] = TRUE]
  /\ UNCHANGED <<state, loop, lost>>

\* Its item is not the head: it is queued behind the others, or was already.
DeriveQueues(p) ==
  /\ state[p].seen /\ ~ derive[p]
  /\ queue # <<>>
  /\ \/ /\ Enqueueable(p)
        /\ Counted
        /\ queue' = Append(queue, p)
     \/ /\ Len(queue) > 1
        /\ UNCHANGED <<queue, count>>
  /\ Schedule(p, state[p], loop)
  /\ UNCHANGED <<head, derive>>

\* Its item is the head with a lapsed claim.
DeriveExpires(p) ==
  /\ state[p].seen /\ ~ derive[p]
  /\ queue # <<>> /\ Expire
  /\ Schedule(p, state[p], loop)
  /\ UNCHANGED <<derive, count>>

Derived(p) ==
  /\ derive[p]
  /\ Complete(<<p, 0>>, FALSE)
  /\ derive' = [derive EXCEPT ![p] = FALSE]
  /\ UNCHANGED <<state, loop, lost, count>>

\* onApplied or a deferral enqueues; the post-commit hook pokes.
DerivedWithFollowUp(p) ==
  /\ derive[p]
  /\ Owns(<<p, 0>>)
  /\ count.enqueues < MaxEnqueues
  /\ Counted
  /\ Complete(<<p, 0>>, TRUE)
  /\ derive' = [derive EXCEPT ![p] = FALSE]
  /\ Schedule(p, state[p], loop)

\* The completion throws; the claim stays.
DeriveFails(p) ==
  /\ derive[p]
  /\ count.failures < MaxFailures
  /\ count' = [count EXCEPT !.failures = @ + 1]
  /\ derive' = [derive EXCEPT ![p] = FALSE]
  /\ UNCHANGED <<queue, head, state, loop, lost>>

-----------------------------------------------------------------------------
(* Time and failures.                                                       *)

Lapse == /\ queue # <<>> /\ head.status = "claimed" /\ ~ head.lapsed
         /\ head' = [head EXCEPT !.lapsed = TRUE]
         /\ UNCHANGED <<queue, state, loop, derive, lost, count>>

Gone(p) == /\ state[p].seen
           /\ count.crashes < MaxCrashes
           /\ count' = [count EXCEPT !.crashes = @ + 1]
           /\ state' = [state EXCEPT ![p] = NoState]
           /\ loop' = [loop EXCEPT ![p] = [k \in Slot |-> NoLoop]]
           /\ derive' = [derive EXCEPT ![p] = FALSE]
           /\ lost' = [lost EXCEPT ![p] = TRUE]
           /\ UNCHANGED queue

Crash(p) == Gone(p) /\ UNCHANGED head

\* releaseHeldClaims hands back the claim that p holds.
Exit(p) == /\ Gone(p)
           /\ head' = IF head.status = "claimed" /\ head.holder[1] = p
                      THEN Unclaimed ELSE head

-----------------------------------------------------------------------------
Step(p) == \/ \E k \in Slot : \/ StartPass(p, k) \/ Claim(p, k) \/ Check(p, k)
                              \/ Handled(p, k) \/ HandledWithFollowUp(p, k)
                              \/ DrainFails(p, k)
           \/ Open(p) \/ Enqueue(p) \/ Fire(p) \/ DrainSettled(p)
           \/ DeriveClaims(p) \/ DeriveQueues(p) \/ DeriveExpires(p)
           \/ Derived(p) \/ DerivedWithFollowUp(p) \/ DeriveFails(p)
           \/ Crash(p) \/ Exit(p)

Next == Lapse \/ \E p \in Proc : Step(p)

Spec == Init /\ [][Next]_vars

\* Event loops run, handlers return, timers fire, leases run out, and a
\* process that died is followed by one that opens the file.
Fairness ==
  /\ WF_vars(Lapse)
  /\ \A p \in Proc :
       /\ WF_vars(Open(p))
       /\ WF_vars(Fire(p))
       /\ WF_vars(Derived(p))
       /\ \A k \in Slot : /\ WF_vars(StartPass(p, k))
                          /\ WF_vars(Claim(p, k))
                          /\ WF_vars(Handled(p, k))
                          /\ WF_vars(Check(p, k))

FairSpec == Spec /\ Fairness

-----------------------------------------------------------------------------
(* Properties.                                                              *)

TypeOK ==
  /\ queue \in Seq(Proc \cup {Direct})
  /\ head \in Claims
  /\ state \in [Proc -> State]
  /\ loop \in [Proc -> [Slot -> Loop]]
  /\ derive \in [Proc -> BOOLEAN]
  /\ lost \in [Proc -> BOOLEAN]
  /\ count \in Counts

Active(p) == {k \in Slot : loop[p][k].pc # "off"}

\* Single flight: however pokes, touches and timers meet, a process never has
\* two drain loops of one thread.
SingleFlight == \A p \in Proc : \A k, l \in Active(p) : k = l

\* p's scheduler will look at the queue again.
Attends(p) ==
  \/ state[p].wake
  \/ \E k \in Slot : \/ loop[p][k].pc \in {"pass", "claim", "handler"}
                     \/ /\ loop[p][k].pc = "check"
                        /\ state[p].pending \/ loop[p][k].report \in {"in_flight", "failed"}

Enqueued(p) == \E n \in 1..Len(queue) : queue[n] = p

\* No lost wake-up: an item put in by a process that has neither died nor had
\* its last drain fail is one its scheduler still looks for, by a pass, by the
\* pending flag or by the wake timer.
NoLostWakeUp == \A p \in Proc : Enqueued(p) /\ ~ lost[p] => Attends(p)

\* A drainSettled call waits only while a drain or a timer will resolve it.
WaitersAreWoken ==
  \A p \in Proc : state[p].waiters > 0 => state[p].running \/ state[p].wake

\* drainSettled resolves only when everything its own process enqueued has left
\* the queue, unless the drain before it failed or the process went away.
SettledMeansDrained ==
  [][\A p \in Proc : state'[p].waiters < state[p].waiters
                     => lost'[p] \/ ~ Enqueued(p)']_vars

\* Pending work is drained: by its own process's passes, by the timer of one
\* that met a claim in flight, or by the next process that opens the file.
QueueDrains == queue # <<>> ~> queue = <<>>

\* Every drainSettled call returns.
DrainSettledReturns == \A p \in Proc : state[p].waiters > 0 ~> state[p].waiters = 0
=============================================================================
