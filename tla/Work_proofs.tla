----------------------------- MODULE Work_proofs -----------------------------
(***************************************************************************)
(* Proofs about the work that is done behind a conversation.               *)
(*                                                                         *)
(* The work of a thread (Scheduler), for every set of processes and every   *)
(* bound: one drain at a time, and no item that nobody looks for.           *)
(*                                                                         *)
(* The work that is carried from one Claude session to the next             *)
(* (CarriedWork), for any number of works, handoffs, prompts and starts.    *)
(* The hook, the capture, the carryover, a stop and the exit each act on    *)
(* rows they listed earlier; CarriedInv says what of such a list still      *)
(* holds when its members' turns come.                                      *)
(***************************************************************************)
EXTENDS Scheduler, CarriedWork, FiniteSetTheorems, SequenceTheorems, TLAPS

-----------------------------------------------------------------------------
(* The scheduler's queue.                                                   *)

Member == Proc \cup {Direct}

Has(q, p) == \E n \in 1..Len(q) : q[n] = p

\* Removing the oldest item brings in nobody's item.
LEMMA TailHas ==
  ASSUME NEW q \in Seq(Member), q # <<>>
  PROVE  /\ Tail(q) \in Seq(Member)
         /\ \A p : Has(Tail(q), p) => Has(q, p)
<1>1. /\ Tail(q) \in Seq(Member)
      /\ Len(Tail(q)) = Len(q) - 1
      /\ \A n \in 1..Len(Tail(q)) : Tail(q)[n] = q[n + 1]
  BY HeadTailProperties
<1>2. Len(q) \in Nat /\ Len(q) > 0
  BY EmptySeq, LenProperties
<1>. QED  BY <1>1, <1>2 DEF Has

\* Appending an item of one process brings in no other's.
LEMMA AppendHas ==
  ASSUME NEW q \in Seq(Member), NEW x \in Member
  PROVE  /\ Append(q, x) \in Seq(Member)
         /\ \A p : Has(Append(q, x), p) => Has(q, p) \/ p = x
<1>1. /\ Append(q, x) \in Seq(Member)
      /\ Len(Append(q, x)) = Len(q) + 1
      /\ \A n \in 1..Len(q) : Append(q, x)[n] = q[n]
      /\ Append(q, x)[Len(q) + 1] = x
  BY AppendProperties
<1>2. Len(q) \in Nat
  BY LenProperties
<1>. QED  BY <1>1, <1>2 DEF Has

\* An item claimed at once in an empty queue is nobody's.
LEMMA DirectHas ==
  ASSUME NEW p \in Proc
  PROVE  ~ Has(<<Direct>>, p)
  BY SchedulerAssumption DEF Has

\* A completion adds at most an item of its own process.
LEMMA CompleteHas ==
  ASSUME queue \in Seq(Member), NEW w \in Worker, NEW f \in BOOLEAN,
         Complete(w, f)
  PROVE  /\ queue' \in Seq(Member)
         /\ \A p : Has(queue', p) => Has(queue, p) \/ (f /\ p = w[1])
<1>1. CASE ~ Owns(w)
  BY <1>1 DEF Complete
<1>2. CASE Owns(w) /\ ~ f
  <2>1. queue # <<>> /\ queue' = Tail(queue)
    BY <1>2 DEF Complete, Owns
  <2>. QED  BY <2>1, TailHas
<1>3. CASE Owns(w) /\ f
  <2>1. queue # <<>> /\ queue' = Append(Tail(queue), w[1]) /\ w[1] \in Member
    BY <1>3 DEF Complete, Owns, Worker, Member
  <2>2. /\ Tail(queue) \in Seq(Member)
        /\ \A p : Has(Tail(queue), p) => Has(queue, p)
    BY <2>1, TailHas
  <2>3. /\ queue' \in Seq(Member)
        /\ \A p : Has(queue', p) => Has(Tail(queue), p) \/ p = w[1]
    BY <2>1, <2>2, AppendHas
  <2>. QED  BY <1>3, <2>2, <2>3
<1>. QED  BY <1>1, <1>2, <1>3

\* An expired head is re-queued or removed.
LEMMA ExpireHas ==
  ASSUME queue \in Seq(Member), queue # <<>>, Expire
  PROVE  /\ queue' \in Seq(Member)
         /\ \A p : Has(queue', p) => Has(queue, p)
  BY TailHas DEF Expire

-----------------------------------------------------------------------------
(* Types.                                                                   *)

Loops == [Proc -> [Slot -> Loop]]

\* The worker names of a process are workers, and there is at least one worker.
LEMMA Workers ==
  /\ \A p \in Proc : <<p, 0>> \in Worker /\ \A k \in Slot : <<p, k>> \in Worker
  /\ (CHOOSE w \in Worker : TRUE) \in Worker
<1>1. \A p \in Proc : <<p, 0>> \in Worker /\ \A k \in Slot : <<p, k>> \in Worker
  BY DEF Worker
<1>2. Worker # {}
  BY <1>1, SchedulerAssumption
<1>. QED  BY <1>1, <1>2

\* The claims that are written are well typed.
LEMMA ClaimTypes ==
  /\ Unclaimed \in Claims
  /\ [Unclaimed EXCEPT !.claimExpired = TRUE] \in Claims
  /\ head \in Claims => \A w \in Worker : ClaimedBy(w) \in Claims
  /\ head \in Claims => [head EXCEPT !.lapsed = TRUE] \in Claims
  BY Workers DEF Unclaimed, Claims, ClaimedBy

\* The loops that are written are well typed.
LEMMA LoopTypes ==
  ASSUME loop \in Loops, NEW p \in Proc, NEW k \in Slot
  PROVE  /\ \A pc \in {"off", "pass", "claim", "handler", "check"} : Goto(p, k, pc) \in Loops
         /\ \A r \in {"none", "empty", "in_flight", "failed"} : Ended(p, k, r) \in Loops
         /\ [loop EXCEPT ![p][k] = NewLoop] \in Loops
         /\ [loop EXCEPT ![p][k] = NoLoop] \in Loops
<1>1. \A l \in Loop : [loop EXCEPT ![p][k] = l] \in Loops
  BY DEF Loops
<1>2. ASSUME NEW pc \in {"off", "pass", "claim", "handler", "check"}
      PROVE  Goto(p, k, pc) \in Loops
  <2>0. loop[p][k] \in Loop
    BY DEF Loops
  <2>1. \A l \in Loop : [l EXCEPT !.pc = pc] \in Loop
    BY DEF Loop
  <2>2. Goto(p, k, pc) = [loop EXCEPT ![p][k] = [loop[p][k] EXCEPT !.pc = pc]]
    BY DEF Goto, Loops
  <2>. QED  BY <1>1, <2>0, <2>1, <2>2
<1>3. NewLoop \in Loop /\ NoLoop \in Loop
  BY DEF Loop, NewLoop, NoLoop
<1>4. \A r \in {"none", "empty", "in_flight", "failed"} : [pc |-> "check", report |-> r] \in Loop
  BY DEF Loop
<1>. QED  BY <1>1, <1>2, <1>3, <1>4 DEF Ended

\* schedule keeps the types.
LEMMA ScheduleType ==
  ASSUME state \in [Proc -> State], lost \in [Proc -> BOOLEAN],
         NEW p \in Proc, NEW st \in State, NEW lp \in Loops, Schedule(p, st, lp)
  PROVE  state' \in [Proc -> State] /\ loop' \in Loops /\ lost' \in [Proc -> BOOLEAN]
<1>1. [st EXCEPT !.wake = FALSE, !.pending = TRUE] \in State
  BY DEF State
<1>2. [st EXCEPT !.wake = FALSE, !.running = TRUE] \in State
  BY DEF State
<1>3. \A k \in Slot : [lp EXCEPT ![p][k] = NewLoop] \in Loops
  BY DEF Loops, Loop, NewLoop
<1>. QED  BY <1>1, <1>2, <1>3 DEF Schedule

\* The counters stay within their bounds.
LEMMA CountTypes ==
  ASSUME count \in Counts
  PROVE  /\ count.enqueues < MaxEnqueues => [count EXCEPT !.enqueues = @ + 1] \in Counts
         /\ count.failures < MaxFailures => [count EXCEPT !.failures = @ + 1] \in Counts
         /\ count.crashes < MaxCrashes => [count EXCEPT !.crashes = @ + 1] \in Counts
  BY SchedulerAssumption DEF Counts

\* The states that are written outside schedule are well typed.
LEMMA StateTypes ==
  ASSUME NEW st \in State
  PROVE  /\ [st EXCEPT !.seen = TRUE] \in State
         /\ [st EXCEPT !.pending = FALSE] \in State
         /\ st.waiters < MaxWaiters => [st EXCEPT !.waiters = @ + 1] \in State
         /\ NoState \in State
         /\ [[st EXCEPT !.running = FALSE] EXCEPT !.wake = TRUE] \in State
         /\ [[st EXCEPT !.running = FALSE] EXCEPT !.waiters = 0] \in State
<1>1. 0 \in 0..MaxWaiters
  BY SchedulerAssumption
<1>2. st.waiters < MaxWaiters => st.waiters + 1 \in 0..MaxWaiters
  BY SchedulerAssumption DEF State
<1>. QED  BY <1>1, <1>2 DEF State, NoState

\* The initial state is well typed.
LEMMA InitType == Init => TypeOK
<1>. SUFFICES ASSUME Init PROVE TypeOK
  OBVIOUS
<1>1. queue \in Seq(Member)
  BY EmptySeq DEF Init, Member
<1>2. head \in Claims
  BY ClaimTypes DEF Init
<1>3. state \in [Proc -> State]
  BY SchedulerAssumption DEF Init, NoState, State
<1>4. loop \in [Proc -> [Slot -> Loop]]
  BY DEF Init, NoLoop, Loop
<1>5. count \in Counts
  BY SchedulerAssumption DEF Init, Counts
<1>. QED  BY <1>1, <1>2, <1>3, <1>4, <1>5 DEF Init, TypeOK, Member

\* Every step of a process keeps the types.
LEMMA StepType ==
  ASSUME TypeOK, NEW p \in Proc, Step(p)
  PROVE  TypeOK'
<1>. USE DEF TypeOK, Member
<1>a. state[p] \in State /\ loop \in Loops /\ <<p, 0>> \in Worker
  BY Workers DEF Loops
<1>b. \A q \in Proc : queue' = Append(queue, q) => queue' \in Seq(Member)
  BY AppendHas
<1>c. \A k \in Slot : <<p, k>> \in Worker
  BY Workers
<1>1. CASE Open(p)
  BY <1>1, <1>a, ScheduleType, StateTypes DEF Open, Loops
<1>2. CASE Enqueue(p)
  BY <1>2, <1>a, <1>b, ScheduleType, CountTypes DEF Enqueue, Enqueueable, Counted, Loops
<1>3. CASE Fire(p)
  BY <1>3, <1>a, ScheduleType DEF Fire, Loops
<1>4. CASE DrainSettled(p)
  <2>1. state' = [state EXCEPT ![p] = [state[p] EXCEPT !.waiters = @ + 1]]
    BY <1>4 DEF DrainSettled
  <2>. QED  BY <2>1, <1>4, <1>a, StateTypes DEF DrainSettled
<1>5. CASE \E k \in Slot : StartPass(p, k)
  <2>. PICK k \in Slot : StartPass(p, k)
    BY <1>5
  <2>1. state' = [state EXCEPT ![p] = [state[p] EXCEPT !.pending = FALSE]]
    BY DEF StartPass
  <2>2. loop' \in Loops
    BY <1>a, LoopTypes DEF StartPass
  <2>. QED  BY <2>1, <2>2, <1>a, StateTypes DEF StartPass, Loops
<1>6. CASE \E k \in Slot : Claim(p, k)
  <2>. PICK k \in Slot : Claim(p, k)
    BY <1>6
  <2>1. CASE ~ (queue # <<>> /\ Expire)
    <3>1. loop' \in Loops
      BY <2>1, <1>a, LoopTypes DEF Claim
    <3>2. head' \in Claims
      BY <2>1, <1>c, ClaimTypes DEF Claim
    <3>3. queue' = queue
      BY <2>1 DEF Claim
    <3>. QED  BY <3>1, <3>2, <3>3 DEF Claim, Loops
  <2>2. CASE queue # <<>> /\ Expire
    <3>1. head' \in Claims
      BY <2>2, ClaimTypes DEF Expire
    <3>. QED  BY <2>2, <3>1, ExpireHas DEF Claim, Expire
  <2>. QED  BY <2>1, <2>2 DEF Claim
<1>7. CASE \E k \in Slot : Handled(p, k)
  <2>. PICK k \in Slot : Handled(p, k)
    BY <1>7
  <2>1. queue' \in Seq(Member) /\ head' \in Claims
    BY <1>c, CompleteHas, ClaimTypes DEF Handled, Complete
  <2>. QED  BY <2>1, <1>a, LoopTypes DEF Handled, Loops
<1>8. CASE \E k \in Slot : HandledWithFollowUp(p, k)
  <2>. PICK k \in Slot : HandledWithFollowUp(p, k)
    BY <1>8
  <2>1. queue' \in Seq(Member) /\ head' \in Claims
    BY <1>c, CompleteHas, ClaimTypes DEF HandledWithFollowUp, Complete
  <2>2. Goto(p, k, "claim") \in Loops
    BY <1>a, LoopTypes
  <2>. QED  BY <2>1, <2>2, <1>a, ScheduleType, CountTypes DEF HandledWithFollowUp, Counted, Loops
<1>9. CASE \E k \in Slot : DrainFails(p, k)
  BY <1>9, <1>a, LoopTypes, CountTypes DEF DrainFails, Loops
<1>10. CASE \E k \in Slot : Check(p, k)
  <2>. PICK k \in Slot : Check(p, k)
    BY <1>10
  <2>1. state' \in [Proc -> State]
    <3>1. /\ [[state[p] EXCEPT !.running = FALSE] EXCEPT !.wake = TRUE] \in State
          /\ [[state[p] EXCEPT !.running = FALSE] EXCEPT !.waiters = 0] \in State
      BY <1>a, StateTypes
    <3>. QED  BY <3>1 DEF Check
  <2>2. loop' \in Loops
    <3>1. /\ [loop EXCEPT ![p][k] = NewLoop] \in Loops
          /\ [loop EXCEPT ![p][k] = NoLoop] \in Loops
      BY <1>a, LoopTypes
    <3>. QED  BY <3>1 DEF Check
  <2>. QED  BY <2>1, <2>2 DEF Check, Loops
<1>11. CASE DeriveClaims(p)
  <2>1. <<Direct>> \in Seq(Member)
    OBVIOUS
  <2>. QED  BY <1>11, <1>a, <2>1, ClaimTypes, CountTypes DEF DeriveClaims, Enqueueable, Counted
<1>12. CASE DeriveQueues(p)
  BY <1>12, <1>a, <1>b, ScheduleType, CountTypes DEF DeriveQueues, Enqueueable, Counted, Loops
<1>13. CASE DeriveExpires(p)
  <2>1. head' \in Claims
    BY <1>13, ClaimTypes DEF DeriveExpires, Expire
  <2>. QED  BY <1>13, <1>a, <2>1, ExpireHas, ScheduleType DEF DeriveExpires, Loops
<1>14. CASE Derived(p)
  <2>1. queue' \in Seq(Member) /\ head' \in Claims
    BY <1>14, <1>a, CompleteHas, ClaimTypes DEF Derived, Complete
  <2>. QED  BY <2>1, <1>14 DEF Derived
<1>15. CASE DerivedWithFollowUp(p)
  <2>1. queue' \in Seq(Member) /\ head' \in Claims
    BY <1>15, <1>a, CompleteHas, ClaimTypes DEF DerivedWithFollowUp, Complete
  <2>. QED  BY <2>1, <1>15, <1>a, ScheduleType, CountTypes DEF DerivedWithFollowUp, Counted, Loops
<1>16. CASE DeriveFails(p)
  BY <1>16, CountTypes DEF DeriveFails
<1>17. CASE Crash(p) \/ Exit(p)
  <2>1. head' \in Claims
    BY <1>17, ClaimTypes DEF Crash, Exit
  <2>2. loop' \in [Proc -> [Slot -> Loop]]
    <3>1. NoLoop \in Loop
      BY DEF NoLoop, Loop
    <3>2. loop' = [loop EXCEPT ![p] = [k \in Slot |-> NoLoop]]
      BY <1>17 DEF Crash, Exit, Gone
    <3>. QED  BY <3>1, <3>2
  <2>3. NoState \in State
    BY <1>a, StateTypes
  <2>4. count' \in Counts
    BY <1>17, CountTypes DEF Crash, Exit, Gone
  <2>5. Gone(p)
    BY <1>17 DEF Crash, Exit
  <2>. QED  BY <2>1, <2>2, <2>3, <2>4, <2>5 DEF Gone
<1>. QED  BY <1>1, <1>2, <1>3, <1>4, <1>5, <1>6, <1>7, <1>8, <1>9, <1>10, <1>11, <1>12,
             <1>13, <1>14, <1>15, <1>16, <1>17 DEF Step

\* Every step keeps the types.
LEMMA NextType == TypeOK /\ [Next]_vars => TypeOK'
<1>1. ASSUME TypeOK, Lapse PROVE TypeOK'
  BY <1>1, ClaimTypes DEF TypeOK, Lapse
<1>2. ASSUME TypeOK, UNCHANGED vars PROVE TypeOK'
  BY <1>2 DEF TypeOK, vars
<1>. QED  BY <1>1, <1>2, StepType DEF Next

\* The schedulers' states, the loops, the queue and the claim on its head stay
\* well typed and within their bounds.
THEOREM TypeCorrect == Spec => []TypeOK
  BY InitType, NextType, PTL DEF Spec

-----------------------------------------------------------------------------
(* The invariant of one process's scheduler.                                *)

\* running tells whether a loop is active, and there is never a second one.
FlightOf(st, lps) == /\ st.running <=> \E k \in Slot : lps[k].pc # "off"
                     /\ \A k, l \in Slot : lps[k].pc # "off" /\ lps[l].pc # "off" => k = l

\* The timer is armed, and a waiter waits, only in the states that allow it.
RestOf(st) == /\ st.wake => ~ st.running
              /\ st.pending => st.running
              /\ st.waiters > 0 => st.running \/ st.wake

Looks(p) == Enqueued(p) /\ ~ lost[p] => Attends(p)

Good(p) == /\ FlightOf(state[p], loop[p])
           /\ RestOf(state[p])
           /\ Looks(p)

IInv == TypeOK /\ \A p \in Proc : Good(p)

\* A step of one process leaves the scheduler of another as it is, and adds no
\* item of the other.
LEMMA OtherGood ==
  ASSUME NEW q \in Proc, Good(q), state'[q] = state[q], loop'[q] = loop[q],
         lost'[q] = lost[q], Enqueued(q)' => Enqueued(q)
  PROVE  Good(q)'
<1>1. Attends(q) => Attends(q)'
  BY DEF Attends
<1>. QED  BY <1>1 DEF Good, Looks, FlightOf, RestOf

\* After schedule the process attends to its queue with one loop, and every
\* other scheduler is as before.
LEMMA ScheduleGood ==
  ASSUME state \in [Proc -> State], lost \in [Proc -> BOOLEAN],
         NEW p \in Proc, NEW st \in State, NEW lp \in Loops, Schedule(p, st, lp),
         FlightOf(st, lp[p])
  PROVE  /\ Good(p)'
         /\ \A q \in Proc \ {p} : /\ state'[q] = state[q] /\ loop'[q] = lp[q]
                                  /\ lost'[q] = lost[q]
<1>1. lost'[p] = FALSE
  BY DEF Schedule
<1>2. CASE st.running
  <2>1. /\ state'[p] = [st EXCEPT !.wake = FALSE, !.pending = TRUE]
        /\ loop' = lp
        /\ \A q \in Proc \ {p} : state'[q] = state[q] /\ lost'[q] = lost[q]
    BY <1>2 DEF Schedule
  <2>2. /\ state'[p].running /\ state'[p].pending /\ ~ state'[p].wake
    BY <1>2, <2>1 DEF State
  <2>3. FlightOf(state'[p], loop'[p])
    BY <1>2, <2>1, <2>2 DEF FlightOf
  <2>4. PICK k \in Slot : lp[p][k].pc # "off"
    BY <1>2 DEF FlightOf
  <2>5. lp[p][k].pc \in {"pass", "claim", "handler", "check"}
    BY <2>4 DEF Loops, Loop
  <2>6. Attends(p)'
    BY <2>1, <2>2, <2>5 DEF Attends
  <2>. QED  BY <2>1, <2>2, <2>3, <2>6 DEF Good, Looks, RestOf
<1>3. CASE ~ st.running
  <2>1. /\ state'[p] = [st EXCEPT !.wake = FALSE, !.running = TRUE]
        /\ \A q \in Proc \ {p} : state'[q] = state[q] /\ lost'[q] = lost[q]
    BY <1>3 DEF Schedule
  <2>2. PICK k \in Slot : loop' = [lp EXCEPT ![p][k] = NewLoop]
    BY <1>3 DEF Schedule
  <2>3. /\ loop'[p][k].pc = "pass"
        /\ \A l \in Slot \ {k} : loop'[p][l] = lp[p][l]
        /\ \A q \in Proc \ {p} : loop'[q] = lp[q]
    BY <2>2 DEF Loops, NewLoop
  <2>4. state'[p].running /\ ~ state'[p].wake
    BY <2>1 DEF State
  <2>5. \A l \in Slot : lp[p][l].pc = "off"
    BY <1>3 DEF FlightOf
  <2>6. FlightOf(state'[p], loop'[p])
    BY <2>3, <2>4, <2>5 DEF FlightOf
  <2>7. Attends(p)'
    BY <2>3 DEF Attends
  <2>. QED  BY <2>1, <2>3, <2>4, <2>6, <2>7 DEF Good, Looks, RestOf
<1>. QED  BY <1>2, <1>3

\* A loop that moves on stays the only one.
LEMMA MoveFlight ==
  ASSUME loop \in Loops, NEW p \in Proc, NEW k \in Slot, loop[p][k].pc # "off",
         NEW lps, lps \in Loops, NEW st, FlightOf(st, loop[p]),
         lps[p][k].pc # "off", \A l \in Slot \ {k} : lps[p][l] = loop[p][l]
  PROVE  FlightOf(st, lps[p])
  BY DEF FlightOf

\* What Goto and Ended do to the loops.
LEMMA MoveLoop ==
  ASSUME loop \in Loops, NEW p \in Proc, NEW k \in Slot
  PROVE  /\ \A pc : /\ Goto(p, k, pc)[p][k].pc = pc
                    /\ \A l \in Slot \ {k} : Goto(p, k, pc)[p][l] = loop[p][l]
                    /\ \A q \in Proc \ {p} : Goto(p, k, pc)[q] = loop[q]
         /\ \A r : /\ Ended(p, k, r)[p][k].pc = "check"
                   /\ Ended(p, k, r)[p][k].report = r
                   /\ \A l \in Slot \ {k} : Ended(p, k, r)[p][l] = loop[p][l]
                   /\ \A q \in Proc \ {p} : Ended(p, k, r)[q] = loop[q]
<1>1. loop[p][k] \in Loop
  BY DEF Loops
<1>2. \A l \in Loop : \A pc : [l EXCEPT !.pc = pc].pc = pc
  BY DEF Loop
<1>. QED  BY <1>1, <1>2 DEF Loops, Goto, Ended

\* What a step of a process that calls schedule does to all of them.
LEMMA PokedGood ==
  ASSUME TypeOK, \A q \in Proc : Good(q), NEW p \in Proc, NEW st \in State,
         NEW lp \in Loops, Schedule(p, st, lp), FlightOf(st, lp[p]),
         \A q \in Proc \ {p} : lp[q] = loop[q],
         \A q \in Proc \ {p} : Enqueued(q)' => Enqueued(q)
  PROVE  \A q \in Proc : Good(q)'
<1>1. Good(p)'
  BY ScheduleGood DEF TypeOK
<1>2. ASSUME NEW q \in Proc \ {p} PROVE Good(q)'
  <2>1. state'[q] = state[q] /\ loop'[q] = loop[q] /\ lost'[q] = lost[q]
    BY ScheduleGood DEF TypeOK
  <2>. QED  BY <2>1, OtherGood
<1>. QED  BY <1>1, <1>2

\* What a step that moves one loop, without a call of schedule, does to them.
LEMMA MovedGood ==
  ASSUME TypeOK, TypeOK', \A q \in Proc : Good(q), NEW p \in Proc, NEW k \in Slot,
         loop[p][k].pc # "off", loop'[p][k].pc # "off",
         \A l \in Slot \ {k} : loop'[p][l] = loop[p][l],
         \A q \in Proc \ {p} : loop'[q] = loop[q] /\ state'[q] = state[q],
         state'[p].running = state[p].running, state'[p].wake = state[p].wake,
         state'[p].waiters = state[p].waiters,
         state'[p].pending => state[p].pending,
         Looks(p)', lost' = lost,
         \A q \in Proc \ {p} : Enqueued(q)' => Enqueued(q)
  PROVE  \A q \in Proc : Good(q)'
<1>1. FlightOf(state[p], loop'[p])
  BY MoveFlight DEF TypeOK, Loops, Good
<1>2. FlightOf(state'[p], loop'[p])
  BY <1>1 DEF FlightOf
<1>3. RestOf(state'[p])
  BY DEF Good, RestOf
<1>4. \A q \in Proc \ {p} : Good(q)'
  BY OtherGood
<1>. QED  BY <1>2, <1>3, <1>4 DEF Good

\* Each step of a process keeps the invariant of every scheduler.
LEMMA StepGood ==
  ASSUME TypeOK, TypeOK', \A q \in Proc : Good(q), NEW p \in Proc, Step(p)
  PROVE  \A q \in Proc : Good(q)'
<1>a. /\ state[p] \in State /\ loop \in Loops /\ loop' \in Loops
      /\ queue \in Seq(Member) /\ queue' \in Seq(Member)
      /\ <<p, 0>> \in Worker /\ p \in Member
  BY Workers DEF TypeOK, Loops, Member
<1>b. Good(p) /\ FlightOf(state[p], loop[p])
  BY DEF Good
<1>c. \A q : Enqueued(q) <=> Has(queue, q)
  BY DEF Enqueued, Has
<1>d. \A q : Enqueued(q)' <=> Has(queue', q)
  BY DEF Enqueued, Has
<1>e. ASSUME queue' = Append(queue, p)
      PROVE  \A q \in Proc \ {p} : Enqueued(q)' => Enqueued(q)
  BY <1>a, <1>c, <1>d, <1>e, AppendHas
<1>f. ASSUME UNCHANGED queue
      PROVE  \A q \in Proc : Enqueued(q)' => Enqueued(q)
  BY <1>f DEF Enqueued
<1>1. CASE Open(p)
  <2>. DEFINE st == [state[p] EXCEPT !.seen = TRUE]
  <2>1. st \in State /\ FlightOf(st, loop[p])
    BY <1>a, <1>b, StateTypes DEF FlightOf, State
  <2>2. UNCHANGED queue
    BY <1>1 DEF Open
  <2>3. CASE Schedule(p, st, loop)
    BY <2>1, <2>2, <2>3, <1>a, <1>f, PokedGood
  <2>4. CASE state' = [state EXCEPT ![p] = st] /\ UNCHANGED <<loop, lost>>
    <3>1. /\ state'[p] = st
          /\ \A q \in Proc \ {p} : state'[q] = state[q]
      BY <2>4 DEF TypeOK
    <3>2. /\ st.running = state[p].running /\ st.pending = state[p].pending
          /\ st.wake = state[p].wake /\ st.waiters = state[p].waiters
      BY <1>a DEF State
    <3>3. Good(p)'
      BY <3>1, <3>2, <2>2, <2>4, <1>b, <1>f DEF Good, FlightOf, RestOf, Looks, Attends
    <3>4. \A q \in Proc \ {p} : Good(q)'
      BY <3>1, <2>2, <2>4, <1>f, OtherGood
    <3>. QED  BY <3>3, <3>4
  <2>. QED  BY <1>1, <2>3, <2>4 DEF Open
<1>2. CASE Enqueue(p)
  BY <1>2, <1>a, <1>b, <1>e, PokedGood DEF Enqueue
<1>3. CASE Fire(p)
  BY <1>3, <1>a, <1>b, <1>f, PokedGood DEF Fire
<1>4. CASE DrainSettled(p)
  <2>1. /\ state'[p] = [state[p] EXCEPT !.waiters = @ + 1]
        /\ \A q \in Proc \ {p} : state'[q] = state[q]
    BY <1>4 DEF DrainSettled, TypeOK
  <2>2. /\ state'[p].running = state[p].running /\ state'[p].pending = state[p].pending
        /\ state'[p].wake = state[p].wake
    BY <2>1, <1>a DEF State
  <2>3. UNCHANGED <<queue, loop, lost>>
    BY <1>4 DEF DrainSettled
  <2>4. Good(p)'
    BY <2>2, <2>3, <1>4, <1>b, <1>f DEF Good, FlightOf, RestOf, Looks, Attends, DrainSettled
  <2>5. \A q \in Proc \ {p} : Good(q)'
    BY <2>1, <2>3, <1>f, OtherGood
  <2>. QED  BY <2>4, <2>5
<1>5. CASE \E k \in Slot : StartPass(p, k)
  <2>. PICK k \in Slot : StartPass(p, k)
    BY <1>5
  <2>1. /\ state'[p] = [state[p] EXCEPT !.pending = FALSE]
        /\ \A q \in Proc \ {p} : state'[q] = state[q]
    BY DEF StartPass, TypeOK
  <2>2. /\ state'[p].running = state[p].running /\ ~ state'[p].pending
        /\ state'[p].wake = state[p].wake /\ state'[p].waiters = state[p].waiters
    BY <2>1, <1>a DEF State
  <2>3. /\ loop[p][k].pc = "pass" /\ loop' = Goto(p, k, "claim")
        /\ UNCHANGED <<queue, lost>>
    BY DEF StartPass
  <2>4. /\ loop'[p][k].pc = "claim"
        /\ \A l \in Slot \ {k} : loop'[p][l] = loop[p][l]
        /\ \A q \in Proc \ {p} : loop'[q] = loop[q]
    BY <2>3, <1>a, MoveLoop
  <2>5. Looks(p)'
    BY <2>4 DEF Looks, Attends
  <2>. QED  BY <2>1, <2>2, <2>3, <2>4, <2>5, <1>f, MovedGood
<1>6. CASE \E k \in Slot : Claim(p, k)
  <2>. PICK k \in Slot : Claim(p, k)
    BY <1>6
  <2>0. UNCHANGED <<state, lost>> /\ loop[p][k].pc = "claim"
    BY DEF Claim
  <2>1. CASE queue = <<>> /\ loop' = Ended(p, k, "empty") /\ UNCHANGED queue
    <3>1. /\ loop'[p][k].pc = "check"
          /\ \A l \in Slot \ {k} : loop'[p][l] = loop[p][l]
          /\ \A q \in Proc \ {p} : loop'[q] = loop[q]
      BY <2>1, <1>a, MoveLoop
    <3>2. Looks(p)'
      BY <2>1 DEF Looks, Enqueued
    <3>. QED  BY <3>1, <3>2, <2>0, <2>1, <1>f, MovedGood
  <2>2. CASE loop' = Goto(p, k, "handler") /\ UNCHANGED queue
    <3>1. /\ loop'[p][k].pc = "handler"
          /\ \A l \in Slot \ {k} : loop'[p][l] = loop[p][l]
          /\ \A q \in Proc \ {p} : loop'[q] = loop[q]
      BY <2>2, <1>a, MoveLoop
    <3>2. Looks(p)'
      BY <3>1 DEF Looks, Attends
    <3>. QED  BY <3>1, <3>2, <2>0, <2>2, <1>f, MovedGood
  <2>3. CASE loop' = Ended(p, k, "in_flight") /\ UNCHANGED queue
    <3>1. /\ loop'[p][k].pc = "check" /\ loop'[p][k].report = "in_flight"
          /\ \A l \in Slot \ {k} : loop'[p][l] = loop[p][l]
          /\ \A q \in Proc \ {p} : loop'[q] = loop[q]
      BY <2>3, <1>a, MoveLoop
    <3>2. Looks(p)'
      BY <3>1 DEF Looks, Attends
    <3>. QED  BY <3>1, <3>2, <2>0, <2>3, <1>f, MovedGood
  <2>4. CASE queue # <<>> /\ Expire /\ UNCHANGED loop
    <3>1. \A q : Has(queue', q) => Has(queue, q)
      BY <2>4, <1>a, ExpireHas
    <3>. QED  BY <3>1, <2>0, <2>4, <1>c, <1>d, OtherGood
  <2>. QED  BY <2>1, <2>2, <2>3, <2>4 DEF Claim
<1>7. CASE \E k \in Slot : Handled(p, k)
  <2>. PICK k \in Slot : Handled(p, k)
    BY <1>7
  <2>1. /\ loop[p][k].pc = "handler" /\ loop' = Goto(p, k, "claim")
        /\ UNCHANGED <<state, lost>> /\ Complete(<<p, k>>, FALSE) /\ <<p, k>> \in Worker
    BY Workers DEF Handled
  <2>2. /\ loop'[p][k].pc = "claim"
        /\ \A l \in Slot \ {k} : loop'[p][l] = loop[p][l]
        /\ \A q \in Proc \ {p} : loop'[q] = loop[q]
    BY <2>1, <1>a, MoveLoop
  <2>3. Looks(p)'
    BY <2>2 DEF Looks, Attends
  <2>4. \A q : Has(queue', q) => Has(queue, q)
    BY <2>1, <1>a, CompleteHas DEF Member
  <2>. QED  BY <2>1, <2>2, <2>3, <2>4, <1>c, <1>d, MovedGood
<1>8. CASE \E k \in Slot : HandledWithFollowUp(p, k)
  <2>. PICK k \in Slot : HandledWithFollowUp(p, k)
    BY <1>8
  <2>. DEFINE lp == Goto(p, k, "claim")
  <2>1. /\ loop[p][k].pc = "handler" /\ Schedule(p, state[p], lp)
        /\ Complete(<<p, k>>, TRUE) /\ <<p, k>> \in Worker
    BY Workers DEF HandledWithFollowUp
  <2>2. /\ lp \in Loops /\ lp[p][k].pc = "claim"
        /\ \A l \in Slot \ {k} : lp[p][l] = loop[p][l]
        /\ \A q \in Proc \ {p} : lp[q] = loop[q]
    <3>1. lp \in Loops
      BY <1>a, LoopTypes
    <3>. QED  BY <3>1, <1>a, MoveLoop
  <2>3. FlightOf(state[p], lp[p])
    BY <2>1, <2>2, <1>a, <1>b, MoveFlight
  <2>4. \A q : Has(queue', q) => Has(queue, q) \/ q = p
    <3>1. \A q : Has(queue', q) => Has(queue, q) \/ (TRUE /\ q = <<p, k>>[1])
      BY <2>1, <1>a, CompleteHas, Zenon
    <3>. QED  BY <3>1
  <2>. QED  BY <2>1, <2>2, <2>3, <2>4, <1>a, <1>c, <1>d, PokedGood
<1>9. CASE \E k \in Slot : DrainFails(p, k)
  <2>. PICK k \in Slot : DrainFails(p, k)
    BY <1>9
  <2>1. /\ loop[p][k].pc # "off" /\ loop' = Ended(p, k, "failed")
        /\ UNCHANGED <<queue, state, lost>>
    BY DEF DrainFails
  <2>2. /\ loop'[p][k].pc = "check" /\ loop'[p][k].report = "failed"
        /\ \A l \in Slot \ {k} : loop'[p][l] = loop[p][l]
        /\ \A q \in Proc \ {p} : loop'[q] = loop[q]
    BY <2>1, <1>a, MoveLoop
  <2>3. Looks(p)'
    BY <2>2 DEF Looks, Attends
  <2>. QED  BY <2>1, <2>2, <2>3, <1>f, MovedGood
<1>10. CASE \E k \in Slot : Check(p, k)
  <2>. PICK k \in Slot : Check(p, k)
    BY <1>10
  <2>0. loop[p][k].pc = "check" /\ UNCHANGED queue /\ state[p].running
    BY <1>b DEF Check, FlightOf
  <2>1. CASE state[p].pending
    <3>1. loop' = [loop EXCEPT ![p][k] = NewLoop] /\ UNCHANGED <<state, lost>>
      BY <2>1 DEF Check
    <3>2. /\ loop'[p][k].pc = "pass"
          /\ \A l \in Slot \ {k} : loop'[p][l] = loop[p][l]
          /\ \A q \in Proc \ {p} : loop'[q] = loop[q]
      BY <3>1, <1>a DEF NewLoop, Loops
    <3>3. Looks(p)'
      BY <3>2 DEF Looks, Attends
    <3>. QED  BY <3>1, <3>2, <3>3, <2>0, <1>f, MovedGood
  <2>2. CASE ~ state[p].pending
    <3>. DEFINE rest == [state[p] EXCEPT !.running = FALSE]
                inFlight == loop[p][k].report = "in_flight"
    <3>0. ~ state[p].wake
      BY <2>0, <1>b DEF Good, RestOf
    <3>1. /\ loop' = [loop EXCEPT ![p][k] = NoLoop]
          /\ state'[p] = IF inFlight THEN [rest EXCEPT !.wake = TRUE]
                         ELSE [rest EXCEPT !.waiters = 0]
          /\ \A q \in Proc \ {p} : state'[q] = state[q] /\ lost'[q] = lost[q]
          /\ lost'[p] = (lost[p] \/ loop[p][k].report = "failed")
      BY <2>2, <3>0 DEF Check, TypeOK
    <3>2. /\ loop'[p][k].pc = "off"
          /\ \A l \in Slot \ {k} : loop'[p][l] = loop[p][l]
          /\ \A q \in Proc \ {p} : loop'[q] = loop[q]
      BY <3>1, <1>a DEF NoLoop, Loops
    <3>3. /\ ~ state'[p].running /\ ~ state'[p].pending
          /\ state'[p].wake <=> inFlight
          /\ ~ inFlight => state'[p].waiters = 0
      BY <3>0, <3>1, <2>2, <1>a, SchedulerAssumption DEF State
    <3>4. FlightOf(state'[p], loop'[p])
      BY <3>2, <3>3, <2>0, <1>b DEF FlightOf
    <3>5. RestOf(state'[p])
      BY <3>3, <1>a DEF RestOf
    <3>6. Looks(p)'
      <4>1. ASSUME Enqueued(p), ~ lost'[p], ~ inFlight PROVE FALSE
        <5>1. ~ lost[p] /\ loop[p][k].report # "failed"
          BY <4>1, <3>1
        <5>2. Attends(p)
          BY <4>1, <5>1, <1>b DEF Good, Looks
        <5>3. \A l \in Slot : loop[p][l].pc # "off" => l = k
          BY <2>0, <1>b DEF FlightOf
        <5>. QED  BY <5>1, <5>2, <5>3, <4>1, <2>0, <2>2, <3>0 DEF Attends
      <4>. QED  BY <4>1, <3>3, <2>0, <1>f DEF Looks, Attends
    <3>7. \A q \in Proc \ {p} : Good(q)'
      BY <3>1, <3>2, <2>0, <1>f, OtherGood
    <3>. QED  BY <3>4, <3>5, <3>6, <3>7 DEF Good
  <2>. QED  BY <2>1, <2>2
<1>11. CASE DeriveClaims(p) \/ Derived(p) \/ DeriveFails(p)
  <2>1. UNCHANGED <<state, loop, lost>>
    BY <1>11 DEF DeriveClaims, Derived, DeriveFails
  <2>2. ASSUME NEW q \in Proc PROVE Enqueued(q)' => Enqueued(q)
    <3>1. CASE DeriveClaims(p)
      BY <3>1, <1>d, <1>f, DirectHas DEF DeriveClaims
    <3>2. CASE Derived(p)
      <4>1. Complete(<<p, 0>>, FALSE)
        BY <3>2 DEF Derived
      <4>. QED  BY <4>1, <1>a, <1>c, <1>d, CompleteHas DEF Member
    <3>3. CASE DeriveFails(p)
      BY <3>3, <1>f DEF DeriveFails
    <3>. QED  BY <1>11, <3>1, <3>2, <3>3
  <2>. QED  BY <2>1, <2>2, OtherGood
<1>12. CASE DeriveQueues(p)
  <2>1. Schedule(p, state[p], loop) /\ (queue' = Append(queue, p) \/ UNCHANGED queue)
    BY <1>12 DEF DeriveQueues
  <2>. QED  BY <2>1, <1>a, <1>b, <1>e, <1>f, PokedGood
<1>13. CASE DeriveExpires(p)
  <2>1. Schedule(p, state[p], loop) /\ queue # <<>> /\ Expire
    BY <1>13 DEF DeriveExpires
  <2>2. \A q : Has(queue', q) => Has(queue, q)
    BY <2>1, <1>a, ExpireHas
  <2>. QED  BY <2>1, <2>2, <1>a, <1>b, <1>c, <1>d, PokedGood
<1>14. CASE DerivedWithFollowUp(p)
  <2>1. Schedule(p, state[p], loop) /\ Complete(<<p, 0>>, TRUE)
    BY <1>14 DEF DerivedWithFollowUp
  <2>2. \A q : Has(queue', q) => Has(queue, q) \/ q = p
    <3>1. \A q : Has(queue', q) => Has(queue, q) \/ (TRUE /\ q = <<p, 0>>[1])
      BY <2>1, <1>a, CompleteHas, Zenon
    <3>. QED  BY <3>1
  <2>. QED  BY <2>1, <2>2, <1>a, <1>b, <1>c, <1>d, PokedGood
<1>15. CASE Crash(p) \/ Exit(p)
  <2>1. Gone(p)
    BY <1>15 DEF Crash, Exit
  <2>2. /\ state'[p] = NoState /\ loop'[p] = [k \in Slot |-> NoLoop] /\ lost'[p] = TRUE
        /\ \A q \in Proc \ {p} : /\ state'[q] = state[q] /\ loop'[q] = loop[q]
                                 /\ lost'[q] = lost[q]
        /\ UNCHANGED queue
    BY <2>1 DEF Gone, TypeOK
  <2>3. Good(p)'
    BY <2>2 DEF Good, FlightOf, RestOf, Looks, NoState, NoLoop
  <2>. QED  BY <2>2, <2>3, <1>f, OtherGood
<1>. QED  BY <1>1, <1>2, <1>3, <1>4, <1>5, <1>6, <1>7, <1>8, <1>9, <1>10, <1>11, <1>12,
             <1>13, <1>14, <1>15 DEF Step

\* The invariant holds of processes that have not opened the file.
LEMMA InitGood == Init => IInv
  BY InitType DEF Init, IInv, Good, FlightOf, RestOf, Looks, Enqueued, NoState, NoLoop

\* Every step keeps the invariant.
LEMMA NextGood == IInv /\ [Next]_vars => IInv'
<1>. SUFFICES ASSUME IInv, [Next]_vars PROVE IInv'
  OBVIOUS
<1>0. TypeOK /\ TypeOK' /\ \A q \in Proc : Good(q)
  BY NextType DEF IInv
<1>1. CASE \E p \in Proc : Step(p)
  BY <1>0, <1>1, StepGood DEF IInv
<1>2. CASE Lapse \/ UNCHANGED vars
  <2>1. UNCHANGED <<queue, state, loop, lost>>
    BY <1>2 DEF Lapse, vars
  <2>2. \A q \in Proc : Good(q)'
    BY <2>1, <1>0, OtherGood DEF Enqueued
  <2>. QED  BY <2>2, <1>0 DEF IInv
<1>. QED  BY <1>1, <1>2 DEF Next

\* One loop for each running flag, timers and waiters only where the code can
\* resolve them, and every enqueued item attended to.
THEOREM Invariant == Spec => []IInv
  BY InitGood, NextGood, PTL DEF Spec

\* Single flight: a process never has two drain loops of one thread, however
\* pokes, touches, timers and explicit derives meet in schedule.
THEOREM OneFlight == Spec => []SingleFlight
<1>1. IInv => SingleFlight
  BY DEF IInv, Good, FlightOf, SingleFlight, Active
<1>. QED  BY <1>1, Invariant, PTL

\* No lost wake-up: what a process enqueued is looked for by its scheduler,
\* unless the process died or its last drain failed.
THEOREM WakeUps == Spec => []NoLostWakeUp
<1>1. IInv => NoLostWakeUp
  BY DEF IInv, Good, Looks, NoLostWakeUp
<1>. QED  BY <1>1, Invariant, PTL

\* A drainSettled call waits only while runLoop or an armed timer will come to
\* the place that resolves it.
THEOREM Waiters == Spec => []WaitersAreWoken
<1>1. IInv => WaitersAreWoken
  BY DEF IInv, Good, RestOf, WaitersAreWoken
<1>. QED  BY <1>1, Invariant, PTL

\* schedule resolves no waiter and touches one process.
LEMMA ScheduleWaits ==
  ASSUME state \in [Proc -> State], NEW q \in Proc, NEW st \in State, NEW lp,
         Schedule(q, st, lp), NEW p \in Proc, st.waiters = state[q].waiters
  PROVE  state'[p].waiters = state[p].waiters
<1>1. PICK next : next.waiters = st.waiters /\ state' = [state EXCEPT ![q] = next]
  <2>1. CASE st.running
    <3>1. state' = [state EXCEPT ![q] = [st EXCEPT !.wake = FALSE, !.pending = TRUE]]
      BY <2>1 DEF Schedule
    <3> QED  BY <3>1 DEF State
  <2>2. CASE ~ st.running
    <3>1. state' = [state EXCEPT ![q] = [st EXCEPT !.wake = FALSE, !.running = TRUE]]
      BY <2>2 DEF Schedule
    <3> QED  BY <3>1 DEF State
  <2> QED  BY <2>1, <2>2
<1> QED  BY <1>1

\* Waiters are resolved where runLoop ends without a timer, or with the process.
LEMMA Resolves ==
  ASSUME TypeOK, NEW p \in Proc, Good(p), NEW q \in Proc, Step(q),
         state'[p].waiters < state[p].waiters
  PROVE  lost'[p] \/ (~ state'[p].running /\ ~ state'[p].wake)
<1>a. /\ state \in [Proc -> State] /\ state[p] \in State /\ state[q] \in State
      /\ state[p].waiters \in Nat
  BY SchedulerAssumption DEF TypeOK, State
<1>1. state'[p].waiters # state[p].waiters
  BY <1>a
<1>2. ~ Open(q)
  <2>. SUFFICES ASSUME Open(q) PROVE FALSE
    OBVIOUS
  <2>. DEFINE st == [state[q] EXCEPT !.seen = TRUE]
  <2>1. st \in State /\ st.waiters = state[q].waiters
    BY <1>a DEF State
  <2>2. CASE Schedule(q, st, loop)
    BY <2>1, <2>2, <1>a, <1>1, ScheduleWaits
  <2>3. CASE state' = [state EXCEPT ![q] = st]
    BY <2>1, <2>3, <1>a, <1>1
  <2>. QED  BY <2>2, <2>3 DEF Open
<1>3. \A lp : ~ Schedule(q, state[q], lp)
  BY <1>a, <1>1, ScheduleWaits
<1>4. ~ DrainSettled(q)
  <2>. SUFFICES ASSUME DrainSettled(q) PROVE FALSE
    OBVIOUS
  <2>1. state'[p].waiters = IF p = q THEN state[p].waiters + 1 ELSE state[p].waiters
    BY <1>a DEF DrainSettled, State
  <2>. QED  BY <2>1, <1>a
<1>5. \A k \in Slot : ~ StartPass(q, k)
  BY <1>a, <1>1 DEF StartPass, State
<1>6. state' # state
  BY <1>1
<1>7. CASE Crash(q) \/ Exit(q)
  <2>1. Gone(q) /\ lost \in [Proc -> BOOLEAN]
    BY <1>7 DEF Crash, Exit, TypeOK
  <2>. QED  BY <2>1, <1>a, <1>1 DEF Gone
<1>8. CASE \E k \in Slot : Check(q, k)
  <2>. PICK k \in Slot : Check(q, k)
    BY <1>8
  <2>. DEFINE rest == [state[q] EXCEPT !.running = FALSE]
  <2>1. loop[q][k].pc = "check" /\ ~ state[q].pending
    BY <1>6 DEF Check
  <2>2. \/ state' = [state EXCEPT ![q] = [rest EXCEPT !.wake = TRUE]]
        \/ state' = [state EXCEPT ![q] = [rest EXCEPT !.waiters = 0]]
    BY <2>1 DEF Check
  <2>3. p = q
    BY <2>2, <1>a, <1>1
  <2>4. state[p].running /\ ~ state[p].wake
    BY <2>1, <2>3 DEF Good, FlightOf, RestOf
  <2>5. state' = [state EXCEPT ![q] = [rest EXCEPT !.waiters = 0]]
    BY <2>2, <2>3, <1>a, <1>1 DEF State
  <2>. QED  BY <2>3, <2>4, <2>5, <1>a DEF State
<1>9. ~ (Enqueue(q) \/ Fire(q) \/ DeriveQueues(q) \/ DeriveExpires(q) \/ DerivedWithFollowUp(q))
  BY <1>3 DEF Enqueue, Fire, DeriveQueues, DeriveExpires, DerivedWithFollowUp
<1>10. \A k \in Slot : ~ HandledWithFollowUp(q, k)
  BY <1>3 DEF HandledWithFollowUp
<1>11. \A k \in Slot : ~ (Claim(q, k) \/ Handled(q, k) \/ DrainFails(q, k))
  BY <1>6 DEF Claim, Handled, DrainFails
<1>12. ~ (DeriveClaims(q) \/ Derived(q) \/ DeriveFails(q))
  BY <1>6 DEF DeriveClaims, Derived, DeriveFails
<1>. QED  BY <1>2, <1>4, <1>5, <1>7, <1>8, <1>9, <1>10, <1>11, <1>12 DEF Step

\* drainSettled resolves only when all that its process enqueued has left the
\* queue, or the drain failed, or the process went away.
THEOREM Settled == Spec => SettledMeansDrained
<1>1. IInv /\ [Next]_vars =>
        [\A p \in Proc : state'[p].waiters < state[p].waiters
                        => lost'[p] \/ ~ Enqueued(p)']_vars
  <2>. SUFFICES ASSUME IInv, IInv', [Next]_vars, NEW p \in Proc,
                       state'[p].waiters < state[p].waiters, ~ lost'[p], Enqueued(p)'
                PROVE  FALSE
    BY NextGood
  <2>1. state[p].waiters \in Nat /\ state'[p].waiters \in Nat
    BY SchedulerAssumption DEF IInv, TypeOK, State
  <2>2. Attends(p)'
    BY DEF IInv, Good, Looks
  <2>3. PICK q \in Proc : Step(q)
    BY <2>1 DEF Next, Lapse, vars
  <2>4. ~ state'[p].running /\ ~ state'[p].wake
    BY <2>3, Resolves DEF IInv
  <2>5. \A k \in Slot : loop'[p][k].pc = "off"
    BY <2>4 DEF IInv, Good, FlightOf
  <2>. QED  BY <2>2, <2>4, <2>5 DEF Attends
<1>. QED  BY <1>1, Invariant, PTL DEF Spec, SettledMeansDrained

-----------------------------------------------------------------------------
(* Carried work: shapes of the records, as far as the steps look at them.   *)

ItemFields == {"st", "gen", "at", "fence", "known", "pin", "end"}
IsItem(row) ==
  /\ DOMAIN row = ItemFields /\ row.st \in {"none", "active", "unknown", "terminal"}
  /\ row.gen \in Nat /\ row.at \in Nat /\ row.fence \in Nat

IsResult(r) == DOMAIN r = {"to", "end", "art", "note"} /\ r.to \in {"none", "pending", "delivered"}

IsCarry == DOMAIN carry = {"members", "todo", "w"} /\ carry.members \subseteq Works
IsHook == DOMAIN hook = {"pc", "s", "todo", "w", "wrote", "pend"} /\ hook.wrote \in BOOLEAN

Generation == [st : {"open", "closed", "superseded"}, members : SUBSET Works, old : Nat,
               host : {"none", "live", "paused"}]

Shapes ==
  /\ DOMAIN item = Works /\ \A w \in Works : IsItem(item[w])
  /\ DOMAIN result = Works /\ \A w \in Works : IsResult(result[w])
  /\ truth = [w \in Works |-> truth[w]]
  /\ home \in [Works -> Nat]
  /\ gens \in Seq(Generation)
  /\ current \in Nat \ {0}
  /\ IsCarry /\ IsHook

------------------------------------------------------------------------------
(* What is known of one work.                                               *)

\* Before its launch a work has neither row nor result, and a session launched it at some
\* time up to now.
LaunchKnown(w) ==
  /\ truth[w] = "idle" => item[w].st = "none" /\ result[w].to = "none" /\ home[w] = 0
  /\ home[w] <= current /\ item[w].at <= current
  /\ item[w].fence # 0 => family[w] = "monitor"

\* Only the end of a row makes its result, and a row that is open again was made anew.
EndKnown(w) ==
  w \notin again =>
    /\ IsOpen(item[w]) => result[w].to = "none"
    /\ item[w].st = "terminal" /\ result[w].to # "none" => result[w].end = item[w].end

\* A stamped row keeps its generation until its result is there.
StampKnown(w) ==
  /\ w \in stamped => result[w].to # "none" \/ (IsOpen(item[w]) /\ item[w].gen > 0)
  /\ w \in late => result[w].to # "none" \/ (item[w].st = "terminal" /\ item[w].gen > 0)

\* The files a row and its result name. A work whose generation is closed belongs to a
\* session that was left, so the transcript of the current one does not launch it again.
OutputKnown(w) ==
  /\ result[w].to = "none" => result[w].art = "none"
  /\ result[w].art = "copy" => w \in copies
  /\ result[w].art = "relaunch" => \E p \in fences : p[1] = w
  /\ item[w].fence # 0 => <<w, item[w].fence>> \in fences
  /\ Closed(item[w].gen) => home[w] < current
  /\ family[w] = "agent" /\ result[w].art = "copy" => ~IsOpen(item[w]) /\ home[w] < current

NoRestart(w) == \A p \in restarts : p[1] # w

\* A restart that runs is either recorded, or belongs to a row no later seam carries: it has
\* ended, or was verified in a session that was left.
RestartKnown(w) ==
  NoRestart(w) \/
    /\ family[w] = "monitor" /\ truth[w] # "idle" /\ home[w] < current
    /\ item[w].fence # 0 \/ ~IsOpen(item[w]) \/ item[w].at \notin {0, current}

WorkKnown(w) ==
  LaunchKnown(w) /\ EndKnown(w) /\ StampKnown(w) /\ OutputKnown(w) /\ RestartKnown(w)

OnceEach == \A p, q \in restarts : p[1] = q[1] => p = q

------------------------------------------------------------------------------
(* What the wrapper and the hook know of the works they have listed.        *)

\* A member of the seam has an identity, and no restart runs that its row does not name.
MemberKnown(w) ==
  /\ truth[w] # "idle"
  /\ item[w].at # 0 \/ ~IsOpen(item[w])
  /\ item[w].fence = 0 => NoRestart(w)

WrapperKnown ==
  /\ wrapper \in {"seam", "carry", "record"} => gens # <<>>
  /\ wrapper \in {"allocate", "seam"} => \A w \in carry.members : MemberKnown(w)
  /\ wrapper \in {"carry", "record"} =>
       /\ \A w \in Works : home[w] < current /\ item[w].at < current
       /\ \A w \in carry.todo : w \in Works /\ MemberKnown(w)
  /\ wrapper = "record" =>
       \A w \in carry.w : w \in Works /\ family[w] = "monitor" /\ <<w, Latest>> \in fences
  /\ wrapper = "clean" =>
       /\ carry.todo \cap carry.w = {}
       /\ \A w \in carry.todo \cup carry.w : w \in Works /\ item[w].st = "terminal"
       /\ \A w \in carry.w : result[w].to # "none" /\ result[w].art = "copy"

\* An agent the hook has listed has no copy yet, and the one it records was handed over.
HookKnown ==
  /\ hook.todo \cap hook.w = {} /\ (hook.pc \notin {"record", "attach"} => hook.w = {})
  /\ \A w \in hook.todo :
       w \in Works /\ truth[w] # "idle" /\ (family[w] = "agent" => result[w].art # "copy")
  /\ \A w \in hook.w :
       /\ w \in Works /\ family[w] = "agent" /\ truth[w] # "idle" /\ home[w] < current
       /\ result[w].art # "copy" /\ (hook.wrote => w \in copies)
       /\ hook.pc = "attach" => hook.wrote /\ ~IsOpen(item[w])

CarriedInv ==
  /\ Shapes
  /\ \A w \in Works : WorkKnown(w)
  /\ OnceEach
  /\ WrapperKnown
  /\ HookKnown

------------------------------------------------------------------------------
(* How a row moves when its end is seen or it is verified.                  *)

\* The row of w stays, or, being open, turns into one with the same generation and restart.
Turns(w, old, new) ==
  \/ new = old
  \/ /\ IsOpen(old) /\ IsItem(new) /\ new.st # "none"
     /\ new.gen = old.gen /\ new.fence = old.fence
     /\ new.at = old.at \/ (old.at \in {0, IdentityNow(w)} /\ new.at = IdentityNow(w))

\* The rows turn and leave the results their ends make.
RowMoves(w) ==
  /\ Turns(w, item[w], item'[w])
  /\ IF IsOpen(item[w]) /\ item'[w].st = "terminal" /\ item'[w].gen > 0 /\ result[w].to = "none"
     THEN /\ IsResult(result'[w]) /\ result'[w].to = "pending" /\ result'[w].end = item'[w].end
          /\ result'[w].art = ArtifactOf(w, item'[w])
     ELSE result'[w] = result[w]

RowsMove ==
  /\ DOMAIN item' = Works /\ DOMAIN result' = Works /\ \A w \in Works : RowMoves(w)
  /\ UNCHANGED <<family, truth, home, current, gens, stampVars>>

SameIdentity == \A w \in Works : item'[w].at = item[w].at

LEMMA EndTurns ==
  ASSUME NEW w, NEW row, IsItem(row), NEW end
  PROVE  Turns(w, row, EndedRow(row, end)) /\ EndedRow(row, end).at = row.at
BY DEF IsItem, ItemFields, EndedRow, Turns, IsOpen

LEMMA ResultMoves ==
  ASSUME NEW w \in Works, NEW row, NEW note, IsResult(result[w])
  PROVE  IF IsOpen(item[w]) /\ row.st = "terminal" /\ row.gen > 0 /\ result[w].to = "none"
         THEN /\ IsResult(ResultOf(w, row, note)) /\ ResultOf(w, row, note).to = "pending"
              /\ ResultOf(w, row, note).end = row.end
              /\ ResultOf(w, row, note).art = ArtifactOf(w, row)
         ELSE ResultOf(w, row, note) = result[w]
<1> DEFINE art == ArtifactOf(w, row)
<1> HIDE DEF art
<1>1. ResultOf(w, row, note) =
        IF IsOpen(item[w]) /\ row.st = "terminal" /\ row.gen > 0 /\ result[w].to = "none"
        THEN [to |-> "pending", end |-> row.end, art |-> art, note |-> note] ELSE result[w]
  BY DEF ResultOf, art
<1>2. LET r == [to |-> "pending", end |-> row.end, art |-> art, note |-> note]
      IN DOMAIN r = {"to", "end", "art", "note"} /\ r.to = "pending" /\ r.end = row.end /\ r.art = art
  OBVIOUS
<1> QED BY <1>1, <1>2 DEF IsResult, art

\* recordTerminal of one work.
LEMMA RecordTerminalMoves ==
  ASSUME Shapes, NEW w \in Works, NEW end, NEW note, RecordTerminal(w, end, note),
         UNCHANGED <<family, truth, home, current, stampVars>>
  PROVE  RowsMove /\ SameIdentity
<1> DEFINE row == EndedRow(item[w], end)
<1>1. IsItem(item[w]) /\ IsResult(result[w]) BY DEF Shapes
<1>2. Turns(w, item[w], row) /\ row.at = item[w].at BY <1>1, EndTurns
<1>3. item' = [item EXCEPT ![w] = row] /\ result' = [result EXCEPT ![w] = ResultOf(w, row, note)] /\ gens' = gens
  BY DEF RecordTerminal
<1> HIDE DEF row
<1>4. DOMAIN item' = Works /\ DOMAIN result' = Works BY <1>3 DEF Shapes
<1>5. item'[w] = row /\ result'[w] = ResultOf(w, row, note) BY <1>3 DEF Shapes
<1>6. RowMoves(w) BY <1>1, <1>2, <1>5, ResultMoves DEF RowMoves
<1>7. ASSUME NEW v \in Works, v # w PROVE RowMoves(v)
  <2>1. item'[v] = item[v] /\ result'[v] = result[v] BY <1>3, <1>7 DEF Shapes
  <2>2. ~(IsOpen(item[v]) /\ item[v].st = "terminal") BY DEF IsOpen
  <2> QED BY <2>1, <2>2 DEF RowMoves, Turns
<1>8. SameIdentity BY <1>2, <1>3 DEF SameIdentity, Shapes
<1> QED BY <1>3, <1>4, <1>6, <1>7, <1>8 DEF RowsMove

LEMMA ReconcileTurns ==
  ASSUME Shapes, NEW w \in Works, NEW readable
  PROVE  Turns(w, item[w], Reconciled(w, readable)) /\ Reconciled(w, readable).at = item[w].at
<1> DEFINE verdict == ShellVerdict(w, readable)
<1> HIDE DEF verdict
<1>1. IsItem(item[w]) BY DEF Shapes
<1>2. Reconciled(w, readable) = IF ~Adopted(w) \/ verdict = "keep" THEN item[w]
        ELSE IF verdict = "unknown" THEN [item[w] EXCEPT !.st = "unknown"]
        ELSE EndedRow(item[w], verdict)
  BY DEF Reconciled, verdict
<1> QED BY <1>1, <1>2 DEF IsItem, ItemFields, Turns, IsOpen, Adopted, EndedRow

LEMMA QualifyTurns ==
  ASSUME NEW w \in Works, NEW row, IsItem(row), NEW found, NEW pins, IdentityNow(w) \in Nat
  PROVE  Turns(w, row, Qualified(w, row, found, pins))
BY DEF IsItem, ItemFields, Turns, IsOpen, EndedRow, Qualified

------------------------------------------------------------------------------
(* Steps whose rows turn, and steps that leave the rows.                    *)

\* Files only come and restarts only go.
FilesStay == copies \subseteq copies' /\ fences \subseteq fences' /\ restarts' \subseteq restarts

LEMMA MovedIsKnown ==
  ASSUME Shapes, NEW w \in Works, WorkKnown(w), RowsMove, FilesStay
  PROVE  WorkKnown(w)'
<1>1. IsItem(item[w]) /\ IsItem(item'[w]) /\ IsResult(result[w]) /\ IsResult(result'[w])
  BY DEF Shapes, RowsMove, RowMoves, Turns
<1>2. current \in Nat \ {0} /\ IdentityNow(w) \in {1, current} BY DEF Shapes, IdentityNow
<1>3. Turns(w, item[w], item'[w]) BY DEF RowsMove, RowMoves
<1>4. /\ item'[w].st = "none" <=> item[w].st = "none"
      /\ IsOpen(item'[w]) => IsOpen(item[w])
      /\ item'[w].gen = item[w].gen /\ item'[w].fence = item[w].fence
      /\ item'[w].st # "none" => IsOpen(item'[w]) \/ item'[w].st = "terminal"
  BY <1>1, <1>3 DEF Turns, IsOpen, IsItem
<1>5. /\ result'[w].to = "none" => result'[w] = result[w]
      /\ result[w].to # "none" => result'[w] = result[w]
      /\ IsOpen(item'[w]) => result'[w] = result[w]
      /\ IsOpen(item[w]) /\ item'[w].st = "terminal" /\ item'[w].gen > 0 => result'[w].to # "none"
      /\ result'[w] # result[w] => /\ item'[w].st = "terminal" /\ result'[w].end = item'[w].end
                                   /\ result'[w].art = ArtifactOf(w, item'[w])
  BY <1>1 DEF RowsMove, RowMoves, IsOpen, IsResult
<1>6. LaunchKnown(w)'
  BY <1>1, <1>2, <1>3, <1>4, <1>5 DEF WorkKnown, LaunchKnown, RowsMove, Turns, IsItem, IsOpen
<1>7. EndKnown(w)'
  BY <1>1, <1>3, <1>4, <1>5 DEF WorkKnown, EndKnown, RowsMove, stampVars, Turns, IsOpen, IsResult
<1>8. StampKnown(w)'
  BY <1>1, <1>3, <1>4, <1>5 DEF WorkKnown, StampKnown, RowsMove, stampVars, Turns, IsOpen, IsItem
<1>9. OutputKnown(w)'
  <2>1. result'[w].to = "none" => result'[w].art = "none" BY <1>5 DEF WorkKnown, OutputKnown
  <2>2. result'[w].art = "copy" => result'[w] = result[w] BY <1>5 DEF ArtifactOf
  <2>3. item'[w].fence # 0 => <<w, item'[w].fence>> \in fences' BY <1>4 DEF WorkKnown, OutputKnown, FilesStay
  <2>4. result'[w].art = "relaunch" => \E p \in fences' : p[1] = w
    <3>1. CASE result'[w] = result[w] BY <3>1 DEF WorkKnown, OutputKnown, FilesStay
    <3>2. CASE result'[w] # result[w]
      BY <3>2, <1>5, <2>3 DEF ArtifactOf
    <3> QED BY <3>1, <3>2
  <2>5. Closed(item[w].gen)' => home'[w] < current'
    BY <1>4 DEF WorkKnown, OutputKnown, RowsMove, Closed
  <2>6. (family[w] = "agent")' /\ result'[w].art = "copy" => ~IsOpen(item'[w]) /\ home'[w] < current'
    BY <1>4, <2>2 DEF WorkKnown, OutputKnown, RowsMove
  <2> QED BY <2>1, <2>2, <2>3, <2>4, <2>5, <2>6 DEF WorkKnown, OutputKnown, FilesStay
<1>10. RestartKnown(w)'
  BY <1>1, <1>2, <1>3, <1>4
     DEF WorkKnown, RestartKnown, NoRestart, RowsMove, FilesStay, Turns, IdentityNow
<1> QED BY <1>6, <1>7, <1>8, <1>9, <1>10 DEF WorkKnown

LEMMA MovedMember ==
  ASSUME Shapes, NEW w \in Works, MemberKnown(w), RowsMove, FilesStay
  PROVE  MemberKnown(w)'
<1>1. current \in Nat \ {0} /\ IdentityNow(w) \in {1, current} BY DEF Shapes, IdentityNow
<1>2. Turns(w, item[w], item'[w]) BY DEF RowsMove, RowMoves
<1> QED BY <1>1, <1>2 DEF MemberKnown, NoRestart, RowsMove, FilesStay, Turns

LEMMA MovedShapes ==
  ASSUME Shapes, RowsMove, IsCarry', IsHook'
  PROVE  Shapes'
<1>1. \A w \in Works : IsItem(item'[w]) /\ IsResult(result'[w])
  BY DEF Shapes, RowsMove, RowMoves, Turns
<1> QED BY <1>1 DEF Shapes, RowsMove

\* A step of another process: what the hook and the wrapper know of their lists stays.
LEMMA MovedLists ==
  ASSUME CarriedInv, RowsMove, SameIdentity, FilesStay
  PROVE  /\ UNCHANGED <<wrapper, carry>> => WrapperKnown'
         /\ UNCHANGED hook => HookKnown'
<1>1. Shapes /\ WrapperKnown /\ HookKnown BY DEF CarriedInv
<1>2. \A w \in Works : ~IsOpen(item[w]) => item'[w] = item[w] /\ result'[w] = result[w]
  BY DEF RowsMove, RowMoves, Turns, IsOpen
<1>3. \A w \in Works : result'[w].art = "copy" => result'[w] = result[w]
  BY DEF RowsMove, RowMoves, ArtifactOf
<1>4. \A w \in Works : MemberKnown(w) => MemberKnown(w)' BY <1>1, MovedMember
<1>5. ASSUME UNCHANGED <<wrapper, carry>> PROVE WrapperKnown'
  <2>1. gens' = gens /\ current' = current /\ home' = home /\ family' = family /\ carry.members \subseteq Works
    BY <1>1 DEF RowsMove, Shapes, IsCarry
  <2>2. \A w \in Works : item[w].st = "terminal" => item'[w] = item[w] /\ result'[w] = result[w]
    BY <1>2 DEF IsOpen
  <2> QED BY <1>1, <1>4, <1>5, <2>1, <2>2 DEF WrapperKnown, Latest, SameIdentity, FilesStay
<1>6. ASSUME UNCHANGED hook PROVE HookKnown'
  BY <1>1, <1>2, <1>3, <1>6 DEF HookKnown, RowsMove, FilesStay
<1> QED BY <1>5, <1>6

\* Rows that turn, seen whole: all that is left to a step is its wrapper and its hook.
LEMMA MovedInv ==
  ASSUME CarriedInv, RowsMove, FilesStay, IsCarry', IsHook', WrapperKnown', HookKnown'
  PROVE  CarriedInv'
<1>1. Shapes /\ \A w \in Works : WorkKnown(w) BY DEF CarriedInv
<1>2. Shapes' BY <1>1, MovedShapes
<1>3. \A w \in Works : WorkKnown(w)' BY <1>1, MovedIsKnown
<1>4. OnceEach' BY DEF CarriedInv, OnceEach, FilesStay
<1> QED BY <1>2, <1>3, <1>4 DEF CarriedInv

\* Steps that leave the rows and their results as they are, and close a generation only
\* when the sessions of its works were left.
RowsStay ==
  /\ UNCHANGED <<family, item, result, home, current, stampVars>>
  /\ gens' \in Seq(Generation)
  /\ \A w \in Works : Closed(item[w].gen)' => Closed(item[w].gen) \/ home[w] < current
  /\ truth' = [w \in Works |-> truth'[w]]
  /\ \A w \in Works : truth'[w] = "idle" <=> truth[w] = "idle"

LEMMA StayedIsKnown ==
  ASSUME NEW w \in Works, WorkKnown(w), RowsStay, FilesStay
  PROVE  WorkKnown(w)'
<1>1. LaunchKnown(w)' BY DEF WorkKnown, LaunchKnown, RowsStay
<1>2. EndKnown(w)' /\ StampKnown(w)' BY DEF WorkKnown, EndKnown, StampKnown, RowsStay, stampVars
<1>3. OutputKnown(w)' BY DEF WorkKnown, OutputKnown, Closed, RowsStay, FilesStay
<1>4. RestartKnown(w)' BY DEF WorkKnown, RestartKnown, NoRestart, RowsStay, FilesStay
<1> QED BY <1>1, <1>2, <1>3, <1>4 DEF WorkKnown

LEMMA StayedInv ==
  ASSUME CarriedInv, RowsStay, FilesStay, IsCarry', IsHook', WrapperKnown', HookKnown'
  PROVE  CarriedInv'
<1>1. Shapes BY DEF CarriedInv
<1>2. Shapes' BY <1>1 DEF Shapes, RowsStay
<1>3. \A w \in Works : WorkKnown(w)' BY StayedIsKnown DEF CarriedInv
<1>4. OnceEach' BY DEF CarriedInv, OnceEach, FilesStay
<1> QED BY <1>2, <1>3, <1>4 DEF CarriedInv

LEMMA StayedLists ==
  ASSUME CarriedInv, RowsStay, FilesStay
  PROVE  /\ UNCHANGED <<wrapper, carry>> /\ Len(gens') = Len(gens) => WrapperKnown'
         /\ UNCHANGED hook => HookKnown'
         /\ \A w \in Works : MemberKnown(w) => MemberKnown(w)'
<1>1. Shapes /\ WrapperKnown /\ HookKnown BY DEF CarriedInv
<1>2. \A w \in Works : MemberKnown(w) => MemberKnown(w)'
  BY DEF MemberKnown, NoRestart, RowsStay, FilesStay
<1>3. ASSUME UNCHANGED <<wrapper, carry>>, Len(gens') = Len(gens) PROVE WrapperKnown'
  <2>1. carry.members \subseteq Works BY <1>1 DEF Shapes, IsCarry
  <2>2. gens # <<>> => gens' # <<>> BY <1>1, <1>3 DEF Shapes, RowsStay
  <2> QED BY <2>2, <1>1, <1>2, <1>3, <2>1 DEF WrapperKnown, Latest, RowsStay, FilesStay
<1>4. ASSUME UNCHANGED hook PROVE HookKnown'
  BY <1>1, <1>4 DEF HookKnown, RowsStay, FilesStay
<1> QED BY <1>2, <1>3, <1>4

------------------------------------------------------------------------------
(* The steps that end or verify rows.                                       *)

\* The hook goes on to the next row of its list.
LEMMA HookPassesOn ==
  ASSUME CarriedInv, RowsMove, FilesStay, NEW w, hook' = [hook EXCEPT !.todo = @ \ {w}]
  PROVE  HookKnown' /\ IsHook'
<1>1. Shapes /\ HookKnown BY DEF CarriedInv
<1>2. IsHook' /\ hook'.todo = hook.todo \ {w} /\ hook'.w = hook.w /\ hook'.wrote = hook.wrote /\ hook'.pc = hook.pc
  BY <1>1 DEF Shapes, IsHook
<1>3. \A v \in Works : result'[v].art = "copy" => result'[v] = result[v]
  BY DEF RowsMove, RowMoves, ArtifactOf
<1>4. \A v \in Works : ~IsOpen(item[v]) => item'[v] = item[v]
  BY DEF RowsMove, RowMoves, Turns
<1> QED BY <1>1, <1>2, <1>3, <1>4 DEF HookKnown, RowsMove, FilesStay

LEMMA SeeEndKeeps ==
  ASSUME CarriedInv, NEW w \in Works, SeeEnd(w) PROVE CarriedInv'
<1>1. RowsMove /\ SameIdentity /\ FilesStay
  BY RecordTerminalMoves DEF CarriedInv, SeeEnd, FilesStay, outputVars, workVars, asideVars
<1>2. UNCHANGED <<wrapper, carry, hook>> BY DEF SeeEnd
<1>3. IsCarry' /\ IsHook' BY <1>2 DEF CarriedInv, Shapes, IsCarry, IsHook
<1> QED BY <1>1, <1>2, <1>3, MovedLists, MovedInv

LEMMA CarryOverKeeps ==
  ASSUME CarriedInv, NEW w \in Works, CarryOver(w) PROVE CarriedInv'
<1>1. UNCHANGED <<family, copies, restarts, inFolder, workVars, wrapper, hook, toldVars, asideVars>>
  BY DEF CarryOver
<1>2. fences \subseteq fences' BY DEF CarryOver
<1>3. FilesStay BY <1>1, <1>2 DEF FilesStay
<1>4. wrapper = "carry" /\ Carries(w) BY DEF CarryOver
<1>5. Shapes BY DEF CarriedInv
<1>6. carry'.members = carry.members /\ carry'.todo = carry.todo \ {w} /\ carry'.w = carry.w /\ IsCarry'
  BY <1>4, <1>5 DEF Carries, Shapes, IsCarry
<1>7. RowsMove /\ SameIdentity
  <2>1. UNCHANGED carriedStore \/ (\E end : RecordTerminal(w, end, "none")) BY DEF CarryOver
  <2>2. CASE UNCHANGED carriedStore
    BY <1>1, <1>5, <2>2
       DEF carriedStore, workVars, asideVars, RowsMove, RowMoves, Turns, SameIdentity, IsOpen, Shapes
  <2>3. ASSUME NEW end, RecordTerminal(w, end, "none") PROVE RowsMove /\ SameIdentity
    BY <1>1, <1>5, <2>3, RecordTerminalMoves DEF workVars, asideVars
  <2> QED BY <2>1, <2>2, <2>3
<1>8. IsHook' /\ HookKnown' BY <1>1, <1>3, <1>5, <1>7, MovedLists DEF Shapes, IsHook
<1>9. WrapperKnown'
  <2>1. WrapperKnown BY DEF CarriedInv
  <2>2. \A v \in Works : MemberKnown(v) => MemberKnown(v)' BY <1>3, <1>5, <1>7, MovedMember
  <2> QED BY <1>1, <1>4, <1>6, <1>7, <2>1, <2>2 DEF WrapperKnown, RowsMove, SameIdentity
<1> QED BY <1>3, <1>6, <1>7, <1>8, <1>9, MovedInv

LEMMA HookRecordsAnswerKeeps ==
  ASSUME CarriedInv, NEW w \in Works, HookRecordsAnswer(w) PROVE CarriedInv'
<1>1. UNCHANGED <<family, outputVars, workVars, wrapper, carry, toldVars, asideVars>>
  BY DEF HookRecordsAnswer
<1>2. Shapes /\ HookKnown /\ FilesStay BY <1>1 DEF CarriedInv, FilesStay, outputVars
<1>3. RowsMove /\ SameIdentity
  BY <1>1, <1>2, RecordTerminalMoves DEF HookRecordsAnswer, workVars, asideVars
<1>4. IsCarry' /\ WrapperKnown' BY <1>1, <1>2, <1>3, MovedLists DEF Shapes, IsCarry
<1>5. /\ IsHook' /\ hook'.todo = hook.todo /\ hook'.w \subseteq {w} /\ w \in hook.w
      /\ hook'.wrote = hook.wrote /\ (hook'.w # {} => hook.wrote /\ hook'.pc = "attach")
  BY <1>2 DEF HookRecordsAnswer, Shapes, IsHook
<1>6. ~IsOpen(item'[w])
  BY <1>2 DEF HookRecordsAnswer, RecordTerminal, EndedRow, IsOpen, Shapes, IsItem, ItemFields
<1>7. \A v \in Works : result'[v].art = "copy" => result'[v] = result[v]
  BY <1>3 DEF RowsMove, RowMoves, ArtifactOf
<1>8. HookKnown'
  BY <1>1, <1>2, <1>5, <1>6, <1>7 DEF HookKnown, outputVars, workVars
<1> QED BY <1>2, <1>3, <1>4, <1>5, <1>8, MovedInv

LEMMA HookInterruptsKeeps ==
  ASSUME CarriedInv, NEW w \in Works, HookInterrupts(w) PROVE CarriedInv'
<1>1. UNCHANGED <<family, copies, fences, restarts, workVars, wrapper, carry, toldVars, asideVars>>
  BY DEF HookInterrupts
<1>2. Shapes /\ HookKnown /\ FilesStay BY <1>1 DEF CarriedInv, FilesStay
<1>3. PICK note : RecordTerminal(w, "killed", note) BY DEF HookInterrupts
<1>4. RowsMove /\ SameIdentity
  BY <1>1, <1>2, <1>3, RecordTerminalMoves DEF workVars, asideVars
<1>5. IsCarry' /\ WrapperKnown' BY <1>1, <1>2, <1>4, MovedLists DEF Shapes, IsCarry
<1>6. hook' = [hook EXCEPT !.todo = @ \ {w}] BY DEF HookInterrupts
<1>7. HookKnown' /\ IsHook' BY <1>2, <1>4, <1>6, HookPassesOn DEF CarriedInv
<1> QED BY <1>2, <1>4, <1>5, <1>7, MovedInv

LEMMA HookSettlesKeeps ==
  ASSUME CarriedInv, NEW w \in Works, HookSettles(w) PROVE CarriedInv'
<1>1. UNCHANGED <<family, outputVars, workVars, wrapper, carry, toldVars, asideVars>>
  BY DEF HookSettles
<1>2. Shapes /\ HookKnown /\ FilesStay BY <1>1 DEF CarriedInv, FilesStay, outputVars
<1>4. RowsMove /\ SameIdentity
  <2>1. UNCHANGED carriedStore \/ RecordTerminal(w, "completed", "none") BY DEF HookSettles
  <2>2. CASE UNCHANGED carriedStore
    BY <1>1, <1>2, <2>2
       DEF carriedStore, workVars, asideVars, RowsMove, RowMoves, Turns, SameIdentity, IsOpen, Shapes
  <2>3. CASE RecordTerminal(w, "completed", "none")
    BY <1>1, <1>2, <2>3, RecordTerminalMoves DEF workVars, asideVars
  <2> QED BY <2>1, <2>2, <2>3
<1>5. IsCarry' /\ WrapperKnown' BY <1>1, <1>2, <1>4, MovedLists DEF Shapes, IsCarry
<1>6. hook' = [hook EXCEPT !.todo = @ \ {w}] BY DEF HookSettles
<1>7. HookKnown' /\ IsHook' BY <1>2, <1>4, <1>6, HookPassesOn DEF CarriedInv
<1> QED BY <1>2, <1>4, <1>5, <1>7, MovedInv

LEMMA StopRecordsKeeps ==
  ASSUME CarriedInv, NEW w \in Works, StopRecords(w) PROVE CarriedInv'
<1>1. RowsMove /\ SameIdentity /\ FilesStay
  BY RecordTerminalMoves DEF CarriedInv, StopRecords, FilesStay, outputVars, workVars
<1>2. UNCHANGED <<wrapper, carry, hook>> BY DEF StopRecords
<1>3. IsCarry' /\ IsHook' BY <1>2 DEF CarriedInv, Shapes, IsCarry, IsHook
<1> QED BY <1>1, <1>2, <1>3, MovedLists, MovedInv

LEMMA StopMonitorKeeps ==
  ASSUME CarriedInv, NEW w \in Works, StopMonitor(w) PROVE CarriedInv'
<1>1. UNCHANGED <<family, copies, fences, inFolder, workVars, wrapper, hook, toldVars, asideVars>>
  BY DEF StopMonitor
<1>2. restarts' \subseteq restarts BY DEF StopMonitor
<1>3. Shapes /\ FilesStay BY <1>1, <1>2 DEF CarriedInv, FilesStay
<1>4. RowsMove /\ SameIdentity
  <2>1. UNCHANGED carriedStore \/ (\E end : RecordTerminal(w, end, "none")) BY DEF StopMonitor
  <2>2. CASE UNCHANGED carriedStore
    BY <1>1, <1>3, <2>2
       DEF carriedStore, workVars, asideVars, RowsMove, RowMoves, Turns, SameIdentity, IsOpen, Shapes
  <2>3. ASSUME NEW end, RecordTerminal(w, end, "none") PROVE RowsMove /\ SameIdentity
    BY <1>1, <1>3, <2>3, RecordTerminalMoves DEF workVars, asideVars
  <2> QED BY <2>1, <2>2, <2>3
<1>5. IsHook' /\ HookKnown' BY <1>1, <1>3, <1>4, MovedLists DEF Shapes, IsHook
<1>6. wrapper' = "stop" /\ IsCarry' BY <1>1, <1>3 DEF StopMonitor, Carries, Shapes, IsCarry
<1>7. WrapperKnown' BY <1>6 DEF WrapperKnown
<1> QED BY <1>3, <1>4, <1>5, <1>6, <1>7, MovedInv

LEMMA HookReconcilesKeeps ==
  ASSUME CarriedInv, HookReconciles PROVE CarriedInv'
<1>1. UNCHANGED <<family, gens, outputVars, workVars, wrapper, carry, toldVars, asideVars>>
  BY DEF HookReconciles
<1>2. Shapes /\ HookKnown /\ FilesStay BY <1>1 DEF CarriedInv, FilesStay, outputVars
<1>3. PICK readable \in BOOLEAN :
        /\ item' = [w \in Works |-> Reconciled(w, readable)]
        /\ result' = [w \in Works |-> ResultOf(w, Reconciled(w, readable), "none")]
  BY DEF HookReconciles
<1>4. RowsMove /\ SameIdentity
  <2>1. ASSUME NEW w \in Works PROVE RowMoves(w) /\ item'[w].at = item[w].at
    <3>1. item'[w] = Reconciled(w, readable) /\ result'[w] = ResultOf(w, Reconciled(w, readable), "none")
      BY <1>3
    <3>2. Turns(w, item[w], Reconciled(w, readable)) /\ Reconciled(w, readable).at = item[w].at
      BY <1>2, ReconcileTurns
    <3>3. IsResult(result[w]) BY <1>2 DEF Shapes
    <3> QED BY <3>1, <3>2, <3>3, ResultMoves DEF RowMoves
  <2> QED BY <1>1, <1>3, <2>1 DEF RowsMove, SameIdentity, workVars, asideVars
<1>5. IsCarry' /\ WrapperKnown' BY <1>1, <1>2, <1>4, MovedLists DEF Shapes, IsCarry
<1>6. HookKnown' /\ IsHook'
  <2>1. IsHook' /\ hook'.todo = hook.todo /\ hook'.w = hook.w /\ hook'.pc = "helpers" /\ hook'.wrote = hook.wrote
         /\ hook.pc = "reconcile"
    BY <1>2 DEF HookReconciles, HookGoes, Shapes, IsHook
  <2>2. \A v \in Works : result'[v].art = "copy" => result'[v] = result[v]
    BY <1>4 DEF RowsMove, RowMoves, ArtifactOf
  <2> QED BY <1>1, <1>2, <2>1, <2>2 DEF HookKnown, outputVars, workVars
<1> QED BY <1>2, <1>4, <1>5, <1>6, MovedInv

\* A monitor that comes out active without a restart was found where it had been verified.
LEMMA QualifiedMonitor ==
  ASSUME NEW w \in Works, NEW row, IsItem(row), NEW found, NEW pins, family[w] = "monitor",
         row.fence = 0, IdentityNow(w) = current, Qualified(w, row, found, pins).st = "active"
  PROVE  row.at \in {0, current}
<1> DEFINE new == Qualified(w, row, found, pins)
<1>1. CASE ~IsOpen(row) BY <1>1 DEF Qualified, IsOpen
<1>2. CASE IsOpen(row) /\ ~found
  BY <1>2 DEF Qualified, EndedRow, IsOpen, IsItem, ItemFields
<1>3. CASE IsOpen(row) /\ found /\ row.at \notin {0, current}
  <2>1. new = [row EXCEPT !.st = "unknown"] BY <1>3 DEF Qualified
  <2> QED BY <2>1 DEF IsItem, ItemFields
<1> QED BY <1>1, <1>2, <1>3

\* The seam verifies every row; a monitor it lists without a restart on its row has none.
LEMMA AcceptSeamKeeps ==
  ASSUME CarriedInv, NEW readable \in BOOLEAN, NEW pins \in BOOLEAN, NEW found \in SUBSET Works,
         AcceptSeam(readable, found, pins)
  PROVE  CarriedInv'
<1> DEFINE rows == [w \in Works |-> Qualified(w, Reconciled(w, readable), w \in found, pins)]
           listed == {w \in Works : IsOpen(rows[w])}
<1>1. UNCHANGED <<family, gens, outputVars, workVars, hook, toldVars, signalled, stampVars, used>>
  BY DEF AcceptSeam
<1>2. Shapes /\ HookKnown /\ FilesStay BY <1>1 DEF CarriedInv, FilesStay, outputVars
<1>3. item' = rows /\ result' = [w \in Works |-> ResultOf(w, rows[w], "none")] BY DEF AcceptSeam
<1>4. \/ UNCHANGED <<wrapper, carry>> /\ wrapper = "idle"
      \/ /\ wrapper' = "allocate" /\ carry' = [NoCarry EXCEPT !.members = listed]
         /\ \A w \in listed : rows[w].st = "active" /\ rows[w].at # 0
  BY DEF AcceptSeam
<1>5. ASSUME NEW w \in Works
      PROVE  /\ Turns(w, item[w], rows[w])
             /\ IsOpen(rows[w]) => IsOpen(item[w])
             /\ family[w] = "monitor" /\ rows[w].st = "active" /\ item[w].fence = 0
                  => item[w].at \in {0, current}
  <2> DEFINE rec == Reconciled(w, readable)
  <2>1. Turns(w, item[w], rec) /\ rec.at = item[w].at BY <1>2, ReconcileTurns
  <2>2. IsItem(item[w]) /\ IsItem(rec) BY <1>2, <2>1 DEF Shapes, Turns
  <2> HIDE DEF rec
  <2>3. rows[w] = Qualified(w, rec, w \in found, pins) BY DEF rec
  <2>4. IdentityNow(w) \in Nat /\ (family[w] = "monitor" => IdentityNow(w) = current)
    BY <1>2 DEF Shapes, IdentityNow
  <2>5. Turns(w, rec, rows[w]) BY <2>2, <2>3, <2>4, QualifyTurns
  <2>6. Turns(w, item[w], rows[w]) BY <2>1, <2>5, <2>2 DEF Turns, IsOpen, IsItem
  <2>7. ASSUME family[w] = "monitor", rows[w].st = "active", rec.fence = 0
        PROVE  rec.at \in {0, current}
    BY <2>2, <2>4, <2>7, QualifiedMonitor, <2>3
  <2>8. rec.fence = item[w].fence BY <2>1 DEF Turns
  <2>9. IsOpen(rows[w]) => IsOpen(item[w]) BY <2>6 DEF Turns
  <2> QED BY <2>1, <2>6, <2>7, <2>8, <2>9
<1>6. RowsMove
  <2>1. ASSUME NEW w \in Works PROVE RowMoves(w)
    <3>1. item'[w] = rows[w] /\ result'[w] = ResultOf(w, rows[w], "none") BY <1>3
    <3>2. IsResult(result[w]) BY <1>2 DEF Shapes
    <3> HIDE DEF rows
    <3> QED BY <1>5, <3>1, <3>2, ResultMoves DEF RowMoves
  <2> QED BY <1>1, <1>3, <2>1 DEF RowsMove, workVars
<1>7. IsCarry' /\ IsHook'
  <2>1. IsHook' BY <1>1, <1>2 DEF Shapes, IsHook
  <2>2. CASE UNCHANGED carry BY <1>2, <2>1, <2>2 DEF Shapes, IsCarry
  <2>3. CASE carry' = [NoCarry EXCEPT !.members = listed]
    <3>1. listed \subseteq Works OBVIOUS
    <3> HIDE DEF listed
    <3> QED BY <2>1, <2>3, <3>1 DEF NoCarry, IsCarry
  <2> QED BY <1>4, <2>1, <2>2, <2>3
<1>8. WrapperKnown'
  <2>1. CASE UNCHANGED <<wrapper, carry>> /\ wrapper = "idle" BY <2>1 DEF WrapperKnown
  <2>2. ASSUME wrapper' = "allocate", carry' = [NoCarry EXCEPT !.members = listed],
               \A w \in listed : rows[w].st = "active" /\ rows[w].at # 0
        PROVE  WrapperKnown'
    <3>1. ASSUME NEW w \in listed PROVE MemberKnown(w)'
      <4>1. w \in Works /\ item'[w] = rows[w] /\ IsOpen(rows[w]) /\ rows[w].st = "active" /\ rows[w].at # 0
        BY <1>3, <2>2
      <4> HIDE DEF rows, listed
      <4>2. IsOpen(item[w]) /\ item'[w].fence = item[w].fence BY <1>5, <4>1 DEF Turns
      <4>3. truth[w] # "idle" /\ RestartKnown(w)
        BY <4>1, <4>2 DEF CarriedInv, WorkKnown, LaunchKnown, IsOpen
      <4>4. item[w].fence = 0 => NoRestart(w) BY <1>5, <4>1, <4>2, <4>3 DEF RestartKnown
      <4> QED BY <1>1, <4>1, <4>2, <4>3, <4>4 DEF MemberKnown, NoRestart, workVars, outputVars
    <3>2. carry'.members = listed BY <2>2 DEF NoCarry
    <3> QED BY <2>2, <3>1, <3>2 DEF WrapperKnown
  <2> QED BY <1>4, <2>1, <2>2
<1>9. HookKnown'
  <2>1. \A v \in Works : ~IsOpen(item[v]) => item'[v] = item[v] /\ result'[v] = result[v]
    BY <1>6 DEF RowsMove, RowMoves, Turns
  <2>2. \A v \in Works : result'[v].art = "copy" => result'[v] = result[v]
    BY <1>6 DEF RowsMove, RowMoves, ArtifactOf
  <2> QED BY <1>1, <1>2, <2>1, <2>2 DEF HookKnown, outputVars, workVars
<1> QED BY <1>2, <1>6, <1>7, <1>8, <1>9, MovedInv

------------------------------------------------------------------------------
(* Steps that leave the rows.                                               *)

\* Nothing of a generation that the invariant looks at changes.
LEMMA GenerationsRest ==
  ASSUME Shapes, UNCHANGED gens
  PROVE  /\ gens' \in Seq(Generation) /\ Len(gens') = Len(gens)
         /\ \A w \in Works : Closed(item[w].gen)' /\ UNCHANGED item => Closed(item[w].gen)
BY DEF Shapes, Closed

LEMMA WorkEndsKeeps ==
  ASSUME CarriedInv, NEW w \in Works, WorkEnds(w) PROVE CarriedInv'
<1>1. UNCHANGED <<family, carriedStore, outputVars, home, claude, current, wrapper, carry, hook, toldVars, asideVars>>
  BY DEF WorkEnds
<1>2. Shapes BY DEF CarriedInv
<1>3. truth' = [truth EXCEPT ![w] = "done"] /\ truth[w] = "runs" BY DEF WorkEnds
<1>4. RowsStay /\ FilesStay
  BY <1>1, <1>2, <1>3, GenerationsRest
     DEF RowsStay, FilesStay, Shapes, carriedStore, outputVars, asideVars
<1>5. IsCarry' /\ IsHook' /\ Len(gens') = Len(gens)
  BY <1>1, <1>2 DEF Shapes, IsCarry, IsHook, carriedStore
<1> QED BY <1>1, <1>4, <1>5, StayedLists, StayedInv

\* Steps that change nothing but files or who holds what.
LEMMA RestedRows ==
  ASSUME Shapes, UNCHANGED <<family, carriedStore, truth, home, current, stampVars>>
  PROVE  RowsStay /\ Len(gens') = Len(gens)
BY GenerationsRest DEF RowsStay, carriedStore, Shapes

LEMMA MonitorExitsKeeps ==
  ASSUME CarriedInv, NEW p, MonitorExits(p) PROVE CarriedInv'
<1>1. Shapes BY DEF CarriedInv
<1>2. RowsStay /\ Len(gens') = Len(gens) /\ FilesStay
  BY <1>1, RestedRows DEF MonitorExits, FilesStay, workVars, asideVars
<1>3. UNCHANGED <<wrapper, carry, hook>> BY DEF MonitorExits
<1>4. IsCarry' /\ IsHook' BY <1>1, <1>3 DEF Shapes, IsCarry, IsHook
<1> QED BY <1>2, <1>3, <1>4, StayedLists, StayedInv

LEMMA StopSignalsKeeps ==
  ASSUME CarriedInv, NEW w, StopSignals(w) PROVE CarriedInv'
<1>1. Shapes BY DEF CarriedInv
<1>2. RowsStay /\ Len(gens') = Len(gens) /\ FilesStay
  BY <1>1, RestedRows DEF StopSignals, FilesStay, workVars
<1>3. UNCHANGED <<wrapper, carry, hook>> BY DEF StopSignals
<1>4. IsCarry' /\ IsHook' BY <1>1, <1>3 DEF Shapes, IsCarry, IsHook
<1> QED BY <1>2, <1>3, <1>4, StayedLists, StayedInv

LEMMA SeamFailsKeeps ==
  ASSUME CarriedInv, SeamFails PROVE CarriedInv'
<1>1. Shapes BY DEF CarriedInv
<1>2. RowsStay /\ FilesStay
  BY <1>1, RestedRows DEF SeamFails, FilesStay, outputVars, workVars, asideVars
<1>3. wrapper' = "idle" /\ carry' = NoCarry /\ UNCHANGED hook BY DEF SeamFails
<1>4. IsCarry' /\ IsHook' /\ WrapperKnown'
  BY <1>1, <1>3 DEF Shapes, IsCarry, IsHook, NoCarry, WrapperKnown
<1> QED BY <1>2, <1>3, <1>4, StayedLists, StayedInv

\* A host or a state of one generation is written.
LEMMA GenerationsWritten ==
  ASSUME gens \in Seq(Generation), NEW new, DOMAIN new = DOMAIN gens,
         new = [g \in DOMAIN new |-> new[g]],
         \A g \in DOMAIN gens : new[g] \in Generation
  PROVE  new \in Seq(Generation) /\ Len(new) = Len(gens)
<1>1. Len(gens) \in Nat /\ DOMAIN gens = 1..Len(gens) OBVIOUS
<1>2. new \in [1..Len(gens) -> Generation] BY <1>1
<1> QED BY <1>1, <1>2

LEMMA SettleHostKeeps ==
  ASSUME CarriedInv, SettleHost PROVE CarriedInv'
<1>1. UNCHANGED <<family, item, result, outputVars, home, noted, current, wrapper, carry, hook, toldVars, signalled, stampVars, used>>
  BY DEF SettleHost
<1>2. Shapes BY DEF CarriedInv
<1>3. gens' = gens \/ gens' = [gens EXCEPT ![HostGeneration].host = "none"] BY DEF SettleHost
<1>4. /\ gens' \in Seq(Generation) /\ Len(gens') = Len(gens)
      /\ \A g \in DOMAIN gens : gens'[g].st = gens[g].st
  <2>1. CASE gens' = gens BY <1>2, <2>1 DEF Shapes
  <2>2. CASE gens' = [gens EXCEPT ![HostGeneration].host = "none"]
    <3> DEFINE host == HostGeneration
               new == [gens EXCEPT ![host].host = "none"]
    <3> HIDE DEF host
    <3>1. \A g \in DOMAIN gens : gens[g] \in Generation BY <1>2 DEF Shapes
    <3>2. \A g \in DOMAIN gens : new[g] \in Generation /\ new[g].st = gens[g].st
      BY <3>1 DEF Generation
    <3>3. new \in Seq(Generation) /\ Len(new) = Len(gens)
      BY <1>2, <3>2, GenerationsWritten DEF Shapes
    <3> QED BY <2>2, <3>2, <3>3 DEF host
  <2> QED BY <1>3, <2>1, <2>2
<1>5. \A g \in DOMAIN gens : gens'[g].st = gens[g].st BY <1>4
<1>6. truth' = truth \/ \E s, o : truth' = After(s, o) BY DEF SettleHost
<1>7. /\ truth' = [w \in Works |-> truth'[w]]
      /\ \A w \in Works : truth'[w] = "idle" <=> truth[w] = "idle"
  BY <1>2, <1>6 DEF Shapes, After
<1>8. \A w \in Works : Closed(item[w].gen)' => Closed(item[w].gen)
  BY <1>1, <1>2, <1>4, <1>5 DEF Closed, Shapes
<1>9. RowsStay /\ FilesStay
  BY <1>1, <1>4, <1>7, <1>8 DEF RowsStay, FilesStay, outputVars
<1>10. IsCarry' /\ IsHook' BY <1>1, <1>2 DEF Shapes, IsCarry, IsHook
<1> QED BY <1>1, <1>4, <1>9, <1>10, StayedLists, StayedInv

\* The end of the wrapper and of its children.
LEMMA AfterAllKeepsIdle ==
  ASSUME NEW o
  PROVE  /\ AfterAll(o) = [w \in Works |-> AfterAll(o)[w]]
         /\ \A w \in Works : AfterAll(o)[w] = "idle" <=> truth[w] = "idle"
BY DEF AfterAll

LEMMA WrapperExitsKeeps ==
  ASSUME CarriedInv, WrapperExits PROVE CarriedInv'
<1>1. Shapes BY DEF CarriedInv
<1>2. truth' = AfterAll(FALSE) /\ UNCHANGED <<family, carriedStore, outputVars, home, current, hook, asideVars>>
  BY DEF WrapperExits
<1>3. /\ truth' = [w \in Works |-> truth'[w]]
      /\ \A w \in Works : truth'[w] = "idle" <=> truth[w] = "idle"
  BY <1>2, AfterAllKeepsIdle
<1>4. RowsStay /\ FilesStay
  BY <1>1, <1>2, <1>3, GenerationsRest DEF RowsStay, FilesStay, carriedStore, outputVars, asideVars
<1>5. wrapper' = "stop" /\ carry' = [NoCarry EXCEPT !.todo = {w \in Works : item[w].st # "none"}]
  BY DEF WrapperExits
<1>6. IsCarry' /\ IsHook' /\ WrapperKnown'
  BY <1>1, <1>2, <1>5 DEF Shapes, IsCarry, IsHook, NoCarry, WrapperKnown
<1> QED BY <1>2, <1>4, <1>6, StayedLists, StayedInv

LEMMA WrapperCrashesKeeps ==
  ASSUME CarriedInv, WrapperCrashes PROVE CarriedInv'
<1>1. Shapes BY DEF CarriedInv
<1>2. UNCHANGED <<family, carriedStore, outputVars, home, current, hook, stampVars>>
  BY DEF WrapperCrashes
<1>3. PICK o \in BOOLEAN : truth' = AfterAll(o) BY DEF WrapperCrashes
<1>4. /\ truth' = [w \in Works |-> truth'[w]]
      /\ \A w \in Works : truth'[w] = "idle" <=> truth[w] = "idle"
  BY <1>3, AfterAllKeepsIdle
<1>5. RowsStay /\ FilesStay
  BY <1>1, <1>2, <1>4, GenerationsRest DEF RowsStay, FilesStay, carriedStore, outputVars
<1>6. wrapper' = "down" /\ carry' = NoCarry BY DEF WrapperCrashes
<1>7. IsCarry' /\ IsHook' /\ WrapperKnown'
  BY <1>1, <1>2, <1>6 DEF Shapes, IsCarry, IsHook, NoCarry, WrapperKnown
<1> QED BY <1>2, <1>5, <1>7, StayedLists, StayedInv

\* The hook's own steps: the rows stay and the wrapper sees nothing of them.
LEMMA HookStepInv ==
  ASSUME CarriedInv, UNCHANGED <<family, carriedStore, truth, home, current, stampVars, wrapper, carry>>,
         FilesStay, IsHook', HookKnown'
  PROVE  CarriedInv'
<1>1. Shapes BY DEF CarriedInv
<1>2. RowsStay /\ Len(gens') = Len(gens) BY <1>1, RestedRows
<1>3. IsCarry' BY <1>1 DEF Shapes, IsCarry
<1> QED BY <1>2, <1>3, StayedLists, StayedInv

LEMMA PromptKeeps ==
  ASSUME CarriedInv, Prompt PROVE CarriedInv'
<1>1. hook'.todo = {} /\ hook'.w = {} /\ IsHook' BY DEF Prompt, NoHook, IsHook
<1>2. HookKnown' BY <1>1 DEF HookKnown
<1> QED BY <1>1, <1>2, HookStepInv DEF Prompt, FilesStay, outputVars, workVars

LEMMA HookEndsKeeps ==
  ASSUME CarriedInv, HookPrints \/ HookDies PROVE CarriedInv'
<1>1. hook' = NoHook BY DEF HookPrints, HookDies
<1>2. IsHook' /\ HookKnown' BY <1>1 DEF NoHook, IsHook, HookKnown
<1> QED BY <1>2, HookStepInv DEF HookPrints, HookDies, FilesStay, outputVars, workVars, asideVars

LEMMA HookListsKeeps ==
  ASSUME CarriedInv, HookLists PROVE CarriedInv'
<1>1. Shapes /\ HookKnown BY DEF CarriedInv
<1>2. UNCHANGED <<family, carriedStore, outputVars, workVars, wrapper, carry, toldVars, asideVars>>
  BY DEF HookLists
<1>3. hook'.todo = hook.todo /\ hook'.w = hook.w /\ hook'.pc = "print" /\ hook'.wrote = hook.wrote /\ IsHook'
      /\ hook.pc = "settle"
  BY <1>1 DEF HookLists, Shapes, IsHook
<1>4. HookKnown' BY <1>1, <1>2, <1>3 DEF HookKnown, carriedStore, outputVars, workVars
<1> QED BY <1>2, <1>3, <1>4, HookStepInv DEF FilesStay, outputVars, workVars, asideVars

LEMMA HookCarriesHelpersKeeps ==
  ASSUME CarriedInv, HookCarriesHelpers PROVE CarriedInv'
<1> DEFINE listed == {w \in Works : IsOpen(item[w]) /\ item[w].gen > 0}
<1>1. Shapes /\ HookKnown BY DEF CarriedInv
<1>2. UNCHANGED <<family, carriedStore, copies, fences, restarts, workVars, wrapper, carry, toldVars, asideVars>>
  BY DEF HookCarriesHelpers
<1>3. hook' = [hook EXCEPT !.pc = "settle", !.todo = listed] /\ hook.pc = "helpers"
  BY DEF HookCarriesHelpers
<1> HIDE DEF listed
<1>4. hook'.todo = listed /\ hook'.w = hook.w /\ hook'.pc = "settle" /\ hook'.wrote = hook.wrote /\ IsHook'
      /\ hook.w = {}
  BY <1>1, <1>3 DEF Shapes, IsHook, HookKnown
<1>5. \A w \in listed : w \in Works /\ truth[w] # "idle" /\ (family[w] = "agent" => result[w].art # "copy")
  BY DEF listed, CarriedInv, WorkKnown, LaunchKnown, OutputKnown, IsOpen
<1>6. HookKnown'
  BY <1>1, <1>2, <1>4, <1>5 DEF HookKnown, carriedStore, workVars
<1> QED BY <1>2, <1>4, <1>6, HookStepInv DEF FilesStay, workVars, asideVars

\* The work it hands on belongs to a closed generation, so to a session that was left.
LEMMA HookCopiesAnswerKeeps ==
  ASSUME CarriedInv, NEW w \in Works, HookCopiesAnswer(w) PROVE CarriedInv'
<1>1. Shapes /\ HookKnown /\ WorkKnown(w) BY DEF CarriedInv
<1>2. UNCHANGED <<family, carriedStore, fences, restarts, inFolder, workVars, wrapper, carry, toldVars, asideVars>>
  BY DEF HookCopiesAnswer
<1>3. PICK wrote \in BOOLEAN :
        /\ copies' = IF wrote THEN copies \cup {w} ELSE copies
        /\ hook' = [hook EXCEPT !.pc = "record", !.w = {w}, !.wrote = wrote, !.todo = @ \ {w}]
  BY DEF HookCopiesAnswer
<1>4. /\ hook'.todo = hook.todo \ {w} /\ hook'.w = {w} /\ hook'.pc = "record" /\ hook'.wrote = wrote
      /\ IsHook'
  BY <1>1, <1>3 DEF Shapes, IsHook
<1>5. w \in hook.todo /\ HandedOver(w) /\ family[w] = "agent" /\ truth[w] = "done"
  BY DEF HookCopiesAnswer
<1>6. home[w] < current BY <1>1, <1>5 DEF HandedOver, WorkKnown, OutputKnown
<1>7. HookKnown'
  BY <1>1, <1>2, <1>3, <1>4, <1>5, <1>6 DEF HookKnown, carriedStore, workVars
<1>8. FilesStay BY <1>2, <1>3 DEF FilesStay
<1> QED BY <1>2, <1>4, <1>7, <1>8, HookStepInv DEF workVars, asideVars

------------------------------------------------------------------------------
(* The wrapper's steps between the seam and the next prompt.                *)

LEMMA CloseSnapshotKeeps ==
  ASSUME CarriedInv, CloseSnapshot PROVE CarriedInv'
<1>1. Shapes /\ WrapperKnown BY DEF CarriedInv
<1>2. UNCHANGED <<family, item, result, outputVars, workVars, hook, toldVars, asideVars>>
  BY DEF CloseSnapshot
<1>3. wrapper = "carry" /\ wrapper' = "idle" /\ carry' = NoCarry BY DEF CloseSnapshot
<1>4. gens' = gens \/ gens' = [gens EXCEPT ![Latest].st = "closed"] BY DEF CloseSnapshot
<1>5. gens' \in Seq(Generation) /\ Len(gens') = Len(gens)
  <2> DEFINE g0 == Latest
             new == [gens EXCEPT ![g0].st = "closed"]
  <2> HIDE DEF g0
  <2>0. \A g \in DOMAIN gens : gens[g] \in Generation BY <1>1 DEF Shapes
  <2>1. \A g \in DOMAIN gens : new[g] \in Generation BY <2>0 DEF Generation
  <2>2. new \in Seq(Generation) /\ Len(new) = Len(gens) BY <1>1, <2>1, GenerationsWritten DEF Shapes
  <2> QED BY <1>1, <1>4, <2>2 DEF Shapes, g0
<1>6. \A w \in Works : home[w] < current BY <1>1, <1>3 DEF WrapperKnown
<1>7. RowsStay /\ FilesStay
  BY <1>1, <1>2, <1>5, <1>6 DEF RowsStay, FilesStay, Shapes, outputVars, workVars, asideVars
<1>8. IsCarry' /\ IsHook' /\ WrapperKnown'
  BY <1>1, <1>2, <1>3 DEF Shapes, IsCarry, IsHook, NoCarry, WrapperKnown
<1> QED BY <1>2, <1>7, <1>8, StayedLists, StayedInv

LEMMA CleanBeginsKeeps ==
  ASSUME CarriedInv, CleanBegins PROVE CarriedInv'
<1> DEFINE listed == {w \in Works : item[w].st = "terminal"}
           preserved == {w \in Works : IsOpen(item[w])}
<1>1. Shapes BY DEF CarriedInv
<1>2. RowsStay /\ FilesStay
  BY <1>1, RestedRows DEF CleanBegins, FilesStay, outputVars, workVars, asideVars
<1>3. wrapper' = "clean" /\ carry' = [NoCarry EXCEPT !.todo = listed, !.members = preserved]
      /\ UNCHANGED <<item, hook>>
  BY DEF CleanBegins, carriedStore
<1>4. listed \subseteq Works /\ preserved \subseteq Works /\ \A w \in listed : item[w].st = "terminal"
  OBVIOUS
<1> HIDE DEF listed, preserved
<1>5. carry'.todo = listed /\ carry'.w = {} /\ IsCarry' BY <1>3, <1>4 DEF NoCarry, IsCarry
<1>6. IsHook' /\ WrapperKnown' BY <1>1, <1>3, <1>4, <1>5 DEF Shapes, IsHook, WrapperKnown
<1> QED BY <1>2, <1>3, <1>5, <1>6, StayedLists, StayedInv

LEMMA CleanEndsKeeps ==
  ASSUME CarriedInv, CleanEnds PROVE CarriedInv'
<1>1. Shapes BY DEF CarriedInv
<1>2. UNCHANGED <<family, item, result, outputVars, workVars, hook, toldVars, signalled, stampVars, used>>
  BY DEF CleanEnds
<1>3. gens' = <<>> \/ gens' = gens BY DEF CleanEnds
<1>4. RowsStay /\ FilesStay
  <2>1. CASE gens' = gens
    BY <1>1, <1>2, <2>1, RestedRows DEF FilesStay, carriedStore, outputVars, workVars
  <2>2. CASE gens' = <<>>
    <3>1. gens' \in Seq(Generation) /\ DOMAIN gens' = {} BY <2>2
    <3> QED BY <1>1, <1>2, <3>1 DEF RowsStay, FilesStay, Shapes, Closed, outputVars, workVars
  <2> QED BY <1>3, <2>1, <2>2
<1>5. wrapper' = "down" /\ carry' = NoCarry BY DEF CleanEnds
<1>6. IsCarry' /\ IsHook' /\ WrapperKnown'
  BY <1>1, <1>2, <1>5 DEF Shapes, IsCarry, IsHook, NoCarry, WrapperKnown
<1> QED BY <1>2, <1>4, <1>6, StayedLists, StayedInv

\* The one step that starts a restart: its work has none, and its session was left.
LEMMA RestartMonitorKeeps ==
  ASSUME CarriedInv, NEW w \in Works, RestartMonitor(w) PROVE CarriedInv'
<1> DEFINE p == <<w, Latest>>
<1>1. Shapes /\ WrapperKnown /\ HookKnown BY DEF CarriedInv
<1>2. UNCHANGED <<family, carriedStore, copies, inFolder, workVars, hook, toldVars, asideVars>>
  BY DEF RestartMonitor
<1>3. /\ wrapper = "carry" /\ wrapper' = "record" /\ w \in carry.todo /\ NeedsRestart(w)
      /\ fences' = fences \cup {p} /\ restarts' = restarts \cup {p}
  BY DEF RestartMonitor
<1> HIDE DEF p
<1>4. p[1] = w BY DEF p
<1>5. carry'.todo = carry.todo \ {w} /\ carry'.w = {w} /\ carry'.members = carry.members /\ IsCarry'
  BY <1>1 DEF RestartMonitor, Shapes, IsCarry
<1>6. MemberKnown(w) /\ home[w] < current /\ item[w].at < current /\ family[w] = "monitor" /\ item[w].fence = 0
  BY <1>1, <1>3 DEF WrapperKnown, NeedsRestart
<1>7. NoRestart(w) BY <1>6 DEF MemberKnown
<1>8. Shapes' /\ IsHook' BY <1>1, <1>2, <1>5 DEF Shapes, IsHook, carriedStore, workVars
<1>9. ASSUME NEW v \in Works PROVE WorkKnown(v)'
  <2>1. WorkKnown(v) BY DEF CarriedInv
  <2>2. LaunchKnown(v)' /\ EndKnown(v)' /\ StampKnown(v)'
    BY <1>2, <2>1
       DEF WorkKnown, LaunchKnown, EndKnown, StampKnown, carriedStore, workVars, asideVars, stampVars
  <2>3. OutputKnown(v)'
    BY <1>2, <1>3, <2>1 DEF WorkKnown, OutputKnown, Closed, carriedStore, workVars
  <2>4. RestartKnown(v)'
    <3>1. CASE v = w
      <4>1. item[w].at # current /\ (item[w].at # 0 \/ ~IsOpen(item[w])) /\ truth[w] # "idle"
        BY <1>1, <1>6 DEF MemberKnown, Shapes, IsItem
      <4> QED BY <1>2, <1>6, <3>1, <4>1 DEF RestartKnown, carriedStore, workVars
    <3>2. CASE v # w
      BY <1>2, <1>3, <1>4, <2>1, <3>2 DEF WorkKnown, RestartKnown, NoRestart, carriedStore, workVars
    <3> QED BY <3>1, <3>2
  <2> QED BY <2>2, <2>3, <2>4 DEF WorkKnown
<1>10. OnceEach' BY <1>3, <1>4, <1>7 DEF CarriedInv, OnceEach, NoRestart
<1>11. WrapperKnown'
  <2>1. \A v \in carry'.todo : v \in Works /\ MemberKnown(v)'
    BY <1>1, <1>2, <1>3, <1>4, <1>5
       DEF WrapperKnown, MemberKnown, NoRestart, carriedStore, workVars
  <2>2. gens' # <<>> /\ \A v \in Works : home'[v] < current' /\ item'[v].at < current'
    BY <1>1, <1>2, <1>3 DEF WrapperKnown, carriedStore, workVars
  <2>3. Latest' = Latest BY <1>2 DEF Latest, carriedStore
  <2>4. \A v \in carry'.w : v \in Works /\ (family[v] = "monitor")' /\ <<v, Latest'>> \in fences'
    BY <1>2, <1>3, <1>5, <1>6, <2>3 DEF p
  <2> QED BY <1>3, <2>1, <2>2, <2>4 DEF WrapperKnown
<1>12. HookKnown' BY <1>1, <1>2 DEF HookKnown, carriedStore, workVars
<1> QED BY <1>8, <1>9, <1>10, <1>11, <1>12 DEF CarriedInv

LEMMA SwapChildKeeps ==
  ASSUME CarriedInv, NEW keeps \in BOOLEAN, SwapChild(keeps) PROVE CarriedInv'
<1>1. Shapes /\ WrapperKnown /\ HookKnown BY DEF CarriedInv
<1>2. UNCHANGED <<family, item, result, outputVars, home, noted, hook, told, asideVars>>
  BY DEF SwapChild
<1>3. wrapper = "seam" /\ wrapper' = "carry" /\ current' = current + 1 BY DEF SwapChild
<1>4. carry'.todo = carry.members /\ carry'.members = carry.members /\ carry'.w = carry.w /\ IsCarry'
  BY <1>1 DEF SwapChild, Shapes, IsCarry
<1>5. \E host \in {"none", "live", "paused"} : gens' = [gens EXCEPT ![Latest].host = host]
  BY DEF SwapChild
<1>6. /\ gens' \in Seq(Generation) /\ Len(gens') = Len(gens) /\ gens' # <<>>
      /\ \A g \in DOMAIN gens : gens'[g].st = gens[g].st
  <2> DEFINE g0 == Latest
  <2> HIDE DEF g0
  <2>1. PICK host \in {"none", "live", "paused"} : gens' = [gens EXCEPT ![g0].host = host]
    BY <1>5 DEF g0
  <2>2. \A g \in DOMAIN gens : gens[g] \in Generation BY <1>1 DEF Shapes
  <2>3. \A g \in DOMAIN gens : gens'[g] \in Generation /\ gens'[g].st = gens[g].st
    BY <2>1, <2>2 DEF Generation
  <2>4. gens' \in Seq(Generation) /\ Len(gens') = Len(gens)
    BY <1>1, <2>1, <2>3, GenerationsWritten DEF Shapes
  <2>5. gens # <<>> BY <1>1, <1>3 DEF WrapperKnown
  <2> QED BY <1>1, <2>3, <2>4, <2>5 DEF Shapes
<1>7. truth' = truth \/ truth' = After(current, FALSE) BY DEF SwapChild
<1>8. /\ truth' = [w \in Works |-> truth'[w]]
      /\ \A w \in Works : truth'[w] = "idle" <=> truth[w] = "idle"
  BY <1>1, <1>7 DEF Shapes, After
<1>9. Shapes' BY <1>1, <1>2, <1>3, <1>4, <1>6, <1>8 DEF Shapes, IsHook
<1>10. \A w \in Works : Closed(item[w].gen)' => Closed(item[w].gen)
  BY <1>1, <1>2, <1>6 DEF Closed, Shapes
<1>11. ASSUME NEW w \in Works PROVE WorkKnown(w)' /\ home'[w] < current' /\ item'[w].at < current'
  <2>1. /\ WorkKnown(w) /\ home[w] \in Nat /\ current \in Nat /\ item[w].at \in Nat
        /\ home[w] <= current /\ item[w].at <= current
    BY <1>1 DEF CarriedInv, Shapes, IsItem, WorkKnown, LaunchKnown
  <2>2. home[w] < current' /\ item[w].at < current' BY <1>3, <2>1
  <2>3. LaunchKnown(w)' BY <1>2, <1>3, <1>8, <2>1, <2>2 DEF WorkKnown, LaunchKnown
  <2>4. EndKnown(w)' /\ StampKnown(w)'
    BY <1>2, <2>1 DEF WorkKnown, EndKnown, StampKnown, asideVars, stampVars
  <2>5. OutputKnown(w)' BY <1>2, <1>10, <2>1, <2>2 DEF WorkKnown, OutputKnown, outputVars
  <2>6. RestartKnown(w)'
    BY <1>2, <1>8, <2>1, <2>2 DEF WorkKnown, RestartKnown, NoRestart, outputVars
  <2> QED BY <1>2, <2>2, <2>3, <2>4, <2>5, <2>6 DEF WorkKnown
<1>12. OnceEach' BY <1>2 DEF CarriedInv, OnceEach, outputVars
<1>13. WrapperKnown'
  <2>1. carry.members \subseteq Works BY <1>1 DEF Shapes, IsCarry
  <2>2. \A w \in carry.members : MemberKnown(w)'
    BY <1>1, <1>2, <1>3, <1>8, <2>1 DEF WrapperKnown, MemberKnown, NoRestart, outputVars
  <2> QED BY <1>3, <1>4, <1>6, <1>11, <2>1, <2>2 DEF WrapperKnown
<1>14. HookKnown'
  <2>1. \A w \in Works : home[w] < current' BY <1>2, <1>11
  <2> QED BY <1>1, <1>2, <1>8, <2>1 DEF HookKnown, outputVars
<1> QED BY <1>9, <1>11, <1>12, <1>13, <1>14 DEF CarriedInv

LEMMA AllocateKeeps ==
  ASSUME CarriedInv, Allocate PROVE CarriedInv'
<1> DEFINE g == Latest + 1
<1>1. Shapes /\ WrapperKnown /\ HookKnown BY DEF CarriedInv
<1>2. UNCHANGED <<family, result, outputVars, workVars, carry, hook, toldVars, settle, signalled, again>>
  BY DEF Allocate
<1>3. /\ wrapper = "allocate" /\ wrapper' = "seam"
      /\ item' = [w \in Works |-> IF w \in carry.members THEN [item[w] EXCEPT !.gen = g] ELSE item[w]]
      /\ stamped' = stamped \cup {w \in carry.members : IsOpen(item[w])}
      /\ late' = late \cup {w \in carry.members : item[w].st = "terminal"}
  BY DEF Allocate
<1>4. g \in Nat \ {0} /\ Latest = Len(gens) /\ Len(gens) \in Nat BY <1>1 DEF Shapes, Latest
<1>5. /\ gens' \in Seq(Generation) /\ Len(gens') = g /\ gens'[g].st = "open"
      /\ \A h \in DOMAIN gens : gens'[h].st = "closed" => gens[h].st = "closed"
  <2> DEFINE older == [h \in DOMAIN gens |-> [gens[h] EXCEPT !.st = IF @ = "open" THEN "superseded" ELSE @]]
             new == [st |-> "open", members |-> carry.members, old |-> current, host |-> "none"]
  <2>1. \A h \in DOMAIN gens : gens[h] \in Generation BY <1>1 DEF Shapes
  <2>2. \A h \in DOMAIN gens : older[h] \in Generation /\ (older[h].st = "closed" => gens[h].st = "closed")
    BY <2>1 DEF Generation
  <2>3. older \in Seq(Generation) /\ Len(older) = Len(gens)
    BY <1>1, <2>2, GenerationsWritten DEF Shapes
  <2>4. new \in Generation /\ new.st = "open" BY <1>1 DEF Shapes, IsCarry, Generation
  <2>5. gens' = Append(older, new) BY DEF Allocate
  <2> HIDE DEF older, new
  <2>6. DOMAIN gens = 1..Len(gens) BY <1>1 DEF Shapes
  <2> QED BY <1>4, <2>2, <2>3, <2>4, <2>5, <2>6
<1> HIDE DEF g
<1>6. ASSUME NEW w \in Works
      PROVE  /\ IsItem(item'[w]) /\ item'[w].st = item[w].st /\ item'[w].at = item[w].at
             /\ item'[w].fence = item[w].fence /\ item'[w].end = item[w].end
             /\ item'[w].gen = item[w].gen \/ item'[w].gen = g
             /\ w \in carry.members => item'[w].gen = g
  <2>1. IsItem(item[w]) BY <1>1 DEF Shapes
  <2> QED BY <1>3, <1>4, <2>1 DEF IsItem, ItemFields
<1>7. Shapes' /\ IsHook'
  BY <1>1, <1>2, <1>3, <1>5, <1>6 DEF Shapes, IsHook, IsCarry, workVars
<1>8. ASSUME NEW w \in Works PROVE WorkKnown(w)'
  <2>1. WorkKnown(w) BY DEF CarriedInv
  <2>2. LaunchKnown(w)' BY <1>2, <1>6, <2>1 DEF WorkKnown, LaunchKnown, workVars
  <2>3. EndKnown(w)' BY <1>2, <1>6, <2>1 DEF WorkKnown, EndKnown, IsOpen
  <2>4. StampKnown(w)'
    <3>1. IsOpen(item'[w]) <=> IsOpen(item[w]) BY <1>6 DEF IsOpen
    <3>2. item[w].gen > 0 => item'[w].gen > 0 BY <1>4, <1>6
    <3> QED BY <1>2, <1>3, <1>4, <1>6, <2>1, <3>1, <3>2 DEF WorkKnown, StampKnown
  <2>5. OutputKnown(w)'
    <3>1. \A h : Closed(h)' => Closed(h) /\ h # g
      <4>1. DOMAIN gens' = 1..g /\ DOMAIN gens = 1..Len(gens) /\ g = Len(gens) + 1
        BY <1>1, <1>4, <1>5 DEF Shapes, g
      <4> QED BY <1>4, <1>5, <4>1 DEF Closed
    <3>2. Closed(item[w].gen)' => home[w] < current
      BY <1>6, <2>1, <3>1 DEF WorkKnown, OutputKnown
    <3>3. IsOpen(item'[w]) <=> IsOpen(item[w]) BY <1>6 DEF IsOpen
    <3> QED BY <1>2, <1>6, <2>1, <3>2, <3>3 DEF WorkKnown, OutputKnown, outputVars, workVars
  <2>6. RestartKnown(w)'
    BY <1>2, <1>6, <2>1 DEF WorkKnown, RestartKnown, NoRestart, IsOpen, outputVars, workVars
  <2> QED BY <2>2, <2>3, <2>4, <2>5, <2>6 DEF WorkKnown
<1>9. OnceEach' BY <1>2 DEF CarriedInv, OnceEach, outputVars
<1>10. WrapperKnown'
  <2>1. carry.members \subseteq Works /\ gens' # <<>> BY <1>1, <1>4, <1>5 DEF Shapes, IsCarry
  <2>2. \A w \in carry.members : MemberKnown(w)'
    BY <1>1, <1>2, <1>3, <1>6, <2>1
       DEF WrapperKnown, MemberKnown, NoRestart, IsOpen, outputVars, workVars
  <2> QED BY <1>2, <1>3, <2>1, <2>2 DEF WrapperKnown
<1>11. HookKnown'
  BY <1>1, <1>2, <1>6 DEF HookKnown, IsOpen, outputVars, workVars
<1> QED BY <1>7, <1>8, <1>9, <1>10, <1>11 DEF CarriedInv

LEMMA RecordRestartKeeps ==
  ASSUME CarriedInv, RecordRestart PROVE CarriedInv'
<1>1. Shapes /\ WrapperKnown /\ HookKnown BY DEF CarriedInv
<1>2. UNCHANGED <<family, result, gens, outputVars, workVars, hook, toldVars, asideVars>>
  BY DEF RecordRestart
<1>3. wrapper = "record" /\ wrapper' = "carry" /\ carry' = [carry EXCEPT !.w = {}] BY DEF RecordRestart
<1>4. PICK u \in carry.w, known \in BOOLEAN :
        \/ item' = item
        \/ /\ item' = [item EXCEPT ![u].fence = Latest, ![u].known = known]
           /\ IsOpen(item[u]) /\ item[u].fence = 0
  BY DEF RecordRestart
<1>5. u \in Works /\ family[u] = "monitor" /\ <<u, Latest>> \in fences /\ Latest \in Nat \ {0}
  BY <1>1, <1>3 DEF WrapperKnown, Shapes, Latest
<1>6. ASSUME NEW w \in Works
      PROVE  /\ IsItem(item'[w]) /\ item'[w].st = item[w].st /\ item'[w].at = item[w].at
             /\ item'[w].gen = item[w].gen /\ item'[w].end = item[w].end
             /\ item'[w].fence = item[w].fence \/ (w = u /\ item'[w].fence = Latest)
  <2>1. IsItem(item[w]) /\ DOMAIN item = Works BY <1>1 DEF Shapes
  <2> QED BY <1>4, <1>5, <2>1 DEF IsItem, ItemFields
<1>7. carry'.todo = carry.todo /\ carry'.members = carry.members /\ carry'.w = {} /\ IsCarry'
  BY <1>1, <1>3 DEF Shapes, IsCarry
<1>8. DOMAIN item' = Works BY <1>1, <1>4 DEF Shapes
<1>9. Shapes' BY <1>1, <1>2, <1>6, <1>7, <1>8 DEF Shapes, IsHook, workVars
<1>10. ASSUME NEW w \in Works PROVE WorkKnown(w)'
  <2>1. WorkKnown(w) BY DEF CarriedInv
  <2>2. IsOpen(item'[w]) <=> IsOpen(item[w]) BY <1>6 DEF IsOpen
  <2>3. LaunchKnown(w)' BY <1>2, <1>5, <1>6, <2>1 DEF WorkKnown, LaunchKnown, workVars
  <2>4. EndKnown(w)' /\ StampKnown(w)'
    BY <1>2, <1>6, <2>1, <2>2 DEF WorkKnown, EndKnown, StampKnown, asideVars, stampVars
  <2>5. OutputKnown(w)'
    <3>1. Closed(item[w].gen)' => Closed(item[w].gen) BY <1>2, <1>6 DEF Closed
    <3> QED BY <1>2, <1>5, <1>6, <2>1, <2>2, <3>1 DEF WorkKnown, OutputKnown, outputVars, workVars
  <2>6. RestartKnown(w)'
    BY <1>2, <1>5, <1>6, <2>1, <2>2 DEF WorkKnown, RestartKnown, NoRestart, outputVars, workVars
  <2> QED BY <2>3, <2>4, <2>5, <2>6 DEF WorkKnown
<1>11. OnceEach' BY <1>2 DEF CarriedInv, OnceEach, outputVars
<1>12. WrapperKnown'
  <2>1. \A w \in carry.todo : w \in Works /\ MemberKnown(w)'
    BY <1>1, <1>2, <1>3, <1>5, <1>6
       DEF WrapperKnown, MemberKnown, NoRestart, IsOpen, outputVars, workVars
  <2> QED BY <1>1, <1>2, <1>3, <1>6, <1>7, <2>1 DEF WrapperKnown, workVars
<1>13. HookKnown'
  BY <1>1, <1>2, <1>6 DEF HookKnown, IsOpen, outputVars, workVars
<1> QED BY <1>9, <1>10, <1>11, <1>12, <1>13 DEF CarriedInv

------------------------------------------------------------------------------
(* Rows that come and go, and results that change.                          *)

\* A result that stands turns delivered, or points at the copy the hook made.
ResultStands(w) ==
  \/ result'[w] = result[w]
  \/ /\ IsResult(result'[w]) /\ result[w].to # "none" /\ result'[w].to # "none"
     /\ result'[w].end = result[w].end
     /\ \/ result'[w].art = result[w].art
        \/ result'[w].art = "copy" /\ w \in copies' /\ (family[w] = "agent" => ~IsOpen(item[w]) /\ home[w] < current)

LEMMA StandingIsKnown ==
  ASSUME CarriedInv, NEW w \in Works, ResultStands(w),
         UNCHANGED <<family, item, gens, fences, restarts, truth, home, current, stampVars>>,
         w \in copies => w \in copies' \/ result[w].art # "copy"
  PROVE  WorkKnown(w)'
<1>1. WorkKnown(w) BY DEF CarriedInv
<1>2. LaunchKnown(w)' /\ EndKnown(w)' /\ StampKnown(w)'
  BY <1>1 DEF WorkKnown, LaunchKnown, EndKnown, StampKnown, ResultStands, stampVars
<1>3. OutputKnown(w)' BY <1>1 DEF WorkKnown, OutputKnown, Closed, ResultStands
<1>4. RestartKnown(w)' BY <1>1 DEF WorkKnown, RestartKnown, NoRestart
<1> QED BY <1>2, <1>3, <1>4 DEF WorkKnown

LEMMA DeliverKeeps ==
  ASSUME CarriedInv, NEW w \in Works, Deliver(w) PROVE CarriedInv'
<1>1. Shapes /\ WrapperKnown /\ HookKnown BY DEF CarriedInv
<1>2. UNCHANGED <<family, item, gens, outputVars, workVars, wrapper, carry, hook, told, signalled, stampVars, used>>
  BY DEF Deliver
<1>3. result' = result \/ (result[w].to = "pending" /\ result' = [result EXCEPT ![w].to = "delivered"])
  BY DEF Deliver
<1>4. ASSUME NEW v \in Works
      PROVE  ResultStands(v) /\ IsResult(result'[v]) /\ result'[v].art = result[v].art
             /\ (result'[v].to = "none" => result[v].to = "none")
  <2>1. IsResult(result[v]) /\ DOMAIN result = Works BY <1>1 DEF Shapes
  <2> QED BY <1>3, <2>1 DEF IsResult, ResultStands
<1>5. DOMAIN result' = Works BY <1>1, <1>3 DEF Shapes
<1>6. Shapes' BY <1>1, <1>2, <1>4, <1>5 DEF Shapes, IsCarry, IsHook, workVars
<1>7. \A v \in Works : WorkKnown(v)' BY <1>2, <1>4, StandingIsKnown DEF outputVars, workVars
<1>8. OnceEach' BY <1>2 DEF CarriedInv, OnceEach, outputVars
<1>9. wrapper # "clean" BY DEF Deliver
<1>10. WrapperKnown'
  BY <1>1, <1>2, <1>9 DEF WrapperKnown, MemberKnown, NoRestart, Latest, outputVars, workVars
<1>11. HookKnown' BY <1>1, <1>2, <1>4 DEF HookKnown, outputVars, workVars
<1> QED BY <1>6, <1>7, <1>8, <1>10, <1>11 DEF CarriedInv

\* The copy goes only when no result points at it.
LEMMA HookAttachesKeeps ==
  ASSUME CarriedInv, NEW w \in Works, HookAttaches(w) PROVE CarriedInv'
<1>1. Shapes /\ WrapperKnown /\ HookKnown BY DEF CarriedInv
<1>2. UNCHANGED <<family, item, gens, fences, restarts, inFolder, workVars, wrapper, carry, toldVars, asideVars>>
  BY DEF HookAttaches
<1>3. /\ family[w] = "agent" /\ home[w] < current /\ result[w].art # "copy" /\ w \in copies
      /\ ~IsOpen(item[w]) /\ w \in hook.w
  BY <1>1 DEF HookAttaches, HookKnown
<1>4. \/ result' = result /\ copies \ {w} \subseteq copies'
      \/ result' = [result EXCEPT ![w].art = "copy"] /\ copies' = copies /\ result[w].to # "none"
  BY DEF HookAttaches, CopiesLeft
<1>5. ASSUME NEW v \in Works
      PROVE  /\ ResultStands(v) /\ IsResult(result'[v]) /\ result'[v].to = result[v].to
             /\ v # w => result'[v] = result[v] /\ (v \in copies => v \in copies')
             /\ result[v].art = "copy" => result'[v].art = "copy" /\ (v \in copies => v \in copies')
  <2>1. IsResult(result[v]) /\ DOMAIN result = Works BY <1>1 DEF Shapes
  <2> QED BY <1>3, <1>4, <2>1 DEF IsResult, ResultStands
<1>6. DOMAIN result' = Works BY <1>1, <1>4 DEF Shapes
<1>7. hook'.todo = hook.todo /\ hook'.w = {} /\ IsHook' BY <1>1 DEF HookAttaches, Shapes, IsHook
<1>8. Shapes' BY <1>1, <1>2, <1>5, <1>6, <1>7 DEF Shapes, IsCarry, workVars
<1>9. \A v \in Works : WorkKnown(v)' BY <1>2, <1>5, StandingIsKnown DEF workVars, asideVars
<1>10. OnceEach' BY <1>2 DEF CarriedInv, OnceEach
<1>11. WrapperKnown'
  BY <1>1, <1>2, <1>5 DEF WrapperKnown, MemberKnown, NoRestart, Latest, workVars
<1>12. HookKnown' BY <1>1, <1>2, <1>3, <1>5, <1>7 DEF HookKnown, workVars
<1> QED BY <1>8, <1>9, <1>10, <1>11, <1>12 DEF CarriedInv

\* Only the hook copies for an agent: no row of one names an output of its own.
LEMMA CleanCopiesKeeps ==
  ASSUME CarriedInv, NEW w \in Works, CleanCopies(w) PROVE CarriedInv'
<1>1. Shapes /\ WrapperKnown /\ HookKnown /\ WorkKnown(w) BY DEF CarriedInv
<1>2. UNCHANGED <<family, item, gens, fences, restarts, inFolder, workVars, wrapper, hook, toldVars, asideVars>>
  BY DEF CleanCopies
<1>3. wrapper = "clean" /\ w \in carry.todo /\ carry.w = {} BY DEF CleanCopies
<1>4. family[w] # "agent" /\ result[w].to # "none"
  BY <1>1 DEF CleanCopies, HasOutput, ArtifactOf, Retained, MayGo, WorkKnown, LaunchKnown
<1>5. \/ result' = result /\ copies' = copies /\ carry' = [carry EXCEPT !.todo = @ \ {w}]
      \/ /\ result' = [result EXCEPT ![w].art = "copy"] /\ copies' = copies \cup {w}
         /\ carry' = [carry EXCEPT !.todo = @ \ {w}, !.w = {w}]
  BY DEF CleanCopies, Carries
<1>6. ASSUME NEW v \in Works
      PROVE  /\ ResultStands(v) /\ IsResult(result'[v]) /\ result'[v].to = result[v].to
             /\ family[v] = "agent" => result'[v] = result[v]
             /\ v \in copies => v \in copies'
  <2>1. IsResult(result[v]) /\ DOMAIN result = Works BY <1>1 DEF Shapes
  <2> QED BY <1>4, <1>5, <2>1 DEF IsResult, ResultStands
<1>7. DOMAIN result' = Works /\ (carry'.w # {} => result'[w].art = "copy")
  <2>1. IsResult(result[w]) /\ DOMAIN result = Works /\ DOMAIN carry = {"members", "todo", "w"}
    BY <1>1 DEF Shapes, IsCarry
  <2> QED BY <1>3, <1>5, <2>1 DEF IsResult
<1>8. carry'.todo = carry.todo \ {w} /\ carry'.w \subseteq {w} /\ IsCarry'
  BY <1>1, <1>3, <1>5 DEF Shapes, IsCarry
<1>9. Shapes' BY <1>1, <1>2, <1>6, <1>7, <1>8 DEF Shapes, IsHook, workVars
<1>10. \A v \in Works : WorkKnown(v)' BY <1>2, <1>6, StandingIsKnown DEF workVars, asideVars
<1>11. OnceEach' BY <1>2 DEF CarriedInv, OnceEach
<1>12. WrapperKnown'
  BY <1>1, <1>2, <1>3, <1>4, <1>6, <1>7, <1>8 DEF WrapperKnown
<1>13. HookKnown' BY <1>1, <1>2, <1>6 DEF HookKnown, workVars
<1> QED BY <1>9, <1>10, <1>11, <1>12, <1>13 DEF CarriedInv

\* A row goes once its result is there, with nothing but its own restart's file.
LEMMA DropKeepsWorks ==
  ASSUME CarriedInv, NEW w \in Works, Drop(w), item[w].st = "terminal",
         item[w].gen > 0 => result[w].to # "none",
         restarts' = restarts,
         \/ fences' = fences
         \/ fences' = fences \ {<<w, item[w].fence>>} /\ result[w].art # "relaunch",
         UNCHANGED <<family, result, gens, copies, truth, home, current, stampVars>>
  PROVE  /\ \A v \in Works : WorkKnown(v)' /\ IsItem(item'[v])
         /\ DOMAIN item' = Works
         /\ \A v \in Works : v # w => item'[v] = item[v]
         /\ ~IsOpen(item'[w])
<1>1. Shapes BY DEF CarriedInv
<1>2. DOMAIN item' = Works /\ item'[w] = NoItem /\ \A v \in Works : v # w => item'[v] = item[v]
  BY <1>1 DEF Drop, Shapes
<1>3. NoItem.st = "none" /\ NoItem.gen = 0 /\ NoItem.fence = 0 /\ NoItem.at = 0 /\ IsItem(NoItem)
  BY DEF NoItem, IsItem, ItemFields
<1> HIDE DEF NoItem
<1>4. ~IsOpen(item'[w]) BY <1>2, <1>3 DEF IsOpen
<1>5. ASSUME NEW v \in Works PROVE WorkKnown(v)' /\ IsItem(item'[v])
  <2>1. WorkKnown(v) /\ IsItem(item[v]) BY <1>1 DEF CarriedInv, Shapes
  <2>2. IsItem(item'[v]) BY <1>2, <1>3, <2>1
  <2>3. LaunchKnown(v)'
    BY <1>1, <1>2, <1>3, <2>1 DEF WorkKnown, LaunchKnown, Shapes
  <2>4. EndKnown(v)'
    BY <1>2, <1>3, <1>4, <2>1 DEF WorkKnown, EndKnown, stampVars
  <2>5. StampKnown(v)'
    BY <1>2, <1>3, <2>1 DEF WorkKnown, StampKnown, stampVars, IsOpen
  <2>6. OutputKnown(v)'
    <3>1. \A p \in fences : p[1] = v /\ p \notin fences' => v = w /\ result[w].art # "relaunch" OBVIOUS
    <3>2. Closed(item[v].gen)' => Closed(item[v].gen) \/ v = w
      BY <1>2 DEF Closed
    <3>3. ~Closed(0)' BY <1>1 DEF Closed, Shapes
    <3>4. Closed(item[v].gen)' => home[v] < current
      BY <1>2, <1>3, <2>1, <3>2, <3>3 DEF WorkKnown, OutputKnown
    <3>5. item'[v].fence # 0 => <<v, item'[v].fence>> \in fences'
      BY <1>2, <1>3, <2>1 DEF WorkKnown, OutputKnown
    <3>6. result[v].art = "relaunch" => \E p \in fences' : p[1] = v
      BY <2>1, <3>1 DEF WorkKnown, OutputKnown
    <3>7. IsOpen(item'[v]) => IsOpen(item[v]) BY <1>2, <1>4
    <3> QED BY <2>1, <3>4, <3>5, <3>6, <3>7 DEF WorkKnown, OutputKnown
  <2>7. RestartKnown(v)'
    BY <1>2, <1>4, <2>1 DEF WorkKnown, RestartKnown, NoRestart
  <2> QED BY <2>2, <2>3, <2>4, <2>5, <2>6, <2>7 DEF WorkKnown
<1> QED BY <1>2, <1>4, <1>5

LEMMA CleanDropsKeeps ==
  ASSUME CarriedInv, NEW w \in Works, CleanDrops(w) PROVE CarriedInv'
<1>1. Shapes /\ WrapperKnown /\ HookKnown BY DEF CarriedInv
<1>2. UNCHANGED <<family, result, gens, copies, restarts, inFolder, workVars, wrapper, hook, toldVars, asideVars>>
  BY DEF CleanDrops
<1>3. /\ wrapper = "clean" /\ w \in carry.w /\ Drop(w) /\ restarts \subseteq fences'
      /\ fences' \in {fences, fences \ {<<w, item[w].fence>>}}
  BY DEF CleanDrops
<1>4. item[w].st = "terminal" /\ result[w].to # "none" /\ result[w].art = "copy"
  BY <1>1, <1>3 DEF WrapperKnown
<1>5. UNCHANGED <<truth, home, current, stampVars>> BY <1>2 DEF workVars, asideVars
<1>6. /\ \A v \in Works : WorkKnown(v)' /\ IsItem(item'[v])
      /\ DOMAIN item' = Works /\ ~IsOpen(item'[w])
      /\ \A v \in Works : v # w => item'[v] = item[v]
  BY <1>2, <1>3, <1>4, <1>5, DropKeepsWorks
<1>7. carry'.todo = carry.todo /\ carry'.w = {} /\ carry'.members = carry.members /\ IsCarry'
  BY <1>1 DEF CleanDrops, Shapes, IsCarry
<1>8. Shapes' BY <1>1, <1>2, <1>5, <1>6, <1>7 DEF Shapes, IsHook
<1>9. OnceEach' BY <1>2 DEF CarriedInv, OnceEach
<1>10. WrapperKnown' BY <1>1, <1>2, <1>3, <1>6, <1>7 DEF WrapperKnown
<1>11. HookKnown' BY <1>1, <1>2, <1>5, <1>6 DEF HookKnown
<1> QED BY <1>6, <1>8, <1>9, <1>10, <1>11 DEF CarriedInv

LEMMA CleanOtherKeeps ==
  ASSUME CarriedInv, NEW w \in Works, CleanOther(w) PROVE CarriedInv'
<1>1. Shapes /\ WrapperKnown /\ HookKnown BY DEF CarriedInv
<1>2. UNCHANGED <<family, result, gens, outputVars, workVars, wrapper, hook, toldVars, settle, signalled, stampVars, used>>
  BY DEF CleanOther
<1>3. wrapper = "clean" /\ w \in carry.todo /\ Carries(w) BY DEF CleanOther
<1>4. item[w].st = "terminal" BY <1>1, <1>3 DEF WrapperKnown
<1>5. UNCHANGED <<copies, fences, restarts, truth, home, current, family, result, gens, stampVars>>
  BY <1>2 DEF outputVars, workVars
<1>7. /\ \A v \in Works : WorkKnown(v)' /\ IsItem(item'[v])
      /\ DOMAIN item' = Works /\ (~IsOpen(item[w]) => ~IsOpen(item'[w]))
      /\ \A v \in Works : v # w => item'[v] = item[v]
  <2>1. CASE UNCHANGED item
    <3>1. RowsStay /\ FilesStay
      BY <1>1, <1>5, <2>1, RestedRows DEF FilesStay, carriedStore
    <3> QED BY <1>1, <2>1, <3>1, StayedIsKnown DEF CarriedInv, Shapes
  <2>2. CASE Drop(w) /\ ~Retained(w)
    BY <1>4, <1>5, <2>2, DropKeepsWorks DEF Retained, MayGo
  <2> QED BY <2>1, <2>2 DEF CleanOther
<1>8. carry'.todo = carry.todo \ {w} /\ carry'.w = carry.w /\ carry'.members = carry.members /\ IsCarry'
  BY <1>1, <1>3 DEF Carries, Shapes, IsCarry
<1>9. Shapes' BY <1>1, <1>2, <1>5, <1>7, <1>8 DEF Shapes, IsHook
<1>10. OnceEach' BY <1>5 DEF CarriedInv, OnceEach
<1>11. WrapperKnown' BY <1>1, <1>2, <1>3, <1>5, <1>7, <1>8 DEF WrapperKnown
<1>12. HookKnown' BY <1>1, <1>2, <1>5, <1>7 DEF HookKnown
<1> QED BY <1>7, <1>9, <1>10, <1>11, <1>12 DEF CarriedInv

LEMMA LaunchWorkKeeps ==
  ASSUME CarriedInv, NEW w \in Works, LaunchWork(w) PROVE CarriedInv'
<1>1. Shapes /\ WrapperKnown /\ HookKnown BY DEF CarriedInv
<1>2. UNCHANGED <<family, result, gens, copies, fences, restarts, noted, claude, current, wrapper, carry, hook, toldVars, asideVars>>
  BY DEF LaunchWork
<1>3. /\ truth[w] = "idle" /\ truth' = [truth EXCEPT ![w] = "runs"]
      /\ home' = [home EXCEPT ![w] = current] /\ item' = [item EXCEPT ![w] = NewItem]
      /\ wrapper \in {"idle", "seam"}
  BY DEF LaunchWork, ChildUp
<1>4. /\ IsItem(NewItem) /\ IsOpen(NewItem)
      /\ NewItem.st = "active" /\ NewItem.gen = 0 /\ NewItem.fence = 0 /\ NewItem.at = 0
  BY DEF NewItem, NoItem, IsItem, ItemFields, IsOpen
<1> HIDE DEF NewItem
<1>5. /\ item'[w] = NewItem /\ truth'[w] = "runs" /\ home'[w] = current
      /\ \A v \in Works : v # w => item'[v] = item[v] /\ truth'[v] = truth[v] /\ home'[v] = home[v]
      /\ DOMAIN item' = Works
  BY <1>1, <1>3 DEF Shapes
<1>6. Shapes'
  <2>1. \A v \in Works : IsItem(item'[v]) BY <1>1, <1>4, <1>5 DEF Shapes
  <2>2. home' \in [Works -> Nat] BY <1>1, <1>3 DEF Shapes
  <2>3. truth' = [v \in Works |-> truth'[v]] BY <1>1, <1>3 DEF Shapes
  <2> QED BY <1>1, <1>2, <1>5, <2>1, <2>2, <2>3 DEF Shapes, IsCarry, IsHook
<1>7. ASSUME NEW v \in Works PROVE WorkKnown(v)'
  <2>1. WorkKnown(v) BY DEF CarriedInv
  <2>2. CASE v = w
    <3>1. item[w].st = "none" /\ result[w].to = "none" /\ result[w].art = "none" /\ NoRestart(w)
      BY <1>3, <2>1, <2>2 DEF WorkKnown, LaunchKnown, OutputKnown, RestartKnown
    <3>2. LaunchKnown(w)' BY <1>1, <1>2, <1>4, <1>5 DEF LaunchKnown, Shapes
    <3>3. EndKnown(w)' BY <1>2, <1>4, <1>5, <3>1 DEF EndKnown
    <3>4. StampKnown(w)'
      BY <1>2, <2>1, <2>2, <3>1 DEF WorkKnown, StampKnown, IsOpen, asideVars, stampVars
    <3>5. OutputKnown(w)' BY <1>1, <1>2, <1>4, <1>5, <3>1 DEF OutputKnown, Closed, Shapes
    <3>6. RestartKnown(w)' BY <1>2, <3>1 DEF RestartKnown, NoRestart
    <3> QED BY <2>2, <3>2, <3>3, <3>4, <3>5, <3>6 DEF WorkKnown
  <2>3. CASE v # w
    <3>1. LaunchKnown(v)' BY <1>2, <1>5, <2>1, <2>3 DEF WorkKnown, LaunchKnown
    <3>2. EndKnown(v)' /\ StampKnown(v)'
      BY <1>2, <1>5, <2>1, <2>3 DEF WorkKnown, EndKnown, StampKnown, asideVars, stampVars
    <3>3. OutputKnown(v)' BY <1>2, <1>5, <2>1, <2>3 DEF WorkKnown, OutputKnown, Closed
    <3>4. RestartKnown(v)' BY <1>2, <1>5, <2>1, <2>3 DEF WorkKnown, RestartKnown, NoRestart
    <3> QED BY <3>1, <3>2, <3>3, <3>4 DEF WorkKnown
  <2> QED BY <2>2, <2>3
<1>8. OnceEach' BY <1>2 DEF CarriedInv, OnceEach
<1>9. WrapperKnown'
  <2>1. \A v \in carry.members : v \in Works BY <1>1 DEF Shapes, IsCarry
  <2>2. wrapper = "seam" => \A v \in carry.members : MemberKnown(v)'
    BY <1>1, <1>2, <1>3, <1>5, <2>1 DEF WrapperKnown, MemberKnown, NoRestart
  <2> QED BY <1>1, <1>2, <1>3, <2>2 DEF WrapperKnown
<1>10. HookKnown'
  <2>1. w \notin hook.todo /\ w \notin hook.w BY <1>1, <1>3 DEF HookKnown
  <2> QED BY <1>1, <1>2, <1>5, <2>1 DEF HookKnown
<1> QED BY <1>6, <1>7, <1>8, <1>9, <1>10 DEF CarriedInv

\* A row that is made anew belongs to the current session, so nothing carried it.
LEMMA WrapperResumesKeeps ==
  ASSUME CarriedInv, WrapperResumes PROVE CarriedInv'
<1> DEFINE unknown == {w \in Works : home[w] = current /\ item[w].st = "none"}
           ended == EndedRow(NewItem, "completed")
<1>1. Shapes /\ WrapperKnown /\ HookKnown BY DEF CarriedInv
<1>2. UNCHANGED <<family, result, gens, outputVars, truth, home, noted, current, carry, hook, toldVars, settle, signalled, stamped, late>>
  BY DEF WrapperResumes
<1>3. /\ wrapper' = "idle" /\ again' = again \cup unknown
      /\ item' = [w \in Works |-> IF w \notin unknown THEN item[w]
                                  ELSE IF w \in noted THEN ended ELSE NewItem]
  BY DEF WrapperResumes
<1>4. \A row \in {NewItem, ended} :
        /\ IsItem(row) /\ row.st \in {"active", "terminal"}
        /\ row.gen = 0 /\ row.fence = 0 /\ row.at = 0
  <2>1. IsItem(NewItem) /\ NewItem.st = "active" /\ NewItem.gen = 0 /\ NewItem.fence = 0 /\ NewItem.at = 0
    BY DEF NewItem, NoItem, IsItem, ItemFields
  <2> HIDE DEF NewItem
  <2>2. IsItem(ended) /\ ended.st = "terminal" /\ ended.gen = 0 /\ ended.fence = 0 /\ ended.at = 0
    BY <2>1 DEF EndedRow, IsItem, ItemFields, IsOpen
  <2> QED BY <2>1, <2>2
<1> HIDE DEF NewItem, ended
<1>5. ASSUME NEW w \in Works
      PROVE  /\ IsItem(item'[w])
             /\ \/ item'[w] = item[w] /\ (w \in again' => w \in again \/ item[w].st = "none")
                \/ /\ home[w] = current /\ item[w].st = "none" /\ w \in again' /\ truth[w] # "idle"
                   /\ item'[w] \in {NewItem, ended}
  <2>1. LaunchKnown(w) BY DEF CarriedInv, WorkKnown
  <2>2. CASE w \in unknown
    <3>1. home[w] = current /\ item[w].st = "none" /\ truth[w] # "idle"
      BY <1>1, <2>1, <2>2 DEF LaunchKnown, Shapes
    <3>2. item'[w] \in {NewItem, ended} BY <1>3, <2>2
    <3> QED BY <1>3, <1>4, <2>2, <3>1, <3>2
  <2>3. CASE w \notin unknown
    <3>1. item'[w] = item[w] BY <1>3, <2>3
    <3> HIDE DEF unknown
    <3> QED BY <1>1, <1>3, <2>3, <3>1 DEF Shapes
  <2> QED BY <2>2, <2>3
<1>6. DOMAIN item' = Works /\ again \subseteq again' BY <1>3
<1> HIDE DEF unknown
<1>7. Shapes' BY <1>1, <1>2, <1>5, <1>6 DEF Shapes, IsCarry, IsHook
<1>8. ASSUME NEW w \in Works PROVE WorkKnown(w)'
  <2>1. WorkKnown(w) BY DEF CarriedInv
  <2>2. LaunchKnown(w)'
    BY <1>1, <1>2, <1>4, <1>5, <2>1 DEF WorkKnown, LaunchKnown, Shapes
  <2>3. EndKnown(w)' BY <1>2, <1>5, <1>6, <2>1 DEF WorkKnown, EndKnown
  <2>4. StampKnown(w)' BY <1>2, <1>5, <2>1 DEF WorkKnown, StampKnown, IsOpen
  <2>5. OutputKnown(w)'
    <3>1. ~Closed(0)' BY <1>1, <1>2 DEF Closed, Shapes
    <3>2. Closed(item[w].gen)' => home'[w] < current'
      BY <1>2, <1>4, <1>5, <2>1, <3>1 DEF WorkKnown, OutputKnown, Closed
    <3>3. home[w] = current => ~(home[w] < current) BY <1>1 DEF Shapes
    <3> QED BY <1>2, <1>4, <1>5, <2>1, <3>2, <3>3 DEF WorkKnown, OutputKnown, outputVars
  <2>6. RestartKnown(w)'
    <3>1. home[w] = current => ~(home[w] < current) BY <1>1 DEF Shapes
    <3> QED BY <1>2, <1>5, <2>1, <3>1 DEF WorkKnown, RestartKnown, NoRestart, outputVars
  <2> QED BY <2>2, <2>3, <2>4, <2>5, <2>6 DEF WorkKnown
<1>9. OnceEach' BY <1>2 DEF CarriedInv, OnceEach, outputVars
<1>10. WrapperKnown' BY <1>3 DEF WrapperKnown
<1>11. HookKnown'
  <2>1. \A w \in Works : home[w] < current /\ ~IsOpen(item[w]) => ~IsOpen(item'[w])
    <3>1. \A w \in Works : home[w] = current => ~(home[w] < current) BY <1>1 DEF Shapes
    <3> QED BY <1>5, <3>1
  <2> QED BY <1>1, <1>2, <2>1 DEF HookKnown, outputVars
<1> QED BY <1>7, <1>8, <1>9, <1>10, <1>11 DEF CarriedInv

------------------------------------------------------------------------------
(* The invariant.                                                           *)

LEMMA CarriedStarts == CarriedInit => CarriedInv
<1> SUFFICES ASSUME CarriedInit PROVE CarriedInv OBVIOUS
<1>1. /\ item = [w \in Works |-> NoItem] /\ result = [w \in Works |-> NoResult] /\ gens = <<>>
      /\ restarts = {} /\ stamped = {} /\ late = {} /\ wrapper = "idle" /\ current = 1
      /\ truth = [w \in Works |-> "idle"] /\ home = [w \in Works |-> 0]
      /\ carry = NoCarry /\ hook = NoHook
  BY DEF CarriedInit
<1>2. /\ IsItem(NoItem) /\ NoItem.st = "none" /\ NoItem.gen = 0 /\ NoItem.fence = 0 /\ NoItem.at = 0
      /\ IsResult(NoResult) /\ NoResult.to = "none" /\ NoResult.art = "none"
      /\ ~IsOpen(NoItem)
  BY DEF NoItem, NoResult, IsItem, IsResult, ItemFields, IsOpen
<1>3. IsCarry /\ IsHook /\ hook.todo = {} /\ hook.w = {}
  BY <1>1 DEF NoCarry, NoHook, IsCarry, IsHook
<1>4. Shapes BY <1>1, <1>2, <1>3 DEF Shapes
<1>5. ASSUME NEW w \in Works PROVE WorkKnown(w)
  BY <1>1, <1>2
     DEF WorkKnown, LaunchKnown, EndKnown, StampKnown, OutputKnown, RestartKnown, NoRestart, Closed
<1>6. OnceEach /\ WrapperKnown /\ HookKnown BY <1>1, <1>3 DEF OnceEach, WrapperKnown, HookKnown
<1> QED BY <1>4, <1>5, <1>6 DEF CarriedInv

LEMMA UnchangedKeeps == CarriedInv /\ UNCHANGED carriedVars => CarriedInv'
<1> SUFFICES ASSUME CarriedInv, UNCHANGED carriedVars PROVE CarriedInv' OBVIOUS
<1>1. UNCHANGED <<family, carriedStore, truth, home, current, stampVars, wrapper, carry, copies, fences, restarts, hook>>
  BY DEF carriedVars, outputVars, workVars, asideVars
<1>2. Shapes /\ HookKnown BY DEF CarriedInv
<1>3. IsHook' /\ FilesStay BY <1>1, <1>2 DEF Shapes, IsHook, FilesStay
<1>4. HookKnown' BY <1>1, <1>2 DEF HookKnown, carriedStore
<1> QED BY <1>1, <1>3, <1>4, HookStepInv

LEMMA CarriedSteps == CarriedInv /\ [CarriedNext]_carriedVars => CarriedInv'
<1> SUFFICES ASSUME CarriedInv, [CarriedNext]_carriedVars PROVE CarriedInv' OBVIOUS
<1>1. ASSUME NEW w \in Works,
             LaunchWork(w) \/ WorkEnds(w) \/ SeeEnd(w) \/ CarryOver(w) \/ RestartMonitor(w)
             \/ HookStep(w) \/ Deliver(w) \/ StopSignals(w) \/ StopRecords(w) \/ StopMonitor(w)
             \/ CleanCopies(w) \/ CleanDrops(w) \/ CleanOther(w)
      PROVE  CarriedInv'
  BY <1>1, LaunchWorkKeeps, WorkEndsKeeps, SeeEndKeeps, CarryOverKeeps, RestartMonitorKeeps,
     HookCopiesAnswerKeeps, HookRecordsAnswerKeeps, HookAttachesKeeps, HookInterruptsKeeps,
     HookSettlesKeeps, DeliverKeeps, StopSignalsKeeps, StopRecordsKeeps, StopMonitorKeeps,
     CleanCopiesKeeps, CleanDropsKeeps, CleanOtherKeeps DEF HookStep
<1>2. ASSUME NEW p \in Works \X GenerationIds, MonitorExits(p) PROVE CarriedInv'
  BY <1>2, MonitorExitsKeeps
<1>3. ASSUME NEW readable \in BOOLEAN, NEW pins \in BOOLEAN, NEW found \in SUBSET Works,
             AcceptSeam(readable, found, pins)
      PROVE  CarriedInv'
  BY <1>3, AcceptSeamKeeps
<1>4. ASSUME NEW keeps \in BOOLEAN, SwapChild(keeps) PROVE CarriedInv' BY <1>4, SwapChildKeeps
<1>5. CASE Allocate \/ SeamFails \/ RecordRestart \/ CloseSnapshot
  BY <1>5, AllocateKeeps, SeamFailsKeeps, RecordRestartKeeps, CloseSnapshotKeeps
<1>6. CASE Prompt \/ HookReconciles \/ HookCarriesHelpers \/ HookLists \/ HookPrints \/ HookDies
  BY <1>6, PromptKeeps, HookReconcilesKeeps, HookCarriesHelpersKeeps, HookListsKeeps, HookEndsKeeps
<1>7. CASE SettleHost \/ WrapperExits \/ CleanBegins \/ CleanEnds \/ WrapperCrashes \/ WrapperResumes
  BY <1>7, SettleHostKeeps, WrapperExitsKeeps, CleanBeginsKeeps, CleanEndsKeeps,
     WrapperCrashesKeeps, WrapperResumesKeeps
<1>8. CASE UNCHANGED carriedVars BY <1>8, UnchangedKeeps
<1> QED BY <1>1, <1>2, <1>3, <1>4, <1>5, <1>6, <1>7, <1>8 DEF CarriedNext

\* The rows, the files and the lists of those who act on them agree at every step: the
\* invariant the rest follows from.
THEOREM CarriedInvariant == CarriedSpec => []CarriedInv
BY CarriedStarts, CarriedSteps, PTL DEF CarriedSpec

\* Carried work leaves a result when it ends, whoever ends it, and no row goes before its
\* result is there (insertResult in recordTerminal, cleanupThread).
THEOREM CarriedWorkLeavesResult == CarriedSpec => []WorkLeavesResult
<1>1. CarriedInv => WorkLeavesResult BY DEF CarriedInv, WorkKnown, StampKnown, WorkLeavesResult
<1> QED BY <1>1, CarriedInvariant, PTL

\* What a result points at is a file: the output of a restart until it is copied, and the
\* copy from then on (setResultArtifact, and the removals of hook and cleanup).
THEOREM ResultsPointAtFiles == CarriedSpec => []OutputIsThere
<1>1. CarriedInv => OutputIsThere BY DEF CarriedInv, WorkKnown, OutputKnown, OutputIsThere
<1> QED BY <1>1, CarriedInvariant, PTL

\* Of all that see the end of one work the first decides, and the row and the result say the
\* same of it (terminalizeItem).
THEOREM RowAndResultAgree == CarriedSpec => []OutcomesAgree
<1>1. CarriedInv => OutcomesAgree BY DEF CarriedInv, WorkKnown, EndKnown, OutcomesAgree
<1> QED BY <1>1, CarriedInvariant, PTL

\* A monitor is restarted once, however many handoffs, failed seams and starts follow
\* (invokeCarryover, allocateOutput).
THEOREM MonitorRestartedOnce == CarriedSpec => []OneRestart
<1>1. ASSUME CarriedInv, NEW w \in Works PROVE Cardinality({p \in restarts : p[1] = w}) <= 1
  <2> DEFINE mine == {p \in restarts : p[1] = w}
  <2>1. \A p, q \in mine : p = q BY <1>1 DEF CarriedInv, OnceEach
  <2>2. CASE mine = {} BY <2>2, FS_EmptySet
  <2>3. ASSUME NEW p \in mine PROVE Cardinality(mine) = 1
    <3>1. mine = {p} BY <2>1, <2>3
    <3> QED BY <3>1, FS_Singleton
  <2> QED BY <2>2, <2>3
<1>2. CarriedInv => OneRestart BY <1>1 DEF OneRestart
<1> QED BY <1>2, CarriedInvariant, PTL

\* Only the swap, the settling of the host and the end of the wrapper end what runs.
LEMMA TruthRests ==
  ASSUME CarriedInv, [CarriedNext]_carriedVars, NEW w \in Works, truth[w] = "runs",
         wrapper' \notin {"stop", "down"}
  PROVE  \/ truth'[w] \in {"runs", "done"}
         \/ SettleHost
         \/ \E keeps \in BOOLEAN : SwapChild(keeps)
<1>1. truth = [v \in Works |-> truth[v]] BY DEF CarriedInv, Shapes
<1>2. CASE UNCHANGED carriedVars BY <1>2 DEF carriedVars, workVars
<1>3. ASSUME NEW v \in Works, LaunchWork(v) PROVE truth'[w] \in {"runs", "done"}
  BY <1>1, <1>3 DEF LaunchWork
<1>4. ASSUME NEW v \in Works, WorkEnds(v) PROVE truth'[w] \in {"runs", "done"}
  BY <1>1, <1>4 DEF WorkEnds
<1>5. ASSUME NEW v \in Works,
             SeeEnd(v) \/ CarryOver(v) \/ RestartMonitor(v) \/ HookStep(v) \/ Deliver(v)
             \/ StopSignals(v) \/ StopRecords(v) \/ StopMonitor(v)
             \/ CleanCopies(v) \/ CleanDrops(v) \/ CleanOther(v)
      PROVE  UNCHANGED truth
  BY <1>5 DEF SeeEnd, CarryOver, RestartMonitor, HookStep, HookCopiesAnswer, HookRecordsAnswer,
     HookAttaches, HookInterrupts, HookSettles, Deliver, StopSignals, StopRecords, StopMonitor,
     CleanCopies, CleanDrops, CleanOther, workVars
<1>6. ASSUME NEW p \in Works \X GenerationIds, MonitorExits(p) PROVE UNCHANGED truth
  BY <1>6 DEF MonitorExits, workVars
<1>7. ASSUME NEW readable \in BOOLEAN, NEW pins \in BOOLEAN, NEW found \in SUBSET Works,
             AcceptSeam(readable, found, pins)
      PROVE  UNCHANGED truth
  BY <1>7 DEF AcceptSeam, workVars
<1>8. CASE Allocate \/ SeamFails \/ RecordRestart \/ CloseSnapshot \/ Prompt \/ HookReconciles
           \/ HookCarriesHelpers \/ HookLists \/ HookPrints \/ HookDies \/ CleanBegins \/ CleanEnds
           \/ WrapperResumes
  <2>1. UNCHANGED truth
    BY <1>8 DEF Allocate, SeamFails, RecordRestart, CloseSnapshot, Prompt, HookReconciles,
       HookCarriesHelpers, HookLists, HookPrints, HookDies, CleanBegins, CleanEnds,
       WrapperResumes, workVars
  <2> QED BY <2>1
<1>9. CASE WrapperExits \/ WrapperCrashes
  <2>1. wrapper' \in {"stop", "down"} BY <1>9 DEF WrapperExits, WrapperCrashes
  <2> QED BY <2>1
<1> QED BY <1>2, <1>3, <1>4, <1>5, <1>6, <1>7, <1>8, <1>9 DEF CarriedNext

\* A shell that runs under the child of an earlier session is not ended by the wrapper before
\* its row is, unless the wrapper itself ends (settleRetainedHost).
THEOREM RetainedShellsRunOn == CarriedSpec => HostOutlivesShells
<1> DEFINE A == \A w \in Works :
              Adopted(w) /\ truth[w] = "runs" /\ home[w] # current /\ wrapper' \notin {"stop", "down"}
              => truth'[w] \in {"runs", "done"}
<1>1. ASSUME CarriedInv, [CarriedNext]_carriedVars, NEW w \in Works,
             Adopted(w), truth[w] = "runs", home[w] # current, wrapper' \notin {"stop", "down"}
      PROVE  truth'[w] \in {"runs", "done"}
  <2>1. CASE SettleHost
    <3>1. NeedsHost(w) BY <1>1 DEF NeedsHost
    <3>2. UNCHANGED truth BY <2>1, <3>1 DEF SettleHost
    <3> QED BY <1>1, <3>2
  <2>2. ASSUME NEW keeps \in BOOLEAN, SwapChild(keeps) PROVE truth'[w] \in {"runs", "done"}
    <3>1. truth' = truth \/ truth' = After(current, FALSE) BY <2>2 DEF SwapChild
    <3> QED BY <1>1, <3>1 DEF After
  <2> QED BY <1>1, <2>1, <2>2, TruthRests
<1>2. CarriedInv /\ [CarriedNext]_carriedVars => [A]_carriedVars BY <1>1
<1> QED BY <1>2, CarriedInvariant, PTL DEF CarriedSpec, HostOutlivesShells
=============================================================================
