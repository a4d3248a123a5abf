--------------------------- MODULE SessionLineage ---------------------------
(***************************************************************************)
(* Which native Claude session a thread continues on.  A thread gathers     *)
(* many sessions over its life: every Smart Compact writes a new one.  The  *)
(* registry binds each session to its thread, for good, and points at the   *)
(* thread's current session; the host's own database keeps a lineage row    *)
(* per session (whose prefix was rebuilt, and whether the swap to it was    *)
(* accepted) and, when the pointer could not be written, a pending          *)
(* acceptance.  Two stores, so nothing is written to both at once.          *)
(*                                                                         *)
(* A wrapper resolves the session it is asked for to a thread, takes the    *)
(* thread's lease, settles a pending acceptance, lands on the current       *)
(* session, sweeps abandoned rebuilds, and goes through swaps.  Every       *)
(* access to a store is a step, may fail, and may be the wrapper's last.    *)
(* The lease itself is the subject of ThreadOwner.                          *)
(***************************************************************************)
EXTENDS Naturals, Sequences, SequencesExt

CONSTANTS
  Wrapper,      \* wrapper processes
  Thread,       \* thread ids
  Session,      \* native session ids
  None,         \* no thread, no session
  Foreign,      \* an alias of another host
  Legacy,       \* lineage rows from before the registry, and sessions never wrapped
  MaxFaults,    \* bound: accesses to a store that fail
  MaxCrashes,   \* bound: wrappers killed
  MaxResumes,   \* bound: launches
  MaxHandovers  \* bound: threads bound to another session or host from outside

ASSUME LineageAssumption ==
  /\ {None, Foreign} \cap (Thread \cup Session) = {}
  /\ {MaxFaults, MaxCrashes, MaxResumes, MaxHandovers} \subseteq Nat

\* The lineage table of an older version: a session is its primary key.
OldRow == [session : Session, thread : Thread, prefix : {"none", "verified", "unknown"},
           accepted : BOOLEAN]

ASSUME LegacyAssumption ==
  \A old \in Legacy :
    /\ old.rows \in Seq(OldRow)
    /\ \A m, n \in 1..Len(old.rows) : old.rows[m].session = old.rows[n].session => m = n

VARIABLES
  alias,       \* thread_alias: the thread of a session
  current,     \* thread_current_alias: the session of a thread
  rows,        \* cc_session_lineage, by updated_at
  pending,     \* cc_pending_current_session
  transcript,  \* the transcript of a session: absent, there or moved aside
  wrapper,     \* what each wrapper holds in memory
  owner,       \* the wrapper that owns a thread
  accepted,    \* history: the session each thread was last accepted on
  unrecorded,  \* history: sessions accepted while neither store could be told
  tally        \* faults, crashes, launches and handovers so far

lineageVars ==
  <<alias, current, rows, pending, transcript, wrapper, owner, accepted, unrecorded, tally>>

stores == <<alias, current, rows, pending, transcript>>

history == <<accepted, unrecorded>>

-----------------------------------------------------------------------------
(* The lineage database.                                                   *)

Row(s, t, p, a) == [session |-> s, thread |-> t, prefix |-> p, accepted |-> a]

HasRow(s) == \E n \in 1..Len(rows) : rows[n].session = s

\* A session has one row: it is the primary key.
RowAt(s) == CHOOSE n \in 1..Len(rows) : rows[n].session = s

RowOf(s) == rows[RowAt(s)]

Others(s) == IF HasRow(s) THEN RemoveAt(rows, RowAt(s)) ELSE rows

\* recordSessionThread with a prefix: insert, or replace everything.
Put(s, t, p, a) == Append(Others(s), Row(s, t, p, a))

\* recordSessionThread without one only touches a row that exists.
Touch(s, t) ==
  IF HasRow(s) THEN Append(Others(s), [RowOf(s) EXCEPT !.thread = t]) ELSE rows

Mark(s) == [n \in 1..Len(rows) |->
              IF rows[n].session = s THEN [rows[n] EXCEPT !.accepted = TRUE] ELSE rows[n]]

\* Which of the listed rows say that a session of t was accepted.
AcceptedOf(t, list) == {n \in 1..Len(list) : list[n].thread = t /\ list[n].accepted}

Newest(N) == CHOOSE n \in N : \A m \in N : m <= n

Oldest(N) == CHOOSE n \in N : \A m \in N : n <= m

Rebuilt == {rows[n].session : n \in {k \in 1..Len(rows) : rows[k].prefix = "verified"}}

NoPending == [session |-> None, previous |-> None]

(* The registry.  An alias never rebinds.                                  *)

\* Faulty variant: a session moves to the thread that asks last.
BindableAgain(s, t) == t # None

Bindable(s, t) == alias[s] \in {None, t}

RegisterAlias(s, t) == /\ Bindable(s, t)
                       /\ alias' = [alias EXCEPT ![s] = t]
                       /\ UNCHANGED current

RegisterCurrent(s, t) == /\ Bindable(s, t)
                         /\ alias' = [alias EXCEPT ![s] = t]
                         /\ current' = [current EXCEPT ![t] = s]

registry == <<alias, current>>

-----------------------------------------------------------------------------
(* Memory and faults.                                                      *)

Down == [pc |-> "down", session |-> None, thread |-> None, class |-> "existing", seen |-> None,
         due |-> None, todo |-> <<>>, next |-> None, of |-> None, captured |-> FALSE]

LineageInit ==
  /\ \E old \in Legacy :
       /\ rows = old.rows
       /\ transcript = [s \in Session |-> IF HasRow(s) \/ s \in old.native THEN "there" ELSE "absent"]
  /\ alias = [s \in Session |-> None]
  /\ current = [t \in Thread |-> None]
  /\ pending = [t \in Thread |-> NoPending]
  /\ wrapper = [w \in Wrapper |-> Down]
  /\ owner = [t \in Thread |-> None]
  /\ accepted = [t \in Thread |-> IF AcceptedOf(t, rows) = {} THEN None
                                  ELSE rows[Newest(AcceptedOf(t, rows))].session]
  /\ unrecorded = {}
  /\ tally = [faults |-> 0, crashes |-> 0, launches |-> 0, handovers |-> 0]

AtStep(w, pc) == wrapper[w].pc = pc

Thr(w) == wrapper[w].thread

Become(w, m) == wrapper' = [wrapper EXCEPT ![w] = m]

Goes(w, pc) == Become(w, [wrapper[w] EXCEPT !.pc = pc])

Fine == UNCHANGED tally

Fault == tally.faults < MaxFaults /\ tally' = [tally EXCEPT !.faults = @ + 1]

\* A write to the lineage database, which the code logs and goes on without.
Writes(rs) == (rows' = rs /\ Fine) \/ (rows' = rows /\ Fault)

\* The wrapper ends; its lease is released, or found dead by the next.
Ends(w) == /\ Become(w, Down)
           /\ owner' = [t \in Thread |-> IF owner[t] = w THEN None ELSE owner[t]]

\* A store that cannot be used ends a launch at these points.
Unavailable(w) == /\ wrapper[w].pc \in {"resolve", "lookup", "import", "create", "claim", "current"}
                  /\ Fault
                  /\ Ends(w)
                  /\ UNCHANGED <<stores, history>>

-----------------------------------------------------------------------------
(* A launch: from a session to its thread.                                 *)

NeverUsed(s) == /\ transcript[s] = "absent"
                /\ alias[s] = None
                /\ ~ HasRow(s)
                /\ \A w \in Wrapper : s \notin {wrapper[w].session, wrapper[w].next}

Unused(t) == /\ \A s \in Session : alias[s] # t
             /\ \A n \in 1..Len(rows) : rows[n].thread # t
             /\ \A w \in Wrapper : Thr(w) # t

\* A resumed session has a transcript; a new one gets its id before it has any.  Nobody
\* resumes a rebuild whose swap is under way: its id has not been shown yet.
Launch(w, s) ==
  /\ AtStep(w, "down")
  /\ tally.launches < MaxResumes
  /\ tally' = [tally EXCEPT !.launches = @ + 1]
  /\ transcript[s] = "there" \/ NeverUsed(s)
  /\ \A v \in Wrapper : wrapper[v].next # s
  /\ Become(w, [Down EXCEPT !.pc = "resolve", !.session = s,
                            !.class = IF transcript[s] = "there" THEN "existing" ELSE "fresh"])
  /\ UNCHANGED <<stores, owner, history>>

\* The launch continues thread t.
Continues(w, t) ==
  Become(w, [wrapper[w] EXCEPT !.pc = "lease", !.thread = t, !.class = "continued", !.todo = <<>>])

Resolve(w) ==
  /\ AtStep(w, "resolve")
  /\ IF alias[wrapper[w].session] # None
     THEN Continues(w, alias[wrapper[w].session])
     ELSE Goes(w, "lookup")
  /\ UNCHANGED <<stores, owner, history, tally>>

\* The accepted sessions of the thread are imported into the registry, unless the launch
\* names a rebuild that was never accepted and the registry knows the thread already.
Lookup(w) ==
  /\ AtStep(w, "lookup")
  /\ LET s == wrapper[w].session
         t == RowOf(s).thread
     IN  \/ ~ HasRow(s) /\ Goes(w, "create")
         \/ /\ HasRow(s)
            /\ IF (~ RowOf(s).accepted /\ current[t] # None) \/ AcceptedOf(t, rows) = {}
               THEN Continues(w, t)
               ELSE Become(w, [wrapper[w] EXCEPT !.pc = "import", !.thread = t, !.todo = rows])
  /\ UNCHANGED <<stores, owner, history, tally>>

\* Faulty variant: from the newest to the oldest.
NewestFirst(N) == Newest(N)

\* The order in which an import goes through the rows it has read (threadSessionRows).
NextOf(N) == Oldest(N)

\* One registration of importLegacyLineage: the last session becomes the current one, an
\* alias of another thread is skipped.  An alias never rebinds, so reading the imported
\* alias back is part of the last registration.
Import(w) ==
  /\ AtStep(w, "import")
  /\ LET t == Thr(w)
         todo == wrapper[w].todo
         n == NextOf(AcceptedOf(t, todo))
         s == todo[n].session
         last == AcceptedOf(t, todo) = {n}
         asked == wrapper[w].session
     IN  /\ \/ last /\ RegisterCurrent(s, t)
            \/ ~ last /\ RegisterAlias(s, t)
            \/ ~ Bindable(s, t) /\ UNCHANGED registry
         /\ IF last
            THEN Continues(w, IF alias'[asked] = None THEN t ELSE alias'[asked])
            ELSE Become(w, [wrapper[w] EXCEPT !.todo = RemoveAt(todo, n)])
  /\ UNCHANGED <<rows, pending, transcript, owner, history, tally>>

Create(w, t) ==
  /\ AtStep(w, "create")
  /\ Unused(t)
  /\ Become(w, [wrapper[w] EXCEPT !.pc = "claim", !.thread = t])
  /\ UNCHANGED <<stores, owner, history, tally>>

\* Of two launches of one unknown session, the second continues the thread of the first.
Claim(w) ==
  /\ AtStep(w, "claim")
  /\ LET s == wrapper[w].session
         t == Thr(w)
     IN  \/ /\ RegisterCurrent(s, t)
            /\ accepted' = [accepted EXCEPT ![t] = s]
            /\ Goes(w, "lease")
         \/ /\ ~ Bindable(s, t)
            /\ Continues(w, alias[s])
            /\ UNCHANGED <<registry, accepted>>
  /\ UNCHANGED <<rows, pending, transcript, owner, unrecorded, tally>>

Acquire(w) ==
  /\ AtStep(w, "lease")
  /\ \/ /\ owner[Thr(w)] = None
        /\ owner' = [owner EXCEPT ![Thr(w)] = w]
        /\ Become(w, [wrapper[w] EXCEPT !.pc = "current",
                        !.due = IF current[Thr(w)] = None THEN None ELSE accepted[Thr(w)]])
     \/ /\ owner[Thr(w)] # None
        /\ Ends(w)
  /\ UNCHANGED <<stores, history, tally>>

-----------------------------------------------------------------------------
(* Under the lease: the session to land on.                                *)

ReadCurrent(w) ==
  /\ AtStep(w, "current")
  /\ Become(w, [wrapper[w] EXCEPT !.pc = "reconcile", !.seen = current[Thr(w)]])
  /\ UNCHANGED <<stores, owner, history, tally>>

\* The thread's current session, when it has one of this host, else the one asked for.
LandsOn(w, s, pc) ==
  Become(w, [wrapper[w] EXCEPT !.pc = pc, !.session = IF s \in Session THEN s ELSE @, !.seen = None])

\* A pending acceptance repairs exactly the predecessor it saw.
Repairs(w) ==
  LET p == pending[Thr(w)]
  IN  /\ p # NoPending
      /\ p.session # wrapper[w].seen
      /\ p.previous # None
      /\ p.previous = wrapper[w].seen

Reconcile(w) ==
  /\ AtStep(w, "reconcile")
  /\ LET t == Thr(w)
         p == pending[t]
     IN  \/ /\ (p = NoPending /\ Fine) \/ Fault          \* none, or unreadable
            /\ LandsOn(w, wrapper[w].seen, "sweep")
            /\ UNCHANGED registry
         \/ /\ p # NoPending /\ ~ Repairs(w) /\ Fine
            /\ LandsOn(w, wrapper[w].seen, "settle")
            /\ UNCHANGED registry
         \/ /\ Repairs(w) /\ Fine
            /\ RegisterCurrent(p.session, t)
            /\ LandsOn(w, p.session, "settle")
         \/ /\ Repairs(w) /\ ~ Bindable(p.session, t) /\ Fine
            /\ LandsOn(w, wrapper[w].seen, "settle")
            /\ UNCHANGED registry
         \/ /\ Repairs(w) /\ Fault                      \* retried at the next launch
            /\ LandsOn(w, p.session, "sweep")
            /\ UNCHANGED registry
  /\ UNCHANGED <<rows, pending, transcript, owner, history>>

\* Only the owner writes a thread's pending acceptance.
Settle(w) ==
  /\ AtStep(w, "settle")
  /\ \/ pending' = [pending EXCEPT ![Thr(w)] = NoPending] /\ Fine
     \/ UNCHANGED pending /\ Fault
  /\ Goes(w, "sweep")
  /\ UNCHANGED <<registry, rows, transcript, owner, history>>

-----------------------------------------------------------------------------
(* The launch sweep, of one rebuilt session at most.  Each fact is read by  *)
(* itself; a lookup that fails keeps the file.  That the file is old enough *)
(* is left open.                                                            *)

Keeps(w) == Become(w, [wrapper[w] EXCEPT !.pc = "bind", !.next = None, !.of = None])

\* Nobody else owns the thread, and no live wrapper is on the session.
SweepOwner(w) ==
  /\ AtStep(w, "sweep")
  /\ \/ Keeps(w)
     \/ \E r \in Rebuilt :
          /\ transcript[r] = "there"
          /\ owner[RowOf(r).thread] \in {None, w}
          /\ \A v \in Wrapper : ~ (AtStep(v, "live") /\ wrapper[v].session = r)
          /\ Become(w, [wrapper[w] EXCEPT !.pc = "known", !.next = r, !.of = RowOf(r).thread])
  /\ UNCHANGED <<stores, owner, history, tally>>

SweepAlias(w) ==
  /\ AtStep(w, "known")
  /\ \/ alias[wrapper[w].next] = None /\ Goes(w, "pointer") /\ Fine
     \/ alias[wrapper[w].next] # None /\ Keeps(w) /\ Fine
     \/ Keeps(w) /\ Fault
  /\ UNCHANGED <<stores, owner, history>>

\* Faulty variant: a thread without a pointer has moved on as well.
PointsAway(t, r) == current[t] # r

\* The thread has a pointer, and it names another session.
MovedOn(t, r) == current[t] \notin {None, Foreign, r}

SweepPointer(w) ==
  /\ AtStep(w, "pointer")
  /\ LET moved == MovedOn(wrapper[w].of, wrapper[w].next)
     IN  \/ moved /\ Goes(w, "awaits") /\ Fine
         \/ ~ moved /\ Keeps(w) /\ Fine
         \/ Keeps(w) /\ Fault
  /\ UNCHANGED <<stores, owner, history>>

\* The rebuild was accepted and waits for the next launch of its thread.
Awaits(t, r) == pending[t].session = r

SweepPending(w) ==
  /\ AtStep(w, "awaits")
  /\ LET r == wrapper[w].next
         waits == Awaits(wrapper[w].of, r)
     IN  \/ ~ waits /\ Fine /\ transcript' = [transcript EXCEPT ![r] = "moved"]
         \/ waits /\ Fine /\ UNCHANGED transcript
         \/ Fault /\ UNCHANGED transcript
  /\ Keeps(w)
  /\ UNCHANGED <<registry, rows, pending, owner, history>>

-----------------------------------------------------------------------------
(* The capture of the session the child runs on.                           *)

\* The row decides whether the transcript may be captured: a new thread of a new session
\* starts without a rebuilt prefix, any other session must have a row that says so.
Bind(w) ==
  /\ AtStep(w, "bind")
  /\ LET s == wrapper[w].session
         t == Thr(w)
         class == wrapper[w].class
         prefix == IF class = "fresh" THEN "none"
                   ELSE IF class = "continued" /\ HasRow(s) THEN RowOf(s).prefix ELSE "unknown"
         record == IF class = "continued" THEN Touch(s, t) ELSE Put(s, t, prefix, TRUE)
         live == [wrapper[w] EXCEPT !.pc = "live", !.captured = (prefix # "unknown")]
     IN  \/ /\ transcript[s] # "moved"
            /\ \/ rows' = record /\ Become(w, live) /\ Fine
               \/ rows' = rows /\ Become(w, [live EXCEPT !.captured = FALSE]) /\ Fault
            /\ transcript' = [transcript EXCEPT ![s] = "there"]
            /\ UNCHANGED owner
         \/ transcript[s] = "moved" /\ Ends(w) /\ UNCHANGED <<rows, transcript, tally>>
  /\ UNCHANGED <<registry, pending, history>>

-----------------------------------------------------------------------------
(* A swap.                                                                 *)

\* The rebuilt session is reserved for the thread before its transcript is written.
Reserve(w, r) ==
  /\ AtStep(w, "live")
  /\ wrapper[w].captured
  /\ NeverUsed(r)
  /\ Writes(Put(r, Thr(w), "verified", FALSE))
  /\ Become(w, [wrapper[w] EXCEPT !.pc = "reserved", !.next = r])
  /\ UNCHANGED <<registry, pending, transcript, owner, history>>

\* A write that fails is tried again under another id.
WriteRebuilt(w) ==
  /\ AtStep(w, "reserved")
  /\ \/ /\ transcript' = [transcript EXCEPT ![wrapper[w].next] = "there"]
        /\ Goes(w, "written")
        /\ Fine
     \/ /\ Fault
        /\ Become(w, [wrapper[w] EXCEPT !.pc = "live", !.next = None])
        /\ UNCHANGED transcript
  /\ UNCHANGED <<registry, rows, pending, owner, history>>

\* No replacement would run: the old session stays.
SwapFails(w) ==
  /\ AtStep(w, "written")
  /\ Become(w, [wrapper[w] EXCEPT !.pc = "live", !.next = None])
  /\ UNCHANGED <<stores, owner, history, tally>>

\* registerSuccessLineage of a handoff whose replacement is live.
SwapSucceeds(w) ==
  /\ AtStep(w, "written")
  /\ Writes(Put(wrapper[w].next, Thr(w), "verified", TRUE))
  /\ Goes(w, "mark")
  /\ UNCHANGED <<registry, pending, transcript, owner, history>>

\* A one-shot is started on its rebuilt session, which counts once it took the prompt.
OneShotStarts(w) ==
  /\ AtStep(w, "written")
  /\ Writes(Put(wrapper[w].next, Thr(w), "verified", FALSE))
  /\ Goes(w, "prompt")
  /\ UNCHANGED <<registry, pending, transcript, owner, history>>

MarkAccepted(w) ==
  /\ AtStep(w, "mark") \/ AtStep(w, "prompt")
  /\ Writes(Mark(wrapper[w].next))
  /\ Goes(w, "advance")
  /\ UNCHANGED <<registry, pending, transcript, owner, history>>

Advance(w) ==
  /\ AtStep(w, "advance")
  /\ LET r == wrapper[w].next
         t == Thr(w)
     IN  \/ /\ RegisterCurrent(r, t)
            /\ accepted' = [accepted EXCEPT ![t] = r]
            /\ Goes(w, "supersede")
            /\ Fine
         \/ /\ (Fine /\ ~ Bindable(r, t)) \/ Fault
            /\ Goes(w, "observe")
            /\ UNCHANGED <<registry, accepted>>
  /\ UNCHANGED <<rows, pending, transcript, owner, unrecorded>>

\* The wrapper goes on with the session it swapped to.
Swapped(w) == Become(w, [wrapper[w] EXCEPT !.pc = "live", !.session = wrapper[w].next, !.next = None,
                                           !.seen = None])

Supersede(w) ==
  /\ AtStep(w, "supersede")
  /\ \/ pending' = [pending EXCEPT ![Thr(w)] = NoPending] /\ Fine
     \/ UNCHANGED pending /\ Fault
  /\ Swapped(w)
  /\ UNCHANGED <<registry, rows, transcript, owner, history>>

Observe(w) ==
  /\ AtStep(w, "observe")
  /\ LET c == current[Thr(w)]
     IN  \/ Become(w, [wrapper[w] EXCEPT !.pc = "record", !.seen = IF c = Foreign THEN None ELSE c])
            /\ Fine
         \/ Goes(w, "record") /\ Fault
  /\ UNCHANGED <<stores, owner, history>>

\* An acceptance with no predecessor to repair, or of a session bound to another thread,
\* is not applied by any later launch.
Record(w) ==
  /\ AtStep(w, "record")
  /\ LET r == wrapper[w].next
         t == Thr(w)
     IN  \/ /\ pending' = [pending EXCEPT ![t] = [session |-> r, previous |-> wrapper[w].seen]]
            /\ IF wrapper[w].seen # None /\ Bindable(r, t)
               THEN accepted' = [accepted EXCEPT ![t] = r] /\ UNCHANGED unrecorded
               ELSE unrecorded' = unrecorded \cup {r} /\ UNCHANGED accepted
            /\ Fine
         \/ /\ unrecorded' = unrecorded \cup {r}
            /\ UNCHANGED <<pending, accepted>>
            /\ Fault
  /\ Swapped(w)
  /\ UNCHANGED <<registry, rows, transcript, owner>>

-----------------------------------------------------------------------------
(* Ends, and what others do to a thread.                                   *)

\* Acceptances settle before the lease is given back.
Exit(w) ==
  /\ AtStep(w, "live") \/ AtStep(w, "prompt")
  /\ Ends(w)
  /\ UNCHANGED <<stores, history, tally>>

Crash(w) ==
  /\ ~ AtStep(w, "down")
  /\ tally.crashes < MaxCrashes
  /\ tally' = [tally EXCEPT !.crashes = @ + 1]
  /\ Ends(w)
  /\ unrecorded' = IF wrapper[w].pc \in {"mark", "advance", "observe", "record"}
                   THEN unrecorded \cup {wrapper[w].next} ELSE unrecorded
  /\ UNCHANGED <<stores, accepted>>

Handover == tally.handovers < MaxHandovers /\ tally' = [tally EXCEPT !.handovers = @ + 1]

\* cc-lhc rollout write: a session is written and made current, with no lease taken.
RolloutWrite(s, t) ==
  /\ Handover
  /\ NeverUsed(s)
  /\ current[t] # None
  /\ transcript' = [transcript EXCEPT ![s] = "there"]
  /\ rows' = Put(s, t, "verified", TRUE)
  /\ RegisterCurrent(s, t)
  /\ accepted' = [accepted EXCEPT ![t] = s]
  /\ UNCHANGED <<pending, wrapper, owner, unrecorded>>

\* bindHost: the thread is given to another host.
BindHost(t) ==
  /\ Handover
  /\ current[t] # None
  /\ current' = [current EXCEPT ![t] = Foreign]
  /\ accepted' = [accepted EXCEPT ![t] = Foreign]
  /\ UNCHANGED <<alias, rows, pending, transcript, wrapper, owner, unrecorded>>

-----------------------------------------------------------------------------
LineageNext ==
  \/ \E w \in Wrapper :
       \/ \E s \in Session : Launch(w, s) \/ Reserve(w, s)
       \/ \E t \in Thread : Create(w, t)
       \/ Resolve(w) \/ Lookup(w) \/ Import(w) \/ Claim(w) \/ Acquire(w) \/ Unavailable(w)
       \/ ReadCurrent(w) \/ Reconcile(w) \/ Settle(w)
       \/ SweepOwner(w) \/ SweepAlias(w) \/ SweepPointer(w) \/ SweepPending(w)
       \/ Bind(w) \/ WriteRebuilt(w) \/ SwapFails(w) \/ SwapSucceeds(w) \/ OneShotStarts(w)
       \/ MarkAccepted(w) \/ Advance(w) \/ Supersede(w) \/ Observe(w) \/ Record(w)
       \/ Exit(w) \/ Crash(w)
  \/ \E t \in Thread : BindHost(t) \/ \E s \in Session : RolloutWrite(s, t)

LineageSpec == LineageInit /\ [][LineageNext]_lineageVars

-----------------------------------------------------------------------------
(* Properties.                                                             *)

Accepting(t) == {wrapper[w].next : w \in {v \in Wrapper :
                   Thr(v) = t /\ wrapper[v].pc \in {"mark", "advance", "observe", "record"}}}

\* A launch goes on with the session its thread was last accepted on, through whichever of
\* its sessions it was asked for: a stale pending acceptance or an import does not drag it back.
Landing(w) ==
  LET t == Thr(w)
  IN  AtStep(w, "bind") /\ wrapper'[w].pc = "live"
      => \/ wrapper[w].due = None
         \/ wrapper[w].session \in {wrapper[w].due, accepted[t]} \cup unrecorded \cup Accepting(t)
         \/ Foreign \in {wrapper[w].due, accepted[t]}
LandsOnAccepted == [][\A w \in Wrapper : Landing(w)]_lineageVars

\* The transcript a thread was last accepted on is never swept away.
AcceptedIsKept == \A t \in Thread : accepted[t] \in Session => transcript[accepted[t]] # "moved"

\* The stores agree on the thread of a session.
OneThread ==
  tally.faults = 0 => \A s \in Session : HasRow(s) /\ alias[s] # None => RowOf(s).thread = alias[s]
=============================================================================
