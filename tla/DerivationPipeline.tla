------------------------- MODULE DerivationPipeline -------------------------
(***************************************************************************)
(* The derivation chain of a thread: a message's own derivation, then its  *)
(* turn's rendering and assembly, the turn's compression, and the detailed *)
(* and brief summaries of the chunk the turn lies in.  The module models   *)
(* the clients of the work queue in packages/lhc/src/{messages,turns}: the *)
(* batch that closes a turn, edits and removals with their cascade, the    *)
(* handlers with what each reads before it returns, the completions with   *)
(* the follow-up work they enqueue, deferral, recovery floors, explicit    *)
(* derives and chunk placement.                                            *)
(*                                                                         *)
(* The queue is the one of WorkQueue, as a sequence: its head alone may be *)
(* claimed, an attempt number fences the claim, and an item id (operation  *)
(* and version) may be live once.  A derived text is abstracted to the     *)
(* revisions of the messages that went into it.  A worker that dies is one *)
(* that takes no further step.                                             *)
(***************************************************************************)
EXTENDS Naturals, Sequences

CONSTANTS
  Message,      \* messages
  Derivable,    \* prompts and tool results: the messages with a derivation
  Members,      \* Members[t]: the messages of turn t, oldest first
  Worker,       \* drain loops and explicit derive calls
  OneProcess,   \* whether all workers and writers share one event loop
  MaxEdits,     \* bound: edits and removals
  MaxDerives,   \* bound: explicit derive calls
  MaxLapses,    \* bound: leases that run out
  MaxFailures   \* bound: inferences that fail

Turn == 1..Len(Members)
Chunk == Turn                \* no chunk is opened without a turn to place

MembersOf(t) == {Members[t][n] : n \in 1..Len(Members[t])}

ASSUME DerivationPipelineAssumption ==
  /\ Derivable \subseteq Message
  /\ Members \in Seq(Seq(Message)) /\ Members # <<>>
  /\ \A t \in Turn : MembersOf(t) # {}
  /\ \A t, u \in Turn : t # u => MembersOf(t) \cap MembersOf(u) = {}
  /\ OneProcess \in BOOLEAN
  /\ {MaxEdits, MaxDerives, MaxLapses, MaxFailures} \subseteq Nat

VARIABLES
  rev,      \* the revision of each message's content, 0 without one
  closed,   \* turns closed so far
  placed,   \* the chunk each turn lies in, 0 for none
  full,     \* the chunks that are closed
  queue,    \* the work_item table, by rowid
  rows,     \* the derivation table
  work,     \* what each worker holds in memory
  top,      \* history: the highest version of each operation so far
  back,     \* history: whether a version was ever used again
  count     \* edits, explicit derives, lapses and failures so far

vars == <<rev, closed, placed, full, queue, rows, work, top, back, count>>

-----------------------------------------------------------------------------
(* The tables.                                                             *)

Msg(m) == <<"message", m>>             \* prompt_smoothing, tool_result_summary
Asm(t) == <<"turn", t>>                \* turn_derivation
Cmp(t) == <<"compression", t>>         \* detailed_turn_compression
Detailed(c) == <<"detailed", c>>       \* chunk_summary_detailed
Brief(c) == <<"brief", c>>             \* chunk_summary_brief

Op == {Msg(m) : m \in Derivable} \cup {Asm(t) : t \in Turn} \cup {Cmp(t) : t \in Turn}
        \cup {Detailed(c) : c \in Chunk} \cup {Brief(c) : c \in Chunk}

Content == [Message -> Nat]

NoContent == [m \in Message |-> 0]

States == {"absent", "pending", "ready", "failed", "blocked"}

RowRec == [state : States, ver : Nat, of : Content]

NoRow == [state |-> "absent", ver |-> 0, of |-> NoContent]

Item == [op : Op, ver : Nat, claimed : BOOLEAN, attempt : Nat, expired : BOOLEAN]

NewItem(r) == [op |-> r.op, ver |-> r.ver, claimed |-> FALSE, attempt |-> 0, expired |-> FALSE]

At(o, v) == [op |-> o, ver |-> v]

Live(q, r) == \E n \in 1..Len(q) : q[n].op = r.op /\ q[n].ver = r.ver

\* The entries of s that are in K, in their order.
Only(s, K) ==
  LET kept[n \in 0..Len(s)] == IF n = 0 THEN <<>>
                               ELSE IF s[n] \in K THEN Append(kept[n - 1], s[n]) ELSE kept[n - 1]
  IN  kept[Len(s)]

\* The primary key of work_item: an INSERT of a live id throws.
Clashes(q, req) == \E n \in 1..Len(req) : Live(q, req[n])

Pend(rws, req) ==
  [o \in Op |-> IF \E n \in 1..Len(req) : req[n].op = o
                THEN [state |-> "pending", of |-> NoContent,
                      ver |-> req[CHOOSE n \in 1..Len(req) : req[n].op = o].ver]
                ELSE rws[o]]

\* The history of versions, when those in req come into use.
Remember(req) ==
  /\ top' = [o \in Op |-> IF \E n \in 1..Len(req) : req[n].op = o /\ req[n].ver > top[o]
                          THEN Pend(rows, req)[o].ver ELSE top[o]]
  /\ back' = (back \/ \E n \in 1..Len(req) : req[n].ver <= top[req[n].op])

\* enqueue, once for each entry of req, on top of the tables q and rws.
Enqueue(q, rws, req) ==
  /\ queue' = q \o [n \in 1..Len(req) |-> NewItem(req[n])]
  /\ rows' = Pend(rws, req)
  /\ Remember(req)

\* The worker's claim is still held, and by its attempt.
Owned(w) ==
  /\ queue # <<>>
  /\ Head(queue).claimed
  /\ Head(queue).op = work[w].op
  /\ Head(queue).ver = work[w].ver
  /\ Head(queue).attempt = work[w].attempt

\* Faulty variant: the version of the row is not looked at.
CurrentAnyVersion(w) == rows[work[w].op].state # "absent"

\* The row is still at the version the work was done for.
Current(w) == rows[work[w].op].state # "absent" /\ rows[work[w].op].ver = work[w].ver

Stamped(w, s, of) ==
  IF Current(w) THEN [rows EXCEPT ![work[w].op].state = s, ![work[w].op].of = of] ELSE rows

-----------------------------------------------------------------------------
(* Workers.                                                                *)

Work == [pc : {"idle", "claimed", "floors", "returned", "second"},
         call : BOOLEAN,             \* an explicit derive, not a drain
         op : Op, ver : Nat, attempt : Nat,
         outcome : {"ok", "failed", "blocked", "deferred"},
         of : Content,               \* what the handler's result was made from
         next : Nat,                 \* the version at which follow-up work is enqueued
         floors : [Message -> Nat]]  \* recovery floors to write, with their versions

Idle == [pc |-> "idle", call |-> FALSE, op |-> CHOOSE o \in Op : TRUE, ver |-> 0,
         attempt |-> 0, outcome |-> "ok", of |-> NoContent, next |-> 0, floors |-> NoContent]

Holding(i, call) == [Idle EXCEPT !.pc = "claimed", !.op = i.op, !.ver = i.ver,
                                 !.attempt = i.attempt, !.call = call]

Become(w, k) == work' = [work EXCEPT ![w] = k]

\* A claim with the handler's reads, and a composition with its floors, are each
\* one turn of the event loop: only another process comes between.
Undisturbed(w) == OneProcess => \A x \in Worker \ {w} : work[x].pc \notin {"claimed", "floors"}

Quiet == OneProcess => \A x \in Worker : work[x].pc \notin {"claimed", "floors"}

Counted(field) == count' = [count EXCEPT ![field] = @ + 1]

Init == /\ rev = [m \in Message |-> 0]
        /\ closed = 0
        /\ placed = [t \in Turn |-> 0]
        /\ full = {}
        /\ queue = <<>>
        /\ rows = [o \in Op |-> NoRow]
        /\ work = [w \in Worker |-> Idle]
        /\ top = [o \in Op |-> 0]
        /\ back = FALSE
        /\ count = [edits |-> 0, derives |-> 0, lapses |-> 0, failures |-> 0]

-----------------------------------------------------------------------------
(* The record changes.                                                     *)

MessageWork(t) == LET derived == Only(Members[t], Derivable)
                  IN  [n \in 1..Len(derived) |-> At(Msg(derived[n]), 1)]

\* runMessageEvents on a batch that holds the next turn up to its end.
Intake ==
  /\ Quiet
  /\ closed < Len(Members)
  /\ closed' = closed + 1
  /\ rev' = [m \in Message |-> IF m \in MembersOf(closed + 1) THEN 1 ELSE rev[m]]
  /\ Enqueue(queue, rows, MessageWork(closed + 1) \o <<At(Asm(closed + 1), 1)>>)
  /\ UNCHANGED <<placed, full, work, count>>

TurnOf(m) == CHOOSE t \in Turn : m \in MembersOf(t)

\* The queue q without the queued items of the operations in S.
Unclaimed(q, S) == Only(q, {i \in {q[n] : n \in 1..Len(q)} : i.claimed \/ i.op \notin S})

Derived(o) == IF o \in Op /\ rows[o].state # "absent" THEN <<o>> ELSE <<>>

\* Faulty variant: the chunk is rebuilt before its turns.
UpwardReversed(m) ==
  LET t == TurnOf(m)
  IN  Derived(Detailed(placed[t])) \o Derived(Brief(placed[t])) \o Derived(Asm(t)) \o Derived(Cmp(t))

\* The operations above message m, in REBUILD_KIND_ORDER.
Upward(m) ==
  LET t == TurnOf(m)
  IN  Derived(Asm(t)) \o Derived(Cmp(t)) \o Derived(Detailed(placed[t])) \o Derived(Brief(placed[t]))

Own(m) == Derived(Msg(m))

\* runCascade: the rows of D go, those of the operations in ops are rebuilt at the
\* next version; queued items of both go and claimed ones stay.
Cascade(D, ops) ==
  LET S == D \cup {ops[n] : n \in 1..Len(ops)}
      req == [n \in 1..Len(ops) |-> At(ops[n], rows[ops[n]].ver + 1)]
      dropped == [o \in Op |-> IF o \in D THEN NoRow ELSE rows[o]]
  IN  /\ ~ Clashes(Unclaimed(queue, S), req)
      /\ Enqueue(Unclaimed(queue, S), dropped, req)

Mutable(m) == Quiet /\ rev[m] # 0 /\ count.edits < MaxEdits

Edit(m) ==
  /\ Mutable(m)
  /\ Counted("edits")
  /\ rev' = [rev EXCEPT ![m] = @ + 1]
  /\ Cascade({}, Own(m) \o Upward(m))
  /\ UNCHANGED <<closed, placed, full, work>>

\* The prompt that initiates a turn is not removed.
Remove(m) ==
  /\ Mutable(m)
  /\ m # Members[TurnOf(m)][1]
  /\ Counted("edits")
  /\ rev' = [rev EXCEPT ![m] = 0]
  /\ Cascade({Own(m)[n] : n \in 1..Len(Own(m))}, Upward(m))
  /\ UNCHANGED <<closed, placed, full, work>>

-----------------------------------------------------------------------------
(* Claims.                                                                 *)

TakeHead == [queue EXCEPT ![1].claimed = TRUE, ![1].attempt = @ + 1]

Claim(w) ==
  /\ Undisturbed(w)
  /\ work[w].pc = "idle"
  /\ queue # <<>> /\ ~ Head(queue).claimed
  /\ queue' = TakeHead
  /\ Become(w, Holding(TakeHead[1], FALSE))
  /\ UNCHANGED <<rev, closed, placed, full, rows, top, back, count>>

\* The lease of the head runs out: it is queued again, and failed the second time.
Lapse ==
  /\ Quiet
  /\ count.lapses < MaxLapses
  /\ Counted("lapses")
  /\ queue # <<>> /\ Head(queue).claimed
  /\ LET i == Head(queue)
     IN  \/ /\ ~ i.expired
            /\ queue' = [queue EXCEPT ![1].claimed = FALSE, ![1].expired = TRUE]
            /\ UNCHANGED rows
         \/ /\ i.expired
            /\ queue' = Tail(queue)
            /\ rows' = IF rows[i.op].state # "absent" /\ rows[i.op].ver = i.ver
                       THEN [rows EXCEPT ![i.op].state = "failed", ![i.op].of = NoContent]
                       ELSE rows
  /\ UNCHANGED <<rev, closed, placed, full, work, top, back>>

NextVersion(o) == IF rows[o].state = "pending" THEN rows[o].ver ELSE rows[o].ver + 1

Refuse(w) == Become(w, Idle) /\ UNCHANGED <<queue, rows, top, back>>

\* deriveTurnOwnedInOpenDb up to its claim: at the version that is pending or else
\* the next, the item is claimed as the head of the queue or queued behind it.
ClaimNow(w, o) ==
  LET r == At(o, NextVersion(o))
      isHead == queue # <<>> /\ Head(queue).op = r.op /\ Head(queue).ver = r.ver
  IN  \/ /\ rows[o].state \in {"absent", "blocked"}
         /\ Refuse(w)
      \/ /\ rows[o].state \notin {"absent", "blocked"}
         /\ \/ /\ isHead /\ ~ Head(queue).claimed
               /\ queue' = TakeHead
               /\ Become(w, Holding(TakeHead[1], TRUE))
               /\ UNCHANGED <<rows, top, back>>
            \/ /\ queue = <<>>
               /\ queue' = <<[NewItem(r) EXCEPT !.claimed = TRUE, !.attempt = 1]>>
               /\ Become(w, Holding(queue'[1], TRUE))
               /\ rows' = Pend(rows, <<r>>)
               /\ Remember(<<r>>)
            \/ /\ queue # <<>> /\ ~ Live(queue, r)
               /\ Enqueue(queue, rows, <<r>>)
               /\ Become(w, Idle)
            \/ /\ Live(queue, r) /\ ~ (isHead /\ ~ Head(queue).claimed)
               /\ Refuse(w)

Call(w) == /\ Undisturbed(w)
           /\ work[w].pc = "idle"
           /\ count.derives < MaxDerives
           /\ Counted("derives")
           /\ UNCHANGED <<rev, closed, placed, full>>

DeriveTurn(w, t) == Call(w) /\ ClaimNow(w, Asm(t))

DeriveChunk(w, c) == Call(w) /\ \E o \in {Detailed(c), Brief(c)} : ClaimNow(w, o)

\* deriveTurn goes on to the compression once its assembly is applied.
DeriveSecond(w) ==
  /\ Undisturbed(w)
  /\ work[w].pc = "second"
  /\ ClaimNow(w, Cmp(work[w].op[2]))
  /\ UNCHANGED <<rev, closed, placed, full, count>>

\* deriveMessageInThread works past the queue, on a message whose item failed.
DeriveMessage(w, m) ==
  LET o == Msg(m)
      r == At(o, NextVersion(o))
  IN  /\ Call(w)
      /\ o \in Op
      /\ rev[m] # 0
      /\ rows[o].state = "failed"
      /\ ~ Live(queue, r)
      /\ Become(w, Holding(NewItem(r), TRUE))
      /\ UNCHANGED <<queue, rows, top, back>>

-----------------------------------------------------------------------------
(* What the handlers read.                                                 *)

Return(w, outcome, of, next) ==
  work' = [work EXCEPT ![w].pc = "returned", ![w].outcome = outcome, ![w].of = of,
                       ![w].next = next]

Reads(w, o) == /\ Undisturbed(w)
               /\ work[w].pc = "claimed"
               /\ work[w].op = o
               /\ UNCHANGED <<rev, closed, placed, full, queue, rows, top, back>>

\* An inference that fails ends the work on o.
Infer(w, of) == \/ /\ Return(w, "ok", of, 0)
                   /\ UNCHANGED count
                \/ /\ count.failures < MaxFailures
                   /\ Counted("failures")
                   /\ Return(w, "failed", NoContent, 0)

ReadMessage(w, m) ==
  /\ Reads(w, Msg(m))
  /\ IF rev[m] = 0 THEN Return(w, "blocked", NoContent, 0) /\ UNCHANGED count
                   ELSE Infer(w, [NoContent EXCEPT ![m] = rev[m]])

IsReady(o) == o \in Op /\ rows[o].state = "ready"

\* The text of m as a composition shows it: derived, or raw for want of that.
TextOf(m) == IF IsReady(Msg(m)) THEN rows[Msg(m)].of[m] ELSE rev[m]

\* The turn is composed; each message without a ready derivation gets a floor, at
\* the version its row has now.
ReadTurn(w, t) ==
  /\ Reads(w, Asm(t))
  /\ work' = [work EXCEPT
       ![w].pc = "floors",
       ![w].of = [m \in Message |-> IF m \in MembersOf(t) THEN TextOf(m) ELSE 0],
       ![w].floors = [m \in Message |->
          IF m \in MembersOf(t) /\ rev[m] # 0 /\ Msg(m) \in Op /\ ~ IsReady(Msg(m))
          THEN rows[Msg(m)].ver ELSE 0]]
  /\ UNCHANGED count

\* applyRecoveredMessageWrite: past the queue, unless work of that version is live,
\* and only over the row that was read.
Recover(m, v, expected, of) ==
  rows' = IF ~ Live(queue, At(Msg(m), v))
             /\ rows[Msg(m)] = expected
             /\ expected.state \in {"absent", "pending", "failed"}
          THEN [rows EXCEPT ![Msg(m)] = [state |-> "ready", ver |-> v,
                                         of |-> [NoContent EXCEPT ![m] = of]]]
          ELSE rows

\* writeMessageDerivationFloorInThread reads the row anew and takes it as expected.
WriteFloor(w, m) ==
  /\ Undisturbed(w)
  /\ work[w].pc = "floors"
  /\ work[w].floors[m] # 0
  /\ Recover(m, work[w].floors[m], rows[Msg(m)], work[w].of[m])
  /\ work' = [work EXCEPT ![w].floors[m] = 0]
  /\ UNCHANGED <<rev, closed, placed, full, queue, top, back, count>>

\* compressionSourceVersion
FollowUpVersion(t) == IF rows[Asm(t)].state = "absent" THEN 1 ELSE rows[Asm(t)].ver

TurnReturns(w) ==
  /\ Undisturbed(w)
  /\ work[w].pc = "floors"
  /\ work[w].floors = NoContent
  /\ Return(w, "ok", work[w].of, FollowUpVersion(work[w].op[2]))
  /\ UNCHANGED <<rev, closed, placed, full, queue, rows, top, back, count>>

\* An inference that fails leaves the assembly itself as the compression.
ReadCompression(w, t) ==
  /\ Reads(w, Cmp(t))
  /\ IF IsReady(Asm(t)) THEN Return(w, "ok", rows[Asm(t)].of, 0)
                        ELSE Return(w, "failed", NoContent, 0)
  /\ UNCHANGED count

\* A failed compression is stood in for by a ready assembly; any other member that
\* is not ready fails the summary.
ReadDetailed(w, c) ==
  LET members == {t \in Turn : placed[t] = c}
      usable(t) == IsReady(Cmp(t)) \/ (rows[Cmp(t)].state = "failed" /\ IsReady(Asm(t)))
      text(t) == IF IsReady(Cmp(t)) THEN rows[Cmp(t)].of ELSE rows[Asm(t)].of
      covered == UNION {MembersOf(t) : t \in members}
  IN  /\ Reads(w, Detailed(c))
      /\ IF \A t \in members : usable(t)
         THEN Return(w, "ok", [m \in Message |-> IF m \in covered THEN text(TurnOf(m))[m] ELSE 0], 0)
         ELSE Return(w, "failed", NoContent, 0)
      /\ UNCHANGED count

\* A brief defers behind a pending detailed summary, at that one's version.
ReadBrief(w, c) ==
  LET detailed == rows[Detailed(c)]
  IN  /\ Reads(w, Brief(c))
      /\ \/ /\ detailed.state = "pending"
            /\ Return(w, "deferred", NoContent, detailed.ver)
            /\ UNCHANGED count
         \/ /\ detailed.state \in {"failed", "blocked"}
            /\ Return(w, "blocked", NoContent, 0)
            /\ UNCHANGED count
         \/ /\ detailed.state = "ready"
            /\ Infer(w, detailed.of)

-----------------------------------------------------------------------------
(* Completions.                                                            *)

Ends(w, outcomes) == /\ Undisturbed(w)
                     /\ work[w].pc = "returned"
                     /\ work[w].outcome \in outcomes
                     /\ UNCHANGED <<rev, closed, count>>

IsCall(w, kind) == work[w].call /\ work[w].op[1] = kind

\* applyDerivationSuccess on an operation without follow-up work.
Succeed(w) ==
  /\ Ends(w, {"ok"})
  /\ work[w].op[1] # "turn" /\ ~ IsCall(w, "message")
  /\ queue' = IF Owned(w) THEN Tail(queue) ELSE queue
  /\ rows' = IF Owned(w) THEN Stamped(w, "ready", work[w].of) ELSE rows
  /\ Become(w, Idle)
  /\ UNCHANGED <<placed, full, top, back>>

\* The recovered derivation goes over the failed row that was read.
SucceedPastQueue(w) ==
  /\ Ends(w, {"ok"})
  /\ IsCall(w, "message")
  /\ Recover(work[w].op[2], work[w].ver,
             [state |-> "failed", ver |-> work[w].ver - 1, of |-> NoContent],
             work[w].of[work[w].op[2]])
  /\ top' = [top EXCEPT ![work[w].op] = IF rows' = rows THEN @ ELSE work[w].ver]
  /\ Become(w, Idle)
  /\ UNCHANGED <<placed, full, queue, back>>

LastChunk == CHOOSE c \in 0..Len(Members) :
               /\ \A t \in Turn : placed[t] <= c
               /\ c = 0 \/ \E t \in Turn : placed[t] = c

Opened == LastChunk # 0 /\ LastChunk \notin full

\* placeTurn, when the turn brings the open chunk to its target, or is a chunk's
\* worth of its own: the chunks it closes, oldest first.
Place(t, target, max) ==
  LET chunk == IF Opened /\ ~ target THEN LastChunk ELSE LastChunk + 1
  IN  IF placed[t] # 0
      THEN [chunk |-> placed[t], closes |-> <<>>]
      ELSE [chunk |-> chunk,
            closes |-> (IF Opened /\ target THEN <<LastChunk>> ELSE <<>>)
                         \o (IF max THEN <<chunk>> ELSE <<>>)]

Summaries(cs) == [n \in 1..2 * Len(cs) |->
                    At(IF n % 2 = 1 THEN Detailed(cs[(n + 1) \div 2]) ELSE Brief(cs[n \div 2]), 1)]

\* turn_derivation: onApplied queues the compression, places the turn and queues the
\* summaries of the chunks that closes.
SucceedTurn(w, t) ==
  /\ Ends(w, {"ok"})
  /\ work[w].op = Asm(t)
  /\ IF Owned(w) /\ Current(w)
     THEN \E target, max \in BOOLEAN :
            LET place == Place(t, target, max)
                cmp == At(Cmp(t), work[w].next)
            IN  /\ max => target
                /\ placed' = [placed EXCEPT ![t] = place.chunk]
                /\ full' = full \cup {place.closes[n] : n \in 1..Len(place.closes)}
                /\ Enqueue(Tail(queue), Stamped(w, "ready", work[w].of),
                           (IF Live(queue, cmp) THEN <<>> ELSE <<cmp>>) \o Summaries(place.closes))
                /\ Become(w, IF work[w].call THEN [Idle EXCEPT !.pc = "second", !.op = Asm(t)]
                                             ELSE Idle)
     ELSE /\ queue' = IF Owned(w) THEN Tail(queue) ELSE queue
          /\ Become(w, Idle)
          /\ UNCHANGED <<placed, full, rows, top, back>>

\* Faulty variant: the item stays claimed.
TerminalRowOnly(w, s) ==
  /\ rows' = IF Owned(w) THEN Stamped(w, s, NoContent) ELSE rows
  /\ UNCHANGED <<queue, top, back>>

\* applyDerivationTerminalFailure
Terminal(w, s) ==
  /\ queue' = IF Owned(w) THEN Tail(queue) ELSE queue
  /\ rows' = IF Owned(w) THEN Stamped(w, s, NoContent) ELSE rows
  /\ UNCHANGED <<top, back>>

Fail(w) ==
  /\ Ends(w, {"failed", "blocked"})
  /\ IF IsCall(w, "message") THEN UNCHANGED <<queue, rows, top, back>>
                             ELSE Terminal(w, work[w].outcome)
  /\ Become(w, Idle)
  /\ UNCHANGED <<placed, full>>

\* deferClaimedTurnWork: the brief is queued again, behind the detailed summary.
\* An id that is still live throws: a drain then fails the item, an explicit
\* derive leaves it claimed.
Defer(w) ==
  LET c == work[w].op[2]
      detailed == At(Detailed(c), work[w].next)
      req == (IF Live(queue, detailed) THEN <<>> ELSE <<detailed>>)
               \o <<At(Brief(c), work[w].next)>>
  IN  /\ Ends(w, {"deferred"})
      /\ \/ /\ Owned(w) /\ ~ Clashes(Tail(queue), req)
            /\ Enqueue(Tail(queue), rows, req)
         \/ /\ Owned(w) /\ Clashes(Tail(queue), req) /\ ~ work[w].call
            /\ Terminal(w, "failed")
         \/ /\ Owned(w) /\ Clashes(Tail(queue), req) /\ work[w].call
            /\ UNCHANGED <<queue, rows, top, back>>
         \/ /\ ~ Owned(w)
            /\ UNCHANGED <<queue, rows, top, back>>
      /\ Become(w, Idle)
      /\ UNCHANGED <<placed, full>>

-----------------------------------------------------------------------------
Handle(w) == \/ \E m \in Message : ReadMessage(w, m) \/ WriteFloor(w, m)
             \/ \E t \in Turn : ReadTurn(w, t) \/ ReadCompression(w, t) \/ SucceedTurn(w, t)
             \/ \E c \in Chunk : ReadDetailed(w, c) \/ ReadBrief(w, c)
             \/ TurnReturns(w) \/ Succeed(w) \/ SucceedPastQueue(w) \/ Fail(w) \/ Defer(w)
             \/ DeriveSecond(w)

Next == \/ Intake \/ Lapse
        \/ \E m \in Message : Edit(m) \/ Remove(m)
        \/ \E w \in Worker :
             \/ Claim(w) \/ Handle(w)
             \/ \E t \in Turn : DeriveTurn(w, t) \/ DeriveChunk(w, t)
             \/ \E m \in Message : DeriveMessage(w, m)

Spec == Init /\ [][Next]_vars

\* A drain loop goes on and a handler returns.
Fairness == \A w \in Worker : WF_vars(Claim(w)) /\ WF_vars(Handle(w))

FairSpec == Spec /\ Fairness

-----------------------------------------------------------------------------
(* Properties.                                                             *)

TypeOK ==
  /\ rev \in Content
  /\ closed \in 0..Len(Members)
  /\ placed \in [Turn -> 0..Len(Members)]
  /\ full \subseteq Chunk
  /\ queue \in Seq(Item)
  /\ rows \in [Op -> RowRec]
  /\ work \in [Worker -> Work]
  /\ top \in [Op -> Nat]
  /\ back \in BOOLEAN
  /\ count \in [{"edits", "derives", "lapses", "failures"} -> Nat]

\* The messages that go into the derivations of o.
Covers(o) == IF o[1] = "message" THEN {o[2]}
             ELSE IF o[1] \in {"turn", "compression"} THEN MembersOf(o[2])
             ELSE UNION {MembersOf(t) : t \in {u \in Turn : placed[u] = o[2]}}

\* No stale derivation is ever served: a ready row was made from the present
\* content of every message under it, however late its handler finished.
ReadyIsFresh ==
  \A o \in Op : rows[o].state = "ready"
                => \A m \in Covers(o) : rows[o].of[m] = rev[m]

\* The same as long as every version was used once: then the claim fence and the
\* row's version together tell a late result from a current one.
FreshUntilBack == ~ back => ReadyIsFresh

\* Nothing stale is served where leases lapse or clients derive, but not both: it takes a
\* handler that outlives its lease and a version that comes back to make one.
CalmIsFresh == count.derives = 0 \/ count.lapses = 0 => ReadyIsFresh

\* Waiting is not failing: without explicit derives no derivation ends failed or blocked
\* because an input was not there yet, and a single lease that runs out costs none either.
FailsOnlyOnFailure ==
  count.failures = 0 /\ count.lapses < 2 /\ count.derives = 0
  => \A o \in Op : rows[o].state \notin {"failed", "blocked"}

\* The chain comes to rest: drains empty the queue, deferrals included.
ChainSettles == queue # <<>> ~> queue = <<>> \/ count.derives > 0
=============================================================================
