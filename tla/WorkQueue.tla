----------------------------- MODULE WorkQueue -----------------------------
(***************************************************************************)
(* The durable work queue of one thread file: the work_item and derivation *)
(* tables of packages/lhc/src/shared-tech/{work-queue,durable-work}, the   *)
(* drain loop of shared-tech/scheduler.ts that claims, runs and completes  *)
(* items, and the explicit derive of turns/internal/derive.ts that claims  *)
(* an item immediately.  Every action is one BEGIN IMMEDIATE transaction;  *)
(* the handler itself runs between two of them, with no transaction open.  *)
(*                                                                         *)
(* What a work item computes is abstracted: an operation (Op) is a work    *)
(* kind with its source, and Targets gives the derivation rows it writes.  *)
(* The queue's clients are abstracted to any client that never enqueues    *)
(* the same work item id twice (see Fresh).  DerivationPipeline models the *)
(* real clients, with what each handler reads and writes.                  *)
(***************************************************************************)
EXTENDS Naturals

CONSTANTS
  Drainer,     \* drain loops, each in a process of its own
  Caller,      \* explicit derive calls in progress, likewise
  Op,          \* operations: a work kind and its source
  Targets,     \* Targets[o]: the derivation rows operation o writes
  Rank,        \* Rank[o]: the place of o when one transaction enqueues several
  MaxVersion,  \* bound: highest source version
  MaxRowid,    \* bound: highest rowid after which an item may be appended
  MaxFaults    \* bound: process exits and crashes

Worker == Drainer \cup Caller
Version == 1..MaxVersion
Row == UNION {Targets[o] : o \in Op}

ASSUME WorkQueueAssumption ==
  /\ Drainer \cap Caller = {}
  /\ Op # {}
  /\ \A o \in Op : Targets[o] # {}
  /\ \A o, p \in Op : o # p => Targets[o] \cap Targets[p] = {}
  /\ Rank \in [Op -> Nat \ {0}]
  /\ \A o, p \in Op : Rank[o] = Rank[p] => o = p
  /\ MaxVersion \in Nat \ {0}
  /\ MaxRowid \in Nat
  /\ MaxFaults \in Nat

VARIABLES
  items,   \* the work_item table, by work item id
  rows,    \* the derivation table: state and source version of each row
  pc,      \* what each worker is doing
  hand,    \* the work item attempt each worker holds in memory
  seen,    \* the rows a caller read before it tries to claim
  top,     \* history: the highest version of each operation ever enqueued
  faults   \* exits and crashes so far

vars == <<items, rows, pc, hand, seen, top, faults>>

-----------------------------------------------------------------------------
(* The tables.                                                             *)

\* The primary key: w-<source>-<kind>-v<sourceVersion>.
Id == Op \X Version

Item == [status : {"absent", "queued", "claimed"},
         rowid : Nat,
         attempt : Nat,             \* payload.claimAttempt
         claimExpired : BOOLEAN,    \* payload.claimExpired
         lapsed : BOOLEAN,          \* claim_expires_at has passed
         lapses : Nat]              \* history: leases lapsed since queued anew

NoItem == [status |-> "absent", rowid |-> 0, attempt |-> 0,
           claimExpired |-> FALSE, lapsed |-> FALSE, lapses |-> 0]

NewItem(n) == [NoItem EXCEPT !.status = "queued", !.rowid = n]

Settled == {"ready", "failed", "blocked"}

RowRec == [state : {"absent", "pending"} \cup Settled, ver : Nat]

NoRow == [state |-> "absent", ver |-> 0]

Live(tbl, i) == tbl[i].status # "absent"

\* Faulty variant: the first queued item is claimed, past a claimed head.
FirstQueued(i) == /\ items[i].status = "queued"
                  /\ \A j \in Id : items[j].status = "queued" => items[i].rowid <= items[j].rowid

IsHead(i) == /\ Live(items, i)
             /\ \A j \in Id : Live(items, j) => items[i].rowid <= items[j].rowid

Empty == \A i \in Id : ~ Live(items, i)

\* n is the largest rowid in the table, 0 when the table is empty.
IsLast(tbl, n) == /\ \A i \in Id : Live(tbl, i) => tbl[i].rowid <= n
                  /\ n = 0 \/ \E i \in Id : Live(tbl, i) /\ tbl[i].rowid = n

\* OWNED_CLAIM_SQL: the row is still claimed, and by this very attempt.
Owned(h) == LET i == <<h.op, h.ver>>
            IN  /\ items[i].status = "claimed"
                /\ items[i].attempt = h.attempt

\* Faulty variant: taking a claim does not count the attempt.
TakeClaimUncounted(itm) == [itm EXCEPT !.status = "claimed", !.attempt = 1, !.lapsed = FALSE]

TakeClaim(itm) == [itm EXCEPT !.status = "claimed", !.attempt = @ + 1,
                              !.lapsed = FALSE]

Requeued(itm) == [itm EXCEPT !.status = "queued", !.claimExpired = TRUE,
                             !.lapsed = FALSE]

\* Faulty variants: the hand-back keeps the expiry mark, or deletes nothing and
\* leaves a status no reader of the queue knows.
ReleasedMarked(itm) == [itm EXCEPT !.status = "queued", !.lapsed = FALSE, !.lapses = 0]

ReleasedUnknown(itm) == [itm EXCEPT !.status = "released", !.lapsed = FALSE]

Released(itm) == [itm EXCEPT !.status = "queued", !.claimExpired = FALSE,
                             !.lapsed = FALSE, !.lapses = 0]

\* Faulty variant: the work of the kind and source is deleted, not the one item.
DeleteOperation(i) == [j \in Id |-> IF j[1] = i[1] THEN NoItem ELSE items[j]]

Delete(i) == [items EXCEPT ![i] = NoItem]

\* The rows of o at version v take state s; rows at another version are missed.
Stamp(o, v, s) ==
  [r \in Row |-> IF r \in Targets[o] /\ rows[r].state # "absent" /\ rows[r].ver = v
                 THEN [rows[r] EXCEPT !.state = s] ELSE rows[r]]

Hits(o, v) == {r \in Targets[o] : rows[r].state # "absent" /\ rows[r].ver = v}

\* Some target rows hit and some missed: DerivationCompletionError, rolled back.
Partial(o, v) == Hits(o, v) # {} /\ Hits(o, v) # Targets[o]

\* A request is a function from operations to the versions they are queued at.
Request == UNION {[S -> Version] : S \in SUBSET Op}

Insert(tbl, last, req) ==
  [i \in Id |-> IF i[1] \in DOMAIN req /\ req[i[1]] = i[2]
                THEN NewItem(last + Rank[i[1]]) ELSE tbl[i]]

Requested(r, req) == {o \in DOMAIN req : r \in Targets[o]}

Pend(rws, req) ==
  [r \in Row |-> IF Requested(r, req) = {} THEN rws[r]
                 ELSE [state |-> "pending",
                       ver |-> req[CHOOSE o \in Requested(r, req) : TRUE]]]

Raise(req) == [o \in Op |-> IF o \in DOMAIN req THEN req[o] ELSE top[o]]

\* The clients' discipline: a work item id is never enqueued a second time.
Fresh(req) == \A o \in DOMAIN req : req[o] > top[o]

-----------------------------------------------------------------------------
(* Workers.                                                                *)

Hand == [op : Op, ver : Version, attempt : Nat]

NoHand == [op |-> CHOOSE o \in Op : TRUE, ver |-> 1, attempt |-> 0]

NoneSeen == [r \in Row |-> NoRow]

Become(w, p, h) == /\ pc' = [pc EXCEPT ![w] = p]
                   /\ hand' = [hand EXCEPT ![w] = h]

Idle(w) == Become(w, "idle", NoHand)

HandOf(i, a) == [op |-> i[1], ver |-> i[2], attempt |-> a]

Init == /\ items = [i \in Id |-> NoItem]
        /\ rows = [r \in Row |-> NoRow]
        /\ pc = [w \in Worker |-> "idle"]
        /\ hand = [w \in Worker |-> NoHand]
        /\ seen = [w \in Worker |-> NoneSeen]
        /\ top = [o \in Op |-> 0]
        /\ faults = 0

-----------------------------------------------------------------------------
(* Client transactions.                                                    *)

\* enqueue: items are inserted and their rows reset to pending in one commit.
Enqueue(req) ==
  /\ DOMAIN req # {}
  /\ Fresh(req)
  /\ \E n \in 0..MaxRowid : /\ IsLast(items, n)
                            /\ items' = Insert(items, n, req)
  /\ rows' = Pend(rows, req)
  /\ top' = Raise(req)
  /\ UNCHANGED <<pc, hand, seen, faults>>

\* DELETE of the queued, never the claimed, items of these operations.
Supersede(S) == [i \in Id |-> IF i[1] \in S /\ items[i].status = "queued"
                              THEN NoItem ELSE items[i]]

Drop(S) == [r \in Row |-> IF \E o \in S : r \in Targets[o] THEN NoRow ELSE rows[r]]

\* runCascade: the rows of D are deleted, those of C rebuilt at the next version.
Cascade(D, C) ==
  /\ D \cap C = {}
  /\ D \cup C # {}
  /\ \A o \in D \cup C : \A r \in Targets[o] : rows[r].state # "absent"
  /\ LET next == [o \in C |-> 1 + rows[CHOOSE r \in Targets[o] : TRUE].ver]
     IN  /\ \A o \in C : next[o] \in Version
         /\ \E n \in 0..MaxRowid : /\ IsLast(Supersede(D \cup C), n)
                                   /\ items' = Insert(Supersede(D \cup C), n, next)
         /\ rows' = Pend(Drop(D), next)
         /\ top' = Raise(next)
  /\ UNCHANGED <<pc, hand, seen, faults>>

-----------------------------------------------------------------------------
(* The drain loop.                                                         *)

\* claimNext on a queued head.
Claim(w, i) ==
  /\ pc[w] = "idle"
  /\ IsHead(i)
  /\ items[i].status = "queued"
  /\ items' = [items EXCEPT ![i] = TakeClaim(@)]
  /\ Become(w, "running", HandOf(i, TakeClaim(items[i]).attempt))
  /\ UNCHANGED <<rows, seen, top, faults>>

\* claimNext on a claimed head whose lease has passed; nothing is written.
FindExpired(w, i) ==
  /\ pc[w] = "idle"
  /\ IsHead(i)
  /\ items[i].status = "claimed" /\ items[i].lapsed
  /\ Become(w, "expired", HandOf(i, items[i].attempt))
  /\ UNCHANGED <<items, rows, seen, top, faults>>

\* requeueExpiredClaim: lost when the claim is no longer the one found expired,
\* repeated when it had expired once before, else back to the head of the queue.
Requeue(w) ==
  LET h == hand[w]
      i == <<h.op, h.ver>>
  IN  /\ pc[w] = "expired"
      /\ \/ /\ ~ (Owned(h) /\ items[i].lapsed)
            /\ Idle(w)
            /\ UNCHANGED items
         \/ /\ Owned(h) /\ items[i].lapsed
            /\ items[i].claimExpired
            /\ Become(w, "repeated", h)
            /\ UNCHANGED items
         \/ /\ Owned(h) /\ items[i].lapsed
            /\ ~ items[i].claimExpired
            /\ items' = [items EXCEPT ![i] = Requeued(@)]
            /\ Idle(w)
      /\ UNCHANGED <<rows, seen, top, faults>>

\* applyDerivationTerminalFailure: the rows still at the attempt's version take
\* the final state and the item is deleted; a lost lease writes nothing.
Terminal(w, s) ==
  LET h == hand[w]
  IN  /\ IF Owned(h) /\ ~ Partial(h.op, h.ver)
         THEN /\ rows' = Stamp(h.op, h.ver, s)
              /\ items' = Delete(<<h.op, h.ver>>)
         ELSE UNCHANGED <<rows, items>>
      /\ Idle(w)
      /\ UNCHANGED <<seen, top, faults>>

\* Faulty variant: the repeated expiry is reported and the item left as it is.
FailRepeatedSilently(w) == pc[w] = "repeated" /\ Idle(w) /\ UNCHANGED <<items, rows, seen, top, faults>>

\* failRepeatedlyExpiredClaim
FailRepeated(w) == pc[w] = "repeated" /\ Terminal(w, "failed")

\* The handler failed, threw, found its source damaged, or has no dispatcher.
Fail(w) == pc[w] = "running" /\ \E s \in {"failed", "blocked"} : Terminal(w, s)

\* applyDerivationSuccess: the rows are stamped, onApplied enqueues follow-up
\* work in the same commit, and the item is deleted.  When every row has moved
\* to another version the result is discarded, without onApplied.
Succeed(w, req) ==
  LET h == hand[w]
      i == <<h.op, h.ver>>
      applies == Owned(h) /\ Hits(h.op, h.ver) = Targets[h.op]
      stale == Owned(h) /\ Hits(h.op, h.ver) = {}
  IN  /\ pc[w] = "running"
      /\ Fresh(req)
      /\ \/ /\ applies
            /\ \E n \in 0..MaxRowid :
                 IsLast(items, n) /\ items' = Insert(Delete(i), n, req)
            /\ rows' = Pend(Stamp(h.op, h.ver, "ready"), req)
            /\ top' = Raise(req)
         \/ /\ stale /\ DOMAIN req = {}
            /\ items' = Delete(i)
            /\ UNCHANGED <<rows, top>>
         \/ /\ ~ (applies \/ stale) /\ DOMAIN req = {}
            /\ UNCHANGED <<items, rows, top>>
      /\ Idle(w)
      /\ UNCHANGED <<seen, faults>>

-----------------------------------------------------------------------------
(* Explicit derive.                                                        *)

\* Faulty variant: a re-derive of a settled derivation keeps its version.
SameVersion(o) == CHOOSE v \in {rows[r].ver : r \in Targets[o]} : TRUE

\* sourceVersionForDerive: an unfinished version is taken over, else the next.
NextVersion(o) ==
  LET vers == {rows[r].ver : r \in Targets[o]}
      max == CHOOSE v \in vers : \A u \in vers : u <= v
  IN  IF \E r \in Targets[o] : rows[r].state = "pending" THEN max ELSE max + 1

\* The caller reads the rows: all must exist and none be blocked.
ReadRows(w, o) ==
  /\ pc[w] = "idle"
  /\ \A r \in Targets[o] : rows[r].state \notin {"absent", "blocked"}
  /\ NextVersion(o) \in Version
  /\ Become(w, "checked", [op |-> o, ver |-> NextVersion(o), attempt |-> 0])
  /\ seen' = [seen EXCEPT ![w] = [r \in Row |-> IF r \in Targets[o] THEN rows[r] ELSE NoRow]]
  /\ UNCHANGED <<items, rows, top, faults>>

BoundariesMatch(w) == \A r \in Targets[hand[w].op] : rows[r] = seen[w][r]

\* createOrClaimImmediateWorkItem, as one transaction over the head it finds.
ClaimNow(w) ==
  LET h == hand[w]
      i == <<h.op, h.ver>>
      req == [o \in {h.op} |-> h.ver]
      insert == /\ BoundariesMatch(w)
                /\ ~ Live(items, i)
                /\ rows' = Pend(rows, req)
                /\ top' = Raise(req)
      refuse == Idle(w) /\ UNCHANGED <<items, rows, top>>
  IN  /\ pc[w] = "checked"
      /\ seen' = [seen EXCEPT ![w] = NoneSeen]
      /\ \/ /\ Live(items, i) /\ ~ IsHead(i)
            /\ refuse
         \/ /\ ~ BoundariesMatch(w)
            /\ refuse
         \/ /\ ~ Empty /\ insert
            /\ \E n \in 0..MaxRowid : IsLast(items, n) /\ items' = Insert(items, n, req)
            /\ Idle(w)
         \/ /\ Empty /\ insert
            /\ items' = [Insert(items, 0, req) EXCEPT ![i] = TakeClaim(@)]
            /\ Become(w, "running", HandOf(i, 1))
         \/ /\ BoundariesMatch(w) /\ IsHead(i)
            /\ \/ /\ items[i].status = "queued"
                  /\ items' = [items EXCEPT ![i] = TakeClaim(@)]
                  /\ Become(w, "running", HandOf(i, TakeClaim(items[i]).attempt))
                  /\ UNCHANGED <<rows, top>>
               \/ /\ items[i].status = "claimed" /\ items[i].lapsed
                  /\ Become(w, "expired", HandOf(i, items[i].attempt))
                  /\ UNCHANGED <<items, rows, top>>
               \/ /\ items[i].status = "claimed" /\ ~ items[i].lapsed
                  /\ refuse
      /\ UNCHANGED faults

-----------------------------------------------------------------------------
(* Time and failures.                                                      *)

\* The clock passes claim_expires_at.
Lapse(i) ==
  /\ items[i].status = "claimed" /\ ~ items[i].lapsed
  /\ items' = [items EXCEPT ![i].lapsed = TRUE, ![i].lapses = @ + 1]
  /\ UNCHANGED <<rows, pc, hand, seen, top, faults>>

Gone(w) == /\ pc[w] # "idle"
           /\ faults < MaxFaults
           /\ faults' = faults + 1
           /\ Idle(w)
           /\ seen' = [seen EXCEPT ![w] = NoneSeen]
           /\ UNCHANGED <<rows, top>>

\* The process exits: releaseHeldClaims hands back the claim it still owns, and
\* forgets that the claim had expired once.
Exit(w) == /\ Gone(w)
           /\ items' = IF pc[w] = "running" /\ Owned(hand[w])
                       THEN [items EXCEPT ![<<hand[w].op, hand[w].ver>>] = Released(@)]
                       ELSE items

\* The process is killed: its claim stays until the lease passes.
Crash(w) == Gone(w) /\ UNCHANGED items

-----------------------------------------------------------------------------
DrainStep(w) == \/ \E i \in Id : Claim(w, i) \/ FindExpired(w, i)

Finish(w) == Fail(w) \/ \E req \in Request : Succeed(w, req)

Next == \/ \E req \in Request : Enqueue(req)
        \/ \E D, C \in SUBSET Op : Cascade(D, C)
        \/ \E w \in Drainer : DrainStep(w)
        \/ \E w \in Caller : ClaimNow(w) \/ \E o \in Op : ReadRows(w, o)
        \/ \E w \in Worker : \/ Requeue(w) \/ FailRepeated(w) \/ Finish(w)
                             \/ Exit(w) \/ Crash(w)
        \/ \E i \in Id : Lapse(i)

Spec == Init /\ [][Next]_vars

\* A drain loop keeps draining and a handler returns; leases run out.
Fairness ==
  /\ \A w \in Drainer : WF_vars(DrainStep(w))
  /\ \A w \in Worker : /\ WF_vars(Requeue(w))
                       /\ WF_vars(FailRepeated(w))
                       /\ WF_vars(Finish(w))
  /\ \A w \in Caller : WF_vars(ClaimNow(w))
  /\ \A i \in Id : WF_vars(Lapse(i))

FairSpec == Spec /\ Fairness

-----------------------------------------------------------------------------
(* Properties.                                                             *)

TypeOK ==
  /\ items \in [Id -> Item]
  /\ rows \in [Row -> RowRec]
  /\ pc \in [Worker -> {"idle", "checked", "running", "expired", "repeated"}]
  /\ hand \in [Worker -> Hand]
  /\ seen \in [Worker -> [Row -> RowRec]]
  /\ top \in [Op -> 0..MaxVersion]
  /\ faults \in 0..MaxFaults

\* Items are processed one at a time, head first: whatever the drains, callers,
\* exits and re-queues do, a claimed item is older than every other live item.
OneClaimAtTheHead ==
  \A i, j \in Id : /\ items[i].status = "claimed"
                   /\ Live(items, j)
                   /\ i # j
                   => items[i].rowid < items[j].rowid

\* The claim fence: of all the workers that hold an attempt at some item, also
\* those whose lease has passed, at most one can still complete or fail one.
OneOwner ==
  \A w, x \in Worker : /\ pc[w] = "running" /\ Owned(hand[w])
                       /\ pc[x] = "running" /\ Owned(hand[x])
                       => w = x

\* No work is lost and none is left over: a derivation is pending exactly while
\* an item of its version is live, through crashes, expiries and rebuilds.
PendingExactlyWhileLive ==
  \A o \in Op : \A r \in Targets[o] :
    rows[r].state = "pending" <=> /\ rows[r].state # "absent"
                                  /\ rows[r].ver \in Version
                                  /\ Live(items, <<o, rows[r].ver>>)

\* The rows an item writes always move together, so that a completion hits all
\* of them or none and never throws DerivationCompletionError, which would
\* leave the item at the head of the queue to throw again.
TargetsMoveTogether ==
  \A o \in Op : \A r, q \in Targets[o] : rows[r] = rows[q]

\* claim_expired_repeatedly is reported only of an item whose lease passed twice
\* since it was queued or handed back, never of one slow run.
NeverFailedOnFirstExpiry ==
  \A w \in Worker : pc[w] = "repeated" /\ Owned(hand[w])
                    => items[<<hand[w].op, hand[w].ver>>].lapses >= 2

\* A settled row is left alone: it changes only by moving to a later version or
\* by being dropped with its subject, so no late holder stamps it again.
SettledStays ==
  [][\A r \in Row : rows[r].state \in Settled /\ rows'[r] # rows[r]
                    => rows'[r].ver > rows[r].ver \/ rows'[r].state = "absent"]_vars

\* The rows as an operation's readers see them, with the version kept after a drop.
LedgerView == [o \in Op |-> [state |-> rows[CHOOSE r \in Targets[o] : TRUE].state,
                              ver |-> top[o]]]

Ledger == INSTANCE DerivationLedger WITH ledger <- LedgerView

\* The tables implement the ledger their readers rely on: versions only rise and
\* each requested version is answered at most once, while it is current.
ImplementsLedger == Ledger!Spec

\* Pending work is recorded durably and is drained once processes stop failing:
\* every pending derivation settles or is dropped.
EveryRequestSettles ==
  \A r \in Row : rows[r].state = "pending" ~> rows[r].state # "pending"
=============================================================================
