---------------------------- MODULE ThreadRecord ----------------------------
(***************************************************************************)
(* The canonical record of one thread: the event log, the messages it      *)
(* projects, the turns that group them and the chunks that group turns.    *)
(* An action is one write transaction of lhc; the readers are ThreadView.  *)
(*                                                                         *)
(* An event's order is its place in `event`, and a message is named by the *)
(* order of its event, as in the code (m<order>, t<order>, c<order>).      *)
(* Texts are left out: what a message says is its revision `rev`.          *)
(***************************************************************************)
EXTENDS Integers, Sequences, FiniteSets, SequencesExt

CONSTANTS
  Input,          \* the kinds of event the host sends in this instance
  PromptsClose,   \* TRUE: a prompt may arrive in a turn the host has not ended
  TargetTokens,   \* chunk policy: a chunk that would reach this is closed first
  MaxEvents,      \* bound on the log
  MaxRollbacks,   \* bound on the rollbacks
  MaxMutations,   \* bound on the edits and removals
  MaxLapses,      \* bound on the summary leases that pass
  MaxTokens       \* chunk policy: a turn this large fills its chunk alone

StepKinds == {"assistant_text", "tool_call", "tool_result"}
MessageKinds == {"user_prompt"} \cup StepKinds

ASSUME InputAssumption == Input \subseteq MessageKinds \cup {"turn_end", "rollback"}
ASSUME BoundAssumption ==
  /\ PromptsClose \in BOOLEAN
  /\ {TargetTokens, MaxTokens, MaxEvents, MaxRollbacks, MaxMutations, MaxLapses} \subseteq Nat

VARIABLES
  event,   \* sequence of [kind, turn, step, keep, state, rev]
  turn,    \* sequence of [status, closed, deleted, ready]
  chunk,   \* chunk id -> [status, members, tokens]
  summary, \* chunk id -> [version, ready, read]: its summary rows
  job,     \* work item -> [chunk, version, status, attempt]: the live items
  handler, \* set of [item, attempt, read]: summary handlers under way
  count    \* [rollbacks, mutations, lapses, compacts, items]: the bounds, and fresh item ids

recordVars == <<event, turn, chunk, summary, job, handler, count>>

-----------------------------------------------------------------------------
(* Reading the record *)

IsMessage(o) == event[o].kind \in MessageKinds

\* `message.deleted_at IS NULL`, in order.
Live == {o \in DOMAIN event : IsMessage(o) /\ event[o].state = "live"}

MembersOf(t) == {o \in Live : event[o].turn = t}

\* A finite set of numbers, in order.
Ascending(S) == [n \in 1..Cardinality(S) |-> CHOOSE x \in S : Cardinality({y \in S : y <= x}) = n]

MaxOf(S, default) == IF S = {} THEN default ELSE CHOOSE x \in S : \A y \in S : y <= x

OpenTurns == {t \in DOMAIN turn : turn[t].status = "open"}

OpenTurn == CHOOSE t \in OpenTurns : TRUE

ClosedTurns == {t \in DOMAIN turn : turn[t].status = "closed" /\ ~turn[t].deleted}

ChunksOf(t) == {c \in DOMAIN chunk : t \in ToSet(chunk[c].members)}

HasReadableMember(c) == \E t \in ToSet(chunk[c].members) : ~turn[t].deleted

NewTurn == [status |-> "open", closed |-> 0, deleted |-> FALSE, ready |-> FALSE]

-----------------------------------------------------------------------------
(* Derivation rows: what a cascade does to the summaries of the chunks.   *)

WithoutKeys(f, S) == [x \in DOMAIN f \ S |-> f[x]]

\* What a summary of chunk c is made from: the live messages of its turns.
SourceOf(c) == {<<o, event[o].rev>> : o \in UNION {MembersOf(t) : t \in ToSet(chunk[c].members)}}

Pending(version) == [version |-> version, ready |-> FALSE, read |-> {}]

NewJob(c, version) == [chunk |-> c, version |-> version, status |-> "queued", attempt |-> 0]

\* The items of `job` but the queued ones of the chunks C, and one new item for
\* each chunk of asked, at the version it is asked for.
Requeued(C, asked) ==
  LET left == {i \in DOMAIN job : job[i].status # "queued" \/ job[i].chunk \notin C}
      new == Ascending(DOMAIN asked)
      id(n) == count.items + n
  IN [i \in left \cup {id(n) : n \in DOMAIN new} |->
        IF i \in left THEN job[i]
        ELSE LET c == new[i - count.items] IN NewJob(c, asked[c])]

\* Faulty variant: a cleared row is rebuilt at the version it had.
SameVersion(c) == summary[c].version

NextVersion(c) == summary[c].version + 1

\* runCascade: the rows of the dropped subjects go, with their queued items; the
\* rows of the cleared ones turn pending at the next version under a new item,
\* and a queued item of theirs is superseded. A claimed item stays with its
\* handler, whose version no row has any more. `tally` is the count of the
\* operation that cascades.
RunCascade(dropTurns, clearTurns, dropChunks, clearChunks, tally) ==
  LET rebuilt == clearChunks \cap DOMAIN summary
  IN /\ summary' = [c \in DOMAIN summary \ dropChunks |->
                      IF c \in rebuilt THEN Pending(NextVersion(c)) ELSE summary[c]]
     /\ job' = Requeued((dropChunks \cap DOMAIN summary) \cup rebuilt,
                          [c \in rebuilt |-> NextVersion(c)])
     /\ turn' = [t \in DOMAIN turn |->
                   [turn[t] EXCEPT !.deleted = @ \/ t \in dropTurns,
                                   !.ready = @ /\ t \notin dropTurns \cup clearTurns]]
     /\ count' = [tally EXCEPT !.items = @ + Cardinality(rebuilt)]

-----------------------------------------------------------------------------
(* Intake: one event of a batch, and the turn it belongs to *)

\* The step the host writes on a message of the open turn: a result has its
\* call's step, everything else a new one.
UnansweredCalls(t) ==
  {o \in MembersOf(t) : event[o].kind = "tool_call"
                        /\ ~\E r \in MembersOf(t) : /\ event[r].kind = "tool_result"
                                                    /\ event[r].step = event[o].step}

NextStep(t) == MaxOf({event[o].step : o \in MembersOf(t)}, -1) + 1

Record(kind, t, step) ==
  Append(event,
         [kind |-> kind, turn |-> t, step |-> step, keep |-> 0, state |-> "live", rev |-> 0])

\* createTurn for a turn_end, and for a prompt in a turn with members: the open
\* turn is closed at this event's own order and a new one opened.
CloseAndOpen(t) ==
  Append([turn EXCEPT ![t].status = "closed", ![t].closed = Len(event) + 1], NewTurn)

TurnEnd ==
  /\ "turn_end" \in Input /\ Len(event) < MaxEvents
  /\ MembersOf(OpenTurn) # {}
  /\ event' = Record("turn_end", 0, -1)
  /\ turn' = CloseAndOpen(OpenTurn)
  /\ UNCHANGED <<chunk, summary, job, handler, count>>

UserPrompt ==
  /\ "user_prompt" \in Input /\ Len(event) < MaxEvents
  /\ IF MembersOf(OpenTurn) = {}
     THEN event' = Record("user_prompt", OpenTurn, -1) /\ UNCHANGED turn
     ELSE /\ PromptsClose
          /\ event' = Record("user_prompt", Len(turn) + 1, -1)
          /\ turn' = CloseAndOpen(OpenTurn)
  /\ UNCHANGED <<chunk, summary, job, handler, count>>

\* Every other message joins the open turn; a `steer` prompt does too, without
\* a step.
Message(kind) ==
  /\ kind \in Input \cap StepKinds /\ Len(event) < MaxEvents
  /\ MembersOf(OpenTurn) # {}
  /\ IF kind = "tool_result"
     THEN \E call \in UnansweredCalls(OpenTurn) :
            event' = Record(kind, OpenTurn, event[call].step)
     ELSE event' = Record(kind, OpenTurn, NextStep(OpenTurn))
  /\ UNCHANGED <<turn, chunk, summary, job, handler, count>>

\* Faulty variant: the members are counted before they are hidden.
KeepsAnyMember(t, keep) == MembersOf(t) # {}

\* hasLiveMemberTurn, once the messages after `keep` are hidden.
KeepsMember(t, keep) == \E o \in MembersOf(t) : o <= keep

\* applyRollback: hide every message recorded after `keep`; a closed turn left
\* without members is deleted, one with members is derived again, and so the
\* chunks of both. The anchor is recorded before the event, or the batch fails.
Rollback(keep) ==
  LET hidden == {o \in Live : o > keep}
      touched == {t \in {event[o].turn : o \in hidden} : turn[t].status = "closed"}
      emptied == {t \in touched : ~KeepsMember(t, keep)}
      chunks == UNION {ChunksOf(t) : t \in touched}
      gone == {c \in chunks : \A t \in ToSet(chunk[c].members) : turn[t].deleted \/ t \in emptied}
  IN /\ "rollback" \in Input /\ Len(event) < MaxEvents
     /\ count.rollbacks < MaxRollbacks
     /\ keep \in 0..Len(event)
     /\ event' = Append([o \in DOMAIN event |->
                           [event[o] EXCEPT !.state = IF o \in hidden THEN "hidden" ELSE @]],
                        [kind |-> "rollback", turn |-> 0, step |-> -1, keep |-> keep,
                         state |-> "live", rev |-> 0])
     /\ RunCascade(emptied, touched \ emptied, gone, chunks \ gone,
                   [count EXCEPT !.rollbacks = @ + 1])
     /\ UNCHANGED <<chunk, handler>>

-----------------------------------------------------------------------------
(* The user's edits and removals, of a closed turn only *)

Mutable(o) == o \in Live /\ turn[event[o].turn].status = "closed" /\ count.mutations < MaxMutations

Mutated == [count EXCEPT !.mutations = @ + 1]

EditMessage(o) ==
  /\ Mutable(o)
  /\ event' = [event EXCEPT ![o].rev = @ + 1]
  /\ RunCascade({}, {event[o].turn}, {}, ChunksOf(event[o].turn), Mutated)
  /\ UNCHANGED <<chunk, handler>>

\* The prompt that opened the turn stays.
RemoveMessage(o) ==
  /\ Mutable(o) /\ event[o].kind # "user_prompt"
  /\ event' = [event EXCEPT ![o].state = "removed"]
  /\ RunCascade({}, {event[o].turn}, {}, ChunksOf(event[o].turn), Mutated)
  /\ UNCHANGED <<chunk, handler>>

-----------------------------------------------------------------------------
(* Chunks *)

AddChunk(f, c) == [x \in DOMAIN f \cup {c} |->
                     IF x \in DOMAIN f THEN f[x] ELSE [status |-> "open", members |-> <<>>, tokens |-> 0]]

\* openNextChunk takes MAX(chunk_order) + 1: an id that was dropped comes back.
NextChunk(f) == MaxOf(DOMAIN f, 0) + 1

\* placeTurn, in the transaction that turns the rendering of t ready: the turn
\* joins the newest open chunk, which is closed first when the turn would bring
\* it to its target, and after when the turn alone fills it. The summaries of
\* the closed chunks are queued. A turn placed before keeps its place.
Place(t) ==
  LET size == Cardinality(MembersOf(t))
      open == MaxOf({c \in DOMAIN chunk : chunk[c].status = "open"}, 0)
      full == open # 0 /\ chunk[open].members # <<>> /\ chunk[open].tokens + size >= TargetTokens
      closedFirst == IF full THEN [chunk EXCEPT ![open].status = "closed"] ELSE chunk
      c == IF open = 0 \/ full THEN NextChunk(chunk) ELSE open
  IN [AddChunk(closedFirst, c) EXCEPT
        ![c].members = Append(@, t), ![c].tokens = @ + size,
        ![c].status = IF size >= MaxTokens THEN "closed" ELSE @]

TurnDerived(t) ==
  LET placed == IF ChunksOf(t) = {} THEN Place(t) ELSE chunk
      closing == {c \in DOMAIN placed : /\ placed[c].status = "closed"
                                        /\ c \in DOMAIN chunk => chunk[c].status = "open"}
  IN /\ t \in ClosedTurns /\ ~turn[t].ready
     /\ turn' = [turn EXCEPT ![t].ready = TRUE]
     /\ chunk' = placed
     /\ summary' = [c \in DOMAIN summary \cup closing |->
                      IF c \in closing THEN Pending(1) ELSE summary[c]]
     /\ job' = Requeued({}, [c \in closing |-> 1])
     /\ count' = [count EXCEPT !.items = @ + Cardinality(closing)]
     /\ UNCHANGED <<event, handler>>

\* A summary handler takes the item and reads the members of the chunk; it waits
\* for a member that is not derived (dependencyNotReady).
SummaryClaim(i) ==
  LET c == job[i].chunk IN
  /\ job[i].status = "queued"
  /\ \A t \in ToSet(chunk[c].members) : turn[t].deleted \/ turn[t].ready
  /\ job' = [job EXCEPT ![i].status = "claimed", ![i].attempt = @ + 1]
  /\ handler' = handler \cup {[item |-> i, attempt |-> job[i].attempt + 1, read |-> SourceOf(c)]}
  /\ UNCHANGED <<event, turn, chunk, summary, count>>

\* OWNED_CLAIM_SQL: the item is still claimed by this attempt.
OwnsClaim(h) ==
  h.item \in DOMAIN job /\ job[h.item].status = "claimed" /\ job[h.item].attempt = h.attempt

\* The completion ends the item, and writes the row if it has the item's version.
SummaryDone(h) ==
  /\ handler' = handler \ {h}
  /\ IF OwnsClaim(h)
     THEN LET c == job[h.item].chunk
              current == c \in DOMAIN summary /\ summary[c].version = job[h.item].version
          IN /\ job' = WithoutKeys(job, {h.item})
             /\ summary' = [k \in DOMAIN summary |->
                              IF k = c /\ current THEN [summary[k] EXCEPT !.ready = TRUE, !.read = h.read]
                              ELSE summary[k]]
     ELSE UNCHANGED <<summary, job>>
  /\ UNCHANGED <<event, turn, chunk, count>>

\* The lease passes while the handler runs on: the item is claimable again.
SummaryLapse(i) ==
  /\ job[i].status = "claimed" /\ count.lapses < MaxLapses
  /\ job' = [job EXCEPT ![i].status = "queued"]
  /\ count' = [count EXCEPT !.lapses = @ + 1]
  /\ UNCHANGED <<event, turn, chunk, summary, handler>>

\* shapeChunks: the chunks a compaction finds without a readable member.
EmptyChunks == {c \in DOMAIN chunk : ~HasReadableMember(c)}

HasClaimedWork(c) == \E i \in DOMAIN job : job[i].chunk = c /\ job[i].status = "claimed"

\* Faulty variant: the queued items of a dropped chunk stay.
DropChunksOnly(found) ==
  LET dropped == {c \in found \cap EmptyChunks : ~HasClaimedWork(c)}
  IN chunk' = WithoutKeys(chunk, dropped) /\ summary' = WithoutKeys(summary, dropped) /\ UNCHANGED job

\* dropEmptyReadableChunks: those of `found` that are still empty and have no
\* claimed work go, with their rows and queued items.
DropEmptyReadableChunks(found) ==
  LET dropped == {c \in found \cap EmptyChunks : ~HasClaimedWork(c)}
  IN /\ chunk' = WithoutKeys(chunk, dropped)
     /\ summary' = WithoutKeys(summary, dropped)
     /\ job' = WithoutKeys(job, {i \in DOMAIN job : job[i].chunk \in dropped})

-----------------------------------------------------------------------------
RecordInit ==
  /\ event = <<>>
  /\ turn = <<NewTurn>>
  /\ chunk = [c \in {} |-> 0]
  /\ summary = [c \in {} |-> Pending(1)]
  /\ job = [i \in {} |-> NewJob(0, 1)]
  /\ handler = {}
  /\ count = [rollbacks |-> 0, mutations |-> 0, lapses |-> 0, compacts |-> 0, items |-> 0]

\* Every operation but those that touch the view as well (ThreadView).
RecordNext ==
  \/ TurnEnd \/ UserPrompt
  \/ \E kind \in StepKinds : Message(kind)
  \/ \E o \in DOMAIN event : EditMessage(o) \/ RemoveMessage(o)
  \/ \E t \in DOMAIN turn : TurnDerived(t)
  \/ \E i \in DOMAIN job : SummaryClaim(i) \/ SummaryLapse(i)
  \/ \E h \in handler : SummaryDone(h)

-----------------------------------------------------------------------------
(* Properties of the record *)

\* A rollback recorded later hides the message.
RolledBack(o) == \E r \in DOMAIN event : event[r].kind = "rollback" /\ event[r].keep < o /\ o < r

\* A ready summary is made from the messages its chunk holds now, whatever
\* edits, removals and rollbacks came between, a lapsed handler that answers
\* late, or a chunk id that was dropped and given out again (chunks.ts:34).
SummaryIsCurrent == \A c \in DOMAIN summary : summary[c].ready => summary[c].read = SourceOf(c)

\* What is rolled back stays hidden, its turns closed or deleted, and at most
\* one turn is open, whatever the order of events and mutations.
RollbackHolds ==
  /\ \A o \in Live : ~RolledBack(o)
  /\ Cardinality(OpenTurns) = 1
  /\ \A t \in ClosedTurns : MembersOf(t) # {}
  /\ \A t \in DOMAIN turn : Cardinality(ChunksOf(t)) <= 1
=============================================================================
