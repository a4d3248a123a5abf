----------------------------- MODULE ThreadView -----------------------------
(***************************************************************************)
(* The serving view of a thread and the compaction that writes it, over    *)
(* the record of ThreadRecord.  walkArrangement chooses a compact point    *)
(* and the entries that stand for everything at or before it; messages     *)
(* after it are the live tail.  prepareCompact walks a snapshot of the     *)
(* record, installPreparedCompact checks the record for drift and walks    *)
(* again if there was any, in the transaction that writes the view.        *)
(*                                                                         *)
(* Sizes: a message weighs one token; what is rendered weighs `Size`.      *)
(***************************************************************************)
EXTENDS ThreadRecord, TLC

CONSTANTS
  Profile,      \* [full, smooth, detailed, brief, protect, lower]: budgets in tokens
  Size,         \* [turn, part, detailed, brief, elder, gap]: tokens of a rendered entry
  PruneTargets, \* what prune is asked to leave of the visibility zone
  MaxCompacts   \* bound on the compactions

ASSUME ViewAssumption == PruneTargets \subseteq Nat /\ MaxCompacts \in Nat

VARIABLES
  view,     \* {} or {the installed view}
  boundary, \* view_boundary.position: tool results at or before it are stubs
  prepared  \* {} or {a prepared compact that is not installed yet}

viewVars == <<view, boundary, prepared>>
vars == <<recordVars, viewVars>>

-----------------------------------------------------------------------------
(* Step edges of a turn: where it can be split *)

StepMembers(t) == Ascending({o \in MembersOf(t) : event[o].kind \in StepKinds})

\* The places in m where a run of one step index starts.
RunStarts(m) == Ascending({i \in DOMAIN m : i = 1 \/ event[m[i]].step # event[m[i - 1]].step})

\* One step, of the members m: it is complete when its calls are answered in it
\* and it answers no other's.
StepOf(m) ==
  LET of(kind) == {i \in DOMAIN m : event[m[i]].kind = kind}
      straddled == \E r \in of("tool_result") : ~\E c \in of("tool_call") : c < r
      answered == \A c \in of("tool_call") : \E r \in of("tool_result") : c < r
  IN [index |-> event[m[1]].step, last |-> m[Len(m)],
      straddled |-> straddled, complete |-> answered /\ ~straddled]

RunsAt(m, starts) ==
  [n \in DOMAIN starts |->
     StepOf(SubSeq(m, starts[n], IF n = Len(starts) THEN Len(m) ELSE starts[n + 1] - 1))]

RunsOf(m) == RunsAt(m, RunStarts(m))

\* stepEdges: the runs of equal step index among the members, in order.
StepRuns(t) == RunsOf(StepMembers(t))

Splittable(steps) ==
  /\ steps # <<>>
  /\ \A n \in DOMAIN steps : steps[n].index = n - 1 /\ ~steps[n].straddled

\* The leading complete steps but the newest of them may go behind the edge.
LastEdge(steps) ==
  LET complete == MaxOf({n \in 0..Len(steps) : \A k \in 1..n : steps[k].complete}, 0)
  IN IF complete >= 2 THEN complete - 1 ELSE 0

\* The place of the step with this index, 0 when the record has no such step.
OrdinalThrough(steps, index) ==
  MaxOf({n \in DOMAIN steps : steps[n].index = index /\ \A k \in 1..n - 1 : steps[k].index # index}, 0)

-----------------------------------------------------------------------------
(* The compact point *)

TokensAfter(o) == Cardinality({m \in Live : m > o})
TurnTokens(t) == Cardinality(MembersOf(t))
TurnStart(t) == CHOOSE o \in MembersOf(t) : \A p \in MembersOf(t) : o <= p
Positive(n) == IF n > 0 THEN n ELSE 0
Lesser(a, b) == IF a < b THEN a ELSE b
Greater(a, b) == IF a > b THEN a ELSE b

\* The close of the last closed turn before t; 0 when there is none.
PreviousClose(t) ==
  LET before == {u \in ClosedTurns : u < t} IN IF before = {} THEN 0 ELSE turn[MaxOf(before, 0)].closed

\* crossingMessage: the message at which, newest first, the full band is full.
Crossing == MaxOf({o \in Live : TokensAfter(o - 1) >= Profile.full}, 0)

\* snapCompactPoint: a straddling turn stays whole, on the side that holds more of it.
SnapCompactPoint(o) ==
  LET t == event[o].turn
      fullSide == Positive(Lesser(TurnTokens(t), Profile.full - TokensAfter(turn[t].closed)))
  IN IF turn[t].status = "open" \/ o <= TurnStart(t) \/ fullSide >= TurnTokens(t) - fullSide
     THEN PreviousClose(t)
     ELSE turn[t].closed

-----------------------------------------------------------------------------
(* Turn parts: the turn that is served in ranges of its steps *)

NoParts == [turn |-> 0, ranges |-> <<>>]

\* readInstalledTransition
Installed == IF view = {} THEN NoParts ELSE (CHOOSE v \in view : TRUE).parts

\* The edge of the last of the ranges, 0 when the record lost its step.
EdgeOf(steps, ranges) ==
  LET n == OrdinalThrough(steps, ranges[Len(ranges)].to) IN IF n = 0 THEN 0 ELSE steps[n].last

InstalledEdge == EdgeOf(StepRuns(Installed.turn), Installed.ranges)

InstalledClosed == Installed.ranges # <<>> /\ Installed.turn \in ClosedTurns

\* A closed turn served in parts settles once the tail after it fills the full band.
Settling == InstalledClosed /\ TokensAfter(turn[Installed.turn].closed) >= Profile.full

Unsettled == InstalledClosed /\ ~Settling /\ InstalledEdge # 0

\* The first edge that leaves at most a full band after it; the furthest, when
\* none does; 0 when the full band ends outside the turn.
ComputedEdge(t, steps, kMax, crossing) ==
  LET fits == {k \in 1..kMax : TokensAfter(steps[k].last) <= Profile.full}
  IN IF crossing = 0 \/ event[crossing].turn # t THEN 0
     ELSE MaxOf({k \in fits : \A j \in fits : k <= j}, kMax)

\* The parts of t that end at its k-th step, the first priorK installed already.
PartsThrough(t, steps, prior, priorK, k) ==
  IF k = 0 THEN [point |-> 0, parts |-> NoParts]
  ELSE [point |-> steps[k].last,
        parts |-> [turn |-> t,
                   ranges |-> IF k > priorK
                              THEN Append(prior, [from |-> steps[priorK + 1].index, to |-> steps[k].index])
                              ELSE prior]]

\* The open turn is never split before the edge that is installed.
SplitOf(t, steps, prior, priorK, crossing) ==
  LET kMax == IF Splittable(steps) THEN LastEdge(steps) ELSE priorK
  IN PartsThrough(t, steps, prior, priorK, Greater(ComputedEdge(t, steps, kMax, crossing), priorK))

SplitFrom(t, steps, prior, crossing) ==
  SplitOf(t, steps, prior, IF prior = <<>> THEN 0 ELSE OrdinalThrough(steps, prior[Len(prior)].to), crossing)

OpenSplit(crossing) ==
  SplitFrom(OpenTurn, StepRuns(OpenTurn), IF Installed.turn = OpenTurn THEN Installed.ranges ELSE <<>>, crossing)

\* The point and the parts before the newest closed turn is protected.
SplitElse(open, crossing) ==
  IF Unsettled THEN [point |-> InstalledEdge, parts |-> Installed]
  ELSE IF open.parts # NoParts THEN open
  ELSE [point |-> IF ClosedTurns = {} \/ crossing = 0 THEN 0 ELSE SnapCompactPoint(crossing),
        parts |-> NoParts]

SplitAt(crossing) == SplitElse(OpenSplit(crossing), crossing)

\* The newest closed turn stays in full if it fits beside the tail, and otherwise
\* gets an entry of its own whatever the budgets.
Protect(s, newest, settling) ==
  LET transition == IF s.parts # NoParts THEN s.parts.turn ELSE MaxOf(settling, 0)
      reserve == IF s.parts # NoParts THEN TurnTokens(OpenTurn) ELSE TokensAfter(s.point)
      bound == Lesser(Profile.protect, Profile.lower - reserve)
  IN IF newest \in {0, transition} \/ turn[newest].closed > s.point
     THEN [point |-> s.point, parts |-> s.parts, mandatory |-> settling,
           mechanism |-> transition # 0]
     ELSE IF Installed.turn # OpenTurn /\ TurnTokens(newest) <= bound
     THEN [point |-> PreviousClose(newest), parts |-> NoParts, mandatory |-> settling, mechanism |-> TRUE]
     ELSE [point |-> s.point, parts |-> s.parts, mandatory |-> settling \cup {newest}, mechanism |-> TRUE]

Placement ==
  Protect(SplitAt(Crossing), MaxOf(ClosedTurns, 0), IF Settling THEN {Installed.turn} ELSE {})

\* The ranges of the plan name steps that the record still has.
PartsKnown(parts) ==
  \A n \in DOMAIN parts.ranges : OrdinalThrough(StepRuns(parts.turn), parts.ranges[n].to) # 0

-----------------------------------------------------------------------------
(* The bands *)

\* fillBand over candidates [turns, tokens], newest first: admit while the band
\* has room; the first is admitted whatever its size; at the first that does not
\* fit, "stop", or "skip" it and go on until the band is full. `skipped` are
\* the entries passed over before an older one was admitted.
FillBand(candidates, budget, crossing, admitFirst, prior) ==
  LET start == [in |-> <<>>, rest |-> <<>>, passed |-> {}, skipped |-> {}, done |-> FALSE,
                sum |-> FoldLeft(LAMBDA acc, e : acc + e.tokens, 0, prior)]
      held(b) == Len(prior) + Len(b.in)
      admit(b, e) == [b EXCEPT !.in = Append(@, e), !.sum = @ + e.tokens,
                               !.skipped = @ \cup b.passed, !.passed = {}]
      step(b, e) ==
        IF b.done \/ (crossing = "skip" /\ held(b) > 0 /\ b.sum >= budget)
        THEN [b EXCEPT !.done = TRUE, !.rest = Append(@, e)]
        ELSE IF b.sum + e.tokens <= budget THEN admit(b, e)
        ELSE IF held(b) = 0 THEN [admit(b, e) EXCEPT !.done = crossing = "stop"]
        ELSE IF crossing = "stop" THEN [b EXCEPT !.done = TRUE, !.rest = Append(@, e)]
        ELSE [b EXCEPT !.passed = @ \cup {e}]
  IN IF ~admitFirst /\ budget <= 0 THEN [start EXCEPT !.rest = candidates]
     ELSE FoldLeft(step, start, candidates)

Entry(kind, turns, tokens) == [kind |-> kind, turns |-> turns, tokens |-> tokens]

TurnsOf(entries) == UNION {e.turns : e \in entries}

NewestFirst(S) == Reverse(Ascending(S))

\* The members of a chunk that the walk sees.
Readable(c) == {t \in ToSet(chunk[c].members) : ~turn[t].deleted}

\* What is left of the shares of the bands once the mandatory tokens are carried.
Share(carry, shares) ==
  FoldLeft(LAMBDA acc, share : [left |-> Append(acc.left, Positive(share - acc.carry)),
                                carry |-> Positive(acc.carry - share)],
           [left |-> <<>>, carry |-> carry], shares).left

\* Faulty variant: a chunk of turns that have their own entries is a candidate too.
ChunkCandidatesAnywhere(banded, p, oldestSmooth) ==
  {c \in DOMAIN chunk : chunk[c].status = "closed" /\ Readable(c) # {} /\ MaxOf(Readable(c), 0) \in banded}

\* The chunks a band may take: closed, not around the turn in parts, and older
\* than every turn that has an entry of its own.
ChunkCandidates(banded, p, oldestSmooth) ==
  {c \in DOMAIN chunk :
     /\ chunk[c].status = "closed" /\ Readable(c) # {}
     /\ ~(p.parts.turn \in ClosedTurns /\ p.parts.turn \in ToSet(chunk[c].members))
     /\ MaxOf(Readable(c), 0) \in banded /\ MaxOf(Readable(c), 0) < oldestSmooth}

\* Turns without a chunk to stand for them, newest first: one candidate for each
\* that has a summary, one marker for each run of those that have none.
ElderCandidates(turns) ==
  FoldLeft(LAMBDA acc, t :
             IF turn[t].ready THEN Append(acc, Entry("elder", {t}, Size.elder))
             ELSE IF acc # <<>> /\ acc[Len(acc)].kind = "gap"
             THEN [acc EXCEPT ![Len(acc)].turns = @ \cup {t}]
             ELSE Append(acc, Entry("gap", {t}, Size.gap)),
           <<>>, NewestFirst(turns))

\* Every banded turn that no entry stands for is named by a gap marker.
RunMarkers(banded, lost) ==
  {Entry("gap", {u \in lost : \A w \in banded : (w \in t..u \/ w \in u..t) => w \in lost}, Size.gap) : t \in lost}

GapMarkers(banded, entries) == RunMarkers(banded, banded \ TurnsOf(entries))

\* walkArrangement fills the bands from the compact point back; `x` gathers what
\* it has placed so far.
Opening(p) ==
  LET banded == {t \in ClosedTurns : turn[t].closed <= p.point}
      overrun == IF p.mechanism THEN Positive(TokensAfter(p.point) - Profile.full) ELSE 0
  IN p @@ [banded |-> banded,
           carry |-> Len(p.parts.ranges) * Size.part
                       + Cardinality(p.mandatory \cap banded) * Size.turn + overrun]

WithShares(x) ==
  x @@ [share |-> Share(x.carry, <<Profile.smooth, Profile.detailed, Profile.brief>>),
        admitFirst |-> x.carry = 0]

AsTurns(turns) == [n \in DOMAIN turns |-> Entry("turn", {turns[n]}, Size.turn)]

WithSmooth(x) ==
  x @@ [whole |-> ToSet(AsTurns(Ascending(x.mandatory \cap x.banded)))
                    \cup ToSet(FillBand(AsTurns(NewestFirst(x.banded \ x.mandatory)),
                                       x.share[1], "stop", x.admitFirst, <<>>).in)]

Oldest(S) == IF S = {} THEN Len(turn) + 1 ELSE CHOOSE t \in S : \A u \in S : t <= u

WithCandidates(x) ==
  x @@ [cands |-> NewestFirst(ChunkCandidates(x.banded, x, Oldest(TurnsOf(x.whole))))]

AsChunks(cands, kind, size) == [n \in DOMAIN cands |-> Entry(kind, Readable(cands[n]), size)]

WithDetailed(x) ==
  x @@ [detailed |-> FillBand(AsChunks(x.cands, "detailed", Size.detailed), x.share[2], "stop", x.admitFirst, <<>>).in]

WithBrief(x) ==
  x @@ [brief |-> FillBand(AsChunks(SubSeq(x.cands, Len(x.detailed) + 1, Len(x.cands)), "brief", Size.brief),
                           x.share[3], "skip", x.admitFirst, <<>>)]

WithCovered(x) ==
  x @@ [selected |-> x.whole \cup ToSet(x.detailed) \cup ToSet(x.brief.in),
        covered |-> TurnsOf(x.whole \cup ToSet(x.detailed) \cup ToSet(x.brief.in) \cup x.brief.skipped)
                      \cup (IF x.parts = NoParts THEN {} ELSE {x.parts.turn})]

\* The turns older than every entry that no chunk could stand for.
WithOrphaned(x) ==
  x @@ [orphaned |-> {t \in x.banded \ (x.covered \cup UNION {Readable(x.cands[n]) : n \in DOMAIN x.cands}) :
                        t < Oldest(TurnsOf(x.selected))}]

WithElderDetailed(x) ==
  x @@ [elder |-> FillBand(ElderCandidates(x.orphaned), x.share[2], "stop", x.admitFirst, x.detailed)]

WithElders(x) ==
  x @@ [elders |-> ToSet(x.elder.in)
                     \cup ToSet(FillBand(x.elder.rest, x.share[3], "skip", x.admitFirst, x.brief.in).in)]

\* A turn younger than the oldest entry that nothing covers gets its own.
WithGaps(x) ==
  LET reached == Oldest(TurnsOf(x.selected \cup {e \in x.elders : e.kind = "elder"}))
  IN x.selected \cup x.elders \cup
       {Entry("coverage", {t}, Size.elder) : t \in {u \in x.banded \ (x.covered \cup x.orphaned) : u >= reached}}

WithMarkers(banded, entries) == entries \cup GapMarkers(banded, entries)

ArrangeFrom(x) ==
  WithMarkers(x.banded,
    WithGaps(WithElders(WithElderDetailed(WithOrphaned(WithCovered(
      WithBrief(WithDetailed(WithCandidates(WithSmooth(x))))))))))

Arrange(p) == ArrangeFrom(WithShares(Opening(p)))

\* The walk throws on a range whose last step the record does not have.
WalkFrom(p) ==
  [fails |-> ~PartsKnown(p.parts), point |-> p.point, parts |-> p.parts, entries |-> Arrange(p)]

Walk == WalkFrom(Placement)

\* The messages that the bands of a walk stand for.
Behind(w) == {o \in Live : o <= w.point}

-----------------------------------------------------------------------------
(* prepareCompact, installPreparedCompact, prune, and rollback of the view *)

ViewId == IF view = {} THEN 0 ELSE (CHOOSE v \in view : TRUE).id

\* Faulty variant: the digest leaves the derivations out.
SourceWithoutDerivations(w) == [order |-> Len(event), viewId |-> ViewId, boundary |-> boundary,
                                turns |-> [t \in DOMAIN turn |-> <<turn[t].status, turn[t].closed>>]]

\* readPreparedSourceState: the rows whose change is drift.
SourceState(w) ==
  LET named == TurnsOf({e \in w.entries : e.kind # "gap" \/ Cardinality(e.turns) = 1})
                 \cup (IF w.parts = NoParts THEN {} ELSE {w.parts.turn})
      selected == IF named = {} THEN {t \in DOMAIN turn : ChunksOf(t) # {}} ELSE named
      read == {o \in DOMAIN event : IsMessage(o) /\ (o > w.point \/ event[o].turn \in selected)}
  IN [order |-> Len(event), viewId |-> ViewId, boundary |-> boundary,
      derivations |-> <<[t \in DOMAIN turn |-> turn[t].ready], summary>>,
      messages |-> {<<o, event[o].state, event[o].rev>> : o \in read},
      turns |-> [t \in DOMAIN turn |-> <<turn[t].status, turn[t].closed>>],
      chunks |-> chunk,
      steps |-> {<<o, event[o].step>> : o \in MembersOf(OpenTurn)}]

PreparedOf(walk) == [walk |-> walk, seen |-> SourceState(walk), empty |-> EmptyChunks]

PrepareCompact ==
  /\ prepared = {}
  /\ count.compacts < MaxCompacts
  /\ prepared' = {PreparedOf(walk) : walk \in {w \in {Walk} : ~w.fails}}
  /\ prepared' # {}
  /\ count' = [count EXCEPT !.compacts = @ + 1]
  /\ UNCHANGED <<event, turn, chunk, summary, job, handler, view, boundary>>

\* The compact is stopped before it writes.
StopCompact ==
  /\ prepared # {} /\ prepared' = {}
  /\ UNCHANGED <<recordVars, view, boundary>>

Install(walk, empty) ==
  /\ DropEmptyReadableChunks(empty)
  /\ view' = {[id |-> Len(event), point |-> walk.point, parts |-> walk.parts,
               entries |-> walk.entries, behind |-> Behind(walk)]}
  /\ boundary' = walk.point
  /\ UNCHANGED <<event, turn, handler, count>>

\* On drift the compact is computed again, on the record as it is; one that
\* throws leaves the prior view serving.
InstallPreparedCompact ==
  \E p \in prepared :
    /\ prepared' = {}
    /\ \/ SourceState(p.walk) = p.seen /\ Install(p.walk, p.empty)
       \/ /\ SourceState(p.walk) # p.seen
          /\ \E walk \in {Walk} :
               IF walk.fails THEN UNCHANGED <<recordVars, view, boundary>> ELSE Install(walk, EmptyChunks)

CompactPoint == IF view = {} THEN 0 ELSE (CHOOSE v \in view : TRUE).point

Zone == {o \in Live : event[o].kind = "tool_result" /\ o > boundary /\ o > CompactPoint}

\* pruneInTransaction: the newest results that fit the target stay in full.
Prune(target) ==
  LET beyond == {o \in Zone : Cardinality({r \in Zone : r >= o}) > target}
  IN /\ beyond # {}
     /\ boundary' = MaxOf(beyond, 0)
     /\ UNCHANGED <<recordVars, view, prepared>>

\* Faulty variant: the view survives any rollback.
KeepStoredView(keep) == view

\* dropStoredViewPast, in the transaction of the rollback.
StoredViewThrough(keep) == {v \in view : v.point <= keep}

RollbackView(keep) ==
  /\ Rollback(keep)
  /\ view' = StoredViewThrough(keep)
  /\ UNCHANGED <<boundary, prepared>>

-----------------------------------------------------------------------------
Init == RecordInit /\ view = {} /\ boundary = 0 /\ prepared = {}

Next ==
  \/ RecordNext /\ UNCHANGED viewVars
  \/ \E keep \in 0..MaxEvents : RollbackView(keep)
  \/ PrepareCompact \/ StopCompact \/ InstallPreparedCompact
  \/ \E target \in PruneTargets : Prune(target)

Spec == Init /\ [][Next]_vars

-----------------------------------------------------------------------------
(* Properties *)

TypeOK ==
  /\ \A o \in DOMAIN event :
       event[o] \in [kind : MessageKinds \cup {"turn_end", "rollback"}, turn : 0..Len(turn),
                    step : Int, keep : Nat, state : {"live", "removed", "hidden"}, rev : Nat]
  /\ \A t \in DOMAIN turn :
       turn[t] \in [status : {"open", "closed"}, closed : Nat, deleted : BOOLEAN, ready : BOOLEAN]
  /\ DOMAIN summary \subseteq DOMAIN chunk
  /\ \A i \in DOMAIN job : job[i].status \in {"queued", "claimed"} /\ job[i].chunk \in DOMAIN chunk
  /\ boundary \in Nat
  /\ Cardinality(view) <= 1 /\ Cardinality(prepared) <= 1

\* How many entries of view v stand for turn t.
TimesShown(v, t) ==
  Cardinality({e \in v.entries : t \in e.turns}) + (IF v.parts # NoParts /\ v.parts.turn = t THEN 1 ELSE 0)

\* Nothing is lost and nothing is said twice: every live message behind the
\* compact point is in exactly one entry of the bands (a turn, a part, a chunk or
\* a gap marker), and one after it is in none, only in the tail; however the
\* record changed since the view was installed.
ShownOnce ==
  \A v \in view : \A o \in Live :
    /\ o <= v.point => TimesShown(v, event[o].turn) = 1
    /\ o > v.point => \A e \in v.entries : event[o].turn \notin e.turns

\* What a rollback hid is in no band, and in no ready summary a band could take.
RolledBackIsUnread ==
  /\ \A v \in view : \A o \in v.behind : ~RolledBack(o)
  /\ \A c \in DOMAIN summary : \A s \in summary[c].read : ~RolledBack(s[1])

\* An install writes what a compaction of the record as it is now would choose,
\* however old the prepared one is.
InstallIsFresh ==
  [][InstallPreparedCompact /\ view' # view
       => \A v \in view' : [fails |-> FALSE, point |-> v.point, parts |-> v.parts, entries |-> v.entries] = Walk]_vars

\* 02-domain-design.md:358: "The tail never begins mid-turn: the compact point
\* snaps forward to a turn boundary."  (Turns in parts have their own seam.)
TailStartsAtATurn ==
  \A v \in view : v.parts = NoParts =>
    \A t \in DOMAIN turn : (\A o \in MembersOf(t) : o <= v.point) \/ (\A o \in MembersOf(t) : o > v.point)
=============================================================================
