---------------------------- MODULE Thread_proofs ----------------------------
(***************************************************************************)
(* Proofs about the record of a thread and its view: that what is rolled   *)
(* back stays hidden and unread, and that no stale summary is served.      *)
(***************************************************************************)
EXTENDS ThreadView, FiniteSetTheorems, SequenceTheorems, TLAPS

-----------------------------------------------------------------------------
(* The inductive invariant.                                                *)

Kind == MessageKinds \cup {"turn_end", "rollback"}

Event == [kind : Kind, turn : Nat, step : Int, keep : Nat,
          state : {"live", "removed", "hidden"}, rev : Nat]

TurnRow == [status : {"open", "closed"}, closed : Nat, deleted : BOOLEAN, ready : BOOLEAN]

ChunkRow == [status : {"open", "closed"}, members : Seq(Nat), tokens : Nat]

Job == [chunk : Nat, version : Nat, status : {"queued", "claimed"}, attempt : Nat]

Counts == [{"rollbacks", "mutations", "lapses", "compacts", "items"} -> Nat]

\* The tables have their types; chunk and item ids are numbers given out so far.
Tables ==
  /\ event \in Seq(Event)
  /\ \E b \in Nat : \A o \in DOMAIN event : event[o].step \in -1..b
  /\ turn \in Seq(TurnRow)
  /\ \E b \in Nat : DOMAIN chunk \subseteq 1..b
  /\ \A c \in DOMAIN chunk : chunk[c] \in ChunkRow
  /\ \A c \in DOMAIN summary : /\ summary[c] = [version |-> summary[c].version, ready |-> summary[c].ready,
                                                read |-> summary[c].read]
                               /\ summary[c].version \in Nat
                               /\ summary[c].ready \in BOOLEAN
  /\ DOMAIN job \subseteq 1..count.items
  /\ \A i \in DOMAIN job : job[i] \in Job
  /\ \A h \in handler : h.item \in 1..count.items /\ h.attempt \in Nat
  /\ count \in Counts

\* The last turn is the open one, and a message belongs to a turn there is.
Turns ==
  /\ Len(turn) >= 1
  /\ \A t \in 1..Len(turn) : turn[t].status = "open" <=> t = Len(turn)
  /\ \A o \in DOMAIN event : event[o].turn <= Len(turn)
  /\ \A o \in DOMAIN event : IsMessage(o) => event[o].turn >= 1

\* A turn with members starts with a prompt, which no removal takes from it.
Prompted ==
  \A t \in 1..Len(turn) : MembersOf(t) # {} =>
    \E p \in MembersOf(t) : event[p].kind = "user_prompt" /\ \A o \in MembersOf(t) : p <= o

\* No live message is rolled back, and a closed turn keeps members or is deleted.
Hidden ==
  /\ \A o \in Live : ~ RolledBack(o)
  /\ \A t \in ClosedTurns : MembersOf(t) # {}

\* Chunks hold closed turns, each turn in one chunk.
Placed ==
  /\ \A c \in DOMAIN chunk : \A t \in ToSet(chunk[c].members) : t \in 1..Len(turn) /\ turn[t].status = "closed"
  /\ \A c, d \in DOMAIN chunk : ToSet(chunk[c].members) \cap ToSet(chunk[d].members) # {} => c = d

\* The members of chunk c are settled: only edits, removals and rollbacks touch them.
Full(c) == c \in DOMAIN chunk /\ chunk[c].status = "closed"

\* Rows and items are those of closed chunks, and no item is ahead of its row.
Versions ==
  /\ \A c \in DOMAIN summary : Full(c)
  /\ \A i \in DOMAIN job : Full(job[i].chunk)
  /\ \A i \in DOMAIN job : job[i].chunk \in DOMAIN summary => job[i].version <= summary[job[i].chunk].version

\* What handler h read is what its chunk holds, if its answer would be taken.
Answers(h) ==
  \A c \in DOMAIN summary :
    OwnsClaim(h) /\ job[h.item].chunk = c /\ job[h.item].version = summary[c].version
    => h.read = SourceOf(c)

Handlers ==
  /\ \A h \in handler : h.item \in DOMAIN job => h.attempt <= job[h.item].attempt
  /\ \A h \in handler : Answers(h)
  /\ SummaryIsCurrent
  /\ \A c \in DOMAIN summary : ~ summary[c].ready => summary[c].read = {}

RecordInv == Tables /\ Turns /\ Prompted /\ Hidden /\ Placed /\ Versions /\ Handlers

\* What the view stands for lies behind its point and was not rolled back.
Views ==
  /\ \A v, w \in view : v = w
  /\ \A p, q \in prepared : p = q
  /\ boundary \in Nat
  /\ \A v \in view : /\ v.point \in Nat
                     /\ \A o \in v.behind : o \in Nat /\ o <= v.point /\ ~ RolledBack(o)
  /\ \A p \in prepared : p.walk.point \in Nat

ThreadInv == RecordInv /\ Views

-----------------------------------------------------------------------------
(* Finite sets of numbers.                                                 *)

LEMMA LeastOf ==
  ASSUME NEW S \in SUBSET Nat, S # {}
  PROVE  \E x \in S : \A y \in S : x <= y
<1>1. PICK x \in S : \A y \in S : ~ (<<y, x>> \in OpToRel(<, Nat))
  BY NatLessThanWellFounded, WFMin
<1>2. \A y \in S : ~ (y < x)
  BY <1>1, Zenon DEF OpToRel
<1> QED BY <1>2

LEMMA GreatestOf ==
  ASSUME NEW a \in Int, NEW b \in Int, NEW S \in SUBSET (a..b), S # {}
  PROVE  \E x \in S : \A y \in S : y <= x
<1> DEFINE T == {n \in Nat : b - n \in S}
<1>1. \A y \in S : y \in Int /\ b - y \in Nat /\ b - (b - y) = y
  <2> SUFFICES ASSUME NEW y \in S PROVE y \in Int /\ b - y \in Nat /\ b - (b - y) = y
    OBVIOUS
  <2>1. y \in a..b
    OBVIOUS
  <2> QED BY <2>1
<1>2. \A y \in S : b - y \in T
  BY <1>1
<1>3. T \in SUBSET Nat /\ T # {}
  BY <1>2
<1>4. \A n \in T : n \in Nat /\ b - n \in S
  OBVIOUS
<1> HIDE DEF T
<1>5. PICK n \in T : \A k \in T : n <= k
  BY <1>3, LeastOf
<1>6. \A y \in S : y <= b - n
  BY <1>1, <1>2, <1>4, <1>5
<1> QED BY <1>4, <1>5, <1>6

\* The greatest of a bounded set is one of its members.
LEMMA MaxIsIn ==
  ASSUME NEW a \in Int, NEW b \in Int, NEW S \in SUBSET (a..b), NEW d, S # {}
  PROVE  MaxOf(S, d) \in S /\ \A y \in S : y <= MaxOf(S, d)
<1>1. \E x \in S : \A y \in S : y <= x
  BY GreatestOf
<1>2. MaxOf(S, d) = CHOOSE x \in S : \A y \in S : y <= x
  BY DEF MaxOf
<1> QED BY <1>1, <1>2

\* What numbers of S come up to x.
UpTo(S, x) == {y \in S : y <= x}

LEMMA FiniteOf ==
  ASSUME NEW b \in Nat, NEW S \in SUBSET (0..b)
  PROVE  IsFiniteSet(S) /\ Cardinality(S) \in Nat
<1>1. IsFiniteSet(0..b)
  BY FS_Interval
<1>2. IsFiniteSet(S)
  BY <1>1, FS_Subset
<1> QED BY <1>2, FS_CardinalityType

LEMMA UpToGrows ==
  ASSUME NEW b \in Nat, NEW S \in SUBSET (0..b), NEW x \in S, NEW z \in S, x <= z
  PROVE  Cardinality(UpTo(S, x)) <= Cardinality(UpTo(S, z))
<1> DEFINE X == UpTo(S, x)
           Z == UpTo(S, z)
<1>1. \A y \in S : y \in Int
  OBVIOUS
<1>2. \A y \in S : y <= x => y <= z
  BY <1>1
<1>3. X \in SUBSET Z /\ Z \in SUBSET (0..b)
  BY <1>2 DEF UpTo
<1> HIDE DEF X, Z
<1>4. Cardinality(X) <= Cardinality(Z)
  BY <1>3, FiniteOf, FS_Subset
<1> QED BY <1>4 DEF X, Z

LEMMA UpToNext ==
  ASSUME NEW b \in Nat, NEW S \in SUBSET (0..b), NEW x \in S
  PROVE  Cardinality(UpTo(S, x)) = Cardinality({y \in S : y < x}) + 1
<1> DEFINE B == {y \in S : y < x}
<1>1. B \in SUBSET (0..b) /\ x \notin B
  <2>1. x \in Int /\ ~ (x < x)
    OBVIOUS
  <2> QED BY <2>1
<1>2. UpTo(S, x) = B \cup {x}
  <2>1. \A y \in S : y \in Int
    OBVIOUS
  <2>2. \A y \in S : y <= x <=> y < x \/ y = x
    BY <2>1
  <2> QED BY <2>2 DEF UpTo
<1> HIDE DEF B
<1>3. IsFiniteSet(B)
  BY <1>1, FiniteOf
<1>4. Cardinality(UpTo(S, x)) = Cardinality(B) + 1
  BY <1>1, <1>2, <1>3, FS_AddElement
<1> QED BY <1>4 DEF B

\* Every place of Ascending(S) has its member of S.
LEMMA PlaceIsTaken ==
  ASSUME NEW b \in Nat, NEW S \in SUBSET (0..b), NEW n \in 1..Cardinality(S)
  PROVE  \E x \in S : Cardinality(UpTo(S, x)) = n
<1> DEFINE T == {x \in S : Cardinality(UpTo(S, x)) >= n}
<1>1. \A x \in S : Cardinality(UpTo(S, x)) \in Nat
  <2>1. \A x \in S : UpTo(S, x) \in SUBSET (0..b)
    BY DEF UpTo
  <2> QED BY <2>1, FiniteOf
<1>0. T \in SUBSET Nat
  <2>1. T \subseteq S /\ S \subseteq Nat
    OBVIOUS
  <2> QED BY <2>1
<1>2. T # {}
  <2>1. S # {}
    BY FS_EmptySet
  <2>2. PICK z \in S : \A y \in S : y <= z
    BY <2>1, 0 \in Int, b \in Int, GreatestOf
  <2>3. UpTo(S, z) = S
    BY <2>2 DEF UpTo
  <2>4. Cardinality(S) \in Nat
    BY FiniteOf
  <2> QED BY <2>2, <2>3, <2>4
<1>3. PICK x \in T : \A y \in T : x <= y
  <2> HIDE DEF T
  <2> QED BY <1>0, <1>2, LeastOf
<1> DEFINE B == {y \in S : y < x}
<1>4. B \in SUBSET (0..b) /\ Cardinality(B) \in Nat
  BY FiniteOf
<1>5. Cardinality(UpTo(S, x)) = Cardinality(B) + 1
  BY <1>3, UpToNext
<1>6. Cardinality(B) < n
  <2>1. CASE B = {}
    BY <2>1, FS_EmptySet
  <2>2. CASE B # {}
    <3>1. PICK z \in B : \A y \in B : y <= z
      BY <1>4, <2>2, 0 \in Int, b \in Int, GreatestOf
    <3>2. \A y \in S : y \in Nat /\ (y <= z => y < x)
      BY <3>1
    <3>3. UpTo(S, z) = B
      BY <3>1, <3>2 DEF UpTo
    <3>4. z \in S /\ z \notin T
      BY <1>3, <3>1
    <3>5. ~ (Cardinality(B) >= n)
      BY <3>3, <3>4
    <3> QED BY <1>4, <3>5
  <2> QED BY <2>1, <2>2
<1>7. Cardinality(UpTo(S, x)) >= n
  BY <1>3
<1> QED BY <1>1, <1>3, <1>4, <1>5, <1>6, <1>7

\* Ascending(S) lists members of S, each before the greater ones.
LEMMA AscendingIs ==
  ASSUME NEW b \in Nat, NEW S \in SUBSET (0..b)
  PROVE  /\ Cardinality(S) \in Nat
         /\ DOMAIN Ascending(S) = 1..Cardinality(S)
         /\ Ascending(S) \in Seq(S) /\ Len(Ascending(S)) = Cardinality(S)
         /\ \A n \in 1..Cardinality(S) : Ascending(S)[n] \in S
         /\ \A n, k \in 1..Cardinality(S) : n < k => Ascending(S)[n] < Ascending(S)[k]
<1> DEFINE A == Ascending(S)
<1>1. Cardinality(S) \in Nat
  BY FiniteOf
<1>2. A = [n \in 1..Cardinality(S) |-> CHOOSE x \in S : Cardinality(UpTo(S, x)) = n]
  BY DEF Ascending, UpTo
<1>3. \A n \in 1..Cardinality(S) : A[n] \in S /\ Cardinality(UpTo(S, A[n])) = n
  <2> SUFFICES ASSUME NEW n \in 1..Cardinality(S) PROVE A[n] \in S /\ Cardinality(UpTo(S, A[n])) = n
    OBVIOUS
  <2>1. \E x \in S : Cardinality(UpTo(S, x)) = n
    BY PlaceIsTaken
  <2>2. A[n] = CHOOSE x \in S : Cardinality(UpTo(S, x)) = n
    BY <1>2
  <2> QED BY <2>1, <2>2
<1> HIDE DEF A
<1>4. \A n, k \in 1..Cardinality(S) : n < k => A[n] < A[k]
  <2> SUFFICES ASSUME NEW n \in 1..Cardinality(S), NEW k \in 1..Cardinality(S), n < k, A[k] <= A[n]
               PROVE  FALSE
    <3>1. \A i \in 1..Cardinality(S) : A[i] \in S
      BY <1>3
    <3>2. S \subseteq Int
      OBVIOUS
    <3>3. \A i \in 1..Cardinality(S) : A[i] \in Int
      BY <3>1, <3>2
    <3> QED BY <3>3
  <2>1. Cardinality(UpTo(S, A[k])) <= Cardinality(UpTo(S, A[n]))
    BY <1>3, UpToGrows
  <2> QED BY <1>1, <1>3, <2>1
<1>5. DOMAIN A = 1..Cardinality(S)
  BY <1>2
<1>6. A \in Seq(S) /\ Len(A) = Cardinality(S)
  BY <1>1, <1>2, <1>3, <1>5
<1> QED BY <1>1, <1>3, <1>4, <1>5, <1>6 DEF A

-----------------------------------------------------------------------------
(* Reading the record.                                                     *)

LEMMA EventsAre ==
  ASSUME event \in Seq(Event)
  PROVE  /\ Len(event) \in Nat /\ DOMAIN event = 1..Len(event)
         /\ \A o \in 1..Len(event) : event[o] \in Event
BY LenProperties, ElementOfSeq

LEMMA TurnsAre ==
  ASSUME turn \in Seq(TurnRow)
  PROVE  /\ Len(turn) \in Nat /\ DOMAIN turn = 1..Len(turn)
         /\ \A t \in 1..Len(turn) : turn[t] \in TurnRow
BY LenProperties, ElementOfSeq

\* The open turn is the last one.
LEMMA OpenIsLast ==
  ASSUME Tables, Turns
  PROVE  /\ OpenTurn = Len(turn) /\ OpenTurns = {Len(turn)} /\ Len(turn) \in 1..Len(turn)
         /\ \A t \in 1..Len(turn) : turn[t].status = "closed" <=> t < Len(turn)
<1>1. Len(turn) \in Nat /\ DOMAIN turn = 1..Len(turn) /\ \A t \in 1..Len(turn) : turn[t] \in TurnRow
  BY TurnsAre DEF Tables
<1>0. Len(turn) >= 1 /\ \A t \in 1..Len(turn) : turn[t].status = "open" <=> t = Len(turn)
  BY DEF Turns
<1>2. Len(turn) \in 1..Len(turn)
  <2>1. Len(turn) \in Nat /\ Len(turn) >= 1
    BY <1>0, <1>1
  <2> QED BY <2>1
<1>3. OpenTurns = {Len(turn)}
  BY <1>0, <1>1, <1>2 DEF OpenTurns
<1>4. OpenTurn = Len(turn)
  BY <1>3 DEF OpenTurn
<1>5. \A t \in 1..Len(turn) : turn[t].status = "closed" <=> t < Len(turn)
  <2>1. \A t \in 1..Len(turn) : turn[t].status = "closed" <=> turn[t].status # "open"
    BY <1>1 DEF TurnRow
  <2>2. \A t \in 1..Len(turn) : t # Len(turn) <=> t < Len(turn)
    <3>1. Len(turn) \in Nat
      BY <1>1
    <3> QED BY <3>1
  <2> QED BY <1>0, <2>1, <2>2
<1> QED BY <1>2, <1>3, <1>4, <1>5

\* The live messages, read off the rows.
LEMMA LiveIs ==
  ASSUME Tables
  PROVE  /\ \A o : o \in Live <=> /\ o \in 1..Len(event) /\ event[o].kind \in MessageKinds
                                  /\ event[o].state = "live"
         /\ \A o, t : o \in MembersOf(t) <=> o \in Live /\ event[o].turn = t
BY EventsAre DEF Tables, Live, MembersOf, IsMessage

\* A summary is made from the same messages as long as nobody touches its turns.
LEMMA SourceSame ==
  ASSUME NEW c, chunk'[c].members = chunk[c].members,
         \A t \in ToSet(chunk[c].members) :
            MembersOf(t)' = MembersOf(t) /\ \A o \in MembersOf(t) : event'[o].rev = event[o].rev
  PROVE  SourceOf(c)' = SourceOf(c)
<1> DEFINE T == ToSet(chunk[c].members)
           S == UNION {MembersOf(t) : t \in T}
<1>1. ToSet(chunk[c].members)' = T
  OBVIOUS
<1>2. (UNION {MembersOf(t) : t \in ToSet(chunk[c].members)})' = UNION {MembersOf(t)' : t \in T}
  BY <1>1
<1>3. UNION {MembersOf(t)' : t \in T} = S
  OBVIOUS
<1>4. \A o \in S : event'[o].rev = event[o].rev
  OBVIOUS
<1>5. SourceOf(c)' = {<<o, event'[o].rev>> : o \in S}
  BY <1>2, <1>3 DEF SourceOf
<1>6. SourceOf(c) = {<<o, event[o].rev>> : o \in S}
  BY DEF SourceOf
<1> QED BY <1>4, <1>5, <1>6

-----------------------------------------------------------------------------
(* An event joins the record.                                              *)

LEMMA Grows ==
  ASSUME NEW e \in Event, event \in Seq(Event), event' = Append(event, e)
  PROVE  /\ event' \in Seq(Event) /\ Len(event') = Len(event) + 1
         /\ \A o \in 1..Len(event) : event'[o] = event[o]
         /\ event'[Len(event) + 1] = e
<1>1. Len(event) \in Nat
  BY EventsAre
<1> QED BY <1>1, AppendProperties

\* Closing the open turn opens one behind it.
LEMMA TurnGrows ==
  ASSUME Tables, Turns, turn' = CloseAndOpen(OpenTurn)
  PROVE  /\ turn' \in Seq(TurnRow) /\ Len(turn') = Len(turn) + 1
         /\ \A t \in 1..Len(turn) : /\ turn'[t].status = "closed" /\ turn'[t].deleted = turn[t].deleted
                                    /\ turn'[t].ready = turn[t].ready
         /\ turn'[Len(turn) + 1].status = "open"
<1> DEFINE L == Len(turn)
           row == [turn[L] EXCEPT !.status = "closed", !.closed = Len(event) + 1]
           old == [turn EXCEPT ![L] = row]
<1>1. L \in Nat /\ L \in 1..L /\ \A t \in 1..L : turn[t] \in TurnRow /\ (turn[t].status = "closed" <=> t < L)
  BY TurnsAre, OpenIsLast DEF Tables
<1>2. Len(event) + 1 \in Nat
  BY EventsAre DEF Tables
<1>3. row \in TurnRow /\ row.status = "closed" /\ row.deleted = turn[L].deleted /\ row.ready = turn[L].ready
  BY <1>1, <1>2 DEF TurnRow
<1>4. NewTurn \in TurnRow /\ NewTurn.status = "open"
  BY DEF NewTurn, TurnRow
<1>5. turn' = Append(old, NewTurn)
  BY OpenIsLast DEF CloseAndOpen
<1> HIDE DEF row
<1>6. old \in Seq(TurnRow) /\ Len(old) = L /\ \A t \in 1..L : old[t] = IF t = L THEN row ELSE turn[t]
  BY <1>1, <1>3, ExceptSeq DEF Tables
<1> HIDE DEF old, L
<1>7. turn' \in Seq(TurnRow) /\ Len(turn') = L + 1 /\ turn'[L + 1] = NewTurn
        /\ \A t \in 1..L : turn'[t] = old[t]
  BY <1>4, <1>5, <1>6, AppendProperties
<1>8. \A t \in 1..L : turn'[t].status = "closed" /\ turn'[t].deleted = turn[t].deleted
                        /\ turn'[t].ready = turn[t].ready
  BY <1>1, <1>3, <1>6, <1>7
<1> QED BY <1>4, <1>7, <1>8 DEF L

\* What is recorded behind the log rolls nothing back, and only messages count.
LEMMA GrownLive ==
  ASSUME Tables, NEW e \in Event, event' = Append(event, e), e.state = "live"
  PROVE  /\ \A o : o \in Live' <=> o \in Live \/ (o = Len(event) + 1 /\ e.kind \in MessageKinds)
         /\ \A o, t : o \in MembersOf(t)' <=>
              o \in MembersOf(t) \/ (o = Len(event) + 1 /\ e.kind \in MessageKinds /\ e.turn = t)
<1>1. /\ event' \in Seq(Event) /\ Len(event') = Len(event) + 1
      /\ \A o \in 1..Len(event) : event'[o] = event[o]
      /\ event'[Len(event) + 1] = e
  BY Grows DEF Tables
<1>2. Len(event) \in Nat /\ DOMAIN event' = 1..Len(event) + 1 /\ DOMAIN event = 1..Len(event)
  BY <1>1, EventsAre, LenProperties DEF Tables
<1>3. \A o : o \in DOMAIN event' <=> o \in DOMAIN event \/ o = Len(event) + 1
  BY <1>2
<1>4. \A o : o \in Live' <=> o \in Live \/ (o = Len(event) + 1 /\ e.kind \in MessageKinds)
  BY <1>1, <1>2, <1>3 DEF Live, IsMessage
<1>5. \A o, t : o \in MembersOf(t)' <=> o \in Live' /\ event'[o].turn = t
  BY DEF MembersOf
<1>6. \A o \in Live : o \in 1..Len(event)
  BY LiveIs
<1>7. Len(event) + 1 \notin Live
  BY <1>2, <1>6
<1>8. \A o, t : o \in MembersOf(t) <=> o \in Live /\ event[o].turn = t
  BY DEF MembersOf
<1> QED BY <1>1, <1>4, <1>5, <1>6, <1>7, <1>8

\* A record of any kind but a rollback changes what is rolled back for no one.
LEMMA RolledBackSame ==
  ASSUME Tables, NEW e \in Event, event' = Append(event, e), e.kind # "rollback", NEW o
  PROVE  RolledBack(o)' <=> RolledBack(o)
<1>1. /\ event' \in Seq(Event) /\ Len(event') = Len(event) + 1
      /\ \A r \in 1..Len(event) : event'[r] = event[r]
      /\ event'[Len(event) + 1] = e
  BY Grows DEF Tables
<1>2. Len(event) \in Nat /\ DOMAIN event' = 1..Len(event) + 1 /\ DOMAIN event = 1..Len(event)
  BY <1>1, EventsAre, LenProperties DEF Tables
<1>3. \A r : r \in DOMAIN event' <=> r \in DOMAIN event \/ r = Len(event) + 1
  BY <1>2
<1> QED BY <1>1, <1>2, <1>3 DEF RolledBack

\* The step of an event that joins the log: the turn it belongs to is the open one,
\* perhaps one it opens, and only a prompt begins a turn.
Joins(e) ==
  /\ e \in Event /\ e.state = "live" /\ e.kind # "rollback" /\ e.step >= -1
  /\ event' = Append(event, e)
  /\ \/ turn' = turn
     \/ turn' = CloseAndOpen(OpenTurn) /\ MembersOf(OpenTurn) # {}
  /\ e.kind \in MessageKinds => /\ e.turn = Len(turn')
                                /\ e.kind = "user_prompt" \/ (MembersOf(e.turn) # {} /\ turn' = turn)
                                /\ e.kind = "user_prompt" => MembersOf(e.turn) = {}
  /\ e.kind \notin MessageKinds => e.turn = 0
  /\ UNCHANGED <<chunk, summary, job, handler, count>>

\* The turns after such a step: those that were closed stay so.
LEMMA JoinedTurns ==
  ASSUME Tables, Turns, NEW e, Joins(e)
  PROVE  /\ turn' \in Seq(TurnRow) /\ Len(turn') \in Nat
         /\ Len(turn) \in 1..Len(turn) /\ Len(turn') \in {Len(turn), Len(turn) + 1}
         /\ \A t \in 1..Len(turn') : turn'[t].status = "open" <=> t = Len(turn')
         /\ \A t \in 1..Len(turn) : turn'[t].deleted = turn[t].deleted
         /\ \A t \in 1..Len(turn) : turn[t].status = "closed" => turn'[t].status = "closed" /\ t < Len(turn)
<1>1. Len(turn) \in Nat /\ Len(turn) \in 1..Len(turn) /\ OpenTurn = Len(turn)
        /\ \A t \in 1..Len(turn) : (turn[t].status = "closed" <=> t < Len(turn)) /\ turn[t] \in TurnRow
  BY TurnsAre, OpenIsLast DEF Tables
<1>2. CASE turn' = turn
  BY <1>1, <1>2 DEF Tables, Turns
<1>3. CASE turn' = CloseAndOpen(OpenTurn)
  <2>1. /\ turn' \in Seq(TurnRow) /\ Len(turn') = Len(turn) + 1
        /\ \A t \in 1..Len(turn) : turn'[t].status = "closed" /\ turn'[t].deleted = turn[t].deleted
        /\ turn'[Len(turn) + 1].status = "open"
    BY <1>3, TurnGrows
  <2>2. \A t \in 1..Len(turn') : t \in 1..Len(turn) \/ t = Len(turn) + 1
    BY <1>1, <2>1
  <2>3. \A t \in 1..Len(turn) : t # Len(turn')
    BY <1>1, <2>1
  <2> QED BY <1>1, <2>1, <2>2, <2>3
<1> QED BY <1>2, <1>3 DEF Joins

\* Members of the closed turns stay.
LEMMA JoinedMembers ==
  ASSUME Tables, Turns, NEW e, Joins(e)
  PROVE  /\ \A t \in 1..Len(turn) : t < Len(turn) => MembersOf(t)' = MembersOf(t)
         /\ \A t \in 1..Len(turn') : MembersOf(t)' = MembersOf(t) \cup
              (IF e.kind \in MessageKinds /\ t = Len(turn') THEN {Len(event) + 1} ELSE {})
         /\ \A t \in 1..Len(turn') : t > Len(turn) => MembersOf(t) = {}
<1>1. Len(turn) \in 1..Len(turn) /\ Len(turn') \in {Len(turn), Len(turn) + 1} /\ Len(turn) \in Nat
  BY JoinedTurns, TurnsAre DEF Tables
<1>2. \A o, t : o \in MembersOf(t)' <=>
              o \in MembersOf(t) \/ (o = Len(event) + 1 /\ e.kind \in MessageKinds /\ e.turn = t)
  BY GrownLive DEF Joins
<1>3. e.kind \in MessageKinds => e.turn = Len(turn')
  BY DEF Joins
<1>4. \A t \in 1..Len(turn) : t < Len(turn) => MembersOf(t)' = MembersOf(t)
  <2> SUFFICES ASSUME NEW t \in 1..Len(turn), t < Len(turn) PROVE MembersOf(t)' = MembersOf(t)
    OBVIOUS
  <2>1. t # Len(turn')
    BY <1>1
  <2>2. \A o : o \in MembersOf(t)' <=> o \in MembersOf(t)
    BY <1>2, <1>3, <2>1
  <2>3. MembersOf(t) \subseteq Live /\ MembersOf(t)' \subseteq Live'
    BY DEF MembersOf
  <2> QED BY <2>2, <2>3
<1>5. \A t \in 1..Len(turn') : MembersOf(t)' = MembersOf(t) \cup
              (IF e.kind \in MessageKinds /\ t = Len(turn') THEN {Len(event) + 1} ELSE {})
  BY <1>2, <1>3
<1>6. \A t \in 1..Len(turn') : t > Len(turn) => MembersOf(t) = {}
  <2>1. \A o \in Live : o \in DOMAIN event /\ event[o].turn <= Len(turn) /\ event[o].turn \in Nat
    BY LiveIs, EventsAre DEF Tables, Turns, Event
  <2>2. \A t \in 1..Len(turn') : t \in Nat
    BY <1>1
  <2> QED BY <1>1, <2>1, <2>2 DEF MembersOf
<1> QED BY <1>4, <1>5, <1>6

LEMMA JoinKeepsRecord ==
  ASSUME RecordInv, NEW e, Joins(e)
  PROVE  RecordInv' /\ \A o : RolledBack(o)' <=> RolledBack(o)
<1> USE DEF RecordInv
<1> DEFINE L == Len(turn)
           n == Len(event) + 1
<1>1. /\ turn' \in Seq(TurnRow) /\ Len(turn') \in Nat /\ L \in 1..L /\ Len(turn') \in {L, L + 1}
      /\ \A t \in 1..Len(turn') : turn'[t].status = "open" <=> t = Len(turn')
      /\ \A t \in 1..L : turn'[t].deleted = turn[t].deleted
      /\ \A t \in 1..L : turn[t].status = "closed" => turn'[t].status = "closed" /\ t < L
  BY JoinedTurns
<1>2. /\ \A t \in 1..L : t < L => MembersOf(t)' = MembersOf(t)
      /\ \A t \in 1..Len(turn') : MembersOf(t)' = MembersOf(t) \cup
              (IF e.kind \in MessageKinds /\ t = Len(turn') THEN {n} ELSE {})
      /\ \A t \in 1..Len(turn') : t > L => MembersOf(t) = {}
  BY JoinedMembers
<1>3. /\ event' \in Seq(Event) /\ Len(event') = n /\ n \in Nat /\ Len(event) \in Nat
      /\ \A o \in 1..Len(event) : event'[o] = event[o]
      /\ event'[n] = e
      /\ DOMAIN event' = 1..n /\ DOMAIN event = 1..Len(event)
  BY Grows, EventsAre, LenProperties DEF Tables, Joins
<1>4. \A o : RolledBack(o)' <=> RolledBack(o)
  BY RolledBackSame DEF Joins
<1>5. UNCHANGED <<chunk, summary, job, handler, count>>
  BY DEF Joins
<1>6. \A o : o \in Live' <=> o \in Live \/ (o = n /\ e.kind \in MessageKinds)
  BY GrownLive DEF Joins
<1>7. \A o \in Live : o \in 1..Len(event)
  BY LiveIs
<1>8. L \in Nat /\ DOMAIN turn = 1..L /\ DOMAIN turn' = 1..Len(turn')
  BY <1>1, TurnsAre, LenProperties DEF Tables
<1> HIDE DEF L, n
<1>9. /\ L \in Nat /\ L >= 1 /\ Len(turn') \in Nat /\ (Len(turn') = L \/ Len(turn') = L + 1)
      /\ \A t \in 1..L : t \in 1..Len(turn')
  <2>1. L \in Nat
    BY <1>8
  <2>2. L \in 1..L
    BY <1>1
  <2>3. L >= 1
    BY <2>1, <2>2
  <2>4. Len(turn') = L \/ Len(turn') = L + 1
    BY <1>1
  <2> QED BY <2>1, <2>3, <2>4
<1>10. Tables'
  <2>1. \E b \in Nat : \A o \in DOMAIN event' : event'[o].step \in -1..b
    <3>1. PICK b \in Nat : \A o \in DOMAIN event : event[o].step \in -1..b
      BY DEF Tables
    <3>2. e.step \in Int /\ e.step >= -1
      BY DEF Joins, Event
    <3>3. PICK d \in Nat : b <= d /\ e.step <= d
      <4>1. CASE e.step <= b
        BY <4>1
      <4>2. CASE e.step > b
        BY <3>2, <4>2
      <4> QED BY <3>2, <4>1, <4>2
    <3>4. \A o \in DOMAIN event' : o \in DOMAIN event \/ o = n
      BY <1>3 DEF n
    <3>5. \A o \in DOMAIN event' : event'[o].step \in -1..d
      BY <1>3, <3>1, <3>2, <3>3, <3>4
    <3> QED BY <3>5
  <2> QED BY <1>1, <1>3, <1>5, <2>1 DEF Tables
<1>11. Turns'
  <2>1. Len(turn') >= 1
    BY <1>9
  <2>2. \A o \in DOMAIN event' : event'[o].turn <= Len(turn')
    <3> SUFFICES ASSUME NEW o \in DOMAIN event' PROVE event'[o].turn <= Len(turn')
      OBVIOUS
    <3>1. CASE o = n
      <4>1. e.turn = 0 \/ e.turn = Len(turn')
        BY DEF Joins
      <4> QED BY <1>1, <1>3, <3>1, <4>1
    <3>2. CASE o # n
      <4>1. o \in 1..Len(event)
        BY <1>3, <3>2 DEF n
      <4>2. event[o].turn <= L /\ event[o].turn \in Nat
        BY <1>3, <4>1, EventsAre DEF Tables, Turns, Event, L
      <4>3. event'[o].turn <= L /\ event'[o].turn \in Nat
        BY <1>3, <4>1, <4>2
      <4> QED BY <1>9, <4>3
    <3> QED BY <3>1, <3>2
  <2>3. \A o \in DOMAIN event' : IsMessage(o)' => event'[o].turn >= 1
    <3> SUFFICES ASSUME NEW o \in DOMAIN event', IsMessage(o)' PROVE event'[o].turn >= 1
      OBVIOUS
    <3>1. event'[o].kind \in MessageKinds
      BY DEF IsMessage
    <3>2. CASE o = n
      <4>1. e.turn = Len(turn')
        BY <1>3, <3>1, <3>2 DEF Joins
      <4> QED BY <1>1, <1>3, <2>1, <3>2, <4>1
    <3>3. CASE o # n
      <4>1. o \in 1..Len(event)
        BY <1>3, <3>3 DEF n
      <4> QED BY <1>3, <3>1, <4>1 DEF Turns, IsMessage
    <3> QED BY <3>2, <3>3
  <2> QED BY <1>1, <1>8, <2>1, <2>2, <2>3 DEF Turns
<1>12. Prompted'
  <2> SUFFICES ASSUME NEW t \in 1..Len(turn'), MembersOf(t)' # {}
               PROVE  \E p \in MembersOf(t)' : event'[p].kind = "user_prompt" /\ \A o \in MembersOf(t)' : p <= o
    BY DEF Prompted
  <2>1. CASE MembersOf(t) # {}
    <3>1. t \in 1..L
      <4>1. ~ (t > L)
        BY <1>2, <2>1 DEF L
      <4> QED BY <1>9, <4>1
    <3>2. PICK p \in MembersOf(t) : event[p].kind = "user_prompt" /\ \A o \in MembersOf(t) : p <= o
      BY <2>1, <3>1 DEF Prompted, L
    <3>3. p \in 1..Len(event) /\ p <= n
      <4>1. p \in 1..Len(event)
        BY <1>7 DEF MembersOf
      <4> QED BY <1>3, <4>1 DEF n
    <3>4. p \in MembersOf(t)' /\ \A o \in MembersOf(t)' : o \in MembersOf(t) \/ o = n
      BY <1>2
    <3> QED BY <1>3, <3>2, <3>3, <3>4
  <2>2. CASE MembersOf(t) = {}
    <3>1. e.kind \in MessageKinds /\ t = Len(turn') /\ MembersOf(t)' = {n}
      BY <1>2, <2>2
    <3>2. e.kind = "user_prompt"
      BY <2>2, <3>1 DEF Joins
    <3> QED BY <1>3, <3>1, <3>2
  <2> QED BY <2>1, <2>2
<1>13. Hidden'
  <2>1. \A o \in Live' : ~ RolledBack(o)'
    <3> SUFFICES ASSUME NEW o \in Live', RolledBack(o) PROVE FALSE
      BY <1>4
    <3>1. o = n
      BY <1>6 DEF Hidden
    <3>2. PICK r \in DOMAIN event : o < r
      BY DEF RolledBack
    <3> QED BY <1>3, <3>1, <3>2 DEF n
  <2>2. \A t \in ClosedTurns' : MembersOf(t)' # {}
    <3> SUFFICES ASSUME NEW t \in ClosedTurns' PROVE MembersOf(t)' # {}
      OBVIOUS
    <3>1. t \in 1..Len(turn') /\ turn'[t].status = "closed" /\ ~ turn'[t].deleted /\ t # Len(turn')
      BY <1>1, <1>8 DEF ClosedTurns
    <3>2. t \in 1..L
      BY <1>9, <3>1
    <3>3. CASE turn[t].status = "closed"
      <4>1. t \in ClosedTurns
        BY <1>1, <1>8, <3>1, <3>2, <3>3 DEF ClosedTurns
      <4>2. MembersOf(t) # {}
        BY <4>1 DEF Hidden
      <4> QED BY <1>2, <3>1, <4>2
    <3>4. CASE turn[t].status # "closed"
      <4>1. turn' # turn
        BY <3>1, <3>4
      <4>2. MembersOf(OpenTurn) # {}
        BY <4>1 DEF Joins
      <4>3. OpenTurn = L /\ (turn[t].status = "closed" <=> t < L)
        BY <3>2, OpenIsLast DEF L
      <4>4. t = L
        BY <1>8, <3>2, <3>4, <4>3
      <4> QED BY <1>2, <3>1, <4>2, <4>3, <4>4
    <3> QED BY <3>3, <3>4
  <2> QED BY <2>1, <2>2 DEF Hidden
<1>14. Placed'
  <2>1. \A c \in DOMAIN chunk : \A t \in ToSet(chunk[c].members) : t \in 1..L /\ turn[t].status = "closed"
    BY DEF Placed, L
  <2>2. \A c \in DOMAIN chunk : \A t \in ToSet(chunk[c].members) : t \in 1..Len(turn') /\ turn'[t].status = "closed"
    BY <1>1, <1>9, <2>1
  <2> QED BY <1>5, <2>2 DEF Placed
<1>15. \A c \in DOMAIN chunk : SourceOf(c)' = SourceOf(c)
  <2> SUFFICES ASSUME NEW c \in DOMAIN chunk PROVE SourceOf(c)' = SourceOf(c)
    OBVIOUS
  <2>1. \A t \in ToSet(chunk[c].members) : t \in 1..L /\ t < L
    BY <1>1 DEF Placed, L
  <2>2. \A t \in ToSet(chunk[c].members) :
            MembersOf(t)' = MembersOf(t) /\ \A o \in MembersOf(t) : event'[o].rev = event[o].rev
    BY <1>2, <1>3, <1>7, <2>1 DEF MembersOf
  <2> QED BY <1>5, <2>2, SourceSame
<1>16. Versions'
  BY <1>5 DEF Versions, Full
<1>17. Handlers'
  BY <1>5, <1>15 DEF Handlers, Answers, OwnsClaim, SummaryIsCurrent, Versions, Full
<1> QED BY <1>4, <1>10, <1>11, <1>12, <1>13, <1>14, <1>16, <1>17

\* What the host records next.
LEMMA IntakeJoins ==
  ASSUME RecordInv, TurnEnd \/ UserPrompt \/ \E kind \in StepKinds : Message(kind)
  PROVE  \E e : Joins(e)
<1> DEFINE Row(kind, t, step) ==
             [kind |-> kind, turn |-> t, step |-> step, keep |-> 0, state |-> "live", rev |-> 0]
<1>1. Len(turn) \in Nat /\ OpenTurn = Len(turn) /\ OpenTurn \in Nat
  BY OpenIsLast, TurnsAre DEF RecordInv, Tables
<1>2. \A kind \in Kind, t \in Nat, step \in Int : Row(kind, t, step) \in Event
  BY DEF Event
<1>3. \A o \in MembersOf(OpenTurn) : event[o].step \in Int /\ event[o].step >= -1
  <2>1. PICK b \in Nat : \A o \in DOMAIN event : event[o].step \in -1..b
    BY DEF RecordInv, Tables
  <2> QED BY <2>1 DEF MembersOf, Live
<1>4. CASE TurnEnd
  <2> DEFINE e == Row("turn_end", 0, -1)
  <2>1. e \in Event
    BY <1>2 DEF Kind
  <2>2. /\ event' = Append(event, e)
        /\ turn' = CloseAndOpen(OpenTurn) /\ MembersOf(OpenTurn) # {}
        /\ UNCHANGED <<chunk, summary, job, handler, count>>
    BY <1>4 DEF TurnEnd, Record
  <2>3. e.kind \notin MessageKinds /\ e.turn = 0 /\ e.state = "live" /\ e.kind # "rollback" /\ e.step >= -1
    BY DEF MessageKinds, StepKinds
  <2> HIDE DEF e
  <2>4. Joins(e)
    BY <2>1, <2>2, <2>3 DEF Joins
  <2> QED BY <2>4
<1>5. CASE UserPrompt
  <2>1. "user_prompt" \in Kind /\ "user_prompt" \in MessageKinds
    BY DEF Kind, MessageKinds
  <2>2. CASE MembersOf(OpenTurn) = {}
    <3> DEFINE e == Row("user_prompt", OpenTurn, -1)
    <3>1. e \in Event
      BY <1>1, <1>2, <2>1
    <3>2. event' = Append(event, e) /\ turn' = turn /\ UNCHANGED <<chunk, summary, job, handler, count>>
      BY <1>5, <2>2 DEF UserPrompt, Record
    <3>3. e.kind = "user_prompt" /\ e.turn = Len(turn') /\ e.state = "live" /\ MembersOf(e.turn) = {} /\ e.step >= -1
      BY <1>1, <2>2, <3>2
    <3> HIDE DEF e
    <3>4. Joins(e)
      BY <2>1, <3>1, <3>2, <3>3 DEF Joins
    <3> QED BY <3>4
  <2>3. CASE MembersOf(OpenTurn) # {}
    <3> DEFINE e == Row("user_prompt", Len(turn) + 1, -1)
    <3>1. e \in Event
      BY <1>1, <1>2, <2>1
    <3>2. /\ event' = Append(event, e)
          /\ turn' = CloseAndOpen(OpenTurn) /\ UNCHANGED <<chunk, summary, job, handler, count>>
      BY <1>5, <2>3 DEF UserPrompt, Record
    <3>3. Len(turn') = Len(turn) + 1
      BY <3>2, TurnGrows DEF RecordInv
    <3>4. MembersOf(Len(turn) + 1) = {}
      <4>1. \A o \in Live : event[o].turn <= Len(turn) /\ event[o].turn \in Nat
        BY LiveIs, EventsAre DEF RecordInv, Tables, Turns, Event
      <4> QED BY <1>1, <4>1 DEF MembersOf
    <3>5. e.kind = "user_prompt" /\ e.turn = Len(turn') /\ e.state = "live" /\ MembersOf(e.turn) = {} /\ e.step >= -1
      BY <3>3, <3>4
    <3> HIDE DEF e
    <3>6. Joins(e)
      BY <2>1, <2>3, <3>1, <3>2, <3>5 DEF Joins
    <3> QED BY <3>6
  <2> QED BY <2>2, <2>3
<1>6. ASSUME NEW kind \in StepKinds, Message(kind) PROVE \E e : Joins(e)
  <2>1. kind \in Kind /\ kind \in MessageKinds /\ kind # "user_prompt" /\ kind # "rollback"
    BY DEF Kind, MessageKinds, StepKinds
  <2>2. MembersOf(OpenTurn) # {} /\ UNCHANGED <<turn, chunk, summary, job, handler, count>>
    BY <1>6 DEF Message
  <2>3. PICK step \in Int : step >= -1 /\ event' = Append(event, Row(kind, OpenTurn, step))
    <3>1. CASE kind = "tool_result"
      <4>1. PICK call \in UnansweredCalls(OpenTurn) : event' = Record(kind, OpenTurn, event[call].step)
        BY <1>6, <3>1 DEF Message
      <4>2. event[call].step \in Int /\ event[call].step >= -1
        BY <1>3 DEF UnansweredCalls
      <4> QED BY <4>1, <4>2 DEF Record
    <3>2. CASE kind # "tool_result"
      <4>1. NextStep(OpenTurn) \in Int /\ NextStep(OpenTurn) >= -1
        <5> DEFINE S == {event[o].step : o \in MembersOf(OpenTurn)}
        <5>1. PICK b \in Nat : \A o \in DOMAIN event : event[o].step \in -1..b
          BY DEF RecordInv, Tables
        <5>2. S \in SUBSET (-1..b) /\ S # {}
          BY <2>2, <5>1 DEF MembersOf, Live
        <5> HIDE DEF S
        <5>3. MaxOf(S, -1) \in -1..b
          BY <5>2, -1 \in Int, b \in Int, MaxIsIn
        <5> QED BY <5>3 DEF NextStep, S
      <4> QED BY <1>6, <3>2, <4>1 DEF Message, Record
    <3> QED BY <3>1, <3>2
  <2> DEFINE e == Row(kind, OpenTurn, step)
  <2>4. e \in Event
    BY <1>1, <1>2, <2>1
  <2>5. e.kind = kind /\ e.turn = Len(turn') /\ e.state = "live" /\ e.step >= -1 /\ MembersOf(e.turn) # {} /\ event' = Append(event, e)
    BY <1>1, <2>2, <2>3
  <2> HIDE DEF e
  <2>6. Joins(e)
    BY <2>1, <2>2, <2>4, <2>5 DEF Joins
  <2> QED BY <2>6
<1> QED BY <1>4, <1>5, <1>6

-----------------------------------------------------------------------------
(* Cascades.                                                               *)

\* Requeueing leaves items as they were and adds queued ones under ids of their own.
LEMMA RequeuedIs ==
  ASSUME Tables, NEW b \in Nat, NEW C, NEW asked, DOMAIN asked \in SUBSET (0..b)
  PROVE  /\ Cardinality(DOMAIN asked) \in Nat
         /\ \A i \in DOMAIN Requeued(C, asked) :
              \/ i \in DOMAIN job /\ Requeued(C, asked)[i] = job[i]
              \/ /\ i \in (count.items + 1)..(count.items + Cardinality(DOMAIN asked))
                 /\ \E c \in DOMAIN asked : Requeued(C, asked)[i] = NewJob(c, asked[c])
<1> DEFINE S == DOMAIN asked
           new == Ascending(S)
           left == {i \in DOMAIN job : job[i].status # "queued" \/ job[i].chunk \notin C}
           J == Requeued(C, asked)
<1>1. /\ Cardinality(S) \in Nat /\ DOMAIN new = 1..Cardinality(S)
      /\ \A n \in 1..Cardinality(S) : new[n] \in S
  BY AscendingIs
<1>2. DOMAIN job \subseteq 1..count.items /\ count.items \in Nat
  BY DEF Tables, Counts
<1>3. /\ DOMAIN J = left \cup {count.items + n : n \in DOMAIN new}
      /\ \A i \in DOMAIN J : J[i] = IF i \in left THEN job[i]
                                    ELSE NewJob(new[i - count.items], asked[new[i - count.items]])
  BY DEF Requeued
<1> HIDE DEF J, new
<1>4. ASSUME NEW i \in DOMAIN J, i \in left PROVE i \in DOMAIN job /\ J[i] = job[i]
  BY <1>3, <1>4
<1> HIDE DEF left
<1>5. ASSUME NEW i \in DOMAIN J, i \notin left
      PROVE  i \in (count.items + 1)..(count.items + Cardinality(S)) /\ \E c \in S : J[i] = NewJob(c, asked[c])
  <2>1. PICK n \in 1..Cardinality(S) : i = count.items + n
    BY <1>1, <1>3, <1>5
  <2>2. i - count.items = n
    BY <1>1, <1>2, <2>1
  <2>3. J[i] = NewJob(new[n], asked[new[n]])
    BY <1>3, <1>5, <2>2
  <2>4. new[n] \in S
    BY <1>1
  <2>5. i \in (count.items + 1)..(count.items + Cardinality(S))
    BY <1>1, <1>2, <2>1
  <2> QED BY <2>3, <2>4, <2>5
<1> QED BY <1>1, <1>4, <1>5 DEF J

\* What RunCascade leaves of the rows and the items, with C and G the chunks whose
\* summaries are cleared and gone.
Cascaded(D, E, G, C, tally) ==
  /\ Len(turn') = Len(turn) /\ turn' \in Seq(TurnRow)
  /\ \A t \in 1..Len(turn) : /\ turn'[t].status = turn[t].status /\ turn'[t].closed = turn[t].closed
                             /\ turn'[t].deleted <=> turn[t].deleted \/ t \in D
  /\ DOMAIN summary' = DOMAIN summary \ G
  /\ \A c \in DOMAIN summary' : summary'[c] = IF c \in C THEN Pending(summary[c].version + 1) ELSE summary[c]
  /\ count'.items \in Nat /\ count'.items >= count.items /\ count' \in Counts
  /\ \A i \in DOMAIN job' :
       \/ i \in DOMAIN job /\ job'[i] = job[i]
       \/ /\ i \in (count.items + 1)..count'.items
          /\ \E c \in C \cap DOMAIN summary : job'[i] = NewJob(c, summary[c].version + 1)

LEMMA CascadeIs ==
  ASSUME RecordInv, NEW D, NEW E, NEW G, NEW C, NEW tally \in Counts, tally.items = count.items,
         RunCascade(D, E, G, C, tally)
  PROVE  Cascaded(D, E, G, C, tally)
<1> DEFINE rebuilt == C \cap DOMAIN summary
           asked == [c \in rebuilt |-> NextVersion(c)]
           gone == (G \cap DOMAIN summary) \cup rebuilt
<1>1. PICK b \in Nat : DOMAIN chunk \subseteq 1..b
  BY DEF RecordInv, Tables
<1>2. DOMAIN asked = rebuilt /\ rebuilt \in SUBSET (0..b)
  BY <1>1 DEF RecordInv, Versions, Full
<1>3. job' = Requeued(gone, asked)
  BY DEF RunCascade
<1>4. count' = [tally EXCEPT !.items = @ + Cardinality(rebuilt)]
  BY DEF RunCascade
<1>5. \A c \in rebuilt : asked[c] = summary[c].version + 1
  BY DEF NextVersion
<1>6. Tables /\ count.items \in Nat
  BY DEF RecordInv, Tables, Counts
<1>7. /\ DOMAIN summary' = DOMAIN summary \ G
      /\ \A c \in DOMAIN summary' : summary'[c] = IF c \in C THEN Pending(summary[c].version + 1) ELSE summary[c]
  BY DEF RunCascade, NextVersion
<1>8. /\ Len(turn') = Len(turn) /\ turn' \in Seq(TurnRow)
      /\ \A t \in 1..Len(turn) : /\ turn'[t].status = turn[t].status /\ turn'[t].closed = turn[t].closed
                                 /\ turn'[t].deleted <=> turn[t].deleted \/ t \in D
  <2>1. Len(turn) \in Nat /\ DOMAIN turn = 1..Len(turn) /\ \A t \in 1..Len(turn) : turn[t] \in TurnRow
    BY <1>6, TurnsAre DEF Tables
  <2>2. turn' = [t \in 1..Len(turn) |-> [turn[t] EXCEPT !.deleted = @ \/ t \in D, !.ready = @ /\ t \notin D \cup E]]
    BY <2>1 DEF RunCascade
  <2>3. \A t \in 1..Len(turn) : turn'[t] = [turn[t] EXCEPT !.deleted = @ \/ t \in D, !.ready = @ /\ t \notin D \cup E]
    BY <2>2
  <2>4. \A t \in 1..Len(turn) : /\ turn'[t].status = turn[t].status /\ turn'[t].closed = turn[t].closed
                                /\ turn'[t].deleted <=> turn[t].deleted \/ t \in D
                                /\ turn'[t] \in TurnRow
    <3> SUFFICES ASSUME NEW t \in 1..Len(turn)
                 PROVE  /\ turn'[t].status = turn[t].status /\ turn'[t].closed = turn[t].closed
                        /\ turn'[t].deleted <=> turn[t].deleted \/ t \in D
                        /\ turn'[t] \in TurnRow
      OBVIOUS
    <3> DEFINE d == turn[t].deleted \/ t \in D
               r == turn[t].ready /\ t \notin D \cup E
    <3>1. d \in BOOLEAN /\ r \in BOOLEAN
      OBVIOUS
    <3>2. turn[t] \in TurnRow /\ turn'[t] = [turn[t] EXCEPT !.deleted = d, !.ready = r]
      BY <2>1, <2>3
    <3> HIDE DEF d, r
    <3>3. turn'[t].status = turn[t].status /\ turn'[t].closed = turn[t].closed /\ turn'[t].deleted = d
            /\ turn'[t] \in TurnRow
      BY <3>1, <3>2 DEF TurnRow
    <3> QED BY <3>3 DEF d
  <2>5. DOMAIN turn' = 1..Len(turn)
    BY <2>2
  <2>6. Len(turn') = Len(turn) /\ turn' \in Seq(TurnRow)
    <3>1. turn' \in [1..Len(turn) -> TurnRow]
      BY <2>2, <2>4
    <3> QED BY <2>1, <3>1
  <2> QED BY <2>4, <2>6
<1> HIDE DEF rebuilt, asked, gone
<1>9. DOMAIN asked \in SUBSET (0..b)
  BY <1>2
<1>10. /\ Cardinality(rebuilt) \in Nat
      /\ \A i \in DOMAIN job' :
              \/ i \in DOMAIN job /\ job'[i] = job[i]
              \/ /\ i \in (count.items + 1)..(count.items + Cardinality(rebuilt))
                 /\ \E c \in rebuilt : job'[i] = NewJob(c, asked[c])
  <2>1. /\ Cardinality(DOMAIN asked) \in Nat
        /\ \A i \in DOMAIN Requeued(gone, asked) :
              \/ i \in DOMAIN job /\ Requeued(gone, asked)[i] = job[i]
              \/ /\ i \in (count.items + 1)..(count.items + Cardinality(DOMAIN asked))
                 /\ \E c \in DOMAIN asked : Requeued(gone, asked)[i] = NewJob(c, asked[c])
    BY <1>6, <1>9, RequeuedIs
  <2>2. DOMAIN asked = rebuilt
    BY <1>2
  <2> QED BY <1>3, <2>1, <2>2
<1>11. count' \in Counts /\ count'.items = count.items + Cardinality(rebuilt)
  BY <1>4, <1>6, <1>10 DEF Counts
<1>12. \A i \in DOMAIN job' :
       \/ i \in DOMAIN job /\ job'[i] = job[i]
       \/ /\ i \in (count.items + 1)..count'.items
          /\ \E c \in C \cap DOMAIN summary : job'[i] = NewJob(c, summary[c].version + 1)
  BY <1>5, <1>10, <1>11 DEF rebuilt
<1> QED BY <1>6, <1>7, <1>8, <1>10, <1>11, <1>12 DEF Cascaded

\* A cascade that reaches the chunk of everything that changed keeps the derivations.
LEMMA CascadeKeeps ==
  ASSUME RecordInv, NEW D, NEW E, NEW G, NEW C, NEW tally \in Counts, tally.items = count.items,
         RunCascade(D, E, G, C, tally), UNCHANGED <<chunk, handler>>,
         \A c \in DOMAIN summary : c \in C \/ c \in G \/ SourceOf(c)' = SourceOf(c)
  PROVE  /\ Cascaded(D, E, G, C, tally)
         /\ Placed' /\ Versions' /\ Handlers'
         /\ event' \in Seq(Event) /\ (\E b \in Nat : \A o \in DOMAIN event' : event'[o].step \in -1..b) => Tables'
<1> USE DEF RecordInv
<1>1. Cascaded(D, E, G, C, tally)
  BY CascadeIs
<1>2. /\ Len(turn') = Len(turn)
      /\ \A t \in 1..Len(turn) : turn'[t].status = turn[t].status
  BY <1>1 DEF Cascaded
<1>3. Placed'
  BY <1>2 DEF Placed
<1>4. /\ DOMAIN summary' = DOMAIN summary \ G
      /\ \A c \in DOMAIN summary' : summary'[c] = IF c \in C THEN Pending(summary[c].version + 1) ELSE summary[c]
  BY <1>1 DEF Cascaded
<1>5. \A i \in DOMAIN job' :
       \/ i \in DOMAIN job /\ job'[i] = job[i]
       \/ /\ i \in (count.items + 1)..count'.items
          /\ \E c \in C \cap DOMAIN summary : job'[i] = NewJob(c, summary[c].version + 1)
  BY <1>1 DEF Cascaded
<1>6. count.items \in Nat /\ count'.items \in Nat /\ count'.items >= count.items /\ count' \in Counts
  BY <1>1 DEF Cascaded, Tables, Counts
<1>7. \A c \in DOMAIN summary : /\ summary[c].version \in Nat /\ summary[c].version + 1 \in Nat
                                /\ summary[c].ready \in BOOLEAN /\ Full(c)
                                /\ summary[c] = [version |-> summary[c].version, ready |-> summary[c].ready,
                                                 read |-> summary[c].read]
  BY DEF Tables, Versions
<1>8. \A c \in DOMAIN summary : Pending(summary[c].version + 1) =
                                  [version |-> summary[c].version + 1, ready |-> FALSE, read |-> {}]
  BY DEF Pending
<1>9. \A c \in DOMAIN summary' :
          /\ c \in DOMAIN summary
          /\ c \in C => /\ summary'[c] = [version |-> summary[c].version + 1, ready |-> FALSE, read |-> {}]
                        /\ summary'[c].version = summary[c].version + 1
                        /\ ~ summary'[c].ready /\ summary'[c].read = {}
          /\ c \notin C => summary'[c] = summary[c]
  <2> SUFFICES ASSUME NEW c \in DOMAIN summary'
               PROVE  /\ c \in DOMAIN summary
                      /\ c \in C => summary'[c] = [version |-> summary[c].version + 1, ready |-> FALSE, read |-> {}]
                      /\ c \notin C => summary'[c] = summary[c]
    OBVIOUS
  <2>1. c \in DOMAIN summary
    BY <1>4
  <2>2. CASE c \in C
    <3>1. summary'[c] = Pending(summary[c].version + 1)
      BY <1>4, <2>2
    <3> QED BY <1>8, <2>1, <2>2, <3>1
  <2>3. CASE c \notin C
    BY <1>4, <2>1, <2>3
  <2> QED BY <2>2, <2>3
<1>10. \A c \in DOMAIN summary' : c \in DOMAIN summary /\ summary[c].version <= summary'[c].version
                                 /\ summary'[c].version \in Nat
  <2> SUFFICES ASSUME NEW c \in DOMAIN summary'
               PROVE  summary[c].version <= summary'[c].version /\ summary'[c].version \in Nat
    BY <1>9
  <2>1. summary[c].version \in Nat
    BY <1>7, <1>9
  <2>2. summary'[c].version = summary[c].version \/ summary'[c].version = summary[c].version + 1
    BY <1>9
  <2> QED BY <2>1, <2>2
<1>11. Versions'
  <2>1. \A c \in DOMAIN summary' : Full(c)'
    BY <1>4, <1>7 DEF Full
  <2>2. ASSUME NEW i \in DOMAIN job'
        PROVE  Full(job'[i].chunk) /\ (job'[i].chunk \in DOMAIN summary' => job'[i].version <= summary'[job'[i].chunk].version)
    <3>1. CASE i \in DOMAIN job /\ job'[i] = job[i]
      <4>1. Full(job[i].chunk) /\ (job[i].chunk \in DOMAIN summary => job[i].version <= summary[job[i].chunk].version)
        BY <3>1 DEF Versions
      <4>2. job[i].version \in Nat
        BY <3>1 DEF Tables, Job
      <4>3. job[i].chunk \in DOMAIN summary' => job[i].version <= summary'[job[i].chunk].version
        BY <1>7, <1>10, <4>1, <4>2
      <4> QED BY <3>1, <4>1, <4>3
    <3>2. CASE \E c \in C \cap DOMAIN summary : job'[i] = NewJob(c, summary[c].version + 1)
      <4>1. PICK c \in C \cap DOMAIN summary : job'[i] = NewJob(c, summary[c].version + 1)
        BY <3>2
      <4>2. job'[i].chunk = c /\ job'[i].version = summary[c].version + 1
        BY <4>1 DEF NewJob
      <4>3. c \in DOMAIN summary' => summary'[c].version = summary[c].version + 1
        BY <1>9, <4>1
      <4>4. Full(c) /\ summary[c].version + 1 \in Nat
        BY <1>7, <4>1
      <4> QED BY <4>2, <4>3, <4>4
    <3> QED BY <1>5, <3>1, <3>2
  <2> QED BY <2>1, <2>2 DEF Versions, Full
<1>12. \A h \in handler : h.item \in 1..count.items /\ h.item \notin (count.items + 1)..count'.items
  <2>1. \A h \in handler : h.item \in 1..count.items
    BY DEF Tables
  <2> QED BY <1>6, <2>1
<1>13. \A h \in handler : h.item \in DOMAIN job' => h.item \in DOMAIN job /\ job'[h.item] = job[h.item]
  BY <1>5, <1>12
<1>14. Handlers'
  <2>1. \A h \in handler' : h.item \in DOMAIN job' => h.attempt <= job'[h.item].attempt
    BY <1>13 DEF Handlers
  <2>2. ASSUME NEW h \in handler PROVE Answers(h)'
    <3> SUFFICES ASSUME NEW c \in DOMAIN summary', OwnsClaim(h)', job'[h.item].chunk = c,
                        job'[h.item].version = summary'[c].version
                 PROVE  h.read = SourceOf(c)'
      BY DEF Answers
    <3>1. h.item \in DOMAIN job /\ job'[h.item] = job[h.item] /\ OwnsClaim(h) /\ job[h.item].chunk = c
      BY <1>13 DEF OwnsClaim
    <3>2. c \in DOMAIN summary /\ c \notin G /\ summary'[c].version = job[h.item].version
      BY <1>4, <3>1
    <3>3. job[h.item].version <= summary[c].version
      BY <3>1, <3>2 DEF Versions
    <3>4. c \notin C
      <4>1. c \in C => summary'[c].version = summary[c].version + 1
        BY <1>9, <3>2
      <4>2. summary[c].version \in Nat
        BY <1>7, <3>2
      <4> QED BY <3>2, <3>3, <4>1, <4>2
    <3>5. summary[c].version = job[h.item].version
      BY <1>4, <3>2, <3>4
    <3>6. h.read = SourceOf(c)
      BY <3>1, <3>2, <3>5 DEF Handlers, Answers
    <3>7. SourceOf(c)' = SourceOf(c)
      BY <3>2, <3>4
    <3> QED BY <3>1, <3>6, <3>7
  <2>3. ASSUME NEW c \in DOMAIN summary'
        PROVE  (summary'[c].ready => summary'[c].read = SourceOf(c)') /\ (~ summary'[c].ready => summary'[c].read = {})
    <3>1. CASE c \in C
      BY <1>9, <2>3, <3>1
    <3>2. CASE c \notin C
      <4>1. summary'[c] = summary[c] /\ c \in DOMAIN summary /\ c \notin G
        BY <1>4, <2>3, <3>2
      <4>2. SourceOf(c)' = SourceOf(c)
        BY <3>2, <4>1
      <4> QED BY <4>1, <4>2 DEF Handlers, SummaryIsCurrent
    <3> QED BY <3>1, <3>2
  <2> QED BY <2>1, <2>2, <2>3 DEF Handlers, SummaryIsCurrent
<1>15. ASSUME event' \in Seq(Event), \E b \in Nat : \A o \in DOMAIN event' : event'[o].step \in -1..b
       PROVE  Tables'
  <2>1. \A c \in DOMAIN summary' :
           /\ summary'[c] = [version |-> summary'[c].version, ready |-> summary'[c].ready, read |-> summary'[c].read]
           /\ summary'[c].version \in Nat /\ summary'[c].ready \in BOOLEAN
    <3> SUFFICES ASSUME NEW c \in DOMAIN summary'
                 PROVE  /\ summary'[c] = [version |-> summary'[c].version, ready |-> summary'[c].ready, read |-> summary'[c].read]
                        /\ summary'[c].version \in Nat /\ summary'[c].ready \in BOOLEAN
      OBVIOUS
    <3>1. c \in DOMAIN summary
      BY <1>10
    <3>2. CASE c \in C
      <4>1. summary'[c] = [version |-> summary[c].version + 1, ready |-> FALSE, read |-> {}]
        BY <1>9, <3>2
      <4> QED BY <1>7, <3>1, <4>1
    <3>3. CASE c \notin C
      <4>1. summary'[c] = summary[c]
        BY <1>4, <3>3
      <4> QED BY <1>7, <3>1, <4>1
    <3> QED BY <3>2, <3>3
  <2>2. \A i \in DOMAIN job' : i \in 1..count'.items /\ job'[i] \in Job
    <3> SUFFICES ASSUME NEW i \in DOMAIN job' PROVE i \in 1..count'.items /\ job'[i] \in Job
      OBVIOUS
    <3>1. CASE i \in DOMAIN job /\ job'[i] = job[i]
      <4>1. i \in 1..count.items /\ job[i] \in Job
        BY <3>1 DEF Tables
      <4> QED BY <1>6, <3>1, <4>1
    <3>2. CASE /\ i \in (count.items + 1)..count'.items
               /\ \E c \in C \cap DOMAIN summary : job'[i] = NewJob(c, summary[c].version + 1)
      <4>1. PICK c \in C \cap DOMAIN summary : job'[i] = NewJob(c, summary[c].version + 1)
        BY <3>2
      <4>2. c \in Nat /\ summary[c].version + 1 \in Nat
        <5>1. c \in DOMAIN chunk
          BY <1>7, <4>1 DEF Full
        <5> QED BY <1>7, <4>1, <5>1 DEF Tables
      <4>3. job'[i] \in Job
        BY <4>1, <4>2 DEF NewJob, Job
      <4> QED BY <1>6, <3>2, <4>3
    <3> QED BY <1>5, <3>1, <3>2
  <2>3. \A h \in handler' : h.item \in 1..count'.items /\ h.attempt \in Nat
    <3>1. \A h \in handler : h.item \in 1..count.items /\ h.attempt \in Nat
      BY DEF Tables
    <3> QED BY <1>6, <3>1
  <2>4. turn' \in Seq(TurnRow)
    BY <1>1 DEF Cascaded
  <2> QED BY <1>6, <1>15, <2>1, <2>2, <2>3, <2>4 DEF Tables
<1> QED BY <1>1, <1>3, <1>11, <1>14, <1>15

\* The turns after a cascade are the turns before it but for what it derives again.
LEMMA CascadedTurns ==
  ASSUME Tables, NEW D, NEW E, NEW G, NEW C, NEW tally, Cascaded(D, E, G, C, tally)
  PROVE  /\ Len(turn') = Len(turn) /\ turn' \in Seq(TurnRow)
         /\ DOMAIN turn' = 1..Len(turn) /\ DOMAIN turn = 1..Len(turn) /\ Len(turn) \in Nat
         /\ \A t \in 1..Len(turn) : /\ turn'[t].status = turn[t].status
                                    /\ turn'[t].deleted <=> turn[t].deleted \/ t \in D
<1>1. /\ Len(turn') = Len(turn) /\ turn' \in Seq(TurnRow)
      /\ \A t \in 1..Len(turn) : /\ turn'[t].status = turn[t].status
                                 /\ turn'[t].deleted <=> turn[t].deleted \/ t \in D
  BY DEF Cascaded
<1>2. DOMAIN turn = 1..Len(turn) /\ Len(turn) \in Nat
  BY TurnsAre DEF Tables
<1>3. DOMAIN turn' = 1..Len(turn')
  BY <1>1, LenProperties
<1> QED BY <1>1, <1>2, <1>3

LEMMA MutatedIs ==
  ASSUME Tables
  PROVE  Mutated \in Counts /\ Mutated.items = count.items
<1>1. count \in [{"rollbacks", "mutations", "lapses", "compacts", "items"} -> Nat]
  BY DEF Tables, Counts
<1>2. count["mutations"] + 1 \in Nat
  BY <1>1
<1> QED BY <1>1, <1>2 DEF Mutated, Counts

\* A message of a turn that is in chunk c has c among the chunks of its turn.
LEMMA InItsChunk ==
  ASSUME NEW c \in DOMAIN chunk, NEW t \in ToSet(chunk[c].members)
  PROVE  c \in ChunksOf(t)
BY DEF ChunksOf

\* What is not changed in the turns of a chunk leaves its source as it was.
LEMMA UntouchedSource ==
  ASSUME NEW c, chunk' = chunk, NEW t, t \notin ToSet(chunk[c].members),
         \A u : u # t => MembersOf(u)' = MembersOf(u) /\ \A o \in MembersOf(u) : event'[o].rev = event[o].rev
  PROVE  SourceOf(c)' = SourceOf(c)
BY SourceSame

LEMMA EditKeepsRecord ==
  ASSUME RecordInv, NEW o \in DOMAIN event, EditMessage(o)
  PROVE  RecordInv' /\ \A x : RolledBack(x)' <=> RolledBack(x)
<1> USE DEF RecordInv
<1> DEFINE s == event[o].turn
<1>1. /\ o \in Live /\ event' = [event EXCEPT ![o].rev = @ + 1]
      /\ RunCascade({}, {s}, {}, ChunksOf(s), Mutated) /\ UNCHANGED <<chunk, handler>>
  BY DEF EditMessage, Mutable
<1>2. Len(event) \in Nat /\ DOMAIN event = 1..Len(event) /\ \A x \in 1..Len(event) : event[x] \in Event
  BY EventsAre DEF Tables
<1>3. /\ event' \in Seq(Event) /\ Len(event') = Len(event) /\ DOMAIN event' = DOMAIN event
      /\ \A x \in DOMAIN event : /\ event'[x].kind = event[x].kind /\ event'[x].turn = event[x].turn
                                 /\ event'[x].step = event[x].step /\ event'[x].keep = event[x].keep
                                 /\ event'[x].state = event[x].state
                                 /\ x # o => event'[x] = event[x]
  <2> DEFINE e == [event[o] EXCEPT !.rev = @ + 1]
  <2>1. e \in Event /\ e.kind = event[o].kind /\ e.turn = event[o].turn /\ e.step = event[o].step
          /\ e.keep = event[o].keep /\ e.state = event[o].state
    BY <1>2 DEF Event
  <2>2. event' = [event EXCEPT ![o] = e]
    BY <1>1
  <2> HIDE DEF e
  <2>3. /\ event' \in Seq(Event) /\ Len(event') = Len(event)
        /\ \A x \in 1..Len(event) : event'[x] = IF x = o THEN e ELSE event[x]
    BY <1>2, <2>1, <2>2, ExceptSeq DEF Tables
  <2>4. DOMAIN event' = DOMAIN event
    BY <2>2
  <2> QED BY <1>2, <2>1, <2>3, <2>4
<1>4. Live' = Live
  BY <1>3 DEF Live, IsMessage
<1>5. \A t : MembersOf(t)' = MembersOf(t)
  BY <1>3, <1>4 DEF MembersOf, Live
<1>6. \A x : RolledBack(x)' <=> RolledBack(x)
  BY <1>3 DEF RolledBack
<1>7. \A c \in DOMAIN summary : c \in ChunksOf(s) \/ c \in {} \/ SourceOf(c)' = SourceOf(c)
  <2> SUFFICES ASSUME NEW c \in DOMAIN summary, c \notin ChunksOf(s) PROVE SourceOf(c)' = SourceOf(c)
    OBVIOUS
  <2>1. s \notin ToSet(chunk[c].members)
    BY InItsChunk DEF Versions, Full
  <2>2. \A u : u # s => MembersOf(u)' = MembersOf(u) /\ \A x \in MembersOf(u) : event'[x].rev = event[x].rev
    BY <1>3, <1>5 DEF MembersOf, Live
  <2> HIDE DEF s
  <2> QED BY <1>1, <2>1, <2>2, UntouchedSource
<1>8. Mutated \in Counts /\ Mutated.items = count.items
  BY MutatedIs
<1>9. \E b \in Nat : \A x \in DOMAIN event' : event'[x].step \in -1..b
  BY <1>3 DEF Tables
<1> DEFINE C == ChunksOf(s)
           E == {s}
           D == {}
           tally == Mutated
<1>10. tally \in Counts /\ tally.items = count.items /\ RunCascade(D, E, D, C, tally)
         /\ \A c \in DOMAIN summary : c \in C \/ c \in D \/ SourceOf(c)' = SourceOf(c)
  BY <1>1, <1>7, <1>8
<1>11. \A x : x \notin D
  OBVIOUS
<1> HIDE DEF C, D, E, tally
<1>12. Cascaded(D, E, D, C, tally) /\ Placed' /\ Versions' /\ Handlers' /\ Tables'
  <2>1. Cascaded(D, E, D, C, tally) /\ Placed' /\ Versions' /\ Handlers'
          /\ (event' \in Seq(Event) /\ (\E b \in Nat : \A x \in DOMAIN event' : event'[x].step \in -1..b) => Tables')
    <3>1. UNCHANGED <<chunk, handler>>
      BY <1>1
    <3> QED BY <1>10, <3>1, CascadeKeeps
  <2>2. event' \in Seq(Event)
    BY <1>3
  <2> QED BY <1>9, <2>1, <2>2
<1>13. /\ Len(turn') = Len(turn) /\ turn' \in Seq(TurnRow) /\ DOMAIN turn' = DOMAIN turn /\ DOMAIN turn = 1..Len(turn)
       /\ \A t \in 1..Len(turn) : turn'[t].status = turn[t].status /\ (turn'[t].deleted <=> turn[t].deleted)
  BY <1>11, <1>12, CascadedTurns
<1>14. Turns'
  BY <1>3, <1>13 DEF Turns, IsMessage
<1>15. Prompted'
  <2> SUFFICES ASSUME NEW t \in 1..Len(turn), MembersOf(t) # {}
               PROVE  \E p \in MembersOf(t) : event'[p].kind = "user_prompt" /\ \A x \in MembersOf(t) : p <= x
    BY <1>5, <1>13 DEF Prompted
  <2>1. PICK p \in MembersOf(t) : event[p].kind = "user_prompt" /\ \A x \in MembersOf(t) : p <= x
    BY DEF Prompted
  <2>2. p \in DOMAIN event
    BY DEF MembersOf, Live
  <2> QED BY <1>3, <2>1, <2>2
<1>16. Hidden'
  <2>1. ClosedTurns' = ClosedTurns
    BY <1>13 DEF ClosedTurns
  <2> QED BY <1>4, <1>5, <1>6, <2>1 DEF Hidden
<1> QED BY <1>6, <1>12, <1>14, <1>15, <1>16

LEMMA RemoveKeepsRecord ==
  ASSUME RecordInv, NEW o \in DOMAIN event, RemoveMessage(o)
  PROVE  RecordInv' /\ \A x : RolledBack(x)' <=> RolledBack(x)
<1> USE DEF RecordInv
<1> DEFINE s == event[o].turn
<1>1. /\ o \in Live /\ event' = [event EXCEPT ![o].state = "removed"] /\ event[o].kind # "user_prompt"
      /\ RunCascade({}, {s}, {}, ChunksOf(s), Mutated) /\ UNCHANGED <<chunk, handler>>
  BY DEF RemoveMessage, Mutable
<1>2. Len(event) \in Nat /\ DOMAIN event = 1..Len(event) /\ \A x \in 1..Len(event) : event[x] \in Event
  BY EventsAre DEF Tables
<1>3. /\ event' \in Seq(Event) /\ Len(event') = Len(event) /\ DOMAIN event' = DOMAIN event
      /\ \A x \in DOMAIN event : /\ event'[x].kind = event[x].kind /\ event'[x].turn = event[x].turn
                                 /\ event'[x].step = event[x].step /\ event'[x].keep = event[x].keep
                                 /\ x # o => event'[x] = event[x]
      /\ event'[o].state = "removed"
  <2> DEFINE e == [event[o] EXCEPT !.state = "removed"]
  <2>1. e \in Event /\ e.kind = event[o].kind /\ e.turn = event[o].turn /\ e.step = event[o].step
          /\ e.keep = event[o].keep /\ e.state = "removed"
    BY <1>2 DEF Event
  <2>2. event' = [event EXCEPT ![o] = e]
    BY <1>1
  <2> HIDE DEF e
  <2>3. /\ event' \in Seq(Event) /\ Len(event') = Len(event)
        /\ \A x \in 1..Len(event) : event'[x] = IF x = o THEN e ELSE event[x]
    BY <1>2, <2>1, <2>2, ExceptSeq DEF Tables
  <2>4. DOMAIN event' = DOMAIN event
    BY <2>2
  <2> QED BY <1>2, <2>1, <2>3, <2>4
<1>4. Live' = Live \ {o}
  BY <1>3 DEF Live, IsMessage
<1>5. /\ \A t : MembersOf(t)' = MembersOf(t) \ {o}
      /\ \A t : t # s => o \notin MembersOf(t)
  BY <1>3, <1>4 DEF MembersOf, Live
<1>6. \A x : RolledBack(x)' <=> RolledBack(x)
  BY <1>3 DEF RolledBack
<1>7. \A c \in DOMAIN summary : c \in ChunksOf(s) \/ c \in {} \/ SourceOf(c)' = SourceOf(c)
  <2> SUFFICES ASSUME NEW c \in DOMAIN summary, c \notin ChunksOf(s) PROVE SourceOf(c)' = SourceOf(c)
    OBVIOUS
  <2>1. s \notin ToSet(chunk[c].members)
    BY InItsChunk DEF Versions, Full
  <2>2. \A u : u # s => MembersOf(u)' = MembersOf(u) /\ \A x \in MembersOf(u) : event'[x].rev = event[x].rev
    BY <1>3, <1>5 DEF MembersOf, Live
  <2> HIDE DEF s
  <2> QED BY <1>1, <2>1, <2>2, UntouchedSource
<1>8. Mutated \in Counts /\ Mutated.items = count.items
  BY MutatedIs
<1>9. \E b \in Nat : \A x \in DOMAIN event' : event'[x].step \in -1..b
  BY <1>3 DEF Tables
<1> DEFINE C == ChunksOf(s)
           E == {s}
           D == {}
           tally == Mutated
<1>10. tally \in Counts /\ tally.items = count.items /\ RunCascade(D, E, D, C, tally)
         /\ \A c \in DOMAIN summary : c \in C \/ c \in D \/ SourceOf(c)' = SourceOf(c)
  BY <1>1, <1>7, <1>8
<1>11. \A x : x \notin D
  OBVIOUS
<1> HIDE DEF C, D, E, tally
<1>12. Cascaded(D, E, D, C, tally) /\ Placed' /\ Versions' /\ Handlers' /\ Tables'
  <2>1. Cascaded(D, E, D, C, tally) /\ Placed' /\ Versions' /\ Handlers'
          /\ (event' \in Seq(Event) /\ (\E b \in Nat : \A x \in DOMAIN event' : event'[x].step \in -1..b) => Tables')
    <3>1. UNCHANGED <<chunk, handler>>
      BY <1>1
    <3> QED BY <1>10, <3>1, CascadeKeeps
  <2>2. event' \in Seq(Event)
    BY <1>3
  <2> QED BY <1>9, <2>1, <2>2
<1>13. /\ Len(turn') = Len(turn) /\ turn' \in Seq(TurnRow) /\ DOMAIN turn' = DOMAIN turn /\ DOMAIN turn = 1..Len(turn)
       /\ \A t \in 1..Len(turn) : turn'[t].status = turn[t].status /\ (turn'[t].deleted <=> turn[t].deleted)
  BY <1>11, <1>12, CascadedTurns
<1>14. Turns'
  BY <1>3, <1>13 DEF Turns, IsMessage
\* The prompt that begins a turn is not removed.
<1>15. \A t \in 1..Len(turn) : MembersOf(t) # {} =>
          \E p \in MembersOf(t)' : event'[p].kind = "user_prompt" /\ \A x \in MembersOf(t)' : p <= x
  <2> SUFFICES ASSUME NEW t \in 1..Len(turn), MembersOf(t) # {}
               PROVE  \E p \in MembersOf(t)' : event'[p].kind = "user_prompt" /\ \A x \in MembersOf(t)' : p <= x
    OBVIOUS
  <2>1. PICK p \in MembersOf(t) : event[p].kind = "user_prompt" /\ \A x \in MembersOf(t) : p <= x
    BY DEF Prompted
  <2>2. p \in DOMAIN event /\ p # o
    BY <1>1, <2>1 DEF MembersOf, Live
  <2> QED BY <1>3, <1>5, <2>1, <2>2
<1>16. Prompted'
  BY <1>5, <1>13, <1>15 DEF Prompted
<1>17. Hidden'
  <2>1. ClosedTurns' = ClosedTurns /\ ClosedTurns \subseteq 1..Len(turn)
    BY <1>13 DEF ClosedTurns
  <2>2. \A t \in ClosedTurns : MembersOf(t)' # {}
    BY <1>15, <2>1 DEF Hidden
  <2> QED BY <1>4, <1>6, <2>1, <2>2 DEF Hidden
<1> QED BY <1>6, <1>12, <1>14, <1>16, <1>17

\* A rollback hides what came after `keep` and reaches the chunks of every turn it took from.
LEMMA RollbackKeepsRecord ==
  ASSUME RecordInv, NEW keep, Rollback(keep)
  PROVE  /\ RecordInv'
         /\ \A x : RolledBack(x)' => RolledBack(x) \/ keep < x
         /\ keep \in Nat
<1> USE DEF RecordInv
<1> DEFINE H == {o \in Live : o > keep}
           T == {t \in {event[o].turn : o \in H} : turn[t].status = "closed"}
           D == {t \in T : ~KeepsMember(t, keep)}
           X == UNION {ChunksOf(t) : t \in T}
           G == {c \in X : \A t \in ToSet(chunk[c].members) : turn[t].deleted \/ t \in D}
           tally == [count EXCEPT !.rollbacks = @ + 1]
           old == [o \in DOMAIN event |-> [event[o] EXCEPT !.state = IF o \in H THEN "hidden" ELSE @]]
           row == [kind |-> "rollback", turn |-> 0, step |-> -1, keep |-> keep, state |-> "live", rev |-> 0]
           n == Len(event) + 1
           E == T \ D
           C == X \ G
<1>1. /\ keep \in 0..Len(event) /\ event' = Append(old, row)
      /\ RunCascade(D, E, G, C, tally) /\ UNCHANGED <<chunk, handler>>
  BY DEF Rollback
<1>2. Len(event) \in Nat /\ DOMAIN event = 1..Len(event) /\ \A x \in 1..Len(event) : event[x] \in Event
  BY EventsAre DEF Tables
<1>3. /\ \A t : t \in T <=> (\E o \in Live : o > keep /\ event[o].turn = t) /\ turn[t].status = "closed"
      /\ \A t : t \in D <=> t \in T /\ ~ \E o \in MembersOf(t) : o <= keep
      /\ \A c : c \in X <=> \E t \in T : c \in ChunksOf(t)
  BY DEF KeepsMember
<1>4. /\ old \in Seq(Event) /\ Len(old) = Len(event)
      /\ \A x \in 1..Len(event) : /\ old[x].kind = event[x].kind /\ old[x].turn = event[x].turn
                                  /\ old[x].step = event[x].step /\ old[x].keep = event[x].keep
                                  /\ old[x].rev = event[x].rev
                                  /\ old[x].state = IF x \in H THEN "hidden" ELSE event[x].state
  <2> HIDE DEF H
  <2>1. \A x \in 1..Len(event) :
          /\ old[x].kind = event[x].kind /\ old[x].turn = event[x].turn
          /\ old[x].step = event[x].step /\ old[x].keep = event[x].keep
          /\ old[x].rev = event[x].rev
          /\ old[x].state = IF x \in H THEN "hidden" ELSE event[x].state
          /\ old[x] \in Event
    BY <1>2 DEF Event
  <2>2. old \in [1..Len(event) -> Event]
    BY <1>2, <2>1
  <2> HIDE DEF old
  <2>3. old \in Seq(Event) /\ Len(old) = Len(event)
    BY <1>2, <2>2
  <2> QED BY <2>1, <2>3
<1> DEFINE later(x) == x \in Live /\ x > keep
<1>5. \A x : x \in H <=> later(x)
  OBVIOUS
<1>6. row \in Event /\ row.kind = "rollback" /\ row.keep = keep /\ row.turn = 0 /\ row.step = -1 /\ keep \in Nat
  <2>1. keep \in Nat /\ "rollback" \in Kind
    BY <1>1 DEF Kind
  <2> QED BY <2>1 DEF Event
<1>7. row.kind \notin MessageKinds
  BY DEF MessageKinds, StepKinds
<1> HIDE DEF H, T, D, X, G, old, row
<1>8. /\ event' \in Seq(Event) /\ Len(event') = n
      /\ \A x \in 1..Len(event) : event'[x] = old[x]
      /\ event'[n] = row
  BY <1>1, <1>2, <1>4, <1>6, AppendProperties
<1>9. DOMAIN event' = 1..n /\ n \in Nat
  BY <1>2, <1>8, LenProperties
<1>10. \A x : x \in 1..n <=> x \in 1..Len(event) \/ x = n
  BY <1>2
<1>11. \A x \in Live : x \in 1..Len(event) /\ x \in Nat
  BY LiveIs
<1> HIDE DEF n
<1>12. \A x : x \in Live' <=> x \in Live /\ x <= keep
  <2>1. \A x : x \in Live' <=> x \in 1..n /\ event'[x].kind \in MessageKinds /\ event'[x].state = "live"
    BY <1>9 DEF Live, IsMessage
  <2>2. \A x \in 1..Len(event) : (x \in H <=> x \in Live /\ ~ (x <= keep))
    BY <1>2, <1>5, <1>6
  <2>3. \A x \in 1..Len(event) : event'[x].kind = event[x].kind
          /\ event'[x].state = IF x \in H THEN "hidden" ELSE event[x].state
    BY <1>4, <1>8
  <2>4. \A x : x \in Live <=> x \in 1..Len(event) /\ event[x].kind \in MessageKinds /\ event[x].state = "live"
    BY LiveIs
  <2> QED BY <1>7, <1>8, <1>10, <2>1, <2>2, <2>3, <2>4
<1>13. \A x, t : x \in MembersOf(t)' <=> x \in MembersOf(t) /\ x <= keep
  <2>1. \A x, t : x \in MembersOf(t)' <=> x \in Live' /\ event'[x].turn = t
    BY DEF MembersOf
  <2>2. \A x, t : x \in MembersOf(t) <=> x \in Live /\ event[x].turn = t
    BY DEF MembersOf
  <2> QED BY <1>4, <1>8, <1>11, <1>12, <2>1, <2>2
<1>14. \A x : RolledBack(x)' => RolledBack(x) \/ keep < x
  <2> SUFFICES ASSUME NEW x, RolledBack(x)' PROVE RolledBack(x) \/ keep < x
    OBVIOUS
  <2>1. PICK r \in 1..n : event'[r].kind = "rollback" /\ event'[r].keep < x /\ x < r
    BY <1>9 DEF RolledBack
  <2>2. CASE r = n
    BY <1>6, <1>8, <2>1, <2>2
  <2>3. CASE r \in 1..Len(event)
    BY <1>2, <1>4, <1>8, <2>1, <2>3 DEF RolledBack
  <2> QED BY <1>10, <2>2, <2>3
\* A closed turn that loses nothing is not touched.
<1>15. \A t \in 1..Len(turn) : turn[t].status = "closed" /\ t \notin T => MembersOf(t)' = MembersOf(t)
  <2> SUFFICES ASSUME NEW t \in 1..Len(turn), turn[t].status = "closed", t \notin T
               PROVE  MembersOf(t)' = MembersOf(t)
    OBVIOUS
  <2>1. \A x \in MembersOf(t) : x \in Live /\ event[x].turn = t /\ x \in Nat
    BY <1>11 DEF MembersOf
  <2>2. \A x \in MembersOf(t) : ~ (x > keep)
    BY <1>3, <2>1
  <2>3. \A x \in MembersOf(t) : x <= keep
    BY <1>6, <2>1, <2>2
  <2>4. \A x : x \in MembersOf(t)' <=> x \in MembersOf(t)
    BY <1>13, <2>3
  <2>5. MembersOf(t) \subseteq Live /\ MembersOf(t)' \subseteq Live'
    BY DEF MembersOf
  <2> QED BY <2>4, <2>5
<1>16. \A x \in 1..Len(event) : event'[x].rev = event[x].rev
  BY <1>4, <1>8
<1>17. \A c \in DOMAIN summary : c \in C \/ c \in G \/ SourceOf(c)' = SourceOf(c)
  <2> SUFFICES ASSUME NEW c \in DOMAIN summary, c \notin X PROVE SourceOf(c)' = SourceOf(c)
    OBVIOUS
  <2>1. c \in DOMAIN chunk
    BY DEF Versions, Full
  <2>2. \A t \in ToSet(chunk[c].members) : t \in 1..Len(turn) /\ turn[t].status = "closed" /\ t \notin T
    BY <1>3, <2>1 DEF Placed, ChunksOf
  <2>3. \A t \in ToSet(chunk[c].members) :
            MembersOf(t)' = MembersOf(t) /\ \A x \in MembersOf(t) : event'[x].rev = event[x].rev
    BY <1>11, <1>15, <1>16, <2>2 DEF MembersOf
  <2>4. chunk'[c].members = chunk[c].members
    BY <1>1
  <2> QED BY <2>3, <2>4, SourceSame
<1>18. tally \in Counts /\ tally.items = count.items
  <2>1. count \in [{"rollbacks", "mutations", "lapses", "compacts", "items"} -> Nat]
    BY DEF Tables, Counts
  <2>2. count["rollbacks"] + 1 \in Nat
    BY <2>1
  <2> QED BY <2>1, <2>2 DEF Counts
<1>19. \E b \in Nat : \A x \in DOMAIN event' : event'[x].step \in -1..b
  <2>1. PICK b \in Nat : \A x \in DOMAIN event : event[x].step \in -1..b
    BY DEF Tables
  <2>2. -1 \in -1..b
    OBVIOUS
  <2>3. \A x \in 1..Len(event) : event'[x].step \in -1..b
    BY <1>2, <1>4, <1>8, <2>1
  <2> QED BY <1>6, <1>8, <1>9, <1>10, <2>2, <2>3
<1> HIDE DEF E, C, tally
<1>20. Cascaded(D, E, G, C, tally) /\ Placed' /\ Versions' /\ Handlers' /\ Tables'
  <2>1. /\ tally \in Counts /\ tally.items = count.items /\ RunCascade(D, E, G, C, tally)
        /\ UNCHANGED <<chunk, handler>>
        /\ \A c \in DOMAIN summary : c \in C \/ c \in G \/ SourceOf(c)' = SourceOf(c)
    BY <1>1, <1>17, <1>18
  <2>2. Cascaded(D, E, G, C, tally) /\ Placed' /\ Versions' /\ Handlers'
          /\ (event' \in Seq(Event) /\ (\E b \in Nat : \A o \in DOMAIN event' : event'[o].step \in -1..b) => Tables')
    BY <2>1, CascadeKeeps
  <2>3. event' \in Seq(Event)
    BY <1>8
  <2> QED BY <1>19, <2>2, <2>3
<1>21. /\ Len(turn') = Len(turn) /\ DOMAIN turn' = 1..Len(turn) /\ DOMAIN turn = 1..Len(turn) /\ Len(turn) \in Nat
       /\ \A t \in 1..Len(turn) : turn'[t].status = turn[t].status /\ (turn'[t].deleted <=> turn[t].deleted \/ t \in D)
  BY <1>20, CascadedTurns
<1>22. Turns'
  <2>1. \A x \in 1..n : event'[x].turn <= Len(turn)
    <3>1. \A x \in 1..Len(event) : event'[x].turn <= Len(turn)
      BY <1>2, <1>4, <1>8 DEF Turns
    <3>2. event'[n].turn <= Len(turn)
      BY <1>6, <1>8, <1>21
    <3> QED BY <1>10, <3>1, <3>2
  <2>2. \A x \in 1..n : event'[x].kind \in MessageKinds => event'[x].turn >= 1
    <3>1. \A x \in 1..Len(event) : event'[x].kind = event[x].kind /\ event'[x].turn = event[x].turn
      BY <1>4, <1>8
    <3>2. \A x \in 1..Len(event) : event[x].kind \in MessageKinds => event[x].turn >= 1
      BY <1>2 DEF Turns, IsMessage
    <3> QED BY <1>7, <1>8, <1>10, <3>1, <3>2
  <2>3. Len(turn) >= 1 /\ \A t \in 1..Len(turn) : turn'[t].status = "open" <=> t = Len(turn)
    BY <1>21 DEF Turns
  <2> QED BY <1>9, <1>21, <2>1, <2>2, <2>3 DEF Turns, IsMessage
<1>23. Prompted'
  <2> SUFFICES ASSUME NEW t \in 1..Len(turn), MembersOf(t)' # {}
               PROVE  \E p \in MembersOf(t)' : event'[p].kind = "user_prompt" /\ \A x \in MembersOf(t)' : p <= x
    BY <1>21 DEF Prompted
  <2>1. PICK x : x \in MembersOf(t)'
    OBVIOUS
  <2>2. x \in MembersOf(t) /\ x <= keep
    BY <1>13, <2>1
  <2>3. PICK p \in MembersOf(t) : event[p].kind = "user_prompt" /\ \A y \in MembersOf(t) : p <= y
    BY <2>2 DEF Prompted
  <2>4. p \in 1..Len(event) /\ x \in 1..Len(event) /\ p <= x
    BY <1>11, <2>2, <2>3 DEF MembersOf
  <2>5. p <= keep
    BY <1>2, <1>6, <2>2, <2>4
  <2>6. p \in MembersOf(t)' /\ \A y \in MembersOf(t)' : p <= y
    BY <1>13, <2>3, <2>5
  <2> QED BY <1>4, <1>8, <2>3, <2>4, <2>6
<1>24. Hidden'
  <2>1. \A x \in Live' : ~ RolledBack(x)'
    <3> SUFFICES ASSUME NEW x \in Live', RolledBack(x)' PROVE FALSE
      OBVIOUS
    <3>1. x \in Live /\ x <= keep /\ x \in Nat
      BY <1>11, <1>12
    <3>2. keep < x
      BY <1>14, <3>1 DEF Hidden
    <3> QED BY <1>6, <3>1, <3>2
  <2>2. \A t \in ClosedTurns' : MembersOf(t)' # {}
    <3> SUFFICES ASSUME NEW t \in ClosedTurns' PROVE MembersOf(t)' # {}
      OBVIOUS
    <3>1. t \in 1..Len(turn) /\ turn[t].status = "closed" /\ ~ turn[t].deleted /\ t \notin D
      BY <1>21 DEF ClosedTurns
    <3>2. MembersOf(t) # {}
      BY <1>21, <3>1 DEF Hidden, ClosedTurns
    <3>3. CASE t \in T
      BY <1>3, <1>13, <3>1, <3>3
    <3>4. CASE t \notin T
      BY <1>15, <3>1, <3>2, <3>4
    <3> QED BY <3>3, <3>4
  <2> QED BY <2>1, <2>2 DEF Hidden
<1> QED BY <1>6, <1>14, <1>20, <1>22, <1>23, <1>24

-----------------------------------------------------------------------------
(* A derived turn takes its place.                                         *)

\* Place p is what becomes of the chunks once turn t has one.
PlacedAs(p, t) ==
  /\ \E b \in Nat : DOMAIN p \subseteq 1..b
  /\ \A c \in DOMAIN p : p[c] \in ChunkRow
  /\ \A c \in DOMAIN chunk : c \in DOMAIN p /\ (chunk[c].status = "closed" => p[c] = chunk[c])
  /\ \A c \in DOMAIN p : \A u \in ToSet(p[c].members) :
       u = t \/ (c \in DOMAIN chunk /\ u \in ToSet(chunk[c].members))
  /\ \A c, d \in DOMAIN p : t \in ToSet(p[c].members) /\ t \in ToSet(p[d].members) => c = d

LEMMA MembersAppend ==
  ASSUME NEW m \in Seq(Nat), NEW t \in Nat
  PROVE  Append(m, t) \in Seq(Nat) /\ ToSet(Append(m, t)) = ToSet(m) \cup {t}
<1>1. Len(m) \in Nat /\ DOMAIN m = 1..Len(m)
  BY LenProperties
<1>2. /\ Append(m, t) \in Seq(Nat) /\ Len(Append(m, t)) = Len(m) + 1
      /\ \A i \in 1..Len(m) : Append(m, t)[i] = m[i]
      /\ Append(m, t)[Len(m) + 1] = t
  BY AppendProperties
<1>3. DOMAIN Append(m, t) = 1..Len(m) + 1
  BY <1>2, LenProperties
<1>4. \A i : i \in 1..Len(m) + 1 <=> i \in 1..Len(m) \/ i = Len(m) + 1
  BY <1>1
<1> QED BY <1>1, <1>2, <1>3, <1>4 DEF ToSet

LEMMA PlaceIs ==
  ASSUME RecordInv, NEW t \in ClosedTurns, ChunksOf(t) = {}
  PROVE  PlacedAs(Place(t), t)
<1> DEFINE size == Cardinality(MembersOf(t))
           O == {c \in DOMAIN chunk : chunk[c].status = "open"}
           open == MaxOf(O, 0)
           full == open # 0 /\ chunk[open].members # <<>> /\ chunk[open].tokens + size >= TargetTokens
           first == IF full THEN [chunk EXCEPT ![open].status = "closed"] ELSE chunk
           c == IF open = 0 \/ full THEN NextChunk(chunk) ELSE open
           A == AddChunk(first, c)
           row == [A[c] EXCEPT !.members = Append(@, t), !.tokens = @ + size,
                               !.status = IF size >= MaxTokens THEN "closed" ELSE @]
           P == Place(t)
<1>1. t \in Nat /\ size \in Nat
  <2>1. t \in Nat
    BY TurnsAre DEF RecordInv, Tables, ClosedTurns
  <2>2. Len(event) \in Nat /\ MembersOf(t) \in SUBSET (0..Len(event))
    BY EventsAre DEF RecordInv, Tables, MembersOf, Live
  <2>3. size \in Nat
    BY <2>2, FiniteOf
  <2> QED BY <2>1, <2>3
<1>2. PICK b \in Nat : DOMAIN chunk \subseteq 1..b
  BY DEF RecordInv, Tables
<1>3. \A d \in DOMAIN chunk : chunk[d] \in ChunkRow
  BY DEF RecordInv, Tables
<1>4. open = 0 \/ (open \in DOMAIN chunk /\ chunk[open].status = "open")
  <2>1. O \in SUBSET (1..b)
    BY <1>2
  <2>2. ASSUME O # {} PROVE open \in O
    <3> HIDE DEF O
    <3> QED BY 1 \in Int, b \in Int, <2>1, <2>2, MaxIsIn
  <2>3. CASE O = {}
    BY <2>3 DEF MaxOf
  <2> QED BY <2>2, <2>3
<1>5. NextChunk(chunk) \in Nat /\ NextChunk(chunk) >= 1 /\ NextChunk(chunk) <= b + 1 /\ NextChunk(chunk) \notin DOMAIN chunk
  <2>1. CASE DOMAIN chunk = {}
    BY <2>1 DEF NextChunk, MaxOf
  <2>2. CASE DOMAIN chunk # {}
    <3> DEFINE S == DOMAIN chunk
               m == MaxOf(S, 0)
    <3>1. S \in SUBSET (1..b) /\ S # {}
      BY <1>2, <2>2
    <3>2. NextChunk(chunk) = m + 1
      BY DEF NextChunk
    <3> HIDE DEF S
    <3>3. m \in S /\ \A d \in S : d <= m
      BY 1 \in Int, b \in Int, <3>1, MaxIsIn
    <3>4. m \in 1..b
      BY <3>1, <3>3
    <3> HIDE DEF m
    <3>5. m + 1 \notin S
      BY <3>3, <3>4
    <3> QED BY <3>2, <3>4, <3>5 DEF S
  <2> QED BY <2>1, <2>2
<1>6. P = [A EXCEPT ![c].members = Append(@, t), ![c].tokens = @ + size,
                    ![c].status = IF size >= MaxTokens THEN "closed" ELSE @]
  BY Zenon DEF Place
<1> HIDE DEF size, open
<1>7. /\ DOMAIN first = DOMAIN chunk
      /\ \A d \in DOMAIN chunk : /\ first[d] \in ChunkRow /\ first[d].members = chunk[d].members
                                 /\ chunk[d].status = "closed" => first[d] = chunk[d]
  <2>1. CASE full
    <3>1. open \in DOMAIN chunk /\ chunk[open].status = "open"
      BY <1>4, <2>1
    <3>2. first = [chunk EXCEPT ![open].status = "closed"]
      BY <2>1
    <3> HIDE DEF first
    <3> QED BY <1>3, <3>1, <3>2 DEF ChunkRow
  <2>2. CASE ~ full
    BY <1>3, <2>2
  <2> QED BY <2>1, <2>2
<1>8. \/ c \notin DOMAIN chunk /\ c \in 1..(b + 1)
      \/ c \in DOMAIN chunk /\ chunk[c].status = "open"
  BY <1>4, <1>5, <1>2
<1> HIDE DEF first, c
<1>9. /\ DOMAIN A = DOMAIN chunk \cup {c}
      /\ \A d \in DOMAIN chunk : A[d] = first[d]
      /\ c \notin DOMAIN chunk => A[c] = [status |-> "open", members |-> <<>>, tokens |-> 0]
      /\ A[c] \in ChunkRow
  BY <1>7 DEF AddChunk, ChunkRow
<1>10. /\ c \in DOMAIN chunk => A[c].members = chunk[c].members
       /\ c \notin DOMAIN chunk => A[c].members = <<>>
  BY <1>7, <1>9
<1> HIDE DEF A, P
<1>0. P = [A EXCEPT ![c] = row]
  <2>1. c \in DOMAIN A /\ A[c] \in ChunkRow
    BY <1>9
  <2>2. DOMAIN P = DOMAIN A /\ \A d \in DOMAIN A : d # c => P[d] = A[d]
    BY <1>6
  <2>3. P[c] = row
    BY <1>6, <2>1 DEF ChunkRow
  <2>4. DOMAIN [A EXCEPT ![c] = row] = DOMAIN A /\ \A d \in DOMAIN A : [A EXCEPT ![c] = row][d] = P[d]
    BY <2>1, <2>2, <2>3
  <2> QED BY <1>6, <2>2, <2>4
<1>11. row \in ChunkRow /\ row.members = Append(A[c].members, t)
  <2>1. A[c].members \in Seq(Nat) /\ A[c].tokens + size \in Nat
    BY <1>1, <1>9 DEF ChunkRow
  <2>2. Append(A[c].members, t) \in Seq(Nat)
    BY <1>1, <2>1, MembersAppend
  <2> QED BY <1>9, <2>1, <2>2 DEF ChunkRow
<1> HIDE DEF row
<1>12. /\ DOMAIN P = DOMAIN chunk \cup {c} /\ P[c] = row
       /\ \A d \in DOMAIN chunk : d # c => P[d] = first[d]
  BY <1>0, <1>9
<1>13. ToSet(P[c].members) = ToSet(A[c].members) \cup {t}
  <2>1. A[c].members \in Seq(Nat)
    BY <1>9 DEF ChunkRow
  <2> QED BY <1>1, <1>11, <1>12, <2>1, MembersAppend
<1>14. \A d \in DOMAIN chunk : t \notin ToSet(chunk[d].members)
  BY DEF ChunksOf
<1>15. ASSUME NEW d \in DOMAIN P, d # c
       PROVE  d \in DOMAIN chunk /\ P[d] \in ChunkRow /\ P[d].members = chunk[d].members /\ t \notin ToSet(P[d].members)
  BY <1>7, <1>12, <1>14, <1>15
<1>16. \E k \in Nat : DOMAIN P \subseteq 1..k
  <2>1. b + 1 \in Nat /\ DOMAIN P \subseteq 1..(b + 1)
    <3>1. 1..b \subseteq 1..(b + 1)
      OBVIOUS
    <3> QED BY <1>2, <1>8, <1>12, <3>1
  <2> QED BY <2>1
<1>17. \A d \in DOMAIN P : P[d] \in ChunkRow
  BY <1>11, <1>12, <1>15
<1>18. \A d \in DOMAIN chunk : d \in DOMAIN P /\ (chunk[d].status = "closed" => P[d] = chunk[d])
  BY <1>7, <1>8, <1>12
<1>19. \A d \in DOMAIN P : \A u \in ToSet(P[d].members) :
          u = t \/ (d \in DOMAIN chunk /\ u \in ToSet(chunk[d].members))
  <2>1. ASSUME NEW d \in DOMAIN P, NEW u \in ToSet(P[d].members), u # t
        PROVE  d \in DOMAIN chunk /\ u \in ToSet(chunk[d].members)
    <3>1. CASE d # c
      BY <1>15, <2>1, <3>1
    <3>2. CASE d = c
      <4>1. u \in ToSet(A[c].members)
        BY <1>13, <2>1, <3>2
      <4>2. ToSet(<<>>) = {}
        BY DEF ToSet
      <4> QED BY <1>10, <3>2, <4>1, <4>2
    <3> QED BY <3>1, <3>2
  <2> QED BY <2>1
<1>20. \A d, e \in DOMAIN P : t \in ToSet(P[d].members) /\ t \in ToSet(P[e].members) => d = e
  <2>1. \A d \in DOMAIN P : t \in ToSet(P[d].members) => d = c
    BY <1>15
  <2> QED BY <2>1
<1> QED BY <1>16, <1>17, <1>18, <1>19, <1>20 DEF PlacedAs, P

LEMMA DerivedIsPlaced ==
  ASSUME RecordInv, NEW t \in ClosedTurns
  PROVE  PlacedAs(IF ChunksOf(t) = {} THEN Place(t) ELSE chunk, t)
<1>1. CASE ChunksOf(t) = {}
  BY <1>1, PlaceIs
<1>2. CASE ChunksOf(t) # {}
  <2>1. /\ \E b \in Nat : DOMAIN chunk \subseteq 1..b
        /\ \A c \in DOMAIN chunk : chunk[c] \in ChunkRow
    BY DEF RecordInv, Tables
  <2>2. \A c, d \in DOMAIN chunk : t \in ToSet(chunk[c].members) /\ t \in ToSet(chunk[d].members) => c = d
    BY DEF RecordInv, Placed
  <2> QED BY <1>2, <2>1, <2>2 DEF PlacedAs
<1> QED BY <1>1, <1>2

LEMMA OneChunk ==
  ASSUME Placed, NEW c \in DOMAIN chunk, NEW d \in DOMAIN chunk, NEW u \in ToSet(chunk[c].members),
         u \in ToSet(chunk[d].members)
  PROVE  c = d
<1>1. ToSet(chunk[c].members) \cap ToSet(chunk[d].members) # {}
  OBVIOUS
<1> QED BY <1>1 DEF Placed

\* Once t has its place no turn is in two chunks.
LEMMA PlacedApart ==
  ASSUME Placed, NEW p, NEW t, PlacedAs(p, t)
  PROVE  \A c, d \in DOMAIN p : ToSet(p[c].members) \cap ToSet(p[d].members) # {} => c = d
<1> SUFFICES ASSUME NEW c \in DOMAIN p, NEW d \in DOMAIN p, NEW u \in ToSet(p[c].members), u \in ToSet(p[d].members)
             PROVE  c = d
  OBVIOUS
<1>1. CASE u = t
  BY <1>1 DEF PlacedAs
<1>2. CASE u # t
  <2>1. /\ c \in DOMAIN chunk /\ u \in ToSet(chunk[c].members)
        /\ d \in DOMAIN chunk /\ u \in ToSet(chunk[d].members)
    BY <1>2 DEF PlacedAs
  <2> QED BY <2>1, OneChunk
<1> QED BY <1>1, <1>2

\* The chunks that close get the rows and items of the first version; no others change.
LEMMA DerivedKeepsRecord ==
  ASSUME RecordInv, NEW t \in DOMAIN turn, TurnDerived(t)
  PROVE  RecordInv' /\ \A x : RolledBack(x)' <=> RolledBack(x)
<1> USE DEF RecordInv
<1> DEFINE p == IF ChunksOf(t) = {} THEN Place(t) ELSE chunk
           closing == {c \in DOMAIN p : p[c].status = "closed" /\ (c \in DOMAIN chunk => chunk[c].status = "open")}
           asked == [c \in closing |-> 1]
           none == {}
<1>1. /\ t \in ClosedTurns /\ turn' = [turn EXCEPT ![t].ready = TRUE] /\ chunk' = p
      /\ summary' = [c \in DOMAIN summary \cup closing |-> IF c \in closing THEN Pending(1) ELSE summary[c]]
      /\ job' = Requeued(none, asked)
      /\ count' = [count EXCEPT !.items = @ + Cardinality(closing)]
      /\ UNCHANGED <<event, handler>>
  BY DEF TurnDerived
<1>2. PlacedAs(p, t)
  BY <1>1, DerivedIsPlaced
<1> HIDE DEF p
<1>3. PICK b \in Nat : DOMAIN p \subseteq 1..b
  BY <1>2 DEF PlacedAs
<1>4. closing \in SUBSET (0..b) /\ DOMAIN asked = closing /\ \A c \in closing : asked[c] = 1
  <2>1. \A c \in closing : c \in 1..b
    BY <1>3
  <2> QED BY <2>1
<1>5. \A c : Full(c) => c \notin closing /\ c \in DOMAIN p /\ p[c] = chunk[c]
  BY <1>2 DEF PlacedAs, Full
<1>6. \A c \in closing : c \in DOMAIN p /\ p[c].status = "closed" /\ c \in Nat
  BY <1>4
<1> HIDE DEF closing, asked, none
<1>7. /\ Cardinality(closing) \in Nat
      /\ \A i \in DOMAIN job' :
              \/ i \in DOMAIN job /\ job'[i] = job[i]
              \/ /\ i \in (count.items + 1)..(count.items + Cardinality(closing))
                 /\ \E c \in closing : job'[i] = NewJob(c, 1)
  <2>1. DOMAIN asked \in SUBSET (0..b)
    BY <1>4
  <2>2. /\ Cardinality(DOMAIN asked) \in Nat
         /\ \A i \in DOMAIN job' :
              \/ i \in DOMAIN job /\ job'[i] = job[i]
              \/ /\ i \in (count.items + 1)..(count.items + Cardinality(DOMAIN asked))
                 /\ \E c \in DOMAIN asked : job'[i] = NewJob(c, asked[c])
    BY <1>1, <2>1, RequeuedIs
  <2> QED BY <1>4, <2>2
<1>8. count' \in Counts /\ count'.items = count.items + Cardinality(closing) /\ count.items \in Nat
  <2>1. count \in [{"rollbacks", "mutations", "lapses", "compacts", "items"} -> Nat]
    BY DEF Tables, Counts
  <2>2. count["items"] + Cardinality(closing) \in Nat
    BY <1>7, <2>1
  <2> QED BY <1>1, <2>1, <2>2 DEF Counts
<1>9. /\ turn' \in Seq(TurnRow) /\ Len(turn') = Len(turn) /\ DOMAIN turn' = DOMAIN turn /\ DOMAIN turn = 1..Len(turn)
      /\ \A u \in 1..Len(turn) : turn'[u].status = turn[u].status /\ turn'[u].deleted = turn[u].deleted
  <2> DEFINE row == [turn[t] EXCEPT !.ready = TRUE]
  <2>1. Len(turn) \in Nat /\ DOMAIN turn = 1..Len(turn) /\ \A u \in 1..Len(turn) : turn[u] \in TurnRow
    BY TurnsAre DEF Tables
  <2>2. row \in TurnRow /\ row.status = turn[t].status /\ row.deleted = turn[t].deleted
    BY <2>1 DEF TurnRow
  <2>3. turn' = [turn EXCEPT ![t] = row]
    BY <1>1
  <2> HIDE DEF row
  <2>4. turn' \in Seq(TurnRow) /\ Len(turn') = Len(turn)
        /\ \A u \in 1..Len(turn) : turn'[u] = IF u = t THEN row ELSE turn[u]
    BY <2>1, <2>2, <2>3, ExceptSeq DEF Tables
  <2> QED BY <2>1, <2>2, <2>3, <2>4
<1>10. /\ Live' = Live /\ \A u : MembersOf(u)' = MembersOf(u)
  BY <1>1 DEF Live, MembersOf, IsMessage
<1>11. \A x : RolledBack(x)' <=> RolledBack(x)
  BY <1>1 DEF RolledBack
<1>12. \A c : Full(c) => SourceOf(c)' = SourceOf(c)
  <2> SUFFICES ASSUME NEW c, Full(c) PROVE SourceOf(c)' = SourceOf(c)
    OBVIOUS
  <2>1. chunk'[c].members = chunk[c].members
    BY <1>1, <1>5
  <2> QED BY <1>1, <1>10, <2>1, SourceSame
<1>13. \A c \in DOMAIN summary' :
          /\ c \in closing => summary'[c] = [version |-> 1, ready |-> FALSE, read |-> {}]
          /\ c \notin closing => c \in DOMAIN summary /\ Full(c) /\ summary'[c] = summary[c]
  BY <1>1 DEF Pending, Versions
<1>14. \A c : Full(c) => Full(c)'
  BY <1>1, <1>5 DEF Full
<1>15. \A i \in DOMAIN job : Full(job[i].chunk) /\ job[i].chunk \notin closing
  BY <1>5 DEF Versions
<1>16. \A h \in handler : h.item \in DOMAIN job' => h.item \in DOMAIN job /\ job'[h.item] = job[h.item]
  <2>1. \A h \in handler : h.item \in 1..count.items
    BY DEF Tables
  <2>2. \A i \in 1..count.items : i \notin (count.items + 1)..(count.items + Cardinality(closing))
    BY <1>7, <1>8
  <2> QED BY <1>7, <2>1, <2>2
<1>17. Tables'
  <2>1. \A c \in DOMAIN chunk' : chunk'[c] \in ChunkRow
    BY <1>1, <1>2 DEF PlacedAs
  <2>2. \A c \in DOMAIN summary' :
           /\ summary'[c] = [version |-> summary'[c].version, ready |-> summary'[c].ready, read |-> summary'[c].read]
           /\ summary'[c].version \in Nat /\ summary'[c].ready \in BOOLEAN
    <3> SUFFICES ASSUME NEW c \in DOMAIN summary'
                 PROVE  /\ summary'[c] = [version |-> summary'[c].version, ready |-> summary'[c].ready, read |-> summary'[c].read]
                        /\ summary'[c].version \in Nat /\ summary'[c].ready \in BOOLEAN
      OBVIOUS
    <3>1. CASE c \in closing
      <4>1. summary'[c] = [version |-> 1, ready |-> FALSE, read |-> {}]
        BY <1>13, <3>1
      <4> QED BY <4>1
    <3>2. CASE c \notin closing
      <4>1. summary'[c] = summary[c] /\ c \in DOMAIN summary
        BY <1>13, <3>2
      <4> QED BY <4>1 DEF Tables
    <3> QED BY <3>1, <3>2
  <2>3. \A i \in DOMAIN job' : i \in 1..count'.items /\ job'[i] \in Job
    <3> SUFFICES ASSUME NEW i \in DOMAIN job' PROVE i \in 1..count'.items /\ job'[i] \in Job
      OBVIOUS
    <3>1. CASE i \in DOMAIN job /\ job'[i] = job[i]
      <4>1. i \in 1..count.items /\ job[i] \in Job
        BY <3>1 DEF Tables
      <4> QED BY <1>7, <1>8, <3>1, <4>1
    <3>2. CASE /\ i \in (count.items + 1)..(count.items + Cardinality(closing))
               /\ \E c \in closing : job'[i] = NewJob(c, 1)
      <4>1. PICK c \in closing : job'[i] = NewJob(c, 1)
        BY <3>2
      <4>2. job'[i] \in Job
        BY <1>6, <4>1 DEF NewJob, Job
      <4> QED BY <1>7, <1>8, <3>2, <4>2
    <3> QED BY <1>7, <3>1, <3>2
  <2>4. \A h \in handler' : h.item \in 1..count'.items /\ h.attempt \in Nat
    <3>1. \A h \in handler : h.item \in 1..count.items /\ h.attempt \in Nat
      BY DEF Tables
    <3> QED BY <1>1, <1>7, <1>8, <3>1
  <2>5. event' \in Seq(Event) /\ \E k \in Nat : \A o \in DOMAIN event' : event'[o].step \in -1..k
    BY <1>1 DEF Tables
  <2> QED BY <1>1, <1>3, <1>8, <1>9, <2>1, <2>2, <2>3, <2>4, <2>5 DEF Tables
<1>18. Turns'
  BY <1>1, <1>9 DEF Turns, IsMessage
<1>19. Prompted'
  BY <1>1, <1>9, <1>10 DEF Prompted
<1>20. Hidden'
  <2>1. ClosedTurns' = ClosedTurns
    BY <1>9 DEF ClosedTurns
  <2> QED BY <1>10, <1>11, <2>1 DEF Hidden
<1>21. Placed'
  <2>1. t \in 1..Len(turn) /\ turn[t].status = "closed"
    BY <1>1, <1>9 DEF ClosedTurns
  <2>2. \A c \in DOMAIN p : \A u \in ToSet(p[c].members) : u \in 1..Len(turn) /\ turn[u].status = "closed"
    BY <1>2, <2>1 DEF PlacedAs, Placed
  <2>3. \A c, d \in DOMAIN p : ToSet(p[c].members) \cap ToSet(p[d].members) # {} => c = d
    BY <1>2, PlacedApart
  <2>4. \A c \in DOMAIN p : \A u \in ToSet(p[c].members) : u \in 1..Len(turn') /\ turn'[u].status = "closed"
    BY <1>9, <2>2
  <2>5. chunk' = p
    BY <1>1
  <2> QED BY <2>3, <2>4, <2>5 DEF Placed
<1>22. Versions'
  <2>1. \A c \in DOMAIN summary' : Full(c)'
    BY <1>1, <1>6, <1>13, <1>14 DEF Full
  <2>2. ASSUME NEW i \in DOMAIN job'
        PROVE  /\ job'[i].chunk \in DOMAIN chunk' /\ chunk'[job'[i].chunk].status = "closed"
              /\ (job'[i].chunk \in DOMAIN summary' => job'[i].version <= summary'[job'[i].chunk].version)
    <3>1. CASE i \in DOMAIN job /\ job'[i] = job[i]
      <4>1. job'[i].chunk = job[i].chunk /\ job'[i].version = job[i].version
        BY <3>1
      <4>2. Full(job[i].chunk)
        BY <3>1 DEF Versions
      <4>3. job'[i].chunk \in DOMAIN chunk' /\ chunk'[job'[i].chunk].status = "closed"
        BY <1>1, <1>5, <4>1, <4>2 DEF Full
      <4>4. job[i].chunk \in DOMAIN summary' => job[i].chunk \in DOMAIN summary /\ summary'[job[i].chunk] = summary[job[i].chunk]
        BY <1>13, <1>15, <3>1
      <4> QED BY <3>1, <4>1, <4>3, <4>4 DEF Versions
    <3>2. CASE \E c \in closing : job'[i] = NewJob(c, 1)
      <4>1. PICK c \in closing : job'[i] = NewJob(c, 1)
        BY <3>2
      <4>2. job'[i].chunk = c /\ job'[i].version = 1
        BY <4>1 DEF NewJob
      <4>3. job'[i].chunk \in DOMAIN chunk' /\ chunk'[job'[i].chunk].status = "closed"
        BY <1>1, <1>6, <4>2 DEF Full
      <4>4. c \in DOMAIN summary' => summary'[c].version = 1
        BY <1>13
      <4> QED BY <4>2, <4>3, <4>4
    <3> QED BY <1>7, <3>1, <3>2
  <2>3. \A i \in DOMAIN job' : job'[i].chunk \in DOMAIN chunk' /\ chunk'[job'[i].chunk].status = "closed"
    BY <2>2
  <2>4. \A i \in DOMAIN job' : job'[i].chunk \in DOMAIN summary' => job'[i].version <= summary'[job'[i].chunk].version
    BY <2>2
  <2> QED BY <2>1, <2>3, <2>4 DEF Versions, Full
<1>23. Handlers'
  <2>1. \A h \in handler' : h.item \in DOMAIN job' => h.attempt <= job'[h.item].attempt
    BY <1>1, <1>16 DEF Handlers
  <2>2. ASSUME NEW h \in handler PROVE Answers(h)'
    <3> SUFFICES ASSUME NEW c \in DOMAIN summary', OwnsClaim(h)', job'[h.item].chunk = c,
                        job'[h.item].version = summary'[c].version
                 PROVE  h.read = SourceOf(c)'
      BY DEF Answers
    <3>1. h.item \in DOMAIN job /\ job'[h.item] = job[h.item] /\ OwnsClaim(h) /\ job[h.item].chunk = c
      BY <1>16 DEF OwnsClaim
    <3>2. Full(c) /\ c \in DOMAIN summary /\ summary'[c] = summary[c]
      BY <1>13, <1>15, <3>1
    <3>3. h.read = SourceOf(c)
      BY <3>1, <3>2 DEF Handlers, Answers
    <3> QED BY <1>12, <3>2, <3>3
  <2>3. ASSUME NEW c \in DOMAIN summary'
        PROVE  (summary'[c].ready => summary'[c].read = SourceOf(c)') /\ (~ summary'[c].ready => summary'[c].read = {})
    <3>1. CASE c \in closing
      <4>1. ~ summary'[c].ready /\ summary'[c].read = {}
        BY <1>13, <3>1
      <4> QED BY <4>1
    <3>2. CASE c \notin closing
      <4>1. Full(c) /\ c \in DOMAIN summary /\ summary'[c] = summary[c]
        BY <1>13, <3>2
      <4> QED BY <1>12, <4>1 DEF Handlers, SummaryIsCurrent
    <3> QED BY <3>1, <3>2
  <2> QED BY <1>1, <2>1, <2>2, <2>3 DEF Handlers, SummaryIsCurrent
<1> QED BY <1>11, <1>17, <1>18, <1>19, <1>20, <1>21, <1>22, <1>23

-----------------------------------------------------------------------------
(* Summary handlers, and the chunks a compaction drops.                    *)

LEMMA UntouchedRecord ==
  ASSUME RecordInv, UNCHANGED <<event, turn>>
  PROVE  /\ Turns' /\ Prompted' /\ Hidden'
         /\ \A x : RolledBack(x)' <=> RolledBack(x)
         /\ \A c : chunk'[c].members = chunk[c].members => SourceOf(c)' = SourceOf(c)
         /\ event' \in Seq(Event) /\ turn' \in Seq(TurnRow)
         /\ \E k \in Nat : \A o \in DOMAIN event' : event'[o].step \in -1..k
<1> USE DEF RecordInv
<1>1. Live' = Live /\ \A u : MembersOf(u)' = MembersOf(u)
  BY DEF Live, MembersOf, IsMessage
<1>2. \A x : RolledBack(x)' <=> RolledBack(x)
  BY DEF RolledBack
<1>3. ClosedTurns' = ClosedTurns
  BY DEF ClosedTurns
<1>4. Turns' /\ Prompted' /\ Hidden'
  <2>1. Turns'
    BY DEF Turns, IsMessage
  <2>2. Prompted'
    BY <1>1 DEF Prompted
  <2>3. Hidden'
    BY <1>1, <1>2, <1>3 DEF Hidden
  <2> QED BY <2>1, <2>2, <2>3
<1>5. \A c : chunk'[c].members = chunk[c].members => SourceOf(c)' = SourceOf(c)
  <2> SUFFICES ASSUME NEW c, chunk'[c].members = chunk[c].members PROVE SourceOf(c)' = SourceOf(c)
    OBVIOUS
  <2> QED BY <1>1, SourceSame
<1> QED BY <1>2, <1>4, <1>5 DEF Tables

\* A handler that takes an item reads the chunk as it is; the older ones lose the claim.
LEMMA ClaimKeepsRecord ==
  ASSUME RecordInv, NEW i \in DOMAIN job, SummaryClaim(i)
  PROVE  RecordInv' /\ \A x : RolledBack(x)' <=> RolledBack(x)
<1> USE DEF RecordInv
<1> DEFINE new == [item |-> i, attempt |-> job[i].attempt + 1, read |-> SourceOf(job[i].chunk)]
<1>1. /\ job' = [job EXCEPT ![i].status = "claimed", ![i].attempt = @ + 1]
      /\ handler' = handler \cup {new}
      /\ UNCHANGED <<event, turn, chunk, summary, count>>
  BY DEF SummaryClaim
<1>2. \A k \in DOMAIN job : job[k] \in Job /\ k \in 1..count.items
  BY DEF Tables
<1>3. /\ DOMAIN job' = DOMAIN job /\ job'[i] \in Job
      /\ job'[i].chunk = job[i].chunk /\ job'[i].version = job[i].version
      /\ job'[i].attempt = job[i].attempt + 1 /\ job[i].attempt \in Nat
      /\ \A k \in DOMAIN job : k # i => job'[k] = job[k]
  <2> DEFINE a == job[i].attempt + 1
             row == [job[i] EXCEPT !.status = "claimed", !.attempt = a]
  <2>1. job[i] \in Job /\ job[i].attempt \in Nat /\ a \in Nat
    BY <1>2 DEF Job
  <2> HIDE DEF a
  <2>2. /\ row \in Job /\ row.chunk = job[i].chunk /\ row.version = job[i].version
        /\ row.attempt = a
    BY <2>1 DEF Job
  <2>3. DOMAIN job' = DOMAIN job /\ job'[i] = row /\ \A k \in DOMAIN job : k # i => job'[k] = job[k]
    BY <1>1 DEF a
  <2> HIDE DEF row
  <2> QED BY <2>1, <2>2, <2>3 DEF a
<1>4. \A k \in DOMAIN job : job'[k] \in Job /\ job'[k].chunk = job[k].chunk /\ job'[k].version = job[k].version
  BY <1>2, <1>3
<1>5. new.item = i /\ new.attempt = job[i].attempt + 1 /\ new.read = SourceOf(job[i].chunk)
  OBVIOUS
<1> HIDE DEF new
<1>6. \A c : SourceOf(c)' = SourceOf(c)
  BY <1>1, UntouchedRecord
<1>7. Tables'
  <2>1. \A h \in handler' : h.item \in 1..count.items /\ h.attempt \in Nat
    BY <1>1, <1>2, <1>3, <1>5 DEF Tables
  <2>2. \A k \in DOMAIN job' : k \in 1..count.items /\ job'[k] \in Job
    BY <1>2, <1>3, <1>4
  <2> QED BY <1>1, <2>1, <2>2 DEF Tables
<1>8. Placed' /\ Versions'
  <2>1. Placed'
    BY <1>1 DEF Placed
  <2>2. Versions'
    BY <1>1, <1>3, <1>4 DEF Versions, Full
  <2> QED BY <2>1, <2>2
<1>9. Handlers'
  <2>1. \A h \in handler' : h.item \in DOMAIN job' => h.attempt <= job'[h.item].attempt
    <3> SUFFICES ASSUME NEW h \in handler', h.item \in DOMAIN job' PROVE h.attempt <= job'[h.item].attempt
      OBVIOUS
    <3>1. CASE h = new
      BY <1>3, <1>5, <3>1
    <3>2. CASE h \in handler
      <4>1. h.attempt \in Nat /\ h.attempt <= job[h.item].attempt
        BY <1>3, <3>2 DEF Handlers, Tables
      <4> QED BY <1>3, <4>1
    <3> QED BY <1>1, <3>1, <3>2
  <2>2. ASSUME NEW h \in handler' PROVE Answers(h)'
    <3> SUFFICES ASSUME NEW c \in DOMAIN summary, OwnsClaim(h)', job'[h.item].chunk = c,
                        job'[h.item].version = summary[c].version
                 PROVE  h.read = SourceOf(c)
      BY <1>1, <1>6 DEF Answers
    <3>0. h.item \in DOMAIN job /\ job'[h.item].attempt = h.attempt /\ job'[h.item].status = "claimed"
      BY <1>3 DEF OwnsClaim
    <3>1. CASE h = new
      BY <1>3, <1>5, <3>1
    <3>2. CASE h \in handler
      <4>1. h.item # i
        <5>1. h.item = i => h.attempt \in Nat /\ h.attempt <= job[i].attempt
          BY <3>0, <3>2 DEF Handlers, Tables
        <5> QED BY <1>3, <3>0, <5>1
      <4>2. job'[h.item] = job[h.item]
        BY <1>3, <3>0, <4>1
      <4> QED BY <3>0, <3>2, <4>2 DEF Handlers, Answers, OwnsClaim
    <3> QED BY <1>1, <3>1, <3>2
  <2>3. SummaryIsCurrent' /\ \A c \in DOMAIN summary' : ~ summary'[c].ready => summary'[c].read = {}
    BY <1>1, <1>6 DEF Handlers, SummaryIsCurrent
  <2> QED BY <2>1, <2>2, <2>3 DEF Handlers
<1> QED BY <1>1, <1>7, <1>8, <1>9, UntouchedRecord

LEMMA ReadyRow ==
  ASSUME NEW v, NEW y, NEW z, NEW w, NEW r
  PROVE  [[version |-> v, ready |-> y, read |-> z] EXCEPT !.ready = w, !.read = r]
           = [version |-> v, ready |-> w, read |-> r]
<1> DEFINE s == [version |-> v, ready |-> y, read |-> z]
           once == [s EXCEPT !.ready = w]
<1>1. once = [version |-> v, ready |-> w, read |-> z]
  OBVIOUS
<1>2. [s EXCEPT !.ready = w, !.read = r] = [once EXCEPT !.read = r]
  OBVIOUS
<1> HIDE DEF once
<1>3. [once EXCEPT !.read = r] = [version |-> v, ready |-> w, read |-> r]
  BY <1>1
<1> QED BY <1>2, <1>3

\* An answer that is taken was read from the chunk as it is.
LEMMA DoneKeepsRecord ==
  ASSUME RecordInv, NEW h \in handler, SummaryDone(h)
  PROVE  RecordInv' /\ \A x : RolledBack(x)' <=> RolledBack(x)
<1> USE DEF RecordInv
<1>1. handler' = handler \ {h} /\ UNCHANGED <<event, turn, chunk, count>>
  BY DEF SummaryDone
<1>2. \A c : SourceOf(c)' = SourceOf(c)
  BY <1>1, UntouchedRecord
<1>3. /\ DOMAIN summary' = DOMAIN summary
      /\ \A c \in DOMAIN summary :
           \/ summary'[c] = summary[c]
           \/ /\ summary'[c] = [summary[c] EXCEPT !.ready = TRUE, !.read = h.read]
              /\ h.read = SourceOf(c)
      /\ DOMAIN job' \subseteq DOMAIN job /\ \A k \in DOMAIN job' : job'[k] = job[k]
  <2>1. CASE OwnsClaim(h)
    <3> DEFINE c == job[h.item].chunk
               current == c \in DOMAIN summary /\ summary[c].version = job[h.item].version
    <3>1. /\ job' = WithoutKeys(job, {h.item})
          /\ summary' = [k \in DOMAIN summary |->
                           IF k = c /\ current THEN [summary[k] EXCEPT !.ready = TRUE, !.read = h.read]
                           ELSE summary[k]]
      BY <2>1 DEF SummaryDone
    <3>2. DOMAIN job' \subseteq DOMAIN job /\ \A k \in DOMAIN job' : job'[k] = job[k]
      BY <3>1 DEF WithoutKeys
    <3>3. current => h.read = SourceOf(c)
      BY <2>1 DEF Handlers, Answers
    <3> HIDE DEF c, current
    <3> QED BY <3>1, <3>2, <3>3
  <2>2. CASE ~ OwnsClaim(h)
    BY <2>2 DEF SummaryDone
  <2> QED BY <2>1, <2>2
<1>4. \A c \in DOMAIN summary : summary[c] = [version |-> summary[c].version, ready |-> summary[c].ready,
                                              read |-> summary[c].read]
        /\ summary[c].version \in Nat /\ summary[c].ready \in BOOLEAN
  BY DEF Tables
<1>5. \A c \in DOMAIN summary :
         \/ summary'[c] = summary[c]
         \/ /\ summary'[c] = [version |-> summary[c].version, ready |-> TRUE, read |-> h.read]
            /\ h.read = SourceOf(c)
  <2> SUFFICES ASSUME NEW c \in DOMAIN summary, summary'[c] # summary[c]
               PROVE  /\ summary'[c] = [version |-> summary[c].version, ready |-> TRUE, read |-> h.read]
                      /\ h.read = SourceOf(c)
    OBVIOUS
  <2> DEFINE v == summary[c].version
             y == summary[c].ready
             z == summary[c].read
             w == TRUE
  <2>1. summary[c] = [version |-> v, ready |-> y, read |-> z]
    BY <1>4
  <2>2. summary'[c] = [summary[c] EXCEPT !.ready = w, !.read = h.read] /\ h.read = SourceOf(c)
    BY <1>3
  <2> HIDE DEF v, y, z, w
  <2>3. summary'[c] = [[version |-> v, ready |-> y, read |-> z] EXCEPT !.ready = w, !.read = h.read]
    BY <2>1, <2>2
  <2>4. summary'[c] = [version |-> v, ready |-> w, read |-> h.read]
    BY <2>3, ReadyRow
  <2> QED BY <2>2, <2>4 DEF v, w
<1>6. \A c \in DOMAIN summary :
         /\ summary'[c].version = summary[c].version
         /\ summary'[c] = summary[c] \/ (summary'[c].ready /\ summary'[c].read = SourceOf(c))
         /\ summary'[c] = [version |-> summary'[c].version, ready |-> summary'[c].ready, read |-> summary'[c].read]
         /\ summary'[c].ready \in BOOLEAN
  <2> SUFFICES ASSUME NEW c \in DOMAIN summary
               PROVE  /\ summary'[c].version = summary[c].version
                      /\ summary'[c] = summary[c] \/ (summary'[c].ready /\ summary'[c].read = SourceOf(c))
                      /\ summary'[c] = [version |-> summary'[c].version, ready |-> summary'[c].ready, read |-> summary'[c].read]
                      /\ summary'[c].ready \in BOOLEAN
    OBVIOUS
  <2>1. CASE summary'[c] = summary[c]
    BY <1>4, <2>1
  <2>2. CASE summary'[c] # summary[c]
    <3>1. summary'[c] = [version |-> summary[c].version, ready |-> TRUE, read |-> h.read] /\ h.read = SourceOf(c)
      BY <1>5, <2>2
    <3> QED BY <3>1
  <2> QED BY <2>1, <2>2
<1>7. Tables'
  <2>1. \A c \in DOMAIN summary' : /\ summary'[c] = [version |-> summary'[c].version, ready |-> summary'[c].ready,
                                                     read |-> summary'[c].read]
                                   /\ summary'[c].version \in Nat /\ summary'[c].ready \in BOOLEAN
    <3>1. \A c \in DOMAIN summary : summary[c].version \in Nat
      BY <1>4
    <3> QED BY <1>3, <1>6, <3>1
  <2>2. \A k \in DOMAIN job' : k \in 1..count.items /\ job'[k] \in Job
    BY <1>3 DEF Tables
  <2>3. \A g \in handler' : g.item \in 1..count.items /\ g.attempt \in Nat
    BY <1>1 DEF Tables
  <2> QED BY <1>1, <2>1, <2>2, <2>3 DEF Tables
<1>8. Placed'
  BY <1>1 DEF Placed
<1>9. Versions'
  <2>1. \A c \in DOMAIN summary' : Full(c)'
    BY <1>1, <1>3 DEF Versions, Full
  <2>2. \A k \in DOMAIN job' : k \in DOMAIN job /\ job'[k] = job[k] /\ Full(job[k].chunk)
    BY <1>3 DEF Versions
  <2>3. \A k \in DOMAIN job' : job[k].chunk \in DOMAIN summary => job[k].version <= summary[job[k].chunk].version
    BY <2>2 DEF Versions
  <2>4. \A k \in DOMAIN job' : job'[k].chunk \in DOMAIN summary' => job'[k].version <= summary'[job'[k].chunk].version
    <3> SUFFICES ASSUME NEW k \in DOMAIN job', job'[k].chunk \in DOMAIN summary'
                 PROVE  job'[k].version <= summary'[job'[k].chunk].version
      OBVIOUS
    <3>1. job'[k] = job[k] /\ job[k].chunk \in DOMAIN summary
      BY <1>3, <2>2
    <3>2. summary'[job[k].chunk].version = summary[job[k].chunk].version
      BY <1>6, <3>1
    <3> QED BY <2>3, <3>1, <3>2
  <2> QED BY <1>1, <2>1, <2>2, <2>4 DEF Versions, Full
<1>10. Handlers'
  <2>1. \A g \in handler' : g.item \in DOMAIN job' => g.attempt <= job'[g.item].attempt
    BY <1>1, <1>3 DEF Handlers
  <2>2. ASSUME NEW g \in handler' PROVE Answers(g)'
    <3> SUFFICES ASSUME NEW c \in DOMAIN summary, OwnsClaim(g)', job'[g.item].chunk = c,
                        job'[g.item].version = summary'[c].version
                 PROVE  g.read = SourceOf(c)
      BY <1>2, <1>3 DEF Answers
    <3>1. OwnsClaim(g) /\ job[g.item].chunk = c /\ job[g.item].version = summary[c].version
      BY <1>3, <1>6 DEF OwnsClaim
    <3> QED BY <1>1, <3>1 DEF Handlers, Answers
  <2>3. SummaryIsCurrent'
    BY <1>2, <1>3, <1>6 DEF Handlers, SummaryIsCurrent
  <2>4. \A c \in DOMAIN summary' : ~ summary'[c].ready => summary'[c].read = {}
    BY <1>3, <1>6 DEF Handlers
  <2> QED BY <2>1, <2>2, <2>3, <2>4 DEF Handlers
<1> QED BY <1>1, <1>7, <1>8, <1>9, <1>10, UntouchedRecord

LEMMA LapseKeepsRecord ==
  ASSUME RecordInv, NEW i \in DOMAIN job, SummaryLapse(i)
  PROVE  RecordInv' /\ \A x : RolledBack(x)' <=> RolledBack(x)
<1> USE DEF RecordInv
<1>1. /\ job' = [job EXCEPT ![i].status = "queued"]
      /\ count' = [count EXCEPT !.lapses = @ + 1]
      /\ UNCHANGED <<event, turn, chunk, summary, handler>>
  BY DEF SummaryLapse
<1>2. \A k \in DOMAIN job : job[k] \in Job /\ k \in 1..count.items
  BY DEF Tables
<1>3. /\ DOMAIN job' = DOMAIN job
      /\ \A k \in DOMAIN job : /\ job'[k] \in Job /\ job'[k].chunk = job[k].chunk
                               /\ job'[k].version = job[k].version /\ job'[k].attempt = job[k].attempt
                               /\ k # i => job'[k] = job[k]
                               /\ job'[i].status = "queued"
  BY <1>1, <1>2 DEF Job
<1>4. count' \in Counts /\ count'.items = count.items
  <2>1. count \in [{"rollbacks", "mutations", "lapses", "compacts", "items"} -> Nat]
    BY DEF Tables, Counts
  <2>2. count["lapses"] + 1 \in Nat
    BY <2>1
  <2> QED BY <1>1, <2>1, <2>2 DEF Counts
<1>5. \A c : SourceOf(c)' = SourceOf(c)
  BY <1>1, UntouchedRecord
<1>6. Tables'
  BY <1>1, <1>2, <1>3, <1>4 DEF Tables
<1>7. Placed'
  BY <1>1 DEF Placed
<1>8. Versions'
  BY <1>1, <1>3 DEF Versions, Full
<1>9. Handlers'
  <2>1. \A h \in handler' : h.item \in DOMAIN job' => h.attempt <= job'[h.item].attempt
    BY <1>1, <1>3 DEF Handlers
  <2>2. ASSUME NEW h \in handler' PROVE Answers(h)'
    <3> SUFFICES ASSUME NEW c \in DOMAIN summary, OwnsClaim(h)', job'[h.item].chunk = c,
                        job'[h.item].version = summary[c].version
                 PROVE  h.read = SourceOf(c)
      BY <1>1, <1>5 DEF Answers
    <3>1. h.item \in DOMAIN job /\ job'[h.item] = job[h.item]
      BY <1>3 DEF OwnsClaim
    <3>2. OwnsClaim(h)
      BY <3>1 DEF OwnsClaim
    <3> QED BY <1>1, <3>1, <3>2 DEF Handlers, Answers
  <2>3. SummaryIsCurrent' /\ \A c \in DOMAIN summary' : ~ summary'[c].ready => summary'[c].read = {}
    BY <1>1, <1>5 DEF Handlers, SummaryIsCurrent
  <2> QED BY <2>1, <2>2, <2>3 DEF Handlers
<1> QED BY <1>1, <1>6, <1>7, <1>8, <1>9, UntouchedRecord

\* A dropped chunk takes its rows and items with it.
LEMMA DropKeepsRecord ==
  ASSUME RecordInv, NEW found, DropEmptyReadableChunks(found), UNCHANGED <<event, turn, handler, count>>
  PROVE  RecordInv' /\ \A x : RolledBack(x)' <=> RolledBack(x)
<1> USE DEF RecordInv
<1> DEFINE dropped == {c \in found \cap EmptyChunks : ~HasClaimedWork(c)}
<1>1. /\ chunk' = WithoutKeys(chunk, dropped)
      /\ summary' = WithoutKeys(summary, dropped)
      /\ job' = WithoutKeys(job, {i \in DOMAIN job : job[i].chunk \in dropped})
  BY DEF DropEmptyReadableChunks
<1> HIDE DEF dropped
<1>2. /\ \A c : c \in DOMAIN chunk' <=> c \in DOMAIN chunk /\ c \notin dropped
      /\ \A c \in DOMAIN chunk' : chunk'[c] = chunk[c]
      /\ \A c : c \in DOMAIN summary' <=> c \in DOMAIN summary /\ c \notin dropped
      /\ \A c \in DOMAIN summary' : summary'[c] = summary[c]
      /\ \A i : i \in DOMAIN job' <=> i \in DOMAIN job /\ job[i].chunk \notin dropped
      /\ \A i \in DOMAIN job' : job'[i] = job[i]
  BY <1>1 DEF WithoutKeys
<1>3. \A c \in DOMAIN chunk' : SourceOf(c)' = SourceOf(c)
  <2> SUFFICES ASSUME NEW c \in DOMAIN chunk' PROVE SourceOf(c)' = SourceOf(c)
    OBVIOUS
  <2>1. chunk'[c].members = chunk[c].members
    BY <1>2
  <2> QED BY <2>1, UntouchedRecord
<1>4. \A c \in DOMAIN summary' : c \in DOMAIN chunk' /\ Full(c)'
  BY <1>2 DEF Versions, Full
<1>5. Tables'
  <2>1. \E b \in Nat : DOMAIN chunk' \subseteq 1..b
    BY <1>2 DEF Tables
  <2>2. \A c \in DOMAIN chunk' : chunk'[c] \in ChunkRow
    BY <1>2 DEF Tables
  <2>3. \A i \in DOMAIN job' : i \in 1..count.items /\ job'[i] \in Job
    BY <1>2 DEF Tables
  <2>4. \A c \in DOMAIN summary' : /\ summary'[c] = [version |-> summary'[c].version, ready |-> summary'[c].ready,
                                                     read |-> summary'[c].read]
                                   /\ summary'[c].version \in Nat /\ summary'[c].ready \in BOOLEAN
    BY <1>2 DEF Tables
  <2> QED BY <2>1, <2>2, <2>3, <2>4 DEF Tables
<1>6. Placed'
  BY <1>2 DEF Placed
<1>7. Versions'
  BY <1>2, <1>4 DEF Versions, Full
<1>8. Handlers'
  <2>1. \A h \in handler' : h.item \in DOMAIN job' => h.attempt <= job'[h.item].attempt
    BY <1>2 DEF Handlers
  <2>2. ASSUME NEW h \in handler' PROVE Answers(h)'
    <3> SUFFICES ASSUME NEW c \in DOMAIN summary', OwnsClaim(h)', job'[h.item].chunk = c,
                        job'[h.item].version = summary'[c].version
                 PROVE  h.read = SourceOf(c)
      BY <1>3, <1>4 DEF Answers
    <3>1. h.item \in DOMAIN job /\ job'[h.item] = job[h.item] /\ OwnsClaim(h)
      BY <1>2 DEF OwnsClaim
    <3>2. c \in DOMAIN summary /\ summary'[c] = summary[c]
      BY <1>2
    <3> QED BY <3>1, <3>2 DEF Handlers, Answers
  <2>3. SummaryIsCurrent' /\ \A c \in DOMAIN summary' : ~ summary'[c].ready => summary'[c].read = {}
    BY <1>2, <1>3, <1>4 DEF Handlers, SummaryIsCurrent
  <2> QED BY <2>1, <2>2, <2>3 DEF Handlers
<1> QED BY <1>5, <1>6, <1>7, <1>8, UntouchedRecord

-----------------------------------------------------------------------------
(* The compact point is a place of the record.                             *)

LEMMA MaxNat ==
  ASSUME NEW b \in Nat, NEW S \in SUBSET (0..b), NEW d, S # {}
  PROVE  MaxOf(S, d) \in S /\ MaxOf(S, d) \in 0..b
<1>1. 0 \in Int /\ b \in Int
  OBVIOUS
<1>2. MaxOf(S, d) \in S
  BY <1>1, MaxIsIn
<1> QED BY <1>2

LEMMA RunLast ==
  ASSUME NEW b \in Nat, NEW S \in SUBSET (0..b), NEW m \in Seq(S),
         NEW i \in 1..Len(m), NEW j \in i..Len(m)
  PROVE  StepOf(SubSeq(m, i, j)).last \in Nat
<1> DEFINE r == SubSeq(m, i, j)
<1>1. Len(m) \in Nat /\ \A k \in 1..Len(m) : m[k] \in Nat
  <2>1. Len(m) \in Nat /\ \A k \in 1..Len(m) : m[k] \in S
    BY LenProperties, ElementOfSeq
  <2>2. S \subseteq Nat
    OBVIOUS
  <2> QED BY <2>1, <2>2
<1>2. i \in Int /\ j \in Int /\ i <= j /\ j <= Len(m) /\ 1 <= i
  BY <1>1
<1>3. Len(r) = j - i + 1 /\ \A k \in 1..(j - i + 1) : r[k] = m[i + k - 1]
  BY <1>1, <1>2, SubSeqProperties
<1>4. j - i + 1 \in 1..(j - i + 1) /\ i + (j - i + 1) - 1 = j
  BY <1>2
<1>5. r[Len(r)] = m[j] /\ j \in 1..Len(m)
  <2>1. r[j - i + 1] = m[i + (j - i + 1) - 1]
    BY <1>3, <1>4
  <2> QED BY <1>1, <1>2, <1>3, <1>4, <2>1
<1>6. StepOf(r).last = r[Len(r)]
  BY DEF StepOf
<1> QED BY <1>1, <1>5, <1>6

\* Every run of steps ends at a message.
LEMMA StepRunsAre ==
  ASSUME Tables, NEW t
  PROVE  /\ Len(StepRuns(t)) \in Nat /\ DOMAIN StepRuns(t) = 1..Len(StepRuns(t))
         /\ \A n \in 1..Len(StepRuns(t)) : StepRuns(t)[n].last \in Nat
<1> DEFINE S == {o \in MembersOf(t) : event[o].kind \in StepKinds}
           m == Ascending(S)
           I == {i \in DOMAIN m : i = 1 \/ event[m[i]].step # event[m[i - 1]].step}
           starts == Ascending(I)
           end(n) == IF n = Len(starts) THEN Len(m) ELSE starts[n + 1] - 1
           steps == [n \in DOMAIN starts |-> StepOf(SubSeq(m, starts[n], end(n)))]
<1>1. Len(event) \in Nat /\ S \in SUBSET (0..Len(event))
  BY EventsAre DEF Tables, MembersOf, Live
<1>2. StepRuns(t) = steps
  BY DEF StepRuns, RunsOf, RunsAt, RunStarts, StepMembers
<1> HIDE DEF S
<1>3. m \in Seq(S) /\ Len(m) \in Nat /\ DOMAIN m = 1..Len(m)
  BY <1>1, AscendingIs
<1> HIDE DEF m
<1>4. I \in SUBSET (0..Len(m)) /\ \A i \in I : i \in 1..Len(m)
  BY <1>3
<1> HIDE DEF I
<1>5. /\ Len(starts) \in Nat /\ DOMAIN starts = 1..Len(starts)
      /\ \A n \in 1..Len(starts) : starts[n] \in I
      /\ \A n, k \in 1..Len(starts) : n < k => starts[n] < starts[k]
  BY <1>3, <1>4, AscendingIs
<1> HIDE DEF starts
<1>6. ASSUME NEW n \in 1..Len(starts) PROVE steps[n].last \in Nat
  <2>1. starts[n] \in 1..Len(m)
    BY <1>4, <1>5
  <2>2. end(n) \in starts[n]..Len(m)
    <3>1. CASE n = Len(starts)
      BY <1>3, <2>1, <3>1
    <3>2. CASE n # Len(starts)
      <4>0. n \in Nat /\ n <= Len(starts) /\ n >= 1 /\ Len(starts) \in Nat
        BY <1>5
      <4>1. n + 1 \in 1..Len(starts) /\ n < n + 1
        BY <3>2, <4>0
      <4>2. starts[n + 1] \in 1..Len(m) /\ starts[n] < starts[n + 1]
        BY <1>4, <1>5, <4>1
      <4> QED BY <1>3, <2>1, <3>2, <4>2
    <3> QED BY <3>1, <3>2
  <2> DEFINE i == starts[n]
             j == end(n)
  <2>3. steps[n] = StepOf(SubSeq(m, i, j))
    BY <1>5
  <2>4. i \in 1..Len(m) /\ j \in i..Len(m)
    BY <2>1, <2>2
  <2> HIDE DEF i, j
  <2> QED BY <1>1, <1>3, <2>3, <2>4, RunLast
<1>7. DOMAIN steps = 1..Len(starts) /\ Len(steps) = Len(starts)
  BY <1>5
<1> HIDE DEF steps
<1> QED BY <1>2, <1>5, <1>6, <1>7

\* Sequences of steps as the walk reads them.
Steps(steps) ==
  /\ Len(steps) \in Nat /\ DOMAIN steps = 1..Len(steps)
  /\ \A n \in 1..Len(steps) : steps[n].last \in Nat

LEMMA OrdinalIs ==
  ASSUME NEW steps, Steps(steps), NEW index
  PROVE  OrdinalThrough(steps, index) \in 0..Len(steps)
<1> DEFINE N == {n \in DOMAIN steps : steps[n].index = index /\ \A k \in 1..n - 1 : steps[k].index # index}
           len == Len(steps)
<1>1. N \in SUBSET (0..len) /\ len \in Nat
  BY DEF Steps
<1>2. OrdinalThrough(steps, index) = MaxOf(N, 0)
  BY DEF OrdinalThrough
<1> HIDE DEF N, len
<1>3. CASE N = {}
  BY <1>1, <1>2, <1>3 DEF MaxOf, len
<1>4. CASE N # {}
  <2>1. MaxOf(N, 0) \in N
    BY <1>1, <1>4, MaxNat
  <2>2. MaxOf(N, 0) \in 0..len
    BY <1>1, <2>1
  <2> QED BY <1>2, <2>2 DEF len
<1> QED BY <1>3, <1>4

LEMMA LastEdgeIs ==
  ASSUME NEW steps, Steps(steps)
  PROVE  LastEdge(steps) \in 0..Len(steps)
<1> DEFINE N == {n \in 0..Len(steps) : \A k \in 1..n : steps[k].complete}
           len == Len(steps)
           complete == MaxOf(N, 0)
<1>1. N \in SUBSET (0..len) /\ len \in Nat
  BY DEF Steps
<1>2. LastEdge(steps) = IF complete >= 2 THEN complete - 1 ELSE 0
  BY DEF LastEdge
<1> HIDE DEF N
<1>3. complete \in 0..len
  <2> HIDE DEF len
  <2>1. CASE N = {}
    BY <1>1, <2>1 DEF MaxOf
  <2>2. CASE N # {}
    <3>1. MaxOf(N, 0) \in N
      BY <1>1, <2>2, MaxNat
    <3> QED BY <1>1, <3>1
  <2> QED BY <2>1, <2>2
<1> HIDE DEF complete
<1> QED BY <1>1, <1>2, <1>3

LEMMA ComputedEdgeIs ==
  ASSUME NEW t, NEW steps, NEW kMax \in Nat, NEW crossing
  PROVE  ComputedEdge(t, steps, kMax, crossing) \in 0..kMax
<1> DEFINE fits == {k \in 1..kMax : TokensAfter(steps[k].last) <= Profile.full}
           N == {k \in fits : \A j \in fits : k <= j}
<1>1. N \in SUBSET (0..kMax)
  OBVIOUS
<1>2. ComputedEdge(t, steps, kMax, crossing) =
        IF crossing = 0 \/ event[crossing].turn # t THEN 0 ELSE MaxOf(N, kMax)
  BY DEF ComputedEdge
<1> HIDE DEF N
<1>3. MaxOf(N, kMax) \in 0..kMax
  <2>1. CASE N = {}
    BY <2>1 DEF MaxOf
  <2>2. CASE N # {}
    <3>1. MaxOf(N, kMax) \in N
      BY <1>1, <2>2, MaxNat
    <3> QED BY <1>1, <3>1
  <2> QED BY <2>1, <2>2
<1> QED BY <1>2, <1>3

LEMMA OpenSplitPoint ==
  ASSUME Tables, NEW crossing
  PROVE  OpenSplit(crossing).point \in Nat
<1> DEFINE t == OpenTurn
           steps == StepRuns(t)
           prior == IF Installed.turn = OpenTurn THEN Installed.ranges ELSE <<>>
           priorK == IF prior = <<>> THEN 0 ELSE OrdinalThrough(steps, prior[Len(prior)].to)
           kMax == IF Splittable(steps) THEN LastEdge(steps) ELSE priorK
           k == Greater(ComputedEdge(t, steps, kMax, crossing), priorK)
<1>1. OpenSplit(crossing) = PartsThrough(t, steps, prior, priorK, k)
  BY DEF OpenSplit, SplitFrom, SplitOf
<1> HIDE DEF t, prior
<1>2. Steps(steps)
  BY StepRunsAre DEF Steps
<1> HIDE DEF steps
<1>3. priorK \in 0..Len(steps) /\ Len(steps) \in Nat
  BY <1>2, OrdinalIs DEF Steps
<1> HIDE DEF priorK
<1>4. kMax \in 0..Len(steps) /\ kMax \in Nat
  BY <1>2, <1>3, LastEdgeIs
<1> HIDE DEF kMax
<1>5. ComputedEdge(t, steps, kMax, crossing) \in 0..kMax
  BY <1>4, ComputedEdgeIs
<1>6. k \in 0..Len(steps)
  BY <1>3, <1>4, <1>5 DEF Greater
<1> HIDE DEF k
<1>7. CASE k = 0
  BY <1>1, <1>7 DEF PartsThrough
<1>8. CASE k # 0
  <2>1. k \in 1..Len(steps)
    BY <1>3, <1>6, <1>8
  <2>2. OpenSplit(crossing).point = steps[k].last
    BY <1>1, <1>8 DEF PartsThrough
  <2> QED BY <1>2, <2>1, <2>2 DEF Steps
<1> QED BY <1>7, <1>8

LEMMA PreviousCloseIs ==
  ASSUME Tables, NEW t
  PROVE  PreviousClose(t) \in Nat
<1> DEFINE before == {u \in ClosedTurns : u < t}
           len == Len(turn)
<1>1. before \in SUBSET (0..len) /\ before \subseteq 1..len /\ len \in Nat /\ \A u \in 1..len : turn[u].closed \in Nat
  BY TurnsAre DEF Tables, ClosedTurns, TurnRow
<1>2. PreviousClose(t) = IF before = {} THEN 0 ELSE turn[MaxOf(before, 0)].closed
  BY DEF PreviousClose
<1> HIDE DEF before, len
<1>3. CASE before # {}
  <2>1. MaxOf(before, 0) \in before
    BY <1>1, <1>3, MaxNat
  <2> QED BY <1>1, <1>2, <1>3, <2>1
<1> QED BY <1>2, <1>3

LEMMA SplitPoint ==
  ASSUME RecordInv
  PROVE  SplitAt(Crossing).point \in Nat
<1> USE DEF RecordInv
<1> DEFINE c == Crossing
<1>1. OpenSplit(c).point \in Nat
  BY OpenSplitPoint
<1>2. InstalledEdge \in Nat
  <2> DEFINE steps == StepRuns(Installed.turn)
             n == OrdinalThrough(steps, Installed.ranges[Len(Installed.ranges)].to)
  <2>1. InstalledEdge = IF n = 0 THEN 0 ELSE steps[n].last
    BY DEF InstalledEdge, EdgeOf
  <2>2. Steps(steps)
    BY StepRunsAre DEF Steps
  <2> HIDE DEF steps
  <2>3. n \in 0..Len(steps)
    BY <2>2, OrdinalIs
  <2> HIDE DEF n
  <2> QED BY <2>1, <2>2, <2>3 DEF Steps
<1>3. c # 0 => SnapCompactPoint(c) \in Nat
  <2> SUFFICES ASSUME c # 0 PROVE SnapCompactPoint(c) \in Nat
    OBVIOUS
  <2> DEFINE O == {o \in Live : TokensAfter(o - 1) >= Profile.full}
             len == Len(event)
  <2>1. O \in SUBSET (0..len) /\ len \in Nat /\ O \subseteq Live
    BY EventsAre DEF Tables, Live
  <2>2. c = MaxOf(O, 0)
    BY DEF Crossing
  <2> HIDE DEF c, O, len
  <2>3. O # {}
    BY <2>2 DEF MaxOf
  <2>4. c \in Live
    BY <2>1, <2>2, <2>3, MaxNat
  <2>5. event[c].turn \in 1..Len(turn) /\ turn[event[c].turn].closed \in Nat
    <3>1. c \in 1..Len(event) /\ event[c].turn \in Nat /\ event[c].turn >= 1 /\ event[c].turn <= Len(turn)
      BY <2>4, EventsAre DEF Tables, Turns, Live, Event
    <3>2. \A u \in 1..Len(turn) : turn[u].closed \in Nat
      BY TurnsAre DEF Tables, TurnRow
    <3>3. event[c].turn \in 1..Len(turn)
      BY <3>1, TurnsAre DEF Tables
    <3> QED BY <3>2, <3>3
  <2>6. SnapCompactPoint(c) \in {PreviousClose(event[c].turn), turn[event[c].turn].closed}
    BY DEF SnapCompactPoint
  <2> QED BY <2>5, <2>6, PreviousCloseIs
<1> HIDE DEF c
<1>4. SplitElse(OpenSplit(c), c).point \in Nat
  BY <1>1, <1>2, <1>3 DEF SplitElse
<1> QED BY <1>4 DEF SplitAt, c

LEMMA WalkPoint ==
  ASSUME RecordInv
  PROVE  Walk.point \in Nat
<1> DEFINE s == SplitAt(Crossing)
           newest == MaxOf(ClosedTurns, 0)
           settling == IF Settling THEN {Installed.turn} ELSE {}
<1>1. s.point \in Nat
  BY SplitPoint
<1>2. PreviousClose(newest) \in Nat
  BY PreviousCloseIs DEF RecordInv
<1>3. Walk.point = Protect(s, newest, settling).point
  BY DEF Walk, WalkFrom, Placement
<1> HIDE DEF s, newest, settling
<1>4. Protect(s, newest, settling).point \in {s.point, PreviousClose(newest)}
  BY DEF Protect
<1> QED BY <1>1, <1>2, <1>3, <1>4

-----------------------------------------------------------------------------
(* The view, and every step.                                               *)

\* No step of the record alone rolls anything back.
LEMMA RecordNextKeeps ==
  ASSUME RecordInv, RecordNext
  PROVE  RecordInv' /\ \A x : RolledBack(x)' <=> RolledBack(x)
<1>1. CASE TurnEnd \/ UserPrompt \/ \E kind \in StepKinds : Message(kind)
  <2>1. PICK e : Joins(e)
    BY <1>1, IntakeJoins
  <2> QED BY <2>1, JoinKeepsRecord
<1>2. CASE \E o \in DOMAIN event : EditMessage(o) \/ RemoveMessage(o)
  BY <1>2, EditKeepsRecord, RemoveKeepsRecord
<1>3. CASE \E t \in DOMAIN turn : TurnDerived(t)
  BY <1>3, DerivedKeepsRecord
<1>4. CASE \E i \in DOMAIN job : SummaryClaim(i) \/ SummaryLapse(i)
  BY <1>4, ClaimKeepsRecord, LapseKeepsRecord
<1>5. CASE \E h \in handler : SummaryDone(h)
  BY <1>5, DoneKeepsRecord
<1> QED BY <1>1, <1>2, <1>3, <1>4, <1>5 DEF RecordNext

\* Steps that leave the record alone, but perhaps for a bound.
LEMMA ViewStepKeepsRecord ==
  ASSUME RecordInv, UNCHANGED <<event, turn, chunk, summary, job, handler>>,
         count' = count \/ count' = [count EXCEPT !.compacts = @ + 1]
  PROVE  RecordInv' /\ \A x : RolledBack(x)' <=> RolledBack(x)
<1> USE DEF RecordInv
<1>1. count' \in Counts /\ count'.items = count.items
  <2>1. count \in [{"rollbacks", "mutations", "lapses", "compacts", "items"} -> Nat]
    BY DEF Tables, Counts
  <2>2. count["compacts"] + 1 \in Nat
    BY <2>1
  <2> QED BY <2>1, <2>2 DEF Counts
<1>2. \A c : SourceOf(c)' = SourceOf(c)
  BY UntouchedRecord
<1>3. Tables'
  BY <1>1 DEF Tables
<1>4. Placed' /\ Versions'
  BY DEF Placed, Versions, Full
<1>5. Handlers'
  BY <1>2 DEF Handlers, Answers, OwnsClaim, SummaryIsCurrent
<1> QED BY <1>3, <1>4, <1>5, UntouchedRecord

LEMMA InstallKeeps ==
  ASSUME ThreadInv, NEW walk, walk.point \in Nat, NEW found, Install(walk, found), prepared' = {}
  PROVE  ThreadInv'
<1> DEFINE v == [id |-> Len(event), point |-> walk.point, parts |-> walk.parts,
                 entries |-> walk.entries, behind |-> Behind(walk)]
<1>1. /\ DropEmptyReadableChunks(found) /\ view' = {v} /\ boundary' = walk.point
      /\ UNCHANGED <<event, turn, handler, count>>
  BY DEF Install
<1>2. RecordInv' /\ \A x : RolledBack(x)' <=> RolledBack(x)
  BY <1>1, DropKeepsRecord DEF ThreadInv
<1>3. \A o \in v.behind : o \in Nat /\ o <= v.point /\ ~ RolledBack(o)
  <2>1. \A o \in Behind(walk) : o \in Live /\ o <= walk.point
    BY DEF Behind
  <2>2. \A o \in Live : o \in Nat /\ ~ RolledBack(o)
    <3>1. DOMAIN event = 1..Len(event) /\ Live \subseteq DOMAIN event
      BY EventsAre DEF ThreadInv, RecordInv, Tables, Live
    <3> QED BY <3>1 DEF ThreadInv, RecordInv, Hidden
  <2> QED BY <2>1, <2>2
<1>4. v.point \in Nat
  OBVIOUS
<1> HIDE DEF v
<1>5. (\A u, w \in view' : u = w) /\ (\A p, q \in prepared' : p = q)
  BY <1>1
<1>6. Views'
  BY <1>1, <1>2, <1>3, <1>4, <1>5 DEF Views
<1> QED BY <1>2, <1>6 DEF ThreadInv

LEMMA InstallPreparedKeeps ==
  ASSUME ThreadInv, InstallPreparedCompact
  PROVE  ThreadInv'
<1>1. PICK p \in prepared :
        /\ prepared' = {}
        /\ \/ SourceState(p.walk) = p.seen /\ Install(p.walk, p.empty)
           \/ /\ SourceState(p.walk) # p.seen
              /\ \E walk \in {Walk} :
                   IF walk.fails THEN UNCHANGED <<recordVars, view, boundary>> ELSE Install(walk, EmptyChunks)
  BY DEF InstallPreparedCompact
<1> DEFINE found == EmptyChunks
           w == p.walk
           old == p.empty
<1>2. CASE Install(w, old)
  <2>1. w.point \in Nat
    BY DEF ThreadInv, Views
  <2> HIDE DEF w, old
  <2> QED BY <1>1, <1>2, <2>1, InstallKeeps
<1>3. CASE \E walk \in {Walk} : Install(walk, found)
  <2> HIDE DEF found
  <2>1. PICK walk \in {Walk} : Install(walk, found)
    BY <1>3
  <2>2. walk.point \in Nat
    BY WalkPoint DEF ThreadInv
  <2> QED BY <1>1, <2>1, <2>2, InstallKeeps
<1>4. CASE UNCHANGED <<recordVars, view, boundary>>
  <2>1. RecordInv' /\ \A x : RolledBack(x)' <=> RolledBack(x)
    BY <1>4, ViewStepKeepsRecord DEF ThreadInv, recordVars
  <2>2. Views'
    BY <1>1, <1>4, <2>1 DEF ThreadInv, Views
  <2> QED BY <2>1, <2>2 DEF ThreadInv
<1> QED BY <1>1, <1>2, <1>3, <1>4

LEMMA PruneKeeps ==
  ASSUME ThreadInv, NEW target, Prune(target)
  PROVE  ThreadInv'
<1> DEFINE beyond == {o \in Zone : Cardinality({r \in Zone : r >= o}) > target}
           len == Len(event)
<1>1. beyond # {} /\ boundary' = MaxOf(beyond, 0) /\ UNCHANGED <<recordVars, view, prepared>>
  BY DEF Prune
<1>2. beyond \in SUBSET (0..len) /\ len \in Nat
  <2>1. \A o \in Live : o \in 0..len
    BY EventsAre DEF ThreadInv, RecordInv, Tables, Live
  <2>2. \A o \in Zone : o \in Live
    BY DEF Zone
  <2> QED BY <2>1, <2>2, EventsAre DEF ThreadInv, RecordInv, Tables
<1> HIDE DEF beyond, len
<1>3. boundary' \in Nat
  BY <1>1, <1>2, MaxNat
<1>4. RecordInv' /\ \A x : RolledBack(x)' <=> RolledBack(x)
  BY <1>1, ViewStepKeepsRecord DEF ThreadInv, recordVars
<1>5. Views'
  BY <1>1, <1>3, <1>4 DEF ThreadInv, Views
<1> QED BY <1>4, <1>5 DEF ThreadInv

LEMMA PrepareKeeps ==
  ASSUME ThreadInv, PrepareCompact
  PROVE  ThreadInv'
<1> DEFINE W == Walk
<1>1. /\ prepared' = {PreparedOf(walk) : walk \in {w \in {W} : ~w.fails}}
      /\ count' = [count EXCEPT !.compacts = @ + 1]
      /\ UNCHANGED <<event, turn, chunk, summary, job, handler, view, boundary>>
  BY DEF PrepareCompact
<1>2. W.point \in Nat
  BY WalkPoint DEF ThreadInv
<1> HIDE DEF W
<1>3. prepared' \subseteq {PreparedOf(W)}
  BY <1>1
<1>4. PreparedOf(W).walk = W
  BY DEF PreparedOf
<1>5. (\A p, q \in prepared' : p = q) /\ \A p \in prepared' : p.walk.point \in Nat
  BY <1>2, <1>3, <1>4
<1>6. RecordInv' /\ \A x : RolledBack(x)' <=> RolledBack(x)
  BY <1>1, ViewStepKeepsRecord DEF ThreadInv
<1>7. Views'
  BY <1>1, <1>5, <1>6 DEF ThreadInv, Views
<1> QED BY <1>6, <1>7 DEF ThreadInv

\* A view whose point lies behind the anchor has nothing the rollback hides.
LEMMA RollbackKeeps ==
  ASSUME ThreadInv, NEW keep, RollbackView(keep)
  PROVE  ThreadInv'
<1>1. Rollback(keep) /\ view' = StoredViewThrough(keep) /\ UNCHANGED <<boundary, prepared>>
  BY DEF RollbackView
<1>2. RecordInv' /\ keep \in Nat /\ \A x : RolledBack(x)' => RolledBack(x) \/ keep < x
  BY <1>1, RollbackKeepsRecord DEF ThreadInv
<1>3. \A v \in view' : v \in view /\ v.point <= keep
  BY <1>1 DEF StoredViewThrough
<1>4. \A v, w \in view' : v = w
  BY <1>3 DEF ThreadInv, Views
<1>5. \A v \in view' : v.point \in Nat /\ \A o \in v.behind : o \in Nat /\ o <= v.point /\ ~ RolledBack(o)'
  <2> SUFFICES ASSUME NEW v \in view', NEW o \in v.behind PROVE ~ RolledBack(o)'
    BY <1>3 DEF ThreadInv, Views
  <2>1. v.point \in Nat /\ v.point <= keep /\ o \in Nat /\ o <= v.point /\ ~ RolledBack(o)
    BY <1>3 DEF ThreadInv, Views
  <2>2. ~ (keep < o)
    BY <1>2, <2>1
  <2> QED BY <1>2, <2>1, <2>2
<1>6. Views'
  BY <1>1, <1>4, <1>5 DEF ThreadInv, Views
<1> QED BY <1>2, <1>6 DEF ThreadInv

LEMMA InitHolds ==
  ASSUME Init
  PROVE  ThreadInv
<1>1. /\ event = <<>> /\ turn = <<NewTurn>> /\ chunk = [c \in {} |-> 0] /\ handler = {}
      /\ summary = [c \in {} |-> Pending(1)] /\ job = [i \in {} |-> NewJob(0, 1)]
      /\ count = [rollbacks |-> 0, mutations |-> 0, lapses |-> 0, compacts |-> 0, items |-> 0]
      /\ view = {} /\ boundary = 0 /\ prepared = {}
  BY DEF Init, RecordInit
<1>2. DOMAIN event = {} /\ Len(event) = 0 /\ event \in Seq(Event)
  BY <1>1
<1>3. DOMAIN chunk = {} /\ DOMAIN summary = {} /\ DOMAIN job = {}
  BY <1>1
<1>4. /\ NewTurn \in TurnRow /\ NewTurn.status = "open"
  BY DEF NewTurn, TurnRow
<1>5. /\ turn \in Seq(TurnRow) /\ Len(turn) = 1 /\ DOMAIN turn = {1} /\ turn[1] = NewTurn
  BY <1>1, <1>4
<1>6. count \in Counts
  BY <1>1 DEF Counts
<1>7. Tables
  BY <1>1, <1>2, <1>3, <1>5, <1>6 DEF Tables
<1>8. Live = {} /\ \A t : MembersOf(t) = {}
  BY <1>2 DEF Live, MembersOf
<1>9. Turns /\ Prompted
  BY <1>2, <1>4, <1>5, <1>8 DEF Turns, Prompted
<1>10. ClosedTurns = {}
  BY <1>4, <1>5 DEF ClosedTurns
<1>11. Hidden /\ Placed /\ Versions
  BY <1>3, <1>8, <1>10 DEF Hidden, Placed, Versions
<1>12. Handlers
  BY <1>1, <1>3 DEF Handlers, SummaryIsCurrent
<1>13. Views
  BY <1>1 DEF Views
<1> QED BY <1>7, <1>9, <1>11, <1>12, <1>13 DEF ThreadInv, RecordInv

LEMMA NextKeeps ==
  ASSUME ThreadInv, [Next]_vars
  PROVE  ThreadInv'
<1>1. CASE RecordNext /\ UNCHANGED viewVars
  <2>1. RecordInv' /\ \A x : RolledBack(x)' <=> RolledBack(x)
    BY <1>1, RecordNextKeeps DEF ThreadInv
  <2>2. UNCHANGED <<view, boundary, prepared>>
    BY <1>1 DEF viewVars
  <2>3. Views'
    BY <2>1, <2>2 DEF ThreadInv, Views
  <2> QED BY <2>1, <2>3 DEF ThreadInv
<1>2. CASE \E keep \in 0..MaxEvents : RollbackView(keep)
  BY <1>2, RollbackKeeps
<1>3. CASE PrepareCompact
  BY <1>3, PrepareKeeps
<1>4. CASE StopCompact
  <2>1. prepared' = {} /\ UNCHANGED <<event, turn, chunk, summary, job, handler, count, view, boundary>>
    BY <1>4 DEF StopCompact, recordVars
  <2>2. RecordInv' /\ \A x : RolledBack(x)' <=> RolledBack(x)
    BY <2>1, ViewStepKeepsRecord DEF ThreadInv
  <2>3. Views'
    BY <2>1, <2>2 DEF ThreadInv, Views
  <2> QED BY <2>2, <2>3 DEF ThreadInv
<1>5. CASE InstallPreparedCompact
  BY <1>5, InstallPreparedKeeps
<1>6. CASE \E target \in PruneTargets : Prune(target)
  BY <1>6, PruneKeeps
<1>7. CASE UNCHANGED vars
  <2>1. UNCHANGED <<event, turn, chunk, summary, job, handler, count, view, boundary, prepared>>
    BY <1>7 DEF vars, recordVars, viewVars
  <2>2. RecordInv' /\ \A x : RolledBack(x)' <=> RolledBack(x)
    BY <2>1, ViewStepKeepsRecord DEF ThreadInv
  <2>3. Views'
    BY <2>1, <2>2 DEF ThreadInv, Views
  <2> QED BY <2>2, <2>3 DEF ThreadInv
<1> QED BY <1>1, <1>2, <1>3, <1>4, <1>5, <1>6, <1>7 DEF Next

-----------------------------------------------------------------------------
(* Theorems.                                                               *)

LEMMA OneAtMost ==
  ASSUME NEW S, \A x, y \in S : x = y
  PROVE  Cardinality(S) <= 1
<1>1. CASE S = {}
  BY <1>1, FS_EmptySet
<1>2. CASE S # {}
  <2>1. PICK x : x \in S
    BY <1>2
  <2>2. S = {x}
    BY <2>1
  <2> QED BY <2>2, FS_Singleton
<1> QED BY <1>1, <1>2

\* The record and the view of a thread keep their invariant, whatever the policy,
\* the sizes and the bounds: intake, rollback, edits, removals, the placing of
\* turns, summary handlers that lapse or answer late, and compactions.
THEOREM ThreadInductive == Spec => []ThreadInv
<1>1. Init => ThreadInv
  BY InitHolds
<1>2. ThreadInv /\ [Next]_vars => ThreadInv'
  BY NextKeeps
<1> QED BY <1>1, <1>2, PTL DEF Spec

\* Every table has its type and refers to rows there are; at most one view is
\* installed and one compaction prepared (walk-arrangement.ts, compact.ts).
THEOREM ThreadTyped == Spec => []TypeOK
<1>1. ThreadInv => TypeOK
  <2> SUFFICES ASSUME ThreadInv PROVE TypeOK
    OBVIOUS
  <2>1. RecordInv /\ Views
    BY DEF ThreadInv
  <2>2. DOMAIN event = 1..Len(event) /\ \A o \in 1..Len(event) : event[o] \in Event
    BY <2>1, EventsAre DEF RecordInv, Tables
  <2>3. DOMAIN turn = 1..Len(turn) /\ Len(turn) \in Nat /\ \A t \in 1..Len(turn) : turn[t] \in TurnRow
    BY <2>1, TurnsAre DEF RecordInv, Tables
  <2>4. ASSUME NEW o \in DOMAIN event
        PROVE  event[o] \in [kind : MessageKinds \cup {"turn_end", "rollback"}, turn : 0..Len(turn),
                             step : Int, keep : Nat, state : {"live", "removed", "hidden"}, rev : Nat]
    <3>1. event[o] \in Event /\ event[o].turn \in Nat /\ event[o].turn <= Len(turn)
      BY <2>1, <2>2 DEF RecordInv, Turns, Event
    <3>2. event[o].turn \in 0..Len(turn)
      BY <2>3, <3>1
    <3> QED BY <3>1, <3>2 DEF Event, Kind
  <2>5. \A t \in DOMAIN turn :
          turn[t] \in [status : {"open", "closed"}, closed : Nat, deleted : BOOLEAN, ready : BOOLEAN]
    BY <2>3 DEF TurnRow
  <2>6. DOMAIN summary \subseteq DOMAIN chunk
    BY <2>1 DEF RecordInv, Versions, Full
  <2>7. \A i \in DOMAIN job : job[i].status \in {"queued", "claimed"} /\ job[i].chunk \in DOMAIN chunk
    BY <2>1 DEF RecordInv, Tables, Job, Versions, Full
  <2>8. Cardinality(view) <= 1 /\ Cardinality(prepared) <= 1
    BY <2>1, OneAtMost DEF Views
  <2> QED BY <2>1, <2>4, <2>5, <2>6, <2>7, <2>8 DEF TypeOK, Views
<1> QED BY <1>1, ThreadInductive, PTL

\* What a rollback hid stays hidden and its emptied turns deleted, one turn is
\* open, and no turn is in two chunks, whatever edits, removals, late handlers
\* and compactions come between (applyRollback, chunks.ts placeTurn).
THEOREM RollbackHeld == Spec => []RollbackHolds
<1>1. ThreadInv => RollbackHolds
  <2> SUFFICES ASSUME ThreadInv PROVE RollbackHolds
    OBVIOUS
  <2>1. Cardinality(OpenTurns) = 1
    BY OpenIsLast, FS_Singleton DEF ThreadInv, RecordInv
  <2>2. \A t \in DOMAIN turn : Cardinality(ChunksOf(t)) <= 1
    <3> SUFFICES ASSUME NEW t PROVE Cardinality(ChunksOf(t)) <= 1
      OBVIOUS
    <3>1. \A c, d \in ChunksOf(t) : c = d
      BY DEF ThreadInv, RecordInv, Placed, ChunksOf
    <3> QED BY <3>1, OneAtMost
  <2> QED BY <2>1, <2>2 DEF ThreadInv, RecordInv, Hidden, RollbackHolds
<1> QED BY <1>1, ThreadInductive, PTL

\* A ready summary is made from the messages its chunk holds now: no late answer,
\* repeated claim or reused chunk id leaves a stale one behind (OWNED_CLAIM_SQL
\* and the version of the row guard the write).
THEOREM SummariesAreCurrent == Spec => []SummaryIsCurrent
<1>1. ThreadInv => SummaryIsCurrent
  BY DEF ThreadInv, RecordInv, Handlers
<1> QED BY <1>1, ThreadInductive, PTL

\* No band of the view and no summary speaks of what a rollback hid: the view past
\* the anchor goes with the rollback (dropStoredViewPast), and the cascade clears
\* the summaries.
THEOREM RolledBackUnread == Spec => []RolledBackIsUnread
<1>1. ThreadInv => RolledBackIsUnread
  <2> SUFFICES ASSUME ThreadInv PROVE RolledBackIsUnread
    OBVIOUS
  <2>1. \A v \in view : \A o \in v.behind : ~ RolledBack(o)
    BY DEF ThreadInv, Views
  <2>2. ASSUME NEW c \in DOMAIN summary, NEW s \in summary[c].read PROVE ~ RolledBack(s[1])
    <3>1. summary[c].ready
      BY <2>2 DEF ThreadInv, RecordInv, Handlers
    <3>2. s \in SourceOf(c)
      BY <2>2, <3>1 DEF ThreadInv, RecordInv, Handlers, SummaryIsCurrent
    <3>3. PICK o \in Live : s = <<o, event[o].rev>>
      BY <3>2 DEF SourceOf, MembersOf
    <3> QED BY <3>3 DEF ThreadInv, RecordInv, Hidden
  <2> QED BY <2>1, <2>2 DEF RolledBackIsUnread
<1> QED BY <1>1, ThreadInductive, PTL
=============================================================================
