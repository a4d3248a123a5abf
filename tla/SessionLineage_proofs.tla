------------------------ MODULE SessionLineage_proofs ------------------------
(***************************************************************************)
(* A session belongs to one thread.  While no access to a store failed, the *)
(* registry and the lineage agree on which one, for any number of wrappers, *)
(* threads and sessions, wherever wrappers are killed and whatever other    *)
(* launches, imports, sweeps and handovers come between two accesses.       *)
(***************************************************************************)
EXTENDS SessionLineage, SequenceTheorems, WellFoundedInduction, TLAPS

Entries == [session : Session, previous : Session \cup {None, Foreign}]

Tallies == [faults : Nat, crashes : Nat, launches : Nat, handovers : Nat]

\* A wrapper that has a thread, that writes a swap, and that is asked for a session still.
Placed == {"lease", "current", "reconcile", "settle", "sweep", "known", "pointer", "awaits", "bind",
           "live", "reserved", "written", "mark", "prompt", "advance", "supersede", "observe", "record"}
Swapping == {"reserved", "written", "mark", "prompt", "advance", "supersede", "observe", "record"}
Asking == {"resolve", "lookup", "import", "create", "claim"}

Memory == [pc : Placed \cup Asking \cup {"down"}, session : Session \cup {None},
           thread : Thread \cup {None}, class : {"existing", "fresh", "continued"},
           seen : Session \cup {None, Foreign}, due : Session \cup {None, Foreign},
           todo : Seq(OldRow), next : Session \cup {None}, of : Thread \cup {None},
           captured : BOOLEAN]

\* What a wrapper knows of the launch at each step of it.
MemoryShape(m) ==
  /\ m.pc \in Placed \cup {"import", "claim"} => m.thread \in Thread
  /\ m.pc \in Placed \cup Asking => m.session \in Session
  /\ m.pc \in Swapping => m.next \in Session
  /\ m.pc = "import" => AcceptedOf(m.thread, m.todo) # {}

Shapes ==
  /\ alias \in [Session -> Thread \cup {None}]
  /\ current \in [Thread -> Session \cup {None, Foreign}]
  /\ rows \in Seq(OldRow)
  /\ pending \in [Thread -> Entries \cup {NoPending}]
  /\ wrapper \in [Wrapper -> Memory]
  /\ accepted \in [Thread -> Session \cup {None, Foreign}]
  /\ tally \in Tallies
  /\ \A w \in Wrapper : MemoryShape(wrapper[w])

\* A session is the primary key of its row.
UniqueIn(list) == \A m, n \in 1..Len(list) : list[m].session = list[n].session => m = n
Keys == UniqueIn(rows)

\* The pointer of a thread names a session that the registry binds to the thread.
PointerIsBound == \A t \in Thread : current[t] \in Session => alias[current[t]] = t

\* The pointer that a launch has read names a session that is still bound to its thread.
SeenBound(m) == m.pc = "reconcile" /\ m.seen \in Session => alias[m.seen] = m.thread

InRows(s, t) == \E n \in 1..Len(rows) : rows[n].session = s /\ rows[n].thread = t

\* The thread a session belongs to: the registry says so, or only its row does.
Belongs(s, t) == alias[s] = t \/ (alias[s] = None /\ InRows(s, t))

\* The lineage does not contradict the registry.
RowsAgree == \A s \in Session, t \in Thread : InRows(s, t) => Belongs(s, t)

\* Of a session without a row nothing else is known either, once a launch has looked.
Open(s) == alias[s] # None \/ ~ HasRow(s)

\* What a wrapper holds of a session and a thread is a pair of those.
HeldBelongs(m) ==
  /\ m.pc \in Placed \cup {"import"} => Belongs(m.session, m.thread)
  /\ m.pc \in Swapping => Belongs(m.next, m.thread)
  /\ m.pc = "import" => \A n \in 1..Len(m.todo) : Belongs(m.todo[n].session, m.todo[n].thread)
  /\ m.pc \in {"create", "claim"} => Open(m.session)

\* While nothing failed, every store and every wrapper agree on the thread of a session.
Homes ==
  /\ RowsAgree
  /\ \A t \in Thread : pending[t] # NoPending => Belongs(pending[t].session, t)
  /\ \A w \in Wrapper : HeldBelongs(wrapper[w])

LineageInv ==
  /\ Shapes /\ Keys /\ PointerIsBound
  /\ \A w \in Wrapper : SeenBound(wrapper[w])
  /\ tally.faults = 0 => Homes

-----------------------------------------------------------------------------
(* Sequences and sets of numbers.                                          *)

\* A set of numbers has a least one, so an import always finds its next row.
LEMMA OldestIsThere ==
  ASSUME NEW N \in SUBSET Nat, N # {}
  PROVE  Oldest(N) \in N /\ \A m \in N : Oldest(N) <= m
<1>1. PICK n \in N : \A m \in N : ~ (<<m, n>> \in OpToRel(<, Nat))
  BY NatLessThanWellFounded, WFMin
<1>2. \A m \in N : ~ (m < n)
  BY <1>1, Zenon DEF OpToRel
<1>3. \A m \in N : n <= m
  BY <1>2
<1> QED
  BY <1>3 DEF Oldest

\* A set of places in a list has a greatest one.
LEMMA NewestIsThere ==
  ASSUME NEW k \in Nat, NEW N \in SUBSET (1..k), N # {}
  PROVE  Newest(N) \in N
<1> DEFINE D == {k - n : n \in N}
<1>1. D \in SUBSET Nat /\ D # {}
  <2>1. \A n \in N : k - n \in Nat
    OBVIOUS
  <2>2. D \in SUBSET Nat
    BY <2>1
  <2>3. PICK n : n \in N
    OBVIOUS
  <2>4. k - n \in D
    BY <2>3
  <2> QED
    BY <2>2, <2>4
<1> HIDE DEF D
<1>2. Oldest(D) \in D /\ \A d \in D : Oldest(D) <= d
  BY <1>1, OldestIsThere
<1>3. PICK n \in N : Oldest(D) = k - n
  BY <1>2 DEF D
<1>4. \A m \in N : k - n <= k - m
  BY <1>2, <1>3 DEF D
<1>5. \A m \in N : m <= n
  BY <1>4
<1> QED
  BY <1>5 DEF Newest

\* RemoveAt leaves the other elements, and their order.
LEMMA RemoveAtKeeps ==
  ASSUME NEW S, NEW q \in Seq(S), NEW k \in 1..Len(q)
  PROVE  /\ RemoveAt(q, k) \in Seq(S)
         /\ Len(RemoveAt(q, k)) = Len(q) - 1
         /\ \A n \in 1..Len(q) - 1 : RemoveAt(q, k)[n] = IF n < k THEN q[n] ELSE q[n + 1]
<1> DEFINE a == SubSeq(q, 1, k - 1)
           b == SubSeq(q, k + 1, Len(q))
<1>1. Len(q) \in Nat /\ \A n \in 1..Len(q) : q[n] \in S
  BY LenProperties, ElementOfSeq
<1>2. a \in Seq(S) /\ Len(a) = k - 1 /\ \A n \in 1..k - 1 : a[n] = q[n]
  BY <1>1, SubSeqProperties
<1>3. b \in Seq(S) /\ Len(b) = Len(q) - k /\ \A n \in 1..Len(q) - k : b[n] = q[k + n]
  BY <1>1, SubSeqProperties
<1> HIDE DEF a, b
<1>4. /\ a \o b \in Seq(S) /\ Len(a \o b) = Len(a) + Len(b)
      /\ \A n \in 1..Len(a) + Len(b) : (a \o b)[n] = IF n <= Len(a) THEN a[n] ELSE b[n - Len(a)]
  BY <1>2, <1>3, ConcatProperties
<1>5. RemoveAt(q, k) = a \o b
  BY DEF RemoveAt, a, b
<1>6. ASSUME NEW n \in 1..Len(q) - 1
      PROVE  (a \o b)[n] = IF n < k THEN q[n] ELSE q[n + 1]
  <2>1. CASE n < k
    BY <1>1, <1>2, <1>3, <1>4, <2>1
  <2>2. CASE ~ (n < k)
    <3>1. n - Len(a) = n - (k - 1) /\ n - (k - 1) \in 1..Len(q) - k /\ k + (n - (k - 1)) = n + 1
      BY <1>1, <1>2, <2>2
    <3>2. (a \o b)[n] = b[n - (k - 1)]
      BY <1>1, <1>2, <1>3, <1>4, <2>2, <3>1
    <3> QED
      BY <1>3, <2>2, <3>1, <3>2
  <2> QED
    BY <2>1, <2>2
<1> QED
  BY <1>1, <1>2, <1>3, <1>4, <1>5, <1>6

-----------------------------------------------------------------------------
(* The lineage table.                                                      *)

\* Where the row of a session is.
LEMMA RowIsThere ==
  ASSUME NEW s, HasRow(s)
  PROVE  RowAt(s) \in 1..Len(rows) /\ rows[RowAt(s)].session = s
BY DEF HasRow, RowAt

\* The rows after one was put: that row, and the old ones of other sessions.
PutOf(list, r) ==
  /\ list \in Seq(OldRow)
  /\ UniqueIn(list)
  /\ \E n \in 1..Len(list) : list[n] = r
  /\ \A n \in 1..Len(list) :
       \/ list[n] = r
       \/ (list[n].session # r.session /\ \E m \in 1..Len(rows) : rows[m] = list[n])
  /\ \A m \in 1..Len(rows) : rows[m].session # r.session => \E n \in 1..Len(list) : list[n] = rows[m]

\* Putting a row changes what the rows say of its session only.
LEMMA PutSays ==
  ASSUME rows \in Seq(OldRow), NEW r \in OldRow, PutOf(rows', r), NEW u \in Session, NEW v \in Thread
  PROVE  /\ u = r.session => (InRows(u, v)' <=> v = r.thread)
         /\ u # r.session => (InRows(u, v)' <=> InRows(u, v))
<1>1. /\ rows' \in Seq(OldRow) /\ UniqueIn(rows')
      /\ \E n \in 1..Len(rows') : rows'[n] = r
      /\ \A n \in 1..Len(rows') :
           rows'[n] = r \/ (rows'[n].session # r.session /\ \E m \in 1..Len(rows) : rows[m] = rows'[n])
      /\ \A m \in 1..Len(rows) : rows[m].session # r.session => \E n \in 1..Len(rows') : rows'[n] = rows[m]
  BY DEF PutOf
<1>2. InRows(u, v)' <=> \E n \in 1..Len(rows') : rows'[n].session = u /\ rows'[n].thread = v
  BY DEF InRows
<1>3. CASE u = r.session
  BY <1>1, <1>2, <1>3
<1>4. CASE u # r.session
  <2>1. ASSUME InRows(u, v)' PROVE InRows(u, v)
    <3>1. PICK n \in 1..Len(rows') : rows'[n].session = u /\ rows'[n].thread = v
      BY <1>2, <2>1
    <3>2. PICK m \in 1..Len(rows) : rows[m] = rows'[n]
      BY <1>1, <1>4, <3>1
    <3> QED
      BY <3>1, <3>2 DEF InRows
  <2>2. ASSUME InRows(u, v) PROVE InRows(u, v)'
    <3>1. PICK m \in 1..Len(rows) : rows[m].session = u /\ rows[m].thread = v
      BY <2>2 DEF InRows
    <3>2. PICK n \in 1..Len(rows') : rows'[n] = rows[m]
      BY <1>1, <1>4, <3>1
    <3> QED
      BY <1>2, <3>1, <3>2
  <2> QED
    BY <1>4, <2>1, <2>2
<1> QED
  BY <1>3, <1>4

LEMMA PutIsPut ==
  ASSUME rows \in Seq(OldRow), Keys, NEW r \in OldRow
  PROVE  PutOf(Append(Others(r.session), r), r)
<1> DEFINE s == r.session
           o == Others(s)
           list == Append(o, r)
<1>1. Len(rows) \in Nat /\ \A n \in 1..Len(rows) : rows[n] \in OldRow
  BY LenProperties, ElementOfSeq
<1>2. /\ o \in Seq(OldRow) /\ Len(o) \in Nat
      /\ \A n \in 1..Len(o) : o[n].session # s /\ \E m \in 1..Len(rows) : rows[m] = o[n]
      /\ \A m \in 1..Len(rows) : rows[m].session # s => \E n \in 1..Len(o) : o[n] = rows[m]
      /\ UniqueIn(o)
  <2>1. CASE ~ HasRow(s)
    BY <1>1, <2>1 DEF Others, HasRow, Keys
  <2>2. CASE HasRow(s)
    <3> DEFINE k == RowAt(s)
    <3>1. k \in 1..Len(rows) /\ rows[k].session = s
      BY <2>2, RowIsThere
    <3>2. o = RemoveAt(rows, k)
      BY <2>2 DEF Others
    <3> HIDE DEF o, k, s
    <3>3. /\ o \in Seq(OldRow) /\ Len(o) = Len(rows) - 1
          /\ \A n \in 1..Len(rows) - 1 : o[n] = IF n < k THEN rows[n] ELSE rows[n + 1]
      BY <3>1, <3>2, RemoveAtKeeps
    <3>4. ASSUME NEW n \in 1..Len(o)
          PROVE  o[n].session # s /\ \E m \in 1..Len(rows) : rows[m] = o[n] /\ m = (IF n < k THEN n ELSE n + 1)
      <4> DEFINE m == IF n < k THEN n ELSE n + 1
      <4>1. m \in 1..Len(rows) /\ m # k /\ o[n] = rows[m]
        BY <1>1, <3>1, <3>3
      <4>2. rows[m].session # s
        BY <3>1, <4>1 DEF Keys, UniqueIn
      <4> QED
        BY <4>1, <4>2
    <3>5. ASSUME NEW m \in 1..Len(rows), rows[m].session # s
          PROVE  \E n \in 1..Len(o) : o[n] = rows[m]
      <4>1. CASE m < k
        BY <1>1, <3>1, <3>3, <4>1
      <4>2. CASE m > k
        <5>1. m - 1 \in 1..Len(o) /\ o[m - 1] = rows[m]
          BY <1>1, <3>1, <3>3, <4>2
        <5> QED
          BY <5>1
      <4> QED
        BY <1>1, <3>1, <3>5, <4>1, <4>2
    <3>6. UniqueIn(o)
      <4> SUFFICES ASSUME NEW i \in 1..Len(o), NEW j \in 1..Len(o), o[i].session = o[j].session
                   PROVE  i = j
        BY DEF UniqueIn
      <4>1. /\ (IF i < k THEN i ELSE i + 1) \in 1..Len(rows) /\ o[i] = rows[IF i < k THEN i ELSE i + 1]
            /\ (IF j < k THEN j ELSE j + 1) \in 1..Len(rows) /\ o[j] = rows[IF j < k THEN j ELSE j + 1]
        BY <1>1, <3>1, <3>3
      <4>2. (IF i < k THEN i ELSE i + 1) = (IF j < k THEN j ELSE j + 1)
        BY <4>1 DEF Keys, UniqueIn
      <4> QED
        BY <1>1, <3>1, <3>3, <4>2
    <3>7. Len(o) \in Nat
      BY <1>1, <3>1, <3>3
    <3>8. \A n \in 1..Len(o) : o[n].session # s /\ \E m \in 1..Len(rows) : rows[m] = o[n]
      BY <3>4
    <3>9. \A m \in 1..Len(rows) : rows[m].session # s => \E n \in 1..Len(o) : o[n] = rows[m]
      BY <3>5
    <3> QED
      BY <3>3, <3>6, <3>7, <3>8, <3>9
  <2> QED
    BY <2>1, <2>2
<1> HIDE DEF o
<1>3. /\ list \in Seq(OldRow) /\ Len(list) = Len(o) + 1
      /\ \A n \in 1..Len(o) : list[n] = o[n]
      /\ list[Len(o) + 1] = r
  BY <1>2, AppendProperties
<1> HIDE DEF list
<1>4. \A n \in 1..Len(list) : (n = Len(o) + 1 /\ list[n] = r) \/ (n \in 1..Len(o) /\ list[n] = o[n])
  BY <1>2, <1>3
<1>5. UniqueIn(list)
  BY <1>2, <1>4 DEF UniqueIn
<1>6. Len(o) + 1 \in 1..Len(list) /\ \A n \in 1..Len(o) : n \in 1..Len(list)
  BY <1>2, <1>3
<1>7. \E n \in 1..Len(list) : list[n] = r
  BY <1>3, <1>6
<1>8. \A n \in 1..Len(list) :
         list[n] = r \/ (list[n].session # s /\ \E m \in 1..Len(rows) : rows[m] = list[n])
  BY <1>2, <1>4
<1>9. \A m \in 1..Len(rows) : rows[m].session # s => \E n \in 1..Len(list) : list[n] = rows[m]
  BY <1>2, <1>3, <1>6
<1> QED
  BY <1>3, <1>5, <1>7, <1>8, <1>9 DEF PutOf, list, o

-----------------------------------------------------------------------------
(* What an access to the stores does, as the sessions and threads see it.   *)

\* The rows of session s now name thread t, those of the others what they did.
Names(s, t) == \A u \in Session, v \in Thread :
                 InRows(u, v)' <=> IF u = s THEN v = t ELSE InRows(u, v)

SameNames == \A u \in Session, v \in Thread : InRows(u, v)' <=> InRows(u, v)

LEMMA RowNames ==
  ASSUME rows \in Seq(OldRow)
  PROVE  /\ \A n \in 1..Len(rows) : rows[n] \in OldRow
         /\ \A s : HasRow(s) <=> \E t \in Thread : InRows(s, t)
         /\ Keys => \A s, t, u : InRows(s, t) /\ InRows(s, u) => t = u
<1>1. \A n \in 1..Len(rows) : rows[n] \in OldRow
  BY ElementOfSeq
<1>2. \A s : HasRow(s) <=> \E t \in Thread : InRows(s, t)
  BY <1>1 DEF HasRow, InRows, OldRow
<1>3. Keys => \A s, t, u : InRows(s, t) /\ InRows(s, u) => t = u
  BY DEF Keys, UniqueIn, InRows
<1> QED
  BY <1>1, <1>2, <1>3

LEMMA PutNames ==
  ASSUME rows \in Seq(OldRow), Keys, NEW s \in Session, NEW t \in Thread,
         NEW p \in {"none", "verified", "unknown"}, NEW a \in BOOLEAN, rows' = Put(s, t, p, a)
  PROVE  rows' \in Seq(OldRow) /\ Keys' /\ Names(s, t)
<1> DEFINE r == Row(s, t, p, a)
<1>1. r \in OldRow /\ r.session = s /\ r.thread = t
  BY DEF Row, OldRow
<1>2. rows' = Append(Others(r.session), r)
  BY <1>1 DEF Put
<1> HIDE DEF r
<1>3. PutOf(rows', r)
  BY <1>1, <1>2, PutIsPut
<1>4. \A u \in Session, v \in Thread : InRows(u, v)' <=> IF u = s THEN v = t ELSE InRows(u, v)
  <2> SUFFICES ASSUME NEW u \in Session, NEW v \in Thread
               PROVE  InRows(u, v)' <=> IF u = s THEN v = t ELSE InRows(u, v)
    OBVIOUS
  <2>1. /\ u = r.session => (InRows(u, v)' <=> v = r.thread)
        /\ u # r.session => (InRows(u, v)' <=> InRows(u, v))
    BY <1>1, <1>3, PutSays
  <2>2. CASE u = s
    BY <1>1, <2>1, <2>2
  <2>3. CASE u # s
    BY <1>1, <2>1, <2>3
  <2> QED
    BY <2>2, <2>3
<1> QED
  BY <1>3, <1>4 DEF PutOf, Keys, Names

LEMMA TouchNames ==
  ASSUME rows \in Seq(OldRow), Keys, NEW s \in Session, NEW t \in Thread, rows' = Touch(s, t)
  PROVE  rows' \in Seq(OldRow) /\ Keys' /\ (Names(s, t) \/ SameNames)
<1>1. CASE ~ HasRow(s)
  BY <1>1 DEF Touch, Keys, SameNames, InRows
<1>2. CASE HasRow(s)
  <2> DEFINE r == [RowOf(s) EXCEPT !.thread = t]
  <2>1. RowOf(s) \in OldRow /\ RowOf(s).session = s
    BY <1>2, RowIsThere, RowNames DEF RowOf
  <2>2. r \in OldRow /\ r.session = s /\ r.thread = t
    BY <2>1 DEF OldRow
  <2>3. rows' = Append(Others(r.session), r)
    BY <1>2, <2>2 DEF Touch
  <2> HIDE DEF r
  <2>4. PutOf(rows', r)
    BY <2>2, <2>3, PutIsPut
  <2>5. \A u \in Session, v \in Thread : InRows(u, v)' <=> IF u = s THEN v = t ELSE InRows(u, v)
    <3> SUFFICES ASSUME NEW u \in Session, NEW v \in Thread
                 PROVE  InRows(u, v)' <=> IF u = s THEN v = t ELSE InRows(u, v)
      OBVIOUS
    <3>1. /\ u = r.session => (InRows(u, v)' <=> v = r.thread)
          /\ u # r.session => (InRows(u, v)' <=> InRows(u, v))
      BY <2>2, <2>4, PutSays
    <3>2. CASE u = s
      BY <2>2, <3>1, <3>2
    <3>3. CASE u # s
      BY <2>2, <3>1, <3>3
    <3> QED
      BY <3>2, <3>3
  <2> QED
    BY <2>4, <2>5 DEF PutOf, Keys, Names
<1> QED
  BY <1>1, <1>2

LEMMA MarkNames ==
  ASSUME rows \in Seq(OldRow), Keys, NEW s, rows' = Mark(s)
  PROVE  rows' \in Seq(OldRow) /\ Keys' /\ SameNames
<1>1. Len(rows) \in Nat /\ \A n \in 1..Len(rows) : rows[n] \in OldRow
  BY LenProperties, RowNames
<1> DEFINE e(n) == IF rows[n].session = s THEN [rows[n] EXCEPT !.accepted = TRUE] ELSE rows[n]
<1>2. \A n \in 1..Len(rows) : e(n) \in OldRow /\ e(n).session = rows[n].session /\ e(n).thread = rows[n].thread
  BY <1>1 DEF OldRow
<1>3. rows' = [n \in 1..Len(rows) |-> e(n)]
  BY DEF Mark
<1> HIDE DEF e
<1>4. rows' \in Seq(OldRow) /\ Len(rows') = Len(rows) /\ \A n \in 1..Len(rows) : rows'[n] = e(n)
  BY <1>1, <1>2, <1>3
<1> QED
  BY <1>2, <1>4 DEF Keys, UniqueIn, SameNames, InRows

\* A registration, or none.
Binds(s, t) == UNCHANGED registry \/ RegisterAlias(s, t) \/ RegisterCurrent(s, t)

LEMMA RegistryKeeps ==
  ASSUME Shapes, PointerIsBound, NEW s \in Session, NEW t \in Thread, Binds(s, t)
  PROVE  /\ alias' \in [Session -> Thread \cup {None}]
         /\ current' \in [Thread -> Session \cup {None, Foreign}]
         /\ PointerIsBound'
         /\ \A u \in Session : alias[u] # None => alias'[u] = alias[u]
         /\ \A u \in Session \ {s} : alias'[u] = alias[u]
         /\ alias'[s] = alias[s] \/ (alias[s] = None /\ alias'[s] = t)
<1>1. \A u \in Thread : current[u] \in Session => alias[current[u]] = u /\ u # None
  BY LineageAssumption DEF PointerIsBound
<1>2. CASE UNCHANGED registry
  BY <1>2 DEF Shapes, registry, PointerIsBound
<1>3. CASE RegisterAlias(s, t)
  <2>1. alias' = [alias EXCEPT ![s] = t] /\ alias[s] \in {None, t} /\ current' = current
    BY <1>3 DEF RegisterAlias, Bindable
  <2>2. PointerIsBound'
    BY <1>1, <2>1 DEF Shapes, PointerIsBound
  <2> QED
    BY <2>1, <2>2 DEF Shapes
<1>4. CASE RegisterCurrent(s, t)
  <2>1. /\ alias' = [alias EXCEPT ![s] = t] /\ alias[s] \in {None, t}
        /\ current' = [current EXCEPT ![t] = s]
    BY <1>4 DEF RegisterCurrent, Bindable
  <2>2. PointerIsBound'
    BY <1>1, <2>1 DEF Shapes, PointerIsBound
  <2> QED
    BY <2>1, <2>2 DEF Shapes
<1> QED
  BY <1>2, <1>3, <1>4 DEF Binds

\* The stores agree before a step that writes of one session and its thread, or of a
\* session of which nothing was known, and agree after it.
Mine(s, t) ==
  \/ Belongs(s, t)
  \/ /\ alias[s] = None
     /\ ~ HasRow(s)
     /\ alias'[s] = t \/ \A w \in Wrapper : wrapper[w].session # s

LEMMA AgreementKeeps ==
  ASSUME rows \in Seq(OldRow), Keys, rows' \in Seq(OldRow), RowsAgree,
         NEW s \in Session, NEW t \in Thread, Mine(s, t),
         alias \in [Session -> Thread \cup {None}],
         \A u \in Session \ {s} : alias'[u] = alias[u],
         alias'[s] = alias[s] \/ (alias[s] = None /\ alias'[s] = t),
         Names(s, t) \/ SameNames
  PROVE  /\ RowsAgree'
         /\ \A u \in Session, v \in Thread : Belongs(u, v) => Belongs(u, v)'
         /\ Names(s, t) \/ alias'[s] = t => Belongs(s, t)'
         /\ \A u \in Session : Open(u) /\ (u # s \/ Belongs(s, t) \/ alias'[s] = t) => Open(u)'
<1>1. /\ \A u : HasRow(u) <=> \E v \in Thread : InRows(u, v)
      /\ \A u, v, x : InRows(u, v) /\ InRows(u, x) => v = x
  BY RowNames
<1>2. \A u : HasRow(u)' <=> \E v \in Thread : InRows(u, v)'
  <2>1. \A n \in 1..Len(rows') : rows'[n] \in OldRow
    BY ElementOfSeq
  <2> QED
    BY <2>1 DEF HasRow, InRows, OldRow
<1>3. \A v \in Thread : v # None
  BY LineageAssumption
<1>4. \A v \in Thread : Belongs(s, v) => v = t
  BY <1>1, <1>3 DEF Mine, Belongs
<1>5. \A v \in Thread : InRows(s, v) => v = t
  BY <1>1, <1>3, <1>4 DEF Mine, RowsAgree
<1>6. \A v \in Thread : InRows(s, v)' => v = t
  BY <1>5 DEF Names, SameNames
<1>7. alias'[s] \in {None, t}
  BY <1>1, <1>3 DEF Mine, Belongs
<1>8. RowsAgree'
  <2> SUFFICES ASSUME NEW u \in Session, NEW v \in Thread, InRows(u, v)'
               PROVE  Belongs(u, v)'
    BY DEF RowsAgree
  <2>1. CASE u = s
    BY <1>6, <1>7, <2>1 DEF Belongs
  <2>2. CASE u # s
    <3>1. InRows(u, v) /\ alias'[u] = alias[u]
      BY <2>2 DEF Names, SameNames
    <3> QED
      BY <3>1 DEF RowsAgree, Belongs
  <2> QED
    BY <2>1, <2>2
<1>9. Names(s, t) \/ alias'[s] = t => Belongs(s, t)'
  BY <1>7 DEF Names, Belongs
<1>10. ASSUME NEW u \in Session, NEW v \in Thread, Belongs(u, v)
       PROVE  Belongs(u, v)'
  <2>1. CASE u = s
    BY <1>3, <1>4, <1>7, <1>9, <1>10, <2>1 DEF Belongs, SameNames
  <2>2. CASE u # s
    BY <1>10, <2>2 DEF Names, SameNames, Belongs
  <2> QED
    BY <2>1, <2>2
<1>11. ASSUME NEW u \in Session, Open(u), u # s \/ Belongs(s, t) \/ alias'[s] = t
       PROVE  Open(u)'
  <2>1. CASE u = s
    BY <1>1, <1>3, <1>11, <2>1 DEF Open, Belongs
  <2>2. CASE u # s
    BY <1>1, <1>2, <1>11, <2>2 DEF Open, Names, SameNames
  <2> QED
    BY <2>1, <2>2
<1> QED
  BY <1>8, <1>9, <1>10, <1>11

-----------------------------------------------------------------------------
(* A step of one wrapper.                                                  *)

PendingStep ==
  /\ pending' \in [Thread -> Entries \cup {NoPending}]
  /\ tally'.faults = 0 => \A t \in Thread : \/ pending'[t] \in {pending[t], NoPending}
                                            \/ Belongs(pending[t].session, t)'

Counts == tally' \in Tallies /\ (tally'.faults = 0 => tally.faults = 0)

\* The wrapper w goes on with the memory m, and the others stay as they are.
Steps(w, m) ==
  /\ m \in Memory
  /\ MemoryShape(m)
  /\ wrapper' = [wrapper EXCEPT ![w] = m]
  /\ PendingStep
  /\ Counts
  /\ accepted' \in [Thread -> Session \cup {None, Foreign}]

BelongsStays == \A s \in Session, t \in Thread : Belongs(s, t) => Belongs(s, t)'

\* What wrapper v holds stays true of the stores.
LEMMA HeldStays ==
  ASSUME Shapes, NEW v \in Wrapper, wrapper'[v] = wrapper[v], HeldBelongs(wrapper[v]),
         BelongsStays, wrapper[v].session \in Session /\ Open(wrapper[v].session)
                       => Open(wrapper[v].session)'
  PROVE  HeldBelongs(wrapper[v])'
<1> DEFINE m == wrapper[v]
<1>1. m \in Memory /\ MemoryShape(m)
  BY DEF Shapes
<1>2. \A n \in 1..Len(m.todo) : m.todo[n].session \in Session /\ m.todo[n].thread \in Thread
  <2>1. m.todo \in Seq(OldRow)
    BY <1>1 DEF Memory
  <2>2. \A n \in 1..Len(m.todo) : m.todo[n] \in OldRow
    BY <2>1, ElementOfSeq
  <2> QED
    BY <2>2 DEF OldRow
<1>3. Swapping \subseteq Placed /\ {"create", "claim"} \subseteq Asking
  BY DEF Swapping, Placed, Asking
<1>4. m' = m
  OBVIOUS
<1>5. /\ m.pc \in Placed \cup {"import"} => m.session \in Session /\ m.thread \in Thread
      /\ m.pc \in Swapping => m.next \in Session /\ m.thread \in Thread
      /\ m.pc \in {"create", "claim"} => m.session \in Session
  BY <1>1, <1>3 DEF MemoryShape, Asking
<1>6. /\ m.pc \in Placed \cup {"import"} => Belongs(m.session, m.thread)
      /\ m.pc \in Swapping => Belongs(m.next, m.thread)
      /\ m.pc = "import" => \A n \in 1..Len(m.todo) : Belongs(m.todo[n].session, m.todo[n].thread)
      /\ m.pc \in {"create", "claim"} => Open(m.session)
  BY DEF HeldBelongs
<1>7. m.session \in Session /\ Open(m.session) => Open(m.session)'
  OBVIOUS
<1>8. \A s \in Session, t \in Thread : Belongs(s, t) => Belongs(s, t)'
  BY DEF BelongsStays
<1> HIDE DEF m
<1>9. HeldBelongs(m)'
  <2>1. m.pc \in Placed \cup {"import"} => Belongs(m.session, m.thread)'
    BY <1>4, <1>5, <1>6, <1>8
  <2>2. m.pc \in Swapping => Belongs(m.next, m.thread)'
    BY <1>4, <1>5, <1>6, <1>8
  <2>3. m.pc = "import" => \A n \in 1..Len(m.todo) : Belongs(m.todo[n].session, m.todo[n].thread)'
    BY <1>2, <1>4, <1>6, <1>8
  <2>4. m.pc \in {"create", "claim"} => Open(m.session)'
    BY <1>5, <1>6, <1>7
  <2> QED
    BY <1>4, <2>1, <2>2, <2>3, <2>4 DEF HeldBelongs
<1> QED
  BY <1>9 DEF m

LEMMA AllStep ==
  ASSUME LineageInv, wrapper' \in [Wrapper -> Memory], PendingStep, Counts,
         accepted' \in [Thread -> Session \cup {None, Foreign}],
         alias' \in [Session -> Thread \cup {None}],
         current' \in [Thread -> Session \cup {None, Foreign}],
         \A s \in Session : alias[s] # None => alias'[s] = alias[s],
         rows' \in Seq(OldRow), Keys', PointerIsBound',
         \A v \in Wrapper : wrapper'[v] = wrapper[v] \/ (MemoryShape(wrapper[v])' /\ SeenBound(wrapper[v])'),
         tally'.faults = 0 =>
           /\ RowsAgree'
           /\ BelongsStays
           /\ \A v \in Wrapper :
                \/ HeldBelongs(wrapper[v])'
                \/ /\ wrapper'[v] = wrapper[v]
                   /\ wrapper[v].session \in Session /\ Open(wrapper[v].session)
                      => Open(wrapper[v].session)'
  PROVE  LineageInv'
<1>1. Shapes'
  <2>1. ASSUME NEW v \in Wrapper
        PROVE  MemoryShape(wrapper[v])'
    <3>1. CASE wrapper'[v] = wrapper[v]
      <4>1. MemoryShape(wrapper[v])
        BY DEF LineageInv, Shapes
      <4> QED
        BY <3>1, <4>1 DEF MemoryShape, AcceptedOf
    <3> QED
      BY <3>1
  <2> QED
    BY <2>1 DEF PendingStep, Counts, Shapes
<1>2. ASSUME NEW v \in Wrapper
      PROVE  SeenBound(wrapper[v])'
  <2>1. CASE wrapper'[v] = wrapper[v]
    <3>1. SeenBound(wrapper[v])
      BY DEF LineageInv
    <3>2. wrapper[v].pc = "reconcile" => wrapper[v].thread # None
      BY LineageAssumption DEF LineageInv, Shapes, MemoryShape, Placed
    <3> QED
      BY <2>1, <3>1, <3>2 DEF SeenBound
  <2> QED
    BY <2>1
<1>3. ASSUME tally'.faults = 0
      PROVE  Homes'
  <2>1. Homes
    BY <1>3 DEF LineageInv, Counts
  <2>2. ASSUME NEW t \in Thread, pending'[t] # NoPending
        PROVE  Belongs(pending[t].session, t)'
    <3>1. CASE pending'[t] = pending[t]
      <4>1. pending[t] \in Entries /\ Belongs(pending[t].session, t)
        BY <2>1, <2>2, <3>1 DEF Homes, LineageInv, Shapes
      <4>2. pending[t].session \in Session
        BY <4>1 DEF Entries
      <4>3. \A s \in Session : Belongs(s, t) => Belongs(s, t)'
        BY <1>3 DEF BelongsStays
      <4>4. PICK s \in Session : s = pending[t].session
        BY <4>2
      <4> QED
        BY <3>1, <4>1, <4>3, <4>4
    <3> QED
      BY <1>3, <2>2, <3>1 DEF PendingStep
  <2>3. ASSUME NEW v \in Wrapper
        PROVE  HeldBelongs(wrapper[v])'
    BY <1>3, <2>1, HeldStays DEF Homes, LineageInv
  <2> QED
    BY <1>3, <2>2, <2>3 DEF Homes
<1> QED
  BY <1>1, <1>2, <1>3 DEF LineageInv

\* A step that leaves the registry and the lineage alone.
LEMMA QuietStep ==
  ASSUME LineageInv, NEW w \in Wrapper, NEW m, Steps(w, m), UNCHANGED <<alias, current, rows>>,
         SeenBound(m), tally'.faults = 0 => HeldBelongs(m)
  PROVE  LineageInv'
<1>1. wrapper' \in [Wrapper -> Memory] /\ wrapper'[w] = m /\ \A v \in Wrapper \ {w} : wrapper'[v] = wrapper[v]
  BY DEF Steps, LineageInv, Shapes
<1>2. /\ alias' \in [Session -> Thread \cup {None}] /\ rows' \in Seq(OldRow) /\ Keys' /\ PointerIsBound'
      /\ current' \in [Thread -> Session \cup {None, Foreign}]
  BY DEF LineageInv, Shapes, Keys, PointerIsBound
<1>3. \A s, t : Belongs(s, t)' <=> Belongs(s, t)
  BY DEF Belongs, InRows
<1>4. \A s : Open(s)' <=> Open(s)
  BY DEF Open, HasRow
<1>5. MemoryShape(wrapper[w])' /\ SeenBound(wrapper[w])'
  BY <1>1 DEF Steps, MemoryShape, AcceptedOf, SeenBound
<1>6. ASSUME tally'.faults = 0
      PROVE  RowsAgree' /\ BelongsStays /\ HeldBelongs(wrapper[w])'
  <2>1. RowsAgree
    BY <1>6 DEF LineageInv, Homes, Steps, Counts
  <2>2. RowsAgree' /\ BelongsStays
    BY <2>1, <1>3 DEF RowsAgree, InRows, BelongsStays
  <2>3. HeldBelongs(m)'
    BY <1>3, <1>4, <1>6 DEF HeldBelongs
  <2> QED
    BY <1>1, <2>2, <2>3 DEF HeldBelongs
<1>7. \A v \in Wrapper \ {w} : Open(wrapper[v].session) => Open(wrapper[v].session)'
  BY <1>1, <1>4 DEF Open, HasRow
<1>8. PendingStep /\ Counts /\ accepted' \in [Thread -> Session \cup {None, Foreign}]
  BY DEF Steps
<1> QED
  BY <1>1, <1>2, <1>5, <1>6, <1>7, <1>8, AllStep

\* A step that writes of one session and its thread.
LEMMA StoreStep ==
  ASSUME LineageInv, NEW w \in Wrapper, NEW m, Steps(w, m), NEW s \in Session, NEW t \in Thread,
         Binds(s, t), rows' \in Seq(OldRow), Keys', SeenBound(m)',
         tally'.faults = 0 => Mine(s, t) /\ (Names(s, t) \/ SameNames),
         tally'.faults = 0 /\ BelongsStays /\ (Names(s, t) \/ alias'[s] = t => Belongs(s, t)')
           => HeldBelongs(m)'
  PROVE  LineageInv'
<1>1. wrapper' \in [Wrapper -> Memory] /\ wrapper'[w] = m /\ \A v \in Wrapper \ {w} : wrapper'[v] = wrapper[v]
  BY DEF Steps, LineageInv, Shapes
<1>2. /\ alias' \in [Session -> Thread \cup {None}]
      /\ current' \in [Thread -> Session \cup {None, Foreign}]
      /\ PointerIsBound'
      /\ \A u \in Session : alias[u] # None => alias'[u] = alias[u]
      /\ \A u \in Session \ {s} : alias'[u] = alias[u]
      /\ alias'[s] = alias[s] \/ (alias[s] = None /\ alias'[s] = t)
  BY RegistryKeeps DEF LineageInv
<1>3. MemoryShape(wrapper[w])' /\ SeenBound(wrapper[w])'
  BY <1>1 DEF Steps, MemoryShape, AcceptedOf, SeenBound
<1>4. ASSUME tally'.faults = 0
      PROVE  /\ RowsAgree' /\ BelongsStays /\ HeldBelongs(wrapper[w])'
             /\ \A v \in Wrapper \ {w} : wrapper[v].session \in Session /\ Open(wrapper[v].session)
                                         => Open(wrapper[v].session)'
  <2>1. /\ RowsAgree'
        /\ \A u \in Session, v \in Thread : Belongs(u, v) => Belongs(u, v)'
        /\ Names(s, t) \/ alias'[s] = t => Belongs(s, t)'
        /\ \A u \in Session : Open(u) /\ (u # s \/ Belongs(s, t) \/ alias'[s] = t) => Open(u)'
    <3>1. Mine(s, t) /\ (Names(s, t) \/ SameNames) /\ RowsAgree
      BY <1>4 DEF LineageInv, Homes, Steps, Counts
    <3>2. rows \in Seq(OldRow) /\ Keys /\ alias \in [Session -> Thread \cup {None}]
      BY DEF LineageInv, Shapes
    <3> QED
      BY <1>2, <3>1, <3>2, AgreementKeeps
  <2>2. BelongsStays
    BY <2>1 DEF BelongsStays
  <2>3. HeldBelongs(m)'
    BY <1>4, <2>1, <2>2
  <2>4. ASSUME NEW v \in Wrapper \ {w}, wrapper[v].session \in Session, Open(wrapper[v].session)
        PROVE  Open(wrapper[v].session)'
    <3>1. PICK u \in Session : u = wrapper[v].session
      BY <2>4
    <3>2. u # s \/ Belongs(s, t) \/ alias'[s] = t
      BY <1>4, <3>1 DEF Mine
    <3>3. Open(u)'
      BY <2>1, <2>4, <3>1, <3>2 DEF Open, HasRow
    <3> QED
      BY <1>1, <3>1, <3>3
  <2> QED
    BY <1>1, <2>1, <2>2, <2>3, <2>4 DEF HeldBelongs
<1>5. PendingStep /\ Counts /\ accepted' \in [Thread -> Session \cup {None, Foreign}]
  BY DEF Steps
<1> QED
  BY <1>1, <1>2, <1>3, <1>4, <1>5, AllStep

-----------------------------------------------------------------------------
(* A launch.                                                               *)

LEMMA MemoryOfWrapper ==
  ASSUME LineageInv, NEW w \in Wrapper
  PROVE  /\ wrapper[w] \in Memory
         /\ MemoryShape(wrapper[w])
         /\ SeenBound(wrapper[w])
         /\ tally.faults = 0 => Homes /\ HeldBelongs(wrapper[w])
BY DEF LineageInv, Shapes, Homes

LEMMA CountsOf ==
  ASSUME tally \in Tallies
  PROVE  /\ Fine => Counts
         /\ Fault => Counts /\ tally'.faults # 0
         /\ tally' = [tally EXCEPT !.crashes = @ + 1] => Counts
         /\ tally' = [tally EXCEPT !.launches = @ + 1] => Counts
         /\ tally' = [tally EXCEPT !.handovers = @ + 1] => Counts
BY DEF Tallies, Fine, Fault, Counts

\* Nothing but the wrapper's memory changes.
LEMMA OnlyMemory ==
  ASSUME LineageInv, NEW w \in Wrapper, NEW m \in Memory, MemoryShape(m), Become(w, m),
         UNCHANGED <<registry, rows, pending, accepted>>, Counts,
         SeenBound(m), tally.faults = 0 => HeldBelongs(m)
  PROVE  LineageInv'
<1>1. PendingStep /\ accepted' \in [Thread -> Session \cup {None, Foreign}]
  BY DEF LineageInv, Shapes, PendingStep
<1>2. Steps(w, m)
  BY <1>1 DEF Steps, Become
<1>3. UNCHANGED <<alias, current, rows>> /\ (tally'.faults = 0 => HeldBelongs(m))
  BY DEF registry, Counts
<1> QED
  BY <1>2, <1>3, QuietStep

LEMMA DownIsMemory == Down \in Memory /\ <<>> \in Seq(OldRow)
<1>1. <<>> \in Seq(OldRow)
  BY EmptySeq
<1> QED
  BY <1>1 DEF Down, Memory

LEMMA EndsKeeps ==
  ASSUME LineageInv, NEW w \in Wrapper, Ends(w), UNCHANGED <<registry, rows, pending, accepted>>, Counts
  PROVE  LineageInv'
<1>1. Down \in Memory
  BY DownIsMemory
<1>2. MemoryShape(Down) /\ SeenBound(Down) /\ HeldBelongs(Down)
  BY DEF Down, MemoryShape, SeenBound, HeldBelongs, Placed, Asking, Swapping
<1> QED
  BY <1>1, <1>2, OnlyMemory DEF Ends

LEMMA LaunchKeeps ==
  ASSUME LineageInv, NEW w \in Wrapper, NEW s \in Session, Launch(w, s)
  PROVE  LineageInv'
<1> PICK m : m = [Down EXCEPT !.pc = "resolve", !.session = s,
                              !.class = IF transcript[s] = "there" THEN "existing" ELSE "fresh"]
  OBVIOUS
<1>1. m \in Memory /\ m.pc = "resolve" /\ m.session = s
  BY DownIsMemory DEF Down, Memory, Asking
<1>2. MemoryShape(m) /\ SeenBound(m) /\ HeldBelongs(m)
  BY <1>1 DEF MemoryShape, SeenBound, HeldBelongs, Placed, Asking, Swapping
<1>3. Counts
  BY CountsOf DEF Launch, LineageInv, Shapes
<1> QED
  BY <1>1, <1>2, <1>3, OnlyMemory DEF Launch, stores, history, registry

\* A launch that goes on with a thread its session belongs to.
LEMMA ContinuesKeeps ==
  ASSUME LineageInv, NEW w \in Wrapper, NEW t \in Thread, Continues(w, t),
         wrapper[w].pc \in Asking, UNCHANGED <<registry, rows, pending, accepted>>, Counts,
         tally.faults = 0 => Belongs(wrapper[w].session, t)
  PROVE  LineageInv'
<1> PICK m : m = [wrapper[w] EXCEPT !.pc = "lease", !.thread = t, !.class = "continued", !.todo = <<>>]
  OBVIOUS
<1>1. wrapper[w] \in Memory /\ MemoryShape(wrapper[w])
  BY MemoryOfWrapper
<1>2. m \in Memory /\ m.pc = "lease" /\ m.thread = t /\ m.session = wrapper[w].session
  BY <1>1, DownIsMemory DEF Memory, Placed
<1>3. MemoryShape(m) /\ SeenBound(m) /\ (tally.faults = 0 => HeldBelongs(m))
  BY <1>1, <1>2 DEF MemoryShape, SeenBound, HeldBelongs, Placed, Asking, Swapping
<1> QED
  BY <1>2, <1>3, OnlyMemory DEF Continues

\* A wrapper of which only the place changes, from one of pcs to one of the same kind.
LEMMA GoesKeeps ==
  ASSUME LineageInv, NEW w \in Wrapper, NEW pc \in Placed \cup {"lookup", "create"}, Goes(w, pc),
         UNCHANGED <<registry, rows, pending, accepted>>, Counts,
         pc \in Placed => wrapper[w].pc \in Placed /\ pc # "reconcile",
         pc \in Swapping => wrapper[w].pc \in Swapping,
         pc \notin Placed => wrapper[w].pc \in Asking,
         pc = "create" => Open(wrapper[w].session)
  PROVE  LineageInv'
<1> PICK m : m = [wrapper[w] EXCEPT !.pc = pc]
  OBVIOUS
<1>1. wrapper[w] \in Memory /\ MemoryShape(wrapper[w]) /\ (tally.faults = 0 => HeldBelongs(wrapper[w]))
  BY MemoryOfWrapper
<1>2. pc \in Placed \cup Asking
  BY DEF Asking
<1>3. /\ m \in Memory /\ m.pc = pc /\ m.thread = wrapper[w].thread /\ m.session = wrapper[w].session
      /\ m.next = wrapper[w].next
  BY <1>1, <1>2 DEF Memory
<1>4. MemoryShape(m) /\ SeenBound(m) /\ (tally.faults = 0 => HeldBelongs(m))
  BY <1>1, <1>3 DEF MemoryShape, SeenBound, HeldBelongs, Placed, Asking, Swapping
<1> QED
  BY <1>3, <1>4, OnlyMemory DEF Goes

LEMMA ResolveKeeps ==
  ASSUME LineageInv, NEW w \in Wrapper, Resolve(w)
  PROVE  LineageInv'
<1> DEFINE s == wrapper[w].session
<1>1. wrapper[w].pc = "resolve" /\ UNCHANGED <<registry, rows, pending, accepted>> /\ Fine
  BY DEF Resolve, AtStep, stores, history, registry, Fine
<1>2. Counts
  BY <1>1, CountsOf DEF LineageInv, Shapes
<1>3. s \in Session /\ "resolve" \in Asking
  BY <1>1, MemoryOfWrapper DEF MemoryShape, Asking
<1>4. CASE alias[s] # None
  <2>1. alias[s] \in Thread /\ Belongs(s, alias[s])
    BY <1>3, <1>4 DEF LineageInv, Shapes, Belongs
  <2>2. Continues(w, alias[s])
    BY <1>4 DEF Resolve
  <2> QED
    BY <1>1, <1>2, <1>3, <2>1, <2>2, ContinuesKeeps
<1>5. CASE alias[s] = None
  <2>1. Goes(w, "lookup")
    BY <1>5 DEF Resolve
  <2> QED
    BY <1>1, <1>2, <1>3, <2>1, GoesKeeps DEF Placed, Swapping
<1> QED
  BY <1>4, <1>5

LEMMA LookupKeeps ==
  ASSUME LineageInv, NEW w \in Wrapper, Lookup(w)
  PROVE  LineageInv'
<1> DEFINE s == wrapper[w].session
           t == RowOf(s).thread
<1>1. wrapper[w].pc = "lookup" /\ UNCHANGED <<registry, rows, pending, accepted>> /\ Fine
  BY DEF Lookup, AtStep, stores, history, registry, Fine
<1>2. Counts
  BY <1>1, CountsOf DEF LineageInv, Shapes
<1>3. wrapper[w] \in Memory /\ MemoryShape(wrapper[w]) /\ s \in Session /\ "lookup" \in Asking
  BY <1>1, MemoryOfWrapper DEF MemoryShape, Asking
<1>4. CASE ~ HasRow(s) /\ Goes(w, "create")
  BY <1>1, <1>2, <1>3, <1>4, GoesKeeps DEF Placed, Swapping, Open
<1>5. ASSUME HasRow(s)
      PROVE  t \in Thread /\ (tally.faults = 0 => Belongs(s, t))
  <2>1. RowAt(s) \in 1..Len(rows) /\ rows[RowAt(s)].session = s
    BY <1>5, RowIsThere
  <2>2. RowOf(s) \in OldRow /\ InRows(s, t)
    BY <2>1, RowNames DEF LineageInv, Shapes, RowOf, InRows
  <2>3. t \in Thread
    BY <2>2 DEF OldRow
  <2> QED
    BY <1>3, <2>2, <2>3 DEF LineageInv, Homes, RowsAgree
<1>6. CASE HasRow(s) /\ Continues(w, t)
  BY <1>1, <1>2, <1>3, <1>5, <1>6, ContinuesKeeps
<1>7. CASE /\ HasRow(s)
           /\ AcceptedOf(t, rows) # {}
           /\ Become(w, [wrapper[w] EXCEPT !.pc = "import", !.thread = t, !.todo = rows])
  <2>1. PICK m : m = [wrapper[w] EXCEPT !.pc = "import", !.thread = t, !.todo = rows]
    OBVIOUS
  <2>2. rows \in Seq(OldRow)
    BY DEF LineageInv, Shapes
  <2>3. m \in Memory /\ m.pc = "import" /\ m.thread = t /\ m.session = s /\ m.todo = rows
    BY <1>3, <1>5, <1>7, <2>1, <2>2 DEF Memory, Asking
  <2>4. MemoryShape(m) /\ SeenBound(m)
    BY <1>3, <1>5, <1>7, <2>3 DEF MemoryShape, SeenBound, Placed, Asking, Swapping
  <2>5. ASSUME tally.faults = 0
        PROVE  HeldBelongs(m)
    <3>1. ASSUME NEW n \in 1..Len(rows)
          PROVE  Belongs(rows[n].session, rows[n].thread)
      <4>1. rows[n].session \in Session /\ rows[n].thread \in Thread
        BY <2>2, RowNames DEF OldRow
      <4>2. InRows(rows[n].session, rows[n].thread)
        BY DEF InRows
      <4> QED
        BY <2>5, <4>1, <4>2 DEF LineageInv, Homes, RowsAgree
    <3> QED
      BY <1>5, <1>7, <2>3, <2>5, <3>1 DEF HeldBelongs, Placed, Swapping
  <2> QED
    BY <1>1, <1>2, <1>7, <2>1, <2>3, <2>4, <2>5, OnlyMemory
<1> QED
  BY <1>4, <1>6, <1>7 DEF Lookup

LEMMA CreateKeeps ==
  ASSUME LineageInv, NEW w \in Wrapper, NEW t \in Thread, Create(w, t)
  PROVE  LineageInv'
<1> PICK m : m = [wrapper[w] EXCEPT !.pc = "claim", !.thread = t]
  OBVIOUS
<1>1. wrapper[w] \in Memory /\ MemoryShape(wrapper[w]) /\ (tally.faults = 0 => HeldBelongs(wrapper[w]))
  BY MemoryOfWrapper
<1>2. wrapper[w].pc = "create" /\ UNCHANGED <<registry, rows, pending, accepted>> /\ Fine
  BY DEF Create, AtStep, stores, history, registry, Fine
<1>3. m \in Memory /\ m.pc = "claim" /\ m.thread = t /\ m.session = wrapper[w].session
  BY <1>1 DEF Memory, Asking
<1>4. MemoryShape(m) /\ SeenBound(m) /\ (tally.faults = 0 => HeldBelongs(m))
  BY <1>1, <1>2, <1>3 DEF MemoryShape, SeenBound, HeldBelongs, Placed, Asking, Swapping
<1>5. Counts
  BY <1>2, CountsOf DEF LineageInv, Shapes
<1> QED
  BY <1>2, <1>3, <1>4, <1>5, OnlyMemory DEF Create

\* What StoreStep asks of the memory and of the other stores.
LEMMA StepsTo ==
  ASSUME LineageInv, NEW w \in Wrapper, NEW m \in Memory, MemoryShape(m), Become(w, m), Counts,
         pending' = pending, accepted' \in [Thread -> Session \cup {None, Foreign}]
  PROVE  Steps(w, m)
BY DEF LineageInv, Shapes, Steps, PendingStep, Become

LEMMA RowsRest ==
  ASSUME LineageInv, UNCHANGED rows
  PROVE  rows' \in Seq(OldRow) /\ Keys' /\ SameNames
BY DEF LineageInv, Shapes, Keys, SameNames, InRows

LEMMA ImportKeeps ==
  ASSUME LineageInv, NEW w \in Wrapper, Import(w)
  PROVE  LineageInv'
<1> DEFINE t == Thr(w)
           todo == wrapper[w].todo
           N == AcceptedOf(t, todo)
           k == NextOf(N)
           s == todo[k].session
           asked == wrapper[w].session
<1>1. /\ wrapper[w].pc = "import" /\ UNCHANGED <<rows, pending, accepted>> /\ Fine
      /\ \/ N = {k} /\ RegisterCurrent(s, t)
         \/ N # {k} /\ RegisterAlias(s, t)
         \/ UNCHANGED registry
      /\ IF N = {k} THEN Continues(w, IF alias'[asked] = None THEN t ELSE alias'[asked])
                    ELSE Become(w, [wrapper[w] EXCEPT !.todo = RemoveAt(todo, k)])
  BY DEF Import, AtStep, history, Fine
<1>2. Counts
  BY <1>1, CountsOf DEF LineageInv, Shapes
<1>3. /\ wrapper[w] \in Memory /\ t \in Thread /\ asked \in Session /\ N # {}
      /\ tally.faults = 0 => HeldBelongs(wrapper[w])
  BY <1>1, MemoryOfWrapper DEF MemoryShape, Asking, Thr
<1>4. todo \in Seq(OldRow) /\ Len(todo) \in Nat
  <2>1. todo \in Seq(OldRow)
    BY <1>3 DEF Memory
  <2> QED
    BY <2>1, LenProperties
<1>5. k \in N /\ N \subseteq 1..Len(todo)
  <2>1. N \in SUBSET Nat /\ N \subseteq 1..Len(todo)
    BY <1>4 DEF AcceptedOf
  <2> QED
    BY <1>3, <2>1, OldestIsThere DEF NextOf
<1>6. s \in Session /\ todo[k].thread = t
  <2>1. todo[k] \in OldRow
    BY <1>4, <1>5, ElementOfSeq
  <2> QED
    BY <1>5, <2>1 DEF AcceptedOf, OldRow
<1>7. Binds(s, t)
  BY <1>1 DEF Binds
<1>8. tally'.faults = 0 => Mine(s, t) /\ HeldBelongs(wrapper[w])
  BY <1>1, <1>2, <1>3, <1>5, <1>6 DEF HeldBelongs, Mine, Counts
<1>9. accepted' \in [Thread -> Session \cup {None, Foreign}]
  BY <1>1 DEF LineageInv, Shapes
<1>10. alias' \in [Session -> Thread \cup {None}]
  BY <1>3, <1>6, <1>7, RegistryKeeps DEF LineageInv
<1>11. rows' \in Seq(OldRow) /\ Keys' /\ SameNames
  BY <1>1, RowsRest
<1>12. CASE N = {k}
  <2> DEFINE u == IF alias'[asked] = None THEN t ELSE alias'[asked]
  <2>1. u \in Thread
    BY <1>3, <1>10
  <2>2. PICK v \in Thread : v = u
    BY <2>1
  <2>3. PICK m : m = [wrapper[w] EXCEPT !.pc = "lease", !.thread = v, !.class = "continued", !.todo = <<>>]
    OBVIOUS
  <2>4. m \in Memory /\ m.pc = "lease" /\ m.thread = v /\ m.session = asked
    <3>1. wrapper[w] \in Memory /\ <<>> \in Seq(OldRow)
      BY <1>3, DownIsMemory
    <3> QED
      BY <2>3, <3>1 DEF Memory, Placed
  <2>5. MemoryShape(m) /\ SeenBound(m)'
    BY <1>3, <2>4 DEF MemoryShape, SeenBound, Placed, Asking, Swapping
  <2>6. ASSUME tally'.faults = 0, BelongsStays
        PROVE  HeldBelongs(m)'
    <3>1. PICK a \in Session : a = asked
      BY <1>3
    <3>2. Belongs(a, t)
      BY <1>1, <1>8, <2>6, <3>1 DEF HeldBelongs, Thr
    <3>3. \A x \in Thread : Belongs(a, x) => Belongs(a, x)'
      BY <2>6 DEF BelongsStays
    <3>4. PICK x \in Thread : x = t
      BY <1>3
    <3>5. Belongs(a, x)'
      BY <3>2, <3>3, <3>4
    <3>6. Belongs(a, v)'
      BY <2>2, <3>1, <3>4, <3>5 DEF Belongs
    <3> QED
      BY <2>4, <3>1, <3>6 DEF HeldBelongs, Placed, Swapping
  <2>7. Steps(w, m)
    <3>1. Become(w, m)
      BY <1>1, <1>12, <2>2, <2>3 DEF Continues
    <3> QED
      BY <1>1, <1>2, <1>9, <2>4, <2>5, <3>1, StepsTo
  <2> QED
    BY <1>3, <1>6, <1>7, <1>8, <1>11, <2>5, <2>6, <2>7, StoreStep
<1>13. CASE N # {k}
  <2>1. PICK m : m = [wrapper[w] EXCEPT !.todo = RemoveAt(todo, k)]
    OBVIOUS
  <2>2. PICK left : left = RemoveAt(todo, k)
    OBVIOUS
  <2>3. /\ left \in Seq(OldRow) /\ Len(left) = Len(todo) - 1
        /\ \A n \in 1..Len(todo) - 1 : left[n] = IF n < k THEN todo[n] ELSE todo[n + 1]
    BY <1>4, <1>5, <2>2, RemoveAtKeeps
  <2>4. m \in Memory /\ m.pc = "import" /\ m.thread = t /\ m.session = asked /\ m.todo = left
    BY <1>1, <1>3, <2>1, <2>2, <2>3 DEF Memory, Thr
  <2>5. AcceptedOf(t, left) # {}
    <3>1. PICK n \in N : n # k
      BY <1>3, <1>5, <1>13
    <3>2. n \in 1..Len(todo) /\ k \in 1..Len(todo) /\ todo[n].thread = t /\ todo[n].accepted
      BY <1>5, <3>1 DEF AcceptedOf
    <3>3. CASE n < k
      <4>1. n \in 1..Len(left) /\ left[n] = todo[n]
        BY <1>4, <2>3, <3>2, <3>3
      <4> QED
        BY <3>2, <4>1 DEF AcceptedOf
    <3>4. CASE n > k
      <4>1. n - 1 \in 1..Len(left) /\ left[n - 1] = todo[n]
        BY <1>4, <2>3, <3>2, <3>4
      <4> QED
        BY <3>2, <4>1 DEF AcceptedOf
    <3> QED
      BY <1>4, <3>1, <3>2, <3>3, <3>4
  <2>6. MemoryShape(m) /\ SeenBound(m)'
    BY <1>3, <2>4, <2>5 DEF MemoryShape, SeenBound, Placed, Asking, Swapping
  <2>7. ASSUME tally'.faults = 0, BelongsStays
        PROVE  HeldBelongs(m)'
    <3>1. \A a \in Session, x \in Thread : Belongs(a, x) => Belongs(a, x)'
      BY <2>7 DEF BelongsStays
    <3>2. Belongs(m.session, m.thread)'
      <4>1. PICK a \in Session, x \in Thread : a = asked /\ x = t
        BY <1>3
      <4>2. Belongs(a, x)
        BY <1>1, <1>8, <2>7, <4>1 DEF HeldBelongs, Thr
      <4> QED
        BY <2>4, <3>1, <4>1, <4>2
    <3>3. ASSUME NEW n \in 1..Len(left)
          PROVE  Belongs(left[n].session, left[n].thread)'
      <4>1. PICK i \in 1..Len(todo) : left[n] = todo[i]
        BY <1>4, <1>5, <2>3
      <4>2. Belongs(todo[i].session, todo[i].thread)
        BY <1>1, <1>8, <2>7 DEF HeldBelongs
      <4>3. todo[i] \in OldRow
        BY <1>4, ElementOfSeq
      <4>4. PICK a \in Session, x \in Thread : a = todo[i].session /\ x = todo[i].thread
        BY <4>3 DEF OldRow
      <4>5. Belongs(a, x)'
        BY <3>1, <4>2, <4>4
      <4> QED
        BY <4>1, <4>4, <4>5
    <3> QED
      BY <2>4, <3>2, <3>3 DEF HeldBelongs, Placed, Swapping
  <2>8. Steps(w, m)
    BY <1>1, <1>2, <1>9, <1>13, <2>1, <2>4, <2>6, StepsTo
  <2> QED
    BY <1>3, <1>6, <1>7, <1>8, <1>11, <2>6, <2>7, <2>8, StoreStep
<1> QED
  BY <1>12, <1>13

LEMMA ClaimKeeps ==
  ASSUME LineageInv, NEW w \in Wrapper, Claim(w)
  PROVE  LineageInv'
<1>1. wrapper[w].pc = "claim" /\ rows' = rows /\ pending' = pending /\ Fine
  BY DEF Claim, AtStep, Fine
<1>2. PICK s \in Session, t \in Thread : s = wrapper[w].session /\ t = Thr(w)
  BY <1>1, MemoryOfWrapper DEF MemoryShape, Asking, Thr
<1>3. /\ wrapper[w] \in Memory /\ "claim" \in Asking
      /\ s = wrapper[w].session /\ t = Thr(w)
      /\ tally.faults = 0 => HeldBelongs(wrapper[w])
  BY <1>2, <1>1, MemoryOfWrapper DEF Asking
<1>4. Counts
  BY <1>1, CountsOf DEF LineageInv, Shapes
<1>5. CASE RegisterCurrent(s, t) /\ accepted' = [accepted EXCEPT ![t] = s] /\ Goes(w, "lease")
  <2>1. PICK m : m = [wrapper[w] EXCEPT !.pc = "lease"]
    OBVIOUS
  <2>2. m \in Memory /\ m.pc = "lease" /\ m.thread = t /\ m.session = s
    BY <1>3, <2>1 DEF Memory, Placed, Thr
  <2>3. MemoryShape(m) /\ SeenBound(m)'
    BY <1>3, <2>2 DEF MemoryShape, SeenBound, Placed, Asking, Swapping
  <2>4. Binds(s, t) /\ alias[s] \in {None, t} /\ alias'[s] = t
    BY <1>3, <1>5 DEF Binds, RegisterCurrent, Bindable, LineageInv, Shapes
  <2>5. tally'.faults = 0 => Mine(s, t)
    BY <1>1, <1>3, <1>4, <2>4 DEF HeldBelongs, Open, Mine, Belongs, Counts
  <2>6. rows' \in Seq(OldRow) /\ Keys' /\ SameNames
    BY <1>1, RowsRest
  <2>7. accepted' \in [Thread -> Session \cup {None, Foreign}]
    BY <1>3, <1>5 DEF LineageInv, Shapes
  <2>8. Steps(w, m)
    BY <1>1, <1>4, <1>5, <2>1, <2>2, <2>3, <2>7, StepsTo DEF Goes
  <2>9. Belongs(s, t)'
    BY <2>4 DEF Belongs
  <2>10. HeldBelongs(m)'
    BY <2>2, <2>9 DEF HeldBelongs, Placed, Swapping
  <2> QED
    BY <1>3, <2>3, <2>4, <2>5, <2>6, <2>8, <2>10, StoreStep
<1>6. CASE ~ Bindable(s, t) /\ Continues(w, alias[s]) /\ UNCHANGED <<registry, accepted>>
  <2>1. alias[s] \in Thread /\ Belongs(s, alias[s])
    BY <1>3, <1>6 DEF LineageInv, Shapes, Belongs, Bindable
  <2> QED
    BY <1>1, <1>3, <1>4, <1>6, <2>1, ContinuesKeeps
<1> QED
  BY <1>3, <1>5, <1>6 DEF Claim

LEMMA AcquireKeeps ==
  ASSUME LineageInv, NEW w \in Wrapper, Acquire(w)
  PROVE  LineageInv'
<1>1. wrapper[w].pc = "lease" /\ UNCHANGED <<registry, rows, pending, accepted>> /\ Fine
  BY DEF Acquire, AtStep, stores, history, registry, Fine
<1>2. /\ wrapper[w] \in Memory /\ MemoryShape(wrapper[w]) /\ Thr(w) \in Thread
      /\ tally.faults = 0 => HeldBelongs(wrapper[w])
  BY <1>1, MemoryOfWrapper DEF MemoryShape, Placed, Thr
<1>3. Counts
  BY <1>1, CountsOf DEF LineageInv, Shapes
<1>4. CASE Ends(w)
  BY <1>1, <1>3, <1>4, EndsKeeps
<1>5. CASE Become(w, [wrapper[w] EXCEPT !.pc = "current",
                         !.due = IF current[Thr(w)] = None THEN None ELSE accepted[Thr(w)]])
  <2>1. PICK d : d = IF current[Thr(w)] = None THEN None ELSE accepted[Thr(w)]
    OBVIOUS
  <2>2. d \in Session \cup {None, Foreign}
    BY <1>2, <2>1 DEF LineageInv, Shapes
  <2>3. PICK m : m = [wrapper[w] EXCEPT !.pc = "current", !.due = d]
    OBVIOUS
  <2>4. /\ m \in Memory /\ m.pc = "current" /\ m.thread = wrapper[w].thread
        /\ m.session = wrapper[w].session
    BY <1>2, <2>2, <2>3 DEF Memory, Placed
  <2>5. MemoryShape(m) /\ SeenBound(m) /\ (tally.faults = 0 => HeldBelongs(m))
    BY <1>1, <1>2, <2>4 DEF MemoryShape, SeenBound, HeldBelongs, Placed, Asking, Swapping
  <2> QED
    BY <1>1, <1>3, <1>5, <2>1, <2>3, <2>4, <2>5, OnlyMemory
<1> QED
  BY <1>4, <1>5 DEF Acquire

LEMMA EndKeeps ==
  ASSUME LineageInv, NEW w \in Wrapper, Unavailable(w) \/ Exit(w) \/ Crash(w)
  PROVE  LineageInv'
<1>1. Ends(w) /\ UNCHANGED <<registry, rows, pending, accepted>>
  BY DEF Unavailable, Exit, Crash, stores, history, registry
<1>2. Counts
  BY CountsOf DEF Unavailable, Exit, Crash, LineageInv, Shapes, Fine
<1> QED
  BY <1>1, <1>2, EndsKeeps

-----------------------------------------------------------------------------
(* Under the lease.                                                        *)

LEMMA ReadCurrentKeeps ==
  ASSUME LineageInv, NEW w \in Wrapper, ReadCurrent(w)
  PROVE  LineageInv'
<1>1. wrapper[w].pc = "current" /\ UNCHANGED <<registry, rows, pending, accepted>> /\ Fine
  BY DEF ReadCurrent, AtStep, stores, history, registry, Fine
<1>2. /\ wrapper[w] \in Memory /\ MemoryShape(wrapper[w]) /\ Thr(w) \in Thread
      /\ tally.faults = 0 => HeldBelongs(wrapper[w])
  BY <1>1, MemoryOfWrapper DEF MemoryShape, Placed, Thr
<1>3. Counts
  BY <1>1, CountsOf DEF LineageInv, Shapes
<1>4. PICK m : m = [wrapper[w] EXCEPT !.pc = "reconcile", !.seen = current[Thr(w)]]
  OBVIOUS
<1>5. current[Thr(w)] \in Session \cup {None, Foreign}
      /\ (current[Thr(w)] \in Session => alias[current[Thr(w)]] = Thr(w))
  BY <1>2 DEF LineageInv, Shapes, PointerIsBound
<1>6. /\ m \in Memory /\ m.pc = "reconcile" /\ m.thread = wrapper[w].thread
      /\ m.session = wrapper[w].session /\ m.seen = current[Thr(w)]
  BY <1>2, <1>4, <1>5 DEF Memory, Placed
<1>7. MemoryShape(m) /\ SeenBound(m) /\ (tally.faults = 0 => HeldBelongs(m))
  BY <1>1, <1>2, <1>5, <1>6 DEF MemoryShape, SeenBound, HeldBelongs, Placed, Asking, Swapping, Thr
<1> QED
  BY <1>1, <1>3, <1>4, <1>6, <1>7, OnlyMemory DEF ReadCurrent

\* The memory of a launch that has chosen its session.
LEMMA LandsOnMemory ==
  ASSUME LineageInv, NEW w \in Wrapper, wrapper[w].pc = "reconcile", NEW s,
         NEW pc \in {"sweep", "settle"}, LandsOn(w, s, pc)
  PROVE  \E m \in Memory :
           /\ MemoryShape(m) /\ SeenBound(m) /\ SeenBound(m)' /\ Become(w, m)
           /\ m.pc = pc /\ m.thread = Thr(w) /\ Thr(w) \in Thread
           /\ m.session = IF s \in Session THEN s ELSE wrapper[w].session
<1>1. wrapper[w] \in Memory /\ MemoryShape(wrapper[w])
  BY MemoryOfWrapper
<1>2. wrapper[w].session \in Session /\ wrapper[w].thread \in Thread
  BY <1>1 DEF MemoryShape, Placed
<1>3. PICK x : x = IF s \in Session THEN s ELSE wrapper[w].session
  OBVIOUS
<1>4. PICK m : m = [wrapper[w] EXCEPT !.pc = pc, !.session = x, !.seen = None]
  OBVIOUS
<1>5. x \in Session
  BY <1>2, <1>3
<1>6. m \in Memory /\ m.pc = pc /\ m.thread = Thr(w) /\ m.session = x
  BY <1>1, <1>4, <1>5 DEF Memory, Placed, Thr
<1>7. MemoryShape(m) /\ SeenBound(m) /\ SeenBound(m)'
  BY <1>2, <1>5, <1>6 DEF MemoryShape, SeenBound, Placed, Asking, Swapping, Thr
<1>8. Become(w, m)
  BY <1>1, <1>3, <1>4 DEF LandsOn, Memory
<1> QED
  BY <1>2, <1>3, <1>6, <1>7, <1>8 DEF Thr

LEMMA ReconcileKeeps ==
  ASSUME LineageInv, NEW w \in Wrapper, Reconcile(w)
  PROVE  LineageInv'
<1> DEFINE t == Thr(w)
           p == pending[t]
<1>1. wrapper[w].pc = "reconcile" /\ UNCHANGED <<rows, pending, accepted>>
  BY DEF Reconcile, AtStep, history
<1>2. /\ wrapper[w] \in Memory /\ MemoryShape(wrapper[w]) /\ SeenBound(wrapper[w])
      /\ tally.faults = 0 => Homes /\ HeldBelongs(wrapper[w])
      /\ t \in Thread
  BY <1>1, MemoryOfWrapper DEF MemoryShape, Placed, Thr
<1>3. (Fine \/ Fault) => Counts
  BY CountsOf DEF LineageInv, Shapes
<1>4. accepted' \in [Thread -> Session \cup {None, Foreign}]
  BY <1>1 DEF LineageInv, Shapes
<1>5. ASSUME NEW pc \in {"sweep", "settle"}, LandsOn(w, wrapper[w].seen, pc), UNCHANGED registry,
             Fine \/ Fault
      PROVE  LineageInv'
  <2>1. PICK m \in Memory :
           /\ MemoryShape(m) /\ SeenBound(m) /\ Become(w, m)
           /\ m.pc = pc /\ m.thread = Thr(w)
           /\ m.session = IF wrapper[w].seen \in Session THEN wrapper[w].seen ELSE wrapper[w].session
    BY <1>1, <1>5, LandsOnMemory
  <2>2. ASSUME tally.faults = 0
        PROVE  HeldBelongs(m)
    <3>1. Belongs(wrapper[w].session, t)
      BY <1>1, <1>2, <2>2 DEF HeldBelongs, Placed, Thr
    <3>2. wrapper[w].seen \in Session => Belongs(wrapper[w].seen, t)
      BY <1>1, <1>2 DEF SeenBound, Belongs, Thr
    <3>3. Belongs(m.session, m.thread)
      BY <2>1, <3>1, <3>2
    <3> QED
      BY <2>1, <3>3 DEF HeldBelongs, Placed, Swapping
  <2> QED
    BY <1>1, <1>3, <1>5, <2>1, <2>2, OnlyMemory
<1>6. ASSUME Repairs(w)
      PROVE  p.session \in Session /\ (tally.faults = 0 => Belongs(p.session, t))
  <2>1. p # NoPending
    BY <1>6 DEF Repairs
  <2>2. p \in Entries
    BY <1>2, <2>1 DEF LineageInv, Shapes
  <2> QED
    BY <1>2, <2>1, <2>2 DEF Entries, Homes
<1>7. CASE Repairs(w) /\ Fine /\ RegisterCurrent(p.session, t) /\ LandsOn(w, p.session, "settle")
  <2>1. PICK m \in Memory :
           /\ MemoryShape(m) /\ SeenBound(m)' /\ Become(w, m)
           /\ m.pc = "settle" /\ m.thread = Thr(w)
           /\ m.session = IF p.session \in Session THEN p.session ELSE wrapper[w].session
    BY <1>1, <1>7, LandsOnMemory
  <2>2. m.session = p.session
    BY <1>6, <1>7, <2>1
  <2>3. PICK s \in Session : s = p.session
    BY <1>6, <1>7
  <2>4. PICK v \in Thread : v = t
    BY <1>2
  <2>5. Binds(s, v) /\ alias'[s] = v
    BY <1>7, <2>3, <2>4 DEF Binds, RegisterCurrent, LineageInv, Shapes
  <2>6. tally'.faults = 0 => Mine(s, v)
    BY <1>3, <1>6, <1>7, <2>3, <2>4 DEF Mine, Counts
  <2>7. rows' \in Seq(OldRow) /\ Keys' /\ SameNames
    BY <1>1, RowsRest
  <2>8. Steps(w, m)
    BY <1>1, <1>3, <1>4, <1>7, <2>1, StepsTo
  <2>9. Belongs(s, v)'
    BY <2>5 DEF Belongs
  <2>10. HeldBelongs(m)'
    BY <2>1, <2>2, <2>3, <2>4, <2>9 DEF HeldBelongs, Placed, Swapping
  <2> QED
    BY <1>2, <2>1, <2>5, <2>7, <2>8, <2>10, <2>6, StoreStep
<1>8. CASE Repairs(w) /\ Fault /\ LandsOn(w, p.session, "sweep") /\ UNCHANGED registry
  <2>1. PICK m \in Memory : MemoryShape(m) /\ SeenBound(m) /\ Become(w, m)
    BY <1>1, <1>8, LandsOnMemory
  <2>2. Steps(w, m)
    BY <1>1, <1>3, <1>4, <1>8, <2>1, StepsTo
  <2>3. tally'.faults # 0
    BY <1>8, CountsOf DEF LineageInv, Shapes
  <2> QED
    BY <1>1, <1>8, <2>1, <2>2, <2>3, QuietStep DEF registry
<1> QED
  BY <1>5, <1>7, <1>8 DEF Reconcile

\* A step that only clears a thread's pending acceptance, or fails to.
LEMMA ClearsKeeps ==
  ASSUME LineageInv, NEW w \in Wrapper, NEW m \in Memory, MemoryShape(m), SeenBound(m), Become(w, m),
         NEW t \in Thread,
         \/ pending' = [pending EXCEPT ![t] = NoPending] /\ Fine
         \/ UNCHANGED pending /\ Fault,
         UNCHANGED <<registry, rows, accepted>>, tally.faults = 0 => HeldBelongs(m)
  PROVE  LineageInv'
<1>1. Counts
  BY CountsOf DEF LineageInv, Shapes
<1>2. PendingStep
  BY DEF PendingStep, LineageInv, Shapes
<1>3. Steps(w, m)
  BY <1>1, <1>2 DEF Steps, Become, LineageInv, Shapes
<1> QED
  BY <1>1, <1>3, QuietStep DEF registry, Counts

LEMMA SettleKeeps ==
  ASSUME LineageInv, NEW w \in Wrapper, Settle(w)
  PROVE  LineageInv'
<1>1. wrapper[w].pc = "settle" /\ UNCHANGED <<registry, rows, accepted>>
  BY DEF Settle, AtStep, history
<1>2. /\ wrapper[w] \in Memory /\ MemoryShape(wrapper[w]) /\ Thr(w) \in Thread
      /\ tally.faults = 0 => HeldBelongs(wrapper[w])
  BY <1>1, MemoryOfWrapper DEF MemoryShape, Placed, Thr
<1>3. PICK m : m = [wrapper[w] EXCEPT !.pc = "sweep"]
  OBVIOUS
<1>4. m \in Memory /\ m.pc = "sweep" /\ m.thread = wrapper[w].thread /\ m.session = wrapper[w].session
  BY <1>2, <1>3 DEF Memory, Placed
<1>5. MemoryShape(m) /\ SeenBound(m) /\ (tally.faults = 0 => HeldBelongs(m))
  BY <1>1, <1>2, <1>4 DEF MemoryShape, SeenBound, HeldBelongs, Placed, Asking, Swapping
<1> QED
  BY <1>1, <1>2, <1>3, <1>4, <1>5, ClearsKeeps DEF Settle, Goes

-----------------------------------------------------------------------------
(* The sweep and the capture.                                              *)

LEMMA KeepsKeeps ==
  ASSUME LineageInv, NEW w \in Wrapper, Keeps(w), wrapper[w].pc \in Placed,
         UNCHANGED <<registry, rows, pending, accepted>>, Fine \/ Fault
  PROVE  LineageInv'
<1>1. wrapper[w] \in Memory /\ MemoryShape(wrapper[w]) /\ (tally.faults = 0 => HeldBelongs(wrapper[w]))
  BY MemoryOfWrapper
<1>2. Counts
  BY CountsOf DEF LineageInv, Shapes
<1>3. PICK m : m = [wrapper[w] EXCEPT !.pc = "bind", !.next = None, !.of = None]
  OBVIOUS
<1>4. m \in Memory /\ m.pc = "bind" /\ m.thread = wrapper[w].thread /\ m.session = wrapper[w].session
  BY <1>1, <1>3 DEF Memory, Placed
<1>5. MemoryShape(m) /\ SeenBound(m) /\ (tally.faults = 0 => HeldBelongs(m))
  BY <1>1, <1>4 DEF MemoryShape, SeenBound, HeldBelongs, Placed, Asking, Swapping
<1> QED
  BY <1>2, <1>3, <1>4, <1>5, OnlyMemory DEF Keeps

LEMMA SweepOwnerKeeps ==
  ASSUME LineageInv, NEW w \in Wrapper, SweepOwner(w)
  PROVE  LineageInv'
<1>1. wrapper[w].pc = "sweep" /\ UNCHANGED <<registry, rows, pending, accepted>> /\ Fine
  BY DEF SweepOwner, AtStep, stores, history, registry, Fine
<1>2. wrapper[w] \in Memory /\ MemoryShape(wrapper[w]) /\ (tally.faults = 0 => HeldBelongs(wrapper[w]))
  BY MemoryOfWrapper
<1>3. Counts
  BY <1>1, CountsOf DEF LineageInv, Shapes
<1>4. CASE Keeps(w)
  BY <1>1, <1>4, KeepsKeeps DEF Placed
<1>5. ASSUME NEW r \in Rebuilt,
             Become(w, [wrapper[w] EXCEPT !.pc = "known", !.next = r, !.of = RowOf(r).thread])
      PROVE  LineageInv'
  <2>1. HasRow(r) /\ r \in Session
    BY RowNames DEF Rebuilt, HasRow, LineageInv, Shapes, OldRow
  <2>2. RowOf(r).thread \in Thread
    BY <2>1, RowIsThere, RowNames DEF RowOf, LineageInv, Shapes, OldRow
  <2>3. PICK t \in Thread : t = RowOf(r).thread
    BY <2>2
  <2>4. PICK m : m = [wrapper[w] EXCEPT !.pc = "known", !.next = r, !.of = t]
    OBVIOUS
  <2>5. m \in Memory /\ m.pc = "known" /\ m.thread = wrapper[w].thread /\ m.session = wrapper[w].session
    BY <1>2, <2>1, <2>4 DEF Memory, Placed
  <2>6. MemoryShape(m) /\ SeenBound(m) /\ (tally.faults = 0 => HeldBelongs(m))
    BY <1>1, <1>2, <2>5 DEF MemoryShape, SeenBound, HeldBelongs, Placed, Asking, Swapping
  <2> QED
    BY <1>1, <1>3, <1>5, <2>3, <2>4, <2>5, <2>6, OnlyMemory
<1> QED
  BY <1>4, <1>5 DEF SweepOwner

LEMMA SweepKeeps ==
  ASSUME LineageInv, NEW w \in Wrapper, SweepAlias(w) \/ SweepPointer(w) \/ SweepPending(w)
  PROVE  LineageInv'
<1>1. /\ wrapper[w].pc \in {"known", "pointer", "awaits"}
      /\ UNCHANGED <<registry, rows, pending, accepted>>
      /\ Fine \/ Fault
  BY DEF SweepAlias, SweepPointer, SweepPending, AtStep, stores, history, registry
<1>2. Counts
  BY <1>1, CountsOf DEF LineageInv, Shapes
<1>3. Goes(w, "pointer") \/ Goes(w, "awaits") \/ Keeps(w)
  BY DEF SweepAlias, SweepPointer, SweepPending
<1>4. CASE Keeps(w)
  BY <1>1, <1>4, KeepsKeeps DEF Placed
<1>5. CASE Goes(w, "pointer")
  BY <1>1, <1>2, <1>5, GoesKeeps DEF Placed, Swapping
<1>6. CASE Goes(w, "awaits")
  BY <1>1, <1>2, <1>6, GoesKeeps DEF Placed, Swapping
<1> QED
  BY <1>3, <1>4, <1>5, <1>6

\* A write to the lineage of a session that belongs to its thread, and a memory that still
\* holds pairs of that kind.
LEMMA WrittenKeeps ==
  ASSUME LineageInv, NEW w \in Wrapper, NEW m \in Memory, MemoryShape(m), m.pc # "reconcile",
         Become(w, m), UNCHANGED <<registry, pending, accepted>>,
         NEW s \in Session, NEW t \in Thread, tally.faults = 0 => Mine(s, t),
         \/ rows' \in Seq(OldRow) /\ Keys' /\ (Names(s, t) \/ SameNames) /\ Fine
         \/ rows' = rows /\ Fault,
         tally.faults = 0 /\ BelongsStays /\ (Names(s, t) => Belongs(s, t)') => HeldBelongs(m)'
  PROVE  LineageInv'
<1>1. Counts /\ (Fault => tally'.faults # 0)
  BY CountsOf DEF LineageInv, Shapes
<1>2. rows' \in Seq(OldRow) /\ Keys' /\ (tally'.faults = 0 => Names(s, t) \/ SameNames)
  BY <1>1, RowsRest
<1>3. Steps(w, m)
  BY <1>1, StepsTo DEF LineageInv, Shapes
<1>4. SeenBound(m)' /\ Binds(s, t)
  BY DEF SeenBound, Binds
<1> QED
  BY <1>1, <1>2, <1>3, <1>4, StoreStep DEF Counts

\* What w holds, and it goes on holding a session and a thread of before.
LEMMA HeldAfter ==
  ASSUME NEW m, NEW s \in Session, NEW t \in Thread, m.pc \in Placed, m.session = s, m.thread = t,
         Belongs(s, t)', m.pc \in Swapping => Belongs(m.next, t)'
  PROVE  HeldBelongs(m)'
BY DEF HeldBelongs, Placed, Swapping

LEMMA BindKeeps ==
  ASSUME LineageInv, NEW w \in Wrapper, Bind(w)
  PROVE  LineageInv'
<1>1. wrapper[w].pc = "bind" /\ UNCHANGED <<registry, pending, accepted>>
  BY DEF Bind, AtStep, history
<1>2. PICK s \in Session, t \in Thread : s = wrapper[w].session /\ t = Thr(w)
  BY <1>1, MemoryOfWrapper DEF MemoryShape, Placed, Thr
<1>3. /\ wrapper[w] \in Memory /\ wrapper[w].session = s /\ wrapper[w].thread = t
      /\ tally.faults = 0 => Belongs(s, t)
  BY <1>1, <1>2, MemoryOfWrapper DEF HeldBelongs, Placed, Thr
<1>4. PICK p : p = IF wrapper[w].class = "fresh" THEN "none"
                   ELSE IF wrapper[w].class = "continued" /\ HasRow(s) THEN RowOf(s).prefix ELSE "unknown"
  OBVIOUS
<1>5. p \in {"none", "verified", "unknown"}
  <2>1. HasRow(s) => RowOf(s) \in OldRow
    BY RowIsThere, RowNames DEF RowOf, LineageInv, Shapes
  <2> QED
    BY <1>4, <2>1 DEF OldRow
<1>6. \/ /\ \/ rows' = (IF wrapper[w].class = "continued" THEN Touch(s, t) ELSE Put(s, t, p, TRUE)) /\ Fine
            \/ rows' = rows /\ Fault
         /\ \E c \in BOOLEAN : Become(w, [wrapper[w] EXCEPT !.pc = "live", !.captured = c])
      \/ Ends(w) /\ UNCHANGED <<rows, tally>>
  <2>1. PICK b \in BOOLEAN : b = (p # "unknown")
    OBVIOUS
  <2>2. PICK live : live = [wrapper[w] EXCEPT !.pc = "live", !.captured = b]
    OBVIOUS
  <2>3. [live EXCEPT !.captured = FALSE] = [wrapper[w] EXCEPT !.pc = "live", !.captured = FALSE]
    BY <1>3, <2>2 DEF Memory
  <2>4. \/ /\ \/ /\ rows' = (IF wrapper[w].class = "continued" THEN Touch(s, t) ELSE Put(s, t, p, TRUE))
                 /\ Become(w, live) /\ Fine
              \/ rows' = rows /\ Become(w, [live EXCEPT !.captured = FALSE]) /\ Fault
        \/ Ends(w) /\ UNCHANGED <<rows, tally>>
    BY <1>2, <1>4, <2>1, <2>2 DEF Bind
  <2> QED
    BY <2>2, <2>3, <2>4
<1>7. CASE Ends(w) /\ UNCHANGED <<rows, tally>>
  <2>1. Counts
    BY <1>7, CountsOf DEF LineageInv, Shapes, Fine
  <2> QED
    BY <1>1, <1>7, <2>1, EndsKeeps
<1>8. ASSUME NEW c \in BOOLEAN, Become(w, [wrapper[w] EXCEPT !.pc = "live", !.captured = c]),
             \/ rows' = (IF wrapper[w].class = "continued" THEN Touch(s, t) ELSE Put(s, t, p, TRUE)) /\ Fine
             \/ rows' = rows /\ Fault
      PROVE  LineageInv'
  <2>1. PICK m : m = [wrapper[w] EXCEPT !.pc = "live", !.captured = c]
    OBVIOUS
  <2>2. m \in Memory /\ m.pc = "live" /\ m.session = s /\ m.thread = t
    BY <1>3, <2>1 DEF Memory, Placed
  <2>3. MemoryShape(m)
    BY <2>2 DEF MemoryShape, Placed, Asking, Swapping
  <2>4. rows \in Seq(OldRow) /\ Keys
    BY DEF LineageInv, Shapes
  <2>5. \/ rows' \in Seq(OldRow) /\ Keys' /\ (Names(s, t) \/ SameNames) /\ Fine
        \/ rows' = rows /\ Fault
    BY <1>5, <1>8, <2>4, PutNames, TouchNames
  <2>6. tally.faults = 0 /\ BelongsStays => HeldBelongs(m)'
    <3>1. tally.faults = 0 /\ BelongsStays => Belongs(s, t)'
      BY <1>3 DEF BelongsStays
    <3> QED
      BY <2>2, <3>1, HeldAfter DEF Placed, Swapping
  <2>7. tally.faults = 0 => Mine(s, t)
    BY <1>3 DEF Mine
  <2> QED
    BY <1>1, <1>8, <2>1, <2>2, <2>3, <2>5, <2>6, <2>7, WrittenKeeps
<1> QED
  BY <1>6, <1>7, <1>8

-----------------------------------------------------------------------------
(* A swap.                                                                 *)

LEMMA ReserveKeeps ==
  ASSUME LineageInv, NEW w \in Wrapper, NEW r \in Session, Reserve(w, r)
  PROVE  LineageInv'
<1>1. wrapper[w].pc = "live" /\ UNCHANGED <<registry, pending, accepted>>
  BY DEF Reserve, AtStep, history
<1>2. PICK s \in Session, t \in Thread : s = wrapper[w].session /\ t = Thr(w)
  BY <1>1, MemoryOfWrapper DEF MemoryShape, Placed, Thr
<1>3. /\ wrapper[w] \in Memory /\ wrapper[w].session = s /\ wrapper[w].thread = t
      /\ tally.faults = 0 => Belongs(s, t)
  BY <1>1, <1>2, MemoryOfWrapper DEF HeldBelongs, Placed, Thr
<1>4. PICK m : m = [wrapper[w] EXCEPT !.pc = "reserved", !.next = r]
  OBVIOUS
<1>5. m \in Memory /\ m.pc = "reserved" /\ m.session = s /\ m.thread = t /\ m.next = r
  BY <1>3, <1>4 DEF Memory, Placed
<1>6. MemoryShape(m)
  BY <1>5 DEF MemoryShape, Placed, Asking, Swapping
<1>7. rows \in Seq(OldRow) /\ Keys
  BY DEF LineageInv, Shapes
<1>8. \/ rows' \in Seq(OldRow) /\ Keys' /\ Names(r, t) /\ Fine
      \/ rows' = rows /\ Fault
  BY <1>2, <1>7, PutNames DEF Reserve, Writes
<1>9. Mine(r, t)
  BY DEF Reserve, NeverUsed, Mine
<1>10. CASE rows' = rows /\ Fault
  <2>1. Steps(w, m) /\ tally'.faults # 0
    BY <1>1, <1>4, <1>5, <1>6, <1>10, StepsTo, CountsOf DEF LineageInv, Shapes, Reserve
  <2>2. SeenBound(m)
    BY <1>5 DEF SeenBound
  <2> QED
    BY <1>1, <1>10, <2>1, <2>2, QuietStep DEF registry
<1>11. CASE rows' \in Seq(OldRow) /\ Keys' /\ Names(r, t) /\ Fine
  <2>1. tally.faults = 0 /\ BelongsStays /\ (Names(r, t) => Belongs(r, t)') => HeldBelongs(m)'
    <3>1. tally.faults = 0 /\ BelongsStays => Belongs(s, t)'
      BY <1>3 DEF BelongsStays
    <3> QED
      BY <1>5, <1>11, <3>1, HeldAfter DEF Placed
  <2> QED
    BY <1>1, <1>4, <1>5, <1>6, <1>9, <1>11, <2>1, WrittenKeeps DEF Reserve
<1> QED
  BY <1>8, <1>10, <1>11

\* A wrapper that swaps: the session it is on and the one it swaps to belong to its thread.
LEMMA SwapOf ==
  ASSUME LineageInv, NEW w \in Wrapper, wrapper[w].pc \in Swapping
  PROVE  \E s \in Session, r \in Session, t \in Thread :
           /\ wrapper[w] \in Memory
           /\ wrapper[w].session = s /\ wrapper[w].next = r /\ wrapper[w].thread = t
           /\ tally.faults = 0 => Belongs(s, t) /\ Belongs(r, t)
<1>1. /\ wrapper[w] \in Memory /\ MemoryShape(wrapper[w])
      /\ tally.faults = 0 => HeldBelongs(wrapper[w])
  BY MemoryOfWrapper
<1>2. wrapper[w].pc \in Placed
  BY DEF Placed, Swapping
<1>3. wrapper[w].session \in Session /\ wrapper[w].next \in Session /\ wrapper[w].thread \in Thread
  BY <1>1, <1>2 DEF MemoryShape
<1> QED
  BY <1>1, <1>2, <1>3 DEF HeldBelongs

\* A swap that goes on, with another place only.
LEMMA SwapMemory ==
  ASSUME NEW w \in Wrapper, wrapper[w] \in Memory, NEW pc \in Swapping, Goes(w, pc),
         NEW s \in Session, NEW r \in Session, NEW t \in Thread,
         wrapper[w].session = s, wrapper[w].next = r, wrapper[w].thread = t
  PROVE  \E m \in Memory : /\ MemoryShape(m) /\ m.pc = pc /\ Become(w, m)
                           /\ m.session = s /\ m.next = r /\ m.thread = t
<1>1. PICK m : m = [wrapper[w] EXCEPT !.pc = pc]
  OBVIOUS
<1>2. pc \in Placed /\ pc # "import"
  BY DEF Placed, Swapping
<1>3. m \in Memory /\ m.pc = pc /\ m.session = s /\ m.next = r /\ m.thread = t
  BY <1>1, <1>2 DEF Memory
<1>4. MemoryShape(m)
  BY <1>2, <1>3 DEF MemoryShape
<1> QED
  BY <1>1, <1>3, <1>4 DEF Goes

\* A lineage write of a swap.
LEMMA SwapWriteKeeps ==
  ASSUME LineageInv, NEW w \in Wrapper, wrapper[w].pc \in Swapping, NEW pc \in Swapping, Goes(w, pc),
         UNCHANGED <<registry, pending, accepted>>,
         \/ \E a \in BOOLEAN : Writes(Put(wrapper[w].next, Thr(w), "verified", a))
         \/ Writes(Mark(wrapper[w].next))
  PROVE  LineageInv'
<1>1. PICK s \in Session, r \in Session, t \in Thread :
        /\ wrapper[w] \in Memory
        /\ wrapper[w].session = s /\ wrapper[w].next = r /\ wrapper[w].thread = t
        /\ tally.faults = 0 => Belongs(s, t) /\ Belongs(r, t)
  BY SwapOf
<1>2. PICK m \in Memory : /\ MemoryShape(m) /\ m.pc = pc /\ Become(w, m)
                          /\ m.session = s /\ m.next = r /\ m.thread = t
  BY <1>1, SwapMemory
<1>3. rows \in Seq(OldRow) /\ Keys
  BY DEF LineageInv, Shapes
<1>4. \/ \E a \in BOOLEAN : Writes(Put(r, t, "verified", a))
      \/ Writes(Mark(r))
  BY <1>1 DEF Thr
<1>5. \/ rows' \in Seq(OldRow) /\ Keys' /\ (Names(r, t) \/ SameNames) /\ Fine
      \/ rows' = rows /\ Fault
  BY <1>3, <1>4, PutNames, MarkNames DEF Writes
<1>6. tally.faults = 0 => Mine(r, t)
  BY <1>1 DEF Mine
<1>7. tally.faults = 0 /\ BelongsStays => HeldBelongs(m)'
  <2>1. tally.faults = 0 /\ BelongsStays => Belongs(s, t)' /\ Belongs(r, t)'
    BY <1>1 DEF BelongsStays
  <2> QED
    BY <1>2, <2>1, HeldAfter DEF Placed, Swapping
<1>8. m.pc # "reconcile"
  BY <1>2 DEF Swapping
<1> QED
  BY <1>2, <1>5, <1>6, <1>7, <1>8, WrittenKeeps

LEMMA SwapStepKeeps ==
  ASSUME LineageInv, NEW w \in Wrapper, SwapSucceeds(w) \/ OneShotStarts(w) \/ MarkAccepted(w)
  PROVE  LineageInv'
<1>1. CASE SwapSucceeds(w)
  BY <1>1, SwapWriteKeeps DEF SwapSucceeds, AtStep, Swapping, history
<1>2. CASE OneShotStarts(w)
  BY <1>2, SwapWriteKeeps DEF OneShotStarts, AtStep, Swapping, history
<1>3. CASE MarkAccepted(w)
  BY <1>3, SwapWriteKeeps DEF MarkAccepted, AtStep, Swapping, history
<1> QED
  BY <1>1, <1>2, <1>3

\* The swap is given up, or was never begun.
LEMMA BackToLive ==
  ASSUME LineageInv, NEW w \in Wrapper, wrapper[w].pc \in Swapping,
         Become(w, [wrapper[w] EXCEPT !.pc = "live", !.next = None]),
         UNCHANGED <<registry, rows, pending, accepted>>, Counts
  PROVE  LineageInv'
<1>1. PICK s \in Session, r \in Session, t \in Thread :
        /\ wrapper[w] \in Memory
        /\ wrapper[w].session = s /\ wrapper[w].next = r /\ wrapper[w].thread = t
        /\ tally.faults = 0 => Belongs(s, t) /\ Belongs(r, t)
  BY SwapOf
<1>2. PICK m : m = [wrapper[w] EXCEPT !.pc = "live", !.next = None]
  OBVIOUS
<1>3. m \in Memory /\ m.pc = "live" /\ m.session = s /\ m.thread = t
  BY <1>1, <1>2 DEF Memory, Placed
<1>4. MemoryShape(m) /\ SeenBound(m) /\ (tally.faults = 0 => HeldBelongs(m))
  BY <1>1, <1>3 DEF MemoryShape, SeenBound, HeldBelongs, Placed, Asking, Swapping
<1> QED
  BY <1>2, <1>3, <1>4, OnlyMemory

LEMMA WriteRebuiltKeeps ==
  ASSUME LineageInv, NEW w \in Wrapper, WriteRebuilt(w) \/ SwapFails(w)
  PROVE  LineageInv'
<1>1. wrapper[w].pc \in {"reserved", "written"} /\ UNCHANGED <<registry, rows, pending, accepted>>
  BY DEF WriteRebuilt, SwapFails, AtStep, stores, history, registry
<1>2. Counts
  BY CountsOf DEF WriteRebuilt, SwapFails, Fine, LineageInv, Shapes
<1>3. CASE Goes(w, "written")
  BY <1>1, <1>2, <1>3, GoesKeeps DEF Placed, Swapping
<1>4. CASE Become(w, [wrapper[w] EXCEPT !.pc = "live", !.next = None])
  BY <1>1, <1>2, <1>4, BackToLive DEF Swapping
<1> QED
  BY <1>3, <1>4 DEF WriteRebuilt, SwapFails

LEMMA AdvanceKeeps ==
  ASSUME LineageInv, NEW w \in Wrapper, Advance(w)
  PROVE  LineageInv'
<1>1. /\ wrapper[w].pc = "advance" /\ "advance" \in Swapping /\ rows' = rows /\ pending' = pending
      /\ Fine \/ Fault
  BY DEF Advance, AtStep, Swapping
<1>2. Counts
  BY <1>1, CountsOf DEF LineageInv, Shapes
<1>3. PICK s \in Session, r \in Session, t \in Thread :
        /\ wrapper[w] \in Memory
        /\ wrapper[w].session = s /\ wrapper[w].next = r /\ wrapper[w].thread = t
        /\ tally.faults = 0 => Belongs(s, t) /\ Belongs(r, t)
  BY <1>1, SwapOf
<1>4. CASE RegisterCurrent(r, t) /\ accepted' = [accepted EXCEPT ![t] = r] /\ Goes(w, "supersede")
  <2>1. PICK m \in Memory : /\ MemoryShape(m) /\ m.pc = "supersede" /\ Become(w, m)
                            /\ m.session = s /\ m.next = r /\ m.thread = t
    BY <1>3, <1>4, SwapMemory DEF Swapping
  <2>2. accepted' \in [Thread -> Session \cup {None, Foreign}]
    BY <1>4 DEF LineageInv, Shapes
  <2>3. Steps(w, m) /\ SeenBound(m)'
    BY <1>1, <1>2, <2>1, <2>2, StepsTo DEF SeenBound
  <2>4. rows' \in Seq(OldRow) /\ Keys' /\ SameNames
    BY <1>1, RowsRest
  <2>5. Binds(r, t) /\ (tally'.faults = 0 => Mine(r, t))
    BY <1>2, <1>3, <1>4 DEF Binds, Mine, Counts
  <2>6. tally'.faults = 0 /\ BelongsStays => HeldBelongs(m)'
    <3>1. tally'.faults = 0 /\ BelongsStays => Belongs(s, t)' /\ Belongs(r, t)'
      BY <1>2, <1>3 DEF BelongsStays, Counts
    <3> QED
      BY <2>1, <3>1, HeldAfter DEF Placed, Swapping
  <2> QED
    BY <2>3, <2>4, <2>5, <2>6, StoreStep
<1>5. CASE UNCHANGED <<registry, accepted>> /\ Goes(w, "observe")
  BY <1>1, <1>2, <1>5, GoesKeeps DEF Placed, Swapping
<1> QED
  BY <1>3, <1>4, <1>5 DEF Advance, Thr

\* The wrapper is on the session it swapped to.
LEMMA SwappedMemory ==
  ASSUME LineageInv, NEW w \in Wrapper, wrapper[w].pc \in Swapping, Swapped(w)
  PROVE  \E m \in Memory :
           /\ MemoryShape(m) /\ SeenBound(m) /\ Become(w, m)
           /\ tally.faults = 0 => HeldBelongs(m)
<1>1. PICK s \in Session, r \in Session, t \in Thread :
        /\ wrapper[w] \in Memory
        /\ wrapper[w].session = s /\ wrapper[w].next = r /\ wrapper[w].thread = t
        /\ tally.faults = 0 => Belongs(s, t) /\ Belongs(r, t)
  BY SwapOf
<1>2. PICK m : m = [wrapper[w] EXCEPT !.pc = "live", !.session = r, !.next = None, !.seen = None]
  OBVIOUS
<1>3. m \in Memory /\ m.pc = "live" /\ m.session = r /\ m.thread = t
  <2>1. PICK x \in Memory : x = wrapper[w]
    BY <1>1
  <2>2. m = [x EXCEPT !.pc = "live", !.session = r, !.next = None, !.seen = None]
    BY <1>2, <2>1
  <2>3. x.thread = t
    BY <1>1, <2>1
  <2> QED
    BY <2>2, <2>3 DEF Memory, Placed
<1>4. MemoryShape(m) /\ SeenBound(m) /\ (tally.faults = 0 => HeldBelongs(m))
  <2>1. MemoryShape(m)
    BY <1>3 DEF MemoryShape, Placed, Asking, Swapping
  <2>2. SeenBound(m)
    BY <1>2, <1>3 DEF SeenBound, Asking
  <2>3. tally.faults = 0 => HeldBelongs(m)
    BY <1>1, <1>3 DEF HeldBelongs, Placed, Swapping
  <2> QED
    BY <2>1, <2>2, <2>3
<1> QED
  BY <1>1, <1>2, <1>3, <1>4 DEF Swapped

LEMMA SupersedeKeeps ==
  ASSUME LineageInv, NEW w \in Wrapper, Supersede(w)
  PROVE  LineageInv'
<1>1. /\ wrapper[w].pc = "supersede" /\ "supersede" \in Swapping /\ Thr(w) \in Thread
      /\ UNCHANGED <<registry, rows, accepted>>
  BY MemoryOfWrapper DEF Supersede, AtStep, Swapping, Placed, MemoryShape, Thr, history
<1>2. PICK m \in Memory : /\ MemoryShape(m) /\ SeenBound(m) /\ Become(w, m)
                          /\ tally.faults = 0 => HeldBelongs(m)
  BY <1>1, SwappedMemory DEF Supersede
<1> QED
  BY <1>1, <1>2, ClearsKeeps DEF Supersede

LEMMA ObserveKeeps ==
  ASSUME LineageInv, NEW w \in Wrapper, Observe(w)
  PROVE  LineageInv'
<1>1. /\ wrapper[w].pc = "observe" /\ "observe" \in Swapping
      /\ UNCHANGED <<registry, rows, pending, accepted>>
      /\ Fine \/ Fault
  BY DEF Observe, AtStep, Swapping, stores, history, registry
<1>2. Counts
  BY <1>1, CountsOf DEF LineageInv, Shapes
<1>3. CASE Goes(w, "record")
  BY <1>1, <1>2, <1>3, GoesKeeps DEF Placed, Swapping
<1>4. ASSUME NEW c, c = (IF current[Thr(w)] = Foreign THEN None ELSE current[Thr(w)]),
             Become(w, [wrapper[w] EXCEPT !.pc = "record", !.seen = c])
      PROVE  LineageInv'
  <2>1. PICK s \in Session, r \in Session, t \in Thread :
          /\ wrapper[w] \in Memory
          /\ wrapper[w].session = s /\ wrapper[w].next = r /\ wrapper[w].thread = t
          /\ tally.faults = 0 => Belongs(s, t) /\ Belongs(r, t)
    BY <1>1, SwapOf
  <2>2. c \in Session \cup {None, Foreign}
    BY <1>4, <2>1 DEF LineageInv, Shapes, Thr
  <2>3. PICK m : m = [wrapper[w] EXCEPT !.pc = "record", !.seen = c]
    OBVIOUS
  <2>4. m \in Memory /\ m.pc = "record" /\ m.session = s /\ m.thread = t /\ m.next = r
    BY <2>1, <2>2, <2>3 DEF Memory, Placed
  <2>5. MemoryShape(m) /\ SeenBound(m) /\ (tally.faults = 0 => HeldBelongs(m))
    BY <2>1, <2>4 DEF MemoryShape, SeenBound, HeldBelongs, Placed, Asking, Swapping
  <2> QED
    BY <1>1, <1>2, <1>4, <2>3, <2>4, <2>5, OnlyMemory
<1> QED
  BY <1>3, <1>4 DEF Observe

LEMMA RecordKeeps ==
  ASSUME LineageInv, NEW w \in Wrapper, Record(w)
  PROVE  LineageInv'
<1>1. /\ wrapper[w].pc = "record" /\ "record" \in Swapping
      /\ UNCHANGED <<registry, rows>>
      /\ Fine \/ Fault
  BY DEF Record, AtStep, Swapping
<1>2. Counts
  BY <1>1, CountsOf DEF LineageInv, Shapes
<1>3. PICK s \in Session, r \in Session, t \in Thread :
        /\ wrapper[w] \in Memory
        /\ wrapper[w].session = s /\ wrapper[w].next = r /\ wrapper[w].thread = t
        /\ tally.faults = 0 => Belongs(s, t) /\ Belongs(r, t)
  BY <1>1, SwapOf
<1>4. PICK m \in Memory : /\ MemoryShape(m) /\ SeenBound(m) /\ Become(w, m)
                          /\ tally.faults = 0 => HeldBelongs(m)
  BY <1>1, SwappedMemory DEF Record
<1>5. PICK e : e = [session |-> r, previous |-> wrapper[w].seen]
  OBVIOUS
<1>6. e \in Entries /\ e.session = r
  BY <1>3, <1>5 DEF Entries, Memory
<1>7. pending' = [pending EXCEPT ![t] = e] \/ pending' = pending
  BY <1>3, <1>5 DEF Record, Thr
<1>8. accepted' \in [Thread -> Session \cup {None, Foreign}]
  BY <1>3 DEF Record, LineageInv, Shapes, Thr
<1>9. pending \in [Thread -> Entries \cup {NoPending}]
  BY DEF LineageInv, Shapes
<1>10. PendingStep
  <2>1. pending' \in [Thread -> Entries \cup {NoPending}]
    BY <1>6, <1>7, <1>9
  <2>2. \A u \in Thread : pending'[u] = pending[u] \/ (u = t /\ pending'[u] = e)
    BY <1>7, <1>9
  <2>3. tally'.faults = 0 => Belongs(r, t)'
    BY <1>1, <1>2, <1>3 DEF Counts, Belongs, InRows, registry
  <2> QED
    BY <1>6, <2>1, <2>2, <2>3 DEF PendingStep
<1>11. Steps(w, m)
  BY <1>2, <1>4, <1>8, <1>10 DEF Steps, Become
<1> QED
  BY <1>1, <1>2, <1>4, <1>11, QuietStep DEF registry, Counts

-----------------------------------------------------------------------------
(* What others do to a thread, and the beginning.                          *)

LEMMA BindHostKeeps ==
  ASSUME LineageInv, NEW t \in Thread, BindHost(t)
  PROVE  LineageInv'
<1>1. UNCHANGED <<alias, rows, pending, wrapper>>
  BY DEF BindHost
<1>2. Counts
  BY CountsOf DEF BindHost, Handover, LineageInv, Shapes
<1>3. /\ current' \in [Thread -> Session \cup {None, Foreign}]
      /\ accepted' \in [Thread -> Session \cup {None, Foreign}]
  BY DEF BindHost, LineageInv, Shapes
<1>4. PointerIsBound'
  BY <1>1, LineageAssumption DEF BindHost, PointerIsBound, LineageInv, Shapes
<1>5. PendingStep /\ wrapper' \in [Wrapper -> Memory] /\ alias' \in [Session -> Thread \cup {None}]
  BY <1>1 DEF PendingStep, LineageInv, Shapes
<1>6. rows' \in Seq(OldRow) /\ Keys'
  BY <1>1, RowsRest
<1>7. /\ \A s, u : Belongs(s, u)' <=> Belongs(s, u)
      /\ \A s, u : InRows(s, u)' <=> InRows(s, u)
  BY <1>1 DEF Belongs, InRows
<1>8. tally'.faults = 0 => RowsAgree' /\ BelongsStays
  BY <1>2, <1>7 DEF LineageInv, Homes, Counts, RowsAgree, BelongsStays
<1>9. \A v \in Wrapper : /\ wrapper'[v] = wrapper[v]
                         /\ Open(wrapper[v].session) => Open(wrapper[v].session)'
  BY <1>1 DEF Open, HasRow
<1> QED
  BY <1>1, <1>2, <1>3, <1>4, <1>5, <1>6, <1>8, <1>9, AllStep

LEMMA RolloutWriteKeeps ==
  ASSUME LineageInv, NEW s \in Session, NEW t \in Thread, RolloutWrite(s, t)
  PROVE  LineageInv'
<1>1. UNCHANGED <<pending, wrapper>> /\ RegisterCurrent(s, t)
  BY DEF RolloutWrite
<1>2. Counts
  BY CountsOf DEF RolloutWrite, Handover, LineageInv, Shapes
<1>3. accepted' \in [Thread -> Session \cup {None, Foreign}]
  BY DEF RolloutWrite, LineageInv, Shapes
<1>4. PendingStep /\ wrapper' \in [Wrapper -> Memory]
  BY <1>1 DEF PendingStep, LineageInv, Shapes
<1>5. rows \in Seq(OldRow) /\ Keys /\ alias \in [Session -> Thread \cup {None}]
  BY DEF LineageInv, Shapes
<1>6. /\ alias' \in [Session -> Thread \cup {None}]
      /\ current' \in [Thread -> Session \cup {None, Foreign}]
      /\ PointerIsBound'
      /\ \A u \in Session : alias[u] # None => alias'[u] = alias[u]
      /\ \A u \in Session \ {s} : alias'[u] = alias[u]
      /\ alias'[s] = alias[s] \/ (alias[s] = None /\ alias'[s] = t)
  BY <1>1, RegistryKeeps DEF LineageInv, Binds
<1>7. alias'[s] = t
  BY <1>1, <1>5 DEF RegisterCurrent
<1>8. rows' \in Seq(OldRow) /\ Keys' /\ Names(s, t)
  BY <1>5, PutNames DEF RolloutWrite
<1>9. Mine(s, t)
  BY <1>7 DEF Mine, RolloutWrite, NeverUsed
<1>10. ASSUME tally'.faults = 0
       PROVE  /\ RowsAgree' /\ BelongsStays
              /\ \A v \in Wrapper : wrapper[v].session \in Session /\ Open(wrapper[v].session)
                                    => Open(wrapper[v].session)'
  <2>1. RowsAgree
    BY <1>2, <1>10 DEF LineageInv, Homes, Counts
  <2>2. /\ RowsAgree'
        /\ \A u \in Session, v \in Thread : Belongs(u, v) => Belongs(u, v)'
        /\ \A u \in Session : Open(u) => Open(u)'
    BY <1>5, <1>6, <1>7, <1>8, <1>9, <2>1, AgreementKeeps
  <2>3. ASSUME NEW v \in Wrapper, wrapper[v].session \in Session, Open(wrapper[v].session)
        PROVE  Open(wrapper[v].session)'
    <3>1. PICK u \in Session : u = wrapper[v].session
      BY <2>3
    <3>2. Open(u)'
      BY <2>2, <2>3, <3>1 DEF Open, HasRow
    <3> QED
      BY <1>1, <3>1, <3>2
  <2> QED
    BY <2>2, <2>3 DEF BelongsStays
<1> QED
  BY <1>1, <1>2, <1>3, <1>4, <1>6, <1>8, <1>10, AllStep

LEMMA InitKeeps ==
  ASSUME LineageInit
  PROVE  LineageInv
<1>1. rows \in Seq(OldRow) /\ Keys
  BY LegacyAssumption DEF LineageInit, Keys, UniqueIn
<1>2. \A n \in 1..Len(rows) : rows[n] \in OldRow
  BY <1>1, RowNames
<1>3. Len(rows) \in Nat
  BY <1>1, LenProperties
<1>4. accepted \in [Thread -> Session \cup {None, Foreign}]
  <2>1. ASSUME NEW t \in Thread, AcceptedOf(t, rows) # {}
        PROVE  rows[Newest(AcceptedOf(t, rows))].session \in Session
    <3>1. AcceptedOf(t, rows) \subseteq 1..Len(rows)
      BY DEF AcceptedOf
    <3>2. Newest(AcceptedOf(t, rows)) \in 1..Len(rows)
      BY <1>3, <2>1, <3>1, NewestIsThere
    <3> QED
      BY <1>2, <3>2 DEF OldRow
  <2>2. accepted = [t \in Thread |-> IF AcceptedOf(t, rows) = {} THEN None
                                     ELSE rows[Newest(AcceptedOf(t, rows))].session]
    BY DEF LineageInit
  <2> QED
    BY <2>1, <2>2
<1>5. wrapper = [w \in Wrapper |-> Down] /\ Down \in Memory
  BY DownIsMemory DEF LineageInit
<1>6. MemoryShape(Down) /\ SeenBound(Down) /\ HeldBelongs(Down)
  BY DEF Down, MemoryShape, SeenBound, HeldBelongs, Placed, Asking, Swapping
<1>7. Shapes
  BY <1>1, <1>4, <1>5, <1>6 DEF LineageInit, Shapes, Tallies
<1>8. PointerIsBound
  BY LineageAssumption DEF LineageInit, PointerIsBound
<1>9. Homes
  <2>1. RowsAgree
    BY DEF LineageInit, RowsAgree, Belongs
  <2> QED
    BY <1>5, <1>6, <2>1 DEF Homes, LineageInit
<1> QED
  BY <1>1, <1>5, <1>6, <1>7, <1>8, <1>9 DEF LineageInv

-----------------------------------------------------------------------------
\* The invariant of the two stores: what they hold is well formed, a session has one row,
\* pointers name sessions bound to their thread, and until an access to a store has failed
\* every row, pending acceptance and wrapper agrees on the thread of each session.
THEOREM LineageInvariant == LineageSpec => []LineageInv
<1>1. LineageInit => LineageInv
  BY InitKeeps
<1>2. LineageInv /\ [LineageNext]_lineageVars => LineageInv'
  <2> SUFFICES ASSUME LineageInv, [LineageNext]_lineageVars
               PROVE  LineageInv'
    OBVIOUS
  <2>1. ASSUME NEW w \in Wrapper, NEW s \in Session, Launch(w, s) \/ Reserve(w, s)
        PROVE  LineageInv'
    BY <2>1, LaunchKeeps, ReserveKeeps
  <2>2. ASSUME NEW w \in Wrapper, NEW t \in Thread, Create(w, t)
        PROVE  LineageInv'
    BY <2>2, CreateKeeps
  <2>3. ASSUME NEW w \in Wrapper, Resolve(w) \/ Lookup(w) \/ Import(w) \/ Claim(w) \/ Acquire(w)
        PROVE  LineageInv'
    BY <2>3, ResolveKeeps, LookupKeeps, ImportKeeps, ClaimKeeps, AcquireKeeps
  <2>4. ASSUME NEW w \in Wrapper, Unavailable(w) \/ Exit(w) \/ Crash(w)
        PROVE  LineageInv'
    BY <2>4, EndKeeps
  <2>5. ASSUME NEW w \in Wrapper, ReadCurrent(w) \/ Reconcile(w) \/ Settle(w)
        PROVE  LineageInv'
    BY <2>5, ReadCurrentKeeps, ReconcileKeeps, SettleKeeps
  <2>6. ASSUME NEW w \in Wrapper,
               SweepOwner(w) \/ SweepAlias(w) \/ SweepPointer(w) \/ SweepPending(w) \/ Bind(w)
        PROVE  LineageInv'
    BY <2>6, SweepOwnerKeeps, SweepKeeps, BindKeeps
  <2>7. ASSUME NEW w \in Wrapper,
               \/ WriteRebuilt(w) \/ SwapFails(w) \/ SwapSucceeds(w) \/ OneShotStarts(w)
               \/ MarkAccepted(w) \/ Advance(w) \/ Supersede(w) \/ Observe(w) \/ Record(w)
        PROVE  LineageInv'
    BY <2>7, WriteRebuiltKeeps, SwapStepKeeps, AdvanceKeeps, SupersedeKeeps, ObserveKeeps, RecordKeeps
  <2>8. ASSUME NEW t \in Thread, BindHost(t) \/ \E s \in Session : RolloutWrite(s, t)
        PROVE  LineageInv'
    BY <2>8, BindHostKeeps, RolloutWriteKeeps
  <2>9. CASE UNCHANGED lineageVars
    <3>1. /\ UNCHANGED <<alias, current, rows, pending, wrapper, accepted, tally>>
      BY <2>9 DEF lineageVars
    <3>2. \A v \in Wrapper : MemoryShape(wrapper[v])' /\ SeenBound(wrapper[v])'
      BY <3>1 DEF LineageInv, Shapes, MemoryShape, AcceptedOf, SeenBound
    <3>3. PendingStep /\ Counts
      BY <3>1 DEF PendingStep, Counts, LineageInv, Shapes
    <3>4. tally'.faults = 0 => RowsAgree' /\ BelongsStays
      BY <3>1 DEF LineageInv, Homes, RowsAgree, BelongsStays, Belongs, InRows
    <3>5. \A v \in Wrapper : wrapper'[v] = wrapper[v] /\ (Open(wrapper[v].session) => Open(wrapper[v].session)')
      BY <3>1 DEF Open, HasRow
    <3>6. /\ rows' \in Seq(OldRow) /\ Keys' /\ PointerIsBound'
          /\ wrapper' \in [Wrapper -> Memory]
          /\ alias' \in [Session -> Thread \cup {None}]
          /\ current' \in [Thread -> Session \cup {None, Foreign}]
          /\ accepted' \in [Thread -> Session \cup {None, Foreign}]
      BY <3>1 DEF LineageInv, Shapes, Keys, PointerIsBound
    <3> QED
      BY <3>1, <3>2, <3>3, <3>4, <3>5, <3>6, AllStep
  <2>10. ASSUME LineageNext
         PROVE  LineageInv'
    BY <2>1, <2>2, <2>3, <2>4, <2>5, <2>6, <2>7, <2>8, <2>10 DEF LineageNext
  <2> QED
    BY <2>9, <2>10
<1> QED
  BY <1>1, <1>2, PTL DEF LineageSpec

\* The registry and the lineage name the same thread for a session that both know, as long
\* as no access to a store has failed: recordSessionThread and registerAlias are separate
\* writes to separate databases, with other wrappers and kills between them.
THEOREM SessionsHaveOneThread == LineageSpec => []OneThread
<1>1. LineageInv => OneThread
  <2> SUFFICES ASSUME LineageInv, tally.faults = 0,
                      NEW s \in Session, HasRow(s), alias[s] # None
               PROVE  RowOf(s).thread = alias[s]
    BY DEF OneThread
  <2>1. RowAt(s) \in 1..Len(rows) /\ rows[RowAt(s)].session = s
    BY RowIsThere
  <2>2. RowOf(s) \in OldRow
    BY <2>1, RowNames DEF RowOf, LineageInv, Shapes
  <2>3. InRows(s, RowOf(s).thread) /\ RowOf(s).thread \in Thread
    BY <2>1, <2>2 DEF InRows, RowOf, OldRow
  <2> QED
    BY <2>3 DEF LineageInv, Homes, RowsAgree, Belongs
<1> QED
  BY <1>1, LineageInvariant, PTL

\* advanceCurrentAlias and the writers beside it: whatever fails, the session a thread
\* points at is one that the registry binds to that thread.
THEOREM PointersNameTheirThread == LineageSpec => []PointerIsBound
<1>1. LineageInv => PointerIsBound
  BY DEF LineageInv
<1> QED
  BY <1>1, LineageInvariant, PTL
=============================================================================
