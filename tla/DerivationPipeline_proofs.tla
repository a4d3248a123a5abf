----------------------- MODULE DerivationPipeline_proofs -----------------------
(***************************************************************************)
(* What holds of DerivationPipeline for every thread, whatever its turns   *)
(* and messages, and for every number of workers.                          *)
(***************************************************************************)
EXTENDS DerivationPipeline, FiniteSetTheorems, TLAPS

-----------------------------------------------------------------------------
(* The inductive invariants.                                                *)

\* What a worker holds is of the kind its step needs.
WorkFits(k) ==
  /\ k.pc \in {"floors", "second"} => \E t \in Turn : k.op = Asm(t)
  /\ k.outcome = "deferred" => k.pc = "returned" /\ \E c \in Chunk : k.op = Brief(c)

\* Chunks are numbered without a gap, and closed ones have a turn.
ChunksInOrder ==
  /\ \A t \in Turn : \A c \in 1..placed[t] : \E u \in Turn : placed[u] = c
  /\ \A c \in full : \E u \in Turn : placed[u] = c

TypeInv ==
  /\ TypeOK
  /\ \A w \in Worker : WorkFits(work[w])
  /\ ChunksInOrder

InClosedTurn(m) == \E t \in Turn : t <= closed /\ m \in MembersOf(t)

\* The operations that may have a row: those of closed turns and closed chunks.
Known(o) == IF o[1] = "message" THEN InClosedTurn(o[2])
            ELSE IF o[1] \in {"turn", "compression"} THEN o[2] <= closed
            ELSE o[2] \in full

\* A floor is for a member without a result of its own, at that row's version.
FloorsFit(w) ==
  work[w].pc = "floors" =>
    \A m \in Message : work[w].floors[m] # 0 =>
      /\ Msg(m) \in Op /\ m \in Covers(work[w].op)
      /\ rows[Msg(m)].state # "absent" /\ rows[Msg(m)].ver = work[w].floors[m]

RowsAreKnown == \A o \in Op : rows[o].state # "absent" => Known(o)
AbsentIsNoRow == \A o \in Op : rows[o].state = "absent" => rows[o] = NoRow
PlacedAreClosed == \A t \in Turn : placed[t] # 0 => t <= closed
ContentIsClosed == \A m \in Message : rev[m] # 0 => InClosedTurn(m)
DeferredIsFull(w) == work[w].outcome = "deferred" => work[w].op[2] \in full

RecordInv ==
  /\ RowsAreKnown
  /\ AbsentIsNoRow
  /\ PlacedAreClosed
  /\ ContentIsClosed
  /\ \A w \in Worker : FloorsFit(w) /\ DeferredIsFull(w)

\* A worker in the middle of a claim, a handler or a completion, and the version its
\* row has as long as its result counts: an explicit derive of a message works past
\* the queue, at the version after that of the failed row.
Busy(w) == work[w].pc \in {"claimed", "floors", "returned"}
CountsAt(w) == IF IsCall(w, "message") THEN work[w].ver - 1 ELSE work[w].ver

IsFresh(o, of) == \A m \in Covers(o) : of[m] = rev[m]

WorkIsFresh(w) ==
  /\ Busy(w) => CountsAt(w) <= top[work[w].op]
  /\ /\ work[w].pc = "returned" /\ work[w].outcome = "ok"
     /\ rows[work[w].op].state # "absent" /\ rows[work[w].op].ver = CountsAt(w)
     => IsFresh(work[w].op, work[w].of)
  /\ work[w].pc = "floors" => IsFresh(work[w].op, work[w].of)

RowsAreCurrent == \A o \in Op : rows[o].state # "absent" => rows[o].ver = top[o]
QueueIsPast == \A n \in 1..Len(queue) : queue[n].ver <= top[queue[n].op]

TimelyInv ==
  /\ RowsAreCurrent
  /\ QueueIsPast
  /\ ReadyIsFresh
  /\ \A w \in Worker : WorkIsFresh(w)

FreshInv == RecordInv /\ (~ back => TimelyInv)

-----------------------------------------------------------------------------
(* Induction over numbers, from the least element of a set of them, and     *)
(* what it shows of Only.                                                   *)

LEMMA LeastNumber ==
  ASSUME NEW T \in SUBSET Nat, T # {}
  PROVE  \E n \in T : \A k \in T : n <= k
<1>1. PICK n \in T : \A k \in T : ~ (<<k, n>> \in OpToRel(<, Nat))
  BY NatLessThanWellFounded, WFMin, Zenon
<1>2. ASSUME NEW k \in T PROVE n <= k
  <2>1. k \in Nat /\ n \in Nat  OBVIOUS
  <2>2. ~ (<<k, n>> \in OpToRel(<, Nat))  BY <1>1
  <2>3. ~ (k < n)  BY <2>1, <2>2 DEF OpToRel
  <2> QED  BY <2>1, <2>3
<1> QED  BY <1>2

LEMMA SetInduction ==
  ASSUME NEW T, 0 \in T, \A n \in Nat : n \in T => n + 1 \in T
  PROVE  \A n \in Nat : n \in T
<1> SUFFICES ASSUME NEW x \in Nat, x \notin T PROVE FALSE  OBVIOUS
<1> DEFINE U == {n \in Nat : n \notin T}
<1>1. U \in SUBSET Nat /\ U # {}  OBVIOUS
<1>2. PICK n \in U : \A k \in U : n <= k
  <2> HIDE DEF U
  <2> QED  BY <1>1, LeastNumber
<1>3. n \in Nat /\ n # 0 /\ n - 1 \in Nat  BY <1>2
<1>4. n - 1 \notin U  BY <1>2, <1>3
<1> QED  BY <1>2, <1>3, <1>4

\* f holds, for each k up to n, the entries of s before k that are in K.
Keeps(f, s, K, n) ==
  f = [k \in 0..n |-> IF k = 0 THEN <<>>
                      ELSE IF s[k] \in K THEN Append(f[k - 1], s[k]) ELSE f[k - 1]]

\* The entries of r are those of s up to n that are in K, g[j] is the place of r[j].
Picks(g, r, s, K, n) ==
  /\ g \in [1..Len(r) -> 1..n]
  /\ \A j \in 1..Len(r) : r[j] = s[g[j]] /\ s[g[j]] \in K
  /\ \A i, j \in 1..Len(r) : i < j => g[i] < g[j]
  /\ \A i \in 1..n : s[i] \in K => \E j \in 1..Len(r) : g[j] = i

LEMMA KeepsExtends ==
  ASSUME NEW s, NEW K, NEW n \in Nat, NEW f, Keeps(f, s, K, n)
  PROVE  \E h : Keeps(h, s, K, n + 1)
<1> DEFINE h == [k \in 0..(n + 1) |-> IF k = 0 THEN <<>>
                   ELSE IF s[k] \in K THEN Append(f[k - 1], s[k]) ELSE f[k - 1]]
<1>1. ASSUME NEW k \in 0..n PROVE h[k] = f[k]
  <2>1. f[k] = IF k = 0 THEN <<>> ELSE IF s[k] \in K THEN Append(f[k - 1], s[k]) ELSE f[k - 1]
    BY <1>1 DEF Keeps
  <2>2. h[k] = IF k = 0 THEN <<>> ELSE IF s[k] \in K THEN Append(f[k - 1], s[k]) ELSE f[k - 1]
    OBVIOUS
  <2> QED  BY <2>1, <2>2
<1>2. h = [k \in 0..(n + 1) |-> IF k = 0 THEN <<>>
             ELSE IF s[k] \in K THEN Append(h[k - 1], s[k]) ELSE h[k - 1]]
  <2>1. ASSUME NEW k \in 0..(n + 1), k # 0 PROVE h[k - 1] = f[k - 1]
    <3>1. k - 1 \in 0..n  BY <2>1
    <3> HIDE DEF h
    <3> QED  BY <1>1, <3>1
  <2>2. ASSUME NEW k \in 0..(n + 1)
        PROVE  h[k] = IF k = 0 THEN <<>>
                      ELSE IF s[k] \in K THEN Append(h[k - 1], s[k]) ELSE h[k - 1]
    <3>1. h[k] = IF k = 0 THEN <<>>
                 ELSE IF s[k] \in K THEN Append(f[k - 1], s[k]) ELSE f[k - 1]
      OBVIOUS
    <3>2. CASE k = 0  BY <3>1, <3>2
    <3>3. CASE k # 0
      <4>1. h[k - 1] = f[k - 1]  BY <2>1, <3>3
      <4> HIDE DEF h
      <4> QED  BY <3>1, <3>3, <4>1
    <3> QED  BY <3>2, <3>3
  <2> QED  BY <2>2, Zenon
<1>3. Keeps(h, s, K, n + 1)
  <2> HIDE DEF h
  <2> QED  BY <1>2 DEF Keeps
<1> QED  BY <1>3

LEMMA OnlyDefined ==
  ASSUME NEW s, NEW K, Len(s) \in Nat
  PROVE  \E f : Keeps(f, s, K, Len(s)) /\ Only(s, K) = f[Len(s)]
<1> DEFINE T == {n \in Nat : \E f : Keeps(f, s, K, n)}
<1>1. 0 \in T
  <2> DEFINE f == [k \in 0..0 |-> <<>>]
  <2>1. f = [k \in 0..0 |-> IF k = 0 THEN <<>>
                            ELSE IF s[k] \in K THEN Append(f[k - 1], s[k]) ELSE f[k - 1]]
    OBVIOUS
  <2> HIDE DEF f
  <2> QED  BY <2>1 DEF Keeps
<1>2. \A n \in Nat : n \in T => n + 1 \in T
  BY KeepsExtends
<1>3. \A n \in Nat : n \in T
  <2> HIDE DEF T
  <2> QED  BY <1>1, <1>2, SetInduction
<1>4. \E f : Keeps(f, s, K, Len(s))  BY <1>3
<1> DEFINE F == CHOOSE f : f = [k \in 0..Len(s) |-> IF k = 0 THEN <<>>
                   ELSE IF s[k] \in K THEN Append(f[k - 1], s[k]) ELSE f[k - 1]]
<1>5. Keeps(F, s, K, Len(s))  BY <1>4 DEF Keeps
<1>6. Only(s, K) = F[Len(s)]  BY DEF Only
<1> QED  BY <1>5, <1>6

LEMMA PicksAnother ==
  ASSUME NEW S, NEW s \in Seq(S), NEW K, NEW n \in Nat, n + 1 <= Len(s),
         NEW r \in Seq(S), NEW g, Picks(g, r, s, K, n)
  PROVE  /\ s[n + 1] \in K
              => \E h : Picks(h, Append(r, s[n + 1]), s, K, n + 1)
         /\ s[n + 1] \notin K => \E h : Picks(h, r, s, K, n + 1)
<1> USE DEF Picks
<1>1. ASSUME s[n + 1] \in K
      PROVE  \E h : Picks(h, Append(r, s[n + 1]), s, K, n + 1)
  <2> DEFINE p == Append(r, s[n + 1])
             h == [j \in 1..(Len(r) + 1) |-> IF j = Len(r) + 1 THEN n + 1 ELSE g[j]]
  <2>1. /\ p \in Seq(S) /\ Len(p) = Len(r) + 1 /\ p[Len(r) + 1] = s[n + 1]
        /\ \A j \in 1..Len(r) : p[j] = r[j]
    BY <1>1
  <2>2. h \in [1..Len(p) -> 1..(n + 1)]  BY <2>1
  <2>3. h[Len(r) + 1] = n + 1 /\ \A j \in 1..Len(r) : h[j] = g[j]  OBVIOUS
  <2> HIDE DEF h, p
  <2>4. \A j \in 1..Len(p) : p[j] = s[h[j]] /\ s[h[j]] \in K  BY <1>1, <2>1, <2>3
  <2>5. ASSUME NEW i \in 1..Len(p), NEW j \in 1..Len(p), i < j PROVE h[i] < h[j]
    <3>1. i \in 1..Len(r) /\ h[i] = g[i] /\ g[i] \in 1..n  BY <2>1, <2>3, <2>5
    <3>2. CASE j = Len(r) + 1  BY <3>1, <3>2, <2>3
    <3>3. CASE j # Len(r) + 1
      <4>1. j \in 1..Len(r) /\ h[j] = g[j]  BY <2>1, <2>3, <3>3
      <4> QED  BY <3>1, <4>1, <2>5
    <3> QED  BY <3>2, <3>3
  <2>6. ASSUME NEW i \in 1..(n + 1), s[i] \in K PROVE \E j \in 1..Len(p) : h[j] = i
    <3>1. CASE i = n + 1
      <4>1. Len(r) + 1 \in 1..Len(p)  BY <2>1
      <4> QED  BY <3>1, <4>1, <2>3
    <3>2. CASE i # n + 1
      <4>1. i \in 1..n  BY <3>2
      <4>2. PICK j \in 1..Len(r) : g[j] = i  BY <4>1, <2>6
      <4>3. j \in 1..Len(p) /\ h[j] = i  BY <4>2, <2>1, <2>3
      <4> QED  BY <4>3
    <3> QED  BY <3>1, <3>2
  <2>7. Picks(h, p, s, K, n + 1)  BY <2>2, <2>4, <2>5, <2>6
  <2> QED  BY <2>7 DEF p
<1>2. ASSUME s[n + 1] \notin K
      PROVE  \E h : Picks(h, r, s, K, n + 1)
  <2>1. g \in [1..Len(r) -> 1..(n + 1)]  OBVIOUS
  <2>2. ASSUME NEW i \in 1..(n + 1), s[i] \in K PROVE \E j \in 1..Len(r) : g[j] = i
    <3>1. i \in 1..n  BY <1>2, <2>2
    <3> QED  BY <2>2, <3>1
  <2>3. /\ \A j \in 1..Len(r) : r[j] = s[g[j]] /\ s[g[j]] \in K
        /\ \A i, j \in 1..Len(r) : i < j => g[i] < g[j]
    OBVIOUS
  <2>4. \A i \in 1..(n + 1) : s[i] \in K => \E j \in 1..Len(r) : g[j] = i  BY <2>2
  <2>5. Picks(g, r, s, K, n + 1)  BY <2>1, <2>3, <2>4, Zenon
  <2> HIDE DEF Picks
  <2> QED  BY <2>5
<1> HIDE DEF Picks
<1> QED  BY <1>1, <1>2

\* What Only keeps of a sequence is a part of it, in its order and with all that is in K.
LEMMA OnlyPicks ==
  ASSUME NEW S, NEW s \in Seq(S), NEW K
  PROVE  /\ Only(s, K) \in Seq(S)
         /\ \E g : Picks(g, Only(s, K), s, K, Len(s))
<1>1. PICK f : Keeps(f, s, K, Len(s)) /\ Only(s, K) = f[Len(s)]
  BY OnlyDefined
<1> DEFINE T == {n \in Nat : n <= Len(s) => f[n] \in Seq(S) /\ \E g : Picks(g, f[n], s, K, n)}
<1>2. 0 \in T
  <2>1. f[0] = <<>>  BY <1>1 DEF Keeps
  <2>2. Picks(<<>>, <<>>, s, K, 0)  BY DEF Picks
  <2>3. f[0] \in Seq(S)  BY <2>1
  <2>4. \E g : Picks(g, f[0], s, K, 0)  BY <2>1, <2>2, Zenon
  <2> QED  BY <2>3, <2>4
<1>3. ASSUME NEW n \in Nat, n \in T PROVE n + 1 \in T
  <2> SUFFICES ASSUME n + 1 <= Len(s)
               PROVE  f[n + 1] \in Seq(S) /\ \E g : Picks(g, f[n + 1], s, K, n + 1)
    OBVIOUS
  <2>1. f[n] \in Seq(S)  BY <1>3
  <2>2. PICK g : Picks(g, f[n], s, K, n)  BY <1>3
  <2>3. f[n + 1] = IF s[n + 1] \in K THEN Append(f[n], s[n + 1]) ELSE f[n]
    <3>1. n + 1 \in 0..Len(s) /\ n + 1 # 0 /\ (n + 1) - 1 = n  OBVIOUS
    <3> HIDE DEF T
    <3> QED  BY <1>1, <3>1 DEF Keeps
  <2>4. s[n + 1] \in S  OBVIOUS
  <2>5. /\ s[n + 1] \in K
              => \E h : Picks(h, Append(f[n], s[n + 1]), s, K, n + 1)
        /\ s[n + 1] \notin K => \E h : Picks(h, f[n], s, K, n + 1)
    BY <2>1, <2>2, PicksAnother
  <2> HIDE DEF T
  <2> QED  BY <2>1, <2>3, <2>4, <2>5
<1>4. \A n \in Nat : n \in T
  <2> HIDE DEF T
  <2> QED  BY <1>2, <1>3, SetInduction
<1>5. Len(s) \in T /\ Len(s) \in Nat  BY <1>4
<1> QED  BY <1>1, <1>5

-----------------------------------------------------------------------------
(* The constants and the operations.                                        *)

LEMMA ThreadFacts ==
  /\ Len(Members) \in Nat /\ Len(Members) > 0 /\ 1 \in Turn
  /\ \A t \in Turn : t \in Nat /\ Members[t] \in Seq(Message) /\ MembersOf(t) \subseteq Message
BY DerivationPipelineAssumption DEF Turn, MembersOf

LEMMA TurnOfMember ==
  ASSUME NEW t \in Turn, NEW m \in MembersOf(t)
  PROVE  TurnOf(m) = t
BY DerivationPipelineAssumption DEF TurnOf

LEMMA OpKinds ==
  /\ \A m \in Derivable : Msg(m) \in Op
  /\ \A t \in Turn : Asm(t) \in Op /\ Cmp(t) \in Op
  /\ \A c \in Chunk : Detailed(c) \in Op /\ Brief(c) \in Op
  /\ \A o \in Op : \/ o[2] \in Derivable /\ o = Msg(o[2])
                   \/ o[2] \in Turn /\ (o = Asm(o[2]) \/ o = Cmp(o[2]))
                   \/ o[2] \in Chunk /\ (o = Detailed(o[2]) \/ o = Brief(o[2]))
BY DEF Op, Msg, Asm, Cmp, Detailed, Brief

LEMMA OpTags ==
  ASSUME NEW x
  PROVE  /\ Msg(x)[1] = "message" /\ Msg(x)[2] = x
         /\ Asm(x)[1] = "turn" /\ Asm(x)[2] = x
         /\ Cmp(x)[1] = "compression" /\ Cmp(x)[2] = x
         /\ Detailed(x)[1] = "detailed" /\ Detailed(x)[2] = x
         /\ Brief(x)[1] = "brief" /\ Brief(x)[2] = x
BY DEF Msg, Asm, Cmp, Detailed, Brief

LEMMA NotAnOp ==
  ASSUME NEW x
  PROVE  /\ Msg(x) \in Op => x \in Derivable
         /\ Asm(x) \in Op => x \in Turn
         /\ Cmp(x) \in Op => x \in Turn
         /\ Detailed(x) \in Op => x \in Chunk
         /\ Brief(x) \in Op => x \in Chunk
<1>1. ASSUME NEW o \in Op
      PROVE  \/ o[1] = "message" /\ o[2] \in Derivable
             \/ o[1] \in {"turn", "compression"} /\ o[2] \in Turn
             \/ o[1] \in {"detailed", "brief"} /\ o[2] \in Chunk
  BY OpKinds, OpTags
<1> QED  BY <1>1, OpTags

Request == [op : Op, ver : Nat]

LEMMA ContentTyped == NoContent \in Content /\ NoRow \in RowRec
BY DEF NoContent, Content, NoRow, RowRec, States

LEMMA PendFacts ==
  ASSUME NEW req \in Seq(Request), NEW rws \in [Op -> RowRec]
  PROVE  /\ Pend(rws, req) \in [Op -> RowRec]
         /\ \A o \in Op :
              \/ \E n \in 1..Len(req) :
                   /\ req[n].op = o
                   /\ Pend(rws, req)[o] = [state |-> "pending", of |-> NoContent, ver |-> req[n].ver]
              \/ (\A n \in 1..Len(req) : req[n].op # o) /\ Pend(rws, req)[o] = rws[o]
<1>1. ASSUME NEW o \in Op
      PROVE  /\ Pend(rws, req)[o] \in RowRec
             /\ \/ \E n \in 1..Len(req) :
                     /\ req[n].op = o
                     /\ Pend(rws, req)[o] = [state |-> "pending", of |-> NoContent, ver |-> req[n].ver]
                \/ (\A n \in 1..Len(req) : req[n].op # o) /\ Pend(rws, req)[o] = rws[o]
  <2>1. CASE \E n \in 1..Len(req) : req[n].op = o
    <3> DEFINE k == CHOOSE n \in 1..Len(req) : req[n].op = o
    <3>1. k \in 1..Len(req) /\ req[k].op = o  BY <2>1
    <3>2. Pend(rws, req)[o] = [state |-> "pending", of |-> NoContent, ver |-> req[k].ver]
      BY <2>1 DEF Pend
    <3> HIDE DEF k
    <3>3. req[k] \in Request /\ req[k].ver \in Nat
      <4>1. req[k] \in Request  BY <3>1
      <4> QED  BY <4>1 DEF Request
    <3>4. Pend(rws, req)[o] \in RowRec  BY <3>2, <3>3, ContentTyped DEF RowRec, States
    <3> QED  BY <3>1, <3>2, <3>4
  <2>2. CASE \A n \in 1..Len(req) : req[n].op # o
    BY <2>2 DEF Pend
  <2> QED  BY <2>1, <2>2
<1>2. Pend(rws, req) = [o \in Op |-> Pend(rws, req)[o]]  BY DEF Pend
<1>3. Pend(rws, req) \in [Op -> RowRec]
  <2> DEFINE p == Pend(rws, req)
  <2>1. p = [o \in Op |-> p[o]] /\ \A o \in Op : p[o] \in RowRec  BY <1>1, <1>2
  <2> HIDE DEF p
  <2>2. p \in [Op -> RowRec]  BY <2>1
  <2> QED  BY <2>2 DEF p
<1> QED  BY <1>1, <1>3

LEMMA EnqueueTyped ==
  ASSUME NEW q \in Seq(Item), NEW rws \in [Op -> RowRec], NEW req \in Seq(Request),
         rows \in [Op -> RowRec], top \in [Op -> Nat], back \in BOOLEAN, Enqueue(q, rws, req)
  PROVE  queue' \in Seq(Item) /\ rows' \in [Op -> RowRec] /\ top' \in [Op -> Nat] /\ back' \in BOOLEAN
<1>1. rows' \in [Op -> RowRec]  BY PendFacts DEF Enqueue
<1>2. queue' \in Seq(Item)
  <2>1. ASSUME NEW n \in 1..Len(req) PROVE NewItem(req[n]) \in Item
    <3>1. req[n] \in Request  OBVIOUS
    <3>2. req[n].op \in Op /\ req[n].ver \in Nat  BY <3>1 DEF Request
    <3> QED  BY <3>2 DEF NewItem, Item
  <2>2. [n \in 1..Len(req) |-> NewItem(req[n])] \in Seq(Item)  BY <2>1
  <2> QED  BY <2>2 DEF Enqueue
<1>3. top' \in [Op -> Nat]
  <2>1. Pend(rows, req) \in [Op -> RowRec]  BY PendFacts
  <2>2. \A o \in Op : Pend(rows, req)[o].ver \in Nat /\ top[o] \in Nat  BY <2>1 DEF RowRec
  <2> QED  BY <2>2 DEF Enqueue, Remember
<1>4. back' \in BOOLEAN  BY DEF Enqueue, Remember
<1> QED  BY <1>1, <1>2, <1>3, <1>4

-----------------------------------------------------------------------------
(* Chunks.                                                                  *)

LEMMA LastChunkFacts ==
  ASSUME placed \in [Turn -> 0..Len(Members)], ChunksInOrder
  PROVE  /\ LastChunk \in 0..Len(Members)
         /\ \A t \in Turn : placed[t] <= LastChunk
         /\ \A c \in 1..LastChunk : \E u \in Turn : placed[u] = c
<1> DEFINE T == {c \in Nat : \A t \in Turn : placed[t] <= c}
<1>1. Len(Members) \in T /\ T \in SUBSET Nat
  BY ThreadFacts
<1>2. PICK c \in T : \A k \in T : c <= k
  <2> HIDE DEF T
  <2> QED  BY <1>1, LeastNumber
<1>3. c \in Nat /\ c <= Len(Members) /\ \A t \in Turn : placed[t] <= c
  BY <1>1, <1>2, ThreadFacts
<1>4. c = 0 \/ \E t \in Turn : placed[t] = c
  <2> SUFFICES ASSUME c # 0, \A t \in Turn : placed[t] # c PROVE FALSE  OBVIOUS
  <2>1. \A t \in Turn : placed[t] \in Nat  BY ThreadFacts
  <2>2. \A t \in Turn : placed[t] <= c - 1  BY <1>3, <2>1
  <2>3. c - 1 \in T  BY <2>2, <1>3
  <2> HIDE DEF T
  <2> QED  BY <1>2, <1>3, <2>3
<1>5. /\ LastChunk \in 0..Len(Members)
      /\ \A t \in Turn : placed[t] <= LastChunk
      /\ LastChunk = 0 \/ \E t \in Turn : placed[t] = LastChunk
  <2>1. c \in 0..Len(Members)  BY <1>3, ThreadFacts
  <2> HIDE DEF T
  <2> QED  BY <1>3, <1>4, <2>1 DEF LastChunk
<1>6. ASSUME NEW d \in 1..LastChunk PROVE \E u \in Turn : placed[u] = d
  <2>1. PICK t \in Turn : placed[t] = LastChunk  BY <1>5
  <2>2. d \in 1..placed[t]  BY <2>1
  <2> QED  BY <2>2 DEF ChunksInOrder
<1> QED  BY <1>5, <1>6

\* A turn that lies in no chunk leaves a chunk's number free.
LEMMA RoomForChunk ==
  ASSUME placed \in [Turn -> 0..Len(Members)], ChunksInOrder, NEW t \in Turn, placed[t] = 0
  PROVE  LastChunk + 1 \in Chunk
<1> DEFINE S == {u \in Turn : placed[u] # 0}
           T == 1..LastChunk
           f == [u \in S |-> placed[u]]
<1>1. LastChunk \in Nat  BY LastChunkFacts, ThreadFacts
<1>2. f \in Surjection(S, T)
  <2>1. \A u \in S : placed[u] \in T
    <3>1. \A u \in Turn : placed[u] \in Nat /\ placed[u] <= LastChunk  BY LastChunkFacts, ThreadFacts
    <3> QED  BY <3>1, <1>1
  <2>2. \A c \in T : \E u \in S : f[u] = c
    <3>1. \A c \in T : c # 0 /\ \E u \in Turn : placed[u] = c  BY LastChunkFacts, <1>1
    <3> QED  BY <3>1
  <2> QED  BY <2>1, <2>2 DEF Surjection
<1>3. /\ IsFiniteSet(Turn) /\ Cardinality(Turn) = Len(Members)
      /\ Cardinality(T) = LastChunk
  <2>1. ASSUME NEW n \in Nat PROVE IsFiniteSet(1..n) /\ Cardinality(1..n) = n
    <3>1. IsFiniteSet(1..n) /\ Cardinality(1..n) = IF 1 > n THEN 0 ELSE n - 1 + 1
      BY 1 \in Int, n \in Int, FS_Interval
    <3> QED  BY <3>1
  <2>2. Turn = 1..Len(Members) /\ Len(Members) \in Nat  BY ThreadFacts DEF Turn
  <2> QED  BY <2>1, <2>2, <1>1
<1>4. /\ IsFiniteSet(Turn \ {t})
      /\ Cardinality(Turn \ {t}) = Len(Members) - 1
  BY <1>3, FS_RemoveElement
<1>5. S \in SUBSET (Turn \ {t})  OBVIOUS
<1> HIDE DEF S, T, f
<1>6. IsFiniteSet(S) /\ Cardinality(S) <= Len(Members) - 1 /\ Cardinality(S) \in Nat
  BY <1>4, <1>5, FS_Subset, FS_CardinalityType
<1>7. Cardinality(T) <= Cardinality(S)
  BY <1>2, <1>6, FS_Surjection
<1>8. LastChunk <= Len(Members) - 1  BY <1>1, <1>3, <1>6, <1>7, ThreadFacts
<1> QED  BY <1>1, <1>8, ThreadFacts DEF Chunk, Turn

\* Where a turn that has no chunk goes, and what that closes.
LEMMA PlaceFacts ==
  ASSUME placed \in [Turn -> 0..Len(Members)], full \subseteq Chunk, ChunksInOrder,
         NEW t \in Turn, NEW target \in BOOLEAN, NEW max \in BOOLEAN
  PROVE  LET place == Place(t, target, max)
         IN  /\ place.chunk \in Chunk /\ place.closes \in Seq(Chunk)
             /\ placed[t] # 0 => place.chunk = placed[t] /\ place.closes = <<>>
             /\ placed[t] = 0 => place.chunk \notin full
             /\ \A c \in 1..place.chunk : c = place.chunk \/ \E u \in Turn : placed[u] = c
             /\ \A n \in 1..Len(place.closes) :
                  place.closes[n] = place.chunk \/ \E u \in Turn : placed[u] = place.closes[n]
<1> DEFINE place == Place(t, target, max)
<1>1. LastChunk \in Nat /\ LastChunk <= Len(Members) /\ Len(Members) \in Nat
  BY LastChunkFacts, ThreadFacts
<1>2. CASE placed[t] # 0
  <2>1. place.chunk = placed[t] /\ place.closes = <<>>  BY <1>2 DEF Place
  <2>2. placed[t] \in Chunk  BY <1>2, ThreadFacts DEF Chunk, Turn
  <2>3. \A c \in 1..placed[t] : \E u \in Turn : placed[u] = c  BY DEF ChunksInOrder
  <2> HIDE DEF place
  <2>4. place.closes \in Seq(Chunk) /\ Len(place.closes) = 0  BY <2>1
  <2> QED  BY <1>2, <2>1, <2>2, <2>3, <2>4 DEF place
<1>3. CASE placed[t] = 0
  <2> DEFINE chunk == IF Opened /\ ~ target THEN LastChunk ELSE LastChunk + 1
             first == IF Opened /\ target THEN <<LastChunk>> ELSE <<>>
             second == IF max THEN <<chunk>> ELSE <<>>
  <2>1. place.chunk = chunk /\ place.closes = first \o second
    BY <1>3 DEF Place
  <2>2. \A c \in full : c \in Nat /\ c <= LastChunk
    <3>1. \A c \in full : c \in Nat /\ \E u \in Turn : placed[u] = c
      BY ThreadFacts DEF ChunksInOrder, Chunk, Turn
    <3> QED  BY <3>1, LastChunkFacts
  <2>3. LastChunk + 1 \in Chunk  BY <1>3, RoomForChunk
  <2>4. Opened => LastChunk \in Chunk /\ LastChunk \notin full
    BY <1>1 DEF Opened, Chunk, Turn
  <2>5. chunk \in Chunk  BY <2>3, <2>4
  <2>6. chunk \notin full
    <3>1. CASE Opened /\ ~ target  BY <3>1, <2>4
    <3>2. CASE ~ (Opened /\ ~ target)  BY <3>2, <2>2, <1>1
    <3> QED  BY <3>1, <3>2
  <2>7. \A c \in 1..chunk : c = chunk \/ \E u \in Turn : placed[u] = c
    <3>1. \A c \in 1..LastChunk : \E u \in Turn : placed[u] = c  BY LastChunkFacts
    <3>2. CASE Opened /\ ~ target  BY <3>1, <3>2
    <3>3. CASE ~ (Opened /\ ~ target)  BY <3>1, <3>3, <1>1
    <3> QED  BY <3>2, <3>3
  <2>8. /\ first \in Seq(Chunk)
        /\ \A n \in 1..Len(first) : \E u \in Turn : placed[u] = first[n]
    <3>1. CASE Opened /\ target
      <4>1. \E u \in Turn : placed[u] = LastChunk
        <5>1. LastChunk \in 1..LastChunk  BY <1>1, <3>1 DEF Opened
        <5> QED  BY <5>1, LastChunkFacts
      <4>2. first = <<LastChunk>> /\ LastChunk \in Chunk  BY <3>1, <2>4
      <4> HIDE DEF first
      <4>3. first \in Seq(Chunk) /\ Len(first) = 1 /\ first[1] = LastChunk  BY <4>2
      <4> QED  BY <4>1, <4>3
    <3>2. CASE ~ (Opened /\ target)
      <4>1. first = <<>>  BY <3>2
      <4> HIDE DEF first
      <4> QED  BY <4>1
    <3> QED  BY <3>1, <3>2
  <2>9. /\ second \in Seq(Chunk)
        /\ \A n \in 1..Len(second) : second[n] = chunk
    <3>1. CASE max
      <4>1. second = <<chunk>>  BY <3>1
      <4> HIDE DEF second, chunk
      <4>2. second \in Seq(Chunk) /\ Len(second) = 1 /\ second[1] = chunk  BY <4>1, <2>5
      <4> QED  BY <4>2
    <3>2. CASE ~ max
      <4>1. second = <<>>  BY <3>2
      <4> HIDE DEF second, chunk
      <4> QED  BY <4>1
    <3> QED  BY <3>1, <3>2
  <2> HIDE DEF first, second, chunk
  <2>10. /\ first \o second \in Seq(Chunk)
         /\ \A n \in 1..Len(first \o second) :
              (first \o second)[n] = chunk \/ \E u \in Turn : placed[u] = (first \o second)[n]
    <3>1. Len(first \o second) = Len(first) + Len(second) /\ Len(first) \in Nat /\ Len(second) \in Nat
      BY <2>8, <2>9
    <3>2. ASSUME NEW n \in 1..Len(first \o second)
          PROVE  (first \o second)[n] = chunk \/ \E u \in Turn : placed[u] = (first \o second)[n]
      <4>1. CASE n <= Len(first)
        <5>1. n \in 1..Len(first) /\ (first \o second)[n] = first[n]  BY <4>1, <3>1, <2>8, <2>9
        <5> QED  BY <5>1, <2>8
      <4>2. CASE n > Len(first)
        <5>1. n - Len(first) \in 1..Len(second) /\ (first \o second)[n] = second[n - Len(first)]
          BY <4>2, <3>1, <2>8, <2>9
        <5> QED  BY <5>1, <2>9
      <4> QED  BY <4>1, <4>2, <3>1
    <3> QED  BY <3>2, <2>8, <2>9
  <2> HIDE DEF place
  <2> QED  BY <1>3, <2>1, <2>5, <2>6, <2>7, <2>10 DEF place
<1> QED  BY <1>2, <1>3

LEMMA SummariesTyped ==
  ASSUME NEW cs \in Seq(Chunk)
  PROVE  /\ Summaries(cs) \in Seq(Request) /\ Len(Summaries(cs)) = 2 * Len(cs)
         /\ \A n \in 1..Len(Summaries(cs)) :
              \E k \in 1..Len(cs) : Summaries(cs)[n].op \in {Detailed(cs[k]), Brief(cs[k])}
         /\ \A n \in 1..Len(Summaries(cs)) : Summaries(cs)[n].ver = 1
<1> DEFINE of(n) == IF n % 2 = 1 THEN Detailed(cs[(n + 1) \div 2]) ELSE Brief(cs[n \div 2])
<1>0. Len(cs) \in Nat  OBVIOUS
<1>1. ASSUME NEW n \in 1..(2 * Len(cs))
      PROVE  \E k \in 1..Len(cs) : of(n) \in {Detailed(cs[k]), Brief(cs[k])}
  <2>1. CASE n % 2 = 1
    <3>1. (n + 1) \div 2 \in 1..Len(cs)  BY <2>1, <1>0
    <3> QED  BY <3>1, <2>1
  <2>2. CASE n % 2 # 1
    <3>1. n \div 2 \in 1..Len(cs)  BY <2>2, <1>0
    <3> QED  BY <3>1, <2>2
  <2> QED  BY <2>1, <2>2
<1>2. Summaries(cs) = [n \in 1..(2 * Len(cs)) |-> At(of(n), 1)]  BY DEF Summaries
<1> HIDE DEF of
<1>3. ASSUME NEW n \in 1..(2 * Len(cs)) PROVE At(of(n), 1) \in Request
  <2>1. PICK k \in 1..Len(cs) : of(n) \in {Detailed(cs[k]), Brief(cs[k])}  BY <1>1
  <2>2. cs[k] \in Chunk  OBVIOUS
  <2>3. of(n) \in Op  BY <2>1, <2>2, OpKinds
  <2> QED  BY <2>3 DEF At, Request
<1>4. Summaries(cs) \in Seq(Request) /\ Len(Summaries(cs)) = 2 * Len(cs)
  <2>1. 2 * Len(cs) \in Nat  BY <1>0
  <2> QED  BY <2>1, <1>2, <1>3
<1>5. \A n \in 1..(2 * Len(cs)) : Summaries(cs)[n].op = of(n) /\ Summaries(cs)[n].ver = 1
  BY <1>2 DEF At
<1> QED  BY <1>1, <1>4, <1>5

-----------------------------------------------------------------------------
(* Types.                                                                   *)

LEMMA IdleTyped == Idle \in Work /\ WorkFits(Idle) /\ Idle.pc = "idle" /\ NoContent \in [Message -> Nat]
<1>1. 1 \in Turn  BY ThreadFacts
<1>2. (CHOOSE o \in Op : TRUE) \in Op  BY <1>1, OpKinds
<1> QED  BY <1>2 DEF Idle, Work, WorkFits, NoContent, Content

\* Idle as another worker's starting point, its fields filled in.
LEMMA HoldingTyped ==
  ASSUME NEW i \in Item, NEW call \in BOOLEAN
  PROVE  /\ Holding(i, call) \in Work /\ WorkFits(Holding(i, call))
         /\ Holding(i, call).pc = "claimed" /\ Holding(i, call).op = i.op
         /\ Holding(i, call).ver = i.ver /\ Holding(i, call).call = call
BY IdleTyped DEF Holding, Work, WorkFits, Item

LEMMA BecomesTyped ==
  ASSUME work \in [Worker -> Work], \A x \in Worker : WorkFits(work[x]),
         NEW w \in Worker, NEW k \in Work, WorkFits(k), Become(w, k)
  PROVE  work' \in [Worker -> Work] /\ \A x \in Worker : WorkFits(work'[x])
BY DEF Become

LEMMA ReturnTyped ==
  ASSUME work \in [Worker -> Work], \A x \in Worker : WorkFits(work[x]),
         NEW w \in Worker, work[w].pc \in {"claimed", "floors"},
         NEW outcome \in {"ok", "failed", "blocked", "deferred"}, NEW of \in Content, NEW next \in Nat,
         outcome = "deferred" => \E c \in Chunk : work[w].op = Brief(c),
         Return(w, outcome, of, next)
  PROVE  /\ work' \in [Worker -> Work] /\ \A x \in Worker : WorkFits(work'[x])
         /\ work' = [work EXCEPT ![w] = [work[w] EXCEPT !.pc = "returned", !.outcome = outcome,
                                                        !.of = of, !.next = next]]
<1> DEFINE k == [work[w] EXCEPT !.pc = "returned", !.outcome = outcome, !.of = of, !.next = next]
<1>1. work[w] \in Work  OBVIOUS
<1>2. k \in Work /\ WorkFits(k)  BY <1>1 DEF Work, WorkFits
<1>3. work' = [work EXCEPT ![w] = k]  BY DEF Return
<1> HIDE DEF k
<1>4. work' \in [Worker -> Work] /\ \A x \in Worker : WorkFits(work'[x])  BY <1>2, <1>3
<1> QED  BY <1>3, <1>4 DEF k

LEMMA TypeInit == Init => TypeInv
<1> SUFFICES ASSUME Init PROVE TypeInv  OBVIOUS
<1>1. TypeOK
  <2>1. rev \in Content  BY DEF Init, Content
  <2>2. closed \in 0..Len(Members) /\ placed \in [Turn -> 0..Len(Members)] /\ full \subseteq Chunk
    BY ThreadFacts DEF Init
  <2>3. queue \in Seq(Item)  BY DEF Init
  <2>4. rows \in [Op -> RowRec] /\ top \in [Op -> Nat] /\ back \in BOOLEAN  BY ContentTyped DEF Init
  <2>5. work \in [Worker -> Work]  BY IdleTyped DEF Init
  <2>6. count \in [{"edits", "derives", "lapses", "failures"} -> Nat]  BY DEF Init
  <2> QED  BY <2>1, <2>2, <2>3, <2>4, <2>5, <2>6 DEF TypeOK
<1>2. ChunksInOrder  BY DEF Init, ChunksInOrder
<1>3. \A w \in Worker : WorkFits(work[w])  BY IdleTyped DEF Init
<1> QED  BY <1>1, <1>2, <1>3 DEF TypeInv

\* A step that leaves the chunks as they are keeps their order.
LEMMA ChunksStay ==
  ASSUME ChunksInOrder, UNCHANGED <<placed, full>>
  PROVE  ChunksInOrder'
BY DEF ChunksInOrder

LEMMA MessageWorkTyped ==
  ASSUME NEW t \in Turn
  PROVE  /\ MessageWork(t) \in Seq(Request)
         /\ \A n \in 1..Len(MessageWork(t)) :
              /\ MessageWork(t)[n].ver = 1
              /\ \E m \in Derivable : m \in MembersOf(t) /\ MessageWork(t)[n].op = Msg(m)
<1> DEFINE d == Only(Members[t], Derivable)
<1>1. Members[t] \in Seq(Message)  BY ThreadFacts
<1>2. d \in Seq(Message)  BY <1>1, OnlyPicks
<1>3. PICK g : Picks(g, d, Members[t], Derivable, Len(Members[t]))  BY <1>1, OnlyPicks
<1>4. MessageWork(t) = [n \in 1..Len(d) |-> At(Msg(d[n]), 1)]  BY DEF MessageWork
<1> HIDE DEF d
<1>5. ASSUME NEW n \in 1..Len(d) PROVE d[n] \in Derivable /\ d[n] \in MembersOf(t)
  <2>1. d[n] = Members[t][g[n]] /\ Members[t][g[n]] \in Derivable /\ g[n] \in 1..Len(Members[t])
    BY <1>3 DEF Picks
  <2> QED  BY <2>1 DEF MembersOf
<1>6. \A n \in 1..Len(d) : At(Msg(d[n]), 1) \in Request
  BY <1>5, OpKinds DEF At, Request
<1>7. MessageWork(t) \in Seq(Request) /\ Len(MessageWork(t)) = Len(d)
  BY <1>2, <1>4, <1>6
<1>8. \A n \in 1..Len(d) : MessageWork(t)[n].ver = 1 /\ MessageWork(t)[n].op = Msg(d[n])
  BY <1>4 DEF At
<1> QED  BY <1>5, <1>7, <1>8

LEMMA IntakeRequests ==
  ASSUME NEW t \in Turn
  PROVE  LET req == MessageWork(t) \o <<At(Asm(t), 1)>>
         IN  /\ req \in Seq(Request)
             /\ \A n \in 1..Len(req) :
                  /\ req[n].ver = 1
                  /\ \/ req[n].op = Asm(t)
                     \/ \E m \in Derivable : m \in MembersOf(t) /\ req[n].op = Msg(m)
             /\ \E n \in 1..Len(req) : req[n].op = Asm(t)
<1> DEFINE a == MessageWork(t)
           r == At(Asm(t), 1)
           req == a \o <<r>>
<1>1. /\ a \in Seq(Request)
      /\ \A n \in 1..Len(a) :
           /\ a[n].ver = 1
           /\ \E m \in Derivable : m \in MembersOf(t) /\ a[n].op = Msg(m)
  BY MessageWorkTyped
<1>2. r \in Request /\ r.op = Asm(t) /\ r.ver = 1  BY OpKinds DEF At, Request
<1> HIDE DEF a, r
<1>3. /\ req \in Seq(Request) /\ Len(req) = Len(a) + 1 /\ req[Len(a) + 1] = r
      /\ \A n \in 1..Len(a) : req[n] = a[n]
  BY <1>1, <1>2
<1> HIDE DEF req
<1>4. \A n \in 1..Len(req) : n \in 1..Len(a) \/ n = Len(a) + 1  BY <1>1, <1>3
<1>5. Len(a) + 1 \in 1..Len(req)  BY <1>1, <1>3
<1>6. \A n \in 1..Len(req) : /\ req[n].ver = 1
                             /\ \/ req[n].op = Asm(t)
                                \/ \E m \in Derivable : m \in MembersOf(t) /\ req[n].op = Msg(m)
  BY <1>1, <1>2, <1>3, <1>4
<1>7. /\ req \in Seq(Request)
      /\ \A n \in 1..Len(req) : /\ req[n].ver = 1
                                /\ \/ req[n].op = Asm(t)
                                   \/ \E m \in Derivable : m \in MembersOf(t) /\ req[n].op = Msg(m)
      /\ \E n \in 1..Len(req) : req[n].op = Asm(t)
  BY <1>2, <1>3, <1>5, <1>6
<1> QED  BY <1>7 DEF req, a, r

LEMMA TypeIntake == TypeInv /\ Intake => TypeInv'
<1> SUFFICES ASSUME TypeInv, Intake PROVE TypeInv'  OBVIOUS
<1>1. closed + 1 \in Turn /\ closed' \in 0..Len(Members)
  BY ThreadFacts DEF TypeInv, TypeOK, Intake, Turn
<1> DEFINE req == MessageWork(closed + 1) \o <<At(Asm(closed + 1), 1)>>
<1>2. req \in Seq(Request)  BY <1>1, IntakeRequests
<1>3. Enqueue(queue, rows, req)  BY DEF Intake
<1> HIDE DEF req
<1>4. queue' \in Seq(Item) /\ rows' \in [Op -> RowRec] /\ top' \in [Op -> Nat] /\ back' \in BOOLEAN
  BY <1>2, <1>3, EnqueueTyped DEF TypeInv, TypeOK
<1>5. rev' \in Content  BY DEF Intake, TypeInv, TypeOK, Content
<1>6. TypeOK'  BY <1>1, <1>4, <1>5 DEF TypeInv, TypeOK, Intake
<1>7. ChunksInOrder'  BY ChunksStay DEF TypeInv, Intake
<1>8. \A w \in Worker : WorkFits(work'[w])  BY DEF TypeInv, Intake
<1> QED  BY <1>6, <1>7, <1>8 DEF TypeInv

-----------------------------------------------------------------------------
(* Sequences as the operations in them.                                     *)

Entries(s) == {s[n] : n \in 1..Len(s)}

LEMMA EntriesOfConcat ==
  ASSUME NEW S, NEW s \in Seq(S), NEW r \in Seq(S)
  PROVE  s \o r \in Seq(S) /\ Entries(s \o r) = Entries(s) \cup Entries(r)
<1>1. /\ Len(s \o r) = Len(s) + Len(r) /\ Len(s) \in Nat /\ Len(r) \in Nat
      /\ \A n \in 1..Len(s) : (s \o r)[n] = s[n]
      /\ \A n \in 1..Len(r) : (s \o r)[Len(s) + n] = r[n]
  OBVIOUS
<1>2. ASSUME NEW n \in 1..Len(s \o r) PROVE (s \o r)[n] \in Entries(s) \cup Entries(r)
  <2>1. CASE n <= Len(s)
    <3>1. n \in 1..Len(s)  BY <2>1, <1>1
    <3> QED  BY <3>1, <1>1 DEF Entries
  <2>2. CASE n > Len(s)
    <3>1. n - Len(s) \in 1..Len(r) /\ n = Len(s) + (n - Len(s))  BY <2>2, <1>1
    <3> QED  BY <3>1, <1>1 DEF Entries
  <2> QED  BY <2>1, <2>2, <1>1
<1>3. ASSUME NEW n \in 1..Len(s) PROVE s[n] \in Entries(s \o r)
  <2>1. n \in 1..Len(s \o r)  BY <1>1
  <2> QED  BY <2>1, <1>1 DEF Entries
<1>4. ASSUME NEW n \in 1..Len(r) PROVE r[n] \in Entries(s \o r)
  <2>1. Len(s) + n \in 1..Len(s \o r)  BY <1>1
  <2> QED  BY <2>1, <1>1 DEF Entries
<1>5. Entries(s \o r) \subseteq Entries(s) \cup Entries(r)
  <2> SUFFICES ASSUME NEW x \in Entries(s \o r) PROVE x \in Entries(s) \cup Entries(r)  OBVIOUS
  <2>1. PICK n \in 1..Len(s \o r) : x = (s \o r)[n]  BY DEF Entries
  <2> QED  BY <2>1, <1>2
<1>6. Entries(s) \subseteq Entries(s \o r)
  <2> SUFFICES ASSUME NEW x \in Entries(s) PROVE x \in Entries(s \o r)  OBVIOUS
  <2>1. PICK n \in 1..Len(s) : x = s[n]  BY DEF Entries
  <2> QED  BY <2>1, <1>3
<1>7. Entries(r) \subseteq Entries(s \o r)
  <2> SUFFICES ASSUME NEW x \in Entries(r) PROVE x \in Entries(s \o r)  OBVIOUS
  <2>1. PICK n \in 1..Len(r) : x = r[n]  BY DEF Entries
  <2> QED  BY <2>1, <1>4
<1>8. s \o r \in Seq(S)  OBVIOUS
<1> QED  BY <1>5, <1>6, <1>7, <1>8

LEMMA EntriesOfDerived ==
  ASSUME NEW o
  PROVE  /\ Derived(o) \in Seq(Op)
         /\ Entries(Derived(o)) = {x \in {o} : x \in Op /\ rows[x].state # "absent"}
<1>1. CASE o \in Op /\ rows[o].state # "absent"
  <2>1. Derived(o) = <<o>>  BY <1>1 DEF Derived
  <2>2. <<o>> \in Seq(Op) /\ Entries(<<o>>) = {o}  BY <1>1 DEF Entries
  <2> QED  BY <1>1, <2>1, <2>2
<1>2. CASE ~ (o \in Op /\ rows[o].state # "absent")
  <2>1. Derived(o) = <<>>  BY <1>2 DEF Derived
  <2>2. <<>> \in Seq(Op) /\ Entries(<<>>) = {}  BY DEF Entries
  <2> QED  BY <1>2, <2>1, <2>2
<1> QED  BY <1>1, <1>2

UpwardOps(m) == {Asm(TurnOf(m)), Cmp(TurnOf(m)), Detailed(placed[TurnOf(m)]), Brief(placed[TurnOf(m)])}

LEMMA EntriesOfUpward ==
  ASSUME NEW m
  PROVE  /\ Upward(m) \in Seq(Op)
         /\ Entries(Upward(m)) = {o \in UpwardOps(m) : o \in Op /\ rows[o].state # "absent"}
<1> DEFINE a == Derived(Asm(TurnOf(m)))
           b == Derived(Cmp(TurnOf(m)))
           c == Derived(Detailed(placed[TurnOf(m)]))
           d == Derived(Brief(placed[TurnOf(m)]))
<1>1. Upward(m) = a \o b \o c \o d  BY DEF Upward
<1>2. a \in Seq(Op) /\ b \in Seq(Op) /\ c \in Seq(Op) /\ d \in Seq(Op)  BY EntriesOfDerived
<1>3. Entries(a) \cup Entries(b) \cup Entries(c) \cup Entries(d)
        = {o \in UpwardOps(m) : o \in Op /\ rows[o].state # "absent"}
  BY EntriesOfDerived DEF UpwardOps
<1> DEFINE ab == a \o b
           abc == ab \o c
           abcd == abc \o d
<1> HIDE DEF a, b, c, d
<1>4. ab \in Seq(Op) /\ Entries(ab) = Entries(a) \cup Entries(b)
  BY <1>2, EntriesOfConcat
<1> HIDE DEF ab
<1>5. abc \in Seq(Op) /\ Entries(abc) = Entries(ab) \cup Entries(c)
  BY <1>2, <1>4, EntriesOfConcat
<1> HIDE DEF abc
<1>6. abcd \in Seq(Op) /\ Entries(abcd) = Entries(abc) \cup Entries(d)
  BY <1>2, <1>5, EntriesOfConcat
<1> HIDE DEF abcd
<1>7. Upward(m) = abcd  BY <1>1 DEF ab, abc, abcd
<1> QED  BY <1>3, <1>4, <1>5, <1>6, <1>7

LEMMA EntriesOfEdit ==
  ASSUME NEW m
  PROVE  /\ Own(m) \o Upward(m) \in Seq(Op)
         /\ Entries(Own(m) \o Upward(m))
              = {o \in {Msg(m)} \cup UpwardOps(m) : o \in Op /\ rows[o].state # "absent"}
<1>1. /\ Own(m) \in Seq(Op)
      /\ Entries(Own(m)) = {x \in {Msg(m)} : x \in Op /\ rows[x].state # "absent"}
  BY EntriesOfDerived DEF Own
<1>2. /\ Upward(m) \in Seq(Op)
      /\ Entries(Upward(m)) = {o \in UpwardOps(m) : o \in Op /\ rows[o].state # "absent"}
  BY EntriesOfUpward
<1>3. /\ Own(m) \o Upward(m) \in Seq(Op)
      /\ Entries(Own(m) \o Upward(m)) = Entries(Own(m)) \cup Entries(Upward(m))
  BY <1>1, <1>2, EntriesOfConcat
<1> QED  BY <1>1, <1>2, <1>3

\* What a cascade asks for: the operations in ops, each at its next version.
Bumped(ops) == [n \in 1..Len(ops) |-> At(ops[n], rows[ops[n]].ver + 1)]

LEMMA BumpedTyped ==
  ASSUME rows \in [Op -> RowRec], NEW ops \in Seq(Op)
  PROVE  /\ Bumped(ops) \in Seq(Request) /\ Len(Bumped(ops)) = Len(ops)
         /\ \A n \in 1..Len(ops) : /\ Bumped(ops)[n].op = ops[n]
                                   /\ Bumped(ops)[n].ver = rows[ops[n]].ver + 1
<1>1. ASSUME NEW n \in 1..Len(ops) PROVE At(ops[n], rows[ops[n]].ver + 1) \in Request
  <2>1. ops[n] \in Op  OBVIOUS
  <2>2. rows[ops[n]] \in RowRec  BY <2>1
  <2>3. rows[ops[n]].ver \in Nat  BY <2>2 DEF RowRec
  <2> QED  BY <2>1, <2>3 DEF At, Request
<1>2. Bumped(ops) \in Seq(Request) /\ Len(Bumped(ops)) = Len(ops)  BY <1>1 DEF Bumped
<1>3. \A n \in 1..Len(ops) : /\ Bumped(ops)[n].op = ops[n]
                             /\ Bumped(ops)[n].ver = rows[ops[n]].ver + 1
  BY DEF Bumped, At
<1> QED  BY <1>2, <1>3

Dropping(D) == [o \in Op |-> IF o \in D THEN NoRow ELSE rows[o]]

LEMMA CascadeIs ==
  ASSUME NEW D, NEW ops, Cascade(D, ops)
  PROVE  /\ Enqueue(Unclaimed(queue, D \cup Entries(ops)), Dropping(D), Bumped(ops))
         /\ ~ Clashes(Unclaimed(queue, D \cup Entries(ops)), Bumped(ops))
BY Zenon DEF Cascade, Entries, Dropping, Bumped

LEMMA UnclaimedTyped ==
  ASSUME NEW q \in Seq(Item), NEW S
  PROVE  /\ Unclaimed(q, S) \in Seq(Item)
         /\ \E g : Picks(g, Unclaimed(q, S), q,
                         {i \in {q[n] : n \in 1..Len(q)} : i.claimed \/ i.op \notin S}, Len(q))
BY OnlyPicks DEF Unclaimed

LEMMA CascadeTyped ==
  ASSUME TypeInv, NEW D, NEW ops \in Seq(Op), Cascade(D, ops)
  PROVE  queue' \in Seq(Item) /\ rows' \in [Op -> RowRec] /\ top' \in [Op -> Nat] /\ back' \in BOOLEAN
<1>1. Unclaimed(queue, D \cup Entries(ops)) \in Seq(Item)  BY UnclaimedTyped DEF TypeInv, TypeOK
<1>2. Dropping(D) \in [Op -> RowRec]  BY ContentTyped DEF Dropping, TypeInv, TypeOK
<1>3. Bumped(ops) \in Seq(Request)  BY BumpedTyped DEF TypeInv, TypeOK
<1>4. rows \in [Op -> RowRec] /\ top \in [Op -> Nat] /\ back \in BOOLEAN  BY DEF TypeInv, TypeOK
<1> QED  BY <1>1, <1>2, <1>3, <1>4, CascadeIs, EnqueueTyped

LEMMA TypeEdit == ASSUME TypeInv, NEW m \in Message, Edit(m) \/ Remove(m) PROVE TypeInv'
<1>1. Own(m) \o Upward(m) \in Seq(Op) /\ Upward(m) \in Seq(Op)  BY EntriesOfEdit, EntriesOfUpward
<1>2. queue' \in Seq(Item) /\ rows' \in [Op -> RowRec] /\ top' \in [Op -> Nat] /\ back' \in BOOLEAN
  <2>1. CASE Edit(m)  BY <2>1, <1>1, CascadeTyped DEF Edit
  <2>2. CASE Remove(m)  BY <2>2, <1>1, CascadeTyped DEF Remove
  <2> QED  BY <2>1, <2>2
<1>3. rev' \in Content  BY DEF Edit, Remove, TypeInv, TypeOK, Content
<1>4. count' \in [{"edits", "derives", "lapses", "failures"} -> Nat]
  BY DEF Edit, Remove, Counted, TypeInv, TypeOK
<1>5. UNCHANGED <<closed, placed, full, work>>  BY DEF Edit, Remove
<1>6. TypeOK'  BY <1>2, <1>3, <1>4, <1>5 DEF TypeInv, TypeOK
<1>7. ChunksInOrder'  BY <1>5, ChunksStay DEF TypeInv
<1>8. \A w \in Worker : WorkFits(work'[w])  BY <1>5 DEF TypeInv
<1> QED  BY <1>6, <1>7, <1>8 DEF TypeInv

\* What a step of a worker has to keep.
TablesTyped == /\ queue \in Seq(Item)
               /\ rows \in [Op -> RowRec]
               /\ top \in [Op -> Nat]
               /\ back \in BOOLEAN
WorkTyped == work \in [Worker -> Work] /\ \A w \in Worker : WorkFits(work[w])
CountTyped == count \in [{"edits", "derives", "lapses", "failures"} -> Nat]

LEMMA TypeParts == TypeInv => TablesTyped /\ WorkTyped /\ CountTyped
BY DEF TypeInv, TypeOK, TablesTyped, WorkTyped, CountTyped

LEMMA TypeFrom ==
  ASSUME TypeInv, UNCHANGED <<rev, closed, placed, full>>, TablesTyped', WorkTyped', CountTyped'
  PROVE  TypeInv'
<1>1. TypeOK'  BY DEF TypeInv, TypeOK, TablesTyped, WorkTyped, CountTyped
<1>2. ChunksInOrder'  BY ChunksStay DEF TypeInv
<1>3. \A w \in Worker : WorkFits(work'[w])  BY DEF WorkTyped
<1> QED  BY <1>1, <1>2, <1>3 DEF TypeInv

LEMMA CountedTyped ==
  ASSUME CountTyped, NEW f \in {"edits", "derives", "lapses", "failures"}, Counted(f)
  PROVE  CountTyped'
BY DEF CountTyped, Counted

LEMMA HeadFacts ==
  ASSUME queue \in Seq(Item), queue # <<>>
  PROVE  /\ Head(queue) \in Item /\ Head(queue) = queue[1] /\ Len(queue) \in Nat /\ Len(queue) >= 1
         /\ Tail(queue) \in Seq(Item) /\ Len(Tail(queue)) = Len(queue) - 1
         /\ \A n \in 1..(Len(queue) - 1) : Tail(queue)[n] = queue[n + 1]
<1>1. Len(queue) \in Nat /\ Len(queue) >= 1  OBVIOUS
<1>2. Head(queue) = queue[1] /\ queue[1] \in Item  BY <1>1
<1>3. /\ Tail(queue) \in Seq(Item) /\ Len(Tail(queue)) = Len(queue) - 1
      /\ \A n \in 1..(Len(queue) - 1) : Tail(queue)[n] = queue[n + 1]
  BY <1>1
<1> QED  BY <1>1, <1>2, <1>3

LEMMA TakeHeadFacts ==
  ASSUME queue \in Seq(Item), queue # <<>>
  PROVE  /\ TakeHead \in Seq(Item) /\ Len(TakeHead) = Len(queue) /\ TakeHead[1] \in Item
         /\ TakeHead[1].op = queue[1].op /\ TakeHead[1].ver = queue[1].ver /\ TakeHead[1].claimed
         /\ \A n \in 2..Len(queue) : TakeHead[n] = queue[n]
<1> DEFINE i == [queue[1] EXCEPT !.claimed = TRUE, !.attempt = @ + 1]
<1>1. 1 \in 1..Len(queue) /\ queue[1] \in Item  BY HeadFacts
<1>2. i \in Item /\ i.op = queue[1].op /\ i.ver = queue[1].ver /\ i.claimed
  <2> DEFINE j == [queue[1] EXCEPT !.claimed = TRUE]
             a == queue[1].attempt + 1
  <2>1. j \in Item /\ j.op = queue[1].op /\ j.ver = queue[1].ver /\ j.claimed  BY <1>1 DEF Item
  <2>2. a \in Nat  BY <1>1 DEF Item
  <2>3. i = [j EXCEPT !.attempt = a]  BY <1>1 DEF Item
  <2> HIDE DEF i, j, a
  <2>4. i \in Item  BY <2>1, <2>2, <2>3 DEF Item
  <2>5. i.op = j.op /\ i.ver = j.ver  BY <2>1, <2>3 DEF Item
  <2>6. i.claimed = j.claimed  BY <2>1, <2>3 DEF Item
  <2> QED  BY <2>1, <2>4, <2>5, <2>6
<1>3. TakeHead = [queue EXCEPT ![1] = i]  BY DEF TakeHead
<1> HIDE DEF i
<1> QED  BY <1>1, <1>2, <1>3

LEMMA TypeClaim == ASSUME TypeInv, NEW w \in Worker, Claim(w) PROVE TypeInv'
<1>1. queue \in Seq(Item) /\ queue # <<>>  BY DEF TypeInv, TypeOK, Claim
<1>2. /\ TakeHead \in Seq(Item) /\ TakeHead[1] \in Item  BY <1>1, TakeHeadFacts
<1>3. TablesTyped'  BY <1>2, TypeParts DEF Claim, TablesTyped
<1>4. WorkTyped'
  <2>1. Become(w, Holding(TakeHead[1], FALSE))  BY DEF Claim
  <2>2. Holding(TakeHead[1], FALSE) \in Work /\ WorkFits(Holding(TakeHead[1], FALSE))
    BY <1>2, HoldingTyped
  <2> QED  BY <2>1, <2>2, TypeParts, BecomesTyped DEF WorkTyped
<1>5. CountTyped'  BY TypeParts DEF CountTyped, Claim
<1>6. UNCHANGED <<rev, closed, placed, full>>  BY DEF Claim
<1> QED  BY <1>3, <1>4, <1>5, <1>6, TypeFrom

\* A row that changes its state and what it was made from keeps its version.
StampRow(o, s, of) == [rows EXCEPT ![o].state = s, ![o].of = of]

LEMMA RowStamped ==
  ASSUME rows \in [Op -> RowRec], NEW o, NEW s \in States, NEW of \in Content
  PROVE  /\ StampRow(o, s, of) \in [Op -> RowRec]
         /\ \A x \in Op : StampRow(o, s, of)[x]
                          = IF x = o THEN [state |-> s, ver |-> rows[x].ver, of |-> of] ELSE rows[x]
<1> DEFINE r(x) == [rows[x] EXCEPT !.state = s, !.of = of]
           new == StampRow(o, s, of)
<1>1. ASSUME NEW x \in Op
      PROVE  new[x] = IF x = o THEN [state |-> s, ver |-> rows[x].ver, of |-> of] ELSE rows[x]
  <2>1. rows[x] \in RowRec  OBVIOUS
  <2>2. r(x) = [state |-> s, ver |-> rows[x].ver, of |-> of]
    <3> DEFINE e == [rows[x] EXCEPT !.state = s]
    <3>1. e = [state |-> s, ver |-> rows[x].ver, of |-> rows[x].of]  BY <2>1 DEF RowRec
    <3>2. r(x) = [e EXCEPT !.of = of]  BY <2>1 DEF RowRec
    <3> HIDE DEF e, r
    <3> QED  BY <3>1, <3>2
  <2>3. new = [rows EXCEPT ![o] = r(o)]  BY DEF StampRow
  <2> HIDE DEF r, new
  <2> QED  BY <2>2, <2>3
<1>2. \A x \in Op : [state |-> s, ver |-> rows[x].ver, of |-> of] \in RowRec /\ rows[x] \in RowRec
  BY DEF RowRec
<1>3. \A x \in Op : new[x] \in RowRec  BY <1>1, <1>2
<1>4. new = [x \in Op |-> new[x]]
  <2> HIDE DEF r
  <2> QED  BY DEF StampRow
<1> HIDE DEF new
<1>5. new \in [Op -> RowRec]  BY <1>3, <1>4
<1> QED  BY <1>1, <1>5 DEF new

LEMMA StampedTyped ==
  ASSUME rows \in [Op -> RowRec], NEW w \in Worker, NEW s \in States, NEW of \in Content
  PROVE  /\ Stamped(w, s, of) \in [Op -> RowRec]
         /\ \A x \in Op : Stamped(w, s, of)[x]
                          = IF x = work[w].op /\ Current(w)
                            THEN [state |-> s, ver |-> rows[x].ver, of |-> of] ELSE rows[x]
<1>1. CASE Current(w)
  <2>1. Stamped(w, s, of) = StampRow(work[w].op, s, of)
    BY <1>1 DEF Stamped, StampRow
  <2> QED  BY <1>1, <2>1, RowStamped
<1>2. CASE ~ Current(w)
  BY <1>2 DEF Stamped
<1> QED  BY <1>1, <1>2

\* The second expiry of a lease, told of any row.
ExpiredRow(i) ==
  IF rows[i.op].state # "absent" /\ rows[i.op].ver = i.ver
  THEN StampRow(i.op, "failed", NoContent) ELSE rows

LEMMA LapseIs ==
  ASSUME queue \in Seq(Item), Lapse
  PROVE  /\ queue # <<>> /\ queue[1].claimed
         /\ \/ /\ ~ queue[1].expired /\ rows' = rows
               /\ queue' \in Seq(Item) /\ Len(queue') = Len(queue)
               /\ queue'[1].op = queue[1].op /\ queue'[1].ver = queue[1].ver /\ queue'[1].expired
               /\ \A n \in 2..Len(queue) : queue'[n] = queue[n]
            \/ /\ queue[1].expired /\ queue' = Tail(queue)
               /\ rows' = ExpiredRow(queue[1])
<1>1. queue # <<>> /\ Head(queue).claimed  BY DEF Lapse
<1>2. Head(queue) = queue[1] /\ queue[1] \in Item /\ 1 \in 1..Len(queue)  BY <1>1, HeadFacts
<1>3. \/ /\ ~ queue[1].expired /\ rows' = rows
         /\ queue' = [queue EXCEPT ![1].claimed = FALSE, ![1].expired = TRUE]
      \/ /\ queue[1].expired /\ queue' = Tail(queue)
         /\ rows' = ExpiredRow(queue[1])
  BY <1>2, Zenon DEF Lapse, ExpiredRow, StampRow
<1>4. ASSUME queue' = [queue EXCEPT ![1].claimed = FALSE, ![1].expired = TRUE]
      PROVE  /\ queue' \in Seq(Item) /\ Len(queue') = Len(queue)
             /\ queue'[1].op = queue[1].op /\ queue'[1].ver = queue[1].ver /\ queue'[1].expired
             /\ \A n \in 2..Len(queue) : queue'[n] = queue[n]
  <2> DEFINE i == [queue[1] EXCEPT !.claimed = FALSE, !.expired = TRUE]
  <2>1. i \in Item /\ i.op = queue[1].op /\ i.ver = queue[1].ver /\ i.expired  BY <1>2 DEF Item
  <2>2. queue' = [queue EXCEPT ![1] = i]  BY <1>4
  <2> HIDE DEF i
  <2> QED  BY <1>2, <2>1, <2>2
<1> QED  BY <1>1, <1>2, <1>3, <1>4

LEMMA TypeLapse == TypeInv /\ Lapse => TypeInv'
<1> SUFFICES ASSUME TypeInv, Lapse PROVE TypeInv'  OBVIOUS
<1>1. queue \in Seq(Item) /\ rows \in [Op -> RowRec]  BY DEF TypeInv, TypeOK
<1>2. \A i : ExpiredRow(i) \in [Op -> RowRec]
  <2>1. "failed" \in States  BY DEF States
  <2> QED  BY <1>1, <2>1, RowStamped, ContentTyped DEF ExpiredRow
<1>3. queue' \in Seq(Item) /\ rows' \in [Op -> RowRec]  BY <1>1, <1>2, LapseIs, HeadFacts
<1>4. UNCHANGED <<rev, closed, placed, full, work, top, back>>  BY DEF Lapse
<1>5. TablesTyped'  BY <1>3, <1>4, TypeParts DEF TablesTyped
<1>6. WorkTyped'  BY <1>4, TypeParts DEF WorkTyped
<1>7. CountTyped'
  <2>1. Counted("lapses")  BY DEF Lapse
  <2> QED  BY <2>1, TypeParts, CountedTyped
<1> QED  BY <1>4, <1>5, <1>6, <1>7, TypeFrom

LEMMA NextVersionTyped ==
  ASSUME rows \in [Op -> RowRec], NEW o \in Op
  PROVE  NextVersion(o) \in Nat /\ At(o, NextVersion(o)) \in Request
<1>1. rows[o] \in RowRec  OBVIOUS
<1>2. rows[o].ver \in Nat  BY <1>1 DEF RowRec
<1> QED  BY <1>2 DEF NextVersion, At, Request

LEMMA ItemTyped == ASSUME NEW r \in Request PROVE NewItem(r) \in Item /\ NewItem(r).op = r.op /\ NewItem(r).ver = r.ver
BY DEF NewItem, Item, Request

\* The item an explicit derive makes for itself, already claimed.
FreshItem(r) == [NewItem(r) EXCEPT !.claimed = TRUE, !.attempt = 1]

LEMMA FreshItemTyped ==
  ASSUME NEW r \in Request
  PROVE  FreshItem(r) \in Item /\ FreshItem(r).op = r.op /\ FreshItem(r).ver = r.ver
<1>1. NewItem(r) \in Item /\ NewItem(r).op = r.op /\ NewItem(r).ver = r.ver  BY ItemTyped
<1> DEFINE e == [NewItem(r) EXCEPT !.claimed = TRUE]
<1>2. e \in Item /\ e.op = r.op /\ e.ver = r.ver  BY <1>1 DEF Item
<1>3. FreshItem(r) = [e EXCEPT !.attempt = 1]  BY <1>1 DEF FreshItem, Item
<1> HIDE DEF e
<1> QED  BY <1>2, <1>3 DEF Item

\* What ClaimNow may come to: nothing, a claimed head, an item made and claimed, an
\* item queued behind others.
LEMMA ClaimNowIs ==
  ASSUME rows \in [Op -> RowRec], NEW w \in Worker, NEW o \in Op, ClaimNow(w, o)
  PROVE  \/ Become(w, Idle) /\ UNCHANGED <<queue, rows, top, back>>
         \/ /\ queue # <<>> /\ queue' = TakeHead /\ UNCHANGED <<rows, top, back>>
            /\ Become(w, Holding(TakeHead[1], TRUE))
         \/ /\ queue = <<>> /\ queue' = <<FreshItem(At(o, NextVersion(o)))>>
            /\ Become(w, Holding(FreshItem(At(o, NextVersion(o))), TRUE))
            /\ rows' = Pend(rows, <<At(o, NextVersion(o))>>)
            /\ Remember(<<At(o, NextVersion(o))>>)
            /\ rows[o].state # "absent"
         \/ /\ Enqueue(queue, rows, <<At(o, NextVersion(o))>>) /\ Become(w, Idle)
            /\ queue # <<>> /\ rows[o].state # "absent"
<1> DEFINE r == At(o, NextVersion(o))
           isHead == queue # <<>> /\ Head(queue).op = r.op /\ Head(queue).ver = r.ver
           p == rows[o].state \in {"absent", "blocked"}
<1>1. \/ p /\ Refuse(w)
      \/ ~ p /\ \/ /\ isHead /\ ~ Head(queue).claimed
                   /\ queue' = TakeHead
                   /\ Become(w, Holding(TakeHead[1], TRUE))
                   /\ UNCHANGED <<rows, top, back>>
                \/ /\ queue = <<>>
                   /\ queue' = <<FreshItem(r)>>
                   /\ Become(w, Holding(queue'[1], TRUE))
                   /\ rows' = Pend(rows, <<r>>)
                   /\ Remember(<<r>>)
                \/ /\ queue # <<>> /\ ~ Live(queue, r)
                   /\ Enqueue(queue, rows, <<r>>)
                   /\ Become(w, Idle)
                \/ Refuse(w)
  <2> HIDE DEF r
  <2> USE DEF r
  <2> QED  BY Zenon DEF ClaimNow, FreshItem
<1>2. ~ p => rows[o].state # "absent"  OBVIOUS
<1> HIDE DEF p, r
<1>3. queue' = <<FreshItem(r)>> => queue'[1] = FreshItem(r)  OBVIOUS
<1> QED  BY <1>1, <1>2, <1>3, Zenon DEF Refuse, r

LEMMA ClaimNowTyped ==
  ASSUME TypeInv, NEW w \in Worker, NEW o \in Op, ClaimNow(w, o)
  PROVE  TablesTyped' /\ WorkTyped'
<1>0. TablesTyped /\ WorkTyped /\ rows \in [Op -> RowRec]  BY TypeParts DEF TablesTyped
<1> DEFINE r == At(o, NextVersion(o))
<1>1. r \in Request  BY <1>0, NextVersionTyped
<1> HIDE DEF r
<1>2. <<r>> \in Seq(Request)  BY <1>1
<1>3. \A k \in Work : WorkFits(k) /\ Become(w, k) => WorkTyped'
  BY <1>0, BecomesTyped DEF WorkTyped
<1>4. CASE Become(w, Idle) /\ UNCHANGED <<queue, rows, top, back>>
  BY <1>0, <1>3, <1>4, IdleTyped DEF TablesTyped
<1>5. CASE /\ queue # <<>> /\ queue' = TakeHead /\ UNCHANGED <<rows, top, back>>
           /\ Become(w, Holding(TakeHead[1], TRUE))
  <2>1. TakeHead \in Seq(Item) /\ TakeHead[1] \in Item  BY <1>0, <1>5, TakeHeadFacts DEF TablesTyped
  <2>2. Holding(TakeHead[1], TRUE) \in Work /\ WorkFits(Holding(TakeHead[1], TRUE))
    BY <2>1, HoldingTyped
  <2> QED  BY <1>0, <1>3, <1>5, <2>1, <2>2 DEF TablesTyped
<1>6. CASE /\ queue = <<>> /\ queue' = <<FreshItem(r)>> /\ Become(w, Holding(FreshItem(r), TRUE))
           /\ rows' = Pend(rows, <<r>>) /\ Remember(<<r>>)
  <2>1. FreshItem(r) \in Item  BY <1>1, FreshItemTyped
  <2>2. queue' \in Seq(Item)  BY <1>6, <2>1
  <2>3. Pend(rows, <<r>>) \in [Op -> RowRec]  BY <1>0, <1>2, PendFacts
  <2>4. top' \in [Op -> Nat]
    <3>1. \A x \in Op : Pend(rows, <<r>>)[x].ver \in Nat /\ top[x] \in Nat
      BY <1>0, <2>3 DEF RowRec, TablesTyped
    <3> QED  BY <1>6, <3>1 DEF Remember
  <2>5. back' \in BOOLEAN  BY <1>6 DEF Remember
  <2>6. Holding(FreshItem(r), TRUE) \in Work /\ WorkFits(Holding(FreshItem(r), TRUE))
    BY <2>1, HoldingTyped
  <2> QED  BY <1>3, <1>6, <2>2, <2>3, <2>4, <2>5, <2>6 DEF TablesTyped
<1>7. CASE Enqueue(queue, rows, <<r>>) /\ Become(w, Idle)
  <2>1. TablesTyped'  BY <1>0, <1>2, <1>7, EnqueueTyped DEF TablesTyped
  <2> QED  BY <1>3, <1>7, <2>1, IdleTyped
<1> QED  BY <1>0, <1>4, <1>5, <1>6, <1>7, ClaimNowIs DEF r

LEMMA TypeDerive ==
  ASSUME TypeInv, NEW w \in Worker,
         \/ \E t \in Turn : DeriveTurn(w, t) \/ DeriveChunk(w, t)
         \/ DeriveSecond(w)
  PROVE  TypeInv'
<1>1. TablesTyped' /\ WorkTyped'
  <2>1. ASSUME NEW t \in Turn, DeriveTurn(w, t) PROVE TablesTyped' /\ WorkTyped'
    BY <2>1, OpKinds, ClaimNowTyped DEF DeriveTurn
  <2>2. ASSUME NEW c \in Turn, DeriveChunk(w, c) PROVE TablesTyped' /\ WorkTyped'
    BY <2>2, OpKinds, ClaimNowTyped DEF DeriveChunk, Chunk
  <2>3. ASSUME DeriveSecond(w) PROVE TablesTyped' /\ WorkTyped'
    <3>1. PICK t \in Turn : work[w].op = Asm(t)  BY <2>3 DEF DeriveSecond, TypeInv, WorkFits
    <3>2. Cmp(work[w].op[2]) \in Op  BY <3>1, OpTags, OpKinds
    <3> QED  BY <2>3, <3>2, ClaimNowTyped DEF DeriveSecond
  <2> QED  BY <2>1, <2>2, <2>3
<1>2. UNCHANGED <<rev, closed, placed, full>>
  BY DEF DeriveTurn, DeriveChunk, DeriveSecond, Call
<1>3. CountTyped'
  <2>1. Counted("derives") \/ count' = count  BY DEF DeriveTurn, DeriveChunk, DeriveSecond, Call
  <2> QED  BY <2>1, TypeParts, CountedTyped DEF CountTyped
<1> QED  BY <1>1, <1>2, <1>3, TypeFrom

LEMMA TypeDeriveMessage ==
  ASSUME TypeInv, NEW w \in Worker, NEW m \in Message, DeriveMessage(w, m)
  PROVE  TypeInv'
<1>1. /\ Msg(m) \in Op /\ Become(w, Holding(NewItem(At(Msg(m), NextVersion(Msg(m)))), TRUE))
      /\ UNCHANGED <<queue, rows, top, back, rev, closed, placed, full>> /\ Counted("derives")
  BY DEF DeriveMessage, Call
<1>2. At(Msg(m), NextVersion(Msg(m))) \in Request  BY <1>1, NextVersionTyped DEF TypeInv, TypeOK
<1>3. TablesTyped'  BY <1>1, TypeParts DEF TablesTyped
<1>4. PICK k : k = Holding(NewItem(At(Msg(m), NextVersion(Msg(m)))), TRUE)  OBVIOUS
<1>5. k \in Work /\ WorkFits(k)  BY <1>2, <1>4, ItemTyped, HoldingTyped
<1>6. WorkTyped'  BY <1>1, <1>4, <1>5, TypeParts, BecomesTyped DEF WorkTyped
<1>7. CountTyped'  BY <1>1, TypeParts, CountedTyped
<1> QED  BY <1>1, <1>3, <1>6, <1>7, TypeFrom

LEMMA RowTyped ==
  ASSUME rows \in [Op -> RowRec], NEW o \in Op
  PROVE  /\ rows[o] \in RowRec /\ rows[o].ver \in Nat /\ rows[o].of \in Content /\ rows[o].state \in States
         /\ \A m \in Message : rows[o].of[m] \in Nat
<1>1. rows[o] \in RowRec  OBVIOUS
<1>2. rows[o].ver \in Nat /\ rows[o].of \in Content /\ rows[o].state \in States  BY <1>1 DEF RowRec
<1> QED  BY <1>1, <1>2 DEF Content

LEMMA WorkFields ==
  ASSUME work \in [Worker -> Work], NEW w \in Worker
  PROVE  /\ work[w] \in Work /\ work[w].op \in Op /\ work[w].ver \in Nat /\ work[w].next \in Nat
         /\ work[w].of \in Content /\ work[w].floors \in [Message -> Nat]
         /\ work[w].outcome \in {"ok", "failed", "blocked", "deferred"}
         /\ \A m \in Message : work[w].of[m] \in Nat /\ work[w].floors[m] \in Nat
<1>1. work[w] \in Work  OBVIOUS
<1>2. /\ work[w].op \in Op /\ work[w].ver \in Nat /\ work[w].next \in Nat
      /\ work[w].of \in Content /\ work[w].floors \in [Message -> Nat]
      /\ work[w].outcome \in {"ok", "failed", "blocked", "deferred"}
  BY <1>1 DEF Work
<1> QED  BY <1>1, <1>2 DEF Content

\* The results a handler may return.
Returned(w) ==
  \E outcome \in {"ok", "failed", "blocked", "deferred"}, of \in Content, next \in Nat :
    /\ outcome = "deferred" => \E c \in Chunk : work[w].op = Brief(c)
    /\ Return(w, outcome, of, next)

LEMMA ReturnedTyped ==
  ASSUME TypeInv, NEW w \in Worker, work[w].pc \in {"claimed", "floors"}, Returned(w)
  PROVE  WorkTyped'
<1>1. WorkTyped  BY TypeParts
<1>2. PICK outcome \in {"ok", "failed", "blocked", "deferred"}, of \in Content, next \in Nat :
        /\ outcome = "deferred" => \E c \in Chunk : work[w].op = Brief(c)
        /\ Return(w, outcome, of, next)
  BY DEF Returned
<1> QED  BY <1>1, <1>2, ReturnTyped DEF WorkTyped

LEMMA InferReturns ==
  ASSUME NEW w \in Worker, NEW of \in Content, Infer(w, of)
  PROVE  Returned(w) /\ (count' = count \/ Counted("failures"))
<1>1. CASE Return(w, "ok", of, 0) /\ UNCHANGED count
  BY <1>1 DEF Returned
<1>2. CASE Counted("failures") /\ Return(w, "failed", NoContent, 0)
  BY <1>2, ContentTyped DEF Returned
<1> QED  BY <1>1, <1>2 DEF Infer

\* What a composition of turn t shows.
Composition(t) == [m \in Message |-> IF m \in MembersOf(t) THEN TextOf(m) ELSE 0]

LEMMA CompositionTyped ==
  ASSUME TypeInv, NEW t
  PROVE  Composition(t) \in Content
<1>1. ASSUME NEW m \in Message PROVE TextOf(m) \in Nat
  <2>1. rev[m] \in Nat  BY DEF TypeInv, TypeOK, Content
  <2>2. IsReady(Msg(m)) => rows[Msg(m)].of[m] \in Nat  BY RowTyped DEF TypeInv, TypeOK, IsReady
  <2> QED  BY <2>1, <2>2 DEF TextOf
<1> QED  BY <1>1 DEF Composition, Content

FloorsOf(t) == [m \in Message |->
  IF m \in MembersOf(t) /\ rev[m] # 0 /\ Msg(m) \in Op /\ ~ IsReady(Msg(m)) THEN rows[Msg(m)].ver ELSE 0]

LEMMA FloorsOfTyped ==
  ASSUME TypeInv, NEW t
  PROVE  FloorsOf(t) \in [Message -> Nat]
<1>1. ASSUME NEW m \in Message, Msg(m) \in Op PROVE rows[Msg(m)].ver \in Nat
  BY <1>1, RowTyped DEF TypeInv, TypeOK
<1> QED  BY <1>1 DEF FloorsOf

LEMMA ReadTurnTyped ==
  ASSUME TypeInv, NEW w \in Worker, NEW t \in Turn, ReadTurn(w, t)
  PROVE  /\ WorkTyped' /\ count' = count
         /\ work' = [work EXCEPT ![w] = [work[w] EXCEPT !.pc = "floors", !.of = Composition(t),
                                                        !.floors = FloorsOf(t)]]
<1> DEFINE k == [work[w] EXCEPT !.pc = "floors", !.of = Composition(t), !.floors = FloorsOf(t)]
<1>1. work[w] \in Work /\ WorkFits(work[w]) /\ work[w].pc = "claimed" /\ work[w].op = Asm(t)
  BY DEF TypeInv, TypeOK, ReadTurn, Reads
<1>2. work' = [work EXCEPT ![w] = k] /\ count' = count
  BY DEF ReadTurn, Composition, FloorsOf
<1>3. Composition(t) \in Content /\ FloorsOf(t) \in [Message -> Nat]
  BY CompositionTyped, FloorsOfTyped
<1>4. k \in Work /\ WorkFits(k)
  <2>1. k \in Work  BY <1>1, <1>3 DEF Work
  <2>2. k.pc = "floors" /\ k.op = Asm(t) /\ k.outcome = work[w].outcome  BY <1>1 DEF Work
  <2>3. work[w].outcome # "deferred"  BY <1>1 DEF WorkFits
  <2> HIDE DEF k
  <2> QED  BY <2>1, <2>2, <2>3 DEF WorkFits
<1>5. WorkTyped'
  <2> HIDE DEF k
  <2>1. Become(w, k)  BY <1>2 DEF Become
  <2> QED  BY <1>4, <2>1, TypeParts, BecomesTyped DEF WorkTyped
<1> QED  BY <1>2, <1>5

MembersOfChunk(c) == {t \in Turn : placed[t] = c}

\* What a detailed summary of chunk c is made from.
DetailedOf(c) ==
  [m \in Message |->
     IF m \in UNION {MembersOf(t) : t \in MembersOfChunk(c)}
     THEN (IF IsReady(Cmp(TurnOf(m))) THEN rows[Cmp(TurnOf(m))].of ELSE rows[Asm(TurnOf(m))].of)[m]
     ELSE 0]

Usable(t) == IsReady(Cmp(t)) \/ (rows[Cmp(t)].state = "failed" /\ IsReady(Asm(t)))

LEMMA DetailedOfTyped ==
  ASSUME TypeInv, NEW c
  PROVE  DetailedOf(c) \in Content
<1>1. ASSUME NEW m \in Message, m \in UNION {MembersOf(t) : t \in MembersOfChunk(c)}
      PROVE  (IF IsReady(Cmp(TurnOf(m))) THEN rows[Cmp(TurnOf(m))].of ELSE rows[Asm(TurnOf(m))].of)[m] \in Nat
  <2>1. PICK t \in Turn : m \in MembersOf(t)  BY <1>1 DEF MembersOfChunk
  <2>2. TurnOf(m) = t  BY <2>1, TurnOfMember
  <2>3. rows[Cmp(t)].of[m] \in Nat /\ rows[Asm(t)].of[m] \in Nat
    BY OpKinds, RowTyped DEF TypeInv, TypeOK
  <2> QED  BY <2>2, <2>3
<1> QED  BY <1>1 DEF DetailedOf, Content

LEMMA ReadDetailedIs ==
  ASSUME NEW w \in Worker, NEW c, ReadDetailed(w, c)
  PROVE  /\ count' = count
         /\ \/ (\A t \in MembersOfChunk(c) : Usable(t)) /\ Return(w, "ok", DetailedOf(c), 0)
            \/ ~ (\A t \in MembersOfChunk(c) : Usable(t)) /\ Return(w, "failed", NoContent, 0)
BY Zenon DEF ReadDetailed, MembersOfChunk, DetailedOf, Usable

LEMMA TypeRead ==
  ASSUME TypeInv, NEW w \in Worker,
         \/ \E m \in Message : ReadMessage(w, m)
         \/ \E t \in Turn : ReadTurn(w, t) \/ ReadCompression(w, t)
         \/ \E c \in Chunk : ReadDetailed(w, c) \/ ReadBrief(w, c)
  PROVE  TypeInv'
<1>0. rows \in [Op -> RowRec] /\ rev \in Content  BY DEF TypeInv, TypeOK
<1>1. ASSUME NEW m \in Message, ReadMessage(w, m)
      PROVE  Returned(w) /\ (count' = count \/ Counted("failures"))
  <2>1. [NoContent EXCEPT ![m] = rev[m]] \in Content  BY <1>0 DEF NoContent, Content
  <2>2. CASE rev[m] = 0
    BY <1>1, <2>2, ContentTyped DEF ReadMessage, Returned
  <2>3. CASE rev[m] # 0
    BY <1>1, <2>1, <2>3, InferReturns DEF ReadMessage
  <2> QED  BY <2>2, <2>3
<1>2. ASSUME NEW t \in Turn, ReadCompression(w, t)
      PROVE  Returned(w) /\ count' = count
  <2>1. IsReady(Asm(t)) => rows[Asm(t)].of \in Content  BY <1>0, RowTyped DEF IsReady
  <2>2. CASE IsReady(Asm(t))
    BY <1>2, <2>1, <2>2 DEF ReadCompression, Returned
  <2>3. CASE ~ IsReady(Asm(t))
    BY <1>2, <2>3, ContentTyped DEF ReadCompression, Returned
  <2> QED  BY <2>2, <2>3
<1>3. ASSUME NEW c \in Chunk, ReadDetailed(w, c)
      PROVE  Returned(w) /\ count' = count
  <2>1. PICK of \in Content : Return(w, "ok", of, 0) \/ Return(w, "failed", of, 0)
    BY <1>3, ReadDetailedIs, DetailedOfTyped, ContentTyped
  <2> QED  BY <1>3, <2>1, ReadDetailedIs DEF Returned
<1>4. ASSUME NEW c \in Chunk, ReadBrief(w, c)
      PROVE  Returned(w) /\ (count' = count \/ Counted("failures"))
  <2>1. rows[Detailed(c)].ver \in Nat /\ rows[Detailed(c)].of \in Content
    BY <1>0, OpKinds, RowTyped
  <2>2. work[w].op = Brief(c)  BY <1>4 DEF ReadBrief, Reads
  <2>3. \/ Return(w, "deferred", NoContent, rows[Detailed(c)].ver) /\ count' = count
        \/ Return(w, "blocked", NoContent, 0) /\ count' = count
        \/ Infer(w, rows[Detailed(c)].of)
    BY <1>4, Zenon DEF ReadBrief
  <2>4. CASE Return(w, "deferred", NoContent, rows[Detailed(c)].ver) /\ count' = count
    BY <2>1, <2>2, <2>4, ContentTyped DEF Returned
  <2>5. CASE Return(w, "blocked", NoContent, 0) /\ count' = count
    BY <2>5, ContentTyped DEF Returned
  <2>6. CASE Infer(w, rows[Detailed(c)].of)
    BY <2>1, <2>6, InferReturns
  <2> QED  BY <2>3, <2>4, <2>5, <2>6
<1>5. /\ work[w].pc = "claimed"
      /\ UNCHANGED <<rev, closed, placed, full, queue, rows, top, back>>
  BY DEF ReadMessage, ReadTurn, ReadCompression, ReadDetailed, ReadBrief, Reads
<1>6. WorkTyped' /\ (count' = count \/ Counted("failures"))
  <2>1. Returned(w) => WorkTyped'  BY <1>5, ReturnedTyped
  <2> QED  BY <2>1, <1>1, <1>2, <1>3, <1>4, ReadTurnTyped
<1>7. TablesTyped'  BY <1>5, TypeParts DEF TablesTyped
<1>8. CountTyped'  BY <1>6, TypeParts, CountedTyped DEF CountTyped
<1> QED  BY <1>5, <1>6, <1>7, <1>8, TypeFrom

\* A recovered derivation of m.
RecoveredRow(m, v, of) == [state |-> "ready", ver |-> v, of |-> [NoContent EXCEPT ![m] = of]]

LEMMA RecoverIs ==
  ASSUME rows \in [Op -> RowRec], NEW m \in Message, NEW v \in Nat, NEW expected, NEW of \in Nat,
         Recover(m, v, expected, of)
  PROVE  /\ rows' \in [Op -> RowRec]
         /\ \/ rows' = rows
            \/ /\ rows[Msg(m)] = expected
               /\ rows' = [rows EXCEPT ![Msg(m)] = RecoveredRow(m, v, of)]
<1>1. RecoveredRow(m, v, of) \in RowRec
  <2>1. [NoContent EXCEPT ![m] = of] \in Content  BY DEF NoContent, Content
  <2> QED  BY <2>1 DEF RecoveredRow, RowRec, States
<1>2. \/ rows' = rows
      \/ /\ rows[Msg(m)] = expected
         /\ rows' = [rows EXCEPT ![Msg(m)] = RecoveredRow(m, v, of)]
  BY Zenon DEF Recover, RecoveredRow
<1> QED  BY <1>1, <1>2

LEMMA TypeFloor ==
  ASSUME TypeInv, NEW w \in Worker, (\E m \in Message : WriteFloor(w, m)) \/ TurnReturns(w)
  PROVE  TypeInv'
<1>0. rows \in [Op -> RowRec] /\ work \in [Worker -> Work]  BY DEF TypeInv, TypeOK
<1>1. ASSUME NEW m \in Message, WriteFloor(w, m) PROVE TypeInv'
  <2>1. work[w].of[m] \in Nat /\ work[w].floors[m] \in Nat  BY <1>0, WorkFields
  <2>2. rows' \in [Op -> RowRec]  BY <1>0, <1>1, <2>1, RecoverIs DEF WriteFloor
  <2>3. UNCHANGED <<rev, closed, placed, full, queue, top, back, count>>  BY <1>1 DEF WriteFloor
  <2>4. TablesTyped'  BY <2>2, <2>3, TypeParts DEF TablesTyped
  <2>5. CountTyped'  BY <2>3, TypeParts DEF CountTyped
  <2>6. WorkTyped'
    <3> DEFINE f == [work[w].floors EXCEPT ![m] = 0]
               k == [work[w] EXCEPT !.floors = f]
    <3>1. f \in [Message -> Nat] /\ work[w] \in Work  BY <1>0, WorkFields
    <3>2. work' = [work EXCEPT ![w] = k]  BY <1>0, <1>1 DEF WriteFloor, Work
    <3> HIDE DEF f
    <3>3. k \in Work /\ k.pc = work[w].pc /\ k.op = work[w].op /\ k.outcome = work[w].outcome
      BY <3>1 DEF Work
    <3> HIDE DEF k
    <3>4. WorkFits(k)  BY <3>3 DEF WorkFits, TypeInv
    <3>5. Become(w, k)  BY <3>2 DEF Become
    <3> QED  BY <3>3, <3>4, <3>5, TypeParts, BecomesTyped DEF WorkTyped
  <2> QED  BY <2>3, <2>4, <2>5, <2>6, TypeFrom
<1>2. ASSUME TurnReturns(w) PROVE TypeInv'
  <2>1. work[w].pc = "floors" /\ UNCHANGED <<rev, closed, placed, full, queue, rows, top, back, count>>
    BY <1>2 DEF TurnReturns
  <2>2. PICK t \in Turn : work[w].op = Asm(t)  BY <2>1 DEF TypeInv, WorkFits
  <2>3. FollowUpVersion(work[w].op[2]) \in Nat
    <3>1. work[w].op[2] = t  BY <2>2, OpTags
    <3>2. rows[Asm(t)].ver \in Nat  BY <1>0, OpKinds, RowTyped
    <3> QED  BY <3>1, <3>2 DEF FollowUpVersion
  <2>4. work[w].of \in Content  BY <1>0, WorkFields
  <2>5. Returned(w)  BY <1>2, <2>3, <2>4 DEF TurnReturns, Returned
  <2>6. WorkTyped'  BY <2>1, <2>5, ReturnedTyped
  <2>7. TablesTyped' /\ CountTyped'  BY <2>1, TypeParts DEF TablesTyped, CountTyped
  <2> QED  BY <2>1, <2>6, <2>7, TypeFrom
<1> QED  BY <1>1, <1>2

LEMMA OwnedTail ==
  ASSUME queue \in Seq(Item), NEW w
  PROVE  (IF Owned(w) THEN Tail(queue) ELSE queue) \in Seq(Item)
<1>1. Owned(w) => queue # <<>>  BY DEF Owned
<1> QED  BY <1>1, HeadFacts

LEMMA TerminalTyped ==
  ASSUME TypeInv, NEW w \in Worker, NEW s \in States, Terminal(w, s)
  PROVE  TablesTyped'
<1>1. rows' \in [Op -> RowRec]
  BY StampedTyped, ContentTyped DEF Terminal, TypeInv, TypeOK
<1>2. queue' \in Seq(Item)  BY OwnedTail DEF Terminal, TypeInv, TypeOK
<1> QED  BY <1>1, <1>2, TypeParts DEF Terminal, TablesTyped

LEMMA TypeSimpleEnd ==
  ASSUME TypeInv, NEW w \in Worker, Succeed(w) \/ SucceedPastQueue(w) \/ Fail(w)
  PROVE  TypeInv'
<1>0. rows \in [Op -> RowRec] /\ work \in [Worker -> Work] /\ queue \in Seq(Item) /\ top \in [Op -> Nat]
  BY DEF TypeInv, TypeOK
<1>1. UNCHANGED <<rev, closed, placed, full, count>> /\ Become(w, Idle)
  BY DEF Succeed, SucceedPastQueue, Fail, Ends
<1>2. WorkTyped' /\ CountTyped'
  BY <1>1, IdleTyped, TypeParts, BecomesTyped DEF WorkTyped, CountTyped
<1>3. TablesTyped'
  <2>1. CASE Succeed(w)
    <3>1. Stamped(w, "ready", work[w].of) \in [Op -> RowRec]
      BY <1>0, WorkFields, StampedTyped DEF States
    <3> QED  BY <1>0, <2>1, <3>1, OwnedTail, TypeParts DEF Succeed, TablesTyped
  <2>2. CASE SucceedPastQueue(w)
    <3>1. work[w].op[1] = "message" /\ work[w].op \in Op  BY <1>0, <2>2, WorkFields DEF SucceedPastQueue, IsCall
    <3>2. work[w].op[2] \in Message
      <4>1. work[w].op[2] \in Derivable  BY <3>1, OpKinds, OpTags
      <4> QED  BY <4>1, DerivationPipelineAssumption
    <3>3. work[w].of[work[w].op[2]] \in Nat /\ work[w].ver \in Nat  BY <1>0, <3>2, WorkFields
    <3>4. rows' \in [Op -> RowRec]  BY <1>0, <2>2, <3>2, <3>3, RecoverIs DEF SucceedPastQueue
    <3>5. top' \in [Op -> Nat]  BY <1>0, <2>2, <3>3 DEF SucceedPastQueue
    <3> QED  BY <2>2, <3>4, <3>5, TypeParts DEF SucceedPastQueue, TablesTyped
  <2>3. CASE Fail(w)
    <3>1. UNCHANGED <<queue, rows, top, back>> \/ Terminal(w, work[w].outcome)
      BY <2>3 DEF Fail
    <3>2. work[w].outcome \in {"failed", "blocked"}  BY <2>3 DEF Fail, Ends
    <3> QED  BY <3>1, <3>2, TerminalTyped, TypeParts DEF TablesTyped, States
  <2> QED  BY <2>1, <2>2, <2>3
<1> QED  BY <1>1, <1>2, <1>3, TypeFrom

LEMMA DeferRequests ==
  ASSUME NEW c \in Chunk, NEW v \in Nat, NEW p \in BOOLEAN
  PROVE  (IF p THEN <<>> ELSE <<At(Detailed(c), v)>>) \o <<At(Brief(c), v)>> \in Seq(Request)
<1>1. At(Detailed(c), v) \in Request /\ At(Brief(c), v) \in Request
  BY OpKinds DEF At, Request
<1>2. PICK a, b \in Request : a = At(Detailed(c), v) /\ b = At(Brief(c), v)  BY <1>1
<1>3. (IF p THEN <<>> ELSE <<a>>) \o <<b>> \in Seq(Request)  OBVIOUS
<1> QED  BY <1>2, <1>3

LEMMA TypeDefer == ASSUME TypeInv, NEW w \in Worker, Defer(w) PROVE TypeInv'
<1>0. TablesTyped /\ work \in [Worker -> Work]  BY TypeParts DEF TypeInv, TypeOK
<1>1. UNCHANGED <<rev, closed, placed, full, count>> /\ Become(w, Idle) /\ work[w].outcome = "deferred"
  BY DEF Defer, Ends
<1>2. WorkTyped' /\ CountTyped'
  BY <1>1, IdleTyped, TypeParts, BecomesTyped DEF WorkTyped, CountTyped
<1>3. PICK c \in Chunk : work[w].op = Brief(c)  BY <1>1 DEF TypeInv, WorkFits
<1>4. work[w].op[2] = c /\ work[w].next \in Nat  BY <1>0, <1>3, OpTags, WorkFields
<1> DEFINE live == Live(queue, At(Detailed(c), work[w].next))
           req == (IF live THEN <<>> ELSE <<At(Detailed(c), work[w].next)>>) \o <<At(Brief(c), work[w].next)>>
<1>5. req \in Seq(Request)
  <2>1. live \in BOOLEAN  BY DEF Live
  <2> HIDE DEF live
  <2> QED  BY <1>4, <2>1, DeferRequests
<1>6. \/ Owned(w) /\ Enqueue(Tail(queue), rows, req)
      \/ Terminal(w, "failed")
      \/ UNCHANGED <<queue, rows, top, back>>
  BY <1>4 DEF Defer
<1> HIDE DEF req
<1>7. TablesTyped'
  <2>1. CASE Owned(w) /\ Enqueue(Tail(queue), rows, req)
    <3>1. Tail(queue) \in Seq(Item)  BY <1>0, <2>1, HeadFacts DEF TablesTyped, Owned
    <3> QED  BY <1>0, <1>5, <2>1, <3>1, EnqueueTyped DEF TablesTyped
  <2>2. CASE Terminal(w, "failed")  BY <2>2, TerminalTyped DEF States
  <2>3. CASE UNCHANGED <<queue, rows, top, back>>  BY <1>0, <2>3 DEF TablesTyped
  <2> QED  BY <1>6, <2>1, <2>2, <2>3
<1> QED  BY <1>1, <1>2, <1>7, TypeFrom

\* What the end of an assembly of turn t asks for: its compression, unless that is live,
\* and the summaries of the chunks it closes.
FollowUps(w, t, closes) ==
  (IF Live(queue, At(Cmp(t), work[w].next)) THEN <<>> ELSE <<At(Cmp(t), work[w].next)>>) \o Summaries(closes)

AfterTurn(w, t) == IF work[w].call THEN [Idle EXCEPT !.pc = "second", !.op = Asm(t)] ELSE Idle

LEMMA FollowUpsTyped ==
  ASSUME TypeInv, NEW w \in Worker, NEW t \in Turn, NEW closes \in Seq(Chunk)
  PROVE  FollowUps(w, t, closes) \in Seq(Request)
<1> DEFINE a == IF Live(queue, At(Cmp(t), work[w].next)) THEN <<>> ELSE <<At(Cmp(t), work[w].next)>>
<1>1. At(Cmp(t), work[w].next) \in Request
  BY OpKinds, WorkFields DEF TypeInv, TypeOK, At, Request
<1>2. a \in Seq(Request)  BY <1>1
<1>3. Summaries(closes) \in Seq(Request)  BY SummariesTyped
<1> HIDE DEF a
<1>4. a \o Summaries(closes) \in Seq(Request)  BY <1>2, <1>3
<1> QED  BY <1>4 DEF FollowUps, a

LEMMA AfterTurnTyped ==
  ASSUME NEW w \in Worker, NEW t \in Turn
  PROVE  AfterTurn(w, t) \in Work /\ WorkFits(AfterTurn(w, t)) /\ AfterTurn(w, t).pc \in {"idle", "second"}
<1>1. Idle \in Work /\ WorkFits(Idle) /\ Idle.pc = "idle" /\ Asm(t) \in Op  BY IdleTyped, OpKinds
<1> DEFINE k == [Idle EXCEPT !.pc = "second", !.op = Asm(t)]
<1>2. k \in Work /\ k.pc = "second" /\ k.op = Asm(t) /\ k.outcome = Idle.outcome  BY <1>1 DEF Work
<1>3. Idle.outcome # "deferred"  BY <1>1 DEF WorkFits
<1> HIDE DEF k
<1>4. WorkFits(k)  BY <1>2, <1>3 DEF WorkFits
<1>5. AfterTurn(w, t) = Idle \/ AfterTurn(w, t) = k  BY DEF AfterTurn, k
<1> QED  BY <1>1, <1>2, <1>4, <1>5

\* The end of an assembly that counts, with what is known of the chunk.
LEMMA SucceedTurnIs ==
  ASSUME TypeInv, NEW w \in Worker, NEW t \in Turn, SucceedTurn(w, t), Owned(w), Current(w)
  PROVE  \E chunk \in Chunk, closes \in Seq(Chunk) :
           /\ placed' = [placed EXCEPT ![t] = chunk]
           /\ full' = full \cup Entries(closes)
           /\ Enqueue(Tail(queue), Stamped(w, "ready", work[w].of), FollowUps(w, t, closes))
           /\ Become(w, AfterTurn(w, t))
           /\ placed[t] # 0 => chunk = placed[t] /\ closes = <<>>
           /\ placed[t] = 0 => chunk \notin full
           /\ \A c \in 1..chunk : c = chunk \/ \E u \in Turn : placed[u] = c
           /\ \A n \in 1..Len(closes) : closes[n] = chunk \/ \E u \in Turn : placed[u] = closes[n]
<1>1. PICK target, max \in BOOLEAN :
        /\ placed' = [placed EXCEPT ![t] = Place(t, target, max).chunk]
        /\ full' = full \cup Entries(Place(t, target, max).closes)
        /\ Enqueue(Tail(queue), Stamped(w, "ready", work[w].of), FollowUps(w, t, Place(t, target, max).closes))
        /\ Become(w, AfterTurn(w, t))
  BY Zenon DEF SucceedTurn, Entries, FollowUps, AfterTurn
<1> DEFINE place == Place(t, target, max)
<1>2. /\ place.chunk \in Chunk /\ place.closes \in Seq(Chunk)
      /\ placed[t] # 0 => place.chunk = placed[t] /\ place.closes = <<>>
      /\ placed[t] = 0 => place.chunk \notin full
      /\ \A c \in 1..place.chunk : c = place.chunk \/ \E u \in Turn : placed[u] = c
      /\ \A n \in 1..Len(place.closes) :
           place.closes[n] = place.chunk \/ \E u \in Turn : placed[u] = place.closes[n]
  BY PlaceFacts DEF TypeInv, TypeOK
<1> QED  BY <1>1, <1>2, Zenon

LEMMA TypeSucceedTurn ==
  ASSUME TypeInv, NEW w \in Worker, NEW t \in Turn, SucceedTurn(w, t)
  PROVE  TypeInv'
<1>0. TablesTyped /\ work \in [Worker -> Work] /\ placed \in [Turn -> 0..Len(Members)] /\ full \subseteq Chunk
  BY TypeParts DEF TypeInv, TypeOK
<1>1. UNCHANGED <<rev, closed, count>>  BY DEF SucceedTurn, Ends
<1>2. CountTyped'  BY <1>1, TypeParts DEF CountTyped
<1>3. CASE Owned(w) /\ Current(w)
  <2>1. PICK chunk \in Chunk, closes \in Seq(Chunk) :
           /\ placed' = [placed EXCEPT ![t] = chunk]
           /\ full' = full \cup Entries(closes)
           /\ Enqueue(Tail(queue), Stamped(w, "ready", work[w].of), FollowUps(w, t, closes))
           /\ Become(w, AfterTurn(w, t))
           /\ placed[t] # 0 => chunk = placed[t] /\ closes = <<>>
           /\ placed[t] = 0 => chunk \notin full
           /\ \A c \in 1..chunk : c = chunk \/ \E u \in Turn : placed[u] = c
           /\ \A n \in 1..Len(closes) : closes[n] = chunk \/ \E u \in Turn : placed[u] = closes[n]
    BY <1>3, SucceedTurnIs
  <2>2. placed' \in [Turn -> 0..Len(Members)]
    <3>1. chunk \in 0..Len(Members)  BY ThreadFacts DEF Chunk, Turn
    <3> QED  BY <1>0, <2>1, <3>1
  <2>3. full' \subseteq Chunk  BY <1>0, <2>1 DEF Entries
  <2>4. TablesTyped'
    <3>1. Tail(queue) \in Seq(Item)  BY <1>0, <1>3, HeadFacts DEF TablesTyped, Owned
    <3>2. Stamped(w, "ready", work[w].of) \in [Op -> RowRec]
      BY <1>0, WorkFields, StampedTyped DEF States, TablesTyped
    <3>3. FollowUps(w, t, closes) \in Seq(Request)  BY FollowUpsTyped
    <3> QED  BY <1>0, <2>1, <3>1, <3>2, <3>3, EnqueueTyped DEF TablesTyped
  <2>5. WorkTyped'  BY <2>1, AfterTurnTyped, TypeParts, BecomesTyped DEF WorkTyped
  <2>6. ChunksInOrder'
    <3>1. \A u \in Turn : placed'[u] = IF u = t THEN chunk ELSE placed[u]  BY <1>0, <2>1
    <3>2. ASSUME NEW u \in Turn, placed[u] # 0 PROVE placed'[u] = placed[u]
      BY <2>1, <3>1, <3>2
    <3>3. ASSUME NEW c \in Chunk, \E u \in Turn : placed[u] = c PROVE \E u \in Turn : placed'[u] = c
      <4>1. c # 0  BY ThreadFacts DEF Chunk, Turn
      <4> QED  BY <3>2, <3>3, <4>1
    <3>4. \E u \in Turn : placed'[u] = chunk  BY <3>1
    <3>5. ASSUME NEW u \in Turn, NEW c \in 1..placed'[u] PROVE \E v \in Turn : placed'[v] = c
      <4>1. c \in Chunk
        <5>1. placed'[u] \in 0..Len(Members)  BY <2>2
        <5> QED  BY <5>1, ThreadFacts DEF Chunk, Turn
      <4>2. CASE u = t  BY <2>1, <3>1, <3>3, <3>4, <3>5, <4>1, <4>2
      <4>3. CASE u # t
        <5>1. \E v \in Turn : placed[v] = c  BY <3>1, <3>5, <4>3 DEF TypeInv, ChunksInOrder
        <5> QED  BY <3>3, <4>1, <5>1
      <4> QED  BY <4>2, <4>3
    <3>6. ASSUME NEW c \in full' PROVE \E u \in Turn : placed'[u] = c
      <4>1. c \in Chunk  BY <2>3
      <4>2. c = chunk \/ \E u \in Turn : placed[u] = c
        <5>1. CASE c \in full  BY <5>1 DEF TypeInv, ChunksInOrder
        <5>2. CASE c \in Entries(closes)  BY <2>1, <5>2 DEF Entries
        <5> QED  BY <2>1, <5>1, <5>2
      <4> QED  BY <3>3, <3>4, <4>1, <4>2
    <3> QED  BY <3>5, <3>6 DEF ChunksInOrder
  <2>7. TypeOK'
    BY <1>1, <1>2, <2>2, <2>3, <2>4, <2>5 DEF TypeInv, TypeOK, TablesTyped, WorkTyped, CountTyped
  <2> QED  BY <2>5, <2>6, <2>7 DEF TypeInv, WorkTyped
<1>4. CASE ~ (Owned(w) /\ Current(w))
  <2>1. /\ queue' = (IF Owned(w) THEN Tail(queue) ELSE queue) /\ Become(w, Idle)
        /\ UNCHANGED <<placed, full, rows, top, back>>
    BY <1>4 DEF SucceedTurn
  <2>2. TablesTyped'  BY <1>0, <2>1, OwnedTail DEF TablesTyped
  <2>3. WorkTyped'  BY <2>1, IdleTyped, TypeParts, BecomesTyped DEF WorkTyped
  <2> QED  BY <1>1, <1>2, <2>1, <2>2, <2>3, TypeFrom
<1> QED  BY <1>3, <1>4

LEMMA TypeStutter == ASSUME TypeInv, UNCHANGED vars PROVE TypeInv'
<1>1. UNCHANGED <<rev, closed, placed, full, queue, rows, work, top, back, count>>  BY DEF vars
<1>2. TablesTyped' /\ WorkTyped' /\ CountTyped'  BY <1>1, TypeParts DEF TablesTyped, WorkTyped, CountTyped
<1> QED  BY <1>1, <1>2, TypeFrom

LEMMA TypeStep == TypeInv /\ [Next]_vars => TypeInv'
<1> SUFFICES ASSUME TypeInv, [Next]_vars PROVE TypeInv'  OBVIOUS
<1>1. CASE Intake  BY <1>1, TypeIntake
<1>2. CASE Lapse  BY <1>2, TypeLapse
<1>3. CASE \E m \in Message : Edit(m) \/ Remove(m)  BY <1>3, TypeEdit
<1>4. ASSUME NEW w \in Worker, Claim(w) PROVE TypeInv'  BY <1>4, TypeClaim
<1>5. ASSUME NEW w \in Worker, \E t \in Turn : DeriveTurn(w, t) \/ DeriveChunk(w, t) PROVE TypeInv'
  BY <1>5, TypeDerive
<1>6. ASSUME NEW w \in Worker, \E m \in Message : DeriveMessage(w, m) PROVE TypeInv'
  BY <1>6, TypeDeriveMessage
<1>7. ASSUME NEW w \in Worker, Handle(w) PROVE TypeInv'
  <2>1. ASSUME NEW m \in Message, ReadMessage(w, m) \/ WriteFloor(w, m) PROVE TypeInv'
    BY <2>1, TypeRead, TypeFloor
  <2>2. ASSUME NEW t \in Turn, ReadTurn(w, t) \/ ReadCompression(w, t) \/ SucceedTurn(w, t) PROVE TypeInv'
    BY <2>2, TypeRead, TypeSucceedTurn
  <2>3. ASSUME NEW c \in Chunk, ReadDetailed(w, c) \/ ReadBrief(w, c) PROVE TypeInv'
    BY <2>3, TypeRead
  <2>4. CASE TurnReturns(w)  BY <2>4, TypeFloor
  <2>5. CASE Succeed(w) \/ SucceedPastQueue(w) \/ Fail(w)  BY <2>5, TypeSimpleEnd
  <2>6. CASE Defer(w)  BY <2>6, TypeDefer
  <2>7. CASE DeriveSecond(w)  BY <2>7, TypeDerive
  <2> QED  BY <1>7, <2>1, <2>2, <2>3, <2>4, <2>5, <2>6, <2>7, Zenon DEF Handle
<1>8. CASE UNCHANGED vars  BY <1>8, TypeStutter
<1> QED  BY <1>1, <1>2, <1>3, <1>4, <1>5, <1>6, <1>7, <1>8, Zenon DEF Next

\* Every state is typed, and the chunks are numbered in the order they were opened.
THEOREM PipelineTyped == Spec => []TypeInv
<1>1. Init => TypeInv  BY TypeInit
<1>2. TypeInv /\ [Next]_vars => TypeInv'  BY TypeStep
<1> QED  BY <1>1, <1>2, PTL DEF Spec

-----------------------------------------------------------------------------
(* What a step does to the rows.  A row stays as it is, is asked for at a   *)
(* version that was never used, goes, or changes its state at its version;  *)
(* a row that stays or changes so covers what it covered, at the same       *)
(* revisions.                                                               *)

FreshNext(o, of) == \A m \in Covers(o)' : of[m] = rev'[m]
Still(o) == \A of \in Content : IsFresh(o, of) => FreshNext(o, of)

RowStays(o) == rows'[o] = rows[o] /\ top'[o] = top[o] /\ (rows[o].state # "absent" => Still(o))
RowIsBumped(o) ==
  /\ rows'[o].state # "absent" /\ rows'[o].ver = top'[o] /\ top'[o] > top[o]
  /\ rows'[o].state = "ready" => FreshNext(o, rows'[o].of)
RowGoes(o) == rows'[o].state = "absent" /\ top'[o] = top[o]
RowTurns(o) ==
  /\ rows[o].state # "absent" /\ rows'[o].state # "absent" /\ rows'[o].ver = rows[o].ver
  /\ top'[o] = top[o] /\ Still(o)
  /\ rows'[o].state = "ready" => FreshNext(o, rows'[o].of)

RowsMove == \A o \in Op : RowStays(o) \/ RowIsBumped(o) \/ RowGoes(o) \/ RowTurns(o)

LEMMA TopGrows ==
  ASSUME TypeInv, TypeInv', RowsMove
  PROVE  \A o \in Op : top[o] <= top'[o] /\ top[o] \in Nat /\ top'[o] \in Nat
<1>1. \A o \in Op : top[o] \in Nat /\ top'[o] \in Nat  BY DEF TypeInv, TypeOK
<1> QED  BY <1>1 DEF RowsMove, RowStays, RowIsBumped, RowGoes, RowTurns

LEMMA MovesKeepRows ==
  ASSUME TypeInv, RowsAreCurrent, ReadyIsFresh, RowsMove
  PROVE  RowsAreCurrent' /\ ReadyIsFresh'
<1>1. ASSUME NEW o \in Op, rows'[o].state # "absent" PROVE rows'[o].ver = top'[o]
  BY <1>1 DEF RowsMove, RowStays, RowIsBumped, RowGoes, RowTurns, RowsAreCurrent
<1>2. ASSUME NEW o \in Op, rows'[o].state = "ready" PROVE FreshNext(o, rows'[o].of)
  <2>1. CASE RowStays(o)
    <3>1. rows[o].state = "ready" /\ rows'[o].of = rows[o].of /\ rows[o].of \in Content /\ Still(o)
      BY <1>2, <2>1, RowTyped DEF RowStays, TypeInv, TypeOK
    <3>2. IsFresh(o, rows[o].of)  BY <3>1 DEF ReadyIsFresh, IsFresh
    <3> QED  BY <3>1, <3>2 DEF Still
  <2>2. CASE RowIsBumped(o)  BY <1>2, <2>2 DEF RowIsBumped
  <2>3. CASE RowGoes(o)  BY <1>2, <2>3 DEF RowGoes
  <2>4. CASE RowTurns(o)  BY <1>2, <2>4 DEF RowTurns
  <2> QED  BY <2>1, <2>2, <2>3, <2>4 DEF RowsMove
<1>3. RowsAreCurrent'  BY <1>1 DEF RowsAreCurrent
<1>4. ReadyIsFresh'  BY <1>2 DEF ReadyIsFresh, FreshNext
<1> QED  BY <1>3, <1>4

\* A worker that does not move, and whose handler is not writing floors.
LEMMA MovesKeepWork ==
  ASSUME TypeInv, TypeInv', RowsAreCurrent, RowsMove, NEW w \in Worker, WorkIsFresh(w),
         work'[w] = work[w], work[w].pc # "floors"
  PROVE  WorkIsFresh(w)'
<1>0. /\ work[w].op \in Op /\ work[w].ver \in Nat /\ work[w].of \in Content
      /\ top[work[w].op] <= top'[work[w].op] /\ top[work[w].op] \in Nat /\ top'[work[w].op] \in Nat
  BY TopGrows, WorkFields DEF TypeInv, TypeOK
<1>1. CountsAt(w)' = CountsAt(w) /\ CountsAt(w) \in Int  BY <1>0 DEF CountsAt, IsCall
<1>2. Busy(w) => CountsAt(w) <= top[work[w].op]  BY DEF WorkIsFresh
<1>3. Busy(w)' => CountsAt(w)' <= top'[work'[w].op]
  <2>1. Busy(w)' <=> Busy(w)  BY DEF Busy
  <2> QED  BY <1>0, <1>1, <1>2, <2>1
<1>4. PICK o \in Op, of \in Content : o = work[w].op /\ of = work[w].of  BY <1>0
<1>5. ASSUME work[w].pc = "returned", work[w].outcome = "ok",
             rows'[o].state # "absent", rows'[o].ver = CountsAt(w)
      PROVE  FreshNext(o, of)
  <2>1. CountsAt(w) <= top[o]  BY <1>2, <1>4, <1>5 DEF Busy
  <2>2. RowStays(o) \/ RowIsBumped(o) \/ RowGoes(o) \/ RowTurns(o)  BY DEF RowsMove
  <2>3. CASE RowIsBumped(o)  BY <1>0, <1>1, <1>4, <1>5, <2>1, <2>3 DEF RowIsBumped
  <2>4. CASE RowGoes(o)  BY <1>5, <2>4 DEF RowGoes
  <2>5. CASE RowStays(o) \/ RowTurns(o)
    <3>1. rows[o].state # "absent" /\ rows[o].ver = CountsAt(w) /\ Still(o)
      BY <1>5, <2>5 DEF RowStays, RowTurns
    <3>2. IsFresh(o, of)  BY <1>4, <1>5, <3>1 DEF WorkIsFresh
    <3> QED  BY <3>1, <3>2 DEF Still
  <2> QED  BY <2>2, <2>3, <2>4, <2>5
<1>6. work'[w].op = o /\ work'[w].of = of /\ work'[w].pc = work[w].pc
      /\ work'[w].outcome = work[w].outcome
  BY <1>4
<1>7. Covers(work[w].op)' = Covers(o)'  BY <1>6 DEF Covers
<1>8. IsFresh(work[w].op, work[w].of)' <=> FreshNext(o, of)  BY <1>6, <1>7 DEF IsFresh, FreshNext
<1>9. (/\ work[w].pc = "returned" /\ work[w].outcome = "ok"
       /\ rows[work[w].op].state # "absent" /\ rows[work[w].op].ver = CountsAt(w)
       => IsFresh(work[w].op, work[w].of))'
  BY <1>1, <1>5, <1>6, <1>8
<1>10. (work[w].pc = "floors" => IsFresh(work[w].op, work[w].of))'  OBVIOUS
<1> QED  BY <1>3, <1>9, <1>10 DEF WorkIsFresh

\* Rows that are new are of operations that may have one.
LEMMA RowsStayKnown ==
  ASSUME TypeInv, TypeInv', RowsAreKnown, AbsentIsNoRow, closed <= closed', full \subseteq full',
         \A o \in Op : \/ rows'[o] = rows[o] \/ rows'[o] = NoRow
                       \/ rows'[o].state # "absent" /\ (rows[o].state # "absent" \/ Known(o)')
  PROVE  RowsAreKnown' /\ AbsentIsNoRow'
<1>1. ASSUME NEW o \in Op, Known(o) PROVE Known(o)'
  <2>1. closed \in Nat /\ closed' \in Nat  BY ThreadFacts DEF TypeInv, TypeOK
  <2>2. CASE o[1] = "message"
    <3>1. PICK t \in Turn : t <= closed /\ o[2] \in MembersOf(t)  BY <1>1, <2>2 DEF Known, InClosedTurn
    <3>2. t <= closed'  BY <2>1, <3>1, ThreadFacts
    <3> QED  BY <2>2, <3>1, <3>2 DEF Known, InClosedTurn
  <2>3. CASE o[1] \in {"turn", "compression"}
    <3>1. o[2] \in Nat  BY <2>3, OpKinds, OpTags, ThreadFacts
    <3> QED  BY <1>1, <2>1, <2>3, <3>1 DEF Known
  <2>4. CASE o[1] \notin {"message", "turn", "compression"}
    BY <1>1, <2>4 DEF Known
  <2> QED  BY <2>2, <2>3, <2>4
<1>2. NoRow.state = "absent"  BY DEF NoRow
<1>3. ASSUME NEW o \in Op, rows'[o].state # "absent" PROVE Known(o)'
  BY <1>1, <1>2, <1>3 DEF RowsAreKnown
<1>4. ASSUME NEW o \in Op, rows'[o].state = "absent" PROVE rows'[o] = NoRow
  BY <1>4 DEF AbsentIsNoRow
<1>5. RowsAreKnown'  BY <1>3 DEF RowsAreKnown
<1>6. AbsentIsNoRow'  BY <1>4 DEF AbsentIsNoRow
<1> QED  BY <1>5, <1>6

LEMMA InClosedStays ==
  ASSUME TypeInv, TypeInv', closed <= closed', NEW m, InClosedTurn(m)
  PROVE  InClosedTurn(m)'
<1>1. closed \in Nat /\ closed' \in Nat  BY ThreadFacts DEF TypeInv, TypeOK
<1>2. PICK t \in Turn : t <= closed /\ m \in MembersOf(t)  BY DEF InClosedTurn
<1>3. t <= closed'  BY <1>1, <1>2, ThreadFacts
<1> QED  BY <1>2, <1>3 DEF InClosedTurn

\* Requests for one operation are at one version.
Consistent(req) == \A n, k \in 1..Len(req) : req[n].op = req[k].op => req[n].ver = req[k].ver

LEMMA ConcatFacts ==
  ASSUME NEW S, NEW s \in Seq(S), NEW u \in Seq(S)
  PROVE  /\ s \o u \in Seq(S) /\ Len(s \o u) = Len(s) + Len(u)
         /\ \A n \in 1..(Len(s) + Len(u)) :
              /\ n <= Len(s) => (s \o u)[n] = s[n]
              /\ n > Len(s) => (s \o u)[n] = u[n - Len(s)]
OBVIOUS

LEMMA PendBumps ==
  ASSUME rows \in [Op -> RowRec], top \in [Op -> Nat],
         NEW rws \in [Op -> RowRec], NEW req \in Seq(Request), Consistent(req),
         rows' = Pend(rws, req), Remember(req), ~ back'
  PROVE  /\ ~ back
         /\ \A o \in Op :
              \/ /\ \E n \in 1..Len(req) : req[n].op = o
                 /\ rows'[o].state = "pending" /\ rows'[o].ver = top'[o] /\ top'[o] > top[o]
              \/ /\ \A n \in 1..Len(req) : req[n].op # o
                 /\ rows'[o] = rws[o] /\ top'[o] = top[o]
         /\ \A n \in 1..Len(req) : req[n].ver = top'[req[n].op]
<1>1. /\ ~ back /\ \A n \in 1..Len(req) : ~ (req[n].ver <= top[req[n].op])
  BY DEF Remember
<1>2. \A n \in 1..Len(req) : req[n] \in Request /\ req[n].op \in Op /\ req[n].ver \in Nat
                             /\ top[req[n].op] \in Nat
  <2>1. \A n \in 1..Len(req) : req[n] \in Request  OBVIOUS
  <2>2. \A n \in 1..Len(req) : req[n].op \in Op /\ req[n].ver \in Nat  BY <2>1 DEF Request
  <2> QED  BY <2>1, <2>2
<1>3. \A n \in 1..Len(req) : req[n].ver > top[req[n].op]  BY <1>1, <1>2
<1>4. ASSUME NEW o \in Op, NEW n \in 1..Len(req), req[n].op = o
      PROVE  /\ rows'[o].state = "pending" /\ rows'[o].ver = top'[o] /\ top'[o] > top[o]
             /\ top'[o] = req[n].ver
  <2>0. \E x \in 1..Len(req) : req[x].op = o  BY <1>4
  <2>1. PICK k \in 1..Len(req) :
          /\ req[k].op = o
          /\ Pend(rws, req)[o] = [state |-> "pending", of |-> NoContent, ver |-> req[k].ver]
    BY <2>0 DEF Pend
  <2>2. PICK j \in 1..Len(req) :
          /\ req[j].op = o
          /\ Pend(rows, req)[o] = [state |-> "pending", of |-> NoContent, ver |-> req[j].ver]
    BY <2>0 DEF Pend
  <2>3. req[k].ver = req[n].ver /\ req[j].ver = req[n].ver  BY <1>4, <2>1, <2>2 DEF Consistent
  <2>5. top'[o] = Pend(rows, req)[o].ver
    <3>1. \E x \in 1..Len(req) : req[x].op = o /\ req[x].ver > top[o]  BY <1>3, <1>4
    <3> QED  BY <3>1 DEF Remember
  <2> QED  BY <1>3, <1>4, <2>1, <2>2, <2>3, <2>5
<1>5. ASSUME NEW o \in Op, \A n \in 1..Len(req) : req[n].op # o
      PROVE  rows'[o] = rws[o] /\ top'[o] = top[o]
  <2>1. Pend(rws, req)[o] = rws[o]  BY <1>5 DEF Pend
  <2>3. top'[o] = top[o]  BY <1>5 DEF Remember
  <2> QED  BY <2>1, <2>3
<1> QED  BY <1>1, <1>2, <1>4, <1>5

\* Each item of the queue was there before or is at the version its row has got.
ItemsArePast ==
  \A n \in 1..Len(queue') :
    \/ \E k \in 1..Len(queue) : queue'[n].op = queue[k].op /\ queue'[n].ver = queue[k].ver
    \/ queue'[n].ver = top'[queue'[n].op]

LEMMA ItemsStayPast ==
  ASSUME TypeInv, TypeInv', RowsMove, QueueIsPast, ItemsArePast
  PROVE  QueueIsPast'
<1> SUFFICES ASSUME NEW n \in 1..Len(queue') PROVE queue'[n].ver <= top'[queue'[n].op]
  BY DEF QueueIsPast
<1>1. queue \in Seq(Item) /\ queue' \in Seq(Item)  BY DEF TypeInv, TypeOK
<1>2. queue'[n] \in Item  BY <1>1
<1>3. queue'[n].op \in Op /\ queue'[n].ver \in Nat  BY <1>2 DEF Item
<1>4. top[queue'[n].op] <= top'[queue'[n].op] /\ top[queue'[n].op] \in Nat /\ top'[queue'[n].op] \in Nat
  BY <1>3, TopGrows
<1>5. CASE \E k \in 1..Len(queue) : queue'[n].op = queue[k].op /\ queue'[n].ver = queue[k].ver
  <2>1. queue'[n].ver <= top[queue'[n].op]  BY <1>5 DEF QueueIsPast
  <2> QED  BY <1>3, <1>4, <2>1
<1>6. CASE queue'[n].ver = top'[queue'[n].op]  BY <1>3, <1>4, <1>6
<1> QED  BY <1>5, <1>6 DEF ItemsArePast

LEMMA EnqueueItems ==
  ASSUME NEW q \in Seq(Item), NEW rws, NEW req \in Seq(Request), Enqueue(q, rws, req),
         \A n \in 1..Len(q) : \E k \in 1..Len(queue) : q[n].op = queue[k].op /\ q[n].ver = queue[k].ver,
         \A n \in 1..Len(req) : req[n].ver = top'[req[n].op]
  PROVE  ItemsArePast
<1> SUFFICES ASSUME NEW n \in 1..Len(queue')
             PROVE  \/ \E k \in 1..Len(queue) : queue'[n].op = queue[k].op /\ queue'[n].ver = queue[k].ver
                    \/ queue'[n].ver = top'[queue'[n].op]
  BY DEF ItemsArePast
<1> DEFINE new == [k \in 1..Len(req) |-> NewItem(req[k])]
<1>1. new \in Seq(Item) /\ Len(new) = Len(req) /\ queue' = q \o new
  <2>1. \A k \in 1..Len(req) : req[k] \in Request  OBVIOUS
  <2>2. \A k \in 1..Len(req) : NewItem(req[k]) \in Item  BY <2>1, ItemTyped
  <2> QED  BY <2>2 DEF Enqueue
<1>2. \A k \in 1..Len(req) : new[k].op = req[k].op /\ new[k].ver = req[k].ver
  <2>1. \A k \in 1..Len(req) : req[k] \in Request  OBVIOUS
  <2> QED  BY <2>1, ItemTyped
<1> HIDE DEF new
<1>3. Len(q \o new) = Len(q) + Len(req) /\ Len(q) \in Nat /\ Len(req) \in Nat
  <2>1. Len(q \o new) = Len(q) + Len(new)  BY <1>1, ConcatFacts
  <2>2. Len(q) \in Nat /\ Len(req) \in Nat  OBVIOUS
  <2> QED  BY <1>1, <2>1, <2>2
<1>4. n \in 1..(Len(q) + Len(req)) /\ queue'[n] = (q \o new)[n]  BY <1>1, <1>3
<1>5. CASE n <= Len(q)
  <2>1. n \in 1..Len(q) /\ (q \o new)[n] = q[n]  BY <1>1, <1>3, <1>4, <1>5, ConcatFacts
  <2> QED  BY <1>4, <2>1
<1>6. CASE n > Len(q)
  <2>1. n - Len(q) \in 1..Len(req) /\ (q \o new)[n] = new[n - Len(q)]
    BY <1>1, <1>3, <1>4, <1>6, ConcatFacts
  <2>2. PICK j \in 1..Len(req) : j = n - Len(q)  BY <2>1
  <2>3. queue'[n] = new[j]  BY <1>4, <2>1, <2>2
  <2>4. new[j].op = req[j].op /\ new[j].ver = req[j].ver /\ req[j].ver = top'[req[j].op]  BY <1>2
  <2> QED  BY <2>3, <2>4
<1> QED  BY <1>3, <1>4, <1>5, <1>6
-----------------------------------------------------------------------------
(* The invariants after a step, from what the step does to rows, items and  *)
(* workers.                                                                 *)

\* A worker that does not move, outside the step that must not be disturbed.
Aside(w) == work'[w] = work[w] /\ work[w].pc # "floors"

LEMMA TimelyFrom ==
  ASSUME TypeInv, TypeInv', TimelyInv, RowsMove, ItemsArePast,
         \A w \in Worker : Aside(w) \/ WorkIsFresh(w)'
  PROVE  TimelyInv'
<1>1. RowsAreCurrent' /\ ReadyIsFresh'  BY MovesKeepRows DEF TimelyInv
<1>2. QueueIsPast'  BY ItemsStayPast DEF TimelyInv
<1>3. ASSUME NEW w \in Worker PROVE WorkIsFresh(w)'
  <2>1. CASE Aside(w)  BY <2>1, MovesKeepWork DEF TimelyInv, Aside
  <2> QED  BY <2>1
<1> QED  BY <1>1, <1>2, <1>3 DEF TimelyInv

\* What a step does to the record of the rows there may be.
RowsRecorded ==
  \A o \in Op : \/ rows'[o] = rows[o] \/ rows'[o] = NoRow
                \/ rows'[o].state # "absent" /\ (rows[o].state # "absent" \/ Known(o)')

LEMMA RecordFrom ==
  ASSUME TypeInv, TypeInv', RecordInv, closed <= closed', full \subseteq full',
         RowsRecorded, PlacedAreClosed', ContentIsClosed',
         \A w \in Worker : Aside(w) \/ (FloorsFit(w)' /\ DeferredIsFull(w)')
  PROVE  RecordInv'
<1>1. RowsAreKnown' /\ AbsentIsNoRow'  BY RowsStayKnown DEF RecordInv, RowsRecorded
<1>2. ASSUME NEW w \in Worker PROVE FloorsFit(w)' /\ DeferredIsFull(w)'
  <2>1. CASE Aside(w)
    <3>1. FloorsFit(w)'  BY <2>1 DEF Aside, FloorsFit
    <3>2. DeferredIsFull(w)  BY DEF RecordInv
    <3>3. DeferredIsFull(w)'  BY <2>1, <3>2 DEF Aside, DeferredIsFull
    <3> QED  BY <3>1, <3>3
  <2> QED  BY <1>2, <2>1
<1> QED  BY <1>1, <1>2 DEF RecordInv

\* A step that leaves the thread alone keeps what the record says of it.
LEMMA ThreadStays ==
  ASSUME RecordInv, TypeInv, UNCHANGED <<rev, closed, placed, full>>
  PROVE  closed <= closed' /\ full \subseteq full' /\ PlacedAreClosed' /\ ContentIsClosed'
<1>1. closed \in Nat  BY ThreadFacts DEF TypeInv, TypeOK
<1>2. PlacedAreClosed'  BY DEF RecordInv, PlacedAreClosed
<1>3. ContentIsClosed'  BY DEF RecordInv, ContentIsClosed, InClosedTurn
<1> QED  BY <1>1, <1>2, <1>3

\* A row that covers the same messages at the same revisions is as fresh as it was.
LEMMA StillWhere ==
  ASSUME NEW o \in Op, Covers(o)' = Covers(o), \A m \in Covers(o) : rev'[m] = rev[m]
  PROVE  Still(o)
BY DEF Still, IsFresh, FreshNext

LEMMA CoversMessages ==
  ASSUME NEW o \in Op
  PROVE  Covers(o) \subseteq Message
<1>1. CASE o[1] = "message"
  <2>1. o[2] \in Derivable  BY <1>1, OpKinds, OpTags
  <2>2. o[2] \in Message  BY <2>1, DerivationPipelineAssumption
  <2> QED  BY <1>1, <2>2 DEF Covers
<1>2. CASE o[1] \in {"turn", "compression"}
  <2>1. o[2] \in Turn  BY <1>2, OpKinds, OpTags
  <2> QED  BY <1>2, <2>1, ThreadFacts DEF Covers
<1>3. CASE o[1] \notin {"message", "turn", "compression"}  BY <1>3, ThreadFacts DEF Covers
<1> QED  BY <1>1, <1>2, <1>3

LEMMA CoversStay ==
  ASSUME NEW o, placed' = placed
  PROVE  Covers(o)' = Covers(o)
BY DEF Covers

LEMMA StillInThread ==
  ASSUME UNCHANGED <<rev, placed>>, NEW o \in Op
  PROVE  /\ Still(o) /\ Covers(o)' = Covers(o)
         /\ \A of : IsFresh(o, of) <=> FreshNext(o, of)
<1>1. Covers(o)' = Covers(o)  BY CoversStay
<1>2. Still(o)  BY <1>1, StillWhere
<1>3. \A of : IsFresh(o, of) <=> FreshNext(o, of)  BY <1>1 DEF IsFresh, FreshNext
<1> QED  BY <1>1, <1>2, <1>3

\* The rows as they are, and the queue with the items it had.
LEMMA NothingMoves ==
  ASSUME UNCHANGED <<rev, placed, rows, top>>
  PROVE  RowsMove /\ RowsRecorded
<1>1. \A o \in Op : RowStays(o)  BY StillInThread DEF RowStays
<1> QED  BY <1>1 DEF RowsMove, RowsRecorded

LEMMA TailEntries ==
  ASSUME queue \in Seq(Item), queue # <<>>
  PROVE  /\ Tail(queue) \in Seq(Item)
         /\ \A n \in 1..Len(Tail(queue)) :
              \E k \in 1..Len(queue) : Tail(queue)[n].op = queue[k].op /\ Tail(queue)[n].ver = queue[k].ver
<1>1. /\ Tail(queue) \in Seq(Item) /\ Len(queue) \in Nat /\ Len(Tail(queue)) = Len(queue) - 1
      /\ \A n \in 1..(Len(queue) - 1) : Tail(queue)[n] = queue[n + 1]
  BY HeadFacts
<1>2. ASSUME NEW n \in 1..Len(Tail(queue))
      PROVE  n + 1 \in 1..Len(queue) /\ Tail(queue)[n] = queue[n + 1]
  BY <1>1
<1> QED  BY <1>1, <1>2

LEMMA TailItems ==
  ASSUME queue \in Seq(Item), queue # <<>>, queue' = Tail(queue)
  PROVE  ItemsArePast
BY TailEntries DEF ItemsArePast

LEMMA SameItems ==
  ASSUME Len(queue') = Len(queue),
         \A n \in 1..Len(queue) : queue'[n].op = queue[n].op /\ queue'[n].ver = queue[n].ver
  PROVE  ItemsArePast
BY DEF ItemsArePast

\* The operations that may have a row are made from messages of closed turns.
LEMMA KnownCovers ==
  ASSUME TypeInv, PlacedAreClosed, NEW o \in Op, Known(o), NEW m \in Covers(o)
  PROVE  InClosedTurn(m)
<1>1. CASE o[1] = "message"  BY <1>1 DEF Covers, Known
<1>2. CASE o[1] \in {"turn", "compression"}
  <2>1. o[2] \in Turn  BY <1>2, OpKinds, OpTags
  <2>2. m \in MembersOf(o[2]) /\ o[2] <= closed  BY <1>2 DEF Covers, Known
  <2> QED  BY <2>1, <2>2 DEF InClosedTurn
<1>3. CASE o[1] \notin {"message", "turn", "compression"}
  <2>1. o[2] \in Chunk  BY <1>3, OpKinds, OpTags
  <2>2. PICK u \in Turn : placed[u] = o[2] /\ m \in MembersOf(u)  BY <1>3 DEF Covers
  <2>3. o[2] # 0  BY <2>1, ThreadFacts DEF Chunk, Turn
  <2>4. u <= closed  BY <2>2, <2>3 DEF PlacedAreClosed
  <2> QED  BY <2>2, <2>4 DEF InClosedTurn
<1> QED  BY <1>1, <1>2, <1>3

\* What is made from a message is its own derivation or lies above it.
LEMMA AboveMember ==
  ASSUME TypeInv, NEW m \in Message, NEW o \in Op, m \in Covers(o)
  PROVE  o \in {Msg(m)} \cup UpwardOps(m)
<1>1. CASE o[2] \in Derivable /\ o = Msg(o[2])
  <2>1. Covers(o) = {o[2]}  BY <1>1, OpTags DEF Covers
  <2> QED  BY <1>1, <2>1
<1>2. CASE o[2] \in Turn /\ (o = Asm(o[2]) \/ o = Cmp(o[2]))
  <2>1. o[1] \in {"turn", "compression"} /\ o[1] # "message"  BY <1>2, OpTags
  <2>2. m \in MembersOf(o[2])  BY <2>1 DEF Covers
  <2>3. TurnOf(m) = o[2]  BY <1>2, <2>2, TurnOfMember
  <2> QED  BY <1>2, <2>3 DEF UpwardOps
<1>3. CASE o[2] \in Chunk /\ (o = Detailed(o[2]) \/ o = Brief(o[2]))
  <2>1. o[1] \notin {"message", "turn", "compression"}  BY <1>3, OpTags
  <2>2. PICK u \in Turn : placed[u] = o[2] /\ m \in MembersOf(u)  BY <2>1 DEF Covers
  <2>3. TurnOf(m) = u  BY <2>2, TurnOfMember
  <2> QED  BY <1>3, <2>2, <2>3 DEF UpwardOps
<1> QED  BY <1>1, <1>2, <1>3, OpKinds
LEMMA FreshFrom ==
  ASSUME TypeInv, TypeInv', FreshInv, RecordInv', ~ back' => ~ back,
         ~ back' /\ TimelyInv => /\ RowsMove /\ ItemsArePast
                                 /\ \A w \in Worker : Aside(w) \/ WorkIsFresh(w)'
  PROVE  FreshInv'
<1>1. ASSUME ~ back' PROVE TimelyInv'
  <2>1. TimelyInv  BY <1>1 DEF FreshInv
  <2> QED  BY <1>1, <2>1, TimelyFrom
<1> QED  BY <1>1 DEF FreshInv

\* Without a claim or floors in progress, every worker is aside.
LEMMA QuietAside ==
  ASSUME OneProcess, Quiet, work' = work
  PROVE  \A w \in Worker : Aside(w)
BY DEF Quiet, Aside

LEMMA OthersAside ==
  ASSUME OneProcess, TypeInv, NEW w \in Worker, Undisturbed(w), NEW k, work' = [work EXCEPT ![w] = k]
  PROVE  work'[w] = k /\ \A x \in Worker \ {w} : Aside(x)
BY DEF Undisturbed, Aside, TypeInv, TypeOK

-----------------------------------------------------------------------------
(* The record changes.                                                     *)

LEMMA SameVersion ==
  ASSUME NEW req, \A n \in 1..Len(req) : req[n].ver = 1
  PROVE  Consistent(req)
BY DEF Consistent

LEMMA SameQueue ==
  \A n \in 1..Len(queue) : \E k \in 1..Len(queue) : queue[n].op = queue[k].op /\ queue[n].ver = queue[k].ver
OBVIOUS

LEMMA FreshIntake ==
  ASSUME OneProcess, TypeInv, TypeInv', FreshInv, Intake
  PROVE  FreshInv'
<1>0. TypeOK  BY DEF TypeInv
<1>1. PICK t \in Turn : t = closed + 1
  BY <1>0, ThreadFacts DEF Intake, Turn, TypeOK
<1>2. /\ closed' = t /\ closed \in Nat /\ closed < t /\ UNCHANGED <<placed, full, work>>
      /\ rev' = [m \in Message |-> IF m \in MembersOf(t) THEN 1 ELSE rev[m]]
      /\ Enqueue(queue, rows, MessageWork(t) \o <<At(Asm(t), 1)>>) /\ Quiet
  BY <1>0, <1>1, ThreadFacts DEF Intake, TypeOK
<1>3. PICK req \in Seq(Request) :
        /\ Enqueue(queue, rows, req)
        /\ \A n \in 1..Len(req) :
             /\ req[n].ver = 1
             /\ \/ req[n].op = Asm(t)
                \/ \E m \in Derivable : m \in MembersOf(t) /\ req[n].op = Msg(m)
  BY <1>2, IntakeRequests
<1>4. /\ rows' = Pend(rows, req) /\ Remember(req) /\ rows \in [Op -> RowRec] /\ top \in [Op -> Nat]
      /\ queue \in Seq(Item)
  BY <1>0, <1>3 DEF Enqueue, TypeOK
<1>5. Consistent(req) /\ RecordInv  BY <1>3, SameVersion DEF FreshInv
<1>6. closed <= closed' /\ full \subseteq full'  BY <1>2, <1>1
<1>7. \A m : InClosedTurn(m)' <=> InClosedTurn(m) \/ m \in MembersOf(t)
  <2>1. \A u \in Turn : u <= closed' <=> u <= closed \/ u = t  BY <1>1, <1>2, ThreadFacts
  <2> QED  BY <2>1 DEF InClosedTurn
<1>8. RowsRecorded
  <2> SUFFICES ASSUME NEW o \in Op
               PROVE  rows'[o] = rows[o] \/ (rows'[o].state # "absent" /\ Known(o)')
    BY DEF RowsRecorded
  <2>1. CASE \E n \in 1..Len(req) : req[n].op = o
    <3>1. PICK n \in 1..Len(req) : req[n].op = o  BY <2>1
    <3>2. rows'[o].state = "pending"  BY <1>4, <2>1 DEF Pend
    <3>3. CASE o = Asm(t)  BY <1>1, <1>2, <3>2, <3>3, OpTags DEF Known
    <3>4. CASE \E m \in Derivable : m \in MembersOf(t) /\ o = Msg(m)
      <4>1. PICK m \in Derivable : m \in MembersOf(t) /\ o = Msg(m)  BY <3>4
      <4>2. o[1] = "message" /\ o[2] = m  BY <4>1, OpTags
      <4>3. Known(o)' <=> InClosedTurn(m)'  BY <4>2 DEF Known
      <4> QED  BY <1>7, <3>2, <4>1, <4>3
    <3> QED  BY <1>3, <3>1, <3>3, <3>4
  <2>2. CASE ~ \E n \in 1..Len(req) : req[n].op = o  BY <1>4, <2>2 DEF Pend
  <2> QED  BY <2>1, <2>2
<1>9. PlacedAreClosed'
  <2>1. ASSUME NEW u \in Turn, placed[u] # 0 PROVE u <= closed'
    <3>1. u <= closed /\ u \in Nat  BY <1>5, <2>1, ThreadFacts DEF RecordInv, PlacedAreClosed
    <3> QED  BY <1>1, <1>2, <3>1
  <2> QED  BY <1>2, <2>1 DEF PlacedAreClosed
<1>10. ContentIsClosed'
  <2>1. ASSUME NEW m \in Message, rev'[m] # 0 PROVE InClosedTurn(m)'
    <3>1. rev[m] # 0 \/ m \in MembersOf(t)  BY <1>2, <2>1
    <3> QED  BY <1>5, <1>7, <3>1 DEF RecordInv, ContentIsClosed
  <2> QED  BY <2>1 DEF ContentIsClosed
<1>11. RecordInv'
  BY <1>2, <1>5, <1>6, <1>8, <1>9, <1>10, RecordFrom, QuietAside
<1>12. ASSUME ~ back', TimelyInv PROVE RowsMove /\ ItemsArePast
  <2>1. /\ \A o \in Op :
             \/ /\ \E n \in 1..Len(req) : req[n].op = o
                /\ rows'[o].state = "pending" /\ rows'[o].ver = top'[o] /\ top'[o] > top[o]
             \/ /\ \A n \in 1..Len(req) : req[n].op # o
                /\ rows'[o] = rows[o] /\ top'[o] = top[o]
        /\ \A n \in 1..Len(req) : req[n].ver = top'[req[n].op]
    BY <1>4, <1>5, <1>12, PendBumps
  <2>2. ASSUME NEW o \in Op, rows[o].state # "absent" PROVE Still(o)
    <3>1. Known(o)  BY <1>5, <2>2 DEF RecordInv, RowsAreKnown
    <3>2. ASSUME NEW m \in Covers(o) PROVE rev'[m] = rev[m]
      <4>1. InClosedTurn(m)  BY <1>5, <3>1, KnownCovers DEF RecordInv
      <4>2. PICK u \in Turn : u <= closed /\ m \in MembersOf(u)  BY <4>1 DEF InClosedTurn
      <4>3. u # t  BY <1>1, <1>2, <4>2, ThreadFacts
      <4>4. m \notin MembersOf(t) /\ m \in Message
        BY <4>2, <4>3, ThreadFacts, DerivationPipelineAssumption
      <4> QED  BY <1>2, <4>4
    <3>3. Covers(o)' = Covers(o)  BY <1>2, CoversStay
    <3> QED  BY <3>2, <3>3, StillWhere
  <2>3. ASSUME NEW o \in Op PROVE RowStays(o) \/ RowIsBumped(o)
    BY <2>1, <2>2 DEF RowStays, RowIsBumped
  <2>4. ItemsArePast  BY <1>3, <1>4, <2>1, SameQueue, EnqueueItems
  <2> QED  BY <2>3, <2>4 DEF RowsMove
<1>13. ~ back' => ~ back  BY <1>4 DEF Remember
<1> QED  BY <1>2, <1>11, <1>12, <1>13, FreshFrom, QuietAside

LEMMA UnclaimedItems ==
  ASSUME queue \in Seq(Item), NEW S
  PROVE  \A n \in 1..Len(Unclaimed(queue, S)) :
           \E k \in 1..Len(queue) : /\ Unclaimed(queue, S)[n].op = queue[k].op
                                    /\ Unclaimed(queue, S)[n].ver = queue[k].ver
<1>1. PICK g : Picks(g, Unclaimed(queue, S), queue,
                     {i \in {queue[n] : n \in 1..Len(queue)} : i.claimed \/ i.op \notin S}, Len(queue))
  BY UnclaimedTyped
<1>2. \A n \in 1..Len(Unclaimed(queue, S)) : g[n] \in 1..Len(queue) /\ Unclaimed(queue, S)[n] = queue[g[n]]
  BY <1>1 DEF Picks
<1> QED  BY <1>2

\* A cascade over everything made from the one message that changes.
LEMMA FreshCascade ==
  ASSUME OneProcess, TypeInv, TypeInv', FreshInv, Quiet, NEW m \in Message,
         UNCHANGED <<closed, placed, full, work>>,
         \A x \in Message \ {m} : rev'[x] = rev[x], rev'[m] # 0 => rev[m] # 0,
         NEW D, NEW ops \in Seq(Op), Cascade(D, ops),
         \A o \in Entries(ops) : rows[o].state # "absent",
         \A o \in {Msg(m)} \cup UpwardOps(m) :
           o \in Op /\ rows[o].state # "absent" => o \in D \cup Entries(ops)
  PROVE  FreshInv'
<1>0. rows \in [Op -> RowRec] /\ top \in [Op -> Nat] /\ queue \in Seq(Item) /\ closed \in Nat
  BY ThreadFacts DEF TypeInv, TypeOK
<1> PICK S : S = D \cup Entries(ops)  OBVIOUS
<1>1. PICK q \in Seq(Item), req \in Seq(Request) :
        /\ S = D \cup Entries(ops) /\ q = Unclaimed(queue, S) /\ req = Bumped(ops)
        /\ Enqueue(q, Dropping(D), req)
  BY <1>0, CascadeIs, UnclaimedTyped, BumpedTyped
<1>2. /\ Len(req) = Len(ops)
      /\ \A n \in 1..Len(ops) : req[n].op = ops[n] /\ req[n].ver = rows[ops[n]].ver + 1
  BY <1>0, <1>1, BumpedTyped
<1>3. Consistent(req)  BY <1>2 DEF Consistent
<1>4. Dropping(D) \in [Op -> RowRec]  BY <1>0, ContentTyped DEF Dropping
<1>5. rows' = Pend(Dropping(D), req) /\ Remember(req)  BY <1>1 DEF Enqueue
<1>6. RecordInv  BY DEF FreshInv
<1>7. \A o \in Op : (\E n \in 1..Len(req) : req[n].op = o) <=> o \in Entries(ops)
  BY <1>2 DEF Entries
<1>8. RowsRecorded
  <2> SUFFICES ASSUME NEW o \in Op
               PROVE  \/ rows'[o] = rows[o] \/ rows'[o] = NoRow
                      \/ rows'[o].state # "absent" /\ rows[o].state # "absent"
    BY DEF RowsRecorded
  <2>1. CASE o \in Entries(ops)
    <3>1. rows'[o].state = "pending"  BY <1>5, <1>7, <2>1 DEF Pend
    <3> QED  BY <2>1, <3>1
  <2>2. CASE o \notin Entries(ops)
    <3>1. rows'[o] = Dropping(D)[o]  BY <1>5, <1>7, <2>2 DEF Pend
    <3> QED  BY <3>1 DEF Dropping
  <2> QED  BY <2>1, <2>2
<1>9. closed <= closed' /\ full \subseteq full' /\ PlacedAreClosed'
  BY <1>0, <1>6 DEF RecordInv, PlacedAreClosed
<1>10. ContentIsClosed'
  <2>1. ASSUME NEW x \in Message, rev'[x] # 0 PROVE rev[x] # 0
    <3>1. CASE x = m  BY <2>1, <3>1
    <3>2. CASE x # m  BY <2>1, <3>2
    <3> QED  BY <3>1, <3>2
  <2>2. \A x : InClosedTurn(x)' <=> InClosedTurn(x)  BY DEF InClosedTurn
  <2> QED  BY <1>6, <2>1, <2>2 DEF RecordInv, ContentIsClosed
<1>11. RecordInv'  BY <1>6, <1>8, <1>9, <1>10, RecordFrom, QuietAside
<1>12. ASSUME ~ back', TimelyInv PROVE RowsMove /\ ItemsArePast
  <2>1. /\ \A o \in Op :
             \/ /\ \E n \in 1..Len(req) : req[n].op = o
                /\ rows'[o].state = "pending" /\ rows'[o].ver = top'[o] /\ top'[o] > top[o]
             \/ /\ \A n \in 1..Len(req) : req[n].op # o
                /\ rows'[o] = Dropping(D)[o] /\ top'[o] = top[o]
        /\ \A n \in 1..Len(req) : req[n].ver = top'[req[n].op]
    BY <1>0, <1>3, <1>4, <1>5, <1>12, PendBumps
  <2>2. ASSUME NEW o \in Op PROVE RowStays(o) \/ RowIsBumped(o) \/ RowGoes(o)
    <3>1. CASE o \in Entries(ops)
      <4>1. RowIsBumped(o)  BY <1>7, <2>1, <3>1 DEF RowIsBumped
      <4> QED  BY <4>1
    <3>2. CASE o \in D \ Entries(ops)
      <4>1. \A n \in 1..Len(req) : req[n].op # o  BY <1>7, <3>2
      <4>2. rows'[o] = Dropping(D)[o] /\ top'[o] = top[o]  BY <2>1, <4>1
      <4>3. Dropping(D)[o] = NoRow  BY <3>2 DEF Dropping
      <4> QED  BY <4>2, <4>3 DEF RowGoes, NoRow
    <3>3. CASE o \notin D \cup Entries(ops)
      <4>1. rows'[o] = rows[o] /\ top'[o] = top[o]
        <5>1. \A n \in 1..Len(req) : req[n].op # o  BY <1>7, <3>3
        <5>2. rows'[o] = Dropping(D)[o] /\ top'[o] = top[o]  BY <2>1, <5>1
        <5>3. Dropping(D)[o] = rows[o]  BY <3>3 DEF Dropping
        <5> QED  BY <5>2, <5>3
      <4>2. ASSUME rows[o].state # "absent" PROVE Still(o)
        <5>1. m \notin Covers(o)  BY <3>3, <4>2, AboveMember
        <5>2. Covers(o) \subseteq Message  BY CoversMessages
        <5>3. \A x \in Covers(o) : rev'[x] = rev[x]  BY <5>1, <5>2
        <5> QED  BY <5>3, CoversStay, StillWhere
      <4> QED  BY <4>1, <4>2 DEF RowStays
    <3> QED  BY <3>1, <3>2, <3>3
  <2>3. RowsMove  BY <2>2 DEF RowsMove
  <2>4. \A n \in 1..Len(q) : \E k \in 1..Len(queue) : q[n].op = queue[k].op /\ q[n].ver = queue[k].ver
    <3>1. \A n \in 1..Len(Unclaimed(queue, S)) :
            \E k \in 1..Len(queue) : /\ Unclaimed(queue, S)[n].op = queue[k].op
                                     /\ Unclaimed(queue, S)[n].ver = queue[k].ver
      BY <1>0, UnclaimedItems
    <3> QED  BY <1>1, <3>1, Zenon
  <2>5. ItemsArePast  BY <1>1, <2>1, <2>4, EnqueueItems
  <2> QED  BY <2>3, <2>5
<1>13. ~ back' => ~ back  BY <1>5 DEF Remember
<1> QED  BY <1>11, <1>12, <1>13, FreshFrom, QuietAside

LEMMA FreshEdit ==
  ASSUME OneProcess, TypeInv, TypeInv', FreshInv, NEW m \in Message, Edit(m) \/ Remove(m)
  PROVE  FreshInv'
<1>0. rev \in Content  BY DEF TypeInv, TypeOK
<1>1. Quiet /\ rev[m] # 0 /\ UNCHANGED <<closed, placed, full, work>>  BY DEF Edit, Remove, Mutable
<1>2. CASE Edit(m)
  <2>1. PICK ops \in Seq(Op) :
          /\ ops = Own(m) \o Upward(m)
          /\ Entries(ops) = {o \in {Msg(m)} \cup UpwardOps(m) : o \in Op /\ rows[o].state # "absent"}
    BY EntriesOfEdit
  <2>2. Cascade({}, ops)  BY <1>2, <2>1 DEF Edit
  <2>3. \A x \in Message \ {m} : rev'[x] = rev[x]  BY <1>0, <1>2 DEF Edit, Content
  <2> QED  BY <1>1, <2>1, <2>2, <2>3, FreshCascade
<1>3. CASE Remove(m)
  <2>1. PICK own \in Seq(Op) :
          own = Own(m) /\ Entries(own) = {o \in {Msg(m)} : o \in Op /\ rows[o].state # "absent"}
    BY EntriesOfDerived DEF Own
  <2>2. PICK ops \in Seq(Op) :
          /\ ops = Upward(m)
          /\ Entries(ops) = {o \in UpwardOps(m) : o \in Op /\ rows[o].state # "absent"}
    BY EntriesOfUpward
  <2>3. Cascade(Entries(own), ops)  BY <1>3, <2>1, <2>2 DEF Remove, Entries
  <2>4. \A x \in Message \ {m} : rev'[x] = rev[x]  BY <1>0, <1>3 DEF Remove, Content
  <2> QED  BY <1>1, <2>1, <2>2, <2>3, <2>4, FreshCascade
<1> QED  BY <1>2, <1>3

LEMMA FreshLapse ==
  ASSUME OneProcess, TypeInv, TypeInv', FreshInv, Lapse
  PROVE  FreshInv'
<1>0. rows \in [Op -> RowRec] /\ queue \in Seq(Item)  BY DEF TypeInv, TypeOK
<1>1. Quiet /\ UNCHANGED <<rev, closed, placed, full, work, top, back>>  BY DEF Lapse
<1>2. \A w \in Worker : Aside(w)  BY <1>1, QuietAside
<1>3. \A o \in Op : rows'[o] = rows[o]
                    \/ /\ rows[o].state # "absent" /\ rows'[o].state = "failed"
                       /\ rows'[o].ver = rows[o].ver
  <2> SUFFICES ASSUME NEW o \in Op
               PROVE  rows'[o] = rows[o] \/ (/\ rows[o].state # "absent" /\ rows'[o].state = "failed"
                                             /\ rows'[o].ver = rows[o].ver)
    OBVIOUS
  <2>1. CASE rows' = rows  BY <2>1
  <2>2. CASE rows' = ExpiredRow(queue[1]) /\ rows' # rows
    <3>1. PICK s \in States, of \in Content : s = "failed" /\ of = NoContent
      BY ContentTyped DEF States
    <3> PICK x : x = queue[1].op  OBVIOUS
    <3>2. rows' = StampRow(x, s, of) /\ rows[x].state # "absent"  BY <2>2, <3>1 DEF ExpiredRow
    <3>3. \A y \in Op : StampRow(x, s, of)[y]
            = IF y = x THEN [state |-> s, ver |-> rows[y].ver, of |-> of] ELSE rows[y]
      BY <1>0, <3>1, RowStamped
    <3>4. rows'[o] = IF o = x THEN [state |-> s, ver |-> rows[o].ver, of |-> of] ELSE rows[o]
      BY <3>2, <3>3, Zenon
    <3>5. [state |-> s, ver |-> rows[o].ver, of |-> of].state = "failed"
          /\ [state |-> s, ver |-> rows[o].ver, of |-> of].ver = rows[o].ver
      BY <3>1
    <3> HIDE DEF StampRow
    <3> QED  BY <3>1, <3>2, <3>4, <3>5
  <2> QED  BY <1>0, <2>1, <2>2, LapseIs
<1>4. RowsRecorded  BY <1>3 DEF RowsRecorded
<1>5. RowsMove
  <2>1. ASSUME NEW o \in Op PROVE RowStays(o) \/ RowTurns(o)
    BY <1>1, <1>3, StillInThread DEF RowStays, RowTurns
  <2> QED  BY <2>1 DEF RowsMove
<1>6. ItemsArePast
  <2>1. CASE queue # <<>> /\ queue' = Tail(queue)  BY <1>0, <2>1, TailItems
  <2>2. CASE /\ Len(queue') = Len(queue)
             /\ queue'[1].op = queue[1].op /\ queue'[1].ver = queue[1].ver
             /\ \A n \in 2..Len(queue) : queue'[n] = queue[n]
    <3>1. \A n \in 1..Len(queue) : n = 1 \/ n \in 2..Len(queue)  BY <1>0
    <3> QED  BY <2>2, <3>1, SameItems
  <2> QED  BY <1>0, <2>1, <2>2, LapseIs
<1>7. RecordInv'
  <2>1. RecordInv  BY DEF FreshInv
  <2> QED  BY <1>1, <1>2, <1>4, <2>1, ThreadStays, RecordFrom
<1> QED  BY <1>1, <1>2, <1>5, <1>6, <1>7, FreshFrom

-----------------------------------------------------------------------------
(* Claims.                                                                 *)

LEMMA OutsideSteps ==
  ASSUME TypeInv', NEW w \in Worker, work'[w].pc \in {"idle", "second", "claimed"}
  PROVE  FloorsFit(w)' /\ DeferredIsFull(w)'
<1>1. FloorsFit(w)'  BY DEF FloorsFit
<1>2. work'[w].outcome # "deferred"  BY DEF TypeInv, WorkFits
<1> QED  BY <1>1, <1>2 DEF DeferredIsFull

LEMMA RestingIsFresh ==
  ASSUME NEW w \in Worker, work'[w].pc \in {"idle", "second"}
  PROVE  WorkIsFresh(w)'
BY DEF WorkIsFresh, Busy

LEMMA ClaimedIsFresh ==
  ASSUME TypeInv', NEW w \in Worker, work'[w].pc = "claimed", NEW o \in Op, work'[w].op = o,
         CountsAt(w)' <= top'[o]
  PROVE  WorkIsFresh(w)'
BY DEF WorkIsFresh, Busy

LEMMA ClaimedItem ==
  ASSUME TypeInv', NEW w \in Worker, work'[w].pc = "claimed", NEW o \in Op, work'[w].op = o,
         work'[w].ver <= top'[o]
  PROVE  WorkIsFresh(w)'
<1>1. work'[w].ver \in Nat /\ top'[o] \in Nat
  <2>1. work'[w] \in Work /\ top' \in [Op -> Nat]  BY DEF TypeInv, TypeOK
  <2> QED  BY <2>1 DEF Work
<1>2. CountsAt(w)' <= top'[o]  BY <1>1 DEF CountsAt
<1> QED  BY <1>2, ClaimedIsFresh

\* A worker's step in a thread that stays as it is.
LEMMA RecordAtWorker ==
  ASSUME TypeInv, TypeInv', FreshInv, UNCHANGED <<rev, closed, placed, full>>, RowsRecorded,
         NEW w \in Worker, \A x \in Worker \ {w} : Aside(x), FloorsFit(w)', DeferredIsFull(w)'
  PROVE  RecordInv'
<1>1. RecordInv  BY DEF FreshInv
<1>2. \A x \in Worker : Aside(x) \/ (FloorsFit(x)' /\ DeferredIsFull(x)')  OBVIOUS
<1> QED  BY <1>1, <1>2, ThreadStays, RecordFrom

LEMMA FreshAtWorker ==
  ASSUME TypeInv, TypeInv', FreshInv, RecordInv', ~ back' => ~ back,
         NEW w \in Worker, \A x \in Worker \ {w} : Aside(x),
         ~ back' /\ TimelyInv => RowsMove /\ ItemsArePast /\ WorkIsFresh(w)'
  PROVE  FreshInv'
<1>1. ~ back' /\ TimelyInv => RowsMove /\ ItemsArePast
                              /\ \A x \in Worker : Aside(x) \/ WorkIsFresh(x)'
  OBVIOUS
<1> QED  BY <1>1, FreshFrom

\* The queue with its head taken has the items it had.
LEMMA TakenItems ==
  ASSUME queue \in Seq(Item), queue # <<>>, queue' = TakeHead
  PROVE  ItemsArePast
<1>1. /\ Len(queue') = Len(queue) /\ Len(queue) \in Nat
      /\ queue'[1].op = queue[1].op /\ queue'[1].ver = queue[1].ver
      /\ \A n \in 2..Len(queue) : queue'[n] = queue[n]
  BY TakeHeadFacts, HeadFacts
<1>2. \A n \in 1..Len(queue) : n = 1 \/ n \in 2..Len(queue)  BY <1>1
<1> QED  BY <1>1, <1>2, SameItems

\* A worker takes the head of the queue.
LEMMA FreshTake ==
  ASSUME OneProcess, TypeInv, TypeInv', FreshInv, NEW w \in Worker, Undisturbed(w),
         UNCHANGED <<rev, closed, placed, full, rows, top, back>>,
         queue # <<>>, queue' = TakeHead, NEW call \in BOOLEAN, Become(w, Holding(TakeHead[1], call))
  PROVE  FreshInv'
<1>0. queue \in Seq(Item)  BY DEF TypeInv, TypeOK
<1>1. /\ TakeHead[1] \in Item /\ TakeHead[1].op = queue[1].op /\ TakeHead[1].ver = queue[1].ver
      /\ 1 \in 1..Len(queue)
  BY <1>0, TakeHeadFacts, HeadFacts
<1>2. PICK k : k = Holding(TakeHead[1], call)  OBVIOUS
<1>3. work'[w] = k /\ \A x \in Worker \ {w} : Aside(x)  BY <1>2, OthersAside DEF Become
<1>4. PICK o \in Op : o = queue[1].op  BY <1>1 DEF Item
<1>5. k.pc = "claimed" /\ k.op = o /\ k.ver = queue[1].ver  BY <1>1, <1>2, <1>4, HoldingTyped
<1>6. FloorsFit(w)' /\ DeferredIsFull(w)'  BY <1>3, <1>5, OutsideSteps
<1>7. RowsRecorded /\ RowsMove  BY NothingMoves
<1>8. RecordInv'  BY <1>3, <1>6, <1>7, RecordAtWorker
<1>9. ASSUME TimelyInv PROVE WorkIsFresh(w)'
  <2>1. queue[1].ver <= top'[o]  BY <1>1, <1>4, <1>9 DEF TimelyInv, QueueIsPast
  <2> QED  BY <1>3, <1>5, <2>1, ClaimedItem
<1>10. ItemsArePast  BY <1>0, TakenItems
<1> QED  BY <1>3, <1>7, <1>8, <1>9, <1>10, FreshAtWorker

LEMMA FreshClaim ==
  ASSUME OneProcess, TypeInv, TypeInv', FreshInv, NEW w \in Worker, Claim(w)
  PROVE  FreshInv'
<1>1. /\ Undisturbed(w) /\ UNCHANGED <<rev, closed, placed, full, rows, top, back>>
      /\ queue # <<>> /\ queue' = TakeHead /\ Become(w, Holding(TakeHead[1], FALSE))
  BY DEF Claim
<1>2. PICK call \in BOOLEAN : call = FALSE  OBVIOUS
<1> QED  BY <1>1, <1>2, FreshTake

\* A worker that comes to rest and leaves the rows and the queue.
LEMMA FreshRest ==
  ASSUME OneProcess, TypeInv, TypeInv', FreshInv, NEW w \in Worker, Undisturbed(w),
         UNCHANGED <<rev, closed, placed, full, rows, top, back, queue>>, Become(w, Idle)
  PROVE  FreshInv'
<1>1. PICK k : k = Idle  OBVIOUS
<1>2. work'[w] = k /\ \A x \in Worker \ {w} : Aside(x)  BY <1>1, OthersAside DEF Become
<1>3. work'[w].pc = "idle"  BY <1>1, <1>2, IdleTyped
<1>4. FloorsFit(w)' /\ DeferredIsFull(w)' /\ WorkIsFresh(w)'  BY <1>3, OutsideSteps, RestingIsFresh
<1>5. RowsRecorded /\ RowsMove  BY NothingMoves
<1>6. ItemsArePast  BY SameItems
<1>7. RecordInv'  BY <1>2, <1>4, <1>5, RecordAtWorker
<1> QED  BY <1>2, <1>4, <1>5, <1>6, <1>7, FreshAtWorker

-----------------------------------------------------------------------------
(* Follow-up work and explicit derives.                                    *)

\* The table rws differs from the rows at most in the state of rows at their version.
TurnedOnly(rws) ==
  \A o \in Op : rws[o] = rows[o]
                \/ (/\ rows[o].state # "absent" /\ rws[o].state # "absent"
                    /\ rws[o].ver = rows[o].ver)

LEMMA AskRecorded ==
  ASSUME NEW rws, NEW req, TurnedOnly(rws), rows' = Pend(rws, req),
         \A n \in 1..Len(req) : \A o \in Op : req[n].op = o => rows[o].state # "absent" \/ Known(o)'
  PROVE  RowsRecorded
<1> SUFFICES ASSUME NEW o \in Op
             PROVE  \/ rows'[o] = rows[o]
                    \/ rows'[o].state # "absent" /\ (rows[o].state # "absent" \/ Known(o)')
  BY DEF RowsRecorded
<1>1. CASE \E n \in 1..Len(req) : req[n].op = o
  <2>1. rows'[o].state = "pending"  BY <1>1 DEF Pend
  <2> QED  BY <1>1, <2>1
<1>2. CASE ~ \E n \in 1..Len(req) : req[n].op = o
  <2>1. rows'[o] = rws[o]  BY <1>2 DEF Pend
  <2> QED  BY <2>1 DEF TurnedOnly
<1> QED  BY <1>1, <1>2

LEMMA AskMoves ==
  ASSUME TypeInv, NEW rws \in [Op -> RowRec], NEW req \in Seq(Request), TurnedOnly(rws),
         Consistent(req), rows' = Pend(rws, req), Remember(req), ~ back',
         \A o \in Op : rows[o].state # "absent" => Still(o),
         \A o \in Op : rws[o] # rows[o] /\ rws[o].state = "ready" => FreshNext(o, rws[o].of)
  PROVE  RowsMove /\ \A n \in 1..Len(req) : req[n].ver = top'[req[n].op]
<1>0. rows \in [Op -> RowRec] /\ top \in [Op -> Nat]  BY DEF TypeInv, TypeOK
<1>1. /\ \A o \in Op :
           \/ /\ \E n \in 1..Len(req) : req[n].op = o
              /\ rows'[o].state = "pending" /\ rows'[o].ver = top'[o] /\ top'[o] > top[o]
           \/ /\ \A n \in 1..Len(req) : req[n].op # o
              /\ rows'[o] = rws[o] /\ top'[o] = top[o]
      /\ \A n \in 1..Len(req) : req[n].ver = top'[req[n].op]
  BY <1>0, PendBumps
<1>2. ASSUME NEW o \in Op PROVE RowStays(o) \/ RowIsBumped(o) \/ RowTurns(o)
  <2>1. CASE rows'[o].state = "pending" /\ rows'[o].ver = top'[o] /\ top'[o] > top[o]
    BY <2>1 DEF RowIsBumped
  <2>2. CASE rows'[o] = rws[o] /\ top'[o] = top[o]
    <3>1. CASE rws[o] = rows[o]  BY <2>2, <3>1 DEF RowStays
    <3>2. CASE rws[o] # rows[o]  BY <2>2, <3>2 DEF RowTurns, TurnedOnly
    <3> QED  BY <3>1, <3>2
  <2> QED  BY <1>1, <2>1, <2>2
<1> QED  BY <1>1, <1>2 DEF RowsMove

LEMMA SingleRequest ==
  ASSUME NEW r \in Request
  PROVE  <<r>> \in Seq(Request) /\ Len(<<r>>) = 1 /\ <<r>>[1] = r
OBVIOUS

\* An operation that has a row is asked for, and the worker takes it or goes on.
LEMMA FreshAsk ==
  ASSUME OneProcess, TypeInv, TypeInv', FreshInv, NEW w \in Worker, Undisturbed(w),
         UNCHANGED <<rev, closed, placed, full>>,
         NEW o \in Op, NEW v \in Nat, rows[o].state # "absent",
         rows' = Pend(rows, <<At(o, v)>>), Remember(<<At(o, v)>>),
         top'[o] = v => ItemsArePast,
         NEW k, Become(w, k), k.pc = "idle" \/ (k.pc = "claimed" /\ k.op = o /\ k.ver = v)
  PROVE  FreshInv'
<1>0. rows \in [Op -> RowRec]  BY DEF TypeInv, TypeOK
<1>1. PICK req \in Seq(Request) : req = <<At(o, v)>> /\ Len(req) = 1 /\ req[1].op = o /\ req[1].ver = v
  <2>1. At(o, v) \in Request /\ At(o, v).op = o /\ At(o, v).ver = v  BY DEF At, Request
  <2> QED  BY <2>1, SingleRequest
<1>2. rows' = Pend(rows, req) /\ Remember(req)  BY <1>1
<1>3. Consistent(req) /\ TurnedOnly(rows)  BY <1>1 DEF Consistent, TurnedOnly
<1>4. RowsRecorded  BY <1>1, <1>2, <1>3, AskRecorded
<1>5. work'[w] = k /\ \A x \in Worker \ {w} : Aside(x)  BY OthersAside DEF Become
<1>6. FloorsFit(w)' /\ DeferredIsFull(w)'  BY <1>5, OutsideSteps
<1>7. RecordInv'  BY <1>4, <1>5, <1>6, RecordAtWorker
<1>8. ASSUME ~ back' PROVE RowsMove /\ ItemsArePast /\ WorkIsFresh(w)'
  <2>1. RowsMove /\ \A n \in 1..Len(req) : req[n].ver = top'[req[n].op]
    BY <1>0, <1>1, <1>2, <1>3, <1>8, StillInThread, AskMoves
  <2>2. top'[o] = v  BY <1>1, <2>1
  <2>3. CASE k.pc = "idle"  BY <1>5, <2>1, <2>2, <2>3, RestingIsFresh
  <2>4. CASE k.pc = "claimed" /\ k.op = o /\ k.ver = v
    <3>1. WorkIsFresh(w)'  BY <1>5, <2>2, <2>4, ClaimedItem
    <3> QED  BY <2>1, <2>2, <3>1
  <2> QED  BY <2>3, <2>4
<1>9. ~ back' => ~ back  BY <1>2 DEF Remember
<1> QED  BY <1>5, <1>7, <1>8, <1>9, FreshAtWorker

LEMMA FreshClaimNow ==
  ASSUME OneProcess, TypeInv, TypeInv', FreshInv, NEW w \in Worker, Undisturbed(w),
         UNCHANGED <<rev, closed, placed, full>>, NEW o \in Op, ClaimNow(w, o)
  PROVE  FreshInv'
<1>0. rows \in [Op -> RowRec] /\ queue \in Seq(Item)  BY DEF TypeInv, TypeOK
<1>1. PICK v \in Nat, r \in Request : v = NextVersion(o) /\ r = At(o, NextVersion(o))
                                      /\ r.op = o /\ r.ver = v
  BY <1>0, NextVersionTyped DEF At
<1>2. CASE Become(w, Idle) /\ UNCHANGED <<queue, rows, top, back>>  BY <1>2, FreshRest
<1>3. CASE /\ queue # <<>> /\ queue' = TakeHead /\ UNCHANGED <<rows, top, back>>
           /\ Become(w, Holding(TakeHead[1], TRUE))
  <2>1. PICK call \in BOOLEAN : call = TRUE  OBVIOUS
  <2> QED  BY <1>3, <2>1, FreshTake
<1>4. CASE /\ queue = <<>> /\ queue' = <<FreshItem(r)>>
           /\ Become(w, Holding(FreshItem(r), TRUE))
           /\ rows' = Pend(rows, <<r>>) /\ Remember(<<r>>) /\ rows[o].state # "absent"
  <2>1. PICK i \in Item : i = FreshItem(r) /\ i.op = o /\ i.ver = v  BY <1>1, FreshItemTyped
  <2>2. PICK call \in BOOLEAN : call = TRUE  OBVIOUS
  <2>3. PICK k : k = Holding(i, call)  OBVIOUS
  <2>4. k.pc = "claimed" /\ k.op = o /\ k.ver = v  BY <2>1, <2>2, <2>3, HoldingTyped
  <2>5. top'[o] = v => ItemsArePast
    <3>1. Len(queue') = 1 /\ queue'[1] = i  BY <1>4, <2>1
    <3> QED  BY <2>1, <3>1 DEF ItemsArePast
  <2> QED  BY <1>1, <1>4, <2>1, <2>2, <2>3, <2>4, <2>5, FreshAsk
<1>5. CASE Enqueue(queue, rows, <<r>>) /\ Become(w, Idle) /\ rows[o].state # "absent"
  <2>1. PICK req \in Seq(Request) : req = <<r>> /\ Len(req) = 1 /\ req[1] = r
    BY <1>1, SingleRequest
  <2>2. top'[o] = v => ItemsArePast
    <3>1. Enqueue(queue, rows, req)  BY <1>5, <2>1
    <3>2. ASSUME top'[o] = v PROVE \A n \in 1..Len(req) : req[n].ver = top'[req[n].op]
      BY <1>1, <2>1, <3>2
    <3> QED  BY <1>0, <2>1, <3>1, <3>2, SameQueue, EnqueueItems
  <2>3. PICK k : k = Idle  OBVIOUS
  <2>4. k.pc = "idle"  BY <2>3, IdleTyped
  <2>5. rows' = Pend(rows, <<r>>) /\ Remember(<<r>>)  BY <1>5 DEF Enqueue
  <2> QED  BY <1>1, <1>5, <2>2, <2>3, <2>4, <2>5, FreshAsk
<1> QED  BY <1>0, <1>1, <1>2, <1>3, <1>4, <1>5, ClaimNowIs

LEMMA FreshDerive ==
  ASSUME OneProcess, TypeInv, TypeInv', FreshInv, NEW w \in Worker,
         \/ \E t \in Turn : DeriveTurn(w, t) \/ DeriveChunk(w, t)
         \/ DeriveSecond(w)
  PROVE  FreshInv'
<1>1. ASSUME NEW t \in Turn, DeriveTurn(w, t) \/ DeriveChunk(w, t) PROVE FreshInv'
  <2>1. Undisturbed(w) /\ UNCHANGED <<rev, closed, placed, full>>
    BY <1>1 DEF DeriveTurn, DeriveChunk, Call
  <2>2. \E o \in Op : ClaimNow(w, o)  BY <1>1, OpKinds DEF DeriveTurn, DeriveChunk, Chunk
  <2> QED  BY <2>1, <2>2, FreshClaimNow
<1>2. ASSUME DeriveSecond(w) PROVE FreshInv'
  <2>1. Undisturbed(w) /\ UNCHANGED <<rev, closed, placed, full>> /\ work[w].pc = "second"
    BY <1>2 DEF DeriveSecond
  <2>2. PICK t \in Turn : work[w].op = Asm(t)  BY <2>1 DEF TypeInv, WorkFits
  <2>3. work[w].op[2] = t  BY <2>2, OpTags
  <2>4. \E o \in Op : ClaimNow(w, o)  BY <1>2, <2>3, OpKinds DEF DeriveSecond
  <2> QED  BY <2>1, <2>4, FreshClaimNow
<1> QED  BY <1>1, <1>2

LEMMA FreshDeriveMessage ==
  ASSUME OneProcess, TypeInv, TypeInv', FreshInv, NEW w \in Worker, NEW m \in Message,
         DeriveMessage(w, m)
  PROVE  FreshInv'
<1>0. rows \in [Op -> RowRec]  BY DEF TypeInv, TypeOK
<1>1. PICK o \in Op : o = Msg(m)  BY DEF DeriveMessage
<1>2. /\ Undisturbed(w) /\ UNCHANGED <<rev, closed, placed, full, queue, rows, top, back>>
      /\ rows[o].state = "failed" /\ Become(w, Holding(NewItem(At(o, NextVersion(o))), TRUE))
  BY <1>1 DEF DeriveMessage, Call
<1>3. PICK v \in Nat, i \in Item : v = rows[o].ver /\ i = NewItem(At(o, NextVersion(o)))
                                   /\ i.op = o /\ i.ver = v + 1
  <2>1. NextVersion(o) = rows[o].ver + 1  BY <1>2 DEF NextVersion
  <2>2. At(o, NextVersion(o)) \in Request /\ At(o, NextVersion(o)).op = o
        /\ At(o, NextVersion(o)).ver = NextVersion(o) /\ rows[o].ver \in Nat
    BY <1>0, NextVersionTyped, RowTyped DEF At
  <2> QED  BY <2>1, <2>2, ItemTyped
<1>4. PICK call \in BOOLEAN : call = TRUE  OBVIOUS
<1>5. PICK k : k = Holding(i, call)  OBVIOUS
<1>6. k.pc = "claimed" /\ k.op = o /\ k.ver = v + 1 /\ k.call  BY <1>3, <1>4, <1>5, HoldingTyped
<1>7. work'[w] = k /\ \A x \in Worker \ {w} : Aside(x)  BY <1>2, <1>3, <1>4, <1>5, OthersAside DEF Become
<1>8. FloorsFit(w)' /\ DeferredIsFull(w)'  BY <1>6, <1>7, OutsideSteps
<1>9. RowsRecorded /\ RowsMove  BY <1>2, NothingMoves
<1>10. ItemsArePast  BY <1>2, SameItems
<1>11. RecordInv'  BY <1>2, <1>7, <1>8, <1>9, RecordAtWorker
<1>12. ASSUME TimelyInv PROVE WorkIsFresh(w)'
  <2>1. v = top[o]  BY <1>2, <1>3, <1>12 DEF TimelyInv, RowsAreCurrent
  <2>2. CountsAt(w)' = v
    <3>1. work'[w].op[1] = "message"  BY <1>1, <1>6, <1>7, OpTags
    <3>2. CountsAt(w)' = work'[w].ver - 1  BY <1>6, <1>7, <3>1 DEF CountsAt, IsCall
    <3> QED  BY <1>3, <1>6, <1>7, <3>2
  <2>3. CountsAt(w)' <= top'[o]  BY <1>2, <1>3, <2>1, <2>2
  <2> QED  BY <1>6, <1>7, <2>3, ClaimedIsFresh
<1> QED  BY <1>2, <1>7, <1>9, <1>10, <1>11, <1>12, FreshAtWorker

-----------------------------------------------------------------------------
(* What the handlers read.                                                 *)

LEMMA ReturnFields ==
  ASSUME TypeInv, NEW w \in Worker, work[w].pc \in {"claimed", "floors"},
         NEW outcome \in {"ok", "failed", "blocked", "deferred"}, NEW of \in Content, NEW next \in Nat,
         outcome = "deferred" => \E c \in Chunk : work[w].op = Brief(c),
         Return(w, outcome, of, next)
  PROVE  /\ work'[w].pc = "returned" /\ work'[w].outcome = outcome /\ work'[w].of = of
         /\ work'[w].op = work[w].op /\ work'[w].ver = work[w].ver /\ work'[w].call = work[w].call
         /\ \E k : work' = [work EXCEPT ![w] = k]
<1>1. work \in [Worker -> Work] /\ \A x \in Worker : WorkFits(work[x])  BY DEF TypeInv, TypeOK
<1>2. PICK k : k = [work[w] EXCEPT !.pc = "returned", !.outcome = outcome, !.of = of, !.next = next]
  OBVIOUS
<1>3. work' = [work EXCEPT ![w] = k]  BY <1>1, <1>2 DEF Return
<1>4. work'[w] = k  BY <1>1, <1>3
<1>5. work[w] \in Work  BY <1>1
<1>6. /\ k.pc = "returned" /\ k.outcome = outcome /\ k.of = of
      /\ k.op = work[w].op /\ k.ver = work[w].ver /\ k.call = work[w].call
  BY <1>2, <1>5 DEF Work
<1> QED  BY <1>3, <1>4, <1>6

\* A handler returns: what it returns counts only when it is made from the present
\* content.
LEMMA FreshReturn ==
  ASSUME OneProcess, TypeInv, TypeInv', FreshInv, NEW w \in Worker, Undisturbed(w),
         work[w].pc \in {"claimed", "floors"},
         UNCHANGED <<rev, closed, placed, full, queue, rows, top, back>>,
         NEW outcome \in {"ok", "failed", "blocked", "deferred"}, NEW of \in Content, NEW next \in Nat,
         Return(w, outcome, of, next),
         outcome = "deferred" => \E c \in Chunk : work[w].op = Brief(c) /\ c \in full,
         TimelyInv /\ outcome = "ok" => IsFresh(work[w].op, of)
  PROVE  FreshInv'
<1>0. /\ work[w].op \in Op /\ work[w].ver \in Nat /\ top \in [Op -> Nat]
  BY WorkFields DEF TypeInv, TypeOK
<1>1. /\ work'[w].pc = "returned" /\ work'[w].outcome = outcome /\ work'[w].of = of
      /\ work'[w].op = work[w].op /\ work'[w].ver = work[w].ver /\ work'[w].call = work[w].call
      /\ \E k : work' = [work EXCEPT ![w] = k]
  <2>1. outcome = "deferred" => \E c \in Chunk : work[w].op = Brief(c)  OBVIOUS
  <2> QED  BY <2>1, ReturnFields
<1>2. \A x \in Worker \ {w} : Aside(x)  BY <1>1, OthersAside
<1>3. RowsRecorded /\ RowsMove  BY NothingMoves
<1>4. ItemsArePast  BY SameItems
<1>5. FloorsFit(w)'  BY <1>1 DEF FloorsFit
<1>6. DeferredIsFull(w)'
  <2>1. ASSUME outcome = "deferred" PROVE work'[w].op[2] \in full'
    <3>1. PICK c \in Chunk : work[w].op = Brief(c) /\ c \in full  BY <2>1
    <3> QED  BY <1>1, <3>1, OpTags
  <2> QED  BY <1>1, <2>1 DEF DeferredIsFull
<1>7. RecordInv'  BY <1>2, <1>3, <1>5, <1>6, RecordAtWorker
<1>8. ASSUME TimelyInv PROVE WorkIsFresh(w)'
  <2>1. PICK o \in Op : o = work[w].op  BY <1>0
  <2>2. CountsAt(w)' = CountsAt(w)  BY <1>1 DEF CountsAt, IsCall
  <2>3. CountsAt(w) <= top[o]  BY <1>8, <2>1 DEF TimelyInv, WorkIsFresh, Busy
  <2>4. outcome = "ok" => FreshNext(o, of)  BY <1>8, <2>1, StillInThread
  <2>5. Covers(work[w].op)' = Covers(o)'  BY <1>1, <2>1 DEF Covers
  <2>6. IsFresh(work[w].op, work[w].of)' <=> FreshNext(o, of)  BY <1>1, <2>1, <2>5 DEF IsFresh, FreshNext
  <2>7. (Busy(w) => CountsAt(w) <= top[work[w].op])'  BY <1>1, <2>1, <2>2, <2>3
  <2>8. (/\ work[w].pc = "returned" /\ work[w].outcome = "ok"
         /\ rows[work[w].op].state # "absent" /\ rows[work[w].op].ver = CountsAt(w)
         => IsFresh(work[w].op, work[w].of))'
    BY <1>1, <2>4, <2>6
  <2>9. (work[w].pc = "floors" => IsFresh(work[w].op, work[w].of))'  BY <1>1
  <2> QED  BY <2>7, <2>8, <2>9 DEF WorkIsFresh
<1> QED  BY <1>2, <1>3, <1>4, <1>7, <1>8, FreshAtWorker

\* A handler that does not succeed returns nothing that has to be fresh.
LEMMA FreshRefusal ==
  ASSUME OneProcess, TypeInv, TypeInv', FreshInv, NEW w \in Worker, Undisturbed(w),
         work[w].pc \in {"claimed", "floors"},
         UNCHANGED <<rev, closed, placed, full, queue, rows, top, back>>,
         NEW outcome \in {"failed", "blocked"}, Return(w, outcome, NoContent, 0)
  PROVE  FreshInv'
<1>1. PICK of \in Content, next \in Nat : of = NoContent /\ next = 0  BY ContentTyped
<1>2. /\ outcome \in {"ok", "failed", "blocked", "deferred"} /\ outcome # "deferred" /\ outcome # "ok"
      /\ Return(w, outcome, of, next)
  BY <1>1
<1> QED  BY <1>2, FreshReturn, <1>1

LEMMA FreshSuccess ==
  ASSUME OneProcess, TypeInv, TypeInv', FreshInv, NEW w \in Worker, Undisturbed(w),
         work[w].pc \in {"claimed", "floors"},
         UNCHANGED <<rev, closed, placed, full, queue, rows, top, back>>,
         NEW of \in Content, NEW next \in Nat, Return(w, "ok", of, next),
         TimelyInv => IsFresh(work[w].op, of)
  PROVE  FreshInv'
<1>1. PICK outcome \in {"ok", "failed", "blocked", "deferred"} : outcome = "ok"  OBVIOUS
<1>2. outcome # "deferred" /\ Return(w, outcome, of, next)  BY <1>1
<1> QED  BY <1>1, <1>2, FreshReturn

LEMMA FreshInfer ==
  ASSUME OneProcess, TypeInv, TypeInv', FreshInv, NEW w \in Worker, Undisturbed(w),
         work[w].pc \in {"claimed", "floors"},
         UNCHANGED <<rev, closed, placed, full, queue, rows, top, back>>,
         NEW of \in Content, Infer(w, of), TimelyInv => IsFresh(work[w].op, of)
  PROVE  FreshInv'
<1>1. PICK next \in Nat : next = 0  OBVIOUS
<1>2. CASE Return(w, "ok", of, next)  BY <1>2, <1>1, FreshSuccess
<1>3. CASE Return(w, "failed", NoContent, 0)
  <2>1. PICK outcome \in {"failed", "blocked"} : outcome = "failed"  OBVIOUS
  <2> QED  BY <1>3, <2>1, FreshRefusal
<1> QED  BY <1>1, <1>2, <1>3 DEF Infer

LEMMA FreshReadMessage ==
  ASSUME OneProcess, TypeInv, TypeInv', FreshInv, NEW w \in Worker, NEW m \in Message, ReadMessage(w, m)
  PROVE  FreshInv'
<1>0. rev \in Content  BY DEF TypeInv, TypeOK
<1>1. /\ Undisturbed(w) /\ work[w].pc \in {"claimed", "floors"} /\ work[w].op = Msg(m)
      /\ UNCHANGED <<rev, closed, placed, full, queue, rows, top, back>>
  BY DEF ReadMessage, Reads
<1>2. CASE rev[m] = 0
  <2>1. PICK outcome \in {"failed", "blocked"} : outcome = "blocked"  OBVIOUS
  <2>2. Return(w, outcome, NoContent, 0)  BY <1>2, <2>1 DEF ReadMessage
  <2> QED  BY <1>1, <2>1, <2>2, FreshRefusal
<1>3. CASE rev[m] # 0
  <2>1. PICK of \in Content : of = [NoContent EXCEPT ![m] = rev[m]] /\ of[m] = rev[m]
    <3>1. NoContent \in [Message -> Nat] /\ rev[m] \in Nat  BY <1>0, ContentTyped DEF Content
    <3>2. [NoContent EXCEPT ![m] = rev[m]] \in [Message -> Nat] /\ [NoContent EXCEPT ![m] = rev[m]][m] = rev[m]
      BY <3>1
    <3> QED  BY <3>2 DEF Content
  <2>2. Infer(w, of)  BY <1>3, <2>1 DEF ReadMessage
  <2>3. IsFresh(work[w].op, of)
    <3>1. Covers(work[w].op) = {m}  BY <1>1, OpTags DEF Covers
    <3> QED  BY <2>1, <3>1 DEF IsFresh
  <2> QED  BY <1>1, <2>1, <2>2, <2>3, FreshInfer
<1> QED  BY <1>2, <1>3

LEMMA ReadyIs ==
  ASSUME TypeInv, ReadyIsFresh, NEW o, IsReady(o), NEW m \in Covers(o)
  PROVE  rows[o].of[m] = rev[m]
BY DEF ReadyIsFresh, IsReady

LEMMA FreshComposition ==
  ASSUME TypeInv, ReadyIsFresh, NEW t \in Turn
  PROVE  IsFresh(Asm(t), Composition(t))
<1>1. Covers(Asm(t)) = MembersOf(t)  BY OpTags DEF Covers
<1>2. ASSUME NEW m \in MembersOf(t) PROVE Composition(t)[m] = rev[m]
  <2>1. m \in Message  BY ThreadFacts
  <2>2. Composition(t)[m] = TextOf(m)  BY <2>1 DEF Composition
  <2>3. m \in Covers(Msg(m))  BY OpTags DEF Covers
  <2>4. TextOf(m) = rev[m]  BY <2>3, ReadyIs DEF TextOf
  <2> QED  BY <2>2, <2>4
<1> QED  BY <1>1, <1>2 DEF IsFresh

LEMMA FreshReadTurn ==
  ASSUME OneProcess, TypeInv, TypeInv', FreshInv, NEW w \in Worker, NEW t \in Turn, ReadTurn(w, t)
  PROVE  FreshInv'
<1>0. /\ rows \in [Op -> RowRec] /\ work \in [Worker -> Work] /\ work[w] \in Work
  BY WorkFields DEF TypeInv, TypeOK
<1>1. /\ Undisturbed(w) /\ work[w].pc = "claimed" /\ work[w].op = Asm(t)
      /\ UNCHANGED <<rev, closed, placed, full, queue, rows, top, back>>
  BY DEF ReadTurn, Reads
<1>2. PICK k : k = [work[w] EXCEPT !.pc = "floors", !.of = Composition(t), !.floors = FloorsOf(t)]
  OBVIOUS
<1>3. work' = [work EXCEPT ![w] = k]  BY <1>2 DEF ReadTurn, Composition, FloorsOf
<1>4. /\ k.pc = "floors" /\ k.of = Composition(t) /\ k.floors = FloorsOf(t) /\ k.op = work[w].op
      /\ k.ver = work[w].ver /\ k.call = work[w].call
  BY <1>0, <1>2 DEF Work
<1>5. work'[w] = k /\ \A x \in Worker \ {w} : Aside(x)  BY <1>1, <1>3, OthersAside
<1>6. RowsRecorded /\ RowsMove  BY <1>1, NothingMoves
<1>7. ItemsArePast  BY <1>1, SameItems
<1>8. Covers(work[w].op)' = MembersOf(t)
  <2>1. work'[w].op = Asm(t)  BY <1>1, <1>4, <1>5
  <2> QED  BY <2>1, OpTags DEF Covers
<1>9. FloorsFit(w)'
  <2>1. ASSUME NEW m \in Message, FloorsOf(t)[m] # 0
        PROVE  /\ Msg(m) \in Op /\ m \in MembersOf(t)
               /\ rows[Msg(m)].state # "absent" /\ rows[Msg(m)].ver = FloorsOf(t)[m]
    <3>1. m \in MembersOf(t) /\ Msg(m) \in Op /\ rows[Msg(m)].ver = FloorsOf(t)[m]
      BY <2>1 DEF FloorsOf
    <3>2. rows[Msg(m)].state # "absent"
      BY <2>1, <3>1 DEF FreshInv, RecordInv, AbsentIsNoRow, NoRow
    <3> QED  BY <3>1, <3>2
  <2> QED  BY <1>1, <1>4, <1>5, <1>8, <2>1 DEF FloorsFit
<1>10. DeferredIsFull(w)'
  <2>1. work'[w].outcome # "deferred"  BY <1>4, <1>5 DEF TypeInv, WorkFits
  <2> QED  BY <2>1 DEF DeferredIsFull
<1>11. RecordInv'  BY <1>1, <1>5, <1>6, <1>9, <1>10, RecordAtWorker
<1>12. ASSUME TimelyInv PROVE WorkIsFresh(w)'
  <2>1. PICK o \in Op, of \in Content : o = Asm(t) /\ o = work[w].op /\ of = Composition(t)
    BY <1>1, OpKinds, CompositionTyped
  <2>2. IsFresh(o, of)  BY <1>12, <2>1, FreshComposition DEF TimelyInv
  <2>3. FreshNext(o, of)  BY <1>1, <2>1, <2>2, StillInThread
  <2>4. Covers(o)' = MembersOf(t)
    <3>1. o[1] = "turn" /\ o[2] = t  BY <2>1 DEF Asm
    <3> QED  BY <3>1 DEF Covers
  <2>5. IsFresh(work[w].op, work[w].of)'  BY <1>4, <1>5, <1>8, <2>1, <2>3, <2>4 DEF IsFresh, FreshNext
  <2>6. CountsAt(w)' = CountsAt(w)  BY <1>4, <1>5 DEF CountsAt, IsCall
  <2>7. CountsAt(w) <= top[work[w].op]  BY <1>1, <1>12 DEF TimelyInv, WorkIsFresh, Busy
  <2>8. (Busy(w) => CountsAt(w) <= top[work[w].op])'  BY <1>1, <1>4, <1>5, <2>6, <2>7
  <2> QED  BY <1>4, <1>5, <2>5, <2>8 DEF WorkIsFresh
<1> QED  BY <1>1, <1>5, <1>6, <1>7, <1>11, <1>12, FreshAtWorker

LEMMA FreshReadCompression ==
  ASSUME OneProcess, TypeInv, TypeInv', FreshInv, NEW w \in Worker, NEW t \in Turn,
         ReadCompression(w, t)
  PROVE  FreshInv'
<1>1. /\ Undisturbed(w) /\ work[w].pc \in {"claimed", "floors"} /\ work[w].op = Cmp(t)
      /\ UNCHANGED <<rev, closed, placed, full, queue, rows, top, back>>
  BY DEF ReadCompression, Reads
<1>2. CASE IsReady(Asm(t))
  <2>1. PICK of \in Content, next \in Nat : of = rows[Asm(t)].of /\ next = 0
    BY OpKinds, RowTyped DEF TypeInv, TypeOK
  <2>2. Return(w, "ok", of, next)  BY <1>2, <2>1 DEF ReadCompression
  <2>3. ASSUME TimelyInv PROVE IsFresh(work[w].op, of)
    <3>1. Covers(work[w].op) = MembersOf(t) /\ Covers(Asm(t)) = MembersOf(t)
      BY <1>1, OpTags DEF Covers
    <3>2. \A m \in MembersOf(t) : rows[Asm(t)].of[m] = rev[m]
      BY <1>2, <2>3, <3>1, ReadyIs DEF TimelyInv
    <3> QED  BY <2>1, <3>1, <3>2 DEF IsFresh
  <2> QED  BY <1>1, <2>1, <2>2, <2>3, FreshSuccess
<1>3. CASE ~ IsReady(Asm(t))
  <2>1. PICK outcome \in {"failed", "blocked"} : outcome = "failed"  OBVIOUS
  <2>2. Return(w, outcome, NoContent, 0)  BY <1>3, <2>1 DEF ReadCompression
  <2> QED  BY <1>1, <2>1, <2>2, FreshRefusal
<1> QED  BY <1>2, <1>3

LEMMA ChunkCovers ==
  ASSUME NEW c
  PROVE  /\ Covers(Detailed(c)) = UNION {MembersOf(t) : t \in MembersOfChunk(c)}
         /\ Covers(Brief(c)) = UNION {MembersOf(t) : t \in MembersOfChunk(c)}
BY OpTags DEF Covers, MembersOfChunk

LEMMA FreshReadDetailed ==
  ASSUME OneProcess, TypeInv, TypeInv', FreshInv, NEW w \in Worker, NEW c \in Chunk,
         ReadDetailed(w, c)
  PROVE  FreshInv'
<1>1. /\ Undisturbed(w) /\ work[w].pc \in {"claimed", "floors"} /\ work[w].op = Detailed(c)
      /\ UNCHANGED <<rev, closed, placed, full, queue, rows, top, back>>
  BY DEF ReadDetailed, Reads
<1>2. CASE (\A t \in MembersOfChunk(c) : Usable(t)) /\ Return(w, "ok", DetailedOf(c), 0)
  <2>1. PICK of \in Content, next \in Nat : of = DetailedOf(c) /\ next = 0
    BY DetailedOfTyped
  <2>2. Return(w, "ok", of, next)  BY <1>2, <2>1
  <2>3. ASSUME TimelyInv PROVE IsFresh(work[w].op, of)
    <3>1. ASSUME NEW m \in Covers(Detailed(c)) PROVE of[m] = rev[m]
      <4>1. PICK t \in Turn : placed[t] = c /\ m \in MembersOf(t)  BY <3>1, OpTags DEF Covers
      <4>2. TurnOf(m) = t /\ m \in Message  BY <4>1, TurnOfMember, ThreadFacts
      <4>3. t \in MembersOfChunk(c) /\ Usable(t)  BY <1>2, <4>1 DEF MembersOfChunk
      <4>4. m \in UNION {MembersOf(u) : u \in MembersOfChunk(c)}  BY <4>1, <4>3
      <4>5. of[m] = (IF IsReady(Cmp(t)) THEN rows[Cmp(t)].of ELSE rows[Asm(t)].of)[m]
        BY <2>1, <4>2, <4>4 DEF DetailedOf
      <4>6. m \in Covers(Cmp(t)) /\ m \in Covers(Asm(t))  BY <4>1, OpTags DEF Covers
      <4>7. CASE IsReady(Cmp(t))  BY <2>3, <4>5, <4>6, <4>7, ReadyIs DEF TimelyInv
      <4>8. CASE ~ IsReady(Cmp(t))
        <5>1. IsReady(Asm(t))  BY <4>3, <4>8 DEF Usable
        <5> QED  BY <2>3, <4>5, <4>6, <4>8, <5>1, ReadyIs DEF TimelyInv
      <4> QED  BY <4>7, <4>8
    <3> QED  BY <1>1, <3>1 DEF IsFresh
  <2> QED  BY <1>1, <2>1, <2>2, <2>3, FreshSuccess
<1>3. CASE Return(w, "failed", NoContent, 0)
  <2>1. PICK outcome \in {"failed", "blocked"} : outcome = "failed"  OBVIOUS
  <2>2. Return(w, outcome, NoContent, 0)  BY <1>3, <2>1
  <2> QED  BY <1>1, <2>1, <2>2, FreshRefusal
<1> QED  BY <1>2, <1>3, ReadDetailedIs

LEMMA FreshReadBrief ==
  ASSUME OneProcess, TypeInv, TypeInv', FreshInv, NEW w \in Worker, NEW c \in Chunk,
         ReadBrief(w, c)
  PROVE  FreshInv'
<1>1. /\ Undisturbed(w) /\ work[w].pc \in {"claimed", "floors"} /\ work[w].op = Brief(c)
      /\ UNCHANGED <<rev, closed, placed, full, queue, rows, top, back>>
  BY DEF ReadBrief, Reads
<1>2. PICK o \in Op : o = Detailed(c)  BY OpKinds
<1>3. rows[o].ver \in Nat /\ rows[o].of \in Content  BY RowTyped DEF TypeInv, TypeOK
<1>4. CASE rows[o].state = "pending" /\ Return(w, "deferred", NoContent, rows[o].ver)
  <2>1. PICK outcome \in {"ok", "failed", "blocked", "deferred"}, of \in Content, next \in Nat :
          outcome = "deferred" /\ of = NoContent /\ next = rows[o].ver
    BY <1>3, ContentTyped
  <2>2. Return(w, outcome, of, next) /\ outcome # "ok"  BY <1>4, <2>1
  <2>3. c \in full
    <3>1. Known(o)  BY <1>4 DEF FreshInv, RecordInv, RowsAreKnown
    <3>2. o[1] \notin {"message", "turn", "compression"} /\ o[2] = c  BY <1>2, OpTags
    <3> QED  BY <3>1, <3>2 DEF Known
  <2> QED  BY <1>1, <2>1, <2>2, <2>3, FreshReturn
<1>5. CASE Return(w, "blocked", NoContent, 0)
  <2>1. PICK outcome \in {"failed", "blocked"} : outcome = "blocked"  OBVIOUS
  <2>2. Return(w, outcome, NoContent, 0)  BY <1>5, <2>1
  <2> QED  BY <1>1, <2>1, <2>2, FreshRefusal
<1>6. CASE rows[o].state = "ready" /\ Infer(w, rows[o].of)
  <2>1. PICK of \in Content : of = rows[o].of  BY <1>3
  <2>2. ASSUME TimelyInv PROVE IsFresh(work[w].op, of)
    <3>1. Covers(work[w].op) = Covers(o)  BY <1>1, <1>2, ChunkCovers
    <3>2. IsReady(o)  BY <1>6 DEF IsReady
    <3>3. \A m \in Covers(o) : rows[o].of[m] = rev[m]  BY <2>2, <3>2, ReadyIs DEF TimelyInv
    <3> QED  BY <2>1, <3>1, <3>3 DEF IsFresh
  <2> QED  BY <1>1, <1>6, <2>1, <2>2, FreshInfer
<1> QED  BY <1>2, <1>4, <1>5, <1>6, Zenon DEF ReadBrief

LEMMA FreshWriteFloor ==
  ASSUME OneProcess, TypeInv, TypeInv', FreshInv, NEW w \in Worker, NEW m \in Message, WriteFloor(w, m)
  PROVE  FreshInv'
<1>0. /\ rows \in [Op -> RowRec] /\ work \in [Worker -> Work] /\ work[w] \in Work
      /\ work[w].of[m] \in Nat /\ work[w].floors[m] \in Nat /\ work[w].floors \in [Message -> Nat]
      /\ work[w].op \in Op
  BY WorkFields DEF TypeInv, TypeOK
<1>1. /\ Undisturbed(w) /\ work[w].pc = "floors" /\ work[w].floors[m] # 0
      /\ UNCHANGED <<rev, closed, placed, full, queue, top, back, count>>
      /\ Recover(m, work[w].floors[m], rows[Msg(m)], work[w].of[m])
  BY DEF WriteFloor
<1>2. PICK x \in Op : x = Msg(m) /\ m \in Covers(work[w].op) /\ rows[x].state # "absent"
                      /\ rows[x].ver = work[w].floors[m]
  BY <1>1 DEF FreshInv, RecordInv, FloorsFit
<1>3. PICK f \in [Message -> Nat] : f = [work[w].floors EXCEPT ![m] = 0]  BY <1>0
<1>4. PICK k : k = [work[w] EXCEPT !.floors = f]  OBVIOUS
<1>5. work' = [work EXCEPT ![w] = k]  BY <1>0, <1>3, <1>4 DEF WriteFloor, Work
<1>6. /\ k.pc = "floors" /\ k.of = work[w].of /\ k.floors = f /\ k.op = work[w].op
      /\ k.ver = work[w].ver /\ k.call = work[w].call
  BY <1>0, <1>1, <1>3, <1>4 DEF Work
<1>7. work'[w] = k /\ \A y \in Worker \ {w} : Aside(y)  BY <1>1, <1>5, OthersAside
<1>8. PICK o \in Op, of \in Content : o = work[w].op /\ of = work[w].of  BY <1>0, WorkFields DEF TypeInv, TypeOK
<1>9. PICK r : r = RecoveredRow(m, work[w].floors[m], work[w].of[m])  OBVIOUS
<1>10. r.state = "ready" /\ r.ver = rows[x].ver /\ r.of[m] = work[w].of[m]
  BY <1>0, <1>2, <1>9 DEF RecoveredRow, NoContent
<1>11. rows' = rows \/ rows' = [rows EXCEPT ![x] = r]
  BY <1>0, <1>1, <1>2, <1>9, RecoverIs
<1>12. \A y \in Op : rows'[y] = rows[y] \/ (y = x /\ rows'[y] = r)  BY <1>0, <1>11
<1>13. RowsRecorded  BY <1>2, <1>10, <1>12 DEF RowsRecorded
<1>14. FloorsFit(w)'
  <2>1. ASSUME NEW y \in Message, f[y] # 0
        PROVE  /\ Msg(y) \in Op /\ y \in Covers(o)'
               /\ rows'[Msg(y)].state # "absent" /\ rows'[Msg(y)].ver = f[y]
    <3>1. y # m /\ f[y] = work[w].floors[y]  BY <1>0, <1>3, <2>1
    <3>2. /\ Msg(y) \in Op /\ y \in Covers(o)
          /\ rows[Msg(y)].state # "absent" /\ rows[Msg(y)].ver = f[y]
      BY <1>1, <1>8, <2>1, <3>1 DEF FreshInv, RecordInv, FloorsFit
    <3>3. Covers(o)' = Covers(o)  BY <1>1, CoversStay
    <3> QED  BY <1>2, <1>10, <1>12, <3>2, <3>3
  <2>2. Covers(work[w].op)' = Covers(o)'  BY <1>6, <1>7, <1>8 DEF Covers
  <2> QED  BY <1>6, <1>7, <2>1, <2>2 DEF FloorsFit
<1>15. DeferredIsFull(w)'
  <2>1. work'[w].outcome # "deferred"  BY <1>6, <1>7 DEF TypeInv, WorkFits
  <2> QED  BY <2>1 DEF DeferredIsFull
<1>16. RecordInv'  BY <1>1, <1>7, <1>13, <1>14, <1>15, RecordAtWorker
<1>17. ItemsArePast  BY <1>1, SameItems
<1>18. ASSUME TimelyInv PROVE RowsMove /\ WorkIsFresh(w)'
  <2>1. IsFresh(o, of)  BY <1>1, <1>8, <1>18 DEF TimelyInv, WorkIsFresh
  <2>2. of[m] = rev[m]  BY <1>2, <1>8, <2>1 DEF IsFresh
  <2>3. FreshNext(x, r.of)
    <3>1. Covers(x)' = {m}
      <4>1. x[1] = "message" /\ x[2] = m  BY <1>2 DEF Msg
      <4> QED  BY <4>1 DEF Covers
    <3> QED  BY <1>1, <1>8, <1>10, <2>2, <3>1 DEF FreshNext
  <2>4. ASSUME NEW y \in Op PROVE RowStays(y) \/ RowTurns(y)
    <3>1. Still(y) /\ top'[y] = top[y]  BY <1>1, StillInThread
    <3>2. CASE rows'[y] = rows[y]  BY <3>1, <3>2 DEF RowStays
    <3>3. CASE y = x /\ rows'[y] = r  BY <1>2, <1>10, <2>3, <3>1, <3>3 DEF RowTurns
    <3> QED  BY <1>12, <3>2, <3>3
  <2>5. RowsMove  BY <2>4 DEF RowsMove
  <2>6. FreshNext(o, of)  BY <1>1, <2>1, StillInThread
  <2>7. Covers(work[w].op)' = Covers(o)'  BY <1>6, <1>7, <1>8 DEF Covers
  <2>8. IsFresh(work[w].op, work[w].of)'  BY <1>6, <1>7, <1>8, <2>6, <2>7 DEF IsFresh, FreshNext
  <2>9. CountsAt(w)' = CountsAt(w)  BY <1>6, <1>7 DEF CountsAt, IsCall
  <2>10. CountsAt(w) <= top[work[w].op]  BY <1>1, <1>18 DEF TimelyInv, WorkIsFresh, Busy
  <2>11. (Busy(w) => CountsAt(w) <= top[work[w].op])'  BY <1>1, <1>6, <1>7, <2>9, <2>10
  <2>12. WorkIsFresh(w)'  BY <1>6, <1>7, <2>8, <2>11 DEF WorkIsFresh
  <2> QED  BY <2>5, <2>12
<1> QED  BY <1>1, <1>7, <1>16, <1>17, <1>18, FreshAtWorker

LEMMA FreshTurnReturns ==
  ASSUME OneProcess, TypeInv, TypeInv', FreshInv, NEW w \in Worker, TurnReturns(w)
  PROVE  FreshInv'
<1>1. /\ Undisturbed(w) /\ work[w].pc \in {"claimed", "floors"} /\ work[w].pc = "floors"
      /\ UNCHANGED <<rev, closed, placed, full, queue, rows, top, back>>
  BY DEF TurnReturns
<1>2. PICK t \in Turn : work[w].op = Asm(t)  BY <1>1 DEF TypeInv, WorkFits
<1>3. PICK next \in Nat : next = FollowUpVersion(work[w].op[2])
  <2>1. work[w].op[2] = t  BY <1>2, OpTags
  <2>2. rows[Asm(t)].ver \in Nat  BY OpKinds, RowTyped DEF TypeInv, TypeOK
  <2> QED  BY <2>1, <2>2 DEF FollowUpVersion
<1>4. PICK of \in Content : of = work[w].of  BY WorkFields DEF TypeInv, TypeOK
<1>5. Return(w, "ok", of, next)  BY <1>3, <1>4 DEF TurnReturns
<1>6. TimelyInv => IsFresh(work[w].op, of)  BY <1>1, <1>4 DEF TimelyInv, WorkIsFresh
<1> QED  BY <1>1, <1>4, <1>3, <1>5, <1>6, FreshSuccess

-----------------------------------------------------------------------------
(* Completions.                                                            *)

LEMMA StampedTurnsOnly ==
  ASSUME TypeInv, NEW w \in Worker, NEW s \in States, s # "absent", NEW of \in Content
  PROVE  /\ TurnedOnly(Stamped(w, s, of))
         /\ \A o \in Op : Stamped(w, s, of)[o] = rows[o]
                          \/ /\ o = work[w].op /\ Current(w)
                             /\ Stamped(w, s, of)[o].state = s /\ Stamped(w, s, of)[o].of = of
<1>0. rows \in [Op -> RowRec]  BY DEF TypeInv, TypeOK
<1>1. \A o \in Op : Stamped(w, s, of)[o]
                    = IF o = work[w].op /\ Current(w)
                      THEN [state |-> s, ver |-> rows[o].ver, of |-> of] ELSE rows[o]
  BY <1>0, StampedTyped
<1>2. PICK st : st = Stamped(w, s, of)  OBVIOUS
<1>3. ASSUME NEW o \in Op
      PROVE  \/ st[o] = rows[o]
             \/ /\ o = work[w].op /\ Current(w) /\ st[o].state = s /\ st[o].of = of
                /\ st[o].ver = rows[o].ver /\ rows[o].state # "absent"
  <2>1. CASE o = work[w].op /\ Current(w)
    <3>1. st[o] = [state |-> s, ver |-> rows[o].ver, of |-> of]  BY <1>1, <1>2, <2>1
    <3>2. rows[o].state # "absent"  BY <2>1 DEF Current
    <3> QED  BY <2>1, <3>1, <3>2
  <2>2. CASE ~ (o = work[w].op /\ Current(w))  BY <1>1, <1>2, <2>2
  <2> QED  BY <2>1, <2>2
<1>4. TurnedOnly(st)  BY <1>3 DEF TurnedOnly
<1> QED  BY <1>2, <1>3, <1>4

\* The row gets the state it ends in, if the claim and the version still hold.
LEMMA FreshStamp ==
  ASSUME OneProcess, TypeInv, TypeInv', FreshInv, NEW w \in Worker, Undisturbed(w),
         UNCHANGED <<rev, closed, placed, full, top, back>>, Become(w, Idle),
         queue' = IF Owned(w) THEN Tail(queue) ELSE queue,
         NEW s \in States, s # "absent", NEW of \in Content,
         rows' = IF Owned(w) THEN Stamped(w, s, of) ELSE rows,
         TimelyInv /\ Current(w) /\ s = "ready" => IsFresh(work[w].op, of)
  PROVE  FreshInv'
<1>0. queue \in Seq(Item) /\ rows \in [Op -> RowRec]  BY DEF TypeInv, TypeOK
<1>1. PICK k : k = Idle  OBVIOUS
<1>2. work'[w] = k /\ \A x \in Worker \ {w} : Aside(x)  BY <1>1, OthersAside DEF Become
<1>3. work'[w].pc = "idle"  BY <1>1, <1>2, IdleTyped
<1>4. FloorsFit(w)' /\ DeferredIsFull(w)' /\ WorkIsFresh(w)'  BY <1>3, OutsideSteps, RestingIsFresh
<1>5. /\ TurnedOnly(rows')
      /\ \A o \in Op : rows'[o] = rows[o]
                       \/ /\ o = work[w].op /\ Current(w) /\ rows'[o].state = s /\ rows'[o].of = of
  <2>1. CASE Owned(w)
    <3>1. rows' = Stamped(w, s, of)  BY <2>1
    <3> QED  BY <3>1, StampedTurnsOnly
  <2>2. CASE ~ Owned(w)  BY <2>2 DEF TurnedOnly
  <2> QED  BY <2>1, <2>2
<1>6. RowsRecorded  BY <1>5 DEF RowsRecorded, TurnedOnly
<1>7. RecordInv'  BY <1>2, <1>4, <1>6, RecordAtWorker
<1>8. ItemsArePast
  <2>1. CASE Owned(w)  BY <1>0, <2>1, TailItems DEF Owned
  <2>2. CASE ~ Owned(w)  BY <2>2, SameItems
  <2> QED  BY <2>1, <2>2
<1>9. ASSUME TimelyInv PROVE RowsMove
  <2>1. ASSUME NEW o \in Op PROVE RowStays(o) \/ RowTurns(o)
    <3>1. Still(o) /\ top'[o] = top[o]  BY StillInThread
    <3>2. CASE rows'[o] = rows[o]  BY <3>1, <3>2 DEF RowStays
    <3>3. CASE rows'[o] # rows[o]
      <4>1. o = work[w].op /\ Current(w) /\ rows'[o].state = s /\ rows'[o].of = of  BY <1>5, <3>3
      <4>2. rows[o].state # "absent" /\ rows'[o].state # "absent" /\ rows'[o].ver = rows[o].ver
        BY <1>5, <3>3 DEF TurnedOnly
      <4>3. s = "ready" => IsFresh(o, of)  BY <1>9, <4>1
      <4>4. s = "ready" => FreshNext(o, of)  BY <4>3, StillInThread
      <4> QED  BY <3>1, <4>1, <4>2, <4>4 DEF RowTurns
    <3> QED  BY <3>2, <3>3
  <2> QED  BY <2>1 DEF RowsMove
<1> QED  BY <1>2, <1>4, <1>7, <1>8, <1>9, FreshAtWorker

LEMMA FreshTerminal ==
  ASSUME OneProcess, TypeInv, TypeInv', FreshInv, NEW w \in Worker, Undisturbed(w),
         UNCHANGED <<rev, closed, placed, full>>, Become(w, Idle),
         NEW s \in {"failed", "blocked"}, Terminal(w, s)
  PROVE  FreshInv'
<1>1. PICK of \in Content : of = NoContent  BY ContentTyped
<1>2. /\ queue' = (IF Owned(w) THEN Tail(queue) ELSE queue)
      /\ rows' = (IF Owned(w) THEN Stamped(w, s, of) ELSE rows)
      /\ UNCHANGED <<top, back>>
  BY <1>1 DEF Terminal
<1>3. s \in States /\ s # "absent" /\ s # "ready"  BY DEF States
<1> QED  BY <1>1, <1>2, <1>3, FreshStamp

\* What a worker returned counts as long as its row is at the version it claimed.
LEMMA CountsWhileCurrent ==
  ASSUME TypeInv, TimelyInv, NEW w \in Worker, work[w].pc = "returned", work[w].outcome = "ok",
         ~ IsCall(w, "message"), Current(w)
  PROVE  IsFresh(work[w].op, work[w].of)
<1>1. CountsAt(w) = work[w].ver  BY DEF CountsAt
<1> QED  BY <1>1 DEF TimelyInv, WorkIsFresh, Current

LEMMA FreshSucceed ==
  ASSUME OneProcess, TypeInv, TypeInv', FreshInv, NEW w \in Worker, Succeed(w)
  PROVE  FreshInv'
<1>1. /\ Undisturbed(w) /\ work[w].pc = "returned" /\ work[w].outcome = "ok"
      /\ UNCHANGED <<rev, closed, placed, full, top, back>>
      /\ ~ IsCall(w, "message") /\ Become(w, Idle)
      /\ queue' = (IF Owned(w) THEN Tail(queue) ELSE queue)
      /\ rows' = (IF Owned(w) THEN Stamped(w, "ready", work[w].of) ELSE rows)
  BY DEF Succeed, Ends
<1>2. PICK s \in States, of \in Content : s = "ready" /\ of = work[w].of
  BY WorkFields DEF TypeInv, TypeOK, States
<1>3. s # "absent" /\ rows' = (IF Owned(w) THEN Stamped(w, s, of) ELSE rows)  BY <1>1, <1>2
<1>4. TimelyInv /\ Current(w) /\ s = "ready" => IsFresh(work[w].op, of)
  BY <1>1, <1>2, CountsWhileCurrent
<1> QED  BY <1>1, <1>2, <1>3, <1>4, FreshStamp

LEMMA FreshFail ==
  ASSUME OneProcess, TypeInv, TypeInv', FreshInv, NEW w \in Worker, Fail(w)
  PROVE  FreshInv'
<1>1. /\ Undisturbed(w) /\ work[w].outcome \in {"failed", "blocked"}
      /\ UNCHANGED <<rev, closed, placed, full>> /\ Become(w, Idle)
  BY DEF Fail, Ends
<1>2. CASE UNCHANGED <<queue, rows, top, back>>  BY <1>1, <1>2, FreshRest
<1>3. CASE Terminal(w, work[w].outcome)  BY <1>1, <1>3, FreshTerminal
<1> QED  BY <1>2, <1>3 DEF Fail

LEMMA FreshSucceedPastQueue ==
  ASSUME OneProcess, TypeInv, TypeInv', FreshInv, NEW w \in Worker, SucceedPastQueue(w)
  PROVE  FreshInv'
<1>0. /\ rows \in [Op -> RowRec] /\ top \in [Op -> Nat] /\ work[w].op \in Op /\ work[w].ver \in Nat
      /\ work[w].of \in Content /\ \A m \in Message : work[w].of[m] \in Nat
  BY WorkFields DEF TypeInv, TypeOK
<1>1. /\ Undisturbed(w) /\ work[w].pc = "returned" /\ work[w].outcome = "ok"
      /\ UNCHANGED <<rev, closed, placed, full, queue, back>> /\ Become(w, Idle)
      /\ IsCall(w, "message") /\ work[w].op[1] = "message"
      /\ top' = [top EXCEPT ![work[w].op] = IF rows' = rows THEN @ ELSE work[w].ver]
      /\ Recover(work[w].op[2], work[w].ver,
                 [state |-> "failed", ver |-> work[w].ver - 1, of |-> NoContent],
                 work[w].of[work[w].op[2]])
  BY DEF SucceedPastQueue, Ends, IsCall
<1>2. PICK o \in Op, v \in Nat, m \in Message :
        o = work[w].op /\ v = work[w].ver /\ m = o[2] /\ o = Msg(m)
  <2>1. work[w].op[2] \in Derivable /\ work[w].op = Msg(work[w].op[2])
    BY <1>0, <1>1, OpKinds, OpTags
  <2> QED  BY <1>0, <2>1, DerivationPipelineAssumption
<1>3. PICK expected : expected = [state |-> "failed", ver |-> v - 1, of |-> NoContent]  OBVIOUS
<1>4. PICK r : r = RecoveredRow(m, v, work[w].of[m])  OBVIOUS
<1>5. r.state = "ready" /\ r.ver = v /\ r.of[m] = work[w].of[m]
  BY <1>0, <1>2, <1>4 DEF RecoveredRow, NoContent
<1>6. rows' = rows \/ (rows[o] = expected /\ rows' = [rows EXCEPT ![o] = r])
  <2>1. Recover(m, v, expected, work[w].of[m])  BY <1>1, <1>2, <1>3
  <2>2. PICK of \in Nat : of = work[w].of[m]  BY <1>0, <1>2
  <2>3. Recover(m, v, expected, of)  BY <2>1, <2>2
  <2>4. \/ rows' = rows
        \/ rows[Msg(m)] = expected /\ rows' = [rows EXCEPT ![Msg(m)] = RecoveredRow(m, v, of)]
    <3>1. rows \in [Op -> RowRec]  BY DEF TypeInv, TypeOK
    <3>2. /\ rows' \in [Op -> RowRec]
          /\ \/ rows' = rows
             \/ /\ rows[Msg(m)] = expected
                /\ rows' = [rows EXCEPT ![Msg(m)] = RecoveredRow(m, v, of)]
      BY <2>3, <3>1, RecoverIs
    <3> QED  BY <3>2
  <2>5. RecoveredRow(m, v, of) = r /\ Msg(m) = o
    <3>1. RecoveredRow(m, v, of) = RecoveredRow(m, v, work[w].of[m])  BY <2>2
    <3> QED  BY <1>2, <1>4, <3>1
  <2>6. CASE rows' = rows  BY <2>6
  <2>7. CASE rows[Msg(m)] = expected /\ rows' = [rows EXCEPT ![Msg(m)] = RecoveredRow(m, v, of)]
    BY <2>5, <2>7, Zenon
  <2> QED  BY <2>4, <2>6, <2>7
<1>7. PICK k : k = Idle  OBVIOUS
<1>8. work'[w] = k /\ \A x \in Worker \ {w} : Aside(x)  BY <1>1, <1>7, OthersAside DEF Become
<1>9. work'[w].pc = "idle"  BY <1>7, <1>8, IdleTyped
<1>10. FloorsFit(w)' /\ DeferredIsFull(w)' /\ WorkIsFresh(w)'  BY <1>9, OutsideSteps, RestingIsFresh
<1>11. ItemsArePast  BY <1>1, SameItems
<1>12. expected.state = "failed" /\ expected.ver = v - 1  BY <1>3
<1>13. RowsRecorded
  <2>1. CASE rows' = rows  BY <2>1 DEF RowsRecorded
  <2>2. CASE rows[o] = expected /\ rows' = [rows EXCEPT ![o] = r]
    <3>1. \A x \in Op : rows'[x] = rows[x]
                        \/ (rows'[x].state # "absent" /\ rows[x].state # "absent")
      BY <1>0, <1>5, <1>12, <2>2
    <3> QED  BY <3>1 DEF RowsRecorded
  <2> QED  BY <1>6, <2>1, <2>2
<1>14. RecordInv'  BY <1>1, <1>8, <1>10, <1>13, RecordAtWorker
<1>15. ASSUME TimelyInv PROVE RowsMove
  <2>1. CASE rows' = rows
    <3>1. top' = top  BY <1>0, <1>1, <2>1
    <3> QED  BY <1>1, <2>1, <3>1, NothingMoves
  <2>2. CASE rows' # rows
    <3>1. rows[o] = expected /\ rows' = [rows EXCEPT ![o] = r]  BY <1>6, <2>2
    <3>2. \A x \in Op : top'[x] = IF x = o THEN v ELSE top[x]  BY <1>0, <1>1, <1>2, <2>2
    <3>3. \A x \in Op : x # o => rows'[x] = rows[x]  BY <1>0, <3>1
    <3>4. rows'[o] = r  BY <1>0, <3>1
    <3>5. v - 1 = top[o]  BY <1>12, <1>15, <3>1 DEF TimelyInv, RowsAreCurrent
    <3>6. CountsAt(w) = v - 1  BY <1>1, <1>2 DEF CountsAt
    <3>7. IsFresh(o, work[w].of)  BY <1>1, <1>2, <1>12, <1>15, <3>1, <3>6 DEF TimelyInv, WorkIsFresh
    <3>8. o[1] = "message" /\ o[2] = m  BY <1>2 DEF Msg
    <3>9. Covers(o) = {m} /\ Covers(o)' = {m}  BY <3>8 DEF Covers
    <3>10. FreshNext(o, r.of)  BY <1>1, <1>5, <3>7, <3>9 DEF IsFresh, FreshNext
    <3>11. RowIsBumped(o)
      <4>1. rows'[o].state # "absent" /\ rows'[o].ver = top'[o]  BY <1>5, <3>2, <3>4
      <4>2. top'[o] > top[o]  BY <1>2, <3>2, <3>5
      <4> QED  BY <3>4, <3>10, <4>1, <4>2 DEF RowIsBumped
    <3>12. ASSUME NEW x \in Op, x # o PROVE RowStays(x)
      BY <1>1, <3>2, <3>3, <3>12, StillInThread DEF RowStays
    <3> QED  BY <3>11, <3>12 DEF RowsMove
  <2> QED  BY <2>1, <2>2
<1> QED  BY <1>1, <1>8, <1>10, <1>11, <1>14, <1>15, FreshAtWorker

\* The requests of a deferred brief are of its chunk, at one version.
LEMMA DeferAsks ==
  ASSUME NEW c \in Chunk, NEW v \in Nat, NEW p \in BOOLEAN
  PROVE  \E req \in Seq(Request) :
           /\ req = (IF p THEN <<>> ELSE <<At(Detailed(c), v)>>) \o <<At(Brief(c), v)>>
           /\ \A n \in 1..Len(req) : req[n].ver = v /\ req[n].op \in {Detailed(c), Brief(c)}
<1>1. /\ At(Detailed(c), v) \in Request /\ At(Detailed(c), v).op = Detailed(c)
      /\ At(Detailed(c), v).ver = v
      /\ At(Brief(c), v) \in Request /\ At(Brief(c), v).op = Brief(c) /\ At(Brief(c), v).ver = v
  BY OpKinds DEF At, Request
<1>2. PICK a, b \in Request : /\ a = At(Detailed(c), v) /\ a.op = Detailed(c) /\ a.ver = v
                              /\ b = At(Brief(c), v) /\ b.op = Brief(c) /\ b.ver = v
  BY <1>1
<1>3. PICK req : req = (IF p THEN <<>> ELSE <<a>>) \o <<b>>  OBVIOUS
<1>4. req \in Seq(Request)  BY <1>2, <1>3
<1>5. \A n \in 1..Len(req) : req[n] = a \/ req[n] = b
  <2>1. CASE p  BY <1>3, <2>1
  <2>2. CASE ~ p
    <3>1. PICK s, u \in Seq(Request) : /\ s = <<a>> /\ Len(s) = 1 /\ s[1] = a
                                       /\ u = <<b>> /\ Len(u) = 1 /\ u[1] = b
      BY <1>2, SingleRequest
    <3>2. req = s \o u  BY <1>3, <2>2, <3>1
    <3>3. /\ Len(s \o u) = 2
          /\ \A n \in 1..2 : (n <= 1 => (s \o u)[n] = s[n]) /\ (n > 1 => (s \o u)[n] = u[n - 1])
      BY <3>1, ConcatFacts
    <3>4. (s \o u)[1] = a /\ (s \o u)[2] = b  BY <3>1, <3>3
    <3> QED  BY <3>2, <3>3, <3>4
  <2> QED  BY <2>1, <2>2
<1> QED  BY <1>2, <1>3, <1>4, <1>5

LEMMA FreshDefer ==
  ASSUME OneProcess, TypeInv, TypeInv', FreshInv, NEW w \in Worker, Defer(w)
  PROVE  FreshInv'
<1>0. queue \in Seq(Item) /\ rows \in [Op -> RowRec] /\ work[w].next \in Nat
  BY WorkFields DEF TypeInv, TypeOK
<1>1. /\ Undisturbed(w) /\ work[w].outcome = "deferred"
      /\ UNCHANGED <<rev, closed, placed, full>> /\ Become(w, Idle)
  BY DEF Defer, Ends
<1>2. PICK c \in Chunk : work[w].op = Brief(c)  BY <1>1 DEF TypeInv, WorkFits
<1>3. work[w].op[2] = c /\ c \in full
  <2>1. work[w].op[2] = c  BY <1>2, OpTags
  <2> QED  BY <1>1, <2>1 DEF FreshInv, RecordInv, DeferredIsFull
<1>4. PICK v \in Nat, p \in BOOLEAN : v = work[w].next /\ p = Live(queue, At(Detailed(c), v))
  BY <1>0 DEF Live
<1>5. PICK req \in Seq(Request) :
        /\ req = (IF p THEN <<>> ELSE <<At(Detailed(c), v)>>) \o <<At(Brief(c), v)>>
        /\ \A n \in 1..Len(req) : req[n].ver = v /\ req[n].op \in {Detailed(c), Brief(c)}
  BY DeferAsks
<1>6. \/ Owned(w) /\ Enqueue(Tail(queue), rows, req)
      \/ Terminal(w, "failed")
      \/ UNCHANGED <<queue, rows, top, back>>
  BY <1>3, <1>4, <1>5, Zenon DEF Defer
<1>7. CASE Terminal(w, "failed")
  <2>1. PICK s \in {"failed", "blocked"} : s = "failed"  OBVIOUS
  <2> QED  BY <1>1, <1>7, <2>1, FreshTerminal
<1>8. CASE UNCHANGED <<queue, rows, top, back>>  BY <1>1, <1>8, FreshRest
<1>9. CASE Owned(w) /\ Enqueue(Tail(queue), rows, req)
  <2>1. PICK k : k = Idle  OBVIOUS
  <2>2. work'[w] = k /\ \A x \in Worker \ {w} : Aside(x)  BY <1>1, <2>1, OthersAside DEF Become
  <2>3. work'[w].pc = "idle"  BY <2>1, <2>2, IdleTyped
  <2>4. FloorsFit(w)' /\ DeferredIsFull(w)' /\ WorkIsFresh(w)'  BY <2>3, OutsideSteps, RestingIsFresh
  <2>5. rows' = Pend(rows, req) /\ Remember(req)  BY <1>9 DEF Enqueue
  <2>6. Consistent(req) /\ TurnedOnly(rows)
    <3>1. \A n \in 1..Len(req) : req[n].ver = v  BY <1>5, Zenon
    <3> QED  BY <3>1 DEF Consistent, TurnedOnly
  <2>7. RowsRecorded
    <3>1. ASSUME NEW o \in {Detailed(c), Brief(c)} PROVE Known(o)'
      <4>1. o[1] \notin {"message", "turn", "compression"} /\ o[2] = c  BY OpTags
      <4> QED  BY <1>1, <1>3, <4>1 DEF Known
    <3> QED  BY <1>5, <2>5, <2>6, <3>1, AskRecorded
  <2>8. RecordInv'  BY <1>1, <2>2, <2>4, <2>7, RecordAtWorker
  <2>9. ASSUME ~ back' PROVE RowsMove /\ ItemsArePast
    <3>1. RowsMove /\ \A n \in 1..Len(req) : req[n].ver = top'[req[n].op]
      BY <1>0, <1>1, <1>5, <2>5, <2>6, <2>9, StillInThread, AskMoves
    <3>2. Tail(queue) \in Seq(Item)
          /\ \A n \in 1..Len(Tail(queue)) :
               \E i \in 1..Len(queue) : Tail(queue)[n].op = queue[i].op /\ Tail(queue)[n].ver = queue[i].ver
      BY <1>0, <1>9, TailEntries DEF Owned
    <3> QED  BY <1>5, <1>9, <3>1, <3>2, EnqueueItems
  <2>10. ~ back' => ~ back  BY <2>5 DEF Remember
  <2> QED  BY <2>2, <2>4, <2>8, <2>9, <2>10, FreshAtWorker
<1> QED  BY <1>6, <1>7, <1>8, <1>9

\* The follow-up work of turn t is its compression, at one version, and the summaries of
\* the chunks it closes, at the first.
LEMMA FollowUpsAsk ==
  ASSUME TypeInv, NEW w \in Worker, NEW t \in Turn, NEW closes \in Seq(Chunk)
  PROVE  \E req \in Seq(Request) :
           /\ req = FollowUps(w, t, closes)
           /\ \A n \in 1..Len(req) :
                \/ req[n].op = Cmp(t) /\ req[n].ver = work[w].next
                \/ /\ req[n].ver = 1
                   /\ \E k \in 1..Len(closes) : req[n].op \in {Detailed(closes[k]), Brief(closes[k])}
<1>1. At(Cmp(t), work[w].next) \in Request /\ At(Cmp(t), work[w].next).op = Cmp(t)
      /\ At(Cmp(t), work[w].next).ver = work[w].next
  BY OpKinds, WorkFields DEF TypeInv, TypeOK, At, Request
<1>2. PICK a \in Request : a = At(Cmp(t), work[w].next) /\ a.op = Cmp(t) /\ a.ver = work[w].next
  BY <1>1
<1>3. PICK r \in Seq(Request) :
        /\ r = Summaries(closes)
        /\ \A n \in 1..Len(r) :
             \E k \in 1..Len(closes) : r[n].op \in {Detailed(closes[k]), Brief(closes[k])}
        /\ \A n \in 1..Len(r) : r[n].ver = 1
  BY SummariesTyped
<1>4. PICK s : s = (IF Live(queue, a) THEN <<>> ELSE <<a>>)  OBVIOUS
<1>5. s \in Seq(Request) /\ \A n \in 1..Len(s) : s[n] = a
  <2>1. CASE Live(queue, a)
    <3>1. s = <<>>  BY <1>4, <2>1
    <3> QED  BY <3>1
  <2>2. CASE ~ Live(queue, a)
    <3>1. s = <<a>>  BY <1>4, <2>2
    <3>2. s \in Seq(Request) /\ Len(s) = 1 /\ s[1] = a  BY <1>2, <3>1, SingleRequest
    <3> QED  BY <3>2
  <2> QED  BY <2>1, <2>2
<1>6. /\ s \o r \in Seq(Request) /\ Len(s \o r) = Len(s) + Len(r)
      /\ Len(s) \in Nat /\ Len(r) \in Nat
      /\ \A n \in 1..(Len(s) + Len(r)) :
           /\ n <= Len(s) => (s \o r)[n] = s[n]
           /\ n > Len(s) => (s \o r)[n] = r[n - Len(s)]
  BY <1>3, <1>5, ConcatFacts
<1>7. ASSUME NEW n \in 1..Len(s \o r)
      PROVE  \/ (s \o r)[n].op = Cmp(t) /\ (s \o r)[n].ver = work[w].next
             \/ /\ (s \o r)[n].ver = 1
                /\ \E k \in 1..Len(closes) : (s \o r)[n].op \in {Detailed(closes[k]), Brief(closes[k])}
  <2>1. CASE n <= Len(s)
    <3>1. n \in 1..Len(s) /\ (s \o r)[n] = s[n]  BY <1>6, <2>1
    <3> QED  BY <1>2, <1>5, <3>1
  <2>2. CASE n > Len(s)
    <3>1. n - Len(s) \in 1..Len(r) /\ (s \o r)[n] = r[n - Len(s)]  BY <1>6, <2>2
    <3> QED  BY <1>3, <3>1
  <2> QED  BY <1>6, <2>1, <2>2
<1>8. s \o r = FollowUps(w, t, closes)  BY <1>2, <1>3, <1>4 DEF FollowUps
<1> QED  BY <1>6, <1>7, <1>8

\* A turn that is placed now changes what no row covers.
LEMMA PlacingIsStill ==
  ASSUME TypeInv, RecordInv, rev' = rev, NEW t \in Turn, NEW chunk \in Chunk,
         placed' = [placed EXCEPT ![t] = chunk],
         placed[t] # 0 => chunk = placed[t], placed[t] = 0 => chunk \notin full
  PROVE  \A o \in Op : rows[o].state # "absent" => Covers(o)' = Covers(o) /\ Still(o)
<1> SUFFICES ASSUME NEW o \in Op, rows[o].state # "absent" PROVE Covers(o)' = Covers(o) /\ Still(o)
  OBVIOUS
<1>1. \A u \in Turn : placed'[u] = IF u = t THEN chunk ELSE placed[u]  BY DEF TypeInv, TypeOK
<1>2. Covers(o)' = Covers(o)
  <2>1. CASE o[1] \in {"message", "turn", "compression"}  BY <2>1 DEF Covers
  <2>2. CASE o[1] \notin {"message", "turn", "compression"}
    <3>1. o[2] \in Chunk /\ o[2] \in full
      <4>1. Known(o)  BY DEF RecordInv, RowsAreKnown
      <4> QED  BY <2>2, <4>1, OpKinds, OpTags DEF Known
    <3>2. o[2] # 0  BY <3>1, ThreadFacts DEF Chunk, Turn
    <3>3. ASSUME NEW u \in Turn PROVE placed'[u] = o[2] <=> placed[u] = o[2]
      <4>1. CASE u = t /\ placed[t] = 0
        <5>1. chunk # o[2]  BY <3>1, <4>1
        <5> QED  BY <1>1, <3>2, <4>1, <5>1
      <4>2. CASE u = t /\ placed[t] # 0  BY <1>1, <4>2
      <4>3. CASE u # t  BY <1>1, <4>3
      <4> QED  BY <4>1, <4>2, <4>3
    <3>4. {u \in Turn : placed'[u] = o[2]} = {u \in Turn : placed[u] = o[2]}  BY <3>3
    <3> QED  BY <2>2, <3>4 DEF Covers
  <2> QED  BY <2>1, <2>2
<1> QED  BY <1>2, StillWhere

LEMMA FreshSucceedTurn ==
  ASSUME OneProcess, TypeInv, TypeInv', FreshInv, NEW w \in Worker, NEW t \in Turn, SucceedTurn(w, t)
  PROVE  FreshInv'
<1>0. /\ queue \in Seq(Item) /\ rows \in [Op -> RowRec] /\ closed \in Nat
      /\ placed \in [Turn -> 0..Len(Members)] /\ work[w].of \in Content /\ work[w].next \in Nat
  <2>1. /\ queue \in Seq(Item) /\ rows \in [Op -> RowRec] /\ closed \in 0..Len(Members)
        /\ placed \in [Turn -> 0..Len(Members)] /\ work \in [Worker -> Work]
    BY DEF TypeInv, TypeOK
  <2>2. closed \in Nat  BY <2>1, ThreadFacts
  <2> QED  BY <2>1, <2>2, WorkFields
<1>1. /\ Undisturbed(w) /\ work[w].pc = "returned" /\ work[w].outcome = "ok"
      /\ work[w].op = Asm(t) /\ UNCHANGED <<rev, closed, count>>
  BY DEF SucceedTurn, Ends
<1>2. RecordInv  BY DEF FreshInv
<1>3. CASE ~ (Owned(w) /\ Current(w))
  <2>1. /\ queue' = (IF Owned(w) THEN Tail(queue) ELSE queue) /\ Become(w, Idle)
        /\ UNCHANGED <<placed, full, rows, top, back>>
    BY <1>3 DEF SucceedTurn
  <2>2. PICK s \in States, of \in Content : s = "failed" /\ of = NoContent  BY ContentTyped DEF States
  <2>3. rows' = (IF Owned(w) THEN Stamped(w, s, of) ELSE rows)
    BY <1>3, <2>1 DEF Stamped
  <2> QED  BY <1>1, <2>1, <2>2, <2>3, FreshStamp
<1>4. CASE Owned(w) /\ Current(w)
  <2>1. PICK chunk \in Chunk, closes \in Seq(Chunk) :
           /\ placed' = [placed EXCEPT ![t] = chunk]
           /\ full' = full \cup Entries(closes)
           /\ Enqueue(Tail(queue), Stamped(w, "ready", work[w].of), FollowUps(w, t, closes))
           /\ Become(w, AfterTurn(w, t))
           /\ placed[t] # 0 => chunk = placed[t] /\ closes = <<>>
           /\ placed[t] = 0 => chunk \notin full
    BY <1>4, SucceedTurnIs
  <2>2. PICK k : k = AfterTurn(w, t)  OBVIOUS
  <2>3. work'[w] = k /\ \A x \in Worker \ {w} : Aside(x)  BY <1>1, <2>1, <2>2, OthersAside DEF Become
  <2>4. work'[w].pc \in {"idle", "second"}  BY <2>2, <2>3, AfterTurnTyped
  <2>5. FloorsFit(w)' /\ DeferredIsFull(w)' /\ WorkIsFresh(w)'  BY <2>4, OutsideSteps, RestingIsFresh
  <2>6. PICK req \in Seq(Request) :
           /\ req = FollowUps(w, t, closes)
           /\ \A n \in 1..Len(req) :
                \/ req[n].op = Cmp(t) /\ req[n].ver = work[w].next
                \/ /\ req[n].ver = 1
                   /\ \E j \in 1..Len(closes) : req[n].op \in {Detailed(closes[j]), Brief(closes[j])}
    BY <2>1, FollowUpsAsk
  <2>7. PICK s \in States, of \in Content : s = "ready" /\ s # "absent" /\ of = work[w].of
    BY <1>0 DEF States
  <2>8. PICK rws \in [Op -> RowRec] : rws = Stamped(w, s, of)  BY <1>0, <2>7, StampedTyped
  <2>9. /\ TurnedOnly(rws)
        /\ \A o \in Op : rws[o] = rows[o]
                         \/ (/\ o = work[w].op /\ Current(w)
                             /\ rws[o].state = s /\ rws[o].of = of)
    BY <2>7, <2>8, StampedTurnsOnly
  <2>10. Enqueue(Tail(queue), rws, req)  BY <2>1, <2>6, <2>7, <2>8
  <2>11. rows' = Pend(rws, req) /\ Remember(req)  BY <2>10 DEF Enqueue
  <2>12. Consistent(req)
    <3>1. ASSUME NEW j \in 1..Len(closes)
          PROVE  Cmp(t) # Detailed(closes[j]) /\ Cmp(t) # Brief(closes[j])
      BY OpTags
    <3> QED  BY <2>6, <3>1 DEF Consistent
  <2>13. t <= closed
    <3>1. Known(Asm(t))  BY <1>1, <1>2, <1>4, OpKinds DEF RecordInv, RowsAreKnown, Current
    <3> QED  BY <3>1, OpTags DEF Known
  <2>14. RowsRecorded
    <3>1. Known(Cmp(t))'  BY <1>1, <2>13, OpTags DEF Known
    <3>2. ASSUME NEW j \in 1..Len(closes), NEW o \in {Detailed(closes[j]), Brief(closes[j])}
          PROVE  Known(o)'
      <4>1. o[1] \notin {"message", "turn", "compression"} /\ o[2] = closes[j]  BY OpTags
      <4>2. closes[j] \in full'  BY <2>1 DEF Entries
      <4> QED  BY <4>1, <4>2 DEF Known
    <3>3. ASSUME NEW n \in 1..Len(req), NEW o \in Op, req[n].op = o PROVE Known(o)'
      <4>1. CASE o = Cmp(t)
        <5>1. o[1] = "compression" /\ o[2] = t  BY <4>1 DEF Cmp
        <5> QED  BY <1>1, <2>13, <5>1 DEF Known
      <4>2. CASE \E j \in 1..Len(closes) : o \in {Detailed(closes[j]), Brief(closes[j])}
        BY <3>2, <4>2
      <4> QED  BY <2>6, <3>3, <4>1, <4>2
    <3> QED  BY <2>9, <2>11, <3>3, AskRecorded
  <2>15. \A u \in Turn : placed'[u] = IF u = t THEN chunk ELSE placed[u]  BY <1>0, <2>1
  <2>16. PlacedAreClosed'
    <3>1. ASSUME NEW u \in Turn, placed'[u] # 0 PROVE u <= closed'
      BY <1>1, <1>2, <2>13, <2>15, <3>1 DEF RecordInv, PlacedAreClosed
    <3> QED  BY <3>1 DEF PlacedAreClosed
  <2>17. ContentIsClosed'  BY <1>1, <1>2 DEF RecordInv, ContentIsClosed, InClosedTurn
  <2>18. closed <= closed' /\ full \subseteq full'  BY <1>0, <1>1, <2>1
  <2>19. RecordInv'
    <3>1. \A x \in Worker : Aside(x) \/ (FloorsFit(x)' /\ DeferredIsFull(x)')  BY <2>3, <2>5
    <3> QED  BY <1>2, <2>14, <2>16, <2>17, <2>18, <3>1, RecordFrom
  <2>20. \A o \in Op : rows[o].state # "absent" => Covers(o)' = Covers(o) /\ Still(o)
    BY <1>1, <1>2, <2>1, PlacingIsStill
  <2>21. ASSUME ~ back', TimelyInv PROVE RowsMove /\ ItemsArePast
    <3>1. ~ IsCall(w, "message")
      <4>1. work[w].op[1] = "turn"  BY <1>1, OpTags
      <4> QED  BY <4>1 DEF IsCall
    <3>2. IsFresh(work[w].op, work[w].of)  BY <1>1, <1>4, <2>21, <3>1, CountsWhileCurrent
    <3>3. ASSUME NEW o \in Op, rws[o] # rows[o] PROVE FreshNext(o, rws[o].of)
      <4>1. o = work[w].op /\ rws[o].of = of /\ rows[o].state # "absent"  BY <2>9, <3>3 DEF TurnedOnly
      <4>2. IsFresh(o, of)  BY <2>7, <3>2, <4>1
      <4> QED  BY <2>20, <4>1, <4>2 DEF Still
    <3>4. RowsMove /\ \A n \in 1..Len(req) : req[n].ver = top'[req[n].op]
      BY <2>6, <2>8, <2>9, <2>11, <2>12, <2>20, <2>21, <3>3, AskMoves
    <3>5. Tail(queue) \in Seq(Item)
          /\ \A n \in 1..Len(Tail(queue)) :
               \E i \in 1..Len(queue) : Tail(queue)[n].op = queue[i].op /\ Tail(queue)[n].ver = queue[i].ver
      BY <1>0, <1>4, TailEntries DEF Owned
    <3> QED  BY <2>6, <2>10, <3>4, <3>5, EnqueueItems
  <2>22. ~ back' => ~ back  BY <2>11 DEF Remember
  <2> QED  BY <2>3, <2>5, <2>19, <2>21, <2>22, FreshAtWorker
<1> QED  BY <1>3, <1>4

-----------------------------------------------------------------------------
LEMMA FreshInit == Init => FreshInv
<1> SUFFICES ASSUME Init PROVE FreshInv  OBVIOUS
<1>1. /\ rev = [m \in Message |-> 0] /\ placed = [t \in Turn |-> 0] /\ full = {} /\ queue = <<>>
      /\ rows = [o \in Op |-> NoRow] /\ work = [w \in Worker |-> Idle] /\ top = [o \in Op |-> 0]
  BY DEF Init
<1>2. NoRow.state = "absent" /\ Idle.pc = "idle" /\ Idle.outcome = "ok"  BY DEF NoRow, Idle
<1>3. \A w \in Worker : work[w].pc = "idle" /\ work[w].outcome = "ok"  BY <1>1, <1>2
<1>4. RecordInv
  <2>1. RowsAreKnown /\ AbsentIsNoRow  BY <1>1, <1>2 DEF RowsAreKnown, AbsentIsNoRow
  <2>2. PlacedAreClosed /\ ContentIsClosed  BY <1>1 DEF PlacedAreClosed, ContentIsClosed
  <2>3. \A w \in Worker : FloorsFit(w) /\ DeferredIsFull(w)  BY <1>3 DEF FloorsFit, DeferredIsFull
  <2> QED  BY <2>1, <2>2, <2>3 DEF RecordInv
<1>5. TimelyInv
  <2>1. RowsAreCurrent /\ ReadyIsFresh  BY <1>1, <1>2 DEF RowsAreCurrent, ReadyIsFresh
  <2>2. QueueIsPast
    <3>1. Len(queue) = 0  BY <1>1
    <3> QED  BY <3>1 DEF QueueIsPast
  <2>3. \A w \in Worker : WorkIsFresh(w)  BY <1>3 DEF WorkIsFresh, Busy
  <2> QED  BY <2>1, <2>2, <2>3 DEF TimelyInv
<1> QED  BY <1>4, <1>5 DEF FreshInv

LEMMA FreshStutter ==
  ASSUME FreshInv, UNCHANGED vars
  PROVE  FreshInv'
<1>1. UNCHANGED <<rev, closed, placed, full, queue, rows, work, top, back>>  BY DEF vars
<1>2. RecordInv'
  <2>1. RecordInv  BY DEF FreshInv
  <2>2. \A o \in Op : Known(o)' <=> Known(o)  BY <1>1 DEF Known, InClosedTurn
  <2>3. \A w \in Worker : Covers(work[w].op)' = Covers(work[w].op)  BY <1>1 DEF Covers
  <2>4. RowsAreKnown' /\ AbsentIsNoRow'  BY <1>1, <2>1, <2>2 DEF RecordInv, RowsAreKnown, AbsentIsNoRow
  <2>5. PlacedAreClosed' /\ ContentIsClosed'
    BY <1>1, <2>1 DEF RecordInv, PlacedAreClosed, ContentIsClosed, InClosedTurn
  <2>6. ASSUME NEW w \in Worker PROVE FloorsFit(w)' /\ DeferredIsFull(w)'
    <3>1. FloorsFit(w) /\ DeferredIsFull(w)  BY <2>1 DEF RecordInv
    <3> QED  BY <1>1, <2>3, <3>1 DEF FloorsFit, DeferredIsFull
  <2> QED  BY <2>4, <2>5, <2>6 DEF RecordInv
<1>3. ASSUME ~ back' PROVE TimelyInv'
  <2>1. TimelyInv  BY <1>1, <1>3 DEF FreshInv
  <2>2. \A o \in Op : Covers(o)' = Covers(o)  BY <1>1, CoversStay
  <2>3. \A w \in Worker : Covers(work[w].op)' = Covers(work[w].op)  BY <1>1 DEF Covers
  <2>4. RowsAreCurrent' /\ QueueIsPast'  BY <1>1, <2>1 DEF TimelyInv, RowsAreCurrent, QueueIsPast
  <2>5. ReadyIsFresh'  BY <1>1, <2>1, <2>2 DEF TimelyInv, ReadyIsFresh
  <2>6. ASSUME NEW w \in Worker PROVE WorkIsFresh(w)'
    <3>1. WorkIsFresh(w)  BY <2>1 DEF TimelyInv
    <3> QED  BY <1>1, <2>3, <3>1 DEF WorkIsFresh, Busy, CountsAt, IsCall, IsFresh
  <2> QED  BY <2>4, <2>5, <2>6 DEF TimelyInv
<1> QED  BY <1>2, <1>3 DEF FreshInv

LEMMA FreshStep ==
  ASSUME OneProcess, TypeInv, TypeInv', FreshInv, [Next]_vars
  PROVE  FreshInv'
<1>1. CASE Intake  BY <1>1, FreshIntake
<1>2. CASE Lapse  BY <1>2, FreshLapse
<1>3. CASE \E m \in Message : Edit(m) \/ Remove(m)  BY <1>3, FreshEdit
<1>4. ASSUME NEW w \in Worker, Claim(w) PROVE FreshInv'  BY <1>4, FreshClaim
<1>5. ASSUME NEW w \in Worker, \E t \in Turn : DeriveTurn(w, t) \/ DeriveChunk(w, t) PROVE FreshInv'
  BY <1>5, FreshDerive
<1>6. ASSUME NEW w \in Worker, \E m \in Message : DeriveMessage(w, m) PROVE FreshInv'
  BY <1>6, FreshDeriveMessage
<1>7. ASSUME NEW w \in Worker, Handle(w) PROVE FreshInv'
  <2>1. ASSUME NEW m \in Message, ReadMessage(w, m) \/ WriteFloor(w, m) PROVE FreshInv'
    BY <2>1, FreshReadMessage, FreshWriteFloor
  <2>2. ASSUME NEW t \in Turn, ReadTurn(w, t) \/ ReadCompression(w, t) \/ SucceedTurn(w, t) PROVE FreshInv'
    BY <2>2, FreshReadTurn, FreshReadCompression, FreshSucceedTurn
  <2>3. ASSUME NEW c \in Chunk, ReadDetailed(w, c) \/ ReadBrief(w, c) PROVE FreshInv'
    BY <2>3, FreshReadDetailed, FreshReadBrief
  <2>4. CASE TurnReturns(w)  BY <2>4, FreshTurnReturns
  <2>5. CASE Succeed(w) \/ SucceedPastQueue(w) \/ Fail(w)
    BY <2>5, FreshSucceed, FreshSucceedPastQueue, FreshFail
  <2>6. CASE Defer(w)  BY <2>6, FreshDefer
  <2>7. CASE DeriveSecond(w)  BY <2>7, FreshDerive
  <2> QED  BY <1>7, <2>1, <2>2, <2>3, <2>4, <2>5, <2>6, <2>7, Zenon DEF Handle
<1>8. CASE UNCHANGED vars  BY <1>8, FreshStutter
<1> QED  BY <1>1, <1>2, <1>3, <1>4, <1>5, <1>6, <1>7, <1>8, Zenon DEF Next

\* In one process a ready row is made from the present content of everything under it,
\* however late its handler finished and whatever was edited, removed, expired, deferred or
\* derived again meanwhile, as long as no version of an operation came into use twice.
THEOREM FreshInOneProcess == OneProcess => (Spec => []FreshUntilBack)
<1> SUFFICES ASSUME OneProcess PROVE Spec => []FreshUntilBack  OBVIOUS
<1>1. Init => TypeInv /\ FreshInv  BY TypeInit, FreshInit
<1>2. TypeInv /\ FreshInv /\ [Next]_vars => (TypeInv /\ FreshInv)'  BY TypeStep, FreshStep
<1>3. FreshInv => FreshUntilBack  BY DEF FreshInv, TimelyInv, FreshUntilBack
<1> QED  BY <1>1, <1>2, <1>3, PTL DEF Spec
=============================================================================
