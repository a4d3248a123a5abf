--------------------------- MODULE WorkQueue_proofs ---------------------------
(* Proofs about WorkQueue, for every set of workers and operations and every *)
(* bound.                                                                    *)
EXTENDS WorkQueue, TLAPS

-----------------------------------------------------------------------------
(* The operators on the tables.                                            *)

\* A request gives each of its operations a version.
LEMMA RequestType ==
  ASSUME NEW req \in Request
  PROVE  /\ DOMAIN req \subseteq Op
         /\ \A o \in DOMAIN req : req[o] \in Version
  BY DEF Request

\* Insert puts new items behind rowid n and keeps every other entry.
LEMMA InsertType ==
  ASSUME NEW tbl \in [Id -> Item], NEW n \in 0..MaxRowid, NEW req \in Request
  PROVE  Insert(tbl, n, req) \in [Id -> Item]
<1>1. \A i \in Id : i[1] \in Op
  BY DEF Id
<1>2. \A o \in Op : n + Rank[o] \in Nat
  BY WorkQueueAssumption
<1>. QED  BY <1>1, <1>2 DEF Insert, NewItem, NoItem, Item

\* Pend keeps the derivation table well typed.
LEMMA PendType ==
  ASSUME NEW rws \in [Row -> RowRec], NEW req \in Request
  PROVE  Pend(rws, req) \in [Row -> RowRec]
<1>. SUFFICES ASSUME NEW r \in Row, Requested(r, req) # {}
              PROVE  req[CHOOSE o \in Requested(r, req) : TRUE] \in Nat
  BY DEF Pend, RowRec
<1>1. (CHOOSE o \in Requested(r, req) : TRUE) \in Requested(r, req)
  OBVIOUS
<1>. QED  BY <1>1, RequestType, WorkQueueAssumption DEF Requested, Version

\* Raise keeps the versions in the bound.
LEMMA RaiseType ==
  ASSUME top \in [Op -> 0..MaxVersion], NEW req \in Request
  PROVE  Raise(req) \in [Op -> 0..MaxVersion]
  BY RequestType, WorkQueueAssumption DEF Raise, Version

\* Stamp writes a settled state and no version.
LEMMA StampType ==
  ASSUME rows \in [Row -> RowRec], NEW o \in Op, NEW v, NEW s \in Settled
  PROVE  Stamp(o, v, s) \in [Row -> RowRec]
  BY DEF Stamp, RowRec

\* Deleting an item leaves a table of items.
LEMMA DeleteType ==
  ASSUME items \in [Id -> Item], NEW i \in Id
  PROVE  Delete(i) \in [Id -> Item]
  BY DEF Delete, NoItem, Item

\* An item of the table stays one when it is claimed, re-queued or handed back.
LEMMA ItemType ==
  ASSUME NEW itm \in Item
  PROVE  /\ TakeClaim(itm) \in Item
         /\ Requeued(itm) \in Item
         /\ Released(itm) \in Item
<1>1. TakeClaim(itm) \in Item
  <2>1. itm.attempt + 1 \in Nat
    BY DEF Item
  <2>. QED  BY <2>1 DEF Item, TakeClaim
<1>2. Requeued(itm) \in Item
  BY DEF Item, Requeued
<1>3. Released(itm) \in Item
  BY DEF Item, Released
<1>. QED  BY <1>1, <1>2, <1>3

-----------------------------------------------------------------------------
(* Type correctness.                                                       *)

Activity == {"idle", "checked", "running", "expired", "repeated"}

\* The empty hand is a hand.
LEMMA NoHandType == NoHand \in Hand
<1>1. (CHOOSE o \in Op : TRUE) \in Op
  BY WorkQueueAssumption
<1>. QED  BY <1>1, WorkQueueAssumption DEF NoHand, Hand, Version

\* A worker takes a state of the list and a hand of the type.
LEMMA BecomeType ==
  ASSUME TypeOK, NEW w \in Worker, NEW p \in Activity, NEW h \in Hand, Become(w, p, h)
  PROVE  /\ pc' \in [Worker -> Activity]
         /\ hand' \in [Worker -> Hand]
  BY DEF TypeOK, Become, Activity

\* So does a worker that goes idle.
LEMMA IdleType ==
  ASSUME TypeOK, NEW w \in Worker, Idle(w)
  PROVE  /\ pc' \in [Worker -> Activity]
         /\ hand' \in [Worker -> Hand]
  BY BecomeType, NoHandType DEF Idle, Activity

\* The hand that an item gives is one.
LEMMA HandOfType ==
  ASSUME NEW i \in Id, NEW a \in Nat
  PROVE  HandOf(i, a) \in Hand
  BY DEF HandOf, Hand, Id

\* A hand names an item id.
LEMMA HandId ==
  ASSUME NEW h \in Hand
  PROVE  <<h.op, h.ver>> \in Id
  BY DEF Hand, Id

\* supersedeQueued leaves a table of items.
LEMMA SupersedeType ==
  ASSUME items \in [Id -> Item], NEW S
  PROVE  Supersede(S) \in [Id -> Item]
  BY DEF Supersede, NoItem, Item

\* Dropping rows leaves a table of rows.
LEMMA DropType ==
  ASSUME rows \in [Row -> RowRec], NEW S
  PROVE  Drop(S) \in [Row -> RowRec]
  BY DEF Drop, NoRow, RowRec

\* A caller that has read nothing has a typed snapshot.
LEMMA NoneSeenType == NoneSeen \in [Row -> RowRec]
  BY DEF NoneSeen, NoRow, RowRec

\* The empty thread file is well typed.
LEMMA InitType == Init => TypeOK
  BY NoHandType, NoneSeenType, WorkQueueAssumption
  DEF Init, TypeOK, NoItem, Item, NoRow, RowRec

\* A terminal failure, written or not, keeps the types.
LEMMA TerminalType ==
  ASSUME TypeOK, NEW w \in Worker, NEW s \in Settled, Terminal(w, s)
  PROVE  TypeOK'
<1>1. hand[w] \in Hand /\ hand[w].op \in Op /\ <<hand[w].op, hand[w].ver>> \in Id
  BY HandId DEF TypeOK, Hand
<1>2. items' \in [Id -> Item] /\ rows' \in [Row -> RowRec]
  BY <1>1, StampType, DeleteType DEF Terminal, TypeOK
<1>3. pc' \in [Worker -> Activity] /\ hand' \in [Worker -> Hand]
  BY IdleType DEF Terminal
<1>. QED  BY <1>2, <1>3 DEF Terminal, TypeOK, Activity

\* Every step keeps the types.
LEMMA NextType == TypeOK /\ [Next]_vars => TypeOK'
<1>. SUFFICES ASSUME TypeOK, [Next]_vars
              PROVE  TypeOK'
  OBVIOUS
<1>. USE DEF Activity
<1>1. ASSUME NEW req \in Request, Enqueue(req)
      PROVE  TypeOK'
  <2>1. items' \in [Id -> Item]
    BY <1>1, InsertType DEF Enqueue, TypeOK
  <2>2. rows' \in [Row -> RowRec]
    BY <1>1, PendType DEF Enqueue, TypeOK
  <2>3. top' \in [Op -> 0..MaxVersion]
    BY <1>1, RaiseType DEF Enqueue, TypeOK
  <2>. QED  BY <1>1, <2>1, <2>2, <2>3 DEF Enqueue, TypeOK
<1>2. ASSUME NEW D \in SUBSET Op, NEW C \in SUBSET Op, Cascade(D, C)
      PROVE  TypeOK'
  <2>. DEFINE next == [o \in C |-> 1 + rows[CHOOSE r \in Targets[o] : TRUE].ver]
  <2>1. next \in Request
    <3>1. \A o \in C : next[o] \in Version
      BY <1>2 DEF Cascade
    <3>2. next \in [C -> Version]
      BY <3>1
    <3>. QED  BY <3>2 DEF Request
  <2>2. items' \in [Id -> Item]
    <3>1. Supersede(D \cup C) \in [Id -> Item]
      BY SupersedeType DEF TypeOK
    <3>2. \A n \in 0..MaxRowid : Insert(Supersede(D \cup C), n, next) \in [Id -> Item]
      BY <2>1, <3>1, InsertType
    <3>. QED  BY <1>2, <3>2 DEF Cascade
  <2>3. rows' \in [Row -> RowRec]
    BY <1>2, <2>1, PendType, DropType DEF Cascade, TypeOK
  <2>4. top' \in [Op -> 0..MaxVersion]
    BY <1>2, <2>1, RaiseType DEF Cascade, TypeOK
  <2>. QED  BY <1>2, <2>2, <2>3, <2>4 DEF Cascade, TypeOK
<1>3. ASSUME NEW w \in Drainer, NEW i \in Id, Claim(w, i)
      PROVE  TypeOK'
  <2>1. items[i] \in Item /\ TakeClaim(items[i]) \in Item /\ w \in Worker
    BY ItemType DEF TypeOK, Worker
  <2>2. items' \in [Id -> Item]
    BY <1>3, <2>1 DEF Claim, TypeOK
  <2>3. HandOf(i, TakeClaim(items[i]).attempt) \in Hand
    BY <2>1, HandOfType DEF Item
  <2>4. pc' \in [Worker -> Activity] /\ hand' \in [Worker -> Hand]
    BY <1>3, <2>1, <2>3, BecomeType DEF Claim
  <2>. QED  BY <1>3, <2>2, <2>4 DEF Claim, TypeOK
<1>4. ASSUME NEW w \in Drainer, NEW i \in Id, FindExpired(w, i)
      PROVE  TypeOK'
  <2>1. HandOf(i, items[i].attempt) \in Hand /\ w \in Worker
    BY HandOfType DEF TypeOK, Item, Worker
  <2>2. pc' \in [Worker -> Activity] /\ hand' \in [Worker -> Hand]
    BY <1>4, <2>1, BecomeType DEF FindExpired
  <2>. QED  BY <1>4, <2>2 DEF FindExpired, TypeOK
<1>5. ASSUME NEW w \in Worker, Requeue(w)
      PROVE  TypeOK'
  <2>. DEFINE i == <<hand[w].op, hand[w].ver>>
  <2>1. hand[w] \in Hand /\ i \in Id
    BY HandId DEF TypeOK
  <2>2. items[i] \in Item /\ Requeued(items[i]) \in Item
    BY <2>1, ItemType DEF TypeOK
  <2>3. items' \in [Id -> Item]
    BY <1>5, <2>1, <2>2 DEF Requeue, TypeOK
  <2>4. pc' \in [Worker -> Activity] /\ hand' \in [Worker -> Hand]
    BY <1>5, <2>1, IdleType, BecomeType DEF Requeue
  <2>. QED  BY <1>5, <2>3, <2>4 DEF Requeue, TypeOK
<1>6. ASSUME NEW w \in Worker, FailRepeated(w)
      PROVE  TypeOK'
  BY <1>6, TerminalType DEF FailRepeated, Settled
<1>7. ASSUME NEW w \in Worker, Fail(w)
      PROVE  TypeOK'
  BY <1>7, TerminalType DEF Fail, Settled
<1>8. ASSUME NEW w \in Worker, NEW req \in Request, Succeed(w, req)
      PROVE  TypeOK'
  <2>. DEFINE h == hand[w]
              i == <<h.op, h.ver>>
  <2>1. h \in Hand /\ h.op \in Op /\ i \in Id
    BY HandId DEF TypeOK, Hand
  <2>2. Delete(i) \in [Id -> Item] /\ Stamp(h.op, h.ver, "ready") \in [Row -> RowRec]
    BY <2>1, DeleteType, StampType DEF TypeOK, Settled
  <2>3. items' \in [Id -> Item]
    <3>1. \A n \in 0..MaxRowid : Insert(Delete(i), n, req) \in [Id -> Item]
      BY <2>2, InsertType
    <3>. QED  BY <1>8, <2>2, <3>1 DEF Succeed, TypeOK
  <2>4. rows' \in [Row -> RowRec]
    BY <1>8, <2>2, PendType DEF Succeed, TypeOK
  <2>5. top' \in [Op -> 0..MaxVersion]
    BY <1>8, RaiseType DEF Succeed, TypeOK
  <2>6. pc' \in [Worker -> Activity] /\ hand' \in [Worker -> Hand]
    BY <1>8, IdleType DEF Succeed
  <2>. QED  BY <1>8, <2>3, <2>4, <2>5, <2>6 DEF Succeed, TypeOK
<1>9. ASSUME NEW w \in Caller, NEW o \in Op, ReadRows(w, o)
      PROVE  TypeOK'
  <2>1. [op |-> o, ver |-> NextVersion(o), attempt |-> 0] \in Hand /\ w \in Worker
    BY <1>9 DEF ReadRows, Hand, Worker
  <2>2. pc' \in [Worker -> Activity] /\ hand' \in [Worker -> Hand]
    BY <1>9, <2>1, BecomeType DEF ReadRows
  <2>3. [r \in Row |-> IF r \in Targets[o] THEN rows[r] ELSE NoRow] \in [Row -> RowRec]
    BY DEF TypeOK, NoRow, RowRec
  <2>4. seen' \in [Worker -> [Row -> RowRec]]
    BY <1>9, <2>1, <2>3 DEF ReadRows, TypeOK
  <2>. QED  BY <1>9, <2>2, <2>4 DEF ReadRows, TypeOK
<1>10. ASSUME NEW w \in Caller, ClaimNow(w)
       PROVE  TypeOK'
  <2>. DEFINE h == hand[w]
              i == <<h.op, h.ver>>
              req == [o \in {h.op} |-> h.ver]
  <2>1. w \in Worker /\ h \in Hand /\ h.op \in Op /\ i \in Id /\ items[i] \in Item
    BY HandId DEF TypeOK, Hand, Worker
  <2>2. req \in Request
    <3>1. req \in [{h.op} -> Version] /\ {h.op} \in SUBSET Op
      BY <2>1 DEF Hand
    <3>. QED  BY <3>1 DEF Request
  <2>3. Pend(rows, req) \in [Row -> RowRec] /\ Raise(req) \in [Op -> 0..MaxVersion]
    BY <2>2, PendType, RaiseType DEF TypeOK
  <2>4. \A n \in 0..MaxRowid : Insert(items, n, req) \in [Id -> Item]
    BY <2>2, InsertType DEF TypeOK
  <2>5. TakeClaim(items[i]) \in Item /\ TakeClaim(Insert(items, 0, req)[i]) \in Item
    BY <2>1, <2>4, ItemType, WorkQueueAssumption
  <2>6. /\ HandOf(i, 1) \in Hand
        /\ HandOf(i, items[i].attempt) \in Hand
        /\ HandOf(i, TakeClaim(items[i]).attempt) \in Hand
    BY <2>1, <2>5, HandOfType DEF Item
  <2>7. items' \in [Id -> Item]
    <3>1. [items EXCEPT ![i] = TakeClaim(@)] \in [Id -> Item]
      BY <2>1, <2>5 DEF TypeOK
    <3>2. Insert(items, 0, req) \in [Id -> Item]
      BY <2>4, WorkQueueAssumption
    <3>3. [Insert(items, 0, req) EXCEPT ![i] = TakeClaim(@)] \in [Id -> Item]
      BY <2>1, <2>5, <3>2
    <3>. QED  BY <1>10, <2>4, <3>1, <3>3 DEF ClaimNow, TypeOK
  <2>8. rows' \in [Row -> RowRec] /\ top' \in [Op -> 0..MaxVersion]
    BY <1>10, <2>3 DEF ClaimNow, TypeOK
  <2>9. pc' \in [Worker -> Activity] /\ hand' \in [Worker -> Hand]
    BY <1>10, <2>1, <2>6, IdleType, BecomeType DEF ClaimNow
  <2>10. seen' \in [Worker -> [Row -> RowRec]]
    BY <1>10, <2>1, NoneSeenType DEF ClaimNow, TypeOK
  <2>. QED  BY <1>10, <2>7, <2>8, <2>9, <2>10 DEF ClaimNow, TypeOK
<1>11. ASSUME NEW i \in Id, Lapse(i)
       PROVE  TypeOK'
  <2>1. [items[i] EXCEPT !.lapsed = TRUE, !.lapses = @ + 1] \in Item
    <3>1. items[i] \in Item /\ items[i].lapses + 1 \in Nat
      BY DEF TypeOK, Item
    <3>. QED  BY <3>1 DEF Item
  <2>2. items' \in [Id -> Item]
    BY <1>11, <2>1 DEF Lapse, TypeOK
  <2>. QED  BY <1>11, <2>2 DEF Lapse, TypeOK
<1>12. ASSUME NEW w \in Worker, Exit(w) \/ Crash(w)
       PROVE  TypeOK'
  <2>. DEFINE i == <<hand[w].op, hand[w].ver>>
  <2>1. i \in Id /\ items[i] \in Item /\ Released(items[i]) \in Item
    BY HandId, ItemType DEF TypeOK
  <2>2. items' \in [Id -> Item]
    BY <1>12, <2>1 DEF Exit, Crash, TypeOK
  <2>3. pc' \in [Worker -> Activity] /\ hand' \in [Worker -> Hand]
    BY <1>12, IdleType DEF Exit, Crash, Gone
  <2>4. seen' \in [Worker -> [Row -> RowRec]]
    BY <1>12, NoneSeenType DEF Exit, Crash, Gone, TypeOK
  <2>5. faults' \in 0..MaxFaults
    BY <1>12, WorkQueueAssumption DEF Exit, Crash, Gone, TypeOK
  <2>. QED  BY <1>12, <2>2, <2>3, <2>4, <2>5 DEF Exit, Crash, Gone, TypeOK
<1>13. CASE UNCHANGED vars
  BY <1>13 DEF vars, TypeOK
<1>. QED  BY <1>1, <1>2, <1>3, <1>4, <1>5, <1>6, <1>7, <1>8, <1>9, <1>10, <1>11, <1>12, <1>13
          DEF Next, DrainStep, Finish

\* The tables and the workers' memory keep their shape: every version stays
\* within its bound and every hand names an item of the table.
THEOREM TypeCorrect == Spec => []TypeOK
  BY InitType, NextType, PTL DEF Spec

-----------------------------------------------------------------------------
(* The inductive invariant, one conjunct for each idea.                    *)

\* The queue is a sequence: no two live items share a rowid, and a claimed one
\* comes before all others.
Ordered(tbl) ==
  \A i, j \in Id : Live(tbl, i) /\ Live(tbl, j) /\ i # j
                  => /\ tbl[i].rowid # tbl[j].rowid
                     /\ tbl[i].status = "claimed" => tbl[i].rowid < tbl[j].rowid

\* No live item of o is of a version later than the last one enqueued.
BelowTop(tbl, tp, o) == \A v \in Version : Live(tbl, <<o, v>>) => v <= tp[o]

\* The rows of o stand together at its latest version, pending exactly while
\* the item of that version is live.
RowsInStep(tbl, rws, tp, o) ==
  /\ \A r, q \in Targets[o] : rws[r] = rws[q]
  /\ \A r \in Targets[o] : rws[r] # NoRow =>
       /\ rws[r].state # "absent"
       /\ rws[r].ver = tp[o]
       /\ tp[o] \in Version
       /\ rws[r].state = "pending" <=> Live(tbl, <<o, tp[o]>>)

TablesInStep(tbl, rws, tp) ==
  \A o \in Op : BelowTop(tbl, tp, o) /\ RowsInStep(tbl, rws, tp, o)

\* A caller about to claim asks for the version it saw, or for the next one.
CheckedHand(w) ==
  pc[w] = "checked" =>
    \A r \in Targets[hand[w].op] :
      /\ seen[w][r].state # "absent"
      /\ hand[w].ver = IF seen[w][r].state = "pending" THEN seen[w][r].ver ELSE seen[w][r].ver + 1

Holding(w) == pc[w] \in {"running", "expired", "repeated"}

\* An attempt in memory is of an item that was enqueued, and no later than the
\* item's own count of attempts.
HeldHand(w) ==
  Holding(w) => /\ hand[w].ver <= top[hand[w].op]
                /\ Live(items, <<hand[w].op, hand[w].ver>>)
                   => hand[w].attempt <= items[<<hand[w].op, hand[w].ver>>].attempt

\* No two workers run the same attempt.
AttemptsDiffer ==
  \A w, x \in Worker : pc[w] = "running" /\ pc[x] = "running" /\ w # x => hand[w] # hand[x]

\* The expiry mark stands for one lapsed lease, and a lapsed claim for another.
LapsesCounted(itm) ==
  /\ itm.lapsed => itm.lapses >= 1
  /\ itm.claimExpired => itm.lapses >= 1
  /\ itm.lapsed /\ itm.claimExpired => itm.lapses >= 2

\* An item found to have expired repeatedly has, as long as nobody took it over.
RepeatedHand(w) ==
  pc[w] = "repeated" /\ Owned(hand[w])
    => /\ items[<<hand[w].op, hand[w].ver>>].lapsed
       /\ items[<<hand[w].op, hand[w].ver>>].claimExpired

IInv ==
  /\ TypeOK
  /\ Ordered(items)
  /\ TablesInStep(items, rows, top)
  /\ \A w \in Worker : CheckedHand(w) /\ HeldHand(w) /\ RepeatedHand(w)
  /\ AttemptsDiffer
  /\ \A i \in Id : LapsesCounted(items[i])

-----------------------------------------------------------------------------
(* The order of the queue.                                                 *)

\* Removing items keeps the order.
LEMMA RemovalOrdered ==
  ASSUME NEW tbl \in [Id -> Item], NEW less \in [Id -> Item], Ordered(tbl),
         \A i \in Id : less[i] = tbl[i] \/ less[i] = NoItem
  PROVE  Ordered(less)
  BY DEF Ordered, Live, NoItem

\* New items go behind all others, in the order of their operations' ranks.
LEMMA InsertOrdered ==
  ASSUME NEW tbl \in [Id -> Item], NEW n \in 0..MaxRowid, NEW req \in Request,
         Ordered(tbl), \A i \in Id : Live(tbl, i) => tbl[i].rowid <= n
  PROVE  Ordered(Insert(tbl, n, req))
<1>. DEFINE new(i) == i[1] \in DOMAIN req /\ req[i[1]] = i[2]
            more == Insert(tbl, n, req)
<1>. SUFFICES ASSUME NEW i \in Id, NEW j \in Id, Live(more, i), Live(more, j), i # j
              PROVE  /\ more[i].rowid # more[j].rowid
                     /\ more[i].status = "claimed" => more[i].rowid < more[j].rowid
  BY DEF Ordered
<1>1. \A k \in Id : more[k] = IF new(k) THEN NewItem(n + Rank[k[1]]) ELSE tbl[k]
  BY DEF Insert
<1>2. \A k \in Id : new(k) => /\ more[k].status = "queued"
                             /\ more[k].rowid = n + Rank[k[1]]
                             /\ k[1] \in Op /\ Rank[k[1]] \in Nat \ {0}
  <2>1. \A k \in Id : new(k) => more[k] = NewItem(n + Rank[k[1]])
    BY <1>1
  <2>2. \A m : NewItem(m).status = "queued" /\ NewItem(m).rowid = m
    BY DEF NewItem, NoItem
  <2>3. \A k \in Id : k[1] \in Op /\ Rank[k[1]] \in Nat \ {0}
    BY WorkQueueAssumption DEF Id
  <2>. QED  BY <2>1, <2>2, <2>3
<1>3. \A k \in Id : ~ new(k) /\ Live(more, k) => Live(tbl, k) /\ more[k] = tbl[k] /\ tbl[k].rowid <= n
  BY <1>1 DEF Live
<1>4. n \in Nat /\ tbl[i].rowid \in Nat /\ tbl[j].rowid \in Nat
  BY WorkQueueAssumption DEF Item
<1>5. CASE new(i) /\ new(j)
  <2>1. i[1] # j[1]
    BY <1>5 DEF Id
  <2>2. Rank[i[1]] # Rank[j[1]]
    BY <1>2, <1>5, <2>1, WorkQueueAssumption
  <2>. QED  BY <1>2, <1>4, <1>5, <2>2
<1>6. CASE new(i) /\ ~ new(j)
  <2>1. /\ more[i].rowid = n + Rank[i[1]] /\ Rank[i[1]] \in Nat \ {0}
        /\ more[j].rowid = tbl[j].rowid /\ tbl[j].rowid <= n
        /\ more[i].status = "queued"
    BY <1>2, <1>3, <1>6
  <2>. QED  BY <1>4, <2>1
<1>7. CASE ~ new(i) /\ new(j)
  <2>1. /\ more[j].rowid = n + Rank[j[1]] /\ Rank[j[1]] \in Nat \ {0}
        /\ more[i].rowid = tbl[i].rowid /\ tbl[i].rowid <= n
    BY <1>2, <1>3, <1>7
  <2>. QED  BY <1>4, <2>1
<1>8. CASE ~ new(i) /\ ~ new(j)
  BY <1>3, <1>8 DEF Ordered
<1>. QED  BY <1>5, <1>6, <1>7, <1>8

\* Changing a live item where it stands keeps the order, if it is at the head
\* or does not become claimed.
LEMMA ChangeOrdered ==
  ASSUME NEW tbl \in [Id -> Item], Ordered(tbl),
         NEW i \in Id, NEW itm, Live(tbl, i), itm.rowid = tbl[i].rowid,
         itm.status = "claimed" => \/ tbl[i].status = "claimed"
                                  \/ \A j \in Id : Live(tbl, j) => tbl[i].rowid <= tbl[j].rowid
  PROVE  Ordered([tbl EXCEPT ![i] = itm])
<1>. DEFINE new == [tbl EXCEPT ![i] = itm]
<1>. SUFFICES ASSUME NEW j \in Id, NEW k \in Id, Live(new, j), Live(new, k), j # k
              PROVE  /\ new[j].rowid # new[k].rowid
                     /\ new[j].status = "claimed" => new[j].rowid < new[k].rowid
  BY DEF Ordered
<1>1. Live(tbl, j) /\ Live(tbl, k) /\ new[j].rowid = tbl[j].rowid /\ new[k].rowid = tbl[k].rowid
  BY DEF Live
<1>2. tbl[j].rowid \in Nat /\ tbl[k].rowid \in Nat /\ tbl[j].rowid # tbl[k].rowid
  BY <1>1 DEF Item, Ordered
<1>3. ASSUME new[j].status = "claimed"
      PROVE  tbl[j].rowid < tbl[k].rowid
  <2>1. CASE tbl[j].status = "claimed"
    BY <1>1, <2>1 DEF Ordered
  <2>2. CASE tbl[j].status # "claimed"
    <3>1. j = i
      BY <1>3, <2>2
    <3>2. tbl[j].rowid <= tbl[k].rowid
      BY <1>1, <1>3, <2>2, <3>1
    <3>. QED  BY <1>2, <3>2
  <2>. QED  BY <2>1, <2>2
<1>. QED  BY <1>1, <1>2, <1>3

\* Every operation of the queue keeps it in order.
LEMMA OrderedStep ==
  ASSUME TypeOK, Ordered(items), [Next]_vars
  PROVE  Ordered(items')
<1>. USE DEF TypeOK
<1>1. ASSUME NEW req \in Request, Enqueue(req)
      PROVE  Ordered(items')
  BY <1>1, InsertOrdered DEF Enqueue, IsLast
<1>2. ASSUME NEW D \in SUBSET Op, NEW C \in SUBSET Op, Cascade(D, C)
      PROVE  Ordered(items')
  <2>. DEFINE next == [o \in C |-> 1 + rows[CHOOSE r \in Targets[o] : TRUE].ver]
              rest == Supersede(D \cup C)
  <2>1. next \in Request
    <3>1. \A o \in C : next[o] \in Version
      BY <1>2 DEF Cascade
    <3>2. next \in [C -> Version]
      BY <3>1
    <3>. QED  BY <3>2 DEF Request
  <2>2. rest \in [Id -> Item] /\ Ordered(rest)
    BY SupersedeType, RemovalOrdered DEF Supersede
  <2>3. PICK n \in 0..MaxRowid : IsLast(rest, n) /\ items' = Insert(rest, n, next)
    BY <1>2 DEF Cascade
  <2>. HIDE DEF next, rest
  <2>. QED  BY <2>1, <2>2, <2>3, InsertOrdered DEF IsLast
<1>3. ASSUME NEW w \in Drainer, NEW i \in Id, Claim(w, i)
      PROVE  Ordered(items')
  <2>1. Live(items, i) /\ \A j \in Id : Live(items, j) => items[i].rowid <= items[j].rowid
    BY <1>3 DEF Claim, IsHead
  <2>2. TakeClaim(items[i]).rowid = items[i].rowid
    BY DEF TakeClaim, Item
  <2>3. items' = [items EXCEPT ![i] = TakeClaim(items[i])]
    BY <1>3 DEF Claim
  <2>. QED  BY <2>1, <2>2, <2>3, ChangeOrdered
<1>4. ASSUME NEW w \in Worker, Requeue(w)
      PROVE  Ordered(items')
  <2>. DEFINE i == <<hand[w].op, hand[w].ver>>
  <2>1. i \in Id
    BY HandId
  <2>2. CASE UNCHANGED items
    BY <2>2
  <2>3. CASE Owned(hand[w]) /\ items' = [items EXCEPT ![i] = Requeued(@)]
    <3>1. Requeued(items[i]).rowid = items[i].rowid /\ Requeued(items[i]).status = "queued"
      BY <2>1 DEF Requeued, Item
    <3>2. Live(items, i)
      BY <2>3 DEF Owned, Live
    <3>. QED  BY <2>1, <2>3, <3>1, <3>2, ChangeOrdered
  <2>. QED  BY <1>4, <2>2, <2>3 DEF Requeue
<1>5. ASSUME NEW w \in Worker, NEW s, Terminal(w, s)
      PROVE  Ordered(items')
  <2>. DEFINE rest == Delete(<<hand[w].op, hand[w].ver>>)
  <2>1. rest \in [Id -> Item] /\ Ordered(rest)
    BY HandId, DeleteType, RemovalOrdered DEF Delete
  <2>2. items' = rest \/ items' = items
    BY <1>5 DEF Terminal
  <2>. QED  BY <2>1, <2>2
<1>6. ASSUME NEW w \in Worker, NEW req \in Request, Succeed(w, req)
      PROVE  Ordered(items')
  <2>. DEFINE rest == Delete(<<hand[w].op, hand[w].ver>>)
  <2>1. rest \in [Id -> Item] /\ Ordered(rest)
    BY HandId, DeleteType, RemovalOrdered DEF Delete
  <2>2. \/ \E n \in 0..MaxRowid : IsLast(items, n) /\ items' = Insert(rest, n, req)
        \/ items' = rest
        \/ items' = items
    BY <1>6 DEF Succeed
  <2>3. ASSUME NEW n \in 0..MaxRowid, IsLast(items, n)
        PROVE  Ordered(Insert(rest, n, req))
    <3>1. \A i \in Id : Live(rest, i) => rest[i].rowid <= n
      BY <2>3 DEF IsLast, Delete, Live, NoItem
    <3>. HIDE DEF rest
    <3>. QED  BY <2>1, <3>1, InsertOrdered
  <2>. HIDE DEF rest
  <2>. QED  BY <2>1, <2>2, <2>3
<1>7. ASSUME NEW w \in Caller, ClaimNow(w)
      PROVE  Ordered(items')
  <2>. DEFINE i == <<hand[w].op, hand[w].ver>>
              req == [o \in {hand[w].op} |-> hand[w].ver]
  <2>1. i \in Id /\ hand[w] \in Hand
    BY HandId DEF Worker
  <2>2. req \in Request
    <3>1. req \in [{hand[w].op} -> Version] /\ {hand[w].op} \in SUBSET Op
      BY <2>1 DEF Hand
    <3>. QED  BY <3>1 DEF Request
  <2>3. CASE \E n \in 0..MaxRowid : IsLast(items, n) /\ items' = Insert(items, n, req)
    BY <2>2, <2>3, InsertOrdered DEF IsLast
  <2>4. CASE Empty /\ items' = [Insert(items, 0, req) EXCEPT ![i] = TakeClaim(@)]
    <3>1. 0 \in 0..MaxRowid /\ IsLast(items, 0)
      BY <2>4, WorkQueueAssumption DEF Empty, IsLast
    <3>. DEFINE one == Insert(items, 0, req)
    <3>2. one \in [Id -> Item] /\ Ordered(one)
      BY <2>2, <3>1, InsertOrdered, InsertType DEF IsLast
    <3>3. \A j \in Id : Live(one, j) <=> j = i
      <4>1. ASSUME NEW j \in Id
            PROVE  one[j] = IF j = i THEN NewItem(0 + Rank[j[1]]) ELSE items[j]
        BY <2>1, <4>1 DEF Insert, Id, Hand
      <4>2. \A j \in Id : items[j].status = "absent"
        BY <2>4 DEF Empty, Live
      <4>3. \A k : NewItem(k).status = "queued"
        BY DEF NewItem, NoItem
      <4>. HIDE DEF one
      <4>. QED  BY <4>1, <4>2, <4>3 DEF Live
    <3>4. TakeClaim(one[i]).rowid = one[i].rowid /\ one[i].rowid \in Nat
      BY <2>1, <3>2 DEF TakeClaim, Item
    <3>. HIDE DEF one
    <3>5. ASSUME NEW j \in Id, Live(one, j)
          PROVE  one[i].rowid <= one[j].rowid
      <4>1. j = i
        BY <3>3, <3>5
      <4>. QED  BY <3>4, <4>1
    <3>6. items' = [one EXCEPT ![i] = TakeClaim(one[i])]
      BY <2>4 DEF one
    <3>. QED  BY <2>1, <3>2, <3>3, <3>4, <3>5, <3>6, ChangeOrdered
  <2>5. CASE IsHead(i) /\ items' = [items EXCEPT ![i] = TakeClaim(@)]
    <3>1. Live(items, i) /\ \A j \in Id : Live(items, j) => items[i].rowid <= items[j].rowid
      BY <2>5 DEF IsHead
    <3>2. TakeClaim(items[i]).rowid = items[i].rowid
      BY <2>1 DEF TakeClaim, Item
    <3>. QED  BY <2>1, <2>5, <3>1, <3>2, ChangeOrdered
  <2>6. CASE UNCHANGED items
    BY <2>6
  <2>. QED  BY <1>7, <2>3, <2>4, <2>5, <2>6 DEF ClaimNow
<1>8. ASSUME NEW i \in Id, Lapse(i)
      PROVE  Ordered(items')
  <2>1. Live(items, i) /\ items[i].status = "claimed"
    BY <1>8 DEF Lapse, Live
  <2>2. items' = [items EXCEPT ![i] = [items[i] EXCEPT !.lapsed = TRUE, !.lapses = @ + 1]]
    BY <1>8 DEF Lapse
  <2>3. [items[i] EXCEPT !.lapsed = TRUE, !.lapses = @ + 1].rowid = items[i].rowid
    BY DEF Item
  <2>. QED  BY <2>1, <2>2, <2>3, ChangeOrdered
<1>9. ASSUME NEW w \in Worker, Exit(w)
      PROVE  Ordered(items')
  <2>. DEFINE i == <<hand[w].op, hand[w].ver>>
  <2>1. i \in Id
    BY HandId
  <2>2. CASE Owned(hand[w]) /\ items' = [items EXCEPT ![i] = Released(@)]
    <3>1. Released(items[i]).rowid = items[i].rowid /\ Released(items[i]).status = "queued"
      BY <2>1 DEF Released, Item
    <3>2. Live(items, i)
      BY <2>2 DEF Owned, Live
    <3>. QED  BY <2>1, <2>2, <3>1, <3>2, ChangeOrdered
  <2>. QED  BY <1>9, <2>2 DEF Exit
<1>10. ASSUME UNCHANGED items
       PROVE  Ordered(items')
  BY <1>10
<1>. QED
  <2>1. ASSUME NEW w \in Worker, Finish(w) \/ FailRepeated(w)
        PROVE  Ordered(items')
    BY <2>1, <1>5, <1>6 DEF Finish, Fail, FailRepeated
  <2>2. ASSUME NEW w \in Drainer, NEW i \in Id, FindExpired(w, i)
        PROVE  Ordered(items')
    BY <2>2, <1>10 DEF FindExpired
  <2>3. ASSUME NEW w \in Caller, NEW o \in Op, ReadRows(w, o)
        PROVE  Ordered(items')
    BY <2>3, <1>10 DEF ReadRows
  <2>. QED  BY <1>1, <1>2, <1>3, <1>4, <1>7, <1>8, <1>9, <1>10, <2>1, <2>2, <2>3
            DEF Next, DrainStep, Crash, vars

-----------------------------------------------------------------------------
(* The items and the rows together.                                        *)

\* A row belongs to one operation only.
LEMMA OneTarget ==
  ASSUME NEW o \in Op, NEW r \in Targets[o]
  PROVE  /\ r \in Row
         /\ \A p \in Op : r \in Targets[p] => p = o
  BY WorkQueueAssumption DEF Row

\* What Pend does to one row: it is pending at the requested version, or kept.
LEMMA PendAt ==
  ASSUME NEW rws, NEW req \in Request, NEW o \in Op, NEW r \in Targets[o]
  PROVE  Pend(rws, req)[r] = IF o \in DOMAIN req THEN [state |-> "pending", ver |-> req[o]]
                             ELSE rws[r]
<1>1. Requested(r, req) = IF o \in DOMAIN req THEN {o} ELSE {}
  BY OneTarget, RequestType DEF Requested
<1>2. (CHOOSE p \in {o} : TRUE) = o
  OBVIOUS
<1>. QED  BY <1>1, <1>2, OneTarget DEF Pend

\* What Insert does to one id: a new queued item, or kept.
LEMMA InsertAt ==
  ASSUME NEW tbl, NEW n, NEW req \in Request, NEW o \in Op, NEW v \in Version
  PROVE  Live(Insert(tbl, n, req), <<o, v>>)
           <=> (o \in DOMAIN req /\ req[o] = v) \/ Live(tbl, <<o, v>>)
  BY DEF Insert, Live, NewItem, NoItem, Id

\* What Drop does to one row.
LEMMA DropAt ==
  ASSUME NEW S \in SUBSET Op, NEW o \in Op, NEW r \in Targets[o]
  PROVE  Drop(S)[r] = IF o \in S THEN NoRow ELSE rows[r]
  BY OneTarget DEF Drop

\* Requesting fresh versions keeps the tables in step, whatever becomes of the
\* rows and of the older items of the operations requested.
LEMMA InsertInStep ==
  ASSUME NEW tbl, NEW rws, top \in [Op -> 0..MaxVersion],
         NEW n, NEW req \in Request, Fresh(req),
         \A o \in Op : BelowTop(tbl, top, o),
         \A o \in Op \ DOMAIN req : RowsInStep(tbl, rws, top, o)
  PROVE  TablesInStep(Insert(tbl, n, req), Pend(rws, req), Raise(req))
<1>. DEFINE more == Insert(tbl, n, req)
            pend == Pend(rws, req)
            high == Raise(req)
<1>. SUFFICES ASSUME NEW o \in Op
              PROVE  BelowTop(more, high, o) /\ RowsInStep(more, pend, high, o)
  BY DEF TablesInStep
<1>1. CASE o \in DOMAIN req
  <2>1. req[o] \in Version /\ req[o] > top[o] /\ high[o] = req[o] /\ top[o] \in Nat
    BY <1>1, RequestType, WorkQueueAssumption DEF Fresh, Raise
  <2>2. ASSUME NEW v \in Version, Live(more, <<o, v>>)
        PROVE  v <= high[o]
    <3>1. v = req[o] \/ v <= top[o]
      BY <2>2, InsertAt DEF BelowTop
    <3>. QED  BY <2>1, <3>1 DEF Version
  <2>3. Live(more, <<o, high[o]>>)
    BY <1>1, <2>1, InsertAt
  <2>4. \A r \in Targets[o] : pend[r] = [state |-> "pending", ver |-> high[o]]
    BY <1>1, <2>1, PendAt
  <2>. HIDE DEF more, pend, high
  <2>5. BelowTop(more, high, o)
    BY <2>2 DEF BelowTop
  <2>6. \A r \in Targets[o] : pend[r].state = "pending" /\ pend[r].ver = high[o]
    BY <2>4
  <2>7. RowsInStep(more, pend, high, o)
    BY <2>1, <2>3, <2>4, <2>6 DEF RowsInStep
  <2>. QED  BY <2>5, <2>7
<1>2. CASE o \notin DOMAIN req
  <2>1. high[o] = top[o] /\ \A r \in Targets[o] : pend[r] = rws[r]
    <3>1. high[o] = top[o]
      BY <1>2 DEF Raise
    <3>2. ASSUME NEW r \in Targets[o]
          PROVE  pend[r] = rws[r]
      <4>1. pend[r] = IF o \in DOMAIN req THEN [state |-> "pending", ver |-> req[o]] ELSE rws[r]
        BY PendAt
      <4>. QED  BY <1>2, <4>1
    <3>. QED  BY <3>1, <3>2
  <2>2. \A v \in Version : Live(more, <<o, v>>) <=> Live(tbl, <<o, v>>)
    BY <1>2, InsertAt
  <2>3. BelowTop(tbl, top, o) /\ RowsInStep(tbl, rws, top, o)
    BY <1>2
  <2>. HIDE DEF more, pend, high
  <2>. QED  BY <2>1, <2>2, <2>3 DEF BelowTop, RowsInStep
<1>. QED  BY <1>1, <1>2

\* Completing an item settles its rows if they still await it.
LEMMA StampInStep ==
  ASSUME TypeOK, TablesInStep(items, rows, top),
         NEW o \in Op, NEW v \in Version, NEW s \in Settled
  PROVE  TablesInStep(Delete(<<o, v>>), Stamp(o, v, s), top)
<1>. DEFINE less == Delete(<<o, v>>)
            done == Stamp(o, v, s)
<1>1. ASSUME NEW p \in Op, NEW u \in Version
      PROVE  Live(less, <<p, u>>) <=> Live(items, <<p, u>>) /\ <<p, u>> # <<o, v>>
  BY DEF Delete, Live, NoItem, TypeOK, Id
<1>2. ASSUME NEW p \in Op, NEW r \in Targets[p]
      PROVE  done[r] = IF p = o /\ rows[r].state # "absent" /\ rows[r].ver = v
                       THEN [rows[r] EXCEPT !.state = s] ELSE rows[r]
  BY OneTarget DEF Stamp
<1>3. s \notin {"absent", "pending"} /\ NoRow.state = "absent"
  BY DEF Settled, NoRow
<1>. SUFFICES ASSUME NEW p \in Op
              PROVE  BelowTop(less, top, p) /\ RowsInStep(less, done, top, p)
  BY DEF TablesInStep
<1>4. BelowTop(items, top, p) /\ RowsInStep(items, rows, top, p)
  BY DEF TablesInStep
<1>5. BelowTop(less, top, p)
  BY <1>1, <1>4 DEF BelowTop
<1>6. \A r, q \in Targets[p] : done[r] = done[q]
  <2>1. ASSUME NEW r \in Targets[p], NEW q \in Targets[p]
        PROVE  done[r] = done[q]
    <3>1. rows[r] = rows[q]
      BY <1>4 DEF RowsInStep
    <3>. HIDE DEF done
    <3>. QED  BY <1>2, <3>1
  <2>. QED  BY <2>1
<1>7. ASSUME NEW r \in Targets[p], done[r] # NoRow
      PROVE  /\ done[r].state # "absent"
             /\ done[r].ver = top[p]
             /\ top[p] \in Version
             /\ done[r].state = "pending" <=> Live(less, <<p, top[p]>>)
  <2>1. rows[r] \in RowRec
    BY OneTarget DEF TypeOK
  <2>2. CASE p = o /\ rows[r].state # "absent" /\ rows[r].ver = v
    <3>1. done[r] = [rows[r] EXCEPT !.state = s]
      BY <1>2, <2>2
    <3>2. done[r].state = s /\ done[r].ver = rows[r].ver
      BY <2>1, <3>1 DEF RowRec
    <3>3. rows[r].ver = top[p] /\ top[p] \in Version
      BY <1>3, <1>4, <2>2 DEF RowsInStep
    <3>4. ~ Live(less, <<p, top[p]>>)
      BY <1>1, <2>2, <3>3
    <3>. QED  BY <1>3, <3>2, <3>3, <3>4
  <2>3. CASE ~ (p = o /\ rows[r].state # "absent" /\ rows[r].ver = v)
    <3>1. done[r] = rows[r]
      BY <1>2, <2>3
    <3>2. /\ rows[r].state # "absent" /\ rows[r].ver = top[p] /\ top[p] \in Version
          /\ rows[r].state = "pending" <=> Live(items, <<p, top[p]>>)
      BY <1>4, <1>7, <3>1 DEF RowsInStep
    <3>3. <<p, top[p]>> # <<o, v>>
      BY <2>3, <3>2
    <3>. QED  BY <1>1, <3>1, <3>2, <3>3
  <2>. QED  BY <2>2, <2>3
<1>. HIDE DEF less, done
<1>. QED  BY <1>5, <1>6, <1>7 DEF RowsInStep

\* The rows of an operation are hit all together or missed all together: a
\* completion never throws DerivationCompletionError.
LEMMA NeverPartial ==
  ASSUME TablesInStep(items, rows, top), NEW o \in Op, NEW v
  PROVE  ~ Partial(o, v)
  BY DEF Partial, Hits, TablesInStep, RowsInStep

\* A caller that may insert its item asks for a version never enqueued before.
LEMMA ImmediateIsFresh ==
  ASSUME TypeOK, TablesInStep(items, rows, top), NEW w \in Worker, CheckedHand(w),
         pc[w] = "checked", BoundariesMatch(w), ~ Live(items, <<hand[w].op, hand[w].ver>>)
  PROVE  /\ [o \in {hand[w].op} |-> hand[w].ver] \in Request
         /\ Fresh([o \in {hand[w].op} |-> hand[w].ver])
<1>. DEFINE h == hand[w]
            req == [o \in {h.op} |-> h.ver]
<1>1. h \in Hand /\ h.op \in Op /\ h.ver \in Version
  BY DEF TypeOK, Hand
<1>2. req \in Request
  <2>1. req \in [{h.op} -> Version] /\ {h.op} \in SUBSET Op
    BY <1>1
  <2>. QED  BY <2>1 DEF Request
<1>3. PICK r \in Targets[h.op] : TRUE
  BY <1>1, WorkQueueAssumption
<1>4. rows[r] = seen[w][r] /\ rows[r].state # "absent"
  BY <1>3 DEF BoundariesMatch, CheckedHand
<1>5. rows[r].ver = top[h.op] /\ (rows[r].state = "pending" <=> Live(items, <<h.op, top[h.op]>>))
  BY <1>1, <1>3, <1>4 DEF TablesInStep, RowsInStep, NoRow
<1>6. h.ver = IF rows[r].state = "pending" THEN rows[r].ver ELSE rows[r].ver + 1
  BY <1>3, <1>4 DEF CheckedHand
<1>7. rows[r].state # "pending"
  BY <1>5, <1>6
<1>8. h.ver > top[h.op]
  BY <1>1, <1>5, <1>6, <1>7 DEF TypeOK, Version
<1>. QED  BY <1>2, <1>8 DEF Fresh

\* What is done to a live item that leaves it live does not matter to the rows.
LEMMA SameLiveInStep ==
  ASSUME NEW tbl, NEW other, NEW rws, NEW tp, TablesInStep(tbl, rws, tp),
         tp \in [Op -> 0..MaxVersion],
         \A i \in Id : Live(other, i) <=> Live(tbl, i)
  PROVE  TablesInStep(other, rws, tp)
<1>1. \A o \in Op, v \in Version : Live(other, <<o, v>>) <=> Live(tbl, <<o, v>>)
  BY DEF Id
<1>. QED  BY <1>1 DEF TablesInStep, BelowTop, RowsInStep

\* A cascade requests, of each operation, the version after its highest.
LEMMA CascadeRequest ==
  ASSUME TypeOK, TablesInStep(items, rows, top),
         NEW D \in SUBSET Op, NEW C \in SUBSET Op, Cascade(D, C),
         NEW next, next = [o \in C |-> 1 + rows[CHOOSE r \in Targets[o] : TRUE].ver]
  PROVE  next \in Request /\ DOMAIN next = C /\ Fresh(next)
<1>1. \A o \in C : next[o] \in Version
  BY DEF Cascade
<1>2. next \in [C -> Version]
  BY <1>1
<1>3. ASSUME NEW o \in C
      PROVE  next[o] > top[o]
  <2>. DEFINE r == CHOOSE q \in Targets[o] : TRUE
  <2>1. r \in Targets[o]
    BY WorkQueueAssumption
  <2>2. rows[r].state # "absent"
    BY <2>1 DEF Cascade
  <2>3. rows[r].ver = top[o] /\ top[o] \in Nat
    <3>1. rows[r] # NoRow
      BY <2>2 DEF NoRow
    <3>2. RowsInStep(items, rows, top, o)
      BY DEF TablesInStep
    <3>3. top[o] \in Nat
      BY WorkQueueAssumption DEF TypeOK
    <3>. HIDE DEF r
    <3>. QED  BY <2>1, <3>1, <3>2, <3>3 DEF RowsInStep
  <2>4. next[o] = 1 + rows[r].ver
    OBVIOUS
  <2>. HIDE DEF r
  <2>. QED  BY <2>3, <2>4
<1>. QED  BY <1>2, <1>3 DEF Request, Fresh

\* A cascade deletes or rebuilds rows and items together.
LEMMA CascadeInStep ==
  ASSUME TypeOK, TablesInStep(items, rows, top),
         NEW D \in SUBSET Op, NEW C \in SUBSET Op, Cascade(D, C)
  PROVE  TablesInStep(items', rows', top')
<1>. DEFINE next == [o \in C |-> 1 + rows[CHOOSE r \in Targets[o] : TRUE].ver]
            rest == Supersede(D \cup C)
            kept == Drop(D)
<1>1. next \in Request /\ DOMAIN next = C /\ Fresh(next)
  BY CascadeRequest
<1>2. ASSUME NEW o \in Op, NEW v \in Version
      PROVE  /\ Live(rest, <<o, v>>) => Live(items, <<o, v>>)
             /\ o \notin D \cup C => (Live(rest, <<o, v>>) <=> Live(items, <<o, v>>))
  BY DEF Supersede, Live, NoItem, Id
<1>3. \A o \in Op : BelowTop(rest, top, o)
  BY <1>2 DEF TablesInStep, BelowTop
<1>4. ASSUME NEW o \in Op \ C
      PROVE  RowsInStep(rest, kept, top, o)
  <2>1. CASE o \in D
    <3>1. \A r \in Targets[o] : kept[r] = NoRow
      BY <2>1, DropAt
    <3>. QED  BY <3>1 DEF RowsInStep
  <2>2. CASE o \notin D
    <3>1. ASSUME NEW r \in Targets[o]
          PROVE  kept[r] = rows[r]
      <4>1. kept[r] = IF o \in D THEN NoRow ELSE rows[r]
        BY DropAt
      <4>. QED  BY <2>2, <4>1
    <3>2. RowsInStep(items, rows, top, o)
      BY DEF TablesInStep
    <3>. HIDE DEF kept, rest
    <3>. QED  BY <1>2, <2>2, <3>1, <3>2 DEF RowsInStep
  <2>. QED  BY <2>1, <2>2
<1>5. PICK n \in 0..MaxRowid : items' = Insert(rest, n, next)
  BY DEF Cascade
<1>6. rows' = Pend(kept, next) /\ top' = Raise(next)
  BY DEF Cascade
<1>7. top \in [Op -> 0..MaxVersion]
  BY DEF TypeOK
<1>. HIDE DEF next, rest, kept
<1>. QED  BY <1>1, <1>3, <1>4, <1>5, <1>6, <1>7, InsertInStep

\* createOrClaimImmediateWorkItem inserts an item only with its rows.
LEMMA ClaimNowInStep ==
  ASSUME TypeOK, TablesInStep(items, rows, top),
         NEW w \in Worker, CheckedHand(w), ClaimNow(w)
  PROVE  TablesInStep(items', rows', top')
<1>. DEFINE i == <<hand[w].op, hand[w].ver>>
            req == [o \in {hand[w].op} |-> hand[w].ver]
<1>1. i \in Id /\ top \in [Op -> 0..MaxVersion] /\ hand[w].op \in Op /\ hand[w].ver \in Version
  BY HandId DEF TypeOK, Hand
<1>2. ASSUME BoundariesMatch(w), ~ Live(items, i), NEW n
      PROVE  TablesInStep(Insert(items, n, req), Pend(rows, req), Raise(req))
  <2>1. req \in Request /\ Fresh(req)
    BY <1>2, ImmediateIsFresh DEF ClaimNow
  <2>2. \A o \in Op : BelowTop(items, top, o) /\ RowsInStep(items, rows, top, o)
    BY DEF TablesInStep
  <2>. HIDE DEF req
  <2>. QED  BY <1>1, <2>1, <2>2, InsertInStep
<1>3. CASE /\ BoundariesMatch(w) /\ ~ Live(items, i)
           /\ rows' = Pend(rows, req) /\ top' = Raise(req)
           /\ \E n : items' = Insert(items, n, req)
  BY <1>2, <1>3
<1>4. CASE /\ BoundariesMatch(w) /\ ~ Live(items, i)
           /\ rows' = Pend(rows, req) /\ top' = Raise(req)
           /\ items' = [Insert(items, 0, req) EXCEPT ![i] = TakeClaim(@)]
  <2>. DEFINE one == Insert(items, 0, req)
  <2>1. TablesInStep(one, rows', top')
    BY <1>2, <1>4
  <2>2. req \in Request /\ Fresh(req)
    BY <1>4, ImmediateIsFresh DEF ClaimNow
  <2>3. Live(one, i)
    BY <1>1, <2>2, InsertAt
  <2>5. one[i] \in Item
    BY <1>1, <2>2, InsertType, WorkQueueAssumption DEF TypeOK
  <2>6. TakeClaim(one[i]).status = "claimed"
    BY <2>5 DEF TakeClaim, Item
  <2>7. \A j \in Id : Live(items', j) <=> Live(one, j)
    BY <1>4, <2>3, <2>6 DEF Live, Insert
  <2>8. top' \in [Op -> 0..MaxVersion]
    BY <1>1, <1>4, <2>2, RaiseType
  <2>. HIDE DEF one
  <2>. QED  BY <2>1, <2>7, <2>8, SameLiveInStep
<1>5. CASE /\ UNCHANGED <<rows, top>> /\ Live(items, i)
           /\ items' = [items EXCEPT ![i] = TakeClaim(@)]
  <2>1. TakeClaim(items[i]).status = "claimed"
    BY <1>1 DEF TypeOK, TakeClaim, Item
  <2>2. \A j \in Id : Live(items', j) <=> Live(items, j)
    BY <1>5, <2>1 DEF Live, TypeOK
  <2>. QED  BY <1>1, <1>5, <2>2, SameLiveInStep
<1>6. CASE UNCHANGED <<items, rows, top>>
  BY <1>6
<1>. QED  BY <1>3, <1>4, <1>5, <1>6 DEF ClaimNow, IsHead

\* Every operation of the queue keeps the tables in step.
LEMMA TablesStep ==
  ASSUME TypeOK, TablesInStep(items, rows, top), \A w \in Worker : CheckedHand(w), [Next]_vars
  PROVE  TablesInStep(items', rows', top')
<1>0. top \in [Op -> 0..MaxVersion] /\ \A w \in Worker : hand[w] \in Hand
  BY DEF TypeOK
<1>1. ASSUME NEW req \in Request, Enqueue(req)
      PROVE  TablesInStep(items', rows', top')
  BY <1>0, <1>1, InsertInStep DEF Enqueue, TablesInStep
<1>2. ASSUME NEW D \in SUBSET Op, NEW C \in SUBSET Op, Cascade(D, C)
      PROVE  TablesInStep(items', rows', top')
  BY <1>2, CascadeInStep
<1>3. ASSUME NEW w \in Drainer, NEW i \in Id, Claim(w, i)
      PROVE  TablesInStep(items', rows', top')
  <2>1. TakeClaim(items[i]).status = "claimed"
    BY DEF TypeOK, TakeClaim, Item
  <2>2. \A j \in Id : Live(items', j) <=> Live(items, j)
    BY <1>3, <2>1 DEF Claim, IsHead, Live, TypeOK
  <2>. QED  BY <1>0, <1>3, <2>2, SameLiveInStep DEF Claim
<1>4. ASSUME NEW w \in Worker, Requeue(w)
      PROVE  TablesInStep(items', rows', top')
  <2>. DEFINE i == <<hand[w].op, hand[w].ver>>
  <2>1. i \in Id
    BY <1>0, HandId
  <2>2. Requeued(items[i]).status = "queued"
    BY <2>1 DEF TypeOK, Requeued, Item
  <2>3. \A j \in Id : Live(items', j) <=> Live(items, j)
    BY <1>4, <2>1, <2>2 DEF Requeue, Owned, Live, TypeOK
  <2>. QED  BY <1>0, <1>4, <2>3, SameLiveInStep DEF Requeue
<1>5. ASSUME NEW w \in Worker, NEW s \in Settled, Terminal(w, s)
      PROVE  TablesInStep(items', rows', top')
  <2>1. hand[w].op \in Op /\ hand[w].ver \in Version
    BY <1>0 DEF Hand
  <2>. QED  BY <1>5, <2>1, StampInStep DEF Terminal
<1>6. ASSUME NEW w \in Worker, NEW req \in Request, Succeed(w, req)
      PROVE  TablesInStep(items', rows', top')
  <2>. DEFINE h == hand[w]
              less == Delete(<<h.op, h.ver>>)
              done == Stamp(h.op, h.ver, "ready")
  <2>1. h.op \in Op /\ h.ver \in Version
    BY <1>0 DEF Hand
  <2>2. TablesInStep(less, done, top)
    BY <2>1, StampInStep DEF Settled
  <2>3. CASE Fresh(req) /\ rows' = Pend(done, req) /\ top' = Raise(req) /\ \E n : items' = Insert(less, n, req)
    <3>1. \A o \in Op : BelowTop(less, top, o) /\ RowsInStep(less, done, top, o)
      BY <2>2 DEF TablesInStep
    <3>. HIDE DEF less, done
    <3>. QED  BY <1>0, <2>3, <3>1, InsertInStep
  <2>4. CASE Hits(h.op, h.ver) = {} /\ items' = less /\ UNCHANGED <<rows, top>>
    <3>1. \A r \in Row : done[r] = rows[r]
      BY <2>4 DEF Stamp, Hits
    <3>2. done = rows
      BY <3>1 DEF Stamp, TypeOK
    <3>. HIDE DEF less, done
    <3>. QED  BY <2>2, <2>4, <3>2
  <2>5. CASE UNCHANGED <<items, rows, top>>
    BY <2>5
  <2>. QED  BY <1>6, <2>3, <2>4, <2>5 DEF Succeed
<1>7. ASSUME NEW w \in Caller, ClaimNow(w)
      PROVE  TablesInStep(items', rows', top')
  BY <1>7, ClaimNowInStep DEF Worker
<1>8. ASSUME NEW i \in Id, Lapse(i)
      PROVE  TablesInStep(items', rows', top')
  <2>1. items'[i].status = items[i].status
    BY <1>8 DEF Lapse, TypeOK, Item
  <2>2. \A j \in Id : Live(items', j) <=> Live(items, j)
    BY <1>8, <2>1 DEF Lapse, Live, TypeOK
  <2>3. UNCHANGED <<rows, top>>
    BY <1>8 DEF Lapse
  <2>. QED  BY <1>0, <2>2, <2>3, SameLiveInStep
<1>9. ASSUME NEW w \in Worker, Exit(w) \/ Crash(w)
      PROVE  TablesInStep(items', rows', top')
  <2>. DEFINE i == <<hand[w].op, hand[w].ver>>
  <2>1. i \in Id
    BY <1>0, HandId
  <2>2. Released(items[i]).status = "queued"
    BY <2>1 DEF TypeOK, Released, Item
  <2>3. \A j \in Id : Live(items', j) <=> Live(items, j)
    BY <1>9, <2>1, <2>2 DEF Exit, Crash, Owned, Live, TypeOK
  <2>. QED  BY <1>0, <1>9, <2>3, SameLiveInStep DEF Exit, Crash, Gone
<1>10. ASSUME UNCHANGED <<items, rows, top>>
       PROVE  TablesInStep(items', rows', top')
  BY <1>10
<1>. QED
  <2>1. ASSUME NEW w \in Worker, Finish(w) \/ FailRepeated(w)
        PROVE  TablesInStep(items', rows', top')
    BY <2>1, <1>5, <1>6 DEF Finish, Fail, FailRepeated, Settled
  <2>2. ASSUME NEW w \in Drainer, NEW i \in Id, FindExpired(w, i)
        PROVE  TablesInStep(items', rows', top')
    BY <2>2, <1>10 DEF FindExpired
  <2>3. ASSUME NEW w \in Caller, NEW o \in Op, ReadRows(w, o)
        PROVE  TablesInStep(items', rows', top')
    BY <2>3, <1>10 DEF ReadRows
  <2>4. CASE UNCHANGED vars
    BY <2>4, <1>10 DEF vars
  <2>. QED  BY <1>1, <1>2, <1>3, <1>4, <1>7, <1>8, <1>9, <2>1, <2>2, <2>3, <2>4
            DEF Next, DrainStep

-----------------------------------------------------------------------------
(* One item through one step.                                              *)

\* What may become of the entry of item i.
Moved(i) ==
  \/ items'[i] = items[i]
  \/ items'[i] = NoItem
  \/ /\ i[2] > top[i[1]]
     /\ \E k \in Nat : items'[i] = NewItem(k) \/ items'[i] = TakeClaim(NewItem(k))
  \/ Live(items, i) /\ items'[i] = TakeClaim(items[i])
  \/ /\ items[i].status = "claimed" /\ items[i].lapsed /\ ~ items[i].claimExpired
     /\ items'[i] = Requeued(items[i])
  \/ items[i].status = "claimed" /\ items'[i] = Released(items[i])
  \/ /\ items[i].status = "claimed" /\ ~ items[i].lapsed
     /\ items'[i] = [items[i] EXCEPT !.lapsed = TRUE, !.lapses = @ + 1]

\* Items put in by a request move as new ones, the others not at all.
LEMMA InsertMoved ==
  ASSUME NEW tbl, NEW n \in 0..MaxRowid, NEW req \in Request, Fresh(req),
         top \in [Op -> 0..MaxVersion],
         \A i \in Id : tbl[i] = items[i] \/ tbl[i] = NoItem,
         items' = Insert(tbl, n, req), top' = Raise(req)
  PROVE  (\A i \in Id : Moved(i)) /\ (\A o \in Op : top[o] <= top'[o])
<1>1. ASSUME NEW i \in Id
      PROVE  Moved(i)
  <2>1. CASE i[1] \in DOMAIN req /\ req[i[1]] = i[2]
    <3>1. items'[i] = NewItem(n + Rank[i[1]])
      BY <2>1 DEF Insert
    <3>2. n + Rank[i[1]] \in Nat /\ i[2] > top[i[1]]
      BY <2>1, WorkQueueAssumption DEF Id, Fresh
    <3>. QED  BY <3>1, <3>2 DEF Moved
  <2>2. CASE ~ (i[1] \in DOMAIN req /\ req[i[1]] = i[2])
    <3>1. items'[i] = tbl[i]
      BY <2>2 DEF Insert
    <3>. QED  BY <3>1 DEF Moved
  <2>. QED  BY <2>1, <2>2
<1>2. ASSUME NEW o \in Op
      PROVE  top[o] <= top'[o]
  <2>1. top[o] \in Nat /\ (o \in DOMAIN req => req[o] \in Nat /\ req[o] > top[o])
    BY RequestType, WorkQueueAssumption DEF Fresh, Version
  <2>2. top'[o] = IF o \in DOMAIN req THEN req[o] ELSE top[o]
    BY DEF Raise
  <2>. QED  BY <2>1, <2>2
<1>. QED  BY <1>1, <1>2

\* A change of one item moves that item only.
LEMMA ChangeMoved ==
  ASSUME TypeOK, UNCHANGED top, NEW i \in Id, NEW itm, items' = [items EXCEPT ![i] = itm],
         items'[i] = itm => Moved(i)
  PROVE  (\A j \in Id : Moved(j)) /\ (\A o \in Op : top[o] <= top'[o])
<1>1. \A j \in Id : j # i => items'[j] = items[j]
  BY DEF TypeOK
<1>2. items'[i] = itm
  BY DEF TypeOK
<1>3. \A o \in Op : top[o] <= top'[o]
  BY WorkQueueAssumption DEF TypeOK
<1>4. \A j \in Id : Moved(j)
  BY <1>1, <1>2 DEF Moved
<1>. QED  BY <1>3, <1>4

\* Every step moves every item in one of these ways, and versions only rise.
LEMMA MovedStep ==
  ASSUME TypeOK, TablesInStep(items, rows, top), \A w \in Worker : CheckedHand(w), [Next]_vars
  PROVE  (\A i \in Id : Moved(i)) /\ (\A o \in Op : top[o] <= top'[o])
<1>. DEFINE Goal == (\A i \in Id : Moved(i)) /\ (\A o \in Op : top[o] <= top'[o])
<1>0. /\ items \in [Id -> Item] /\ top \in [Op -> 0..MaxVersion]
      /\ \A w \in Worker : hand[w] \in Hand /\ <<hand[w].op, hand[w].ver>> \in Id
  BY HandId DEF TypeOK
<1>1. ASSUME UNCHANGED <<items, top>>
      PROVE  Goal
  <2>1. \A o \in Op : top[o] <= top'[o]
    BY <1>0, <1>1, WorkQueueAssumption
  <2>. QED  BY <1>1, <2>1 DEF Moved
<1>2. ASSUME NEW req \in Request, Enqueue(req)
      PROVE  Goal
  BY <1>0, <1>2, InsertMoved DEF Enqueue
<1>3. ASSUME NEW D \in SUBSET Op, NEW C \in SUBSET Op, Cascade(D, C)
      PROVE  Goal
  <2>. DEFINE next == [o \in C |-> 1 + rows[CHOOSE r \in Targets[o] : TRUE].ver]
              rest == Supersede(D \cup C)
  <2>1. next \in Request /\ Fresh(next)
    BY <1>3, CascadeRequest
  <2>2. \A i \in Id : rest[i] = items[i] \/ rest[i] = NoItem
    BY DEF Supersede
  <2>3. PICK n \in 0..MaxRowid : items' = Insert(rest, n, next)
    BY <1>3 DEF Cascade
  <2>4. top' = Raise(next)
    BY <1>3 DEF Cascade
  <2>. HIDE DEF next, rest
  <2>. QED  BY <1>0, <2>1, <2>2, <2>3, <2>4, InsertMoved
<1>4. ASSUME NEW w \in Drainer, NEW i \in Id, Claim(w, i)
      PROVE  Goal
  BY <1>4, ChangeMoved DEF Claim, IsHead, Moved
<1>5. ASSUME NEW w \in Worker, Requeue(w)
      PROVE  Goal
  <2>. DEFINE i == <<hand[w].op, hand[w].ver>>
  <2>1. CASE UNCHANGED items
    BY <1>1, <1>5, <2>1 DEF Requeue
  <2>2. CASE /\ Owned(hand[w]) /\ items[i].lapsed /\ ~ items[i].claimExpired
             /\ items' = [items EXCEPT ![i] = Requeued(items[i])]
    <3>1. UNCHANGED top
      BY <1>5 DEF Requeue
    <3>. QED  BY <1>0, <2>2, <3>1, ChangeMoved DEF Owned, Moved
  <2>. QED  BY <1>5, <2>1, <2>2 DEF Requeue
<1>6. ASSUME NEW w \in Worker, NEW s, Terminal(w, s)
      PROVE  Goal
  BY <1>0, <1>1, <1>6, ChangeMoved DEF Terminal, Delete, Moved
<1>7. ASSUME NEW w \in Worker, NEW req \in Request, Succeed(w, req)
      PROVE  Goal
  <2>. DEFINE i == <<hand[w].op, hand[w].ver>>
              less == Delete(i)
  <2>1. CASE /\ Fresh(req) /\ top' = Raise(req)
             /\ \E n \in 0..MaxRowid : items' = Insert(less, n, req)
    <3>1. \A j \in Id : less[j] = items[j] \/ less[j] = NoItem
      BY <1>0 DEF Delete
    <3>. HIDE DEF less
    <3>. QED  BY <1>0, <2>1, <3>1, InsertMoved
  <2>2. CASE items' = less /\ UNCHANGED top
    BY <1>0, <2>2, ChangeMoved DEF Delete, Moved
  <2>3. CASE UNCHANGED <<items, top>>
    BY <1>1, <2>3
  <2>. QED  BY <1>7, <2>1, <2>2, <2>3 DEF Succeed
<1>8. ASSUME NEW w \in Caller, ClaimNow(w)
      PROVE  Goal
  <2>. DEFINE i == <<hand[w].op, hand[w].ver>>
              req == [o \in {hand[w].op} |-> hand[w].ver]
  <2>1. w \in Worker /\ i \in Id /\ hand[w].op \in Op /\ hand[w].ver \in Version
    BY <1>0 DEF Worker, Hand
  <2>2. CASE /\ BoundariesMatch(w) /\ ~ Live(items, i) /\ top' = Raise(req)
             /\ \E n \in 0..MaxRowid : items' = Insert(items, n, req)
    <3>1. req \in Request /\ Fresh(req)
      BY <1>8, <2>1, <2>2, ImmediateIsFresh DEF ClaimNow
    <3>. HIDE DEF req
    <3>. QED  BY <1>0, <2>2, <3>1, InsertMoved
  <2>3. CASE /\ BoundariesMatch(w) /\ ~ Live(items, i) /\ top' = Raise(req)
             /\ items' = [Insert(items, 0, req) EXCEPT ![i] = TakeClaim(@)]
    <3>1. req \in Request /\ Fresh(req)
      BY <1>8, <2>1, <2>3, ImmediateIsFresh DEF ClaimNow
    <3>2. Insert(items, 0, req)[i] = NewItem(0 + Rank[i[1]]) /\ 0 + Rank[i[1]] \in Nat /\ i[2] > top[i[1]]
      BY <2>1, <3>1, WorkQueueAssumption DEF Insert, Fresh
    <3>3. items'[i] = TakeClaim(NewItem(0 + Rank[i[1]]))
      BY <2>1, <2>3, <3>2 DEF Insert
    <3>4. Moved(i)
      BY <3>2, <3>3 DEF Moved
    <3>5. \A j \in Id : j # i => items'[j] = items[j]
      <4>1. ASSUME NEW j \in Id, j # i
            PROVE  items'[j] = Insert(items, 0, req)[j]
        BY <2>1, <2>3, <4>1 DEF Insert
      <4>2. ASSUME NEW j \in Id, j # i
            PROVE  Insert(items, 0, req)[j] = items[j]
        BY <4>2 DEF Insert, Id
      <4>. QED  BY <4>1, <4>2
    <3>6. \A o \in Op : top[o] <= top'[o]
      <4>1. ASSUME NEW o \in Op
            PROVE  top[o] <= top'[o]
        <5>1. top[o] \in Nat /\ top'[o] = IF o \in DOMAIN req THEN req[o] ELSE top[o]
          BY <1>0, <2>3, WorkQueueAssumption DEF Raise
        <5>2. o \in DOMAIN req => req[o] \in Nat /\ req[o] > top[o]
          BY <3>1, RequestType DEF Fresh, Version
        <5>. HIDE DEF req
        <5>. QED  BY <5>1, <5>2
      <4>. QED  BY <4>1
    <3>. QED  BY <3>4, <3>5, <3>6 DEF Moved
  <2>4. CASE UNCHANGED top /\ IsHead(i) /\ items' = [items EXCEPT ![i] = TakeClaim(@)]
    BY <2>1, <2>4, ChangeMoved DEF IsHead, Moved
  <2>5. CASE UNCHANGED <<items, top>>
    BY <1>1, <2>5
  <2>. QED  BY <1>8, <2>2, <2>3, <2>4, <2>5 DEF ClaimNow
<1>9. ASSUME NEW i \in Id, Lapse(i)
      PROVE  Goal
  <2>1. /\ UNCHANGED top /\ items[i].status = "claimed" /\ ~ items[i].lapsed
        /\ items' = [items EXCEPT ![i] = [items[i] EXCEPT !.lapsed = TRUE, !.lapses = @ + 1]]
    BY <1>9 DEF Lapse
  <2>. QED  BY <2>1, ChangeMoved DEF Moved
<1>10. ASSUME NEW w \in Worker, Exit(w)
       PROVE  Goal
  <2>. DEFINE i == <<hand[w].op, hand[w].ver>>
  <2>1. CASE Owned(hand[w]) /\ items' = [items EXCEPT ![i] = Released(@)]
    BY <1>0, <1>10, <2>1, ChangeMoved DEF Exit, Gone, Owned, Moved
  <2>2. CASE UNCHANGED items
    BY <1>1, <1>10, <2>2 DEF Exit, Gone
  <2>. QED  BY <1>10, <2>1, <2>2 DEF Exit
<1>. QED
  <2>1. ASSUME NEW w \in Worker, Finish(w) \/ FailRepeated(w)
        PROVE  Goal
    BY <2>1, <1>6, <1>7 DEF Finish, Fail, FailRepeated
  <2>2. ASSUME NEW w \in Drainer, NEW i \in Id, FindExpired(w, i)
        PROVE  Goal
    BY <2>2, <1>1 DEF FindExpired
  <2>3. ASSUME NEW w \in Caller, NEW o \in Op, ReadRows(w, o)
        PROVE  Goal
    BY <2>3, <1>1 DEF ReadRows
  <2>4. ASSUME NEW w \in Worker, Crash(w)
        PROVE  Goal
    BY <2>4, <1>1 DEF Crash, Gone
  <2>5. CASE UNCHANGED vars
    BY <2>5, <1>1 DEF vars
  <2>6. CASE \E w \in Worker : \/ Requeue(w) \/ FailRepeated(w) \/ Finish(w) \/ Exit(w) \/ Crash(w)
    BY <2>6, <1>5, <1>10, <2>1, <2>4
  <2>. QED  BY <1>2, <1>3, <1>4, <1>8, <1>9, <2>2, <2>3, <2>5, <2>6 DEF Next, DrainStep

\* The lapse counts stay right.
LEMMA LapsesStep ==
  ASSUME TypeOK, NEW i \in Id, LapsesCounted(items[i]), Moved(i)
  PROVE  LapsesCounted(items'[i])
<1>. DEFINE old == items[i]
<1>1. old \in Item
  BY DEF TypeOK
<1>2. CASE items'[i] = old
  BY <1>2
<1>3. CASE items'[i] = NoItem
  BY <1>3 DEF LapsesCounted, NoItem
<1>4. CASE \E k \in Nat : items'[i] = NewItem(k) \/ items'[i] = TakeClaim(NewItem(k))
  BY <1>4 DEF LapsesCounted, NewItem, NoItem, TakeClaim
<1>5. CASE items'[i] = TakeClaim(old)
  <2>1. ~ items'[i].lapsed /\ items'[i].claimExpired = old.claimExpired /\ items'[i].lapses = old.lapses
    BY <1>1, <1>5 DEF TakeClaim, Item
  <2>. QED  BY <2>1 DEF LapsesCounted
<1>6. CASE old.lapsed /\ items'[i] = Requeued(old)
  <2>1. ~ items'[i].lapsed /\ items'[i].lapses = old.lapses
    BY <1>1, <1>6 DEF Requeued, Item
  <2>. QED  BY <1>6, <2>1 DEF LapsesCounted
<1>7. CASE items'[i] = Released(old)
  <2>1. ~ items'[i].lapsed /\ ~ items'[i].claimExpired
    BY <1>1, <1>7 DEF Released, Item
  <2>. QED  BY <2>1 DEF LapsesCounted
<1>8. CASE items'[i] = [old EXCEPT !.lapsed = TRUE, !.lapses = @ + 1]
  <2>1. items'[i].claimExpired = old.claimExpired /\ items'[i].lapses = old.lapses + 1 /\ old.lapses \in Nat
    BY <1>1, <1>8 DEF Item
  <2>. QED  BY <2>1 DEF LapsesCounted
<1>. QED  BY <1>2, <1>3, <1>4, <1>5, <1>6, <1>7, <1>8 DEF Moved

\* What an attempt in memory may count on: an item enqueued before the step and
\* still live has not lost attempts, and if the attempt is still its current one
\* then it was so before, and the item has kept its marks.
LEMMA Carried ==
  ASSUME TypeOK, NEW i \in Id, Moved(i), i[2] <= top[i[1]], Live(items', i)
  PROVE  /\ Live(items, i)
         /\ items[i].attempt <= items'[i].attempt
         /\ items'[i].status = "claimed" /\ items'[i].attempt = items[i].attempt
              => /\ items[i].status = "claimed"
                 /\ items[i].lapsed => items'[i].lapsed
                 /\ items[i].claimExpired => items'[i].claimExpired
<1>. DEFINE old == items[i]
<1>1. /\ old \in Item /\ old.attempt \in Nat
      /\ i[2] \in Nat /\ top[i[1]] \in Nat
  BY WorkQueueAssumption DEF TypeOK, Item, Id, Version
<1>2. CASE items'[i] = old
  BY <1>1, <1>2 DEF Live
<1>3. CASE items'[i] = NoItem
  BY <1>3 DEF Live, NoItem
<1>4. CASE i[2] > top[i[1]]
  BY <1>1, <1>4
<1>5. CASE Live(items, i) /\ items'[i] = TakeClaim(old)
  <2>1. items'[i].attempt = old.attempt + 1
    BY <1>1, <1>5 DEF TakeClaim, Item
  <2>. QED  BY <1>1, <1>5, <2>1
<1>6. CASE old.status = "claimed" /\ items'[i] = Requeued(old)
  <2>1. items'[i].attempt = old.attempt /\ items'[i].status = "queued"
    BY <1>1, <1>6 DEF Requeued, Item
  <2>. QED  BY <1>1, <1>6, <2>1 DEF Live
<1>7. CASE old.status = "claimed" /\ items'[i] = Released(old)
  <2>1. items'[i].attempt = old.attempt /\ items'[i].status = "queued"
    BY <1>1, <1>7 DEF Released, Item
  <2>. QED  BY <1>1, <1>7, <2>1 DEF Live
<1>8. CASE old.status = "claimed" /\ items'[i] = [old EXCEPT !.lapsed = TRUE, !.lapses = @ + 1]
  <2>1. /\ items'[i].attempt = old.attempt /\ items'[i].claimExpired = old.claimExpired
        /\ items'[i].lapsed
    BY <1>1, <1>8 DEF Item
  <2>. QED  BY <1>1, <1>8, <2>1 DEF Live
<1>. QED  BY <1>2, <1>3, <1>4, <1>5, <1>6, <1>7, <1>8 DEF Moved

-----------------------------------------------------------------------------
(* One worker's memory through one step.                                   *)

Same(w) == pc'[w] = pc[w] /\ hand'[w] = hand[w] /\ seen'[w] = seen[w]

\* No worker holds an attempt at item i as late as attempt a.
Unheld(i, a) ==
  \A x \in Worker : Holding(x) /\ hand[x].op = i[1] /\ hand[x].ver = i[2] => hand[x].attempt < a

\* What may become of the memory of worker w.
Turned(w) ==
  \/ Same(w)
  \/ pc'[w] = "idle"
  \/ pc'[w] = "checked" /\ CheckedHand(w)'
  \/ /\ pc'[w] = "expired" /\ UNCHANGED <<items, top>>
     /\ \E i \in Id : Live(items, i) /\ hand'[w] = HandOf(i, items[i].attempt)
  \/ /\ pc[w] = "expired" /\ pc'[w] = "repeated" /\ hand'[w] = hand[w] /\ UNCHANGED <<items, top>>
     /\ items[<<hand[w].op, hand[w].ver>>].lapsed
     /\ items[<<hand[w].op, hand[w].ver>>].claimExpired
  \/ /\ pc'[w] = "running"
     /\ \E i \in Id : /\ Live(items', i)
                      /\ hand'[w] = HandOf(i, items'[i].attempt)
                      /\ Unheld(i, items'[i].attempt)

\* The version an explicit derive asks for, when its rows stand together.
LEMMA NextVersionIs ==
  ASSUME TypeOK, NEW o \in Op, NEW r \in Targets[o], RowsInStep(items, rows, top, o)
  PROVE  NextVersion(o) = IF rows[r].state = "pending" THEN rows[r].ver ELSE rows[r].ver + 1
<1>. DEFINE vers == {rows[q].ver : q \in Targets[o]}
            max == CHOOSE v \in vers : \A u \in vers : u <= v
            pending == \E q \in Targets[o] : rows[q].state = "pending"
<1>1. \A q \in Targets[o] : rows[q] = rows[r]
  BY DEF RowsInStep
<1>2. vers = {rows[r].ver} /\ rows[r].ver \in Nat
  BY <1>1, OneTarget DEF TypeOK, RowRec
<1>3. max = rows[r].ver
  <2>1. \A v \in vers : v = rows[r].ver
    BY <1>2
  <2>2. rows[r].ver \in vers /\ \A u \in vers : u <= rows[r].ver
    BY <1>2
  <2>3. max \in vers
    BY <2>2
  <2>. QED  BY <2>1, <2>3
<1>4. pending <=> rows[r].state = "pending"
  BY <1>1
<1>5. NextVersion(o) = IF pending THEN max ELSE max + 1
  BY DEF NextVersion
<1>. HIDE DEF max, pending
<1>. QED  BY <1>3, <1>4, <1>5

\* A claim is an attempt nobody holds.
LEMMA ClaimUnheld ==
  ASSUME TypeOK, \A x \in Worker : HeldHand(x), NEW i \in Id, Live(items, i)
  PROVE  /\ TakeClaim(items[i]).attempt = items[i].attempt + 1
         /\ TakeClaim(items[i]).status = "claimed"
         /\ Unheld(i, items[i].attempt + 1)
<1>1. items[i] \in Item /\ items[i].attempt \in Nat
  BY DEF TypeOK, Item
<1>2. TakeClaim(items[i]).attempt = items[i].attempt + 1 /\ TakeClaim(items[i]).status = "claimed"
  BY <1>1 DEF TakeClaim, Item
<1>3. ASSUME NEW x \in Worker, Holding(x), hand[x].op = i[1], hand[x].ver = i[2]
      PROVE  hand[x].attempt < items[i].attempt + 1
  <2>1. i = <<hand[x].op, hand[x].ver>>
    BY <1>3 DEF Id
  <2>2. hand[x].attempt <= items[i].attempt /\ hand[x].attempt \in Nat
    BY <1>3, <2>1 DEF HeldHand, TypeOK, Hand
  <2>. QED  BY <1>1, <2>2
<1>. QED  BY <1>2, <1>3 DEF Unheld

\* An item of a version never enqueued before is held by nobody.
LEMMA FreshUnheld ==
  ASSUME TypeOK, \A x \in Worker : HeldHand(x), NEW i \in Id, i[2] > top[i[1]], NEW a
  PROVE  Unheld(i, a)
<1>. SUFFICES ASSUME NEW x \in Worker, Holding(x), hand[x].op = i[1], hand[x].ver = i[2]
              PROVE  FALSE
  BY DEF Unheld
<1>1. i[2] <= top[i[1]]
  BY DEF HeldHand
<1>. QED  BY <1>1, WorkQueueAssumption DEF TypeOK, Id, Version

\* Become turns one worker only.
LEMMA BecomeTurned ==
  ASSUME TypeOK, NEW w \in Worker, NEW p, NEW h, Become(w, p, h)
  PROVE  /\ pc'[w] = p /\ hand'[w] = h
         /\ \A x \in Worker \ {w} : pc'[x] = pc[x] /\ hand'[x] = hand[x]
  BY DEF Become, TypeOK

\* So does Idle.
LEMMA IdleTurned ==
  ASSUME TypeOK, NEW w \in Worker, Idle(w)
  PROVE  /\ pc'[w] = "idle"
         /\ \A x \in Worker \ {w} : pc'[x] = pc[x] /\ hand'[x] = hand[x]
  BY BecomeTurned DEF Idle

\* An immediate claim turns its caller to idle, to running or to the expired item.
LEMMA ClaimNowTurned ==
  ASSUME TypeOK, TablesInStep(items, rows, top), \A x \in Worker : CheckedHand(x) /\ HeldHand(x),
         NEW w \in Worker, ClaimNow(w)
  PROVE  Turned(w) /\ \A x \in Worker \ {w} : Same(x)
<1>. DEFINE i == <<hand[w].op, hand[w].ver>>
            req == [o \in {hand[w].op} |-> hand[w].ver]
<1>0. i \in Id /\ hand[w].op \in Op /\ hand[w].ver \in Version
  BY HandId DEF TypeOK, Hand
<1>1. \A x \in Worker \ {w} : seen'[x] = seen[x]
  BY DEF ClaimNow, TypeOK
<1>2. CASE Idle(w)
  BY <1>1, <1>2, IdleTurned DEF Turned, Same
<1>3. CASE /\ BoundariesMatch(w) /\ ~ Live(items, i)
           /\ items' = [Insert(items, 0, req) EXCEPT ![i] = TakeClaim(@)]
           /\ Become(w, "running", HandOf(i, 1))
  <2>1. req \in Request /\ Fresh(req)
    BY <1>3, ImmediateIsFresh DEF ClaimNow
  <2>2. i[2] > top[i[1]]
    BY <2>1 DEF Fresh
  <2>3. Insert(items, 0, req)[i] = NewItem(0 + Rank[i[1]])
    BY <1>0, <2>1 DEF Insert
  <2>4. items'[i] = TakeClaim(NewItem(0 + Rank[i[1]]))
    BY <1>0, <1>3, <2>3 DEF Insert
  <2>5. items'[i].attempt = 1 /\ items'[i].status = "claimed"
    BY <2>4 DEF TakeClaim, NewItem, NoItem
  <2>6. Unheld(i, 1)
    BY <1>0, <2>2, FreshUnheld
  <2>7. /\ pc'[w] = "running" /\ hand'[w] = HandOf(i, 1)
        /\ \A x \in Worker \ {w} : pc'[x] = pc[x] /\ hand'[x] = hand[x]
    BY <1>3, BecomeTurned
  <2>8. Live(items', i)
    BY <2>5 DEF Live
  <2>9. \A x \in Worker \ {w} : Same(x)
    BY <1>1, <2>7 DEF Same
  <2>. QED  BY <1>0, <2>5, <2>6, <2>7, <2>8, <2>9 DEF Turned
<1>4. CASE /\ IsHead(i) /\ items' = [items EXCEPT ![i] = TakeClaim(@)]
           /\ Become(w, "running", HandOf(i, TakeClaim(items[i]).attempt))
  <2>1. /\ TakeClaim(items[i]).status = "claimed"
        /\ Unheld(i, TakeClaim(items[i]).attempt)
    BY <1>0, <1>4, ClaimUnheld DEF IsHead
  <2>2. items'[i] = TakeClaim(items[i])
    BY <1>0, <1>4 DEF TypeOK
  <2>3. /\ pc'[w] = "running" /\ hand'[w] = HandOf(i, TakeClaim(items[i]).attempt)
        /\ \A x \in Worker \ {w} : pc'[x] = pc[x] /\ hand'[x] = hand[x]
    BY <1>4, BecomeTurned
  <2>4. Live(items', i)
    BY <2>1, <2>2 DEF Live
  <2>5. \A x \in Worker \ {w} : Same(x)
    BY <1>1, <2>3 DEF Same
  <2>. QED  BY <1>0, <2>1, <2>2, <2>3, <2>4, <2>5 DEF Turned
<1>5. CASE /\ IsHead(i) /\ UNCHANGED <<items, top>>
           /\ Become(w, "expired", HandOf(i, items[i].attempt))
  BY <1>0, <1>1, <1>5, BecomeTurned DEF Turned, Same, IsHead
<1>. QED  BY <1>2, <1>3, <1>4, <1>5 DEF ClaimNow

\* Every step turns the memory of at most one worker, in one of these ways.
LEMMA TurnedStep ==
  ASSUME TypeOK, TablesInStep(items, rows, top), \A x \in Worker : CheckedHand(x) /\ HeldHand(x),
         [Next]_vars
  PROVE  \/ \E w \in Worker : Turned(w) /\ \A x \in Worker \ {w} : Same(x)
         \/ \A x \in Worker : Same(x)
<1>. DEFINE Turn(w) == Turned(w) /\ \A x \in Worker \ {w} : Same(x)
<1>1. ASSUME UNCHANGED <<pc, hand, seen>>
      PROVE  \A x \in Worker : Same(x)
  BY <1>1 DEF Same
<1>2. ASSUME NEW w \in Worker, Idle(w), \A x \in Worker \ {w} : seen'[x] = seen[x]
      PROVE  Turn(w)
  BY <1>2, IdleTurned DEF Turned, Same
<1>3. ASSUME NEW w \in Drainer, NEW i \in Id, Claim(w, i)
      PROVE  Turn(w)
  <2>1. Live(items, i) /\ w \in Worker
    BY <1>3 DEF Claim, IsHead, Worker
  <2>2. /\ TakeClaim(items[i]).status = "claimed"
        /\ Unheld(i, TakeClaim(items[i]).attempt)
    BY <2>1, ClaimUnheld
  <2>3. items'[i] = TakeClaim(items[i]) /\ UNCHANGED seen
    BY <1>3 DEF Claim, TypeOK
  <2>4. Become(w, "running", HandOf(i, TakeClaim(items[i]).attempt))
    BY <1>3 DEF Claim
  <2>. QED  BY <2>1, <2>2, <2>3, <2>4, BecomeTurned DEF Turned, Same, Live
<1>4. ASSUME NEW w \in Drainer, NEW i \in Id, FindExpired(w, i)
      PROVE  Turn(w)
  <2>1. Live(items, i) /\ w \in Worker
    BY <1>4 DEF FindExpired, IsHead, Worker
  <2>2. Become(w, "expired", HandOf(i, items[i].attempt)) /\ UNCHANGED <<items, top, seen>>
    BY <1>4 DEF FindExpired
  <2>. QED  BY <2>1, <2>2, BecomeTurned DEF Turned, Same
<1>5. ASSUME NEW w \in Worker, Requeue(w)
      PROVE  Turn(w)
  <2>1. CASE Idle(w)
    BY <1>2, <1>5, <2>1 DEF Requeue
  <2>2. CASE /\ Become(w, "repeated", hand[w]) /\ UNCHANGED <<items, top, seen>>
             /\ pc[w] = "expired"
             /\ items[<<hand[w].op, hand[w].ver>>].lapsed
             /\ items[<<hand[w].op, hand[w].ver>>].claimExpired
    BY <2>2, BecomeTurned DEF Turned, Same
  <2>. QED  BY <1>5, <2>1, <2>2 DEF Requeue
<1>6. ASSUME NEW w \in Worker, FailRepeated(w) \/ Finish(w)
      PROVE  Turn(w)
  <2>1. Idle(w) /\ UNCHANGED seen
    BY <1>6 DEF FailRepeated, Finish, Fail, Terminal, Succeed
  <2>. QED  BY <1>2, <2>1
<1>7. ASSUME NEW w \in Caller, NEW o \in Op, ReadRows(w, o)
      PROVE  Turn(w)
  <2>. DEFINE h == [op |-> o, ver |-> NextVersion(o), attempt |-> 0]
  <2>1. w \in Worker /\ Become(w, "checked", h)
    BY <1>7 DEF ReadRows, Worker
  <2>2. pc'[w] = "checked" /\ hand'[w] = h /\ \A x \in Worker \ {w} : pc'[x] = pc[x] /\ hand'[x] = hand[x]
    BY <2>1, BecomeTurned
  <2>3. /\ seen'[w] = [r \in Row |-> IF r \in Targets[o] THEN rows[r] ELSE NoRow]
        /\ \A x \in Worker \ {w} : seen'[x] = seen[x]
    BY <1>7, <2>1 DEF ReadRows, TypeOK
  <2>4. ASSUME NEW r \in Targets[o]
        PROVE  /\ seen'[w][r].state # "absent"
               /\ NextVersion(o) = IF seen'[w][r].state = "pending" THEN seen'[w][r].ver
                                   ELSE seen'[w][r].ver + 1
    <3>1. seen'[w][r] = rows[r] /\ rows[r].state # "absent"
      BY <1>7, <2>3, OneTarget DEF ReadRows
    <3>2. RowsInStep(items, rows, top, o)
      BY DEF TablesInStep
    <3>. QED  BY <3>1, <3>2, NextVersionIs
  <2>5. hand'[w].op = o /\ hand'[w].ver = NextVersion(o)
    BY <2>2
  <2>6. CheckedHand(w)'
    BY <2>4, <2>5 DEF CheckedHand
  <2>. QED  BY <2>2, <2>3, <2>6 DEF Turned, Same
<1>8. ASSUME NEW w \in Caller, ClaimNow(w)
      PROVE  Turn(w)
  BY <1>8, ClaimNowTurned DEF Worker
<1>9. ASSUME NEW w \in Worker, Exit(w) \/ Crash(w)
      PROVE  Turn(w)
  BY <1>2, <1>9 DEF Exit, Crash, Gone, TypeOK
<1>. HIDE DEF Turn
<1>10. CASE \E w \in Worker : \/ Requeue(w) \/ FailRepeated(w) \/ Finish(w) \/ Exit(w) \/ Crash(w)
  <2>1. \E w \in Worker : Turn(w)
    BY <1>5, <1>6, <1>9, <1>10
  <2>. QED  BY <2>1 DEF Turn
<1>11. CASE \E w \in Drainer : DrainStep(w)
  <2>1. \E w \in Worker : Turn(w)
    BY <1>3, <1>4, <1>11 DEF DrainStep, Worker
  <2>. QED  BY <2>1 DEF Turn
<1>12. CASE \E w \in Caller : ClaimNow(w) \/ \E o \in Op : ReadRows(w, o)
  <2>1. \E w \in Worker : Turn(w)
    BY <1>7, <1>8, <1>12 DEF Worker
  <2>. QED  BY <2>1 DEF Turn
<1>13. CASE \/ \E req \in Request : Enqueue(req)
            \/ \E D, C \in SUBSET Op : Cascade(D, C)
            \/ \E i \in Id : Lapse(i)
            \/ UNCHANGED vars
  BY <1>1, <1>13 DEF Enqueue, Cascade, Lapse, vars
<1>. QED  BY <1>10, <1>11, <1>12, <1>13 DEF Next

\* The hands of workers that do not move stay right.
LEMMA HandKept ==
  ASSUME TypeOK, TypeOK', \A i \in Id : Moved(i), \A o \in Op : top[o] <= top'[o],
         NEW w \in Worker, CheckedHand(w), HeldHand(w), RepeatedHand(w), Same(w)
  PROVE  CheckedHand(w)' /\ HeldHand(w)' /\ RepeatedHand(w)'
<1>. DEFINE h == hand[w]
            i == <<h.op, h.ver>>
<1>1. /\ i \in Id /\ h.op \in Op /\ h.ver \in Nat /\ h.attempt \in Nat
      /\ items[i].attempt \in Nat /\ items'[i].attempt \in Nat
      /\ top[h.op] \in Nat /\ top'[h.op] \in Nat
  BY HandId, WorkQueueAssumption DEF TypeOK, Hand, Item, Version
<1>2. CheckedHand(w)'
  BY DEF CheckedHand, Same
<1>3. ASSUME Holding(w), Live(items', i)
      PROVE  /\ h.attempt <= items'[i].attempt
             /\ items'[i].status = "claimed" /\ items'[i].attempt = h.attempt
                  => /\ items[i].status = "claimed" /\ items[i].attempt = h.attempt
                     /\ items[i].lapsed => items'[i].lapsed
                     /\ items[i].claimExpired => items'[i].claimExpired
  <2>1. i[2] <= top[i[1]]
    BY <1>3 DEF HeldHand
  <2>2. /\ Live(items, i) /\ items[i].attempt <= items'[i].attempt
        /\ items'[i].status = "claimed" /\ items'[i].attempt = items[i].attempt
             => /\ items[i].status = "claimed"
                /\ items[i].lapsed => items'[i].lapsed
                /\ items[i].claimExpired => items'[i].claimExpired
    BY <1>1, <1>3, <2>1, Carried
  <2>3. h.attempt <= items[i].attempt
    BY <1>3, <2>2 DEF HeldHand
  <2>4. h.attempt <= items'[i].attempt
    BY <1>1, <2>2, <2>3
  <2>5. items'[i].attempt = h.attempt => items[i].attempt = h.attempt
    BY <1>1, <2>2, <2>3
  <2>. QED  BY <2>2, <2>4, <2>5
<1>4. HeldHand(w)'
  <2>. SUFFICES ASSUME Holding(w)
                PROVE  /\ h.ver <= top'[h.op]
                       /\ Live(items', i) => h.attempt <= items'[i].attempt
    BY DEF HeldHand, Holding, Same
  <2>1. h.ver <= top[h.op] /\ top[h.op] <= top'[h.op]
    BY <1>1 DEF HeldHand
  <2>. QED  BY <1>1, <1>3, <2>1
<1>5. RepeatedHand(w)'
  <2>. SUFFICES ASSUME pc[w] = "repeated", items'[i].status = "claimed", items'[i].attempt = h.attempt
                PROVE  items'[i].lapsed /\ items'[i].claimExpired
    BY DEF RepeatedHand, Owned, Same
  <2>1. Holding(w) /\ Live(items', i)
    BY DEF Holding, Live
  <2>2. items[i].lapsed /\ items[i].claimExpired
    BY <1>3, <2>1 DEF RepeatedHand, Owned
  <2>. QED  BY <1>3, <2>1, <2>2
<1>. QED  BY <1>2, <1>4, <1>5

\* The hand of the worker that moves is right after the step.
LEMMA HandTurned ==
  ASSUME TypeOK, TypeOK', TablesInStep(items, rows, top), TablesInStep(items', rows', top'),
         \A i \in Id : Moved(i), \A o \in Op : top[o] <= top'[o],
         NEW w \in Worker, CheckedHand(w), HeldHand(w), RepeatedHand(w), Turned(w)
  PROVE  CheckedHand(w)' /\ HeldHand(w)' /\ RepeatedHand(w)'
<1>1. CASE Same(w)
  BY <1>1, HandKept
<1>2. CASE pc'[w] = "idle"
  BY <1>2 DEF CheckedHand, HeldHand, RepeatedHand, Holding
<1>3. CASE pc'[w] = "checked" /\ CheckedHand(w)'
  BY <1>3 DEF HeldHand, RepeatedHand, Holding
<1>4. ASSUME pc'[w] \in {"expired", "running"}, NEW i \in Id, Live(items', i),
             hand'[w] = HandOf(i, items'[i].attempt)
      PROVE  CheckedHand(w)' /\ HeldHand(w)' /\ RepeatedHand(w)'
  <2>1. hand'[w].op = i[1] /\ hand'[w].ver = i[2] /\ hand'[w].attempt = items'[i].attempt
    BY <1>4 DEF HandOf
  <2>2. i = <<i[1], i[2]>> /\ i[1] \in Op /\ i[2] \in Version
    BY DEF Id
  <2>3. i[2] <= top'[i[1]]
    BY <1>4, <2>2 DEF TablesInStep, BelowTop
  <2>4. items'[i].attempt \in Nat
    BY DEF TypeOK, Item
  <2>5. HeldHand(w)'
    BY <2>1, <2>2, <2>3, <2>4 DEF HeldHand
  <2>. QED  BY <1>4, <2>5 DEF CheckedHand, RepeatedHand
<1>5. CASE /\ pc[w] = "expired" /\ pc'[w] = "repeated" /\ hand'[w] = hand[w] /\ UNCHANGED <<items, top>>
           /\ items[<<hand[w].op, hand[w].ver>>].lapsed
           /\ items[<<hand[w].op, hand[w].ver>>].claimExpired
  BY <1>5 DEF CheckedHand, HeldHand, RepeatedHand, Holding
<1>. QED  BY <1>1, <1>2, <1>3, <1>4, <1>5 DEF Turned

\* Two holders of one item still hold different attempts after any step.
LEMMA AttemptsStep ==
  ASSUME TypeOK, AttemptsDiffer, \A x \in Worker : HeldHand(x),
         \/ \E w \in Worker : Turned(w) /\ \A x \in Worker \ {w} : Same(x)
         \/ \A x \in Worker : Same(x)
  PROVE  AttemptsDiffer'
<1>1. CASE \A x \in Worker : Same(x)
  BY <1>1 DEF AttemptsDiffer, Same
<1>2. ASSUME NEW w \in Worker, Turned(w), \A x \in Worker \ {w} : Same(x)
      PROVE  AttemptsDiffer'
  <2>1. ASSUME NEW x \in Worker \ {w}, pc'[w] = "running", pc[x] = "running"
        PROVE  hand'[w] # hand[x]
    <3>1. CASE Same(w)
      BY <2>1, <3>1 DEF AttemptsDiffer, Same
    <3>2. ASSUME NEW i \in Id, hand'[w] = HandOf(i, items'[i].attempt), Unheld(i, items'[i].attempt),
                 hand'[w] = hand[x]
          PROVE  FALSE
      <4>1. hand[x].op = i[1] /\ hand[x].ver = i[2] /\ hand[x].attempt = items'[i].attempt
        BY <3>2 DEF HandOf
      <4>2. hand[x].attempt < items'[i].attempt /\ hand[x].attempt \in Nat
        BY <2>1, <3>2, <4>1 DEF Unheld, Holding, TypeOK, Hand
      <4>. QED  BY <4>1, <4>2
    <3>. QED  BY <1>2, <2>1, <3>1, <3>2 DEF Turned
  <2>2. \A x, y \in Worker \ {w} : pc'[x] = "running" /\ pc'[y] = "running" /\ x # y => hand'[x] # hand'[y]
    BY <1>2 DEF AttemptsDiffer, Same
  <2>3. \A x \in Worker \ {w} : pc'[x] = pc[x] /\ hand'[x] = hand[x]
    BY <1>2 DEF Same
  <2>. QED  BY <2>1, <2>2, <2>3 DEF AttemptsDiffer
<1>. QED  BY <1>1, <1>2

-----------------------------------------------------------------------------
(* The theorems.                                                           *)

\* The invariant holds of the empty thread file.
LEMMA InitIInv == Init => IInv
<1>. SUFFICES ASSUME Init
              PROVE  IInv
  OBVIOUS
<1>1. TypeOK
  BY InitType
<1>2. \A i \in Id : items[i] = NoItem /\ ~ Live(items, i)
  BY DEF Init, NoItem, Live
<1>3. Ordered(items)
  BY <1>2 DEF Ordered
<1>4. TablesInStep(items, rows, top)
  <2>1. \A o \in Op, v \in Version : ~ Live(items, <<o, v>>)
    BY <1>2 DEF Id
  <2>2. \A o \in Op : \A r \in Targets[o] : rows[r] = NoRow
    BY OneTarget DEF Init
  <2>. QED  BY <2>1, <2>2 DEF TablesInStep, BelowTop, RowsInStep
<1>5. \A w \in Worker : pc[w] = "idle"
  BY DEF Init
<1>6. \A i \in Id : LapsesCounted(items[i])
  BY <1>2 DEF LapsesCounted, NoItem
<1>. QED  BY <1>1, <1>3, <1>4, <1>5, <1>6
          DEF IInv, CheckedHand, HeldHand, Holding, RepeatedHand, AttemptsDiffer

\* Every step keeps the invariant.
LEMMA NextIInv == IInv /\ [Next]_vars => IInv'
<1>. SUFFICES ASSUME IInv, [Next]_vars
              PROVE  IInv'
  OBVIOUS
<1>0. /\ TypeOK /\ Ordered(items) /\ TablesInStep(items, rows, top) /\ AttemptsDiffer
      /\ \A w \in Worker : CheckedHand(w) /\ HeldHand(w) /\ RepeatedHand(w)
      /\ \A i \in Id : LapsesCounted(items[i])
  BY DEF IInv
<1>1. TypeOK'
  BY <1>0, NextType
<1>2. Ordered(items)'
  BY <1>0, OrderedStep
<1>3. TablesInStep(items, rows, top)'
  BY <1>0, TablesStep
<1>4. (\A i \in Id : Moved(i)) /\ (\A o \in Op : top[o] <= top'[o])
  BY <1>0, MovedStep
<1>5. \/ \E w \in Worker : Turned(w) /\ \A x \in Worker \ {w} : Same(x)
      \/ \A x \in Worker : Same(x)
  BY <1>0, TurnedStep
<1>6. \A w \in Worker : CheckedHand(w)' /\ HeldHand(w)' /\ RepeatedHand(w)'
  BY <1>0, <1>1, <1>3, <1>4, <1>5, HandKept, HandTurned
<1>7. AttemptsDiffer'
  BY <1>0, <1>5, AttemptsStep
<1>8. \A i \in Id : LapsesCounted(items'[i])
  BY <1>0, <1>4, LapsesStep
<1>. QED  BY <1>1, <1>2, <1>3, <1>6, <1>7, <1>8 DEF IInv

\* All the parts of the inductive invariant hold in every reachable state.
THEOREM Invariant == Spec => []IInv
  BY InitIInv, NextIInv, PTL DEF Spec

\* Items are processed one at a time and head first: claimNext, the immediate
\* claim, re-queueing, hand-back and supersession never leave a claimed item
\* behind another live one.
THEOREM HeadFirst == Spec => []OneClaimAtTheHead
<1>1. IInv => OneClaimAtTheHead
  <2>. SUFFICES ASSUME IInv, NEW i \in Id, NEW j \in Id,
                       items[i].status = "claimed", Live(items, j), i # j
                PROVE  items[i].rowid < items[j].rowid
    BY DEF OneClaimAtTheHead
  <2>. QED  BY DEF IInv, Ordered, Live
<1>. QED  BY <1>1, Invariant, PTL

\* The claim fence: of all the handlers running, at most one holds a claim that
\* complete or applyDerivationTerminalFailure would accept.
THEOREM Fence == Spec => []OneOwner
<1>1. IInv => OneOwner
  <2>. SUFFICES ASSUME IInv, NEW w \in Worker, NEW x \in Worker, w # x,
                       pc[w] = "running", Owned(hand[w]), pc[x] = "running", Owned(hand[x])
                PROVE  FALSE
    BY DEF OneOwner
  <2>. DEFINE i == <<hand[w].op, hand[w].ver>>
              j == <<hand[x].op, hand[x].ver>>
  <2>1. hand[w] \in Hand /\ hand[x] \in Hand /\ i \in Id /\ j \in Id
    BY HandId DEF IInv, TypeOK
  <2>2. items[i].status = "claimed" /\ items[j].status = "claimed"
    BY DEF Owned
  <2>3. i = j
    <3>1. ASSUME i # j
          PROVE  items[i].rowid < items[j].rowid /\ items[j].rowid < items[i].rowid
      BY <2>1, <2>2, <3>1 DEF IInv, Ordered, Live
    <3>2. items[i].rowid \in Nat /\ items[j].rowid \in Nat
      BY <2>1 DEF IInv, TypeOK, Item
    <3>. QED  BY <3>1, <3>2
  <2>4. hand[w].op = hand[x].op /\ hand[w].ver = hand[x].ver
    BY <2>3
  <2>5. hand[w].attempt = hand[x].attempt
    BY <2>4 DEF Owned
  <2>6. hand[w] = hand[x]
    BY <2>1, <2>4, <2>5 DEF Hand
  <2>. QED  BY <2>6 DEF IInv, AttemptsDiffer
<1>. QED  BY <1>1, Invariant, PTL

\* No work is lost, none is left over: a derivation row awaits its version
\* exactly while the work item of that version exists.
THEOREM NoWorkLost == Spec => []PendingExactlyWhileLive
<1>1. IInv => PendingExactlyWhileLive
  <2>. SUFFICES ASSUME IInv, NEW o \in Op, NEW r \in Targets[o]
                PROVE  rows[r].state = "pending"
                         <=> /\ rows[r].state # "absent"
                             /\ rows[r].ver \in Version
                             /\ Live(items, <<o, rows[r].ver>>)
    BY DEF PendingExactlyWhileLive
  <2>1. RowsInStep(items, rows, top, o)
    BY DEF IInv, TablesInStep
  <2>2. CASE rows[r] = NoRow
    BY <2>2 DEF NoRow
  <2>3. CASE rows[r] # NoRow
    BY <2>1, <2>3 DEF RowsInStep
  <2>. QED  BY <2>2, <2>3
<1>. QED  BY <1>1, Invariant, PTL

\* A completion hits all of its rows or none: DerivationCompletionError, which
\* would leave the item at the head for ever, is never thrown.
THEOREM RowsTogether == Spec => []TargetsMoveTogether
<1>1. IInv => TargetsMoveTogether
  BY DEF IInv, TablesInStep, RowsInStep, TargetsMoveTogether
<1>. QED  BY <1>1, Invariant, PTL

\* claim_expired_repeatedly is never the verdict on an item that expired once,
\* whichever drains, callers, exits and crashes met in between.
THEOREM TwoExpiries == Spec => []NeverFailedOnFirstExpiry
<1>1. IInv => NeverFailedOnFirstExpiry
  <2>. SUFFICES ASSUME IInv, NEW w \in Worker, pc[w] = "repeated", Owned(hand[w])
                PROVE  items[<<hand[w].op, hand[w].ver>>].lapses >= 2
    BY DEF NeverFailedOnFirstExpiry
  <2>1. <<hand[w].op, hand[w].ver>> \in Id
    BY HandId DEF IInv, TypeOK
  <2>. QED  BY <2>1 DEF IInv, RepeatedHand, LapsesCounted
<1>. QED  BY <1>1, Invariant, PTL

-----------------------------------------------------------------------------
(* The rows of one operation through one step, and the ledger.             *)

Stays(o) == top'[o] = top[o] /\ \A r \in Targets[o] : rows'[r] = rows[r]

Answers(o) == /\ top'[o] = top[o]
              /\ \A r \in Targets[o] : /\ rows[r].state = "pending"
                                       /\ rows'[r].state \in Settled
                                       /\ rows'[r].ver = rows[r].ver

Requests(o) == /\ top'[o] > top[o] /\ top'[o] \in Version
               /\ \A r \in Targets[o] : rows'[r] = [state |-> "pending", ver |-> top'[o]]

Drops(o) == /\ top'[o] = top[o]
            /\ \A r \in Targets[o] : rows[r].state # "absent" /\ rows'[r] = NoRow

\* One transaction answers at most one operation, and then drops none.
OneAnswer == \/ \A o \in Op : Stays(o) \/ Requests(o) \/ Drops(o)
             \/ \E o \in Op : Answers(o) /\ \A p \in Op \ {o} : Stays(p) \/ Requests(p)

\* Pending rows are requests of the ledger.
LEMMA PendRequests ==
  ASSUME NEW rws, NEW req \in Request, Fresh(req), rows' = Pend(rws, req), top' = Raise(req)
  PROVE  /\ \A o \in DOMAIN req : o \in Op /\ Requests(o)
         /\ \A o \in Op \ DOMAIN req : /\ top'[o] = top[o]
                                       /\ \A r \in Targets[o] : rows'[r] = rws[r]
<1>1. ASSUME NEW o \in DOMAIN req
      PROVE  o \in Op /\ Requests(o)
  <2>1. o \in Op /\ req[o] \in Version /\ req[o] > top[o] /\ top'[o] = req[o]
    BY RequestType DEF Fresh, Raise
  <2>2. ASSUME NEW r \in Targets[o]
        PROVE  rows'[r] = [state |-> "pending", ver |-> req[o]]
    <3>1. Pend(rws, req)[r] = IF o \in DOMAIN req THEN [state |-> "pending", ver |-> req[o]]
                              ELSE rws[r]
      BY <2>1, PendAt
    <3>. QED  BY <3>1
  <2>. QED  BY <2>1, <2>2 DEF Requests
<1>2. ASSUME NEW o \in Op \ DOMAIN req
      PROVE  /\ top'[o] = top[o]
             /\ \A r \in Targets[o] : rows'[r] = rws[r]
  <2>1. top'[o] = top[o]
    BY DEF Raise
  <2>2. ASSUME NEW r \in Targets[o]
        PROVE  rows'[r] = rws[r]
    <3>1. Pend(rws, req)[r] = IF o \in DOMAIN req THEN [state |-> "pending", ver |-> req[o]]
                              ELSE rws[r]
      BY PendAt
    <3>. QED  BY <3>1
  <2>. QED  BY <2>1, <2>2
<1>. QED  BY <1>1, <1>2

\* A completion by the owner of a claim answers its operation or touches nothing.
LEMMA StampAnswers ==
  ASSUME TypeOK, TablesInStep(items, rows, top), NEW w \in Worker, Owned(hand[w]), NEW s \in Settled
  PROVE  LET o == hand[w].op
             done == Stamp(o, hand[w].ver, s)
         IN  /\ o \in Op
             /\ \A p \in Op \ {o} : \A r \in Targets[p] : done[r] = rows[r]
             /\ \/ \A r \in Targets[o] : done[r] = rows[r]
                \/ \A r \in Targets[o] : /\ rows[r].state = "pending"
                                         /\ done[r].state = s
                                         /\ done[r].ver = rows[r].ver
<1>. DEFINE o == hand[w].op
            v == hand[w].ver
            done == Stamp(o, v, s)
            Hit(r) == rows[r].state # "absent" /\ rows[r].ver = v
<1>1. o \in Op /\ Live(items, <<o, v>>) /\ RowsInStep(items, rows, top, o)
  BY DEF TypeOK, Hand, Owned, Live, TablesInStep
<1>2. ASSUME NEW p \in Op, NEW r \in Targets[p]
      PROVE  done[r] = IF p = o /\ Hit(r) THEN [rows[r] EXCEPT !.state = s] ELSE rows[r]
  <2>1. r \in Row /\ (r \in Targets[o] <=> p = o)
    BY <1>1, OneTarget
  <2>2. done[r] = IF r \in Targets[o] /\ Hit(r) THEN [rows[r] EXCEPT !.state = s] ELSE rows[r]
    BY <2>1 DEF Stamp
  <2>. HIDE DEF done, Hit
  <2>. QED  BY <2>1, <2>2
<1>3. ASSUME NEW r \in Targets[o], Hit(r)
      PROVE  rows[r].state = "pending" /\ done[r].state = s /\ done[r].ver = rows[r].ver
  <2>1. rows[r] # NoRow /\ rows[r] \in RowRec
    BY <1>1, <1>3, OneTarget DEF NoRow, TypeOK
  <2>2. rows[r].state = "pending"
    BY <1>1, <1>3, <2>1 DEF RowsInStep
  <2>3. done[r] = [rows[r] EXCEPT !.state = s]
    BY <1>1, <1>2, <1>3
  <2>. HIDE DEF done
  <2>. QED  BY <2>1, <2>2, <2>3 DEF RowRec
<1>4. ASSUME NEW r \in Targets[o], NEW q \in Targets[o]
      PROVE  Hit(r) <=> Hit(q)
  <2>1. rows[r] = rows[q]
    BY <1>1 DEF RowsInStep
  <2>. QED  BY <2>1
<1>5. \A p \in Op \ {o} : \A r \in Targets[p] : done[r] = rows[r]
  BY <1>2
<1>6. CASE \E r \in Targets[o] : Hit(r)
  BY <1>1, <1>3, <1>4, <1>5, <1>6
<1>7. CASE \A r \in Targets[o] : ~ Hit(r)
  <2>1. \A r \in Targets[o] : done[r] = rows[r]
    BY <1>1, <1>2, <1>7
  <2>. QED  BY <1>1, <1>5, <2>1
<1>. QED  BY <1>6, <1>7

\* Every step is a step of the ledger or leaves it as it is.
LEMMA LedgerStep ==
  ASSUME IInv, [Next]_vars
  PROVE  OneAnswer
<1>0. /\ TypeOK /\ TablesInStep(items, rows, top)
      /\ \A w \in Worker : CheckedHand(w)
  BY DEF IInv
<1>1. ASSUME UNCHANGED <<rows, top>>
      PROVE  OneAnswer
  BY <1>1 DEF OneAnswer, Stays
<1>2. ASSUME NEW req \in Request, Fresh(req), rows' = Pend(rows, req), top' = Raise(req)
      PROVE  OneAnswer
  BY <1>2, PendRequests DEF OneAnswer, Stays
<1>3. ASSUME NEW req \in Request, Enqueue(req)
      PROVE  OneAnswer
  BY <1>2, <1>3 DEF Enqueue
<1>4. ASSUME NEW D \in SUBSET Op, NEW C \in SUBSET Op, Cascade(D, C)
      PROVE  OneAnswer
  <2>. DEFINE next == [o \in C |-> 1 + rows[CHOOSE r \in Targets[o] : TRUE].ver]
              kept == Drop(D)
  <2>1. next \in Request /\ Fresh(next)
    BY <1>0, <1>4, CascadeRequest
  <2>2. rows' = Pend(kept, next) /\ top' = Raise(next)
    BY <1>4 DEF Cascade
  <2>3. ASSUME NEW o \in Op, NEW r \in Targets[o]
        PROVE  kept[r] = IF o \in D THEN NoRow ELSE rows[r]
    BY DropAt
  <2>4. \A o \in D : \A r \in Targets[o] : rows[r].state # "absent"
    BY <1>4 DEF Cascade
  <2>. HIDE DEF next, kept
  <2>5. ASSUME NEW o \in Op
        PROVE  Stays(o) \/ Requests(o) \/ Drops(o)
    <3>1. CASE o \in DOMAIN next
      BY <2>1, <2>2, <3>1, PendRequests
    <3>2. CASE o \notin DOMAIN next
      <4>1. top'[o] = top[o] /\ \A r \in Targets[o] : rows'[r] = kept[r]
        BY <2>1, <2>2, <3>2, PendRequests
      <4>2. CASE o \in D
        BY <2>3, <2>4, <4>1, <4>2 DEF Drops
      <4>3. CASE o \notin D
        BY <2>3, <4>1, <4>3 DEF Stays
      <4>. QED  BY <4>2, <4>3
    <3>. QED  BY <3>1, <3>2
  <2>. QED  BY <2>5 DEF OneAnswer
<1>5. ASSUME NEW w \in Worker, NEW s \in Settled, Terminal(w, s)
      PROVE  OneAnswer
  <2>. DEFINE h == hand[w]
              done == Stamp(h.op, h.ver, s)
  <2>1. CASE UNCHANGED <<rows, top>>
    BY <1>1, <2>1
  <2>2. CASE Owned(h) /\ rows' = done /\ UNCHANGED top
    <3>1. /\ h.op \in Op
          /\ \A p \in Op \ {h.op} : \A r \in Targets[p] : done[r] = rows[r]
          /\ \/ \A r \in Targets[h.op] : done[r] = rows[r]
             \/ \A r \in Targets[h.op] : /\ rows[r].state = "pending"
                                         /\ done[r].state = s
                                         /\ done[r].ver = rows[r].ver
      BY <1>0, <2>2, StampAnswers
    <3>. HIDE DEF done
    <3>. QED  BY <2>2, <3>1 DEF OneAnswer, Stays, Answers
  <2>. QED  BY <1>5, <2>1, <2>2 DEF Terminal
<1>6. ASSUME NEW w \in Worker, NEW req \in Request, Succeed(w, req)
      PROVE  OneAnswer
  <2>. DEFINE h == hand[w]
              done == Stamp(h.op, h.ver, "ready")
  <2>1. CASE UNCHANGED <<rows, top>>
    BY <1>1, <2>1
  <2>2. CASE Owned(h) /\ Fresh(req) /\ rows' = Pend(done, req) /\ top' = Raise(req)
    <3>1. /\ h.op \in Op
          /\ \A p \in Op \ {h.op} : \A r \in Targets[p] : done[r] = rows[r]
          /\ \/ \A r \in Targets[h.op] : done[r] = rows[r]
             \/ \A r \in Targets[h.op] : /\ rows[r].state = "pending"
                                         /\ done[r].state = "ready"
                                         /\ done[r].ver = rows[r].ver
      BY <1>0, <2>2, StampAnswers DEF Settled
    <3>. HIDE DEF done
    <3>2. ASSUME NEW p \in Op \ {h.op}
          PROVE  Stays(p) \/ Requests(p)
      BY <2>2, <3>1, <3>2, PendRequests DEF Stays
    <3>3. Stays(h.op) \/ Requests(h.op) \/ Answers(h.op)
      BY <2>2, <3>1, PendRequests DEF Stays, Answers, Settled
    <3>. QED  BY <3>1, <3>2, <3>3 DEF OneAnswer
  <2>. QED  BY <1>6, <2>1, <2>2 DEF Succeed
<1>7. ASSUME NEW w \in Caller, ClaimNow(w)
      PROVE  OneAnswer
  <2>. DEFINE req == [o \in {hand[w].op} |-> hand[w].ver]
  <2>1. CASE UNCHANGED <<rows, top>>
    BY <1>1, <2>1
  <2>2. CASE /\ BoundariesMatch(w) /\ ~ Live(items, <<hand[w].op, hand[w].ver>>)
             /\ rows' = Pend(rows, req) /\ top' = Raise(req)
    <3>1. req \in Request /\ Fresh(req)
      BY <1>0, <1>7, <2>2, ImmediateIsFresh DEF ClaimNow, Worker
    <3>. HIDE DEF req
    <3>. QED  BY <1>2, <2>2, <3>1
  <2>. QED  BY <1>7, <2>1, <2>2 DEF ClaimNow
<1>8. CASE \/ \E w \in Drainer : DrainStep(w)
           \/ \E w \in Caller : \E o \in Op : ReadRows(w, o)
           \/ \E w \in Worker : Requeue(w) \/ Exit(w) \/ Crash(w)
           \/ \E i \in Id : Lapse(i)
           \/ UNCHANGED vars
  <2>1. UNCHANGED <<rows, top>>
    BY <1>8 DEF DrainStep, Claim, FindExpired, ReadRows, Requeue, Exit, Crash, Gone, Lapse, vars
  <2>. QED  BY <1>1, <2>1
<1>9. ASSUME NEW w \in Worker, FailRepeated(w) \/ Finish(w)
      PROVE  OneAnswer
  BY <1>5, <1>6, <1>9 DEF FailRepeated, Finish, Fail, Settled
<1>. QED  BY <1>3, <1>4, <1>7, <1>8, <1>9 DEF Next

\* A settled row changes only by a rebuild at a later version or by being
\* dropped: no late holder, expiry or re-queue stamps it again.
THEOREM SettledForGood == Spec => SettledStays
<1>1. IInv /\ [Next]_vars
        => [\A r \in Row : rows[r].state \in Settled /\ rows'[r] # rows[r]
                           => rows'[r].ver > rows[r].ver \/ rows'[r].state = "absent"]_vars
  <2>. SUFFICES ASSUME IInv, [Next]_vars, NEW r \in Row,
                       rows[r].state \in Settled, rows'[r] # rows[r]
                PROVE  rows'[r].ver > rows[r].ver \/ rows'[r].state = "absent"
    OBVIOUS
  <2>1. PICK o \in Op : r \in Targets[o]
    BY DEF Row
  <2>2. Stays(o) \/ Answers(o) \/ Requests(o) \/ Drops(o)
    BY LedgerStep DEF OneAnswer
  <2>3. rows[r].ver = top[o]
    <3>1. rows[r] # NoRow
      BY DEF Settled, NoRow
    <3>2. RowsInStep(items, rows, top, o)
      BY DEF IInv, TablesInStep
    <3>. QED  BY <2>1, <3>1, <3>2 DEF RowsInStep
  <2>4. ~ Stays(o) /\ ~ Answers(o)
    BY <2>1 DEF Stays, Answers, Settled
  <2>5. CASE Requests(o)
    BY <2>1, <2>3, <2>5 DEF Requests
  <2>6. CASE Drops(o)
    BY <2>1, <2>6 DEF Drops, NoRow
  <2>. QED  BY <2>2, <2>4, <2>5, <2>6
<1>. QED  BY <1>1, Invariant, PTL DEF SettledStays, Spec

\* One entry of the refinement mapping.
LEMMA LedgerAt ==
  ASSUME NEW o \in Op
  PROVE  \E r \in Targets[o] :
           /\ r \in Row
           /\ LedgerView[o] = [state |-> rows[r].state, ver |-> top[o]]
           /\ LedgerView'[o] = [state |-> rows'[r].state, ver |-> top'[o]]
<1>1. (CHOOSE r \in Targets[o] : TRUE) \in Targets[o]
  BY WorkQueueAssumption
<1>. QED  BY <1>1, OneTarget DEF LedgerView

\* The queue, its leases, drains, callers and crashes implement the ledger that
\* the readers of derivations rely on.
THEOREM Refinement == Spec => ImplementsLedger
<1>1. Init => Ledger!Init
  <2>1. ASSUME Init, NEW o \in Op
        PROVE  LedgerView[o] = [state |-> "absent", ver |-> 0]
    BY <2>1, LedgerAt DEF Init, NoRow
  <2>. QED  BY <2>1 DEF Ledger!Init, LedgerView
<1>2. IInv /\ IInv' /\ [Next]_vars => [Ledger!Next]_LedgerView
  <2>. SUFFICES ASSUME IInv, IInv', [Next]_vars
                PROVE  Ledger!Next
    OBVIOUS
  <2>. DEFINE Allowed(o) == \/ LedgerView'[o] = LedgerView[o]
                           \/ Ledger!Answered(o) \/ Ledger!Rerequested(o) \/ Ledger!Dropped(o)
  <2>1. LedgerView' \in [Op -> Ledger!Entry]
    <3>1. ASSUME NEW o \in Op
          PROVE  LedgerView'[o] \in Ledger!Entry
      <4>1. PICK r \in Row : LedgerView'[o] = [state |-> rows'[r].state, ver |-> top'[o]]
        BY LedgerAt
      <4>2. rows'[r].state \in {"absent", "pending"} \cup Settled /\ top'[o] \in 0..MaxVersion
        BY DEF IInv, TypeOK, RowRec
      <4>. QED  BY <4>1, <4>2 DEF Ledger!Entry, Ledger!Answer, Settled
    <3>. QED  BY <3>1 DEF LedgerView
  <2>2. ASSUME NEW o \in Op, Stays(o)
        PROVE  Allowed(o) /\ ~ Ledger!Answered(o) /\ ~ Ledger!Dropped(o)
    <3>1. PICK r \in Targets[o] : /\ LedgerView[o] = [state |-> rows[r].state, ver |-> top[o]]
                                  /\ LedgerView'[o] = [state |-> rows'[r].state, ver |-> top'[o]]
      BY LedgerAt
    <3>2. rows'[r] = rows[r] /\ top'[o] = top[o]
      BY <2>2 DEF Stays
    <3>. QED  BY <3>1, <3>2 DEF Ledger!Answered, Ledger!Dropped, Ledger!Answer
  <2>3. ASSUME NEW o \in Op, Answers(o)
        PROVE  Allowed(o) /\ ~ Ledger!Dropped(o)
    <3>1. PICK r \in Targets[o] : /\ LedgerView[o] = [state |-> rows[r].state, ver |-> top[o]]
                                  /\ LedgerView'[o] = [state |-> rows'[r].state, ver |-> top'[o]]
      BY LedgerAt
    <3>2. rows[r].state = "pending" /\ rows'[r].state \in Settled /\ top'[o] = top[o]
      BY <2>3 DEF Answers
    <3>. QED  BY <3>1, <3>2 DEF Ledger!Answered, Ledger!Dropped, Ledger!Answer, Settled
  <2>4. ASSUME NEW o \in Op, Requests(o)
        PROVE  Allowed(o) /\ ~ Ledger!Answered(o) /\ ~ Ledger!Dropped(o)
    <3>1. PICK r \in Targets[o] : /\ LedgerView[o] = [state |-> rows[r].state, ver |-> top[o]]
                                  /\ LedgerView'[o] = [state |-> rows'[r].state, ver |-> top'[o]]
      BY LedgerAt
    <3>2. rows'[r] = [state |-> "pending", ver |-> top'[o]] /\ top'[o] > top[o] /\ top'[o] \in Version
      BY <2>4 DEF Requests
    <3>3. rows'[r].state = "pending" /\ top'[o] <= MaxVersion
      BY <3>2, WorkQueueAssumption DEF Version
    <3>. QED  BY <3>1, <3>2, <3>3 DEF Ledger!Rerequested, Ledger!Answered, Ledger!Dropped, Ledger!Answer
  <2>5. ASSUME NEW o \in Op, Drops(o)
        PROVE  Allowed(o) /\ ~ Ledger!Answered(o)
    <3>1. PICK r \in Targets[o] : /\ LedgerView[o] = [state |-> rows[r].state, ver |-> top[o]]
                                  /\ LedgerView'[o] = [state |-> rows'[r].state, ver |-> top'[o]]
      BY LedgerAt
    <3>2. rows'[r].state = "absent" /\ rows[r].state # "absent" /\ top'[o] = top[o]
      BY <2>5 DEF Drops, NoRow
    <3>. QED  BY <3>1, <3>2 DEF Ledger!Answered, Ledger!Dropped, Ledger!Answer
  <2>6. OneAnswer
    BY LedgerStep
  <2>. HIDE DEF Allowed
  <2>7. \A o \in Op : Allowed(o)
    BY <2>2, <2>3, <2>4, <2>5, <2>6 DEF OneAnswer
  <2>8. \A o, p \in Op : Ledger!Answered(o) /\ Ledger!Answered(p) => o = p
    BY <2>2, <2>4, <2>5, <2>6 DEF OneAnswer
  <2>9. \A o, p \in Op : ~ (Ledger!Answered(o) /\ Ledger!Dropped(p))
    BY <2>2, <2>3, <2>4, <2>5, <2>6 DEF OneAnswer
  <2>. QED  BY <2>1, <2>7, <2>8, <2>9 DEF Ledger!Next, Allowed
<1>. QED  BY <1>1, <1>2, Invariant, PTL DEF ImplementsLedger, Spec, Ledger!Spec

=============================================================================
