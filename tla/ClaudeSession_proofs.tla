------------------------ MODULE ClaudeSession_proofs ------------------------
(***************************************************************************)
(* Proofs about a session of claude-lhc, for any number of inputs, stops,   *)
(* failed rebuilds and sizes of the context.  Inputs stand in one line, from *)
(* those that are answered to those that are held; a result answers for a   *)
(* run of them.  SessionInv says which run each part of the state holds, and *)
(* what the marks of #sent say of a prompt against where it really is;       *)
(* Readings says what the session was told of the context of a generation.  *)
(***************************************************************************)
EXTENDS ClaudeSession, SequenceTheorems, TLAPS
-----------------------------------------------------------------------------
(* Inputs in line.                                                          *)

\* The numbers after a up to b, in order.
IsRun(s, a, b) ==
  s \in Seq(Nat) /\ a <= b /\ Len(s) = b - a /\ \A i \in 1..Len(s) : s[i] = a + i

IsAnswer(m) == m.t \in {"result", "hook_stopped"}

\* The results among the messages s answer for the inputs after a up to b, in order: cut[n]
\* is the last of those that the first n messages answer for.
Chain(s, a, b) ==
  \E cut \in [0..Len(s) -> Nat] :
    /\ cut[0] = a /\ cut[Len(s)] = b
    /\ \A n \in 1..Len(s) : IsRun(s[n].labels, cut[n - 1], cut[n])
    /\ \A n \in 0..Len(s) : /\ cut[n] <= b
                            /\ (\A m \in (n + 1)..Len(s) : ~ IsAnswer(s[m])) => cut[n] = b

MsgKinds == {"none", "queued", "started", "completed", "assistant", "result", "hook_stopped"}

Msg == [t : MsgKinds, id : Nat, n : Nat, labels : Seq(Nat)]

LEMMA ConcatIs ==
  ASSUME NEW S, NEW s \in Seq(S), NEW u \in Seq(S)
  PROVE  /\ s \o u \in Seq(S) /\ Len(s \o u) = Len(s) + Len(u)
         /\ \A n \in 1..(Len(s) + Len(u)) :
              /\ n <= Len(s) => (s \o u)[n] = s[n]
              /\ n > Len(s) => (s \o u)[n] = u[n - Len(s)]
OBVIOUS

LEMMA TailIs ==
  ASSUME NEW S, NEW s \in Seq(S), s # <<>>
  PROVE  /\ Tail(s) \in Seq(S) /\ Len(Tail(s)) = Len(s) - 1 /\ Len(s) \in Nat /\ Len(s) >= 1
         /\ Head(s) = s[1] /\ s[1] \in S
         /\ \A n \in 1..Len(s) - 1 : Tail(s)[n] = s[n + 1]
OBVIOUS

\* Sequences joined, under a name that keeps the provers from unfolding it.
Join(s, q) == s \o q

LEMMA JoinThrice ==
  ASSUME NEW S, NEW s \in Seq(S), NEW q \in Seq(S), NEW t \in Seq(S)
  PROVE  Join(Join(s, q), t) = Join(s, Join(q, t))
BY SMTT(30) DEF Join

LEMMA JoinAppend ==
  ASSUME NEW S, NEW s \in Seq(S), NEW q \in Seq(S), NEW n \in S
  PROVE  Join(s, Append(q, n)) = Append(Join(s, q), n)
BY SMTT(30) DEF Join

LEMMA AppendIs ==
  ASSUME NEW S, NEW s \in Seq(S), NEW x \in S
  PROVE  /\ Append(s, x) \in Seq(S) /\ Len(Append(s, x)) = Len(s) + 1
         /\ Append(s, x)[Len(s) + 1] = x
         /\ \A n \in 1..Len(s) : Append(s, x)[n] = s[n]
OBVIOUS

LEMMA EmptyRun ==
  ASSUME NEW a \in Nat
  PROVE  IsRun(<<>>, a, a) /\ \A b \in Nat : IsRun(<<>>, a, b) => b = a
BY DEF IsRun

LEMMA RunConcat ==
  ASSUME NEW a \in Nat, NEW b \in Nat, NEW c \in Nat, NEW s, NEW u, IsRun(s, a, b), IsRun(u, b, c)
  PROVE  IsRun(s \o u, a, c)
<1>1. s \in Seq(Nat) /\ u \in Seq(Nat) /\ Len(s) = b - a /\ Len(u) = c - b /\ a <= b /\ b <= c
      /\ (\A i \in 1..Len(s) : s[i] = a + i) /\ (\A i \in 1..Len(u) : u[i] = b + i)
  BY DEF IsRun
<1>2. PICK z : z = s \o u  OBVIOUS
<1>3. /\ z \in Seq(Nat) /\ Len(z) = Len(s) + Len(u)
      /\ \A n \in 1..(Len(s) + Len(u)) : /\ n <= Len(s) => z[n] = s[n]
                                         /\ n > Len(s) => z[n] = u[n - Len(s)]
  <2>1. s \in Seq(Nat) /\ u \in Seq(Nat)  BY <1>1
  <2> QED  BY <1>2, <2>1, ConcatIs
<1>4. Len(z) = c - a /\ a <= c  BY <1>1, <1>3
<1>5. ASSUME NEW i \in 1..Len(z) PROVE z[i] = a + i
  <2>1. CASE i <= Len(s)  BY <1>1, <1>3, <2>1
  <2>2. CASE i > Len(s)
    <3>1. PICK k : k = i - Len(s)  OBVIOUS
    <3>2. k \in 1..Len(u) /\ z[i] = u[k]  BY <1>1, <1>3, <2>2, <3>1
    <3>3. z[i] = b + k  BY <1>1, <3>2
    <3> QED  BY <1>1, <3>1, <3>3
  <2> QED  BY <1>1, <1>3, <2>1, <2>2
<1>6. IsRun(z, a, c)  BY <1>3, <1>4, <1>5 DEF IsRun
<1> QED  BY <1>2, <1>6

LEMMA RunAppend ==
  ASSUME NEW a \in Nat, NEW b \in Nat, NEW s, IsRun(s, a, b)
  PROVE  IsRun(Append(s, b + 1), a, b + 1)
<1>1. s \in Seq(Nat) /\ a <= b /\ Len(s) = b - a /\ \A i \in 1..Len(s) : s[i] = a + i  BY DEF IsRun
<1>0. PICK x \in Nat : x = b + 1  OBVIOUS
<1>2. PICK z : z = Append(s, x)  OBVIOUS
<1>3. /\ z \in Seq(Nat) /\ Len(z) = Len(s) + 1 /\ z[Len(s) + 1] = x
      /\ \A n \in 1..Len(s) : z[n] = s[n]
  BY <1>1, <1>2, AppendIs
<1>4. Len(z) = x - a /\ a <= x  BY <1>0, <1>1, <1>3
<1>5. ASSUME NEW i \in 1..Len(z) PROVE z[i] = a + i
  <2>1. CASE i \in 1..Len(s)  BY <1>1, <1>3, <2>1
  <2>2. CASE i = Len(s) + 1  BY <1>0, <1>1, <1>3, <2>2
  <2> QED  BY <1>1, <1>3, <2>1, <2>2
<1>6. IsRun(z, a, x)  BY <1>3, <1>4, <1>5 DEF IsRun
<1> QED  BY <1>0, <1>2, <1>6

LEMMA RunSingle ==
  ASSUME NEW a \in Nat, NEW s, s = <<a + 1>>
  PROVE  IsRun(s, a, a + 1)
BY DEF IsRun

LEMMA RunTail ==
  ASSUME NEW a \in Nat, NEW b \in Nat, NEW s, IsRun(s, a, b), s # <<>>
  PROVE  Head(s) = a + 1 /\ IsRun(Tail(s), a + 1, b)
<1>1. s \in Seq(Nat) /\ Len(s) = b - a /\ \A i \in 1..Len(s) : s[i] = a + i  BY DEF IsRun
<1> QED  BY <1>1, TailIs DEF IsRun

\* What stands at the front of a run, and behind that.
LEMMA RunSplit ==
  ASSUME NEW a \in Nat, NEW b \in Nat, NEW s \in Seq(Nat), NEW u \in Seq(Nat), IsRun(s \o u, a, b)
  PROVE  a + Len(s) \in Nat /\ IsRun(s, a, a + Len(s)) /\ IsRun(u, a + Len(s), b)
<1>1. /\ s \o u \in Seq(Nat) /\ Len(s \o u) = Len(s) + Len(u) /\ Len(s) + Len(u) = b - a
      /\ \A i \in 1..(Len(s) + Len(u)) : (s \o u)[i] = a + i
  BY ConcatIs DEF IsRun
<1>2. \A i \in 1..Len(s) : s[i] = a + i  BY <1>1, ConcatIs
<1>3. ASSUME NEW i \in 1..Len(u) PROVE u[i] = (a + Len(s)) + i
  <2>0. Len(s) \in Nat /\ Len(u) \in Nat  OBVIOUS
  <2>1. PICK k \in 1..(Len(s) + Len(u)) : k = Len(s) + i
    <3>1. Len(s) + i \in 1..(Len(s) + Len(u))  BY <2>0
    <3> QED  BY <3>1
  <2>2. k > Len(s) /\ k - Len(s) = i  BY <2>0, <2>1
  <2>3. (s \o u)[k] = u[i]
    <3>1. k > Len(s) => (s \o u)[k] = u[k - Len(s)]  BY <2>1, ConcatIs
    <3> QED  BY <2>2, <3>1
  <2>4. (s \o u)[k] = a + k  BY <1>1, <2>1
  <2> QED  BY <2>0, <2>1, <2>3, <2>4
<1>4. Len(s) \in Nat /\ Len(u) \in Nat /\ a <= b  BY DEF IsRun
<1>5. PICK m \in Nat : m = a + Len(s)  BY <1>4
<1>6. Len(s) = m - a /\ a <= m /\ Len(u) = b - m /\ m <= b  BY <1>1, <1>4, <1>5
<1>7. IsRun(s, a, m)  BY <1>2, <1>6 DEF IsRun
<1>8. IsRun(u, m, b)  BY <1>3, <1>5, <1>6 DEF IsRun
<1> QED  BY <1>5, <1>7, <1>8

LEMMA ChainEmpty ==
  ASSUME NEW a \in Nat, NEW s, s = <<>>
  PROVE  Chain(s, a, a)
<1> DEFINE cut == [n \in 0..Len(s) |-> a]
<1>1. cut \in [0..Len(s) -> Nat] /\ cut[0] = a /\ cut[Len(s)] = a /\ Len(s) = 0  OBVIOUS
<1>2. \A n \in 0..Len(s) : cut[n] = a  OBVIOUS
<1> HIDE DEF cut
<1> QED  BY <1>1, <1>2 DEF Chain

LEMMA ChainBounds ==
  ASSUME NEW S, NEW s \in Seq(S), NEW a \in Nat, NEW b \in Nat, Chain(s, a, b)
  PROVE  a <= b /\ ((\A m \in 1..Len(s) : ~ IsAnswer(s[m])) => a = b)
BY DEF Chain

LEMMA ChainAppend ==
  ASSUME NEW S, NEW s \in Seq(S), NEW a \in Nat, NEW b \in Nat, NEW c \in Nat, NEW m \in S,
         Chain(s, a, b), IsRun(m.labels, b, c), IsAnswer(m) \/ c = b
  PROVE  Chain(Append(s, m), a, c)
<1>1. PICK cut \in [0..Len(s) -> Nat] :
        /\ cut[0] = a /\ cut[Len(s)] = b
        /\ \A n \in 1..Len(s) : IsRun(s[n].labels, cut[n - 1], cut[n])
        /\ \A n \in 0..Len(s) : /\ cut[n] <= b
                                /\ (\A i \in (n + 1)..Len(s) : ~ IsAnswer(s[i])) => cut[n] = b
  BY DEF Chain
<1>2. PICK z : z = Append(s, m)  OBVIOUS
<1>3. Len(z) = Len(s) + 1 /\ z[Len(s) + 1] = m /\ (\A n \in 1..Len(s) : z[n] = s[n]) /\ Len(s) \in Nat
  BY <1>2, AppendIs
<1>4. b <= c  BY DEF IsRun
<1> DEFINE far == [n \in 0..Len(z) |-> IF n = Len(z) THEN c ELSE cut[n]]
<1>5. far \in [0..Len(z) -> Nat] /\ far[0] = a /\ far[Len(z)] = c
      /\ \A n \in 0..Len(s) : far[n] = cut[n]
  BY <1>1, <1>3
<1> HIDE DEF far
<1>6. ASSUME NEW n \in 1..Len(z) PROVE IsRun(z[n].labels, far[n - 1], far[n])
  <2>1. CASE n = Len(z)
    <3>1. z[n] = m /\ far[n] = c /\ far[n - 1] = b  BY <1>1, <1>3, <1>5, <2>1
    <3> QED  BY <3>1
  <2>2. CASE n # Len(z)
    <3>1. n \in 1..Len(s) /\ n - 1 \in 0..Len(s) /\ n \in 0..Len(s)  BY <1>3, <2>2
    <3>2. z[n] = s[n] /\ far[n] = cut[n] /\ far[n - 1] = cut[n - 1]  BY <1>3, <1>5, <3>1
    <3> QED  BY <1>1, <3>1, <3>2
  <2> QED  BY <2>1, <2>2
<1>7. ASSUME NEW n \in 0..Len(z)
      PROVE  /\ far[n] <= c
             /\ (\A i \in (n + 1)..Len(z) : ~ IsAnswer(z[i])) => far[n] = c
  <2>1. CASE n = Len(z)  BY <1>1, <1>3, <1>4, <1>5, <2>1
  <2>2. CASE n # Len(z)
    <3>1. n \in 0..Len(s) /\ far[n] = cut[n]  BY <1>3, <1>5, <2>2
    <3>2. cut[n] <= b /\ cut[n] \in Nat  BY <1>1, <3>1
    <3>5. far[n] <= c  BY <1>4, <3>1, <3>2
    <3>3. ASSUME \A i \in (n + 1)..Len(z) : ~ IsAnswer(z[i]) PROVE far[n] = c
      <4>1. Len(z) \in (n + 1)..Len(z) /\ z[Len(z)] = m  BY <1>3, <3>1
      <4>2. ~ IsAnswer(m)  BY <3>3, <4>1
      <4>3. c = b  BY <4>2
      <4>4. \A i \in (n + 1)..Len(s) : i \in (n + 1)..Len(z) /\ z[i] = s[i]  BY <1>3, <3>1
      <4>5. \A i \in (n + 1)..Len(s) : ~ IsAnswer(s[i])  BY <3>3, <4>4
      <4> QED  BY <1>1, <3>1, <4>3, <4>5
    <3> QED  BY <3>5, <3>3
  <2> QED  BY <2>1, <2>2
<1>8. Chain(z, a, c)  BY <1>5, <1>6, <1>7 DEF Chain
<1> QED  BY <1>2, <1>8

\* Messages that answer nothing lengthen a chain without moving its end.
LEMMA ChainQuiet ==
  ASSUME NEW S, NEW s \in Seq(S), NEW a \in Nat, NEW b \in Nat, NEW u \in Seq(S), Chain(s, a, b),
         \A n \in 1..Len(u) : u[n].labels = <<>>
  PROVE  Chain(s \o u, a, b)
<1>1. PICK cut \in [0..Len(s) -> Nat] :
        /\ cut[0] = a /\ cut[Len(s)] = b
        /\ \A n \in 1..Len(s) : IsRun(s[n].labels, cut[n - 1], cut[n])
        /\ \A n \in 0..Len(s) : /\ cut[n] <= b
                                /\ (\A i \in (n + 1)..Len(s) : ~ IsAnswer(s[i])) => cut[n] = b
  BY DEF Chain
<1>2. PICK z : z = s \o u  OBVIOUS
<1>3. /\ z \in Seq(S) /\ Len(z) = Len(s) + Len(u) /\ Len(s) \in Nat /\ Len(u) \in Nat
      /\ \A n \in 1..(Len(s) + Len(u)) : /\ n <= Len(s) => z[n] = s[n]
                                         /\ n > Len(s) => z[n] = u[n - Len(s)]
  BY <1>2, ConcatIs
<1>4. a <= b  BY <1>1, <1>3
<1> DEFINE far == [n \in 0..Len(z) |-> IF n <= Len(s) THEN cut[n] ELSE b]
<1>5. /\ far \in [0..Len(z) -> Nat] /\ far[0] = a /\ far[Len(z)] = b
      /\ \A n \in 0..Len(z) : (n <= Len(s) => far[n] = cut[n]) /\ (n >= Len(s) => far[n] = b)
  BY <1>1, <1>3
<1> HIDE DEF far
<1>6. ASSUME NEW n \in 1..Len(z) PROVE IsRun(z[n].labels, far[n - 1], far[n])
  <2>1. CASE n <= Len(s)
    <3>1. n \in 1..Len(s) /\ n - 1 \in 0..Len(z) /\ n \in 0..Len(z)  BY <1>3, <2>1
    <3>2. z[n] = s[n]
      <4>1. n \in 1..(Len(s) + Len(u))  BY <1>3
      <4> QED  BY <1>3, <2>1, <4>1
    <3>2a. far[n] = cut[n]  BY <1>5, <2>1, <3>1
    <3>2b. far[n - 1] = cut[n - 1]
      <4>1. n - 1 <= Len(s)  BY <1>3, <2>1
      <4> QED  BY <1>5, <3>1, <4>1
    <3> QED  BY <1>1, <3>1, <3>2, <3>2a, <3>2b
  <2>2. CASE n > Len(s)
    <3>1. PICK k \in 1..Len(u) : k = n - Len(s)  BY <1>3, <2>2
    <3>2. z[n] = u[k]  BY <1>3, <2>2, <3>1
    <3>5. n \in 0..Len(z) /\ n - 1 \in 0..Len(z) /\ n >= Len(s) /\ n - 1 >= Len(s)  BY <1>3, <2>2
    <3>3. far[n] = b /\ far[n - 1] = b  BY <1>5, <3>5
    <3>4. IsRun(<<>>, b, b)  BY EmptyRun
    <3> QED  BY <3>2, <3>3, <3>4
  <2> QED  BY <1>3, <2>1, <2>2
<1>7. ASSUME NEW n \in 0..Len(z)
      PROVE  /\ far[n] <= b
             /\ (\A i \in (n + 1)..Len(z) : ~ IsAnswer(z[i])) => far[n] = b
  <2>1. CASE n >= Len(s)
    <3>1. far[n] = b  BY <1>5, <2>1
    <3> QED  BY <1>4, <3>1
  <2>2. CASE n < Len(s)
    <3>1. n \in 0..Len(s) /\ far[n] = cut[n]  BY <1>3, <1>5, <2>2
    <3>2. cut[n] <= b  BY <1>1, <3>1
    <3>3. ASSUME \A i \in (n + 1)..Len(z) : ~ IsAnswer(z[i]) PROVE cut[n] = b
      <4>1. \A i \in (n + 1)..Len(s) : i \in (n + 1)..Len(z) /\ z[i] = s[i]  BY <1>3, <3>1
      <4>2. \A i \in (n + 1)..Len(s) : ~ IsAnswer(s[i])  BY <3>3, <4>1
      <4> QED  BY <1>1, <3>1, <4>2
    <3> QED  BY <3>1, <3>2, <3>3
  <2> QED  BY <1>3, <2>1, <2>2
<1>8. Chain(z, a, b)  BY <1>5, <1>6, <1>7 DEF Chain
<1> QED  BY <1>2, <1>8

\* The first message is taken from a chain.
LEMMA ChainTail ==
  ASSUME NEW S, NEW s \in Seq(S), s # <<>>, NEW a \in Nat, NEW b \in Nat, Chain(s, a, b)
  PROVE  \E m \in Nat : IsRun(Head(s).labels, a, m) /\ Chain(Tail(s), m, b)
<1>1. PICK cut \in [0..Len(s) -> Nat] :
        /\ cut[0] = a /\ cut[Len(s)] = b
        /\ \A n \in 1..Len(s) : IsRun(s[n].labels, cut[n - 1], cut[n])
        /\ \A n \in 0..Len(s) : /\ cut[n] <= b
                                /\ (\A i \in (n + 1)..Len(s) : ~ IsAnswer(s[i])) => cut[n] = b
  BY DEF Chain
<1>2. PICK z : z = Tail(s)  OBVIOUS
<1>3. /\ z \in Seq(S) /\ Len(z) = Len(s) - 1 /\ Len(s) \in Nat /\ Len(s) >= 1 /\ Head(s) = s[1]
      /\ \A n \in 1..Len(s) - 1 : z[n] = s[n + 1]
  BY <1>2, TailIs
<1>4. PICK m \in Nat : m = cut[1]
  <2>1. 1 \in 0..Len(s)  BY <1>3
  <2> QED  BY <1>1, <2>1
<1>5. IsRun(Head(s).labels, a, m)
  <2>1. 1 \in 1..Len(s) /\ 1 - 1 = 0  BY <1>3
  <2>2. IsRun(s[1].labels, cut[0], cut[1])  BY <1>1, <2>1
  <2> QED  BY <1>1, <1>3, <1>4, <2>2
<1> DEFINE far == [n \in 0..Len(z) |-> cut[n + 1]]
<1>6. /\ far \in [0..Len(z) -> Nat] /\ far[0] = m /\ far[Len(z)] = b
      /\ \A n \in 0..Len(z) : far[n] = cut[n + 1]
  BY <1>1, <1>3, <1>4
<1> HIDE DEF far
<1>7. ASSUME NEW n \in 1..Len(z) PROVE IsRun(z[n].labels, far[n - 1], far[n])
  <2>1. PICK k \in 1..Len(s) : k = n + 1  BY <1>3
  <2>2. k - 1 = n /\ n - 1 \in 0..Len(z) /\ n \in 0..Len(z) /\ (n - 1) + 1 = n  BY <1>3, <2>1
  <2>3. z[n] = s[k] /\ far[n] = cut[k] /\ far[n - 1] = cut[k - 1]  BY <1>3, <1>6, <2>1, <2>2
  <2>4. IsRun(s[k].labels, cut[k - 1], cut[k])  BY <1>1
  <2> QED  BY <2>3, <2>4
<1>8. ASSUME NEW n \in 0..Len(z)
      PROVE  /\ far[n] <= b
             /\ (\A i \in (n + 1)..Len(z) : ~ IsAnswer(z[i])) => far[n] = b
  <2>1. PICK k \in 0..Len(s) : k = n + 1  BY <1>3
  <2>2. far[n] = cut[k] /\ cut[k] <= b  BY <1>1, <1>6, <2>1
  <2>3. ASSUME \A i \in (n + 1)..Len(z) : ~ IsAnswer(z[i]) PROVE cut[k] = b
    <3>1. ASSUME NEW i \in (k + 1)..Len(s) PROVE ~ IsAnswer(s[i])
      <4>1. PICK j \in (n + 1)..Len(z) : i = j + 1  BY <1>3, <2>1
      <4>2. z[j] = s[i]  BY <1>3, <4>1
      <4> QED  BY <2>3, <4>2
    <3> QED  BY <1>1, <3>1
  <2> QED  BY <2>2, <2>3
<1>9. Chain(z, m, b)  BY <1>6, <1>7, <1>8 DEF Chain
<1> QED  BY <1>2, <1>5, <1>9

-----------------------------------------------------------------------------
(* The shapes of the state.                                                 *)

Id == Prompts \cup Notes
Marks == {"no", "sent", "started"}

Turn == [stage : {"none", "work", "tool", "finish", "stopped"}, labels : Seq(Nat), uuids : Seq(Nat)]
Cli == [input : Seq(Nat), before : Nat, pulled : Seq(Nat), turn : Turn, out : Seq(Msg), context : Nat,
        base : Nat, stopped : Seq(Nat), reread : BOOLEAN]
Side == [inputs : Seq(Nat), sent : [Id -> Marks], seen : BOOLEAN, due : BOOLEAN, compacting : BOOLEAN,
         stopping : BOOLEAN, midTurnFailed : BOOLEAN, turnOpen : BOOLEAN, advancing : BOOLEAN,
         last : Nat, floor : Int, inputEnded : BOOLEAN, closed : BOOLEAN]
Job == [by : {"none", "turn", "mid", "send", "manual"}, id : Nat, labels : Seq(Nat), pump : BOOLEAN]
Worlds == [side : Side, cli : Cli, job : Job]
Spent == [stops : 0..MaxStops, failures : Nat, reads : Nat]
Kinds == Seq({"prompt", "compact"})

\* Only a result carries labels, and the pump awaits the capture of a result only.
MessagesKnown(c, p) ==
  /\ p \in Msg /\ p.t \in {"none", "result", "hook_stopped"} /\ (p.t = "none" => p = NoMessage)
  /\ \A n \in 1..Len(c.out) : ~ IsAnswer(c.out[n]) => c.out[n].labels = <<>>

-----------------------------------------------------------------------------
(* The line of inputs, from those that are answered to those that are held. *)

\* What the live CLI has been given and has not started.
Waiting(c) == (c.pulled \o (IF c.before = 0 THEN <<>> ELSE <<c.before>>)) \o c.input
NoteWaits(c) == Waiting(c) # <<>> /\ Head(Waiting(c)) > MaxInputs
NoAnswer(out) == \A n \in 1..Len(out) : ~ IsAnswer(out[n])
Idle(c) == Waiting(c) = <<>> /\ c.turn.stage = "none" /\ NoAnswer(c.out)

InWaiting(c, x) == \E n \in 1..Len(Waiting(c)) : Waiting(c)[n] = x
InTurn(c, x) == \E n \in 1..Len(c.turn.uuids) : c.turn.uuids[n] = x
InOut(c, t, x) == \E n \in 1..Len(c.out) : c.out[n].t = t /\ c.out[n].id = x
Passed(c, x) == InTurn(c, x) \/ InOut(c, "started", x) \/ InOut(c, "completed", x)

\* A turn that goes on after a compact answers for the inputs of the turn it stopped.
Middle(c, l, d, e) ==
  IF NoteWaits(c) THEN IsRun(c.stopped, l, d) /\ IsRun(Tail(Waiting(c)), d, e)
  ELSE IsRun(c.turn.labels, l, d) /\ IsRun(Waiting(c), d, e)

\* The prompts that were started came in order, and are in the line before those that wait.
Begun(st, d) ==
  /\ st \in Seq(Nat) /\ \A i \in 1..Len(st) : st[i] <= d
  /\ \A i, j \in 1..Len(st) : i < j => st[i] < st[j]

\* A note is passed before the next one is sent.
Behind(c, d, top, strict) ==
  /\ \A x \in Nat : Passed(c, x) => (1 <= x /\ x <= d) \/ (x > MaxInputs /\ x <= top)
  /\ \A x \in Nat : Passed(c, x) /\ x > d /\ (strict \/ NoteWaits(c)) => x < top
  /\ NoteWaits(c) => Head(Waiting(c)) = top

\* a: answered, F: about to be answered, then the results on their way, the turn, what
\* waits in the CLI, and H: held by the session, of n inputs in all.
Line(c, F, H, n, a, st, top, strict) ==
  \E b, l, d, e \in Nat :
    /\ IsRun(a, 0, Len(a)) /\ IsRun(F, Len(a), b) /\ Chain(c.out, b, l) /\ Middle(c, l, d, e)
    /\ IsRun(H, e, n)
    /\ Begun(st, d) /\ Behind(c, d, top, strict)

First(p, j) == IF j.by = "none" THEN p.labels ELSE j.labels
Held(s, j) == IF j.by \in {"send", "manual"} THEN <<j.id>> \o s.inputs ELSE s.inputs
Strict(s, j) == s.stopping \/ j.by = "mid"

InLine(w, k, p, a, st, sp) ==
  Line(w.cli, First(p, w.job), Held(w.side, w.job), Len(k), a, st, MaxInputs + sp.stops,
       Strict(w.side, w.job))

-----------------------------------------------------------------------------
(* What the session says of a prompt, against where the prompt is.          *)

\* A prompt is completed once, after its turn.
Unlike(c) ==
  /\ \A m, n \in 1..Len(c.out) :
       c.out[m].t = "completed" /\ c.out[n].t = "completed" /\ c.out[m].id = c.out[n].id => m = n
  /\ \A n \in 1..Len(c.out) : c.out[n].t = "completed" => ~ InTurn(c, c.out[n].id)
  /\ \A m, n \in 1..Len(c.turn.uuids) : c.turn.uuids[m] = c.turn.uuids[n] => m = n

\* x is the first prompt of the turn whose result is message n: the session holds it as not
\* settled, and once it has heard of its start it has dealt with every earlier result.
Marked(out, sent, p, x, n) ==
  /\ sent[x] # "no"
  /\ sent[x] = "started" => p.t = "none" /\ \A m \in 1..n - 1 : ~ IsAnswer(out[m])
  /\ \A i \in 1..Len(out) : out[i].t = "started" /\ out[i].id = x =>
       \A m \in 1..n - 1 : IsAnswer(out[m]) => m < i

TurnMarked(c, sent, p) ==
  IF c.turn.stage = "none" THEN c.turn = NoTurn
  ELSE /\ ~ NoteWaits(c) /\ c.turn.uuids # <<>>
       /\ Marked(c.out, sent, p, c.turn.uuids[1], Len(c.out) + 1)

AnswersMarked(out, sent, p) ==
  \A n \in 1..Len(out) : IsAnswer(out[n]) =>
    /\ n < Len(out) /\ out[n + 1].t = "completed"
    /\ Marked(out, sent, p, out[n + 1].id, n)

WaitingMarked(c, sent) == \A n \in 1..Len(Waiting(c)) : sent[Waiting(c)[n]] = "sent"

\* The pump awaits the capture of a result whose prompt is not completed yet.
PumpMarked(out, s, p, j) ==
  p.t # "none" => /\ out # <<>> /\ out[1].t = "completed" /\ s.sent[out[1].id] # "no"
                  /\ s.seen /\ j.by = "none"

\* What is not settled is somewhere.
Carried(c, sent, j) ==
  \A x \in Id : sent[x] # "no" /\ j.by # "mid" =>
    InWaiting(c, x) \/ InTurn(c, x) \/ InOut(c, "completed", x)

\* Before the first lifecycle message nothing was started.
SeenKnown(c, s) ==
  ~ s.seen => /\ c.out = <<>> => c.pulled = <<>> /\ c.turn.stage = "none"
              /\ c.out # <<>> => c.out[1].t = "queued"

NoneHeld(sent) == \A x \in Id : sent[x] # "sent"
NoneKept(sent) == \A x \in Id : sent[x] = "no"

JobKnown(s, j, c) ==
  /\ s.compacting <=> j.by # "none"
  /\ s.advancing <=> j.by \in {"send", "manual"}
  /\ j.by = "none" => j = NoJob
  /\ j.by # "none" => Idle(c) /\ ~ s.stopping
  /\ j.by \in {"send", "manual"} => j.labels = <<>>
  /\ j.by \in {"turn", "send", "manual"} => NoneKept(s.sent)
  /\ j.by = "mid" => j.pump /\ NoneHeld(s.sent)

\* A turn that the hook stops is the only thing on its way.
StopKnown(s, j, p, c, sp) ==
  /\ Strict(s, j) => sp.stops > 0
  /\ s.stopping =>
       /\ Waiting(c) = <<>> /\ p.t = "none" /\ NoneHeld(s.sent)
       /\ \/ c.turn.stage = "stopped" /\ NoAnswer(c.out)
          \/ /\ c.turn.stage = "none"
             /\ \E n \in 1..Len(c.out) : IsAnswer(c.out[n]) /\ \A m \in 1..Len(c.out) : IsAnswer(c.out[m]) => m = n

\* A held input has something to wait for, and an ended session closes.
Awake(s) ==
  /\ s.closed => s.inputs = <<>> /\ NoneKept(s.sent) /\ ~ s.compacting /\ ~ s.stopping
  /\ s.inputs # <<>> /\ ~ s.compacting /\ ~ s.stopping => ~ NoneKept(s.sent)
  /\ s.inputEnded /\ s.inputs = <<>> /\ NoneKept(s.sent) /\ ~ s.compacting => s.closed

Shaped(w, k, p, sp) ==
  /\ w \in Worlds /\ k \in Kinds /\ Len(k) <= MaxInputs /\ sp \in Spent /\ MessagesKnown(w.cli, p)

\* Where everything is, against what the session holds of it.
Placed(w, p, sp) ==
  /\ Unlike(w.cli)
  /\ TurnMarked(w.cli, w.side.sent, p) /\ AnswersMarked(w.cli.out, w.side.sent, p)
  /\ WaitingMarked(w.cli, w.side.sent) /\ PumpMarked(w.cli.out, w.side, p, w.job)
  /\ Carried(w.cli, w.side.sent, w.job)
  /\ SeenKnown(w.cli, w.side) /\ JobKnown(w.side, w.job, w.cli)
  /\ StopKnown(w.side, w.job, p, w.cli, sp)

Good(w, k, p, a, st, sp) ==
  /\ Shaped(w, k, p, sp)
  /\ InLine(w, k, p, a, st, sp)
  /\ Placed(w, p, sp)

SessionInv ==
  /\ Good(World, kinds, pump, answers, started, spent)
  /\ Awake(side) /\ read \in BOOLEAN

-----------------------------------------------------------------------------
(* What follows from the invariant about a session that holds nothing.      *)

LEMMA TypesOf ==
  ASSUME NEW w \in Worlds
  PROVE  /\ w.side \in Side /\ w.cli \in Cli /\ w.job \in Job
         /\ w.cli.turn \in Turn /\ w.cli.out \in Seq(Msg) /\ w.cli.turn.uuids \in Seq(Nat)
         /\ w.cli.turn.labels \in Seq(Nat) /\ w.cli.stopped \in Seq(Nat)
         /\ w.cli.input \in Seq(Nat) /\ w.cli.pulled \in Seq(Nat) /\ w.cli.before \in Nat
         /\ w.side.inputs \in Seq(Nat) /\ w.side.sent \in [Id -> Marks]
         /\ w.job.id \in Nat /\ w.job.labels \in Seq(Nat)
BY DEF Worlds, Side, Cli, Job, Turn

LEMMA WaitingTyped ==
  ASSUME NEW c \in Cli
  PROVE  Waiting(c) \in Seq(Nat)
<1>1. c.pulled \in Seq(Nat) /\ c.before \in Nat /\ c.input \in Seq(Nat)  BY DEF Cli
<1>2. PICK u \in Seq(Nat) : u = IF c.before = 0 THEN <<>> ELSE <<c.before>>
  <2>1. <<>> \in Seq(Nat) /\ <<c.before>> \in Seq(Nat)  BY <1>1
  <2>2. (IF c.before = 0 THEN <<>> ELSE <<c.before>>) \in Seq(Nat)  BY <2>1
  <2> QED  BY <2>2
<1>3. c.pulled \o u \in Seq(Nat)  BY <1>1, <1>2
<1> QED  BY <1>1, <1>2, <1>3 DEF Waiting

\* The bounds of a line.
LEMMA LineBounds ==
  ASSUME NEW c \in Cli, NEW F, NEW H, NEW n \in Nat, NEW a, NEW st, NEW top \in Nat, NEW strict \in BOOLEAN,
         Line(c, F, H, n, a, st, top, strict)
  PROVE  \E b, l, d, e \in Nat :
           /\ IsRun(a, 0, Len(a)) /\ IsRun(F, Len(a), b) /\ Chain(c.out, b, l) /\ Middle(c, l, d, e)
           /\ IsRun(H, e, n) /\ Begun(st, d) /\ Behind(c, d, top, strict)
           /\ Len(a) \in Nat /\ Len(a) <= b /\ b <= l /\ l <= d /\ d <= e /\ e <= n
<1>1. PICK b \in Nat, l \in Nat, d \in Nat, e \in Nat :
        /\ IsRun(a, 0, Len(a)) /\ IsRun(F, Len(a), b) /\ Chain(c.out, b, l) /\ Middle(c, l, d, e)
        /\ IsRun(H, e, n) /\ Begun(st, d) /\ Behind(c, d, top, strict)
  BY DEF Line
<1>2. Len(a) \in Nat /\ Len(a) <= b /\ e <= n  BY <1>1 DEF IsRun
<1>3. b <= l
  <2>1. c.out \in Seq(Msg)  BY DEF Cli
  <2> QED  BY <1>1, <2>1, ChainBounds
<1>4. l <= d /\ d <= e  BY <1>1 DEF Middle, IsRun
<1> QED  BY <1>1, <1>2, <1>3, <1>4

\* Where a waiting input stands.
Stands(c, W, d, e, top) ==
  /\ d <= e /\ (NoteWaits(c) => top > MaxInputs)
  /\ \A i \in 1..Len(W) : \/ NoteWaits(c) /\ i = 1 /\ W[i] = top
                          \/ NoteWaits(c) /\ i > 1 /\ W[i] = d + i - 1 /\ d + i - 1 <= e
                          \/ ~ NoteWaits(c) /\ W[i] = d + i /\ d + i <= e

LEMMA WaitingPlaces ==
  ASSUME NEW c \in Cli, NEW l \in Nat, NEW d \in Nat, NEW e \in Nat, NEW top \in Nat, NEW strict,
         Middle(c, l, d, e), Behind(c, d, top, strict), e <= MaxInputs
  PROVE  Waiting(c) \in Seq(Nat) /\ Stands(c, Waiting(c), d, e, top)
<1>1. PICK W \in Seq(Nat) : W = Waiting(c)  BY WaitingTyped
<1>2. MaxInputs \in Nat  BY SessionBounds
<1>3. CASE NoteWaits(c)
  <2>1. W # <<>> /\ Head(W) > MaxInputs /\ Head(W) = top  BY <1>1, <1>3 DEF NoteWaits, Behind
  <2>2. IsRun(Tail(W), d, e)  BY <1>1, <1>3 DEF Middle
  <2>3. /\ Len(Tail(W)) = Len(W) - 1 /\ Len(W) \in Nat /\ Len(W) >= 1 /\ Head(W) = W[1]
        /\ \A i \in 1..Len(W) - 1 : Tail(W)[i] = W[i + 1]
    BY <2>1, TailIs
  <2>4. Len(W) - 1 = e - d /\ d <= e /\ \A i \in 1..Len(W) - 1 : Tail(W)[i] = d + i
    BY <2>2, <2>3 DEF IsRun
  <2>5. ASSUME NEW i \in 1..Len(W), i > 1 PROVE W[i] = d + i - 1 /\ d + i - 1 <= e
    <3>1. PICK k \in 1..Len(W) - 1 : i = k + 1  BY <2>3, <2>5
    <3> QED  BY <2>3, <2>4, <3>1
  <2>6. Stands(c, W, d, e, top)  BY <1>3, <2>1, <2>3, <2>4, <2>5 DEF Stands
  <2> QED  BY <1>1, <2>6
<1>4. CASE ~ NoteWaits(c)
  <2>1. IsRun(W, d, e)  BY <1>1, <1>4 DEF Middle
  <2>2. Len(W) = e - d /\ d <= e /\ \A i \in 1..Len(W) : W[i] = d + i  BY <2>1 DEF IsRun
  <2>3. Stands(c, W, d, e, top)  BY <1>4, <2>2 DEF Stands
  <2> QED  BY <1>1, <2>3
<1> QED  BY <1>3, <1>4

\* What waits was not passed, and waits once.
LEMMA WaitingNew ==
  ASSUME NEW c \in Cli, NEW l \in Nat, NEW d \in Nat, NEW e \in Nat, NEW top \in Nat, NEW strict,
         Middle(c, l, d, e), Behind(c, d, top, strict), e <= MaxInputs
  PROVE  /\ \A i \in 1..Len(Waiting(c)) : ~ Passed(c, Waiting(c)[i])
         /\ \A i, k \in 1..Len(Waiting(c)) : Waiting(c)[i] = Waiting(c)[k] => i = k
<1>1. PICK W \in Seq(Nat) : W = Waiting(c)  BY WaitingTyped
<1>2. MaxInputs \in Nat /\ Len(W) \in Nat  BY SessionBounds
<1>3. /\ d <= e /\ (NoteWaits(c) => top > MaxInputs)
      /\ \A i \in 1..Len(W) : \/ NoteWaits(c) /\ i = 1 /\ W[i] = top
                              \/ NoteWaits(c) /\ i > 1 /\ W[i] = d + i - 1 /\ d + i - 1 <= e
                              \/ ~ NoteWaits(c) /\ W[i] = d + i /\ d + i <= e
  <2>1. Stands(c, Waiting(c), d, e, top)  BY WaitingPlaces
  <2>2. Stands(c, W, d, e, top)  BY <1>1, <2>1
  <2> QED  BY <2>2 DEF Stands
<1>4. ASSUME NEW i \in 1..Len(W), Passed(c, W[i]) PROVE FALSE
  <2>1. PICK x \in Nat : x = W[i]
    <3>1. W[i] \in Nat  OBVIOUS
    <3> QED  BY <3>1
  <2>2. (1 <= x /\ x <= d) \/ (x > MaxInputs /\ x <= top)  BY <1>4, <2>1 DEF Behind
  <2>3. x > d /\ NoteWaits(c) => x < top  BY <1>4, <2>1 DEF Behind
  <2>4. i \in Nat /\ 1 <= i  BY <1>2
  <2>5. CASE NoteWaits(c)
    <3>1. x = top \/ x = d + i - 1  BY <1>3, <2>1, <2>5
    <3>2. CASE x = top
      <4>1. top > MaxInputs /\ d <= e /\ e <= MaxInputs  BY <1>3, <2>5
      <4> QED  BY <1>2, <2>3, <2>5, <3>2, <4>1
    <3>3. CASE x = d + i - 1 /\ x # top
      <4>1. i > 1 /\ x <= e  BY <1>3, <2>1, <2>5, <3>3
      <4>2. x > d /\ x <= MaxInputs  BY <1>2, <2>4, <3>3, <4>1
      <4> QED  BY <1>2, <2>2, <4>2
    <3> QED  BY <3>1, <3>2, <3>3
  <2>6. CASE ~ NoteWaits(c)
    <3>1. x = d + i /\ x <= e  BY <1>3, <2>1, <2>6
    <3>2. x > d /\ x <= MaxInputs  BY <1>2, <2>4, <3>1
    <3> QED  BY <1>2, <2>2, <3>2
  <2> QED  BY <2>5, <2>6
<1>5. ASSUME NEW i \in 1..Len(W), NEW k \in 1..Len(W), W[i] = W[k] PROVE i = k
  <2>0. i \in Nat /\ k \in Nat /\ W[i] \in Nat  OBVIOUS
  <2>1. PICK x \in Nat : x = W[i]  BY <2>0
  <2>2. x = W[k]  BY <1>5, <2>1
  <2>3. CASE NoteWaits(c)
    <3>1. top > MaxInputs /\ (e < top)
      <4>1. top > MaxInputs  BY <1>3, <2>3
      <4> QED  BY <1>2, <4>1
    <3>2. (i = 1 /\ x = top) \/ (i > 1 /\ x = d + i - 1 /\ d + i - 1 <= e)  BY <1>3, <2>1, <2>3
    <3>3. (k = 1 /\ x = top) \/ (k > 1 /\ x = d + k - 1 /\ d + k - 1 <= e)  BY <1>3, <2>2, <2>3
    <3> QED  BY <2>0, <3>1, <3>2, <3>3
  <2>4. CASE ~ NoteWaits(c)
    <3>1. x = d + i  BY <1>3, <2>1, <2>4
    <3>2. x = d + k  BY <1>3, <2>2, <2>4
    <3> QED  BY <2>0, <3>1, <3>2
  <2> QED  BY <2>3, <2>4
<1> QED  BY <1>1, <1>4, <1>5

\* Every id the CLI was given is one the session keeps a mark for.
LEMMA NamedIds ==
  ASSUME NEW c \in Cli, NEW l \in Nat, NEW d \in Nat, NEW e \in Nat, NEW top \in Nat, NEW strict,
         Middle(c, l, d, e), Behind(c, d, top, strict), e <= MaxInputs, top <= MaxInputs + MaxStops
  PROVE  /\ \A i \in 1..Len(Waiting(c)) : Waiting(c)[i] \in Id
         /\ \A x \in Nat : Passed(c, x) => x \in Id
<1>1. PICK W \in Seq(Nat) : W = Waiting(c)  BY WaitingTyped
<1>2. MaxInputs \in Nat /\ MaxStops \in Nat /\ Len(W) \in Nat  BY SessionBounds
<1>3. \A x \in Nat : x \in Id <=> 1 <= x /\ x <= MaxInputs + MaxStops
  BY <1>2 DEF Id, Prompts, Notes
<1>4. /\ d <= e /\ (NoteWaits(c) => top > MaxInputs)
      /\ \A i \in 1..Len(W) : \/ NoteWaits(c) /\ i = 1 /\ W[i] = top
                              \/ NoteWaits(c) /\ i > 1 /\ W[i] = d + i - 1 /\ d + i - 1 <= e
                              \/ ~ NoteWaits(c) /\ W[i] = d + i /\ d + i <= e
  <2>1. Stands(c, Waiting(c), d, e, top)  BY WaitingPlaces
  <2>2. Stands(c, W, d, e, top)  BY <1>1, <2>1
  <2> QED  BY <2>2 DEF Stands
<1>5. ASSUME NEW i \in 1..Len(W) PROVE W[i] \in Id
  <2>1. PICK x \in Nat : x = W[i]
    <3>1. W[i] \in Nat  OBVIOUS
    <3> QED  BY <3>1
  <2>2. 1 <= x /\ x <= MaxInputs + MaxStops
    <3>1. i \in Nat /\ 1 <= i  OBVIOUS
    <3>2. CASE NoteWaits(c)
      <4>1. (x = top /\ top > MaxInputs) \/ (i > 1 /\ x = d + i - 1 /\ d + i - 1 <= e)  BY <1>4, <2>1, <3>2
      <4> QED  BY <1>2, <3>1, <4>1
    <3>3. CASE ~ NoteWaits(c)
      <4>1. x = d + i /\ d + i <= e  BY <1>4, <2>1, <3>3
      <4> QED  BY <1>2, <3>1, <4>1
    <3> QED  BY <3>2, <3>3
  <2> QED  BY <1>3, <2>1, <2>2
<1>6. ASSUME NEW x \in Nat, Passed(c, x) PROVE x \in Id
  <2>1. (1 <= x /\ x <= d) \/ (x > MaxInputs /\ x <= top)  BY <1>6 DEF Behind
  <2> QED  BY <1>2, <1>3, <1>4, <2>1
<1> QED  BY <1>1, <1>5, <1>6

\* A session that has settled everything has an idle CLI and awaits no capture.
LEMMA NoneKeptIdle ==
  ASSUME NEW c \in Cli, NEW s \in Side, NEW p, NEW j, NEW sp, NoneKept(s.sent), MessagesKnown(c, p),
         TurnMarked(c, s.sent, p), AnswersMarked(c.out, s.sent, p), WaitingMarked(c, s.sent),
         PumpMarked(c.out, s, p, j), StopKnown(s, j, p, c, sp),
         \A i \in 1..Len(Waiting(c)) : Waiting(c)[i] \in Id, \A x \in Nat : Passed(c, x) => x \in Id
  PROVE  Idle(c) /\ c.turn = NoTurn /\ p = NoMessage /\ ~ s.stopping
<1>1. PICK W \in Seq(Nat) : W = Waiting(c)  BY WaitingTyped
<1>0. c.out \in Seq(Msg) /\ c.turn \in Turn /\ c.turn.uuids \in Seq(Nat) /\ Len(c.out) \in Nat
  BY DEF Cli, Turn
<1>2. W = <<>>
  <2> SUFFICES ASSUME W # <<>> PROVE FALSE  OBVIOUS
  <2>1. 1 \in 1..Len(W)  OBVIOUS
  <2>2. s.sent[W[1]] = "sent" /\ W[1] \in Id  BY <1>1, <2>1 DEF WaitingMarked
  <2> QED  BY <2>2 DEF NoneKept
<1>3. ASSUME NEW n \in 1..Len(c.out), c.out[n].t = "completed" PROVE s.sent[c.out[n].id] = "no"
  <2>1. c.out[n] \in Msg  BY <1>0
  <2>2. PICK x \in Nat : x = c.out[n].id  BY <2>1 DEF Msg
  <2>3. Passed(c, x)  BY <1>3, <2>2 DEF Passed, InOut
  <2> QED  BY <2>2, <2>3 DEF NoneKept
<1>4. NoAnswer(c.out)
  <2> SUFFICES ASSUME NEW n \in 1..Len(c.out), IsAnswer(c.out[n]) PROVE FALSE  BY DEF NoAnswer
  <2>1. n < Len(c.out) /\ c.out[n + 1].t = "completed" /\ s.sent[c.out[n + 1].id] # "no"
    BY DEF AnswersMarked, Marked
  <2>2. n + 1 \in 1..Len(c.out)  BY <1>0, <2>1
  <2> QED  BY <1>3, <2>1, <2>2
<1>5. c.turn.stage = "none"
  <2> SUFFICES ASSUME c.turn.stage # "none" PROVE FALSE  OBVIOUS
  <2>1. c.turn.uuids # <<>> /\ s.sent[c.turn.uuids[1]] # "no"  BY DEF TurnMarked, Marked
  <2>2. 1 \in 1..Len(c.turn.uuids)  BY <1>0, <2>1
  <2>3. PICK x \in Nat : x = c.turn.uuids[1]  BY <1>0, <2>2
  <2>4. Passed(c, x)  BY <2>2, <2>3 DEF Passed, InTurn
  <2> QED  BY <2>1, <2>3, <2>4 DEF NoneKept
<1>6. p.t = "none"
  <2> SUFFICES ASSUME p.t # "none" PROVE FALSE  OBVIOUS
  <2>1. c.out # <<>> /\ c.out[1].t = "completed" /\ s.sent[c.out[1].id] # "no"  BY DEF PumpMarked
  <2>2. 1 \in 1..Len(c.out)  BY <1>0, <2>1
  <2> QED  BY <1>3, <2>1, <2>2
<1>7. Idle(c)  BY <1>1, <1>2, <1>4, <1>5 DEF Idle
<1>8. ~ s.stopping  BY <1>4, <1>5 DEF StopKnown, NoAnswer
<1> QED  BY <1>5, <1>6, <1>7, <1>8 DEF TurnMarked, MessagesKnown

\* Then everything before the held inputs is answered.
LEMMA IdleLine ==
  ASSUME NEW c \in Cli, NEW F, NEW H, NEW n \in Nat, NEW a, NEW st, NEW top \in Nat, NEW strict \in BOOLEAN,
         Line(c, F, H, n, a, st, top, strict), Idle(c), c.turn = NoTurn
  PROVE  \E d \in Nat :
           /\ IsRun(a, 0, Len(a)) /\ IsRun(F, Len(a), d) /\ IsRun(H, d, n)
           /\ Begun(st, d) /\ Behind(c, d, top, strict) /\ Len(a) \in Nat /\ Len(a) <= d /\ d <= n
<1>1. PICK b \in Nat, l \in Nat, d \in Nat, e \in Nat :
        /\ IsRun(a, 0, Len(a)) /\ IsRun(F, Len(a), b) /\ Chain(c.out, b, l) /\ Middle(c, l, d, e)
        /\ IsRun(H, e, n) /\ Begun(st, d) /\ Behind(c, d, top, strict)
        /\ Len(a) \in Nat /\ Len(a) <= b /\ b <= l /\ l <= d /\ d <= e /\ e <= n
  BY LineBounds
<1>2. b = l
  <2>1. c.out \in Seq(Msg)  BY DEF Cli
  <2>2. \A m \in 1..Len(c.out) : ~ IsAnswer(c.out[m])  BY DEF Idle, NoAnswer
  <2> QED  BY <1>1, <2>1, <2>2, ChainBounds
<1>3. Waiting(c) = <<>> /\ ~ NoteWaits(c)  BY DEF Idle, NoteWaits
<1>4. IsRun(<<>>, l, d) /\ IsRun(<<>>, d, e)  BY <1>1, <1>3 DEF Middle, NoTurn
<1>5. l = d /\ d = e  BY <1>4, EmptyRun
<1> QED  BY <1>1, <1>2, <1>5

-----------------------------------------------------------------------------
(* What the invariant does not look at.                                     *)

CliSame(c, x) ==
  /\ x.out = c.out /\ x.turn = c.turn /\ x.stopped = c.stopped
  /\ Waiting(x) = Waiting(c)

LEMMA LineFrame ==
  ASSUME NEW c, NEW x, CliSame(c, x), NEW F, NEW H, NEW n, NEW a, NEW st, NEW top, NEW strict,
         Line(c, F, H, n, a, st, top, strict)
  PROVE  Line(x, F, H, n, a, st, top, strict)
<1>1. x.out = c.out /\ x.turn = c.turn /\ x.stopped = c.stopped /\ Waiting(x) = Waiting(c)
  BY DEF CliSame
<1>2. NoteWaits(x) <=> NoteWaits(c)  BY <1>1 DEF NoteWaits
<1>3. \A y : Passed(x, y) <=> Passed(c, y)  BY <1>1 DEF Passed, InTurn, InOut
<1>4. PICK b \in Nat, l \in Nat, d \in Nat, e \in Nat :
        /\ IsRun(a, 0, Len(a)) /\ IsRun(F, Len(a), b) /\ Chain(c.out, b, l) /\ Middle(c, l, d, e)
        /\ IsRun(H, e, n)
        /\ Begun(st, d) /\ Behind(c, d, top, strict)
  BY DEF Line
<1>5. Middle(x, l, d, e)  BY <1>1, <1>2, <1>4 DEF Middle
<1>6. Behind(x, d, top, strict)  BY <1>1, <1>2, <1>3, <1>4 DEF Behind
<1> QED  BY <1>1, <1>4, <1>5, <1>6 DEF Line

\* Of the session's fields, those are what places a prompt.
MarksSame(s, x) ==
  /\ x.sent = s.sent /\ x.seen = s.seen /\ x.compacting = s.compacting
  /\ x.stopping = s.stopping /\ x.advancing = s.advancing

LEMMA PlacedFrame ==
  ASSUME NEW w, NEW x, NEW p, NEW sp, Placed(w, p, sp),
         CliSame(w.cli, x.cli), MarksSame(w.side, x.side), x.job = w.job,
         x.cli.pulled = w.cli.pulled \/ x.cli.out # <<>>
  PROVE  Placed(x, p, sp)
<1> DEFINE c == w.cli
           s == w.side
           j == w.job
<1>1. /\ x.cli.out = c.out /\ x.cli.turn = c.turn /\ x.cli.stopped = c.stopped
      /\ Waiting(x.cli) = Waiting(c)
  BY DEF CliSame
<1>2. /\ x.side.sent = s.sent /\ x.side.seen = s.seen /\ x.side.compacting = s.compacting
      /\ x.side.stopping = s.stopping /\ x.side.advancing = s.advancing
  BY DEF MarksSame
<1>5. Unlike(x.cli)  BY <1>1 DEF Placed, Unlike, InTurn
<1>6. TurnMarked(x.cli, x.side.sent, p)
  <2>1. NoteWaits(x.cli) <=> NoteWaits(c)  BY <1>1 DEF NoteWaits
  <2>2. TurnMarked(c, s.sent, p)  BY DEF Placed
  <2> QED  BY <1>1, <1>2, <2>1, <2>2 DEF TurnMarked
<1>7. AnswersMarked(x.cli.out, x.side.sent, p)  BY <1>1, <1>2 DEF Placed
<1>8. WaitingMarked(x.cli, x.side.sent)  BY <1>1, <1>2 DEF Placed, WaitingMarked
<1>9. PumpMarked(x.cli.out, x.side, p, x.job)  BY <1>1, <1>2 DEF Placed, PumpMarked
<1>10. Carried(x.cli, x.side.sent, x.job)  BY <1>1, <1>2 DEF Placed, Carried, InWaiting, InTurn, InOut
<1>11. SeenKnown(x.cli, x.side)  BY <1>1, <1>2 DEF Placed, SeenKnown
<1>12. JobKnown(x.side, x.job, x.cli)
  <2>1. Idle(c) => Idle(x.cli)  BY <1>1 DEF Idle
  <2>2. JobKnown(s, j, c)  BY DEF Placed
  <2> QED  BY <1>2, <2>1, <2>2 DEF JobKnown
<1>13. StopKnown(x.side, x.job, p, x.cli, sp)
  <2>1. StopKnown(s, j, p, c, sp)  BY DEF Placed
  <2>2. Strict(x.side, x.job) = Strict(s, j)  BY <1>2 DEF Strict
  <2> QED  BY <1>1, <1>2, <2>1, <2>2 DEF StopKnown
<1> QED  BY <1>5, <1>6, <1>7, <1>8, <1>9, <1>10, <1>11, <1>12, <1>13 DEF Placed

LEMMA GoodFrame ==
  ASSUME NEW w, NEW x \in Worlds, NEW k, NEW p, NEW a, NEW st, NEW sp, Good(w, k, p, a, st, sp),
         CliSame(w.cli, x.cli), MarksSame(w.side, x.side), x.side.inputs = w.side.inputs, x.job = w.job,
         x.cli.pulled = w.cli.pulled \/ x.cli.out # <<>>
  PROVE  Good(x, k, p, a, st, sp)
<1> DEFINE c == w.cli
           s == w.side
           j == w.job
<1>1. x.cli.out = c.out  BY DEF CliSame
<1>2. Held(x.side, x.job) = Held(s, j) /\ Strict(x.side, x.job) = Strict(s, j)
  BY DEF Held, Strict, MarksSame
<1>3. Shaped(x, k, p, sp)  BY <1>1 DEF Good, Shaped, MessagesKnown
<1>4. Line(c, First(p, j), Held(s, j), Len(k), a, st, MaxInputs + sp.stops, Strict(s, j))
  BY DEF Good, InLine
<1>5. Line(x.cli, First(p, j), Held(s, j), Len(k), a, st, MaxInputs + sp.stops, Strict(s, j))
  BY <1>4, LineFrame
<1>6. InLine(x, k, p, a, st, sp)  BY <1>2, <1>5 DEF InLine
<1>7. Placed(w, p, sp)  BY DEF Good
<1>8. Placed(x, p, sp)  BY <1>7, PlacedFrame
<1> QED  BY <1>3, <1>6, <1>8 DEF Good

-----------------------------------------------------------------------------
(* A held prompt is sent.                                                   *)

LEMMA WaitingSent ==
  ASSUME NEW c \in Cli, NEW x \in Cli, NEW id \in Nat,
         x = [c EXCEPT !.input = Append(@, id)]
  PROVE  Waiting(x) = Append(Waiting(c), id)
<1>1. c.pulled \in Seq(Nat) /\ c.before \in Nat /\ c.input \in Seq(Nat)  BY DEF Cli
<1>2. PICK u \in Seq(Nat) : u = IF c.before = 0 THEN <<>> ELSE <<c.before>>
  <2>1. <<>> \in Seq(Nat) /\ <<c.before>> \in Seq(Nat)  BY <1>1
  <2>2. (IF c.before = 0 THEN <<>> ELSE <<c.before>>) \in Seq(Nat)  BY <2>1
  <2> QED  BY <2>2
<1>3. PICK v \in Seq(Nat) : v = c.pulled \o u
  <2>1. c.pulled \o u \in Seq(Nat)  BY <1>1
  <2> QED  BY <2>1
<1>4. PICK i \in Seq(Nat) : i = c.input  BY <1>1
<1>5. Waiting(c) = v \o i  BY <1>2, <1>3, <1>4 DEF Waiting
<1>6. x.pulled = c.pulled /\ x.before = c.before /\ x.input = Append(i, id)  BY <1>4 DEF Cli
<1>7. Waiting(x) = v \o Append(i, id)
  <2>1. Waiting(x) = (x.pulled \o (IF x.before = 0 THEN <<>> ELSE <<x.before>>)) \o x.input  BY DEF Waiting
  <2> QED  BY <1>2, <1>3, <1>6, <2>1
<1>8. v \o Append(i, id) = Append(v \o i, id)
  <2>1. Join(v, Append(i, id)) = Append(Join(v, i), id)  BY JoinAppend
  <2> QED  BY <2>1 DEF Join
<1> QED  BY <1>5, <1>7, <1>8

LEMMA LineSend ==
  ASSUME NEW c \in Cli, NEW x \in Cli, NEW id \in Nat, NEW F, NEW H \in Seq(Nat), H # <<>>, id = Head(H),
         NEW n \in Nat, n <= MaxInputs, NEW a, NEW st, NEW top \in Nat, NEW strict \in BOOLEAN,
         x.out = c.out, x.turn = c.turn, x.stopped = c.stopped, Waiting(x) = Append(Waiting(c), id),
         Line(c, F, H, n, a, st, top, strict)
  PROVE  /\ Line(x, F, Tail(H), n, a, st, top, strict)
         /\ id <= n /\ id >= 1 /\ (NoteWaits(x) => NoteWaits(c))
<1>0. MaxInputs \in Nat  BY SessionBounds
<1>1. PICK b \in Nat, l \in Nat, d \in Nat, e \in Nat :
        /\ IsRun(a, 0, Len(a)) /\ IsRun(F, Len(a), b) /\ Chain(c.out, b, l) /\ Middle(c, l, d, e)
        /\ IsRun(H, e, n) /\ Begun(st, d) /\ Behind(c, d, top, strict)
        /\ Len(a) \in Nat /\ Len(a) <= b /\ b <= l /\ l <= d /\ d <= e /\ e <= n
  BY LineBounds
<1>2. id = e + 1 /\ IsRun(Tail(H), e + 1, n)  BY <1>1, RunTail
<1>3. e + 1 <= n  BY <1>2 DEF IsRun
<1>4. PICK W \in Seq(Nat) : W = Waiting(c)  BY WaitingTyped
<1>5. PICK V : V = Append(W, id)  OBVIOUS
<1>6. Waiting(x) = V /\ V \in Seq(Nat) /\ V # <<>>  BY <1>4, <1>5
<1>7. W = <<>> => Head(V) = id  BY <1>5
<1>8. W # <<>> => Head(V) = Head(W) /\ Tail(V) = Append(Tail(W), id)
  BY <1>5, HeadTailAppend
<1>9. NoteWaits(x) <=> NoteWaits(c)
  <2>1. NoteWaits(x) <=> Head(V) > MaxInputs  BY <1>6 DEF NoteWaits
  <2>2. NoteWaits(c) <=> W # <<>> /\ Head(W) > MaxInputs  BY <1>4 DEF NoteWaits
  <2>3. CASE W # <<>>  BY <1>8, <2>1, <2>2, <2>3
  <2>4. CASE W = <<>>
    <3>1. ~ (id > MaxInputs)
      <4>1. MaxInputs \in Nat  BY SessionBounds
      <4>2. id <= n  BY <1>2, <1>3
      <4> QED  BY <1>0, <4>1, <4>2
    <3> QED  BY <1>7, <2>1, <2>2, <2>4, <3>1
  <2> QED  BY <2>3, <2>4
<1>10. NoteWaits(c) => Head(V) = Head(W)  BY <1>4, <1>8 DEF NoteWaits
<1>11. Middle(x, l, d, e + 1)
  <2>1. CASE NoteWaits(c)
    <3>1. IsRun(c.stopped, l, d) /\ IsRun(Tail(W), d, e) /\ W # <<>>
      BY <1>1, <1>4, <2>1 DEF Middle, NoteWaits
    <3>2. IsRun(Append(Tail(W), e + 1), d, e + 1)  BY <3>1, RunAppend
    <3>3. Tail(V) = Append(Tail(W), e + 1)  BY <1>2, <1>8, <3>1
    <3> QED  BY <1>6, <1>9, <2>1, <3>1, <3>2, <3>3 DEF Middle
  <2>2. CASE ~ NoteWaits(c)
    <3>1. IsRun(c.turn.labels, l, d) /\ IsRun(W, d, e)  BY <1>1, <1>4, <2>2 DEF Middle
    <3>2. IsRun(V, d, e + 1)  BY <1>2, <1>5, <3>1, RunAppend
    <3> QED  BY <1>6, <1>9, <2>2, <3>1, <3>2 DEF Middle
  <2> QED  BY <2>1, <2>2
<1>12. Behind(x, d, top, strict)
  <2>1. \A y : Passed(x, y) <=> Passed(c, y)  BY DEF Passed, InTurn, InOut
  <2> QED  BY <1>1, <1>4, <1>6, <1>9, <1>10, <2>1 DEF Behind
<1>13. Line(x, F, Tail(H), n, a, st, top, strict)
  BY <1>1, <1>2, <1>11, <1>12 DEF Line
<1> QED  BY <1>2, <1>3, <1>9, <1>13

\* A mark that is set to "sent" changes nothing for the messages on their way.
LEMMA MarkedSent ==
  ASSUME NEW out, NEW sent \in [Id -> Marks], NEW next, NEW id \in Id, next = [sent EXCEPT ![id] = "sent"],
         NEW p, NEW x, NEW n, Marked(out, sent, p, x, n), x \in Id
  PROVE  Marked(out, next, p, x, n)
<1>1. next[x] = sent[x] \/ next[x] = "sent"  OBVIOUS
<1> QED  BY <1>1 DEF Marked

LEMMA AnswersSent ==
  ASSUME NEW c \in Cli, NEW sent \in [Id -> Marks], NEW next, NEW id \in Id, next = [sent EXCEPT ![id] = "sent"],
         NEW p, AnswersMarked(c.out, sent, p), \A x \in Nat : Passed(c, x) => x \in Id
  PROVE  AnswersMarked(c.out, next, p)
<1>0. c.out \in Seq(Msg) /\ Len(c.out) \in Nat  BY DEF Cli
<1> SUFFICES ASSUME NEW n \in 1..Len(c.out), IsAnswer(c.out[n])
             PROVE  /\ n < Len(c.out) /\ c.out[n + 1].t = "completed"
                    /\ Marked(c.out, next, p, c.out[n + 1].id, n)
  BY DEF AnswersMarked
<1>1. n < Len(c.out) /\ c.out[n + 1].t = "completed" /\ Marked(c.out, sent, p, c.out[n + 1].id, n)
  BY DEF AnswersMarked
<1>2. n + 1 \in 1..Len(c.out) /\ c.out[n + 1] \in Msg  BY <1>0, <1>1
<1>3. PICK x \in Nat : x = c.out[n + 1].id  BY <1>2 DEF Msg
<1>4. x \in Id  BY <1>1, <1>2, <1>3 DEF Passed, InOut
<1>5. Marked(c.out, next, p, x, n)  BY <1>1, <1>3, <1>4, MarkedSent
<1> QED  BY <1>1, <1>3, <1>5

\* What the invariant says of the marks, for ids the session knows.
LEMMA GoodIds ==
  ASSUME NEW w, NEW k, NEW p, NEW a, NEW st, NEW sp, Good(w, k, p, a, st, sp)
  PROVE  /\ w \in Worlds /\ w.cli \in Cli /\ w.side \in Side /\ w.job \in Job /\ sp \in Spent
         /\ Len(k) \in Nat /\ Len(k) <= MaxInputs /\ MaxInputs \in Nat /\ MaxStops \in Nat
         /\ MaxInputs + sp.stops \in Nat /\ MaxInputs + sp.stops <= MaxInputs + MaxStops
         /\ Strict(w.side, w.job) \in BOOLEAN
         /\ \A i \in 1..Len(Waiting(w.cli)) : Waiting(w.cli)[i] \in Id
         /\ \A x \in Nat : Passed(w.cli, x) => x \in Id
<1>1. w \in Worlds /\ k \in Kinds /\ Len(k) <= MaxInputs /\ sp \in Spent  BY DEF Good, Placed, Shaped
<1>2. w.cli \in Cli /\ w.side \in Side /\ w.job \in Job  BY <1>1, TypesOf
<1>3. MaxInputs \in Nat /\ MaxStops \in Nat  BY SessionBounds
<1>4. sp.stops \in Nat /\ sp.stops <= MaxStops  BY <1>1, <1>3 DEF Spent
<1>5. Len(k) \in Nat  BY <1>1 DEF Kinds
<1>6. Strict(w.side, w.job) \in BOOLEAN
  <2>1. w.side.stopping \in BOOLEAN /\ (w.job.by = "mid") \in BOOLEAN  BY <1>2 DEF Side
  <2> QED  BY <2>1 DEF Strict
<1>7. PICK top \in Nat : top = MaxInputs + sp.stops  BY <1>3, <1>4
<1>8. PICK c \in Cli : c = w.cli  BY <1>2
<1>9. Line(c, First(p, w.job), Held(w.side, w.job), Len(k), a, st, top, Strict(w.side, w.job))
  BY <1>7, <1>8 DEF Good, Placed, InLine
<1>10. PICK l \in Nat, d \in Nat, e \in Nat :
         Middle(c, l, d, e) /\ Behind(c, d, top, Strict(w.side, w.job)) /\ e <= Len(k)
  BY <1>5, <1>6, <1>9, LineBounds
<1>11. e <= MaxInputs /\ top <= MaxInputs + MaxStops  BY <1>1, <1>3, <1>4, <1>5, <1>7, <1>10
<1>12. (\A i \in 1..Len(Waiting(c)) : Waiting(c)[i] \in Id) /\ \A x \in Nat : Passed(c, x) => x \in Id
  BY <1>10, <1>11, NamedIds
<1> QED  BY <1>1, <1>2, <1>3, <1>4, <1>5, <1>6, <1>7, <1>8, <1>11, <1>12

\* A prompt at the head of what is held is sent to the CLI.
SendsHead(w, x, id) ==
  /\ w.side.inputs # <<>> /\ id = Head(w.side.inputs)
  /\ x.cli = [w.cli EXCEPT !.input = Append(@, id)]
  /\ x.side.inputs = Tail(w.side.inputs) /\ x.side.sent = [w.side.sent EXCEPT ![id] = "sent"]
  /\ x.side.seen = w.side.seen /\ x.side.compacting = w.side.compacting
  /\ x.side.stopping = w.side.stopping /\ x.side.advancing = w.side.advancing
  /\ x.job = w.job

LEMMA SendKeeps ==
  ASSUME NEW w, NEW k, NEW p, NEW a, NEW st, NEW sp, Good(w, k, p, a, st, sp),
         w.job.by = "none", ~ w.side.stopping, NEW x \in Worlds, NEW id, SendsHead(w, x, id)
  PROVE  Good(x, k, p, a, st, sp) /\ ~ NoneKept(x.side.sent)
<1>1. /\ w \in Worlds /\ w.cli \in Cli /\ w.side \in Side /\ w.job \in Job /\ sp \in Spent
      /\ Len(k) \in Nat /\ Len(k) <= MaxInputs /\ MaxInputs \in Nat /\ MaxStops \in Nat
      /\ MaxInputs + sp.stops \in Nat /\ Strict(w.side, w.job) \in BOOLEAN
      /\ \A i \in 1..Len(Waiting(w.cli)) : Waiting(w.cli)[i] \in Id
      /\ \A y \in Nat : Passed(w.cli, y) => y \in Id
  BY GoodIds
<1>2. x.cli \in Cli /\ x.side \in Side /\ x.job \in Job  BY TypesOf
<1>3. PICK H \in Seq(Nat) : H = w.side.inputs  BY <1>1 DEF Side
<1>4. H # <<>> /\ id = Head(H) /\ id \in Nat /\ x.side.inputs = Tail(H)
  BY <1>3 DEF SendsHead
<1>5. PICK c \in Cli, y \in Cli : c = w.cli /\ y = x.cli  BY <1>1, <1>2
<1>6. y = [c EXCEPT !.input = Append(@, id)]  BY <1>5 DEF SendsHead
<1>7. /\ y.out = c.out /\ y.turn = c.turn /\ y.stopped = c.stopped /\ y.pulled = c.pulled
      /\ Waiting(y) = Append(Waiting(c), id)
  BY <1>4, <1>6, WaitingSent DEF Cli
<1>8. PICK sent \in [Id -> Marks], next \in [Id -> Marks] : sent = w.side.sent /\ next = x.side.sent
  BY <1>1, <1>2 DEF Side
<1>9. Held(w.side, w.job) = H /\ Held(x.side, x.job) = Tail(H)
      /\ First(p, x.job) = First(p, w.job) /\ Strict(x.side, x.job) = Strict(w.side, w.job)
  BY <1>3, <1>4 DEF Held, First, Strict, SendsHead
<1>10. PICK top \in Nat, strict \in BOOLEAN : top = MaxInputs + sp.stops /\ strict = Strict(w.side, w.job)
  BY <1>1
<1>11. Line(c, First(p, w.job), H, Len(k), a, st, top, strict)
  BY <1>5, <1>9, <1>10 DEF Good, Placed, InLine
<1>12. /\ Line(y, First(p, w.job), Tail(H), Len(k), a, st, top, strict)
       /\ id <= Len(k) /\ id >= 1 /\ (NoteWaits(y) => NoteWaits(c))
  <2>1. PICK n \in Nat : n = Len(k) /\ n <= MaxInputs  BY <1>1
  <2>2. Line(c, First(p, w.job), H, n, a, st, top, strict)  BY <1>11, <2>1
  <2>3. H # <<>> /\ id = Head(H) /\ id \in Nat  BY <1>4
  <2>4. /\ Line(y, First(p, w.job), Tail(H), n, a, st, top, strict)
        /\ id <= n /\ id >= 1 /\ (NoteWaits(y) => NoteWaits(c))
    BY <1>7, <2>1, <2>2, <2>3, LineSend
  <2> QED  BY <2>1, <2>4
<1>13. id \in Id  BY <1>1, <1>4, <1>12 DEF Id, Prompts
<1>14. next = [sent EXCEPT ![id] = "sent"]  BY <1>8 DEF SendsHead
<1>15. next[id] = "sent" /\ \A z \in Id : next[z] = sent[z] \/ (z = id /\ next[z] = "sent")
  BY <1>13, <1>14
<1>16. Shaped(x, k, p, sp)  BY <1>5, <1>7 DEF Good, Placed, Shaped, MessagesKnown
<1>17. InLine(x, k, p, a, st, sp)  BY <1>5, <1>9, <1>10, <1>12 DEF InLine
<1>18. Unlike(y)
  <2>1. Unlike(c)  BY <1>5 DEF Good, Placed
  <2> QED  BY <1>7, <2>1 DEF Unlike, InTurn
<1>19. TurnMarked(y, next, p)
  <2>1. TurnMarked(c, sent, p)  BY <1>5, <1>8 DEF Good, Placed
  <2>2. CASE c.turn.stage = "none"  BY <1>7, <2>1, <2>2 DEF TurnMarked
  <2>3. CASE c.turn.stage # "none"
    <3>1. ~ NoteWaits(c) /\ c.turn.uuids # <<>> /\ Marked(c.out, sent, p, c.turn.uuids[1], Len(c.out) + 1)
      BY <2>1, <2>3 DEF TurnMarked
    <3>2. c.turn.uuids \in Seq(Nat)  BY DEF Cli, Turn
    <3>3. 1 \in 1..Len(c.turn.uuids)  BY <3>1, <3>2
    <3>4. PICK z \in Nat : z = c.turn.uuids[1]  BY <3>2, <3>3
    <3>5. z \in Id  BY <1>1, <1>5, <3>3, <3>4 DEF Passed, InTurn
    <3>6. Marked(c.out, next, p, z, Len(c.out) + 1)  BY <1>13, <1>14, <3>1, <3>4, <3>5, MarkedSent
    <3> QED  BY <1>7, <1>12, <2>3, <3>1, <3>4, <3>6 DEF TurnMarked
  <2> QED  BY <2>2, <2>3
<1>20. AnswersMarked(y.out, next, p)
  <2>1. AnswersMarked(c.out, sent, p)  BY <1>5, <1>8 DEF Good, Placed
  <2> QED  BY <1>1, <1>5, <1>7, <1>13, <1>14, <2>1, AnswersSent
<1>21. WaitingMarked(y, next)
  <2>1. WaitingMarked(c, sent)  BY <1>5, <1>8 DEF Good, Placed
  <2>2. PICK W \in Seq(Nat) : W = Waiting(c)  BY WaitingTyped
  <2>3. /\ Len(Append(W, id)) = Len(W) + 1 /\ Append(W, id)[Len(W) + 1] = id /\ Len(W) \in Nat
        /\ \A n \in 1..Len(W) : Append(W, id)[n] = W[n]
    BY <1>4, <2>2, AppendIs
  <2>4. \A n \in 1..Len(W) : W[n] \in Id /\ sent[W[n]] = "sent"
    BY <1>1, <1>5, <2>1, <2>2 DEF WaitingMarked
  <2>5. \A n \in 1..Len(W) : next[W[n]] = "sent"  BY <1>15, <2>4
  <2>6. PICK V : V = Append(W, id)  OBVIOUS
  <2>7. ASSUME NEW n \in 1..Len(V) PROVE next[V[n]] = "sent"
    <3>1. CASE n \in 1..Len(W)  BY <2>3, <2>5, <2>6, <3>1
    <3>2. CASE n = Len(W) + 1  BY <1>15, <2>3, <2>6, <3>2
    <3> QED  BY <2>3, <2>6, <3>1, <3>2
  <2> QED  BY <1>7, <2>2, <2>6, <2>7 DEF WaitingMarked
<1>22. PumpMarked(y.out, x.side, p, x.job)
  <2>1. PumpMarked(c.out, w.side, p, w.job)  BY <1>5 DEF Good, Placed
  <2> SUFFICES ASSUME p.t # "none"
               PROVE  /\ y.out # <<>> /\ y.out[1].t = "completed" /\ x.side.sent[y.out[1].id] # "no"
                      /\ x.side.seen /\ x.job.by = "none"
    BY DEF PumpMarked
  <2>2. c.out # <<>> /\ c.out[1].t = "completed" /\ sent[c.out[1].id] # "no" /\ w.side.seen
    BY <1>8, <2>1 DEF PumpMarked
  <2>3. c.out \in Seq(Msg)  BY DEF Cli
  <2>4. 1 \in 1..Len(c.out) /\ c.out[1] \in Msg  BY <2>2, <2>3
  <2>5. PICK z \in Nat : z = c.out[1].id  BY <2>4 DEF Msg
  <2>6. z \in Id  BY <1>1, <1>5, <2>2, <2>4, <2>5 DEF Passed, InOut
  <2>7. next[z] # "no"  BY <1>15, <2>2, <2>5, <2>6
  <2> QED  BY <1>7, <1>8, <2>2, <2>5, <2>7 DEF SendsHead
<1>23. Carried(y, next, x.job)
  <2>1. Carried(c, sent, w.job)  BY <1>5, <1>8 DEF Good, Placed
  <2> SUFFICES ASSUME NEW z \in Id, next[z] # "no", w.job.by # "mid"
               PROVE  InWaiting(y, z) \/ InTurn(y, z) \/ InOut(y, "completed", z)
    BY DEF Carried, SendsHead
  <2>2. PICK W \in Seq(Nat) : W = Waiting(c)  BY WaitingTyped
  <2>3. PICK V : V = Append(W, id)  OBVIOUS
  <2>4. /\ Len(V) = Len(W) + 1 /\ V[Len(W) + 1] = id /\ Len(W) \in Nat
        /\ \A n \in 1..Len(W) : V[n] = W[n]
    BY <1>4, <2>2, <2>3, AppendIs
  <2>5. Waiting(y) = V  BY <1>7, <2>2, <2>3
  <2>6. CASE z = id
    <3>1. Len(W) + 1 \in 1..Len(V)  BY <2>4
    <3> QED  BY <2>4, <2>5, <2>6, <3>1 DEF InWaiting
  <2>7. CASE z # id
    <3>1. InWaiting(c, z) \/ InTurn(c, z) \/ InOut(c, "completed", z)  BY <1>15, <2>1, <2>7 DEF Carried
    <3>2. InTurn(c, z) => InTurn(y, z)  BY <1>7 DEF InTurn
    <3>3. InOut(c, "completed", z) => InOut(y, "completed", z)  BY <1>7 DEF InOut
    <3>4. ASSUME InWaiting(c, z) PROVE InWaiting(y, z)
      <4>1. PICK n \in 1..Len(W) : W[n] = z  BY <2>2, <3>4 DEF InWaiting
      <4>2. n \in 1..Len(V) /\ V[n] = z  BY <2>4, <4>1
      <4> QED  BY <2>5, <4>2 DEF InWaiting
    <3> QED  BY <3>1, <3>2, <3>3, <3>4
  <2> QED  BY <2>6, <2>7
<1>24. SeenKnown(y, x.side)  BY <1>5, <1>7 DEF Good, Placed, SeenKnown, SendsHead
<1>25. JobKnown(x.side, x.job, y)  BY <1>1 DEF Good, Placed, JobKnown, SendsHead
<1>26. StopKnown(x.side, x.job, p, y, sp)  BY <1>9 DEF Good, Placed, StopKnown, SendsHead
<1>27. ~ NoneKept(next)  BY <1>13, <1>15 DEF NoneKept
<1> QED  BY <1>5, <1>8, <1>16, <1>17, <1>18, <1>19, <1>20, <1>21, <1>22, <1>23, <1>24, <1>25, <1>26, <1>27
         DEF Good, Placed

-----------------------------------------------------------------------------
(* An input is held.                                                        *)

LEMMA LineHold ==
  ASSUME NEW c, NEW F, NEW H, NEW n \in Nat, NEW a, NEW st, NEW top, NEW strict,
         Line(c, F, H, n, a, st, top, strict)
  PROVE  Line(c, F, Append(H, n + 1), n + 1, a, st, top, strict)
<1>1. PICK b \in Nat, l \in Nat, d \in Nat, e \in Nat :
        /\ IsRun(a, 0, Len(a)) /\ IsRun(F, Len(a), b) /\ Chain(c.out, b, l) /\ Middle(c, l, d, e)
        /\ IsRun(H, e, n)
        /\ Begun(st, d) /\ Behind(c, d, top, strict)
  BY DEF Line
<1>2. IsRun(Append(H, n + 1), e, n + 1)  BY <1>1, RunAppend
<1> QED  BY <1>1, <1>2 DEF Line

LEMMA HeldAppend ==
  ASSUME NEW s \in Side, NEW j \in Job, NEW x \in Side, NEW id \in Nat, x.inputs = Append(s.inputs, id)
  PROVE  Held(x, j) = Append(Held(s, j), id)
<1>1. PICK i \in Seq(Nat) : i = s.inputs  BY DEF Side
<1>2. CASE j.by \in {"send", "manual"}
  <2>1. PICK z \in Nat : z = j.id  BY DEF Job
  <2>2. <<z>> \o Append(i, id) = Append(<<z>> \o i, id)  OBVIOUS
  <2> QED  BY <1>1, <1>2, <2>1, <2>2 DEF Held
<1>3. CASE j.by \notin {"send", "manual"}  BY <1>3 DEF Held
<1> QED  BY <1>2, <1>3

LEMMA HoldKeeps ==
  ASSUME NEW w, NEW k, NEW p, NEW a, NEW st, NEW sp, Good(w, k, p, a, st, sp),
         NEW kind \in {"prompt", "compact"}, Len(k) < MaxInputs, NEW x \in Worlds,
         x.cli = w.cli, x.job = w.job, MarksSame(w.side, x.side),
         x.side.inputs = Append(w.side.inputs, Len(k) + 1)
  PROVE  Good(x, Append(k, kind), p, a, st, sp)
<1>1. /\ w \in Worlds /\ w.side \in Side /\ w.job \in Job /\ MaxInputs \in Nat
      /\ k \in Kinds /\ Len(k) \in Nat
  BY GoodIds DEF Good, Shaped
<1>2. x.side \in Side  BY TypesOf
<1>3. PICK n \in Nat : n = Len(k)  BY <1>1
<1>4. PICK K : K = Append(k, kind)  OBVIOUS
<1>5. K \in Kinds /\ Len(K) = n + 1  BY <1>1, <1>3, <1>4 DEF Kinds
<1>6. Held(x.side, x.job) = Append(Held(w.side, w.job), n + 1)
  <2>1. PICK m \in Nat : m = n + 1  OBVIOUS
  <2>2. x.side.inputs = Append(w.side.inputs, m)  BY <1>3, <2>1
  <2>3. Held(x.side, w.job) = Append(Held(w.side, w.job), m)  BY <1>1, <1>2, <2>2, HeldAppend
  <2> QED  BY <2>1, <2>3
<1>7. Strict(x.side, x.job) = Strict(w.side, w.job)  BY DEF Strict, MarksSame
<1>8. PICK c, F, H, strict : c = w.cli /\ F = First(p, w.job) /\ H = Held(w.side, w.job) /\ strict = Strict(w.side, w.job)
  OBVIOUS
<1>9. PICK top : top = MaxInputs + sp.stops  OBVIOUS
<1>10. Line(c, F, H, n, a, st, top, strict)  BY <1>3, <1>8, <1>9 DEF Good, InLine
<1>11. Line(c, F, Append(H, n + 1), n + 1, a, st, top, strict)  BY <1>10, LineHold
<1>12. InLine(x, K, p, a, st, sp)  BY <1>5, <1>6, <1>7, <1>8, <1>9, <1>11 DEF InLine
<1>13. Shaped(x, K, p, sp)  BY <1>1, <1>3, <1>5 DEF Good, Shaped
<1>14. CliSame(w.cli, x.cli)  BY DEF CliSame
<1>15. Placed(w, p, sp)  BY DEF Good
<1>16. Placed(x, p, sp)  BY <1>14, <1>15, PlacedFrame
<1> QED  BY <1>4, <1>12, <1>13, <1>16 DEF Good

-----------------------------------------------------------------------------
(* A compact begins for a held input, and the loop of #advance.             *)

\* A compact for the input at the head takes it and leaves the line as it is.
TakesHead(w, x) ==
  /\ w.side.inputs # <<>> /\ x.job.by \in {"send", "manual"} /\ x.job.labels = <<>>
  /\ x.job.id = Head(w.side.inputs) /\ x.side.inputs = Tail(w.side.inputs)
  /\ x.cli = w.cli /\ x.side.sent = w.side.sent /\ x.side.seen = w.side.seen
  /\ x.side.stopping = w.side.stopping /\ x.side.compacting /\ x.side.advancing

LEMMA TakeKeeps ==
  ASSUME NEW w, NEW k, NEW p, NEW a, NEW st, NEW sp, Good(w, k, p, a, st, sp),
         w.job.by = "none", NoneKept(w.side.sent), NEW x \in Worlds, TakesHead(w, x)
  PROVE  Good(x, k, p, a, st, sp)
<1>1. /\ w \in Worlds /\ w.cli \in Cli /\ w.side \in Side /\ w.job \in Job /\ sp \in Spent
      /\ \A i \in 1..Len(Waiting(w.cli)) : Waiting(w.cli)[i] \in Id
      /\ \A y \in Nat : Passed(w.cli, y) => y \in Id
  BY GoodIds
<1>2. x.cli \in Cli /\ x.side \in Side /\ x.job \in Job  BY TypesOf
<1>3. /\ MessagesKnown(w.cli, p) /\ TurnMarked(w.cli, w.side.sent, p)
      /\ AnswersMarked(w.cli.out, w.side.sent, p) /\ WaitingMarked(w.cli, w.side.sent)
      /\ PumpMarked(w.cli.out, w.side, p, w.job) /\ StopKnown(w.side, w.job, p, w.cli, sp)
  BY DEF Good, Shaped, Placed
<1>4. Idle(w.cli) /\ w.cli.turn = NoTurn /\ p = NoMessage /\ ~ w.side.stopping
  BY <1>1, <1>3, NoneKeptIdle
<1>5. First(p, w.job) = <<>> /\ First(p, x.job) = <<>>
  BY <1>4 DEF First, TakesHead, NoMessage
<1>6. Held(x.side, x.job) = Held(w.side, w.job)
  <2>1. PICK i \in Seq(Nat) : i = w.side.inputs  BY <1>1 DEF Side
  <2>2. <<Head(i)>> \o Tail(i) = i  BY <2>1 DEF TakesHead
  <2> QED  BY <2>1, <2>2 DEF Held, TakesHead
<1>7. Strict(x.side, x.job) = Strict(w.side, w.job)  BY DEF Strict, TakesHead
<1>8. InLine(x, k, p, a, st, sp)  BY <1>5, <1>6, <1>7 DEF Good, InLine, TakesHead
<1>9. Shaped(x, k, p, sp)  BY DEF Good, Shaped, TakesHead
<1>10. Unlike(x.cli) /\ TurnMarked(x.cli, x.side.sent, p) /\ AnswersMarked(x.cli.out, x.side.sent, p)
       /\ WaitingMarked(x.cli, x.side.sent)
  BY DEF Good, Placed, TakesHead
<1>11. PumpMarked(x.cli.out, x.side, p, x.job)  BY <1>4 DEF PumpMarked, NoMessage
<1>12. Carried(x.cli, x.side.sent, x.job)  BY DEF Carried, NoneKept, TakesHead
<1>13. SeenKnown(x.cli, x.side)  BY DEF Good, Placed, SeenKnown, TakesHead
<1>14. JobKnown(x.side, x.job, x.cli)  BY <1>4 DEF JobKnown, TakesHead
<1>15. StopKnown(x.side, x.job, p, x.cli, sp)  BY <1>4 DEF StopKnown, Strict, TakesHead
<1> QED  BY <1>8, <1>9, <1>10, <1>11, <1>12, <1>13, <1>14, <1>15 DEF Good, Placed

Sends(w, x, id) ==
  /\ x \in Worlds /\ x.job = w.job
  /\ x.side = [w.side EXCEPT !.sent = [w.side.sent EXCEPT ![id] = "sent"]]
  /\ x.cli = [w.cli EXCEPT !.input = Append(w.cli.input, id)]

LEMMA SendIs ==
  ASSUME NEW w \in Worlds, NEW id \in Nat, NEW x, x = Send(w, id)
  PROVE  Sends(w, x, id)
<1>1. PICK s \in Side, c \in Cli, j \in Job : s = w.side /\ c = w.cli /\ j = w.job  BY TypesOf
<1>2. c.input \in Seq(Nat) /\ Append(c.input, id) \in Seq(Nat)  BY DEF Cli
<1>3. PICK d \in Cli : d = [c EXCEPT !.input = Append(@, id)]
  <2>1. [c EXCEPT !.input = Append(@, id)] \in Cli  BY <1>2 DEF Cli
  <2> QED  BY <2>1
<1>4. s.sent \in [Id -> Marks] /\ [s.sent EXCEPT ![id] = "sent"] \in [Id -> Marks]  BY DEF Side, Marks
<1>5. PICK t \in Side : t = [s EXCEPT !.sent = [@ EXCEPT ![id] = "sent"]]
  <2>1. [s EXCEPT !.sent = [@ EXCEPT ![id] = "sent"]] \in Side  BY <1>4 DEF Side
  <2> QED  BY <2>1
<1>6. x = [w EXCEPT !.side = t, !.cli = d, !.job = j]
  <2>1. x = [w EXCEPT !.side = [s EXCEPT !.sent = [@ EXCEPT ![id] = "sent"]],
                      !.cli = [c EXCEPT !.input = Append(@, id)], !.job = j]
    BY <1>1 DEF Send, Worlds
  <2> QED  BY <1>3, <1>5, <2>1
<1>7. x.side = t /\ x.cli = d /\ x.job = j /\ x \in Worlds  BY <1>6 DEF Worlds
<1> QED  BY <1>1, <1>3, <1>5, <1>7 DEF Sends

LEMMA AdvancingOff ==
  ASSUME NEW w \in Worlds, NEW x, x = [w EXCEPT !.side.advancing = FALSE]
  PROVE  x \in Worlds /\ x.cli = w.cli /\ x.job = w.job /\ x.side = [w.side EXCEPT !.advancing = FALSE]
<1>1. PICK s \in Side, c \in Cli, j \in Job : s = w.side /\ c = w.cli /\ j = w.job  BY TypesOf
<1>2. PICK t \in Side : t = [s EXCEPT !.advancing = FALSE]
  <2>1. [s EXCEPT !.advancing = FALSE] \in Side  BY DEF Side
  <2> QED  BY <2>1
<1>3. x = [w EXCEPT !.side = t, !.cli = c, !.job = j]
  <2>1. x = [w EXCEPT !.side = [s EXCEPT !.advancing = FALSE], !.cli = c, !.job = j]  BY <1>1 DEF Worlds
  <2> QED  BY <1>2, <2>1
<1>4. x.side = t /\ x.cli = c /\ x.job = j /\ x \in Worlds  BY <1>3 DEF Worlds
<1> QED  BY <1>1, <1>2, <1>4

LEMMA EndIfIdleKeeps ==
  ASSUME NEW w, NEW k, NEW p, NEW a, NEW st, NEW sp, Good(w, k, p, a, st, sp), ~ w.side.closed,
         w.side.inputs # <<>> /\ ~ w.side.compacting /\ ~ w.side.stopping => ~ NoneKept(w.side.sent),
         NEW x, x = EndIfIdle(w)
  PROVE  Good(x, k, p, a, st, sp) /\ Awake(x.side)
<1>1. /\ w \in Worlds /\ w.cli \in Cli /\ w.side \in Side /\ w.job \in Job
      /\ \A i \in 1..Len(Waiting(w.cli)) : Waiting(w.cli)[i] \in Id
      /\ \A y \in Nat : Passed(w.cli, y) => y \in Id
  BY GoodIds
<1>2. NoneSent(w.side) <=> NoneKept(w.side.sent)
  BY <1>1 DEF NoneSent, NoneKept, Side
<1>3. CASE w.side.inputEnded /\ w.side.inputs = <<>> /\ NoneSent(w.side) /\ ~ w.side.compacting
  <2>1. x = [w EXCEPT !.side.closed = TRUE]  BY <1>3 DEF EndIfIdle
  <2>2. x \in Worlds /\ x.cli = w.cli /\ x.job = w.job /\ MarksSame(w.side, x.side)
        /\ x.side.inputs = w.side.inputs /\ x.side.inputEnded = w.side.inputEnded /\ x.side.closed
    <3>1. PICK s \in Side : s = w.side  BY <1>1
    <3>2. PICK y : y = [s EXCEPT !.closed = TRUE]  OBVIOUS
    <3>3. y \in Side /\ y.inputs = s.inputs /\ y.inputEnded = s.inputEnded /\ y.closed /\ MarksSame(s, y)
      BY <3>2 DEF Side, MarksSame
    <3>4. x.side = y /\ x.cli = w.cli /\ x.job = w.job /\ x \in Worlds
      BY <1>1, <2>1, <3>1, <3>2, <3>3 DEF Worlds
    <3> QED  BY <3>1, <3>3, <3>4
  <2>3. CliSame(w.cli, x.cli)  BY <2>2 DEF CliSame
  <2>4. Good(x, k, p, a, st, sp)  BY <2>2, <2>3, GoodFrame
  <2>5. /\ MessagesKnown(w.cli, p) /\ TurnMarked(w.cli, w.side.sent, p)
        /\ AnswersMarked(w.cli.out, w.side.sent, p) /\ WaitingMarked(w.cli, w.side.sent)
        /\ PumpMarked(w.cli.out, w.side, p, w.job) /\ StopKnown(w.side, w.job, p, w.cli, sp)
    BY DEF Good, Shaped, Placed
  <2>6. ~ w.side.stopping  BY <1>1, <1>2, <1>3, <2>5, NoneKeptIdle
  <2>7. Awake(x.side)  BY <1>2, <1>3, <2>2, <2>6 DEF Awake, MarksSame
  <2> QED  BY <2>4, <2>7
<1>4. CASE ~ (w.side.inputEnded /\ w.side.inputs = <<>> /\ NoneSent(w.side) /\ ~ w.side.compacting)
  <2>1. x = w  BY <1>4 DEF EndIfIdle
  <2>2. Awake(w.side)  BY <1>2, <1>4 DEF Awake
  <2> QED  BY <2>1, <2>2
<1> QED  BY <1>3, <1>4

LEMMA AdvancesKeeps ==
  ASSUME NEW w \in Worlds, NEW k, NEW p, NEW a, NEW st, NEW sp, kinds' = k, ~ w.side.closed,
         NEW v, v = [w EXCEPT !.side.advancing = FALSE], Good(v, k, p, a, st, sp),
         NEW waits \in BOOLEAN, NEW x, x = Advances(w, waits)
  PROVE  Good(x, k, p, a, st, sp) /\ Awake(x.side)
<1>1. w.cli \in Cli /\ w.side \in Side /\ w.job \in Job  BY TypesOf
<1>2. /\ v \in Worlds /\ v.cli = w.cli /\ v.job = w.job /\ v.side.inputs = w.side.inputs
      /\ v.side.sent = w.side.sent /\ v.side.seen = w.side.seen /\ v.side.compacting = w.side.compacting
      /\ v.side.stopping = w.side.stopping /\ v.side.closed = w.side.closed
      /\ v.side.advancing = FALSE
  BY <1>1 DEF Worlds, Side
<1>3. NoneSent(w.side) <=> NoneKept(w.side.sent)
  BY <1>1 DEF NoneSent, NoneKept, Side
<1>4. CASE ~ MayAdvance(w.side) \/ w.side.inputs = <<>>
  <2>1. x = EndIfIdle(v)  BY <1>4 DEF Advances
  <2>2. v.side.inputs # <<>> /\ ~ v.side.compacting /\ ~ v.side.stopping => ~ NoneKept(v.side.sent)
    BY <1>2, <1>3, <1>4 DEF MayAdvance
  <2> QED  BY <1>2, <2>1, <2>2, EndIfIdleKeeps
<1>5. CASE MayAdvance(w.side) /\ w.side.inputs # <<>>
  <2>0. NoneKept(v.side.sent) /\ ~ v.side.compacting /\ ~ v.side.stopping /\ v.side.inputs # <<>>
    BY <1>2, <1>3, <1>5 DEF MayAdvance
  <2>1. v.job.by = "none"  BY <2>0 DEF Good, Placed, JobKnown
  <2>2. PICK i \in Seq(Nat) : i = w.side.inputs /\ i # <<>>  BY <1>1, <1>5 DEF Side
  <2>3. PICK id \in Nat : id = Head(i)  BY <2>2
  <2>4. Tail(i) \in Seq(Nat)  BY <2>2
  <2>5. CASE k[id] = "compact"
    <3>1. x = [w EXCEPT !.side = [@ EXCEPT !.inputs = Tail(i), !.advancing = TRUE, !.compacting = TRUE],
                        !.job = [by |-> "manual", id |-> id, labels |-> <<>>, pump |-> waits]]
      BY <1>1, <1>5, <2>2, <2>3, <2>5 DEF Advances, Compacts, Worlds, Side
    <3>2. x \in Worlds /\ TakesHead(v, x) /\ x.side.closed = w.side.closed
      <4>1. PICK j : j = [by |-> "manual", id |-> id, labels |-> <<>>, pump |-> waits]  OBVIOUS
      <4>2. j \in Job /\ j.by = "manual" /\ j.id = id /\ j.labels = <<>>  BY <4>1 DEF Job
      <4>3. PICK s \in Side : s = w.side  BY <1>1
      <4>4. PICK y : y = [s EXCEPT !.inputs = Tail(i), !.advancing = TRUE, !.compacting = TRUE]  OBVIOUS
      <4>5. y \in Side  BY <2>4, <4>4 DEF Side
      <4>6. /\ y.inputs = Tail(i) /\ y.advancing /\ y.compacting /\ y.sent = s.sent /\ y.seen = s.seen
            /\ y.stopping = s.stopping /\ y.closed = s.closed
        BY <4>4 DEF Side
      <4>7. x.side = y /\ x.cli = w.cli /\ x.job = j /\ x \in Worlds
        BY <1>1, <3>1, <4>1, <4>2, <4>3, <4>4, <4>5 DEF Worlds
      <4> QED  BY <1>2, <2>2, <2>3, <4>2, <4>3, <4>6, <4>7 DEF TakesHead
    <3>3. Good(x, k, p, a, st, sp)  BY <2>0, <2>1, <3>2, TakeKeeps
    <3>4. Awake(x.side)  BY <3>2 DEF Awake, TakesHead
    <3> QED  BY <3>3, <3>4
  <2>6. CASE k[id] # "compact" /\ w.side.due /\ ~ w.side.turnOpen
    <3>1. x = [w EXCEPT !.side = [@ EXCEPT !.inputs = Tail(i), !.advancing = TRUE, !.due = FALSE, !.compacting = TRUE],
                        !.job = [by |-> "send", id |-> id, labels |-> <<>>, pump |-> waits]]
      BY <1>1, <1>5, <2>2, <2>3, <2>6 DEF Advances, Compacts, Worlds, Side
    <3>2. x \in Worlds /\ TakesHead(v, x) /\ x.side.closed = w.side.closed
      <4>1. PICK j : j = [by |-> "send", id |-> id, labels |-> <<>>, pump |-> waits]  OBVIOUS
      <4>2. j \in Job /\ j.by = "send" /\ j.id = id /\ j.labels = <<>>  BY <4>1 DEF Job
      <4>3. PICK s \in Side : s = w.side  BY <1>1
      <4>4. PICK y : y = [s EXCEPT !.inputs = Tail(i), !.advancing = TRUE, !.due = FALSE, !.compacting = TRUE]  OBVIOUS
      <4>5. y \in Side  BY <2>4, <4>4 DEF Side
      <4>6. /\ y.inputs = Tail(i) /\ y.advancing /\ y.compacting /\ y.sent = s.sent /\ y.seen = s.seen
            /\ y.stopping = s.stopping /\ y.closed = s.closed
        BY <4>4 DEF Side
      <4>7. x.side = y /\ x.cli = w.cli /\ x.job = j /\ x \in Worlds
        BY <1>1, <3>1, <4>1, <4>2, <4>3, <4>4, <4>5 DEF Worlds
      <4> QED  BY <1>2, <2>2, <2>3, <4>2, <4>3, <4>6, <4>7 DEF TakesHead
    <3>3. Good(x, k, p, a, st, sp)  BY <2>0, <2>1, <3>2, TakeKeeps
    <3>4. Awake(x.side)  BY <3>2 DEF Awake, TakesHead
    <3> QED  BY <3>3, <3>4
  <2>7. CASE k[id] # "compact" /\ ~ (w.side.due /\ ~ w.side.turnOpen)
    <3>0. x = [Send([w EXCEPT !.side.inputs = Tail(@)], id) EXCEPT !.side.advancing = FALSE]
      BY <1>5, <2>2, <2>3, <2>7 DEF Advances
    <3>2. x \in Worlds /\ SendsHead(v, x, id) /\ x.side.closed = w.side.closed
      <4>1. PICK u : u = [w EXCEPT !.side.inputs = Tail(i)]  OBVIOUS
      <4>2. u \in Worlds /\ u.cli = w.cli /\ u.job = w.job /\ u.side = [w.side EXCEPT !.inputs = Tail(i)]
        BY <1>1, <2>4, <4>1 DEF Worlds, Side
      <4>3. x = [Send(u, id) EXCEPT !.side.advancing = FALSE]  BY <2>2, <3>0, <4>1
      <4>4. PICK z : z = Send(u, id)  OBVIOUS
      <4>5. /\ z \in Worlds /\ z.job = w.job
            /\ z.side = [u.side EXCEPT !.sent = [@ EXCEPT ![id] = "sent"]]
            /\ z.cli = [w.cli EXCEPT !.input = Append(@, id)]
        <5>1. /\ z \in Worlds /\ z.job = u.job
              /\ z.side = [u.side EXCEPT !.sent = [u.side.sent EXCEPT ![id] = "sent"]]
              /\ z.cli = [u.cli EXCEPT !.input = Append(u.cli.input, id)]
          <6>1. Sends(u, z, id)  BY <4>2, <4>4, SendIs
          <6> QED  BY <6>1 DEF Sends
        <5> QED  BY <4>2, <5>1
      <4>6. x = [z EXCEPT !.side.advancing = FALSE]  BY <4>3, <4>4
      <4>7. /\ x \in Worlds /\ x.cli = z.cli /\ x.job = z.job /\ x.side = [z.side EXCEPT !.advancing = FALSE]
        BY <4>5, <4>6, AdvancingOff
      <4>8. PICK s \in Side : s = w.side  BY <1>1
      <4>9. x.side = [[[s EXCEPT !.inputs = Tail(i)] EXCEPT !.sent = [@ EXCEPT ![id] = "sent"]] EXCEPT !.advancing = FALSE]
        BY <4>2, <4>5, <4>7, <4>8
      <4>10. /\ x.side.inputs = Tail(i) /\ x.side.sent = [s.sent EXCEPT ![id] = "sent"] /\ x.side.seen = s.seen
             /\ x.side.compacting = s.compacting /\ x.side.stopping = s.stopping /\ x.side.advancing = FALSE
             /\ x.side.closed = s.closed
        BY <4>9 DEF Side
      <4> QED  BY <1>2, <2>2, <2>3, <4>5, <4>7, <4>8, <4>10 DEF SendsHead
    <3>3. Good(x, k, p, a, st, sp) /\ ~ NoneKept(x.side.sent)  BY <2>0, <2>1, <3>2, SendKeeps
    <3>4. ~ x.side.compacting  BY <1>2, <2>0, <3>2 DEF SendsHead
    <3>5. Awake(x.side)  BY <3>2, <3>3 DEF Awake
    <3> QED  BY <3>3, <3>5
  <2> QED  BY <2>5, <2>6, <2>7
<1> QED  BY <1>4, <1>5

LEMMA AdvanceKeeps ==
  ASSUME NEW w, NEW k, NEW p, NEW a, NEW st, NEW sp, kinds' = k, ~ w.side.closed,
         Good(w, k, p, a, st, sp), NEW waits \in BOOLEAN, NEW x, x = Advance(w, waits)
  PROVE  Good(x, k, p, a, st, sp) /\ Awake(x.side)
<1>1. w \in Worlds /\ w.side \in Side  BY GoodIds
<1>2. CASE w.side.advancing
  <2>1. x = w  BY <1>2 DEF Advance
  <2>2. w.side.compacting  BY <1>2 DEF Good, Placed, JobKnown
  <2>3. Awake(w.side)  BY <2>2 DEF Awake
  <2> QED  BY <2>1, <2>3
<1>3. CASE ~ w.side.advancing
  <2>1. x = Advances(w, waits)  BY <1>3 DEF Advance
  <2>2. PICK v : v = [w EXCEPT !.side.advancing = FALSE]  OBVIOUS
  <2>3. v = w  BY <1>1, <1>3, <2>2 DEF Worlds, Side
  <2> QED  BY <1>1, <2>1, <2>2, <2>3, AdvancesKeeps
<1> QED  BY <1>2, <1>3

-----------------------------------------------------------------------------
(* The host's steps.                                                        *)

LEMMA InvHolds ==
  ASSUME SessionInv
  PROVE  /\ Good(World, kinds, pump, answers, started, spent) /\ Awake(side) /\ read \in BOOLEAN
         /\ World \in Worlds /\ World.side = side /\ World.cli = cli /\ World.job = job
         /\ side \in Side /\ cli \in Cli /\ job \in Job /\ kinds \in Kinds /\ spent \in Spent
<1>1. Good(World, kinds, pump, answers, started, spent)  BY DEF SessionInv
<1>2. World \in Worlds /\ kinds \in Kinds /\ spent \in Spent  BY <1>1 DEF Good, Shaped
<1>3. World.side = side /\ World.cli = cli /\ World.job = job  BY DEF World
<1>4. side \in Side /\ cli \in Cli /\ job \in Job  BY <1>2, <1>3, TypesOf
<1> QED  BY <1>1, <1>2, <1>3, <1>4 DEF SessionInv

LEMMA InvThen ==
  ASSUME NEW w, NEW k, NEW p, NEW a, NEW st, NEW sp, Good(w, k, p, a, st, sp), Awake(w.side), Becomes(w),
         kinds' = k, pump' = p, answers' = a, started' = st, spent' = sp, read' \in BOOLEAN
  PROVE  SessionInv'
<1>1. w \in Worlds  BY DEF Good, Shaped
<1>2. World' = w  BY <1>1 DEF Becomes, World, Worlds
<1>3. w.side = side'  BY DEF Becomes
<1> QED  BY <1>2, <1>3 DEF SessionInv

\* The world with other fields of the session.
LEMMA SideIs ==
  ASSUME NEW w \in Worlds, NEW s \in Side, NEW x, x = [w EXCEPT !.side = s]
  PROVE  x \in Worlds /\ x.side = s /\ x.cli = w.cli /\ x.job = w.job
BY DEF Worlds

LEMMA PushUserKeeps ==
  ASSUME SessionInv, ~ side.closed, NEW kind \in {"prompt", "compact"}, PushUser(kind)
  PROVE  SessionInv'
<1>1. /\ Good(World, kinds, pump, answers, started, spent) /\ Awake(side) /\ World \in Worlds
      /\ World.side = side /\ World.cli = cli /\ World.job = job
      /\ side \in Side /\ cli \in Cli /\ job \in Job /\ kinds \in Kinds
  BY InvHolds
<1>2. PICK k, p, a, st, sp : k = kinds /\ p = pump /\ a = answers /\ st = started /\ sp = spent  OBVIOUS
<1>3. PICK id \in Nat : id = Len(k) + 1  BY <1>1, <1>2 DEF Kinds
<1>4. PICK K : K = Append(k, kind)  OBVIOUS
<1>5. /\ kinds' = K /\ pump' = p /\ answers' = a /\ started' = st /\ spent' = sp /\ read' = FALSE
      /\ Len(k) < MaxInputs
  BY <1>1, <1>2, <1>4 DEF PushUser, SessionInv
<1>6. PICK u : u = World  OBVIOUS
<1>7. Good(u, k, p, a, st, sp) /\ u \in Worlds /\ u.side = side /\ u.cli = cli /\ u.job = job
  BY <1>1, <1>2, <1>6
<1>8. PICK s : s = [side EXCEPT !.inputs = Append(side.inputs, id)]  OBVIOUS
<1>9. s \in Side /\ s.inputs = Append(side.inputs, id) /\ MarksSame(side, s) /\ s.closed = side.closed
  <2>1. side.inputs \in Seq(Nat) /\ Append(side.inputs, id) \in Seq(Nat)  BY <1>1 DEF Side
  <2> QED  BY <1>1, <1>8, <2>1 DEF Side, MarksSame
<1>10. PICK v : v = [u EXCEPT !.side = s]  OBVIOUS
<1>11. v \in Worlds /\ v.side = s /\ v.cli = u.cli /\ v.job = u.job  BY <1>7, <1>9, <1>10, SideIs
<1>12. Good(v, K, p, a, st, sp)
  <2>1. v.side.inputs = Append(u.side.inputs, Len(k) + 1) /\ MarksSame(u.side, v.side)
    BY <1>3, <1>7, <1>9, <1>11
  <2>2. Good(v, Append(k, kind), p, a, st, sp)  BY <1>5, <1>7, <1>11, <2>1, HoldKeeps
  <2> QED  BY <1>4, <2>2
<1>13. PICK w : w = IF kind = "compact" \/ Holds(side)
                    THEN [World EXCEPT !.side.inputs = Append(@, id)] ELSE Send(World, id)
  OBVIOUS
<1>14. PICK x : x = Advance(w, FALSE)  OBVIOUS
<1>15. Becomes(x)
  <2>1. PICK n : n = Len(kinds) + 1  OBVIOUS
  <2>2. n = id  BY <1>2, <1>3, <2>1
  <2> QED  BY <1>13, <1>14, <2>1, <2>2 DEF PushUser
<1>16. Good(w, K, p, a, st, sp) /\ ~ w.side.closed
  <2>1. CASE kind = "compact" \/ Holds(side)
    <3>1. w = [World EXCEPT !.side = s]  BY <1>1, <1>8, <1>13, <2>1
    <3>2. w = v  BY <1>6, <1>10, <3>1
    <3> QED  BY <1>9, <1>11, <1>12, <3>2
  <2>2. CASE ~ (kind = "compact" \/ Holds(side))
    <3>1. w = Send(u, id)  BY <1>6, <1>13, <2>2
    <3>2. Sends(u, w, id)  BY <1>7, <3>1, SendIs
    <3>3. side.inputs = <<>> /\ ~ side.compacting /\ ~ side.stopping  BY <2>2 DEF Holds
    <3>4. v.side.inputs = <<id>> /\ <<id>> # <<>> /\ Head(<<id>>) = id /\ Tail(<<id>>) = <<>>
      BY <1>9, <1>11, <3>3
    <3>5. SendsHead(v, w, id)
      <4>1. PICK t : t = u.side.sent  OBVIOUS
      <4>2. PICK y : y = [t EXCEPT ![id] = "sent"]  OBVIOUS
      <4>3. w.side = [side EXCEPT !.sent = y] /\ w.job = job
        BY <1>7, <3>2, <4>1, <4>2 DEF Sends
      <4>4. w.cli = [cli EXCEPT !.input = Append(@, id)]  BY <1>7, <3>2 DEF Sends
      <4>5. /\ w.side.inputs = side.inputs /\ w.side.sent = y /\ w.side.seen = side.seen
            /\ w.side.compacting = side.compacting /\ w.side.stopping = side.stopping
            /\ w.side.advancing = side.advancing
        BY <1>1, <4>3 DEF Side
      <4>6. /\ v.side.sent = t /\ v.side.seen = side.seen /\ v.side.compacting = side.compacting
            /\ v.side.stopping = side.stopping /\ v.side.advancing = side.advancing
        BY <1>7, <1>9, <1>11, <4>1 DEF MarksSame
      <4> QED  BY <1>7, <1>11, <3>3, <3>4, <4>2, <4>3, <4>4, <4>5, <4>6 DEF SendsHead
    <3>6. w \in Worlds  BY <3>2 DEF Sends
    <3>7. v.job.by = "none" /\ ~ v.side.stopping
      <4>1. u.job.by = "none"  BY <1>7, <3>3 DEF Good, Placed, JobKnown
      <4> QED  BY <1>9, <1>11, <3>3, <4>1 DEF MarksSame
    <3>8. Good(w, K, p, a, st, sp)  BY <1>12, <3>5, <3>6, <3>7, SendKeeps
    <3>9. ~ w.side.closed
      <4>1. PICK y : y = [u.side.sent EXCEPT ![id] = "sent"]  OBVIOUS
      <4>2. w.side = [side EXCEPT !.sent = y]  BY <1>7, <3>2, <4>1 DEF Sends
      <4> QED  BY <1>1, <4>2 DEF Side
    <3> QED  BY <3>8, <3>9
  <2> QED  BY <2>1, <2>2
<1>17. Good(x, K, p, a, st, sp) /\ Awake(x.side)  BY <1>5, <1>14, <1>16, AdvanceKeeps
<1> QED  BY <1>5, <1>15, <1>17, InvThen

LEMMA EndInputKeeps ==
  ASSUME SessionInv, ~ side.closed, EndInput
  PROVE  SessionInv'
<1>1. /\ Good(World, kinds, pump, answers, started, spent) /\ Awake(side) /\ World \in Worlds
      /\ World.side = side /\ World.cli = cli /\ World.job = job
      /\ side \in Side /\ cli \in Cli /\ job \in Job
  BY InvHolds
<1>2. PICK k, p, a, st, sp : k = kinds /\ p = pump /\ a = answers /\ st = started /\ sp = spent  OBVIOUS
<1>3. /\ kinds' = k /\ pump' = p /\ answers' = a /\ started' = st /\ spent' = sp /\ read' \in BOOLEAN
  BY <1>1, <1>2 DEF EndInput, SessionInv
<1>4. PICK u : u = World  OBVIOUS
<1>5. PICK s : s = [side EXCEPT !.inputEnded = TRUE]  OBVIOUS
<1>6. s \in Side /\ s.inputs = side.inputs /\ MarksSame(side, s) /\ s.closed = side.closed
  BY <1>1, <1>5 DEF Side, MarksSame
<1>7. PICK w : w = [u EXCEPT !.side = s]  OBVIOUS
<1>8. w \in Worlds /\ w.side = s /\ w.cli = u.cli /\ w.job = u.job  BY <1>1, <1>4, <1>6, <1>7, SideIs
<1>9. w = [World EXCEPT !.side.inputEnded = TRUE]  BY <1>1, <1>4, <1>5, <1>7
<1>10. CliSame(u.cli, w.cli)  BY <1>8 DEF CliSame
<1>11. Good(w, k, p, a, st, sp)
  <2>1. Good(u, k, p, a, st, sp) /\ u.side = side  BY <1>1, <1>2, <1>4
  <2> QED  BY <1>6, <1>8, <1>10, <2>1, GoodFrame
<1>12. PICK x : x = EndIfIdle(w)  OBVIOUS
<1>13. Good(x, k, p, a, st, sp) /\ Awake(x.side)
  <2>1. w.side.inputs # <<>> /\ ~ w.side.compacting /\ ~ w.side.stopping => ~ NoneKept(w.side.sent)
    BY <1>1, <1>6, <1>8 DEF Awake, MarksSame
  <2>2. ~ w.side.closed  BY <1>6, <1>8
  <2> QED  BY <1>11, <1>12, <2>1, <2>2, EndIfIdleKeeps
<1>14. Becomes(x)  BY <1>9, <1>12 DEF EndInput
<1> QED  BY <1>3, <1>13, <1>14, InvThen

LEMMA ReadAgainKeeps ==
  ASSUME SessionInv, ReadAgain
  PROVE  SessionInv'
<1>1. /\ Good(World, kinds, pump, answers, started, spent) /\ Awake(side) /\ spent \in Spent
      /\ World.side = side /\ World.cli = cli /\ World.job = job
  BY InvHolds
<1>2. PICK w, k, p, a, st, sp : w = World /\ k = kinds /\ p = pump /\ a = answers /\ st = started /\ sp = spent
  OBVIOUS
<1>3. PICK z : z = [sp EXCEPT !.reads = @ + 1]  OBVIOUS
<1>4. z \in Spent /\ z.stops = sp.stops  BY <1>1, <1>2, <1>3 DEF Spent
<1>5. Good(w, k, p, a, st, z)
  <2>1. Good(w, k, p, a, st, sp)  BY <1>1, <1>2
  <2>2. InLine(w, k, p, a, st, z)  BY <1>4, <2>1 DEF Good, InLine
  <2>3. StopKnown(w.side, w.job, p, w.cli, z)  BY <1>4, <2>1 DEF Good, Placed, StopKnown
  <2> QED  BY <1>4, <2>1, <2>2, <2>3 DEF Good, Placed, Shaped
<1>6. Becomes(w)  BY <1>1, <1>2 DEF Becomes, ReadAgain
<1> QED  BY <1>1, <1>2, <1>3, <1>5, <1>6, InvThen DEF ReadAgain

LEMMA ReadArrivesKeeps ==
  ASSUME SessionInv, NEW usable \in BOOLEAN, ReadArrives(usable)
  PROVE  SessionInv'
<1>1. /\ Good(World, kinds, pump, answers, started, spent) /\ Awake(side) /\ World \in Worlds
      /\ World.side = side /\ World.cli = cli /\ World.job = job
      /\ side \in Side /\ cli \in Cli /\ job \in Job
  BY InvHolds
<1>2. PICK k, p, a, st, sp : k = kinds /\ p = pump /\ a = answers /\ st = started /\ sp = spent  OBVIOUS
<1>3. /\ kinds' = k /\ pump' = p /\ answers' = a /\ started' = st /\ spent' = sp /\ read' \in BOOLEAN /\ job' = job
  BY <1>1, <1>2 DEF ReadArrives
<1>4. PICK past \in BOOLEAN : past = (usable /\ cli.context >= Trigger)  OBVIOUS
<1>5. PICK s : s = side'  OBVIOUS
<1>6. s = [side EXCEPT !.due = IF usable THEN past ELSE side.due, !.last = IF past THEN cli.context ELSE side.last]
  BY <1>4, <1>5 DEF ReadArrives
<1>7. s \in Side /\ s.inputs = side.inputs /\ MarksSame(side, s) /\ s.closed = side.closed /\ s.inputEnded = side.inputEnded
  <2>1. cli.context \in Nat /\ side.last \in Nat /\ side.due \in BOOLEAN  BY <1>1 DEF Cli, Side
  <2>2. (IF usable THEN past ELSE side.due) \in BOOLEAN  BY <1>4, <2>1
  <2>3. (IF past THEN cli.context ELSE side.last) \in Nat  BY <2>1
  <2> QED  BY <1>1, <1>6, <2>2, <2>3 DEF Side, MarksSame
<1>8. PICK c : c = cli'  OBVIOUS
<1>9. c = [cli EXCEPT !.reread = cli.reread \/ past]  BY <1>4, <1>8 DEF ReadArrives
<1>10. c \in Cli /\ c.pulled = cli.pulled /\ c.out = cli.out /\ c.turn = cli.turn /\ c.stopped = cli.stopped
       /\ c.before = cli.before /\ c.input = cli.input
  <2>1. (cli.reread \/ past) \in BOOLEAN  OBVIOUS
  <2> QED  BY <1>1, <1>9, <2>1 DEF Cli
<1>11. CliSame(cli, c)  BY <1>10 DEF CliSame, Waiting
<1>12. PICK w : w = [side |-> s, cli |-> c, job |-> job]  OBVIOUS
<1>13. w \in Worlds /\ w.side = s /\ w.cli = c /\ w.job = job  BY <1>1, <1>7, <1>10, <1>12 DEF Worlds
<1>14. Good(w, k, p, a, st, sp)
  <2>1. PICK u : u = World  OBVIOUS
  <2>2. Good(u, k, p, a, st, sp) /\ u.side = side /\ u.cli = cli /\ u.job = job  BY <1>1, <1>2, <2>1
  <2> QED  BY <1>7, <1>10, <1>11, <1>13, <2>2, GoodFrame
<1>15. Awake(w.side)  BY <1>1, <1>7, <1>13 DEF Awake, MarksSame
<1>16. Becomes(w)  BY <1>3, <1>5, <1>8, <1>13 DEF Becomes
<1> QED  BY <1>3, <1>14, <1>15, <1>16, InvThen

-----------------------------------------------------------------------------
(* The CLI emits messages.                                                  *)

\* What was said of an earlier place in the stream is true of the longer stream.
LEMMA MarkedThen ==
  ASSUME NEW out \in Seq(Msg), NEW u \in Seq(Msg), NEW z, z = out \o u, NEW sent, NEW p, NEW x,
         NEW n \in 1..Len(out) + 1, Marked(out, sent, p, x, n)
  PROVE  /\ Marked(z, sent, p, x, n)
         /\ NoAnswer(u) /\ n = Len(out) + 1 => Marked(z, sent, p, x, Len(z) + 1)
<1>1. /\ Len(out) \in Nat /\ Len(u) \in Nat /\ Len(z) = Len(out) + Len(u)
      /\ \A m \in 1..(Len(out) + Len(u)) : /\ m <= Len(out) => z[m] = out[m]
                                           /\ m > Len(out) => z[m] = u[m - Len(out)]
  <2>1. Len(out) \in Nat /\ Len(u) \in Nat  OBVIOUS
  <2> QED  BY <2>1, ConcatIs
<1>2. /\ sent[x] # "no"
      /\ sent[x] = "started" => p.t = "none" /\ \A m \in 1..n - 1 : ~ IsAnswer(out[m])
      /\ \A i \in 1..Len(out) : out[i].t = "started" /\ out[i].id = x =>
           \A m \in 1..n - 1 : IsAnswer(out[m]) => m < i
  BY DEF Marked
<1>3. \A m \in 1..n - 1 : z[m] = out[m] /\ m <= Len(out)  BY <1>1
<1>4. ASSUME NEW i \in 1..Len(z), z[i].t = "started", z[i].id = x, NEW m \in 1..n - 1, IsAnswer(z[m])
      PROVE  m < i
  <2>1. CASE i <= Len(out)
    <3>1. i \in 1..Len(out) /\ out[i] = z[i]  BY <1>1, <2>1
    <3> QED  BY <1>2, <1>3, <1>4, <3>1
  <2>2. CASE i > Len(out)  BY <1>1, <1>3, <2>2
  <2> QED  BY <1>1, <2>1, <2>2
<1>5. Marked(z, sent, p, x, n)  BY <1>2, <1>3, <1>4 DEF Marked
<1>6. ASSUME NoAnswer(u), n = Len(out) + 1 PROVE Marked(z, sent, p, x, Len(z) + 1)
  <2>1. ASSUME NEW m \in 1..Len(z), m > Len(out) PROVE ~ IsAnswer(z[m])
    <3>1. PICK k \in 1..Len(u) : k = m - Len(out)  BY <1>1, <2>1
    <3>2. z[m] = u[k]  BY <1>1, <2>1, <3>1
    <3> QED  BY <1>6, <3>2 DEF NoAnswer
  <2>2. ASSUME NEW m \in 1..Len(z), IsAnswer(z[m]) PROVE m \in 1..n - 1
    <3>1. ~ (m > Len(out))  BY <2>1, <2>2
    <3> QED  BY <1>1, <1>6, <3>1
  <2>3. (Len(z) + 1) - 1 = Len(z)  BY <1>1
  <2>4. sent[x] = "started" => p.t = "none" /\ \A m \in 1..Len(z) : ~ IsAnswer(z[m])
    BY <1>2, <1>3, <2>2
  <2>5. \A i \in 1..Len(z) : z[i].t = "started" /\ z[i].id = x =>
           \A m \in 1..Len(z) : IsAnswer(z[m]) => m < i
    BY <1>4, <2>2
  <2> QED  BY <1>2, <2>3, <2>4, <2>5 DEF Marked
<1> QED  BY <1>5, <1>6

LEMMA AnswersThen ==
  ASSUME NEW out \in Seq(Msg), NEW u \in Seq(Msg), NEW z, z = out \o u, NEW sent, NEW p,
         AnswersMarked(out, sent, p), NEW n \in 1..Len(out), IsAnswer(z[n])
  PROVE  /\ IsAnswer(out[n]) /\ n < Len(z) /\ z[n + 1].t = "completed" /\ Marked(z, sent, p, z[n + 1].id, n)
<1>1. /\ Len(out) \in Nat /\ Len(u) \in Nat /\ Len(z) = Len(out) + Len(u)
      /\ \A m \in 1..(Len(out) + Len(u)) : m <= Len(out) => z[m] = out[m]
  <2>1. Len(out) \in Nat /\ Len(u) \in Nat  OBVIOUS
  <2> QED  BY <2>1, ConcatIs
<1>2. z[n] = out[n]  BY <1>1
<1>3. n < Len(out) /\ out[n + 1].t = "completed" /\ Marked(out, sent, p, out[n + 1].id, n)
  BY <1>2 DEF AnswersMarked
<1>4. z[n + 1] = out[n + 1]
  <2>1. n + 1 \in 1..(Len(out) + Len(u)) /\ n + 1 <= Len(out)  BY <1>1, <1>3
  <2> QED  BY <1>1, <2>1
<1>5. PICK x : x = out[n + 1].id  OBVIOUS
<1>6. n \in 1..Len(out) + 1  BY <1>1
<1>7. Marked(z, sent, p, x, n)
  <2>1. Marked(out, sent, p, x, n)  BY <1>3, <1>5
  <2> QED  BY <1>6, <2>1, MarkedThen
<1> QED  BY <1>1, <1>2, <1>3, <1>4, <1>5, <1>7

\* Messages that neither start nor complete a prompt, and a turn that stays the same one.
Quietly(u) ==
  /\ u \in Seq(Msg)
  /\ \A n \in 1..Len(u) : u[n].t \in {"queued", "assistant"} /\ u[n].labels = <<>>

TurnGoesOn(c, x) ==
  /\ x.turn.labels = c.turn.labels /\ x.turn.uuids = c.turn.uuids
  /\ (x.turn.stage = "none") = (c.turn.stage = "none") /\ (x.turn.stage = "none" => x.turn = c.turn)

LEMMA EmitKeeps ==
  ASSUME NEW w, NEW k, NEW p, NEW a, NEW st, NEW sp, Good(w, k, p, a, st, sp), NEW x \in Worlds,
         MarksSame(w.side, x.side), x.side.inputs = w.side.inputs, x.job = w.job,
         NEW u, Quietly(u), x.cli.out = w.cli.out \o u, TurnGoesOn(w.cli, x.cli),
         x.cli.stopped = w.cli.stopped, Waiting(x.cli) = Waiting(w.cli),
         w.job.by = "none", ~ w.side.stopping, SeenKnown(x.cli, x.side)
  PROVE  Good(x, k, p, a, st, sp)
<1>1. w \in Worlds /\ w.cli \in Cli /\ w.side \in Side /\ w.job \in Job  BY GoodIds
<1>2. x.cli \in Cli /\ x.side \in Side /\ x.job \in Job  BY TypesOf
<1>3. PICK c \in Cli, y \in Cli : c = w.cli /\ y = x.cli  BY <1>1, <1>2
<1>4. PICK out \in Seq(Msg), z \in Seq(Msg) : out = c.out /\ z = y.out  BY DEF Cli
<1>5. u \in Seq(Msg) /\ z = out \o u /\ NoAnswer(u)
  BY <1>3, <1>4 DEF Quietly, NoAnswer, IsAnswer
<1>6. /\ Len(out) \in Nat /\ Len(u) \in Nat /\ Len(z) = Len(out) + Len(u)
      /\ \A m \in 1..(Len(out) + Len(u)) : /\ m <= Len(out) => z[m] = out[m]
                                           /\ m > Len(out) => z[m] = u[m - Len(out)]
  <2>1. Len(out) \in Nat /\ Len(u) \in Nat  BY <1>5
  <2> QED  BY <1>5, <2>1, ConcatIs
<1>7. ASSUME NEW m \in 1..Len(z)
      PROVE  \/ m \in 1..Len(out) /\ z[m] = out[m]
             \/ m > Len(out) /\ z[m].t \in {"queued", "assistant"} /\ z[m].labels = <<>>
  <2>1. CASE m <= Len(out)  BY <1>6, <2>1
  <2>2. CASE m > Len(out)
    <3>0. Len(out) \in Nat /\ Len(u) \in Nat /\ m \in 1..(Len(out) + Len(u))  BY <1>6
    <3>1. m - Len(out) \in 1..Len(u)  BY <2>2, <3>0
    <3>2. z[m] = u[m - Len(out)]  BY <1>6, <2>2, <3>0
    <3> QED  BY <2>2, <3>1, <3>2 DEF Quietly
  <2> QED  BY <1>6, <2>1, <2>2
<1>8. \A m \in 1..Len(out) : m \in 1..Len(z) /\ z[m] = out[m]  BY <1>6
<1>9. /\ y.turn.labels = c.turn.labels /\ y.turn.uuids = c.turn.uuids /\ y.stopped = c.stopped
      /\ Waiting(y) = Waiting(c) /\ (NoteWaits(y) <=> NoteWaits(c))
      /\ (y.turn.stage = "none" <=> c.turn.stage = "none") /\ (y.turn.stage = "none" => y.turn = c.turn)
  BY <1>3 DEF TurnGoesOn, NoteWaits
<1>10. \A v : InTurn(y, v) <=> InTurn(c, v)  BY <1>9 DEF InTurn
<1>11. \A v : (InOut(y, "started", v) <=> InOut(c, "started", v))
              /\ (InOut(y, "completed", v) <=> InOut(c, "completed", v))
  <2>1. ASSUME NEW t \in {"started", "completed"}, NEW v, InOut(y, t, v) PROVE InOut(c, t, v)
    <3>1. PICK m \in 1..Len(z) : z[m].t = t /\ z[m].id = v  BY <1>4, <2>1 DEF InOut
    <3>2. m \in 1..Len(out) /\ z[m] = out[m]  BY <1>7, <3>1
    <3> QED  BY <1>4, <3>1, <3>2 DEF InOut
  <2>2. ASSUME NEW t \in {"started", "completed"}, NEW v, InOut(c, t, v) PROVE InOut(y, t, v)
    <3>1. PICK m \in 1..Len(out) : out[m].t = t /\ out[m].id = v  BY <1>4, <2>2 DEF InOut
    <3>2. m \in 1..Len(z) /\ z[m] = out[m]  BY <1>8
    <3> QED  BY <1>4, <3>1, <3>2 DEF InOut
  <2> QED  BY <2>1, <2>2
<1>12. \A v : Passed(y, v) <=> Passed(c, v)  BY <1>10, <1>11 DEF Passed
<1>13. PICK sent : sent = w.side.sent  OBVIOUS
<1>14. /\ x.side.sent = sent /\ x.side.seen = w.side.seen /\ x.side.compacting = w.side.compacting
       /\ x.side.stopping = w.side.stopping /\ x.side.advancing = w.side.advancing
  BY <1>13 DEF MarksSame
<1>15. Shaped(x, k, p, sp)
  <2>1. \A n \in 1..Len(z) : ~ IsAnswer(z[n]) => z[n].labels = <<>>
    BY <1>3, <1>4, <1>7 DEF Good, Shaped, MessagesKnown
  <2> QED  BY <1>3, <1>4, <2>1 DEF Good, Shaped, MessagesKnown
<1>16. InLine(x, k, p, a, st, sp)
  <2>1. PICK F, H, top, strict : F = First(p, w.job) /\ H = Held(w.side, w.job) /\ top = MaxInputs + sp.stops
                                 /\ strict = Strict(w.side, w.job)
    OBVIOUS
  <2>2. F = First(p, x.job) /\ H = Held(x.side, x.job) /\ strict = Strict(x.side, x.job)
    BY <1>14, <2>1 DEF Held, Strict
  <2>3. Line(c, F, H, Len(k), a, st, top, strict)  BY <1>3, <2>1 DEF Good, InLine
  <2>4. PICK b \in Nat, l \in Nat, d \in Nat, e \in Nat :
          /\ IsRun(a, 0, Len(a)) /\ IsRun(F, Len(a), b) /\ Chain(out, b, l) /\ Middle(c, l, d, e)
          /\ IsRun(H, e, Len(k)) /\ Begun(st, d) /\ Behind(c, d, top, strict)
    BY <1>4, <2>3 DEF Line
  <2>5. Chain(z, b, l)
    <3>1. \A n \in 1..Len(u) : u[n].labels = <<>>  BY DEF Quietly
    <3> QED  BY <1>5, <2>4, <3>1, ChainQuiet
  <2>6. Middle(y, l, d, e)  BY <1>9, <2>4 DEF Middle
  <2>7. Behind(y, d, top, strict)  BY <1>9, <1>12, <2>4 DEF Behind
  <2>8. Line(y, F, H, Len(k), a, st, top, strict)  BY <1>4, <2>4, <2>5, <2>6, <2>7 DEF Line
  <2> QED  BY <1>3, <2>1, <2>2, <2>8 DEF InLine
<1>17. Unlike(y)
  <2>1. Unlike(c)  BY <1>3 DEF Good, Placed
  <2>2. \A n \in 1..Len(z) : z[n].t = "completed" => n \in 1..Len(out) /\ z[n] = out[n]  BY <1>7
  <2>3. \A m, n \in 1..Len(z) : z[m].t = "completed" /\ z[n].t = "completed" /\ z[m].id = z[n].id => m = n
    BY <1>4, <2>1, <2>2 DEF Unlike
  <2>4. \A n \in 1..Len(z) : z[n].t = "completed" => ~ InTurn(y, z[n].id)
    BY <1>4, <1>10, <2>1, <2>2 DEF Unlike
  <2> QED  BY <1>4, <1>9, <2>1, <2>3, <2>4 DEF Unlike
<1>18. TurnMarked(y, sent, p)
  <2>1. TurnMarked(c, sent, p)  BY <1>3, <1>13 DEF Good, Placed
  <2>2. CASE c.turn.stage = "none"  BY <1>9, <2>1, <2>2 DEF TurnMarked
  <2>3. CASE c.turn.stage # "none"
    <3>1. ~ NoteWaits(c) /\ c.turn.uuids # <<>> /\ Marked(out, sent, p, c.turn.uuids[1], Len(out) + 1)
      BY <1>4, <2>1, <2>3 DEF TurnMarked
    <3>2. PICK v, n : v = c.turn.uuids[1] /\ n = Len(out) + 1  OBVIOUS
    <3>3. n \in 1..Len(out) + 1  BY <1>6, <3>2
    <3>4. Marked(z, sent, p, v, Len(z) + 1)
      <4>1. Marked(out, sent, p, v, n)  BY <3>1, <3>2
      <4> QED  BY <1>5, <3>2, <3>3, <4>1, MarkedThen
    <3> QED  BY <1>4, <1>9, <2>3, <3>1, <3>2, <3>4 DEF TurnMarked
  <2> QED  BY <2>2, <2>3
<1>19. AnswersMarked(z, sent, p)
  <2>1. AnswersMarked(out, sent, p)  BY <1>3, <1>4, <1>13 DEF Good, Placed
  <2> SUFFICES ASSUME NEW n \in 1..Len(z), IsAnswer(z[n])
               PROVE  n < Len(z) /\ z[n + 1].t = "completed" /\ Marked(z, sent, p, z[n + 1].id, n)
    BY DEF AnswersMarked
  <2>2. n \in 1..Len(out)  BY <1>7 DEF IsAnswer
  <2> QED  BY <1>5, <2>1, <2>2, AnswersThen
<1>20. WaitingMarked(y, sent)  BY <1>3, <1>9, <1>13 DEF Good, Placed, WaitingMarked
<1>21. PumpMarked(z, x.side, p, x.job)
  <2>1. PumpMarked(out, w.side, p, w.job)  BY <1>3, <1>4 DEF Good, Placed
  <2>2. out # <<>> => z # <<>> /\ z[1] = out[1]
    <3> SUFFICES ASSUME out # <<>> PROVE z # <<>> /\ z[1] = out[1]  OBVIOUS
    <3>1. 1 \in 1..Len(out)  BY <1>4
    <3>2. 1 \in 1..Len(z) /\ z[1] = out[1]  BY <1>8, <3>1
    <3> QED  BY <3>2
  <2> QED  BY <1>13, <1>14, <2>1, <2>2 DEF PumpMarked
<1>22. Carried(y, sent, x.job)
  <2>1. Carried(c, sent, w.job)  BY <1>3, <1>13 DEF Good, Placed
  <2>2. \A v : InWaiting(y, v) <=> InWaiting(c, v)  BY <1>9 DEF InWaiting
  <2> QED  BY <1>10, <1>11, <2>1, <2>2 DEF Carried
<1>23. JobKnown(x.side, x.job, y)  BY <1>13, <1>14 DEF Good, Placed, JobKnown
<1>24. StopKnown(x.side, x.job, p, y, sp)  BY <1>14 DEF StopKnown, Strict
<1> QED  BY <1>3, <1>4, <1>13, <1>14, <1>15, <1>16, <1>17, <1>18, <1>19, <1>20, <1>21, <1>22, <1>23, <1>24
         DEF Good, Placed

-----------------------------------------------------------------------------
(* The CLI's steps.                                                         *)

\* What the CLI has is no work of a compact, and nothing a stop would leave.
LEMMA BusyCli ==
  ASSUME NEW w, NEW k, NEW p, NEW a, NEW st, NEW sp, Good(w, k, p, a, st, sp), ~ Idle(w.cli)
  PROVE  w.job.by = "none" /\ w.job = NoJob
BY DEF Good, Placed, JobKnown

LEMMA WaitingBusy ==
  ASSUME NEW w, NEW k, NEW p, NEW a, NEW st, NEW sp, Good(w, k, p, a, st, sp), Waiting(w.cli) # <<>>
  PROVE  w.job.by = "none" /\ w.job = NoJob /\ ~ w.side.stopping
BY BusyCli DEF Idle, Good, Placed, StopKnown

\* The three places of what waits.
LEMMA WaitingIs ==
  ASSUME NEW c \in Cli
  PROVE  /\ c.pulled \in Seq(Nat) /\ c.input \in Seq(Nat) /\ c.before \in Nat
         /\ c.before = 0 => Waiting(c) = c.pulled \o c.input
         /\ c.before # 0 => Waiting(c) = (c.pulled \o <<c.before>>) \o c.input
<1>1. c.pulled \in Seq(Nat) /\ c.input \in Seq(Nat) /\ c.before \in Nat  BY DEF Cli
<1>2. c.pulled \o <<>> = c.pulled  BY <1>1
<1> QED  BY <1>1, <1>2 DEF Waiting

LEMMA PulledNext ==
  ASSUME NEW s \in Seq(Nat), NEW i \in Seq(Nat), i # <<>>
  PROVE  s \o i = (s \o <<Head(i)>>) \o Tail(i) /\ s \o i # <<>>
<1>1. Head(i) \in Nat /\ Tail(i) \in Seq(Nat)  BY TailIs
<1>2. PICK h \in Nat : h = Head(i)  BY <1>1
<1>3. PICK t \in Seq(Nat) : t = Tail(i)  BY <1>1
<1>4. PICK q \in Seq(Nat) : q = <<h>>
  <2>1. <<h>> \in Seq(Nat)  OBVIOUS
  <2> QED  BY <2>1
<1>5. i = q \o t  BY <1>2, <1>3, <1>4
<1>6. (s \o q) \o t = s \o (q \o t)
  <2>1. Join(Join(s, q), t) = Join(s, Join(q, t))  BY JoinThrice
  <2> QED  BY <2>1 DEF Join
<1>7. s \o i # <<>>
  <2>1. Len(s \o i) = Len(s) + Len(i) /\ Len(s) \in Nat /\ Len(i) > 0  OBVIOUS
  <2> QED  BY <2>1
<1> QED  BY <1>2, <1>3, <1>4, <1>5, <1>6, <1>7

LEMMA LifecycleIs ==
  ASSUME NEW t \in MsgKinds, NEW id \in Nat, NEW m, m = Lifecycle(t, id)
  PROVE  m \in Msg /\ m.t = t /\ m.id = id /\ m.labels = <<>>
<1>1. m = [t |-> t, id |-> id, n |-> 0, labels |-> <<>>]  BY DEF Lifecycle, NoMessage
<1>2. <<>> \in Seq(Nat)  OBVIOUS
<1> QED  BY <1>1, <1>2 DEF Msg

LEMMA ReadingIs ==
  ASSUME NEW n \in Nat, NEW m, m = Reading(n)
  PROVE  m \in Msg /\ m.t = "assistant" /\ m.labels = <<>>
<1>1. m = [t |-> "assistant", id |-> 0, n |-> n, labels |-> <<>>]  BY DEF Reading, NoMessage
<1>2. <<>> \in Seq(Nat) /\ "assistant" \in MsgKinds  BY DEF MsgKinds
<1> QED  BY <1>1, <1>2 DEF Msg

LEMMA ResultIs ==
  ASSUME NEW t \in MsgKinds, NEW labels \in Seq(Nat), NEW m, m = Result(t, labels)
  PROVE  m \in Msg /\ m.t = t /\ m.labels = labels
<1>1. m = [t |-> t, id |-> 0, n |-> 0, labels |-> labels]  BY DEF Result, NoMessage
<1> QED  BY <1>1 DEF Msg

LEMMA PullKeeps ==
  ASSUME SessionInv, ~ side.closed, Pull
  PROVE  SessionInv'
<1>1. /\ Good(World, kinds, pump, answers, started, spent) /\ Awake(side) /\ World \in Worlds
      /\ World.side = side /\ World.cli = cli /\ World.job = job
      /\ side \in Side /\ cli \in Cli /\ job \in Job
  BY InvHolds
<1>2. PICK u, k, p, a, st, sp : u = World /\ k = kinds /\ p = pump /\ a = answers /\ st = started /\ sp = spent
  OBVIOUS
<1>3. /\ kinds' = k /\ pump' = p /\ answers' = a /\ started' = st /\ spent' = sp /\ read' \in BOOLEAN
      /\ job' = job /\ cli.before = 0 /\ cli.input # <<>>
  BY <1>1, <1>2 DEF Pull, SessionInv
<1>4. Good(u, k, p, a, st, sp) /\ u.side = side /\ u.cli = cli /\ u.job = job  BY <1>1, <1>2
<1>5. PICK i \in Seq(Nat), s \in Seq(Nat) : i = cli.input /\ s = cli.pulled  BY <1>1, WaitingIs
<1>6. PICK h \in Nat, t \in Seq(Nat) : h = Head(i) /\ t = Tail(i)
  <2>1. Head(i) \in Nat /\ Tail(i) \in Seq(Nat)  BY <1>3, <1>5, TailIs
  <2> QED  BY <2>1
<1>7. Waiting(cli) = (s \o <<h>>) \o t
  <2>1. Waiting(cli) = s \o i  BY <1>1, <1>3, <1>5, WaitingIs
  <2>2. i # <<>>  BY <1>3, <1>5
  <2>3. s \o i = (s \o <<Head(i)>>) \o Tail(i)  BY <2>2, PulledNext
  <2> QED  BY <1>6, <2>1, <2>3
<1>8. h # 0
  <2>1. PICK W \in Seq(Nat) : W = Waiting(cli)  BY <1>1, WaitingTyped
  <2>2. Len(s) + 1 \in 1..Len(W) /\ W[Len(s) + 1] = h
    <3>0. s \o <<h>> \in Seq(Nat)  OBVIOUS
    <3>1. PICK v \in Seq(Nat) : v = s \o <<h>>  BY <3>0
    <3>2. Len(v) = Len(s) + 1 /\ v[Len(s) + 1] = h  BY <3>1
    <3>3. W = v \o t  BY <1>7, <2>1, <3>1
    <3>4. Len(v) \in 1..(Len(v) + Len(t))  BY <3>2
    <3>5. Len(W) = Len(v) + Len(t) /\ W[Len(v)] = v[Len(v)]
      BY <3>3, <3>4, ConcatIs
    <3> QED  BY <3>2, <3>4, <3>5
  <2>3. h \in Id  BY <1>4, <2>1, <2>2, GoodIds
  <2> QED  BY <2>3, SessionBounds DEF Id, Prompts, Notes
<1>9. PICK c : c = cli'  OBVIOUS
<1>10. c = [cli EXCEPT !.input = t, !.before = h]  BY <1>5, <1>6, <1>9 DEF Pull
<1>11. c \in Cli /\ c.pulled = s /\ c.before = h /\ c.input = t /\ c.out = cli.out /\ c.turn = cli.turn
       /\ c.stopped = cli.stopped
  BY <1>1, <1>5, <1>10 DEF Cli
<1>12. Waiting(c) = (s \o <<h>>) \o t  BY <1>8, <1>11, WaitingIs
<1>13. CliSame(cli, c) /\ c.pulled = cli.pulled  BY <1>5, <1>7, <1>11, <1>12 DEF CliSame
<1>14. PICK y : y = side'  OBVIOUS
<1>15. PICK open \in BOOLEAN : open = (side.turnOpen \/ ~ IsNote(h))
  <2>1. (side.turnOpen \/ ~ IsNote(h)) \in BOOLEAN  OBVIOUS
  <2> QED  BY <2>1
<1>16. y = [side EXCEPT !.turnOpen = open]  BY <1>5, <1>6, <1>14, <1>15 DEF Pull
<1>17. y \in Side /\ y.inputs = side.inputs /\ MarksSame(side, y) /\ y.closed = side.closed
       /\ y.inputEnded = side.inputEnded
  BY <1>1, <1>16 DEF Side, MarksSame
<1>18. PICK w : w = [side |-> y, cli |-> c, job |-> job]  OBVIOUS
<1>19. w \in Worlds /\ w.side = y /\ w.cli = c /\ w.job = job  BY <1>1, <1>11, <1>17, <1>18 DEF Worlds
<1>20. Good(w, k, p, a, st, sp)  BY <1>4, <1>13, <1>17, <1>19, GoodFrame
<1>21. Awake(w.side)  BY <1>1, <1>17, <1>19 DEF Awake, MarksSame
<1>22. Becomes(w)  BY <1>3, <1>9, <1>14, <1>19 DEF Becomes
<1> QED  BY <1>3, <1>20, <1>21, <1>22, InvThen

LEMMA PulledKeeps ==
  ASSUME SessionInv, ~ side.closed, Pulled
  PROVE  SessionInv'
<1>1. /\ Good(World, kinds, pump, answers, started, spent) /\ Awake(side) /\ World \in Worlds
      /\ World.side = side /\ World.cli = cli /\ World.job = job
      /\ side \in Side /\ cli \in Cli /\ job \in Job
  BY InvHolds
<1>2. PICK u, k, p, a, st, sp : u = World /\ k = kinds /\ p = pump /\ a = answers /\ st = started /\ sp = spent
  OBVIOUS
<1>3. /\ kinds' = k /\ pump' = p /\ answers' = a /\ started' = st /\ spent' = sp /\ read' \in BOOLEAN
      /\ job' = job /\ side' = side /\ cli.before # 0
  BY <1>1, <1>2 DEF Pulled, SessionInv
<1>4. Good(u, k, p, a, st, sp) /\ u.side = side /\ u.cli = cli /\ u.job = job  BY <1>1, <1>2
<1>5. PICK i \in Seq(Nat), s \in Seq(Nat), h \in Nat : i = cli.input /\ s = cli.pulled /\ h = cli.before
  BY <1>1, WaitingIs
<1>6. Waiting(cli) = (s \o <<h>>) \o i  BY <1>1, <1>3, <1>5, WaitingIs
<1>7. PICK v \in Seq(Nat) : v = Append(s, h)
  <2>1. Append(s, h) \in Seq(Nat)  OBVIOUS
  <2> QED  BY <2>1
<1>8. v = s \o <<h>>  BY <1>7
<1>9. PICK m : m = Lifecycle("queued", h)  OBVIOUS
<1>10. m \in Msg /\ m.t = "queued" /\ m.labels = <<>>
  <2>1. PICK t \in MsgKinds : t = "queued"  BY DEF MsgKinds
  <2> QED  BY <1>9, <2>1, LifecycleIs
<1>11. PICK q : q = <<m>>  OBVIOUS
<1>12. Quietly(q) /\ q \in Seq(Msg)  BY <1>10, <1>11 DEF Quietly
<1>13. PICK out \in Seq(Msg), z \in Seq(Msg) : out = cli.out /\ z = out \o q
  <2>1. cli.out \in Seq(Msg)  BY <1>1 DEF Cli
  <2>2. cli.out \o q \in Seq(Msg)  BY <1>12, <2>1
  <2> QED  BY <2>1, <2>2
<1>14. PICK c : c = cli'  OBVIOUS
<1>15. c = [cli EXCEPT !.before = 0, !.pulled = v, !.out = z]
  BY <1>5, <1>7, <1>9, <1>11, <1>13, <1>14 DEF Pulled, Emits
<1>16. c \in Cli /\ c.pulled = v /\ c.before = 0 /\ c.input = i /\ c.out = z /\ c.turn = cli.turn
       /\ c.stopped = cli.stopped
  <2>1. z \in Seq(Msg)  BY <1>12, <1>13
  <2> QED  BY <1>1, <1>5, <1>15, <2>1 DEF Cli
<1>17. Waiting(c) = Waiting(cli)
  <2>1. Waiting(c) = v \o i  BY <1>16, WaitingIs
  <2> QED  BY <1>6, <1>8, <2>1
<1>18. Waiting(cli) # <<>>
  <2>1. s \o <<h>> # <<>> /\ s \o <<h>> \in Seq(Nat)  OBVIOUS
  <2>2. (s \o <<h>>) \o i # <<>>
    <3>1. PICK x \in Seq(Nat) : x = s \o <<h>>  BY <2>1
    <3>2. Len(x \o i) = Len(x) + Len(i) /\ Len(x) > 0  BY <2>1, <3>1
    <3> QED  BY <3>1, <3>2
  <2> QED  BY <1>6, <2>2
<1>19. u.job.by = "none" /\ ~ side.stopping  BY <1>4, <1>18, WaitingBusy
<1>20. PICK w : w = [side |-> side, cli |-> c, job |-> job]  OBVIOUS
<1>21. w \in Worlds /\ w.side = side /\ w.cli = c /\ w.job = job  BY <1>1, <1>16, <1>20 DEF Worlds
<1>22. SeenKnown(c, side)
  <2>1. SeenKnown(cli, side)  BY <1>4 DEF Good, Placed
  <2>2. z # <<>>
    <3>1. Len(z) = Len(out) + 1  BY <1>11, <1>12, <1>13
    <3> QED  BY <3>1
  <2>3. out = <<>> => z[1] = m  BY <1>11, <1>13
  <2>4. out # <<>> => z[1] = out[1]
    <3> SUFFICES ASSUME out # <<>> PROVE z[1] = out[1]  OBVIOUS
    <3>1. 1 \in 1..(Len(out) + Len(q)) /\ 1 <= Len(out)  BY <1>11
    <3> QED  BY <1>12, <1>13, <3>1, ConcatIs
  <2> QED  BY <1>10, <1>13, <1>16, <2>1, <2>2, <2>3, <2>4 DEF SeenKnown
<1>23. TurnGoesOn(cli, c)  BY <1>16 DEF TurnGoesOn
<1>24. MarksSame(side, side)  BY DEF MarksSame
<1>25. Good(w, k, p, a, st, sp)
  <2>1. /\ MarksSame(u.side, w.side) /\ w.side.inputs = u.side.inputs /\ w.job = u.job
        /\ w.cli.out = u.cli.out \o q /\ TurnGoesOn(u.cli, w.cli) /\ w.cli.stopped = u.cli.stopped
        /\ Waiting(w.cli) = Waiting(u.cli) /\ u.job.by = "none" /\ ~ u.side.stopping /\ SeenKnown(w.cli, w.side)
    BY <1>4, <1>13, <1>16, <1>17, <1>19, <1>21, <1>22, <1>23, <1>24
  <2> QED  BY <1>4, <1>12, <1>21, <2>1, EmitKeeps
<1>26. Becomes(w) /\ Awake(w.side)  BY <1>1, <1>3, <1>14, <1>21 DEF Becomes
<1> QED  BY <1>3, <1>25, <1>26, InvThen

-----------------------------------------------------------------------------
(* The CLI starts prompts: a turn begins, or it goes on with what was pulled. *)

FromNote(c, ids) == NoteWaits(c) /\ ids # <<>>

StartMessages(u, ids) ==
  /\ u \in Seq(Msg)
  /\ \A n \in 1..Len(u) :
       /\ u[n].labels = <<>>
       /\ \/ u[n].t = "assistant"
          \/ u[n].t = "started" /\ \E i \in 1..Len(ids) : u[n].id = ids[i]

Starts(c, y, ids, u) ==
  /\ ids \in Seq(Nat) /\ Waiting(c) = ids \o Waiting(y) /\ y.stopped = c.stopped
  /\ y.turn.uuids = c.turn.uuids \o ids /\ y.turn.uuids # <<>> /\ y.turn.stage # "none"
  /\ IF FromNote(c, ids) THEN y.turn.labels = c.stopped /\ Len(ids) = 1
     ELSE y.turn.labels = c.turn.labels \o ids
  /\ StartMessages(u, ids) /\ y.out = c.out \o u

Moved(y, ids, then, l, d, e, top) ==
  \E f \in Nat :
    /\ d <= f /\ f <= e /\ Middle(y, l, f, e) /\ ~ NoteWaits(y) /\ Begun(then, f)
    /\ \A i \in 1..Len(ids) : (1 <= ids[i] /\ ids[i] <= f) \/ (ids[i] > MaxInputs /\ ids[i] = top)

\* The line, when ids are taken from what waits.
LEMMA StartMoves ==
  ASSUME NEW c \in Cli, NEW y \in Cli, NEW ids, NEW u, Starts(c, y, ids, u),
         NEW l \in Nat, NEW d \in Nat, NEW e \in Nat, NEW top \in Nat, NEW st,
         Middle(c, l, d, e), NEW strict, Behind(c, d, top, strict), Begun(st, d), e <= MaxInputs,
         NEW then, then = IF FromNote(c, ids) THEN st ELSE st \o ids,
         ids = <<>> => ~ NoteWaits(c)
  PROVE  Moved(y, ids, then, l, d, e, top)
<1>0. MaxInputs \in Nat  BY SessionBounds
<1>1. PICK W \in Seq(Nat), V \in Seq(Nat) : W = Waiting(c) /\ V = Waiting(y)
  <2>1. Waiting(c) \in Seq(Nat) /\ Waiting(y) \in Seq(Nat)  BY WaitingTyped
  <2> QED  BY <2>1
<1>2. ids \in Seq(Nat) /\ W = ids \o V  BY <1>1 DEF Starts
<1>3. ASSUME NEW f \in Nat, IsRun(V, f, e) PROVE ~ NoteWaits(y)
  <2>1. V # <<>> => Head(V) = f + 1 /\ f + 1 <= e
    <3> SUFFICES ASSUME V # <<>> PROVE Head(V) = f + 1 /\ f + 1 <= e  OBVIOUS
    <3>1. Head(V) = f + 1 /\ IsRun(Tail(V), f + 1, e)  BY <1>3, RunTail
    <3> QED  BY <3>1 DEF IsRun
  <2> QED  BY <1>0, <1>1, <2>1 DEF NoteWaits
<1>4. CASE FromNote(c, ids)
  <2>1. W # <<>> /\ Head(W) > MaxInputs /\ Head(W) = top /\ IsRun(c.stopped, l, d) /\ IsRun(Tail(W), d, e)
    BY <1>1, <1>4 DEF FromNote, NoteWaits, Middle, Behind
  <2>2. Len(ids) = 1  BY <1>4 DEF Starts
  <2>3. PICK h \in Nat : h = ids[1]
    <3>1. 1 \in 1..Len(ids)  BY <2>2
    <3> QED  BY <1>2, <3>1
  <2>4. Head(W) = h /\ Tail(W) = V
    <3>1. ids = <<h>>  BY <1>2, <2>2, <2>3
    <3>2. W = <<h>> \o V  BY <1>2, <3>1
    <3>3. Head(<<h>> \o V) = h /\ Tail(<<h>> \o V) = V
      BY SMTT(30)
    <3> QED  BY <3>2, <3>3
  <2>5. y.turn.labels = c.stopped  BY <1>4 DEF Starts
  <2>6. IsRun(V, d, e) /\ ~ NoteWaits(y)  BY <1>3, <2>1, <2>4
  <2>7. Middle(y, l, d, e)  BY <1>1, <2>1, <2>5, <2>6 DEF Middle
  <2>8. d <= e  BY <2>1 DEF IsRun
  <2>9. \A i \in 1..Len(ids) : ids[i] > MaxInputs /\ ids[i] = top  BY <2>1, <2>2, <2>3, <2>4
  <2>10. then = st  BY <1>4
  <2>11. Begun(then, d)  BY <2>10
  <2>12. \A i \in 1..Len(ids) : (1 <= ids[i] /\ ids[i] <= d) \/ (ids[i] > MaxInputs /\ ids[i] = top)  BY <2>9
  <2>13. d \in Nat /\ d <= d /\ d <= e  BY <2>8
  <2> HIDE <2>10
  <2> QED  BY <2>6, <2>7, <2>11, <2>12, <2>13 DEF Moved
<1>5. CASE ~ FromNote(c, ids)
  <2>0. ~ NoteWaits(c)  BY <1>5 DEF FromNote
  <2>1. IsRun(c.turn.labels, l, d) /\ IsRun(W, d, e)  BY <1>1, <2>0 DEF Middle
  <2>2. PICK f \in Nat : f = d + Len(ids)  BY <1>2
  <2>3. IsRun(ids, d, f) /\ IsRun(V, f, e)
    <3>1. IsRun(ids \o V, d, e)  BY <1>2, <2>1
    <3> QED  BY <1>2, <2>2, <3>1, RunSplit
  <2>4. d <= f /\ f <= e /\ \A i \in 1..Len(ids) : ids[i] = d + i /\ d + i <= f
    BY <1>2, <2>2, <2>3 DEF IsRun
  <2>5. y.turn.labels = c.turn.labels \o ids  BY <1>5 DEF Starts
  <2>6. IsRun(y.turn.labels, l, f)  BY <2>1, <2>3, <2>5, RunConcat
  <2>7. ~ NoteWaits(y)  BY <1>3, <2>3
  <2>8. Middle(y, l, f, e)  BY <1>1, <2>3, <2>6, <2>7 DEF Middle
  <2>9. Begun(st \o ids, f)
    <3>1. /\ st \in Seq(Nat) /\ (\A i \in 1..Len(st) : st[i] <= d)
          /\ \A i, j \in 1..Len(st) : i < j => st[i] < st[j]
      BY DEF Begun
    <3>2. PICK z : z = st \o ids  OBVIOUS
    <3>3. /\ z \in Seq(Nat) /\ Len(z) = Len(st) + Len(ids) /\ Len(st) \in Nat /\ Len(ids) \in Nat
          /\ \A n \in 1..(Len(st) + Len(ids)) : /\ n <= Len(st) => z[n] = st[n]
                                                /\ n > Len(st) => z[n] = ids[n - Len(st)]
      BY <1>2, <3>1, <3>2, ConcatIs
    <3>4. ASSUME NEW n \in 1..Len(z), n <= Len(st)
          PROVE  z[n] = st[n] /\ n \in 1..Len(st) /\ z[n] <= d /\ z[n] \in Nat
      <4>1. n \in 1..Len(st) /\ n \in 1..(Len(st) + Len(ids))  BY <3>3, <3>4
      <4>2. z[n] = st[n]  BY <3>3, <3>4, <4>1
      <4>3. st[n] \in Nat /\ st[n] <= d  BY <3>1, <4>1
      <4> QED  BY <4>1, <4>2, <4>3
    <3>5. ASSUME NEW n \in 1..Len(z), n > Len(st) PROVE z[n] = d + (n - Len(st)) /\ z[n] <= f /\ z[n] \in Nat
      <4>1. PICK m \in 1..Len(ids) : m = n - Len(st)
        <5>1. n - Len(st) \in 1..Len(ids)  BY <3>3, <3>5
        <5> QED  BY <5>1
      <4>2. z[n] = ids[m]  BY <3>3, <3>5, <4>1
      <4> QED  BY <2>4, <4>1, <4>2
    <3>6. ASSUME NEW n \in 1..Len(z) PROVE z[n] <= f /\ z[n] \in Nat
      <4>1. CASE n <= Len(st)
        <5>1. z[n] <= d /\ z[n] \in Nat  BY <3>4, <4>1
        <5> QED  BY <2>4, <5>1
      <4>2. CASE n > Len(st)  BY <3>5, <4>2
      <4> QED  BY <3>3, <4>1, <4>2
    <3>7. ASSUME NEW i \in 1..Len(z), NEW j \in 1..Len(z), i < j PROVE z[i] < z[j]
      <4>0. z[i] \in Nat /\ z[j] \in Nat /\ Len(st) \in Nat  BY <3>3, <3>6
      <4>1. CASE j <= Len(st)
        <5>1. i <= Len(st)  BY <3>7, <4>0, <4>1
        <5>2. z[i] = st[i] /\ i \in 1..Len(st) /\ z[j] = st[j] /\ j \in 1..Len(st)  BY <3>4, <4>1, <5>1
        <5> QED  BY <3>1, <3>7, <5>2
      <4>2. CASE j > Len(st) /\ i <= Len(st)
        <5>1. z[i] <= d /\ z[j] = d + (j - Len(st))  BY <3>4, <3>5, <4>2
        <5> QED  BY <4>0, <4>2, <5>1
      <4>3. CASE j > Len(st) /\ i > Len(st)
        <5>1. z[i] = d + (i - Len(st)) /\ z[j] = d + (j - Len(st))  BY <3>5, <4>3
        <5> QED  BY <3>7, <4>0, <5>1
      <4> QED  BY <4>0, <4>1, <4>2, <4>3
    <3> QED  BY <3>2, <3>3, <3>6, <3>7 DEF Begun
  <2>10. \A i \in 1..Len(ids) : 1 <= ids[i] /\ ids[i] <= f  BY <2>4
  <2>11. then = st \o ids  BY <1>5
  <2> QED  BY <2>4, <2>7, <2>8, <2>9, <2>10, <2>11 DEF Moved
<1> QED  BY <1>4, <1>5

\* What a prompt the CLI starts has passed.
LEMMA StartPasses ==
  ASSUME NEW c \in Cli, NEW y \in Cli, NEW ids, NEW u, Starts(c, y, ids, u)
  PROVE  /\ \A v : InTurn(y, v) <=> InTurn(c, v) \/ \E i \in 1..Len(ids) : v = ids[i]
         /\ \A v : InOut(y, "completed", v) <=> InOut(c, "completed", v)
         /\ \A v : InOut(y, "started", v) => InOut(c, "started", v) \/ \E i \in 1..Len(ids) : v = ids[i]
         /\ Len(c.out) \in Nat /\ Len(y.out) \in Nat /\ Len(c.out) <= Len(y.out)
         /\ \A m \in 1..Len(c.out) : m \in 1..Len(y.out) /\ y.out[m] = c.out[m]
         /\ \A m \in 1..Len(y.out) :
              \/ m \in 1..Len(c.out) /\ y.out[m] = c.out[m]
              \/ /\ m > Len(c.out) /\ y.out[m].t \in {"started", "assistant"} /\ y.out[m].labels = <<>>
                 /\ y.out[m].t = "started" => \E i \in 1..Len(ids) : y.out[m].id = ids[i]
<1>1. PICK out \in Seq(Msg), z \in Seq(Msg) : out = c.out /\ z = y.out  BY DEF Cli
<1>2. u \in Seq(Msg) /\ z = out \o u /\ ids \in Seq(Nat)  BY <1>1 DEF Starts, StartMessages
<1>3. /\ Len(out) \in Nat /\ Len(u) \in Nat /\ Len(z) = Len(out) + Len(u)
      /\ \A m \in 1..(Len(out) + Len(u)) : /\ m <= Len(out) => z[m] = out[m]
                                           /\ m > Len(out) => z[m] = u[m - Len(out)]
  <2>1. Len(out) \in Nat /\ Len(u) \in Nat  BY <1>2
  <2> QED  BY <1>2, <2>1, ConcatIs
<1>4. ASSUME NEW m \in 1..Len(z), m > Len(out)
      PROVE  /\ z[m].t \in {"started", "assistant"} /\ z[m].labels = <<>>
             /\ z[m].t = "started" => \E i \in 1..Len(ids) : z[m].id = ids[i]
  <2>0. Len(out) \in Nat /\ Len(u) \in Nat /\ m \in 1..(Len(out) + Len(u))  BY <1>3
  <2>1. m - Len(out) \in 1..Len(u)  BY <1>4, <2>0
  <2>2. z[m] = u[m - Len(out)]  BY <1>3, <1>4, <2>0
  <2>3. PICK n \in 1..Len(u) : n = m - Len(out)  BY <2>1
  <2>4. /\ u[n].labels = <<>>
        /\ \/ u[n].t = "assistant"
           \/ u[n].t = "started" /\ \E i \in 1..Len(ids) : u[n].id = ids[i]
    BY DEF Starts, StartMessages
  <2> QED  BY <2>2, <2>3, <2>4
<1>5. \A m \in 1..Len(out) : m \in 1..Len(z) /\ z[m] = out[m]  BY <1>3
<1>6. \A m \in 1..Len(z) : m \in 1..Len(out) \/ m > Len(out)  BY <1>3
<1>7. PICK s \in Seq(Nat), v \in Seq(Nat) : s = c.turn.uuids /\ v = y.turn.uuids  BY DEF Cli, Turn
<1>8. v = s \o ids  BY <1>7 DEF Starts
<1>9. ASSUME NEW x PROVE InTurn(y, x) <=> InTurn(c, x) \/ \E i \in 1..Len(ids) : x = ids[i]
  <2>1. /\ Len(s) \in Nat /\ Len(ids) \in Nat /\ Len(v) = Len(s) + Len(ids)
        /\ \A m \in 1..(Len(s) + Len(ids)) : /\ m <= Len(s) => v[m] = s[m]
                                             /\ m > Len(s) => v[m] = ids[m - Len(s)]
    <3>1. Len(s) \in Nat /\ Len(ids) \in Nat  BY <1>2
    <3> QED  BY <1>2, <1>8, <3>1, ConcatIs
  <2>2. ASSUME NEW i \in 1..Len(ids), x = ids[i] PROVE InTurn(y, x)
    <3>1. PICK m \in 1..Len(v) : m = Len(s) + i
      <4>1. Len(s) + i \in 1..Len(v)  BY <2>1
      <4> QED  BY <4>1
    <3>2. m > Len(s) /\ m - Len(s) = i  BY <2>1, <3>1
    <3>3. v[m] = ids[i]  BY <2>1, <3>2
    <3> QED  BY <1>7, <2>2, <3>3 DEF InTurn
  <2>3. ASSUME InTurn(c, x) PROVE InTurn(y, x)
    <3>1. PICK n \in 1..Len(s) : s[n] = x  BY <1>7, <2>3 DEF InTurn
    <3>1a. n \in 1..(Len(s) + Len(ids)) /\ n \in 1..Len(v) /\ n <= Len(s)  BY <2>1
    <3>1b. v[n] = s[n]  BY <2>1, <3>1a
    <3>2. n \in 1..Len(v) /\ v[n] = x  BY <3>1, <3>1a, <3>1b
    <3> QED  BY <1>7, <3>2 DEF InTurn
  <2>4. ASSUME InTurn(y, x) PROVE InTurn(c, x) \/ \E i \in 1..Len(ids) : x = ids[i]
    <3>1. PICK n \in 1..Len(v) : v[n] = x  BY <1>7, <2>4 DEF InTurn
    <3>2. CASE n <= Len(s)
      <4>1. n \in 1..Len(s) /\ v[n] = s[n]  BY <2>1, <3>2
      <4> QED  BY <1>7, <3>1, <4>1 DEF InTurn
    <3>3. CASE n > Len(s)
      <4>1. n - Len(s) \in 1..Len(ids) /\ v[n] = ids[n - Len(s)]  BY <2>1, <3>3
      <4> QED  BY <3>1, <4>1
    <3> QED  BY <2>1, <3>2, <3>3
  <2> QED  BY <2>2, <2>3, <2>4
<1>10. ASSUME NEW x PROVE InOut(y, "completed", x) <=> InOut(c, "completed", x)
  BY <1>1, <1>4, <1>5, <1>6 DEF InOut
<1>11. ASSUME NEW x, InOut(y, "started", x) PROVE InOut(c, "started", x) \/ \E i \in 1..Len(ids) : x = ids[i]
  <2>1. PICK m \in 1..Len(z) : z[m].t = "started" /\ z[m].id = x  BY <1>1, <1>11 DEF InOut
  <2>2. CASE m \in 1..Len(out)  BY <1>1, <1>5, <2>1, <2>2 DEF InOut
  <2>3. CASE m > Len(out)  BY <1>4, <2>1, <2>3
  <2> QED  BY <1>6, <2>2, <2>3
<1> QED  BY <1>1, <1>3, <1>4, <1>5, <1>6, <1>9, <1>10, <1>11

LEMMA StartKeeps ==
  ASSUME NEW w, NEW k, NEW p, NEW a, NEW st, NEW sp, Good(w, k, p, a, st, sp), NEW x \in Worlds,
         MarksSame(w.side, x.side), x.side.inputs = w.side.inputs, x.job = w.job,
         NEW ids, NEW u, Starts(w.cli, x.cli, ids, u), ids = <<>> => w.cli.turn.stage # "none",
         w.job.by = "none", ~ w.side.stopping, SeenKnown(x.cli, x.side)
  PROVE  Good(x, k, p, a, IF FromNote(w.cli, ids) THEN st ELSE st \o ids, sp)
<1>1. /\ w \in Worlds /\ w.cli \in Cli /\ w.side \in Side /\ w.job \in Job /\ Len(k) \in Nat
      /\ Len(k) <= MaxInputs /\ MaxInputs \in Nat /\ MaxInputs + sp.stops \in Nat
  BY GoodIds
<1>2. x.cli \in Cli /\ x.side \in Side /\ x.job \in Job  BY TypesOf
<1>3. PICK c \in Cli, y \in Cli : c = w.cli /\ y = x.cli  BY <1>1, <1>2
<1>4. PICK out \in Seq(Msg), z \in Seq(Msg) : out = c.out /\ z = y.out  BY DEF Cli
<1>5. Starts(c, y, ids, u)  BY <1>3
<1>6. /\ \A v : InTurn(y, v) <=> InTurn(c, v) \/ \E i \in 1..Len(ids) : v = ids[i]
      /\ \A v : InOut(y, "completed", v) <=> InOut(c, "completed", v)
      /\ \A v : InOut(y, "started", v) => InOut(c, "started", v) \/ \E i \in 1..Len(ids) : v = ids[i]
      /\ Len(out) \in Nat /\ Len(z) \in Nat /\ Len(out) <= Len(z)
      /\ \A m \in 1..Len(out) : m \in 1..Len(z) /\ z[m] = out[m]
      /\ \A m \in 1..Len(z) :
           \/ m \in 1..Len(out) /\ z[m] = out[m]
           \/ /\ m > Len(out) /\ z[m].t \in {"started", "assistant"} /\ z[m].labels = <<>>
              /\ z[m].t = "started" => \E i \in 1..Len(ids) : z[m].id = ids[i]
  BY <1>4, <1>5, StartPasses
<1>7. PICK sent : sent = w.side.sent  OBVIOUS
<1>8. /\ x.side.sent = sent /\ x.side.seen = w.side.seen /\ x.side.compacting = w.side.compacting
      /\ x.side.stopping = w.side.stopping /\ x.side.advancing = w.side.advancing
  BY <1>7 DEF MarksSame
<1>9. /\ u \in Seq(Msg) /\ z = out \o u /\ ids \in Seq(Nat) /\ (\A n \in 1..Len(u) : u[n].labels = <<>>)
      /\ NoAnswer(u)
  BY <1>4, <1>5 DEF Starts, StartMessages, NoAnswer, IsAnswer
<1>10. PICK W \in Seq(Nat), V \in Seq(Nat) : W = Waiting(c) /\ V = Waiting(y)
  <2>1. Waiting(c) \in Seq(Nat) /\ Waiting(y) \in Seq(Nat)  BY WaitingTyped
  <2> QED  BY <2>1
<1>11. /\ Len(ids) \in Nat /\ Len(V) \in Nat /\ Len(W) = Len(ids) + Len(V)
       /\ \A n \in 1..Len(ids) : n \in 1..Len(W) /\ W[n] = ids[n]
       /\ \A n \in 1..Len(V) : Len(ids) + n \in 1..Len(W) /\ W[Len(ids) + n] = V[n]
       /\ \A n \in 1..Len(W) : n \in 1..Len(ids) \/ \E m \in 1..Len(V) : W[n] = V[m]
  <2>1. W = ids \o V  BY <1>5, <1>10 DEF Starts
  <2>2. /\ Len(ids) \in Nat /\ Len(V) \in Nat /\ Len(W) = Len(ids) + Len(V)
        /\ \A n \in 1..(Len(ids) + Len(V)) : /\ n <= Len(ids) => W[n] = ids[n]
                                             /\ n > Len(ids) => W[n] = V[n - Len(ids)]
    <3>1. Len(ids) \in Nat /\ Len(V) \in Nat  BY <1>9
    <3> QED  BY <1>9, <2>1, <3>1, ConcatIs
  <2>3. ASSUME NEW n \in 1..Len(V) PROVE Len(ids) + n \in 1..Len(W) /\ W[Len(ids) + n] = V[n]
    <3>1. PICK m \in 1..(Len(ids) + Len(V)) : m = Len(ids) + n
      <4>1. Len(ids) + n \in 1..(Len(ids) + Len(V))  BY <2>2
      <4> QED  BY <4>1
    <3>2. m > Len(ids) /\ m - Len(ids) = n  BY <2>2, <3>1
    <3>3. W[m] = V[n]
      <4>1. W[m] = V[m - Len(ids)]  BY <2>2, <3>2
      <4> QED  BY <3>2, <4>1
    <3> QED  BY <2>2, <3>1, <3>3
  <2>4. ASSUME NEW n \in 1..Len(W), n > Len(ids) PROVE \E m \in 1..Len(V) : W[n] = V[m]
    <3>1. n - Len(ids) \in 1..Len(V) /\ W[n] = V[n - Len(ids)]  BY <2>2, <2>4
    <3> QED  BY <3>1
  <2>5. \A n \in 1..Len(ids) : n \in 1..Len(W) /\ W[n] = ids[n]  BY <2>2
  <2>6. \A n \in 1..Len(W) : n \in 1..Len(ids) \/ n > Len(ids)  BY <2>2
  <2>7. \A n \in 1..Len(W) : n \in 1..Len(ids) \/ \E m \in 1..Len(V) : W[n] = V[m]  BY <2>4, <2>6
  <2> HIDE <2>1
  <2> QED  BY <2>2, <2>3, <2>5, <2>7
<1>12. PICK F, H, strict : F = First(p, w.job) /\ H = Held(w.side, w.job) /\ strict = FALSE  OBVIOUS
<1>13. PICK top \in Nat, n \in Nat : top = MaxInputs + sp.stops /\ n = Len(k)  BY <1>1
<1>14. Strict(w.side, w.job) = strict /\ Strict(x.side, x.job) = strict
       /\ F = First(p, x.job) /\ H = Held(x.side, x.job)
  BY <1>8, <1>12 DEF Strict, Held
<1>15. Line(c, F, H, n, a, st, top, strict)  BY <1>3, <1>12, <1>13, <1>14 DEF Good, InLine
<1>16. PICK b \in Nat, l \in Nat, d \in Nat, e \in Nat :
        /\ IsRun(a, 0, Len(a)) /\ IsRun(F, Len(a), b) /\ Chain(c.out, b, l) /\ Middle(c, l, d, e)
        /\ IsRun(H, e, n) /\ Begun(st, d) /\ Behind(c, d, top, strict) /\ e <= n
  <2>1. strict \in BOOLEAN  BY <1>12
  <2> QED  BY <1>15, <2>1, LineBounds
<1>17. TurnMarked(c, sent, p)  BY <1>3, <1>7 DEF Good, Placed
<1>18. ids = <<>> => ~ NoteWaits(c)  BY <1>3, <1>17 DEF TurnMarked
<1>19. e <= MaxInputs  BY <1>1, <1>13, <1>16
<1>20. PICK then : then = IF FromNote(c, ids) THEN st ELSE st \o ids  OBVIOUS
<1>21. PICK f \in Nat :
         /\ d <= f /\ f <= e /\ Middle(y, l, f, e) /\ ~ NoteWaits(y) /\ Begun(then, f)
         /\ \A i \in 1..Len(ids) : (1 <= ids[i] /\ ids[i] <= f) \/ (ids[i] > MaxInputs /\ ids[i] = top)
  <2>2. Moved(y, ids, then, l, d, e, top)  BY <1>5, <1>16, <1>18, <1>19, <1>20, StartMoves
  <2> QED  BY <2>2 DEF Moved
<1>22. \A v \in Nat : Passed(y, v) => Passed(c, v) \/ \E i \in 1..Len(ids) : v = ids[i]
  BY <1>6 DEF Passed
<1>23. InLine(x, k, p, a, then, sp)
  <2>1. Chain(z, b, l)  BY <1>4, <1>9, <1>16, ChainQuiet
  <2>2. Behind(y, f, top, strict)
    <3>1. ASSUME NEW v \in Nat, Passed(y, v) PROVE (1 <= v /\ v <= f) \/ (v > MaxInputs /\ v <= top)
      <4>1. CASE Passed(c, v)
        <5>1. (1 <= v /\ v <= d) \/ (v > MaxInputs /\ v <= top)  BY <1>16, <4>1 DEF Behind
        <5> QED  BY <1>21, <5>1
      <4>2. CASE \E i \in 1..Len(ids) : v = ids[i]  BY <1>21, <4>2
      <4> QED  BY <1>22, <3>1, <4>1, <4>2
    <3> QED  BY <1>12, <1>21, <3>1 DEF Behind
  <2>3. Line(y, F, H, n, a, then, top, strict)  BY <1>4, <1>16, <1>21, <2>1, <2>2 DEF Line
  <2> QED  BY <1>3, <1>12, <1>13, <1>14, <2>3 DEF InLine
<1>24. Shaped(x, k, p, sp)
  <2>0. \A m \in 1..Len(out) : ~ IsAnswer(out[m]) => out[m].labels = <<>>
    BY <1>3, <1>4 DEF Good, Shaped, MessagesKnown
  <2>1. ASSUME NEW m \in 1..Len(z), ~ IsAnswer(z[m]) PROVE z[m].labels = <<>>
    BY <1>6, <2>0, <2>1
  <2> QED  BY <1>3, <1>4, <2>1 DEF Good, Shaped, MessagesKnown
\* What is started had not passed before.
<1>25. ASSUME NEW i \in 1..Len(ids) PROVE ~ Passed(c, ids[i]) /\ sent[ids[i]] = "sent" /\ ids[i] \in Id
  <2>1. WaitingMarked(c, sent)  BY <1>3, <1>7 DEF Good, Placed
  <2>2. i \in 1..Len(W) /\ W[i] = ids[i]  BY <1>11
  <2>3. ~ Passed(c, W[i])  BY <1>10, <1>16, <1>19, <2>2, WaitingNew
  <2>4. W[i] \in Id
    <3>1. \A m \in 1..Len(Waiting(w.cli)) : Waiting(w.cli)[m] \in Id  BY GoodIds
    <3> QED  BY <1>3, <1>10, <2>2, <3>1
  <2>5. sent[W[i]] = "sent"  BY <1>10, <2>1, <2>2 DEF WaitingMarked
  <2> QED  BY <2>2, <2>3, <2>4, <2>5
<1>26. \A i, j \in 1..Len(ids) : ids[i] = ids[j] => i = j
  <2> SUFFICES ASSUME NEW i \in 1..Len(ids), NEW j \in 1..Len(ids), ids[i] = ids[j] PROVE i = j  OBVIOUS
  <2>1. i \in 1..Len(W) /\ j \in 1..Len(W) /\ W[i] = W[j]  BY <1>11
  <2> QED  BY <1>10, <1>16, <1>19, <2>1, WaitingNew
<1>27. Unlike(y)
  <2>1. Unlike(c)  BY <1>3 DEF Good, Placed
  <2>2. \A m \in 1..Len(z) : z[m].t = "completed" => m \in 1..Len(out) /\ z[m] = out[m]  BY <1>6
  <2>3. ASSUME NEW m \in 1..Len(z), NEW q \in 1..Len(z), z[m].t = "completed", z[q].t = "completed", z[m].id = z[q].id
        PROVE  m = q
    <3>1. m \in 1..Len(out) /\ z[m] = out[m] /\ q \in 1..Len(out) /\ z[q] = out[q]  BY <2>2, <2>3
    <3> QED  BY <1>4, <2>1, <2>3, <3>1 DEF Unlike
  <2>4. ASSUME NEW m \in 1..Len(z), z[m].t = "completed", InTurn(y, z[m].id) PROVE FALSE
    <3>1. m \in 1..Len(out) /\ z[m] = out[m]  BY <2>2, <2>4
    <3>2. ~ InTurn(c, z[m].id)  BY <1>4, <2>1, <2>4, <3>1 DEF Unlike
    <3>3. PICK i \in 1..Len(ids) : z[m].id = ids[i]  BY <1>6, <2>4, <3>2
    <3>4. InOut(c, "completed", ids[i])  BY <1>4, <2>4, <3>1, <3>3 DEF InOut
    <3> QED  BY <1>25, <3>4 DEF Passed
  <2>5. PICK s \in Seq(Nat), v \in Seq(Nat) : s = c.turn.uuids /\ v = y.turn.uuids  BY DEF Cli, Turn
  <2>6. /\ Len(s) \in Nat /\ Len(ids) \in Nat /\ Len(v) = Len(s) + Len(ids)
        /\ \A m \in 1..(Len(s) + Len(ids)) : /\ m <= Len(s) => v[m] = s[m]
                                             /\ m > Len(s) => v[m] = ids[m - Len(s)]
    <3>1. v = s \o ids  BY <1>5, <2>5 DEF Starts
    <3>2. Len(s) \in Nat /\ Len(ids) \in Nat  BY <1>9
    <3>3. ids \in Seq(Nat)  BY <1>9
    <3>4. /\ Len(s \o ids) = Len(s) + Len(ids)
          /\ \A m \in 1..(Len(s) + Len(ids)) : /\ m <= Len(s) => (s \o ids)[m] = s[m]
                                               /\ m > Len(s) => (s \o ids)[m] = ids[m - Len(s)]
      BY <3>3, ConcatIs
    <3> QED  BY <3>1, <3>2, <3>4
  <2>7. ASSUME NEW m \in 1..Len(v) PROVE \/ m \in 1..Len(s) /\ v[m] = s[m]
                                         \/ m - Len(s) \in 1..Len(ids) /\ v[m] = ids[m - Len(s)]
    <3>1. m \in 1..(Len(s) + Len(ids)) /\ m \in Nat /\ 1 <= m /\ m <= Len(s) + Len(ids)  BY <2>6
    <3>2. CASE m <= Len(s)
      <4>1. m \in 1..Len(s)  BY <2>6, <3>1, <3>2
      <4>2. v[m] = s[m]  BY <2>6, <3>1, <3>2
      <4> QED  BY <4>1, <4>2
    <3>3. CASE m > Len(s)
      <4>1. m - Len(s) \in 1..Len(ids)  BY <2>6, <3>1, <3>3
      <4>2. v[m] = ids[m - Len(s)]  BY <2>6, <3>1, <3>3
      <4> QED  BY <4>1, <4>2
    <3>4. m <= Len(s) \/ m > Len(s)  BY <2>6, <3>1
    <3> QED  BY <3>2, <3>3, <3>4
  <2>8. \A m \in 1..Len(s), i \in 1..Len(ids) : s[m] # ids[i]
    <3> SUFFICES ASSUME NEW m \in 1..Len(s), NEW i \in 1..Len(ids), s[m] = ids[i] PROVE FALSE  OBVIOUS
    <3>1. InTurn(c, ids[i])  BY <2>5 DEF InTurn
    <3> QED  BY <1>25, <3>1 DEF Passed
  <2>9. \A m, q \in 1..Len(s) : s[m] = s[q] => m = q  BY <2>1, <2>5 DEF Unlike
  <2>10. ASSUME NEW m \in 1..Len(v), NEW q \in 1..Len(v), v[m] = v[q] PROVE m = q
    <3>1. CASE m \in 1..Len(s) /\ v[m] = s[m]
      <4>1. q \in 1..Len(s) /\ v[q] = s[q]  BY <2>7, <2>8, <2>10, <3>1
      <4> QED  BY <2>9, <2>10, <3>1, <4>1
    <3>2. CASE m - Len(s) \in 1..Len(ids) /\ v[m] = ids[m - Len(s)]
      <4>1. q - Len(s) \in 1..Len(ids) /\ v[q] = ids[q - Len(s)]  BY <2>7, <2>8, <2>10, <3>2
      <4>2. m - Len(s) = q - Len(s)  BY <1>26, <2>10, <3>2, <4>1
      <4> QED  BY <2>6, <4>2
    <3> QED  BY <2>7, <3>1, <3>2
  <2> QED  BY <1>4, <2>3, <2>4, <2>5, <2>10 DEF Unlike
<1>28. TurnMarked(y, sent, p)
  <2>1. y.turn.uuids # <<>> /\ y.turn.stage # "none"  BY <1>5 DEF Starts
  <2>2. PICK s \in Seq(Nat) : s = c.turn.uuids  BY DEF Cli, Turn
  <2>3. y.turn.uuids = s \o ids  BY <1>5, <2>2 DEF Starts
  <2>4. CASE c.turn.stage # "none"
    <3>1. s # <<>> /\ Marked(out, sent, p, s[1], Len(out) + 1)
      BY <1>4, <1>17, <2>2, <2>4 DEF TurnMarked
    <3>2. PICK v, m : v = s[1] /\ m = Len(out) + 1  OBVIOUS
    <3>3. m \in 1..Len(out) + 1  BY <1>6, <3>2
    <3>4. Marked(z, sent, p, v, Len(z) + 1)
      <4>1. Marked(out, sent, p, v, m)  BY <3>1, <3>2
      <4> QED  BY <1>9, <3>2, <3>3, <4>1, MarkedThen
    <3>5. y.turn.uuids[1] = v
      <4>1. 1 \in 1..(Len(s) + Len(ids)) /\ 1 <= Len(s)  BY <1>9, <3>1
      <4>2. (s \o ids)[1] = s[1]  BY <1>9, <4>1, ConcatIs
      <4> QED  BY <2>3, <3>2, <4>2
    <3> QED  BY <1>4, <1>21, <2>1, <3>4, <3>5 DEF TurnMarked
  <2>5. CASE c.turn.stage = "none"
    <3>1. s = <<>>  BY <1>17, <2>2, <2>5 DEF TurnMarked, NoTurn
    <3>2. y.turn.uuids = ids /\ 1 \in 1..Len(ids)  BY <1>9, <2>1, <2>3, <3>1
    <3>3. PICK v : v = ids[1]  OBVIOUS
    <3>4. ~ Passed(c, v) /\ sent[v] = "sent"  BY <1>25, <3>2, <3>3
    <3>5. ASSUME NEW i \in 1..Len(z), z[i].t = "started", z[i].id = v PROVE i > Len(out)
      <4> SUFFICES ASSUME i \in 1..Len(out), z[i] = out[i] PROVE FALSE  BY <1>6
      <4>1. InOut(c, "started", v)  BY <1>4, <3>5 DEF InOut
      <4> QED  BY <3>4, <4>1 DEF Passed
    <3>6. \A m \in 1..Len(z) : IsAnswer(z[m]) => m \in 1..Len(out)
      BY <1>6 DEF IsAnswer
    <3>7. (Len(z) + 1) - 1 = Len(z)  BY <1>6
    <3>8. Marked(z, sent, p, v, Len(z) + 1)
      <4>1. \A i \in 1..Len(z) : z[i].t = "started" /\ z[i].id = v =>
              \A m \in 1..Len(z) : IsAnswer(z[m]) => m < i
        <5> SUFFICES ASSUME NEW i \in 1..Len(z), z[i].t = "started", z[i].id = v,
                            NEW m \in 1..Len(z), IsAnswer(z[m])
                     PROVE  m < i
          OBVIOUS
        <5> QED  BY <3>5, <3>6
      <4> QED  BY <3>4, <3>7, <4>1 DEF Marked
    <3> QED  BY <1>4, <1>21, <2>1, <3>2, <3>3, <3>8 DEF TurnMarked
  <2> QED  BY <2>4, <2>5
<1>29. AnswersMarked(z, sent, p)
  <2>1. AnswersMarked(out, sent, p)  BY <1>3, <1>4, <1>7 DEF Good, Placed
  <2> SUFFICES ASSUME NEW m \in 1..Len(z), IsAnswer(z[m])
               PROVE  m < Len(z) /\ z[m + 1].t = "completed" /\ Marked(z, sent, p, z[m + 1].id, m)
    BY DEF AnswersMarked
  <2>2. m \in 1..Len(out)  BY <1>6 DEF IsAnswer
  <2> QED  BY <1>9, <2>1, <2>2, AnswersThen
<1>30. WaitingMarked(y, sent)
  <2>1. \A m \in 1..Len(W) : sent[W[m]] = "sent"  BY <1>3, <1>7, <1>10 DEF Good, Placed, WaitingMarked
  <2>2. ASSUME NEW m \in 1..Len(V) PROVE sent[V[m]] = "sent"
    <3>1. Len(ids) + m \in 1..Len(W) /\ W[Len(ids) + m] = V[m]  BY <1>11
    <3>2. sent[W[Len(ids) + m]] = "sent"  BY <2>1, <3>1
    <3> QED  BY <3>1, <3>2
  <2> QED  BY <1>10, <2>2 DEF WaitingMarked
<1>31. PumpMarked(z, x.side, p, x.job)
  <2>1. PumpMarked(out, w.side, p, w.job)  BY <1>3, <1>4 DEF Good, Placed
  <2>2. out # <<>> => z # <<>> /\ z[1] = out[1]
    <3> SUFFICES ASSUME out # <<>> PROVE z # <<>> /\ z[1] = out[1]  OBVIOUS
    <3>1. 1 \in 1..Len(out)  BY <1>4
    <3>2. 1 \in 1..Len(z) /\ z[1] = out[1]  BY <1>6, <3>1
    <3> QED  BY <3>2
  <2> QED  BY <1>7, <1>8, <2>1, <2>2 DEF PumpMarked
<1>32. Carried(y, sent, x.job)
  <2>1. Carried(c, sent, w.job)  BY <1>3, <1>7 DEF Good, Placed
  <2>2. ASSUME NEW v, InWaiting(c, v) PROVE InWaiting(y, v) \/ InTurn(y, v)
    <3>1. PICK m \in 1..Len(W) : W[m] = v  BY <1>10, <2>2 DEF InWaiting
    <3>2. CASE m \in 1..Len(ids)
      <4>1. v = ids[m]  BY <1>11, <3>1, <3>2
      <4> QED  BY <1>6, <3>2, <4>1
    <3>3. CASE \E q \in 1..Len(V) : W[m] = V[q]  BY <1>10, <3>1, <3>3 DEF InWaiting
    <3> QED  BY <1>11, <3>2, <3>3
  <2> QED  BY <1>6, <2>1, <2>2 DEF Carried
<1>33. JobKnown(x.side, x.job, y)  BY <1>7, <1>8 DEF Good, Placed, JobKnown
<1>34. StopKnown(x.side, x.job, p, y, sp)  BY <1>8 DEF StopKnown, Strict
<1>35. Placed(x, p, sp)
  BY <1>3, <1>4, <1>8, <1>27, <1>28, <1>29, <1>30, <1>31, <1>32, <1>33, <1>34 DEF Placed
<1> QED  BY <1>3, <1>20, <1>23, <1>24, <1>35 DEF Good

LEMMA SeenThen ==
  ASSUME NEW c \in Cli, NEW y \in Cli, NEW s, NEW u \in Seq(Msg), y.out = c.out \o u, SeenKnown(c, s),
         c.pulled # <<>> \/ c.turn.stage # "none"
  PROVE  SeenKnown(y, s)
<1>1. PICK out \in Seq(Msg) : out = c.out  BY DEF Cli
<1> SUFFICES ASSUME ~ s.seen PROVE y.out # <<>> /\ y.out[1].t = "queued"  BY DEF SeenKnown
<1>2. out # <<>> /\ out[1].t = "queued"  BY <1>1 DEF SeenKnown
<1>3. PICK z \in Seq(Msg) : z = out \o u
  <2>1. out \o u \in Seq(Msg)  OBVIOUS
  <2> QED  BY <2>1
<1>4. Len(z) = Len(out) + Len(u) /\ Len(out) > 0  BY <1>2, <1>3
<1>5. 1 \in 1..(Len(out) + Len(u)) /\ 1 <= Len(out)  BY <1>4
<1>6. z[1] = out[1]  BY <1>3, <1>5, ConcatIs
<1>7. z # <<>>  BY <1>4
<1> QED  BY <1>1, <1>2, <1>3, <1>6, <1>7

LEMMA PulledFirst ==
  ASSUME NEW s \in Seq(Nat), NEW i \in Seq(Nat), s # <<>>
  PROVE  s \o i = <<Head(s)>> \o (Tail(s) \o i) /\ s \o i # <<>> /\ Head(s \o i) = Head(s)
<1>1. Head(s) \in Nat /\ Tail(s) \in Seq(Nat)  BY TailIs
<1>2. PICK t \in Seq(Nat) : t = Tail(s)  BY <1>1
<1>3. PICK h \in Nat : h = Head(s)  BY <1>1
<1>4. PICK q \in Seq(Nat) : q = <<h>>
  <2>1. <<h>> \in Seq(Nat)  OBVIOUS
  <2> QED  BY <2>1
<1>5. s = q \o t  BY <1>2, <1>3, <1>4
<1>6. (q \o t) \o i = q \o (t \o i)
  <2>1. Join(Join(q, t), i) = Join(q, Join(t, i))  BY JoinThrice
  <2> QED  BY <2>1 DEF Join
<1>7. s \o i # <<>>
  <2>1. Len(s \o i) = Len(s) + Len(i) /\ Len(s) > 0 /\ Len(i) \in Nat  OBVIOUS
  <2> QED  BY <2>1
<1>8. Head(s \o i) = Head(s)  OBVIOUS
<1> QED  BY <1>2, <1>3, <1>4, <1>5, <1>6, <1>7, <1>8

\* What waits when the first of it was pulled.
LEMMA WaitingFirst ==
  ASSUME NEW c \in Cli, c.pulled # <<>>, NEW y \in Cli, y.pulled = Tail(c.pulled), y.before = c.before,
         y.input = c.input
  PROVE  /\ Head(c.pulled) \in Nat /\ Waiting(c) = <<Head(c.pulled)>> \o Waiting(y)
         /\ Waiting(c) # <<>> /\ Head(Waiting(c)) = Head(c.pulled)
<1>1. PICK s \in Seq(Nat), i \in Seq(Nat) : s = c.pulled /\ i = c.input  BY WaitingIs
<1>2. PICK b \in Seq(Nat) : b = IF c.before = 0 THEN <<>> ELSE <<c.before>>
  <2>1. c.before \in Nat  BY WaitingIs
  <2>2. <<>> \in Seq(Nat) /\ <<c.before>> \in Seq(Nat)  BY <2>1
  <2>3. (IF c.before = 0 THEN <<>> ELSE <<c.before>>) \in Seq(Nat)  BY <2>2
  <2> QED  BY <2>3
<1>3. PICK r \in Seq(Nat) : r = b \o i
  <2>1. b \o i \in Seq(Nat)  OBVIOUS
  <2> QED  BY <2>1
<1>4. Waiting(c) = s \o r
  <2>1. Waiting(c) = (s \o b) \o i  BY <1>1, <1>2 DEF Waiting
  <2>2. (s \o b) \o i = s \o (b \o i)
    <3>1. Join(Join(s, b), i) = Join(s, Join(b, i))  BY JoinThrice
    <3> QED  BY <3>1 DEF Join
  <2> QED  BY <1>3, <2>1, <2>2
<1>5. PICK t \in Seq(Nat) : t = Tail(s)
  <2>1. Tail(s) \in Seq(Nat)  BY <1>1, TailIs
  <2> QED  BY <2>1
<1>6. Waiting(y) = t \o r
  <2>1. Waiting(y) = (t \o b) \o i
    <3>1. Waiting(y) = (y.pulled \o (IF y.before = 0 THEN <<>> ELSE <<y.before>>)) \o y.input  BY DEF Waiting
    <3> QED  BY <1>1, <1>2, <1>5, <3>1
  <2>2. (t \o b) \o i = t \o (b \o i)
    <3>1. Join(Join(t, b), i) = Join(t, Join(b, i))  BY JoinThrice
    <3> QED  BY <3>1 DEF Join
  <2> QED  BY <1>3, <2>1, <2>2
<1>7. Head(s) \in Nat  BY <1>1, TailIs
<1>8. s \o r = <<Head(s)>> \o (t \o r) /\ s \o r # <<>> /\ Head(s \o r) = Head(s)
  <2>1. s # <<>>  BY <1>1
  <2>2. s \o r = <<Head(s)>> \o (Tail(s) \o r) /\ s \o r # <<>> /\ Head(s \o r) = Head(s)
    BY <2>1, PulledFirst, SMTT(30)
  <2> QED  BY <1>5, <2>2
<1> QED  BY <1>1, <1>4, <1>6, <1>7, <1>8

\* A note is what stands over the inputs of the host.
LEMMA NoteIs ==
  ASSUME NEW x \in Id
  PROVE  IsNote(x) <=> x > MaxInputs
BY SessionBounds DEF IsNote, Id, Notes, Prompts

LEMMA RequestKeeps ==
  ASSUME SessionInv, ~ side.closed, NEW tool \in BOOLEAN, Request(tool)
  PROVE  SessionInv'
<1>1. /\ Good(World, kinds, pump, answers, started, spent) /\ Awake(side) /\ World \in Worlds
      /\ World.side = side /\ World.cli = cli /\ World.job = job
      /\ side \in Side /\ cli \in Cli /\ job \in Job
  BY InvHolds
<1>2. PICK w, k, p, a, st, sp : w = World /\ k = kinds /\ p = pump /\ a = answers /\ st = started /\ sp = spent
  OBVIOUS
<1>3. /\ kinds' = k /\ pump' = p /\ answers' = a /\ side' = side /\ spent' = sp /\ read' \in BOOLEAN
      /\ job' = job
  BY <1>1, <1>2 DEF Request, SessionInv
<1>4. Good(w, k, p, a, st, sp) /\ w.side = side /\ w.cli = cli /\ w.job = job  BY <1>1, <1>2
<1>5. PICK c \in Cli : c = cli  BY <1>1
<1>6. PICK n \in Nat : n = NextContext
  <2>1. NextContext \in Nat
    <3>1. MaxContext \in Nat /\ cli.context \in Nat  BY <1>1, SessionBounds DEF Cli
    <3> QED  BY <3>1 DEF NextContext
  <2> QED  BY <2>1
<1>7. PICK m : m = Reading(n)  OBVIOUS
<1>8. m \in Msg /\ m.t = "assistant" /\ m.labels = <<>>  BY <1>7, ReadingIs
<1>9. PICK stage \in {"tool", "finish"} : stage = IF tool THEN "tool" ELSE "finish"  OBVIOUS
<1>10. PICK y, then : y = cli' /\ then = started'  OBVIOUS
<1>11. PICK out \in Seq(Msg) : out = c.out  BY DEF Cli
<1>12. c.turn \in Turn /\ c.turn.labels \in Seq(Nat) /\ c.turn.uuids \in Seq(Nat) /\ c.stopped \in Seq(Nat)
       /\ c.pulled \in Seq(Nat)
  BY DEF Cli, Turn
<1>13. MarksSame(side, side)  BY DEF MarksSame
<1>14. SeenKnown(c, side)  BY <1>4, <1>5 DEF Good, Placed
<1>15. CASE c.turn.stage # "none"
  <2>1. c.turn.stage = "work"  BY <1>5, <1>15 DEF Request
  <2>2. PICK turn : turn = [stage |-> stage, labels |-> c.turn.labels, uuids |-> c.turn.uuids]  OBVIOUS
  <2>3. turn \in Turn /\ turn.stage = stage /\ turn.labels = c.turn.labels /\ turn.uuids = c.turn.uuids
    BY <1>12, <2>2 DEF Turn
  <2>4. PICK u \in Seq(Msg) : u = <<m>>
    <3>1. <<m>> \in Seq(Msg)  BY <1>8
    <3> QED  BY <3>1
  <2>5. PICK z \in Seq(Msg) : z = out \o u
    <3>1. out \o u \in Seq(Msg)  OBVIOUS
    <3> QED  BY <3>1
  <2>6. y = [c EXCEPT !.turn = turn, !.context = n, !.out = z] /\ then = st
    <3>1. /\ y = [c EXCEPT !.pulled = @, !.turn = turn, !.context = n, !.out = Emits(<<>> \o <<m>>)]
          /\ then = st
      BY <1>2, <1>5, <1>6, <1>7, <1>9, <1>10, <1>15, <2>2 DEF Request
    <3>2. <<>> \o <<m>> = u  BY <2>4
    <3> QED  BY <1>5, <1>11, <1>12, <2>5, <3>1, <3>2 DEF Emits, Cli
  <2>7. /\ y \in Cli /\ y.pulled = c.pulled /\ y.before = c.before /\ y.input = c.input /\ y.turn = turn
        /\ y.out = z /\ y.stopped = c.stopped
    BY <1>6, <2>3, <2>5, <2>6 DEF Cli
  <2>8. Waiting(y) = Waiting(c)  BY <2>7 DEF Waiting
  <2>9. PICK ids \in Seq(Nat) : ids = <<>>
    <3>1. <<>> \in Seq(Nat)  OBVIOUS
    <3> QED  BY <3>1
  <2>10. TurnMarked(c, side.sent, p)  BY <1>4, <1>5 DEF Good, Placed
  <2>11. Starts(c, y, ids, u)
    <3>1. PICK W \in Seq(Nat) : W = Waiting(c)  BY WaitingTyped
    <3>2. ids \o W = W  BY <2>9
    <3>3. c.turn.uuids \o ids = c.turn.uuids /\ c.turn.labels \o ids = c.turn.labels  BY <1>12, <2>9
    <3>4. StartMessages(u, ids)  BY <1>8, <2>4 DEF StartMessages
    <3>5. c.turn.uuids # <<>>  BY <1>15, <2>10 DEF TurnMarked
    <3>6. ~ FromNote(c, ids)  BY <2>9 DEF FromNote
    <3> QED  BY <1>11, <2>3, <2>5, <2>7, <2>8, <2>9, <3>1, <3>2, <3>3, <3>4, <3>5, <3>6 DEF Starts
  <2>12. PICK x : x = [side |-> side, cli |-> y, job |-> job]  OBVIOUS
  <2>13. x \in Worlds /\ x.side = side /\ x.cli = y /\ x.job = job  BY <1>1, <2>7, <2>12 DEF Worlds
  <2>14. w.job.by = "none" /\ ~ side.stopping
    <3>1. ~ Idle(w.cli)  BY <1>4, <1>5, <1>15 DEF Idle
    <3>2. w.job.by = "none"  BY <1>4, <3>1, BusyCli
    <3>3. ~ side.stopping  BY <1>4, <1>5, <2>1 DEF Good, Placed, StopKnown
    <3> QED  BY <3>2, <3>3
  <2>15. SeenKnown(y, side)  BY <1>11, <1>14, <1>15, <2>5, <2>7, SeenThen
  <2>16. Good(x, k, p, a, IF FromNote(w.cli, ids) THEN st ELSE st \o ids, sp)
    <3>1. /\ MarksSame(w.side, x.side) /\ x.side.inputs = w.side.inputs /\ x.job = w.job
          /\ Starts(w.cli, x.cli, ids, u) /\ (ids = <<>> => w.cli.turn.stage # "none")
          /\ w.job.by = "none" /\ ~ w.side.stopping /\ SeenKnown(x.cli, x.side)
      BY <1>4, <1>5, <1>13, <1>15, <2>11, <2>13, <2>14, <2>15
    <3> QED  BY <1>4, <2>13, <3>1, StartKeeps
  <2>17. (IF FromNote(w.cli, ids) THEN st ELSE st \o ids) = then
    <3>1. st \in Seq(Nat)  BY <1>4 DEF Good, InLine, Line, Begun
    <3>2. st \o ids = st  BY <2>9, <3>1
    <3> QED  BY <2>6, <3>2
  <2>18. Good(x, k, p, a, then, sp)  BY <2>16, <2>17
  <2>19. Becomes(x) /\ Awake(x.side)  BY <1>1, <1>3, <1>10, <2>13 DEF Becomes
  <2> QED  BY <1>3, <1>10, <2>18, <2>19, InvThen
<1>16. CASE c.turn.stage = "none"
  <2>1. c.pulled # <<>>  BY <1>5, <1>16 DEF Request
  <2>2. PICK h \in Nat : h = Head(c.pulled)  BY <1>12, <2>1
  <2>3. PICK t \in Seq(Nat) : t = Tail(c.pulled)
    <3>1. Tail(c.pulled) \in Seq(Nat)  BY <1>12, <2>1, TailIs
    <3> QED  BY <3>1
  <2>4. PICK ids \in Seq(Nat) : ids = <<h>>
    <3>1. <<h>> \in Seq(Nat)  OBVIOUS
    <3> QED  BY <3>1
  <2>5. PICK labels \in Seq(Nat) : labels = IF IsNote(h) THEN c.stopped ELSE ids
    <3>1. (IF IsNote(h) THEN c.stopped ELSE ids) \in Seq(Nat)  BY <1>12
    <3> QED  BY <3>1
  <2>6. PICK turn : turn = [stage |-> stage, labels |-> labels, uuids |-> ids]  OBVIOUS
  <2>7. turn \in Turn /\ turn.stage = stage /\ turn.labels = labels /\ turn.uuids = ids
    BY <2>6 DEF Turn
  <2>8. PICK v : v = Lifecycle("started", h)  OBVIOUS
  <2>9. v \in Msg /\ v.t = "started" /\ v.labels = <<>> /\ v.id = h
    <3>1. PICK tt \in MsgKinds : tt = "started"  BY DEF MsgKinds
    <3> QED  BY <2>8, <3>1, LifecycleIs
  <2>10. PICK u \in Seq(Msg) : u = <<v>> \o <<m>>
    <3>1. <<v>> \o <<m>> \in Seq(Msg)  BY <1>8, <2>9
    <3> QED  BY <3>1
  <2>11. PICK z \in Seq(Msg) : z = out \o u
    <3>1. out \o u \in Seq(Msg)  OBVIOUS
    <3> QED  BY <3>1
  <2>12. /\ y = [c EXCEPT !.pulled = t, !.turn = turn, !.context = n, !.out = z]
         /\ then = IF ~ IsNote(h) THEN Append(st, h) ELSE st
    <3>1. /\ y = [c EXCEPT !.pulled = t, !.turn = turn, !.context = n, !.out = Emits(<<v>> \o <<m>>)]
          /\ then = IF ~ IsNote(h) THEN Append(st, h) ELSE st
      BY <1>2, <1>5, <1>6, <1>7, <1>9, <1>10, <1>16, <2>2, <2>3, <2>4, <2>5, <2>6, <2>8 DEF Request
    <3> QED  BY <1>5, <1>11, <2>10, <2>11, <3>1 DEF Emits
  <2>13. /\ y \in Cli /\ y.pulled = t /\ y.before = c.before /\ y.input = c.input /\ y.turn = turn
         /\ y.out = z /\ y.stopped = c.stopped
    BY <1>6, <2>3, <2>7, <2>11, <2>12 DEF Cli
  <2>14. /\ Waiting(c) = ids \o Waiting(y) /\ Waiting(c) # <<>> /\ Head(Waiting(c)) = h
    BY <2>1, <2>2, <2>3, <2>4, <2>13, WaitingFirst
  <2>15. TurnMarked(c, side.sent, p)  BY <1>4, <1>5 DEF Good, Placed
  <2>16. h \in Id
    <3>1. PICK W \in Seq(Nat) : W = Waiting(c)  BY WaitingTyped
    <3>2. 1 \in 1..Len(W) /\ W[1] = h
      <4>1. W # <<>> /\ Head(W) = h  BY <2>14, <3>1
      <4> QED  BY <4>1, TailIs
    <3>3. \A i \in 1..Len(Waiting(w.cli)) : Waiting(w.cli)[i] \in Id  BY <1>4, GoodIds
    <3>4. W[1] \in Id  BY <1>4, <1>5, <3>1, <3>2, <3>3
    <3> QED  BY <3>2, <3>4
  <2>17. FromNote(c, ids) <=> IsNote(h)
    <3>1. ids # <<>>  BY <2>4
    <3>2. NoteWaits(c) <=> h > MaxInputs  BY <2>14 DEF NoteWaits
    <3> QED  BY <2>16, <3>1, <3>2, NoteIs DEF FromNote
  <2>18. Starts(c, y, ids, u)
    <3>1. c.turn.uuids = <<>> /\ c.turn.labels = <<>>  BY <1>16, <2>15 DEF TurnMarked, NoTurn
    <3>2. c.turn.uuids \o ids = ids /\ c.turn.labels \o ids = ids  BY <3>1
    <3>3. Len(ids) = 1 /\ ids # <<>> /\ ids[1] = h  BY <2>4
    <3>4. StartMessages(u, ids)
      <4>1. Len(u) = 2 /\ u[1] = v /\ u[2] = m  BY <2>10
      <4>2. 1 \in 1..Len(ids)  BY <3>3
      <4>3. ASSUME NEW i \in 1..Len(u)
            PROVE  /\ u[i].labels = <<>>
                   /\ \/ u[i].t = "assistant"
                      \/ u[i].t = "started" /\ \E j \in 1..Len(ids) : u[i].id = ids[j]
        <5>1. CASE i = 1  BY <2>9, <3>3, <4>1, <4>2, <5>1
        <5>2. CASE i = 2  BY <1>8, <4>1, <5>2
        <5> QED  BY <4>1, <5>1, <5>2
      <4> QED  BY <4>3 DEF StartMessages
    <3>5. IF FromNote(c, ids) THEN y.turn.labels = c.stopped /\ Len(ids) = 1
          ELSE y.turn.labels = c.turn.labels \o ids
      BY <2>5, <2>7, <2>13, <2>17, <3>2, <3>3
    <3> QED  BY <1>11, <2>7, <2>11, <2>13, <2>14, <3>2, <3>3, <3>4, <3>5 DEF Starts
  <2>19. PICK x : x = [side |-> side, cli |-> y, job |-> job]  OBVIOUS
  <2>20. x \in Worlds /\ x.side = side /\ x.cli = y /\ x.job = job  BY <1>1, <2>13, <2>19 DEF Worlds
  <2>21. w.job.by = "none" /\ ~ side.stopping  BY <1>4, <1>5, <2>14, WaitingBusy
  <2>22. SeenKnown(y, side)  BY <1>11, <1>14, <2>1, <2>11, <2>13, SeenThen
  <2>23. Good(x, k, p, a, IF FromNote(w.cli, ids) THEN st ELSE st \o ids, sp)
    <3>1. /\ MarksSame(w.side, x.side) /\ x.side.inputs = w.side.inputs /\ x.job = w.job
          /\ Starts(w.cli, x.cli, ids, u) /\ (ids = <<>> => w.cli.turn.stage # "none")
          /\ w.job.by = "none" /\ ~ w.side.stopping /\ SeenKnown(x.cli, x.side)
      BY <1>4, <1>5, <1>13, <2>4, <2>18, <2>20, <2>21, <2>22
    <3> QED  BY <1>4, <2>20, <3>1, StartKeeps
  <2>24. (IF FromNote(w.cli, ids) THEN st ELSE st \o ids) = then
    <3>1. st \in Seq(Nat)  BY <1>4 DEF Good, InLine, Line, Begun
    <3>2. st \o ids = Append(st, h)  BY <2>4, <3>1
    <3> QED  BY <1>4, <1>5, <2>12, <2>17, <3>2
  <2>25. Good(x, k, p, a, then, sp)  BY <2>23, <2>24
  <2>26. Becomes(x) /\ Awake(x.side)  BY <1>1, <1>3, <1>10, <2>20 DEF Becomes
  <2> QED  BY <1>3, <1>10, <2>25, <2>26, InvThen
<1> QED  BY <1>15, <1>16

LEMMA LifecyclesAre ==
  ASSUME NEW t \in MsgKinds, NEW ids \in Seq(Nat), NEW u, u = Lifecycles(t, ids)
  PROVE  /\ u \in Seq(Msg) /\ Len(u) = Len(ids) /\ Len(ids) \in Nat
         /\ \A i \in 1..Len(ids) : u[i].t = t /\ u[i].id = ids[i] /\ u[i].labels = <<>>
<1>1. DOMAIN ids = 1..Len(ids) /\ Len(ids) \in Nat  OBVIOUS
<1>2. u = [i \in 1..Len(ids) |-> Lifecycle(t, ids[i])]  BY <1>1 DEF Lifecycles
<1>3. ASSUME NEW i \in 1..Len(ids)
      PROVE  u[i] \in Msg /\ u[i].t = t /\ u[i].id = ids[i] /\ u[i].labels = <<>>
  <2>1. PICK x \in Nat : x = ids[i]  OBVIOUS
  <2>2. u[i] = Lifecycle(t, x)  BY <1>2, <2>1
  <2> QED  BY <2>1, <2>2, LifecycleIs
<1>4. u \in Seq(Msg) /\ Len(u) = Len(ids)
  <2>1. u \in [1..Len(ids) -> Msg]  BY <1>2, <1>3
  <2> QED  BY <1>1, <2>1
<1> QED  BY <1>1, <1>3, <1>4

\* What a turn in progress says of the pump and the marks.
LEMMA TurnOfPrompt ==
  ASSUME NEW w, NEW k, NEW p, NEW a, NEW st, NEW sp, Good(w, k, p, a, st, sp), w.cli.turn.stage # "none"
  PROVE  /\ w.job = NoJob /\ w.job.by = "none" /\ ~ NoteWaits(w.cli) /\ w.cli.turn.uuids # <<>>
         /\ w.cli.turn.uuids[1] \in Id
         /\ Marked(w.cli.out, w.side.sent, p, w.cli.turn.uuids[1], Len(w.cli.out) + 1)
         /\ w.side.stopping => w.cli.turn.stage = "stopped"
<1>1. ~ Idle(w.cli)  BY DEF Idle
<1>2. w.job = NoJob /\ w.job.by = "none"  BY <1>1, BusyCli
<1>3. /\ ~ NoteWaits(w.cli) /\ w.cli.turn.uuids # <<>>
      /\ Marked(w.cli.out, w.side.sent, p, w.cli.turn.uuids[1], Len(w.cli.out) + 1)
  BY DEF Good, Placed, TurnMarked
<1>4. PICK s \in Seq(Nat) : s = w.cli.turn.uuids
  <2>1. w \in Worlds  BY GoodIds
  <2>2. w.cli.turn.uuids \in Seq(Nat)  BY <2>1, TypesOf
  <2> QED  BY <2>2
<1>5. 1 \in 1..Len(s)  BY <1>3, <1>4
<1>6. PICK x \in Nat : x = s[1]  BY <1>5
<1>7. Passed(w.cli, x)  BY <1>4, <1>5, <1>6 DEF Passed, InTurn
<1>8. x \in Id  BY <1>7, GoodIds
<1>9. w.side.stopping => w.cli.turn.stage = "stopped"  BY DEF Good, Placed, StopKnown
<1> QED  BY <1>2, <1>3, <1>4, <1>6, <1>8, <1>9

StopsTurn(w, x, turn) ==
  /\ x.side = [w.side EXCEPT !.stopping = TRUE, !.due = FALSE] /\ x.job = w.job
  /\ turn = [w.cli.turn EXCEPT !.stage = "stopped"] /\ x.cli = [w.cli EXCEPT !.turn = turn]

\* The hook stops the turn: nothing else is on its way.
LEMMA StopKeeps ==
  ASSUME NEW w, NEW k, NEW p, NEW a, NEW st, NEW sp, Good(w, k, p, a, st, sp), NEW x \in Worlds,
         w.cli.turn.stage = "tool", NoneHeld(w.side.sent),
         NEW turn, StopsTurn(w, x, turn),
         NEW then \in Spent, then.stops = sp.stops + 1
  PROVE  Good(x, k, p, a, st, then)
<1>0. /\ x.side = [w.side EXCEPT !.stopping = TRUE, !.due = FALSE] /\ x.job = w.job
      /\ turn = [w.cli.turn EXCEPT !.stage = "stopped"] /\ x.cli = [w.cli EXCEPT !.turn = turn]
  BY DEF StopsTurn
<1> USE <1>0
<1>1. /\ w \in Worlds /\ w.cli \in Cli /\ w.side \in Side /\ w.job \in Job /\ sp \in Spent /\ Len(k) \in Nat
      /\ Len(k) <= MaxInputs /\ MaxInputs \in Nat /\ MaxInputs + sp.stops \in Nat
      /\ \A i \in 1..Len(Waiting(w.cli)) : Waiting(w.cli)[i] \in Id
  BY GoodIds
<1>2. x.cli \in Cli /\ x.side \in Side /\ x.job \in Job  BY TypesOf
<1>3. PICK c \in Cli, y \in Cli : c = w.cli /\ y = x.cli  BY <1>1, <1>2
<1>4. PICK out \in Seq(Msg) : out = c.out  BY DEF Cli
<1>5. c.turn \in Turn  BY DEF Cli
<1>6. /\ y.turn.stage = "stopped" /\ y.turn.labels = c.turn.labels /\ y.turn.uuids = c.turn.uuids
      /\ y.out = out /\ y.stopped = c.stopped /\ y.pulled = c.pulled /\ y.before = c.before /\ y.input = c.input
  <2>1. turn.stage = "stopped" /\ turn.labels = c.turn.labels /\ turn.uuids = c.turn.uuids
    BY <1>3, <1>5 DEF Turn
  <2>2. y = [c EXCEPT !.turn = turn]  BY <1>3
  <2> QED  BY <1>4, <2>1, <2>2 DEF Cli
<1>7. Waiting(y) = Waiting(c) /\ (NoteWaits(y) <=> NoteWaits(c))  BY <1>6 DEF Waiting, NoteWaits
<1>8. PICK sent : sent = w.side.sent  OBVIOUS
<1>9. /\ x.side.sent = sent /\ x.side.seen = w.side.seen /\ x.side.compacting = w.side.compacting
      /\ x.side.stopping = TRUE /\ x.side.advancing = w.side.advancing /\ x.side.inputs = w.side.inputs
  <2>1. PICK s \in Side : s = w.side  BY <1>1
  <2>2. x.side = [s EXCEPT !.stopping = TRUE, !.due = FALSE]  BY <2>1
  <2> QED  BY <1>8, <2>1, <2>2 DEF Side
<1>10. /\ w.job.by = "none" /\ ~ NoteWaits(c) /\ c.turn.uuids # <<>> /\ c.turn.uuids[1] \in Id
       /\ Marked(out, sent, p, c.turn.uuids[1], Len(out) + 1)
  BY <1>3, <1>4, <1>8, TurnOfPrompt
<1>11. Len(out) \in Nat /\ (Len(out) + 1) - 1 = Len(out)  OBVIOUS
<1>12. p.t = "none" /\ NoAnswer(out)
  <2>1. sent[c.turn.uuids[1]] = "started"
    <3>1. sent \in [Id -> Marks]  BY <1>1, <1>8 DEF Side
    <3>2. PICK v \in Id : v = c.turn.uuids[1]  BY <1>10
    <3>3. sent[v] # "no" /\ sent[v] # "sent" /\ sent[v] \in Marks
      BY <1>8, <1>10, <3>1, <3>2 DEF Marked, NoneHeld
    <3> QED  BY <3>2, <3>3 DEF Marks
  <2> QED  BY <1>10, <1>11, <2>1 DEF Marked, NoAnswer
<1>13. Waiting(c) = <<>>
  <2>1. PICK W \in Seq(Nat) : W = Waiting(c)  BY WaitingTyped
  <2> SUFFICES ASSUME W # <<>> PROVE FALSE  BY <2>1
  <2>2. 1 \in 1..Len(W)  OBVIOUS
  <2>3. W[1] \in Id  BY <1>1, <1>3, <2>1, <2>2
  <2>4. sent[W[1]] = "sent"  BY <1>3, <1>8, <2>1, <2>2 DEF Good, Placed, WaitingMarked
  <2> QED  BY <1>8, <2>3, <2>4 DEF NoneHeld
<1>14. \A v : (InTurn(y, v) <=> InTurn(c, v)) /\ (InWaiting(y, v) <=> InWaiting(c, v))
  BY <1>6, <1>7 DEF InTurn, InWaiting
<1>15. \A v, t : InOut(y, t, v) <=> InOut(c, t, v)  BY <1>4, <1>6 DEF InOut
<1>16. \A v : Passed(y, v) <=> Passed(c, v)  BY <1>14, <1>15 DEF Passed
<1>17. Shaped(x, k, p, then)  BY <1>3, <1>4, <1>6 DEF Good, Shaped, MessagesKnown
<1>18. InLine(x, k, p, a, st, then)
  <2>1. PICK F, H, s1, s2 : /\ F = First(p, w.job) /\ H = Held(w.side, w.job) /\ s1 = Strict(w.side, w.job)
                            /\ s2 = Strict(x.side, x.job)
    OBVIOUS
  <2>2. PICK top \in Nat, n \in Nat : top = MaxInputs + sp.stops /\ n = Len(k)  BY <1>1
  <2>3. F = First(p, x.job) /\ H = Held(x.side, x.job) /\ s1 \in BOOLEAN
    BY <1>1, <1>9, <2>1 DEF Held, Strict, Side
  <2>4. Line(c, F, H, n, a, st, top, s1)  BY <1>3, <2>1, <2>2 DEF Good, InLine
  <2>5. PICK b \in Nat, l \in Nat, d \in Nat, e \in Nat :
        /\ IsRun(a, 0, Len(a)) /\ IsRun(F, Len(a), b) /\ Chain(out, b, l) /\ Middle(c, l, d, e)
        /\ IsRun(H, e, n) /\ Begun(st, d) /\ Behind(c, d, top, s1)
    BY <1>4, <2>4 DEF Line
  <2>6. Middle(y, l, d, e)  BY <1>6, <1>7, <2>5 DEF Middle
  <2>7. PICK more \in Nat : more = top + 1  OBVIOUS
  <2>8. Behind(y, d, more, s2)
    <3>1. ASSUME NEW v \in Nat, Passed(y, v)
          PROVE  ((1 <= v /\ v <= d) \/ (v > MaxInputs /\ v <= more)) /\ (v > d => v < more)
      <4>1. (1 <= v /\ v <= d) \/ (v > MaxInputs /\ v <= top)  BY <1>16, <2>5, <3>1 DEF Behind
      <4> QED  BY <2>7, <4>1
    <3> QED  BY <1>7, <1>10, <3>1 DEF Behind
  <2>9. Line(y, F, H, n, a, st, more, s2)  BY <1>4, <1>6, <2>5, <2>6, <2>8 DEF Line
  <2>10. more = MaxInputs + then.stops
    <3>1. sp.stops \in Nat  BY <1>1, SessionBounds DEF Spent
    <3> QED  BY <1>1, <2>2, <2>7, <3>1
  <2> QED  BY <1>3, <2>1, <2>2, <2>3, <2>9, <2>10 DEF InLine
<1>19. Unlike(y)
  <2>1. Unlike(c)  BY <1>3 DEF Good, Placed
  <2> QED  BY <1>4, <1>6, <1>14, <2>1 DEF Unlike
<1>20. TurnMarked(y, sent, p)  BY <1>6, <1>7, <1>10 DEF TurnMarked
<1>21. AnswersMarked(out, sent, p)  BY <1>3, <1>4, <1>8 DEF Good, Placed
<1>22. WaitingMarked(y, sent)  BY <1>3, <1>7, <1>8 DEF Good, Placed, WaitingMarked
<1>23. PumpMarked(out, x.side, p, x.job)  BY <1>12 DEF PumpMarked
<1>24. Carried(y, sent, x.job)  BY <1>3, <1>8, <1>14, <1>15 DEF Good, Placed, Carried
<1>25. SeenKnown(y, x.side)
  <2>1. SeenKnown(c, w.side)  BY <1>3 DEF Good, Placed
  <2> QED  BY <1>3, <1>4, <1>6, <1>9, <2>1 DEF SeenKnown
<1>26. JobKnown(x.side, x.job, y)  BY <1>8, <1>9, <1>10 DEF Good, Placed, JobKnown
<1>27. StopKnown(x.side, x.job, p, y, then)
  <2>1. then.stops > 0
    <3>1. sp.stops \in Nat  BY <1>1, SessionBounds DEF Spent
    <3> QED  BY <3>1
  <2> QED  BY <1>6, <1>7, <1>8, <1>9, <1>12, <1>13, <2>1 DEF StopKnown
<1> QED  BY <1>3, <1>6, <1>9, <1>17, <1>18, <1>19, <1>20, <1>21, <1>22, <1>23, <1>24, <1>25, <1>26, <1>27
         DEF Good, Placed

LEMMA WaitingFolded ==
  ASSUME NEW c \in Cli, NEW y \in Cli, NEW ids, y.before = c.before, y.input = c.input,
         \/ ids = c.pulled /\ y.pulled = <<>>
         \/ ids = <<>> /\ y.pulled = c.pulled
  PROVE  Waiting(c) = ids \o Waiting(y) /\ ids \in Seq(Nat)
<1>1. PICK s \in Seq(Nat), i \in Seq(Nat) : s = c.pulled /\ i = c.input  BY WaitingIs
<1>2. PICK b \in Seq(Nat) : b = IF c.before = 0 THEN <<>> ELSE <<c.before>>
  <2>1. c.before \in Nat  BY WaitingIs
  <2>2. <<>> \in Seq(Nat) /\ <<c.before>> \in Seq(Nat)  BY <2>1
  <2>3. (IF c.before = 0 THEN <<>> ELSE <<c.before>>) \in Seq(Nat)  BY <2>2
  <2> QED  BY <2>3
<1>3. Waiting(c) = (s \o b) \o i  BY <1>1, <1>2 DEF Waiting
<1>4. PICK r \in Seq(Nat) : r = y.pulled  BY WaitingIs
<1>5. Waiting(y) = (r \o b) \o i
  <2>1. Waiting(y) = (y.pulled \o (IF y.before = 0 THEN <<>> ELSE <<y.before>>)) \o y.input  BY DEF Waiting
  <2> QED  BY <1>1, <1>2, <1>4, <2>1
<1>6. CASE ids = c.pulled /\ y.pulled = <<>>
  <2>1. r \o b = b  BY <1>4, <1>6
  <2>2. (s \o b) \o i = s \o (b \o i)
    <3>1. Join(Join(s, b), i) = Join(s, Join(b, i))  BY JoinThrice
    <3> QED  BY <3>1 DEF Join
  <2> QED  BY <1>1, <1>3, <1>5, <1>6, <2>1, <2>2
<1>7. CASE ids = <<>> /\ y.pulled = c.pulled
  <2>1. PICK W \in Seq(Nat) : W = Waiting(y)  BY WaitingTyped
  <2>2. <<>> \o W = W /\ <<>> \in Seq(Nat)  OBVIOUS
  <2> QED  BY <1>1, <1>3, <1>4, <1>5, <1>7, <2>1, <2>2
<1> QED  BY <1>6, <1>7

FoldsTurn(w, x, ids, turn, pulled, u) ==
  /\ \/ ids = w.cli.pulled /\ pulled = <<>>
     \/ ids = <<>> /\ pulled = w.cli.pulled
  /\ turn = [w.cli.turn EXCEPT !.stage = "work", !.labels = @ \o ids, !.uuids = @ \o ids]
  /\ u = Lifecycles("started", ids)
  /\ x.cli = [w.cli EXCEPT !.pulled = pulled, !.turn = turn, !.out = w.cli.out \o u]

LEMMA FoldKeeps ==
  ASSUME NEW w, NEW k, NEW p, NEW a, NEW st, NEW sp, Good(w, k, p, a, st, sp), NEW x \in Worlds,
         w.cli.turn.stage = "tool", MarksSame(w.side, x.side), x.side.inputs = w.side.inputs, x.job = w.job,
         NEW ids, NEW turn, NEW u, NEW pulled, FoldsTurn(w, x, ids, turn, pulled, u)
  PROVE  Good(x, k, p, a, st \o ids, sp)
<1>0. /\ \/ ids = w.cli.pulled /\ pulled = <<>>
         \/ ids = <<>> /\ pulled = w.cli.pulled
      /\ turn = [w.cli.turn EXCEPT !.stage = "work", !.labels = @ \o ids, !.uuids = @ \o ids]
      /\ u = Lifecycles("started", ids)
      /\ x.cli = [w.cli EXCEPT !.pulled = pulled, !.turn = turn, !.out = w.cli.out \o u]
  BY DEF FoldsTurn
<1> USE <1>0
<1>1. w \in Worlds /\ w.cli \in Cli  BY GoodIds
<1>2. x.cli \in Cli  BY TypesOf
<1>3. PICK c \in Cli, y \in Cli : c = w.cli /\ y = x.cli  BY <1>1, <1>2
<1>4. c.turn \in Turn /\ c.turn.labels \in Seq(Nat) /\ c.turn.uuids \in Seq(Nat) /\ c.pulled \in Seq(Nat)
      /\ c.out \in Seq(Msg)
  BY DEF Cli, Turn
<1>5. ids \in Seq(Nat)
  <2>1. <<>> \in Seq(Nat)  OBVIOUS
  <2> QED  BY <1>3, <1>4, <2>1
<1>6. PICK labels \in Seq(Nat), uuids \in Seq(Nat) : labels = c.turn.labels \o ids /\ uuids = c.turn.uuids \o ids
  <2>1. c.turn.labels \o ids \in Seq(Nat) /\ c.turn.uuids \o ids \in Seq(Nat)  BY <1>4, <1>5
  <2> QED  BY <2>1
<1>7. turn.stage = "work" /\ turn.labels = labels /\ turn.uuids = uuids
  <2>1. turn = [c.turn EXCEPT !.stage = "work", !.labels = labels, !.uuids = uuids]  BY <1>3, <1>4, <1>6 DEF Turn
  <2> QED  BY <1>4, <2>1 DEF Turn
<1>8. u \in Seq(Msg) /\ Len(u) = Len(ids)
      /\ \A i \in 1..Len(ids) : u[i].t = "started" /\ u[i].id = ids[i] /\ u[i].labels = <<>>
  <2>1. PICK t \in MsgKinds : t = "started"  BY DEF MsgKinds
  <2> QED  BY <1>5, <2>1, LifecyclesAre
<1>9. /\ y.pulled = pulled /\ y.turn = turn /\ y.out = c.out \o u /\ y.before = c.before /\ y.input = c.input
      /\ y.stopped = c.stopped
  <2>1. PICK z : z = c.out \o u  OBVIOUS
  <2>2. y = [c EXCEPT !.pulled = pulled, !.turn = turn, !.out = z]  BY <1>3, <2>1
  <2> QED  BY <2>1, <2>2 DEF Cli
<1>10. Waiting(c) = ids \o Waiting(y)
  <2>1. \/ ids = c.pulled /\ y.pulled = <<>>
        \/ ids = <<>> /\ y.pulled = c.pulled
    BY <1>3, <1>9
  <2> HIDE <1>0
  <2> QED  BY <1>9, <2>1, WaitingFolded
<1>11. ~ NoteWaits(c) /\ c.turn.uuids # <<>> /\ w.job.by = "none" /\ ~ w.side.stopping
  BY <1>3, TurnOfPrompt
<1>12. ~ FromNote(c, ids)  BY <1>11 DEF FromNote
<1>13. uuids # <<>>
  <2>1. Len(uuids) = Len(c.turn.uuids) + Len(ids) /\ Len(ids) \in Nat /\ Len(c.turn.uuids) > 0
    BY <1>4, <1>5, <1>6, <1>11
  <2> QED  BY <2>1
<1>14. StartMessages(u, ids)  BY <1>8 DEF StartMessages
<1>15. Starts(c, y, ids, u)
  BY <1>5, <1>6, <1>7, <1>9, <1>10, <1>12, <1>13, <1>14 DEF Starts
<1>16. SeenKnown(y, x.side)
  <2>1. SeenKnown(c, x.side)  BY <1>3 DEF Good, Placed, SeenKnown, MarksSame
  <2>2. c.turn.stage # "none"  BY <1>3
  <2> QED  BY <1>8, <1>9, <2>1, <2>2, SeenThen
<1>17. Good(x, k, p, a, IF FromNote(w.cli, ids) THEN st ELSE st \o ids, sp)
  <2>1. Starts(w.cli, x.cli, ids, u) /\ (ids = <<>> => w.cli.turn.stage # "none") /\ SeenKnown(x.cli, x.side)
    BY <1>3, <1>15, <1>16
  <2> QED  BY <1>11, <2>1, StartKeeps
<1> QED  BY <1>3, <1>12, <1>17

LEMMA PostToolUseKeeps ==
  ASSUME SessionInv, ~ side.closed, NEW safe \in BOOLEAN, NEW folds \in BOOLEAN, PostToolUse(safe, folds)
  PROVE  SessionInv'
<1>1. /\ Good(World, kinds, pump, answers, started, spent) /\ Awake(side) /\ World \in Worlds
      /\ World.side = side /\ World.cli = cli /\ World.job = job
      /\ side \in Side /\ cli \in Cli /\ job \in Job /\ spent \in Spent
  BY InvHolds
<1>2. PICK w, k, p, a, st, sp : w = World /\ k = kinds /\ p = pump /\ a = answers /\ st = started /\ sp = spent
  OBVIOUS
<1>3. /\ kinds' = k /\ pump' = p /\ answers' = a /\ read' \in BOOLEAN /\ job' = job
      /\ cli.turn.stage = "tool" /\ side.seen
  BY <1>1, <1>2 DEF PostToolUse, SessionInv
<1>4. Good(w, k, p, a, st, sp) /\ w.side = side /\ w.cli = cli /\ w.job = job  BY <1>1, <1>2
<1>5. PICK c \in Cli, s \in Side : c = cli /\ s = side  BY <1>1
<1>6. PICK y, t, then, more : y = cli' /\ t = side' /\ then = started' /\ more = spent'  OBVIOUS
<1>7. PICK x : x = [side |-> t, cli |-> y, job |-> job]  OBVIOUS
<1>8. x.side = t /\ x.cli = y /\ x.job = job  BY <1>7
<1>9. Becomes(x)  BY <1>3, <1>6, <1>8 DEF Becomes
<1>10. c.turn \in Turn /\ c.turn.labels \in Seq(Nat) /\ c.turn.uuids \in Seq(Nat) /\ c.pulled \in Seq(Nat)
       /\ c.out \in Seq(Msg)
  BY DEF Cli, Turn
<1>11. CASE MidTurnDue /\ ~ CliHoldsUnstarted(side) /\ safe /\ spent.stops < MaxStops
  <2>1. /\ t = [s EXCEPT !.stopping = TRUE, !.due = FALSE] /\ y = [c EXCEPT !.turn.stage = "stopped"]
        /\ more = [sp EXCEPT !.stops = @ + 1] /\ then = st
    BY <1>2, <1>5, <1>6, <1>11 DEF PostToolUse
  <2>2. PICK turn : turn = [c.turn EXCEPT !.stage = "stopped"]  OBVIOUS
  <2>3. turn \in Turn  BY <1>10, <2>2 DEF Turn
  <2>4. y = [c EXCEPT !.turn = turn]  BY <2>1, <2>2
  <2>5. y \in Cli /\ t \in Side  BY <2>1, <2>3, <2>4 DEF Cli, Side
  <2>6. x \in Worlds  BY <1>1, <1>7, <2>5 DEF Worlds
  <2>7. more \in Spent /\ more.stops = sp.stops + 1
    <3>1. sp.stops \in 0..MaxStops /\ sp.stops < MaxStops /\ MaxStops \in Nat
      BY <1>1, <1>2, <1>11, SessionBounds DEF Spent
    <3>2. sp.stops + 1 \in 0..MaxStops  BY <3>1
    <3> QED  BY <1>1, <1>2, <2>1, <3>2 DEF Spent
  <2>8. NoneHeld(side.sent)
    <3>1. DOMAIN side.sent = Id  BY <1>1 DEF Side
    <3> QED  BY <1>3, <1>11, <3>1 DEF CliHoldsUnstarted, NoneHeld
  <2>9. Good(x, k, p, a, st, more)
    <3>1. w.cli.turn.stage = "tool" /\ NoneHeld(w.side.sent) /\ StopsTurn(w, x, turn)
      BY <1>3, <1>4, <1>5, <1>8, <2>1, <2>2, <2>4, <2>8 DEF StopsTurn
    <3> QED  BY <1>4, <2>6, <2>7, <3>1, StopKeeps
  <2>10. Awake(x.side)
    <3>1. t.stopping /\ t.closed = side.closed /\ t.inputs = side.inputs /\ t.sent = side.sent
          /\ t.inputEnded = side.inputEnded /\ t.compacting = side.compacting
      BY <1>5, <2>1 DEF Side
    <3> QED  BY <1>1, <1>8, <3>1 DEF Awake
  <2> QED  BY <1>3, <1>6, <1>9, <2>1, <2>9, <2>10, InvThen
<1>12. CASE ~ (MidTurnDue /\ ~ CliHoldsUnstarted(side) /\ safe /\ spent.stops < MaxStops)
  <2>1. PICK ids, pulled : /\ ids = IF folds THEN c.pulled ELSE <<>>
                           /\ pulled = IF folds THEN <<>> ELSE c.pulled
    OBVIOUS
  <2>2. PICK u : u = Lifecycles("started", ids)  OBVIOUS
  <2>3. PICK turn : turn = [c.turn EXCEPT !.stage = "work", !.labels = @ \o ids, !.uuids = @ \o ids]  OBVIOUS
  <2>4. PICK due \in BOOLEAN : due = (side.due \/ (MidTurnDue /\ CliHoldsUnstarted(side)))
    <3>1. (side.due \/ (MidTurnDue /\ CliHoldsUnstarted(side))) \in BOOLEAN  OBVIOUS
    <3> QED  BY <3>1
  <2>5. /\ t = [s EXCEPT !.due = due] /\ y = [c EXCEPT !.pulled = pulled, !.turn = turn, !.out = c.out \o u]
        /\ more = sp /\ then = st \o ids
    <3>1. Folds(folds) /\ t = [s EXCEPT !.due = due] /\ more = sp
      BY <1>2, <1>5, <1>6, <1>12, <2>4 DEF PostToolUse
    <3>2. ids = (IF folds THEN cli.pulled ELSE <<>>) /\ pulled = (IF folds THEN <<>> ELSE cli.pulled)
      BY <1>5, <2>1
    <3>3. u = Lifecycles("started", ids) /\ turn = [cli.turn EXCEPT !.stage = "work", !.labels = @ \o ids, !.uuids = @ \o ids]
      BY <1>5, <2>2, <2>3
    <3>4. /\ cli' = [cli EXCEPT !.pulled = pulled, !.turn = turn, !.out = cli.out \o u]
          /\ started' = started \o ids
      BY <3>1, <3>2, <3>3 DEF Folds, Emits
    <3> QED  BY <1>2, <1>5, <1>6, <3>1, <3>4
  <2>6. t \in Side /\ MarksSame(side, t) /\ t.inputs = side.inputs /\ t.closed = side.closed
        /\ t.inputEnded = side.inputEnded
    BY <1>5, <2>5 DEF Side, MarksSame
  <2>7. ids \in Seq(Nat) /\ pulled \in Seq(Nat)
    <3>1. <<>> \in Seq(Nat)  OBVIOUS
    <3> QED  BY <1>10, <2>1, <3>1
  <2>8. turn \in Turn
    <3>1. PICK l \in Seq(Nat), i \in Seq(Nat) : l = c.turn.labels \o ids /\ i = c.turn.uuids \o ids
      <4>1. c.turn.labels \o ids \in Seq(Nat) /\ c.turn.uuids \o ids \in Seq(Nat)  BY <1>10, <2>7
      <4> QED  BY <4>1
    <3>2. turn = [c.turn EXCEPT !.stage = "work", !.labels = l, !.uuids = i]  BY <1>10, <2>3, <3>1 DEF Turn
    <3> QED  BY <1>10, <3>2 DEF Turn
  <2>9. PICK z \in Seq(Msg) : z = c.out \o u
    <3>1. PICK tt \in MsgKinds : tt = "started"  BY DEF MsgKinds
    <3>2. u \in Seq(Msg)  BY <2>2, <2>7, <3>1, LifecyclesAre
    <3>3. c.out \o u \in Seq(Msg)  BY <1>10, <3>2
    <3> QED  BY <3>3
  <2>10. y \in Cli  BY <2>5, <2>7, <2>8, <2>9 DEF Cli
  <2>11. x \in Worlds  BY <1>1, <1>7, <2>6, <2>10 DEF Worlds
  <2>12. Good(x, k, p, a, st \o ids, sp)
    <3>1. /\ w.cli.turn.stage = "tool" /\ MarksSame(w.side, x.side) /\ x.side.inputs = w.side.inputs
          /\ x.job = w.job
      BY <1>3, <1>4, <1>5, <1>8, <2>6
    <3>2. \/ ids = w.cli.pulled /\ pulled = <<>>
          \/ ids = <<>> /\ pulled = w.cli.pulled
      BY <1>4, <1>5, <2>1
    <3>3. FoldsTurn(w, x, ids, turn, pulled, u)  BY <1>4, <1>5, <1>8, <2>2, <2>3, <2>5, <3>2 DEF FoldsTurn
    <3> QED  BY <1>4, <2>11, <3>1, <3>3, FoldKeeps
  <2>13. Good(x, k, p, a, then, more)  BY <2>5, <2>12
  <2>14. Awake(x.side)  BY <1>1, <1>8, <2>6 DEF Awake, MarksSame
  <2> QED  BY <1>3, <1>6, <1>9, <2>13, <2>14, InvThen
<1> QED  BY <1>11, <1>12

\* The turn ends with its result, and with the completion of its prompts.
EndsTurn(c, y, m, u, v) ==
  /\ m \in Msg /\ IsAnswer(m) /\ m.labels = c.turn.labels
  /\ v = Lifecycles("completed", c.turn.uuids) /\ u = <<m>> \o v
  /\ y.turn = NoTurn /\ y.out = c.out \o u /\ y.stopped = c.stopped /\ Waiting(y) = Waiting(c)

LEMMA EndIs ==
  ASSUME NEW c \in Cli, NEW y \in Cli, NEW m, NEW u, NEW v, EndsTurn(c, y, m, u, v)
  PROVE  /\ u \in Seq(Msg) /\ v \in Seq(Msg) /\ Append(c.out, m) \in Seq(Msg)
         /\ y.out = Append(c.out, m) \o v
         /\ Len(c.out) \in Nat /\ Len(c.turn.uuids) \in Nat /\ Len(y.out) = Len(c.out) + 1 + Len(c.turn.uuids)
         /\ \A i \in 1..Len(v) : v[i].labels = <<>>
         /\ \A i \in 1..Len(c.out) : y.out[i] = c.out[i]
         /\ y.out[Len(c.out) + 1] = m
         /\ \A i \in 1..Len(c.turn.uuids) :
              /\ y.out[Len(c.out) + 1 + i].t = "completed" /\ y.out[Len(c.out) + 1 + i].id = c.turn.uuids[i]
              /\ y.out[Len(c.out) + 1 + i].labels = <<>>
<1>1. PICK out \in Seq(Msg), ids \in Seq(Nat) : out = c.out /\ ids = c.turn.uuids  BY DEF Cli, Turn
<1>2. /\ m \in Msg /\ v = Lifecycles("completed", ids) /\ u = <<m>> \o v /\ y.out = out \o u
  BY <1>1 DEF EndsTurn
<1>3. /\ v \in Seq(Msg) /\ Len(v) = Len(ids) /\ Len(ids) \in Nat
      /\ \A i \in 1..Len(ids) : v[i].t = "completed" /\ v[i].id = ids[i] /\ v[i].labels = <<>>
  <2>1. PICK t \in MsgKinds : t = "completed"  BY DEF MsgKinds
  <2> QED  BY <1>2, <2>1, LifecyclesAre
<1>4. PICK z \in Seq(Msg) : z = Append(out, m)
  <2>1. Append(out, m) \in Seq(Msg)  BY <1>2
  <2> QED  BY <2>1
<1>5. /\ Len(z) = Len(out) + 1 /\ z[Len(out) + 1] = m /\ Len(out) \in Nat
      /\ \A i \in 1..Len(out) : z[i] = out[i]
  BY <1>2, <1>4, AppendIs
<1>6. u \in Seq(Msg) /\ out \o u = z \o v
  <2>1. PICK q \in Seq(Msg) : q = <<m>>
    <3>1. <<m>> \in Seq(Msg)  BY <1>2
    <3> QED  BY <3>1
  <2>2. q \o v \in Seq(Msg)  BY <1>3, <2>1
  <2>2a. v \in Seq(Msg)  BY <1>3
  <2>3. (out \o q) \o v = out \o (q \o v)
    <3>1. Join(Join(out, q), v) = Join(out, Join(q, v))  BY <2>2a, JoinThrice
    <3> QED  BY <3>1 DEF Join
  <2>4. out \o q = z  BY <1>2, <1>4, <2>1
  <2> QED  BY <1>2, <2>1, <2>2, <2>3, <2>4
<1>7. PICK r : r = z \o v  OBVIOUS
<1>8. /\ r \in Seq(Msg) /\ Len(r) = Len(z) + Len(v)
      /\ \A i \in 1..(Len(z) + Len(v)) : /\ i <= Len(z) => r[i] = z[i]
                                         /\ i > Len(z) => r[i] = v[i - Len(z)]
  <2>1. v \in Seq(Msg) /\ Len(z) \in Nat /\ Len(v) \in Nat  BY <1>3
  <2> QED  BY <1>7, <2>1, ConcatIs
<1>9. Len(r) = Len(out) + 1 + Len(ids)  BY <1>3, <1>5, <1>8
<1>10. ASSUME NEW i \in 1..Len(out) PROVE r[i] = out[i]
  <2>1. i \in 1..(Len(z) + Len(v)) /\ i <= Len(z)  BY <1>3, <1>5
  <2> QED  BY <1>5, <1>8, <2>1
<1>11. r[Len(out) + 1] = m
  <2>1. Len(out) + 1 \in 1..(Len(z) + Len(v)) /\ Len(out) + 1 <= Len(z)  BY <1>3, <1>5
  <2> QED  BY <1>5, <1>8, <2>1
<1>12. ASSUME NEW i \in 1..Len(ids)
       PROVE  r[Len(out) + 1 + i].t = "completed" /\ r[Len(out) + 1 + i].id = ids[i] /\ r[Len(out) + 1 + i].labels = <<>>
  <2>1. PICK n \in 1..(Len(z) + Len(v)) : n = Len(out) + 1 + i
    <3>1. Len(out) + 1 + i \in 1..(Len(z) + Len(v))  BY <1>3, <1>5
    <3> QED  BY <3>1
  <2>2. n > Len(z) /\ n - Len(z) = i  BY <1>3, <1>5, <2>1
  <2>3. r[n] = v[n - Len(z)]  BY <1>8, <2>2
  <2>4. r[n] = v[i]  BY <2>2, <2>3
  <2> QED  BY <1>3, <2>1, <2>4
<1>13. \A i \in 1..Len(v) : v[i].labels = <<>>  BY <1>3
<1>14. y.out = r  BY <1>2, <1>6, <1>7
<1>15. Append(c.out, m) = z /\ c.out = out /\ c.turn.uuids = ids  BY <1>1, <1>4
<1>16. u \in Seq(Msg) /\ v \in Seq(Msg) /\ Append(c.out, m) \in Seq(Msg) /\ y.out = Append(c.out, m) \o v
  BY <1>3, <1>6, <1>7, <1>14, <1>15
<1>17. Len(c.out) \in Nat /\ Len(c.turn.uuids) \in Nat /\ Len(y.out) = Len(c.out) + 1 + Len(c.turn.uuids)
  BY <1>3, <1>5, <1>9, <1>14, <1>15
<1>18. (\A i \in 1..Len(c.out) : y.out[i] = c.out[i]) /\ y.out[Len(c.out) + 1] = m
  BY <1>10, <1>11, <1>14, <1>15
<1>19. \A i \in 1..Len(c.turn.uuids) :
         /\ y.out[Len(c.out) + 1 + i].t = "completed" /\ y.out[Len(c.out) + 1 + i].id = c.turn.uuids[i]
         /\ y.out[Len(c.out) + 1 + i].labels = <<>>
  BY <1>12, <1>14, <1>15
<1> QED  BY <1>13, <1>16, <1>17, <1>18, <1>19

LEMMA EndKeeps ==
  ASSUME NEW w, NEW k, NEW p, NEW a, NEW st, NEW sp, Good(w, k, p, a, st, sp), NEW x \in Worlds,
         w.cli.turn.stage # "none", x.side = w.side, x.job = w.job,
         NEW m, NEW u, NEW v, EndsTurn(w.cli, x.cli, m, u, v)
  PROVE  Good(x, k, p, a, st, sp)
<1>1. /\ w \in Worlds /\ w.cli \in Cli /\ w.side \in Side /\ w.job \in Job /\ Len(k) \in Nat
      /\ MaxInputs + sp.stops \in Nat /\ Strict(w.side, w.job) \in BOOLEAN
  BY GoodIds
<1>2. x.cli \in Cli /\ x.side \in Side /\ x.job \in Job  BY TypesOf
<1>3. PICK c \in Cli, y \in Cli : c = w.cli /\ y = x.cli  BY <1>1, <1>2
<1>4. PICK out \in Seq(Msg), z \in Seq(Msg), ids \in Seq(Nat) : out = c.out /\ z = y.out /\ ids = c.turn.uuids
  <2>1. c.out \in Seq(Msg) /\ y.out \in Seq(Msg) /\ c.turn.uuids \in Seq(Nat)  BY DEF Cli, Turn
  <2> QED  BY <2>1
<1>5. EndsTurn(c, y, m, u, v)  BY <1>3
<1>6. /\ m \in Msg /\ IsAnswer(m) /\ m.labels = c.turn.labels /\ y.turn = NoTurn /\ z = out \o u
      /\ y.stopped = c.stopped /\ Waiting(y) = Waiting(c)
  BY <1>4, <1>5 DEF EndsTurn
<1>7. /\ u \in Seq(Msg) /\ v \in Seq(Msg) /\ Append(out, m) \in Seq(Msg) /\ z = Append(out, m) \o v
      /\ Len(out) \in Nat /\ Len(ids) \in Nat /\ Len(z) = Len(out) + 1 + Len(ids)
      /\ (\A i \in 1..Len(v) : v[i].labels = <<>>)
      /\ (\A i \in 1..Len(out) : z[i] = out[i])
      /\ z[Len(out) + 1] = m
      /\ \A i \in 1..Len(ids) :
           z[Len(out) + 1 + i].t = "completed" /\ z[Len(out) + 1 + i].id = ids[i] /\ z[Len(out) + 1 + i].labels = <<>>
  <2>1. /\ u \in Seq(Msg) /\ v \in Seq(Msg) /\ Append(c.out, m) \in Seq(Msg)
        /\ y.out = Append(c.out, m) \o v
        /\ Len(c.out) \in Nat /\ Len(c.turn.uuids) \in Nat /\ Len(y.out) = Len(c.out) + 1 + Len(c.turn.uuids)
        /\ \A i \in 1..Len(v) : v[i].labels = <<>>
        /\ \A i \in 1..Len(c.out) : y.out[i] = c.out[i]
        /\ y.out[Len(c.out) + 1] = m
        /\ \A i \in 1..Len(c.turn.uuids) :
             /\ y.out[Len(c.out) + 1 + i].t = "completed" /\ y.out[Len(c.out) + 1 + i].id = c.turn.uuids[i]
             /\ y.out[Len(c.out) + 1 + i].labels = <<>>
    BY <1>5, EndIs
  <2> QED  BY <1>4, <2>1
<1>8. PICK h \in Nat : h = Len(out) + 1  BY <1>7
<1>9. /\ \A i \in 1..Len(out) : i \in 1..Len(z) /\ z[i] = out[i] /\ i < h
      /\ h \in 1..Len(z) /\ z[h] = m
      /\ \A i \in 1..Len(ids) : h + i \in 1..Len(z)
      /\ \A i \in 1..Len(ids) : z[h + i].t = "completed" /\ z[h + i].id = ids[i] /\ z[h + i].labels = <<>>
  <2>1. Len(out) \in Nat /\ Len(ids) \in Nat /\ Len(z) = h + Len(ids) /\ h = Len(out) + 1  BY <1>7, <1>8
  <2>2. \A i \in 1..Len(out) : i \in 1..Len(z) /\ i < h  BY <2>1
  <2>3. h \in 1..Len(z) /\ \A i \in 1..Len(ids) : h + i \in 1..Len(z)  BY <2>1
  <2>4. (\A i \in 1..Len(out) : z[i] = out[i]) /\ z[h] = m  BY <1>7, <1>8
  <2>5. \A i \in 1..Len(ids) : z[h + i].t = "completed" /\ z[h + i].id = ids[i] /\ z[h + i].labels = <<>>
    BY <1>7, <1>8
  <2> QED  BY <2>2, <2>3, <2>4, <2>5
<1>10. ASSUME NEW i \in 1..Len(z)
       PROVE  \/ i \in 1..Len(out) /\ z[i] = out[i]
              \/ i = h /\ z[i] = m
              \/ i > h /\ i - h \in 1..Len(ids) /\ z[i].t = "completed" /\ z[i].id = ids[i - h] /\ z[i].labels = <<>>
  <2>1. CASE i <= Len(out)  BY <1>7, <2>1
  <2>2. CASE i = h  BY <1>9, <2>2
  <2>3. CASE i > h
    <3>1. PICK j \in 1..Len(ids) : j = i - h
      <4>1. i - h \in 1..Len(ids)  BY <1>7, <1>8, <2>3
      <4> QED  BY <4>1
    <3>2. i = h + j  BY <1>8, <3>1
    <3>3. z[i].t = "completed" /\ z[i].id = ids[j] /\ z[i].labels = <<>>  BY <1>9, <3>2
    <3> QED  BY <2>3, <3>1, <3>3
  <2> QED  BY <1>7, <1>8, <2>1, <2>2, <2>3
<1>11. m.t # "completed" /\ m.t # "started"  BY <1>6 DEF IsAnswer
<1>12. PICK sent : sent = w.side.sent  OBVIOUS
<1>13. /\ w.job.by = "none" /\ ~ NoteWaits(c) /\ ids # <<>> /\ Marked(out, sent, p, ids[1], Len(out) + 1)
       /\ w.side.stopping => c.turn.stage = "stopped"
  BY <1>3, <1>4, <1>12, TurnOfPrompt
<1>14. ~ NoteWaits(y)  BY <1>6, <1>13 DEF NoteWaits
<1>15. \A q : ~ InTurn(y, q)
  <2>1. y.turn.uuids = <<>>  BY <1>6 DEF NoTurn
  <2> QED  BY <2>1 DEF InTurn
<1>16. ASSUME NEW q PROVE InOut(y, "completed", q) <=> InOut(c, "completed", q) \/ InTurn(c, q)
  <2>1. ASSUME InOut(y, "completed", q) PROVE InOut(c, "completed", q) \/ InTurn(c, q)
    <3>1. PICK i \in 1..Len(z) : z[i].t = "completed" /\ z[i].id = q  BY <1>4, <2>1 DEF InOut
    <3>2. CASE i \in 1..Len(out) /\ z[i] = out[i]  BY <1>4, <3>1, <3>2 DEF InOut
    <3>3. CASE i = h /\ z[i] = m  BY <1>11, <3>1, <3>3
    <3>4. CASE i - h \in 1..Len(ids) /\ z[i].id = ids[i - h]  BY <1>4, <3>1, <3>4 DEF InTurn
    <3> QED  BY <1>10, <3>2, <3>3, <3>4
  <2>2. ASSUME InOut(c, "completed", q) PROVE InOut(y, "completed", q)
    <3>1. PICK i \in 1..Len(out) : out[i].t = "completed" /\ out[i].id = q  BY <1>4, <2>2 DEF InOut
    <3>2. i \in 1..Len(z) /\ z[i] = out[i]  BY <1>9
    <3> QED  BY <1>4, <3>1, <3>2 DEF InOut
  <2>3. ASSUME InTurn(c, q) PROVE InOut(y, "completed", q)
    <3>1. PICK i \in 1..Len(ids) : ids[i] = q  BY <1>4, <2>3 DEF InTurn
    <3>2. PICK j \in 1..Len(z) : j = h + i
      <4>1. h + i \in 1..Len(z)  BY <1>9
      <4> QED  BY <4>1
    <3>3. z[j].t = "completed" /\ z[j].id = q  BY <1>9, <3>1, <3>2
    <3> QED  BY <1>4, <3>3 DEF InOut
  <2> QED  BY <2>1, <2>2, <2>3
<1>17. ASSUME NEW q PROVE InOut(y, "started", q) <=> InOut(c, "started", q)
  <2>1. ASSUME InOut(y, "started", q) PROVE InOut(c, "started", q)
    <3>1. PICK i \in 1..Len(z) : z[i].t = "started" /\ z[i].id = q  BY <1>4, <2>1 DEF InOut
    <3>2. i \in 1..Len(out) /\ z[i] = out[i]  BY <1>10, <1>11, <3>1
    <3> QED  BY <1>4, <3>1, <3>2 DEF InOut
  <2>2. ASSUME InOut(c, "started", q) PROVE InOut(y, "started", q)
    <3>1. PICK i \in 1..Len(out) : out[i].t = "started" /\ out[i].id = q  BY <1>4, <2>2 DEF InOut
    <3>2. i \in 1..Len(z) /\ z[i] = out[i]  BY <1>9
    <3> QED  BY <1>4, <3>1, <3>2 DEF InOut
  <2> QED  BY <2>1, <2>2
<1>18. \A q : Passed(y, q) <=> Passed(c, q)  BY <1>15, <1>16, <1>17 DEF Passed
<1>19. Shaped(x, k, p, sp)
  <2>0. \A i \in 1..Len(out) : ~ IsAnswer(out[i]) => out[i].labels = <<>>
    BY <1>3, <1>4 DEF Good, Shaped, MessagesKnown
  <2>1. ASSUME NEW i \in 1..Len(z), ~ IsAnswer(z[i]) PROVE z[i].labels = <<>>
    BY <1>6, <1>10, <2>0, <2>1
  <2> QED  BY <1>3, <1>4, <2>1 DEF Good, Shaped, MessagesKnown
<1>20. InLine(x, k, p, a, st, sp)
  <2>0. PICK F, H : F = First(p, w.job) /\ H = Held(w.side, w.job)  OBVIOUS
  <2>1. PICK strict \in BOOLEAN : strict = Strict(w.side, w.job)  BY <1>1
  <2>2. PICK top \in Nat, n \in Nat : top = MaxInputs + sp.stops /\ n = Len(k)  BY <1>1
  <2>3. Line(c, F, H, n, a, st, top, strict)  BY <1>3, <2>0, <2>1, <2>2 DEF Good, InLine
  <2>4. PICK b \in Nat, l \in Nat, d \in Nat, e \in Nat :
        /\ IsRun(a, 0, Len(a)) /\ IsRun(F, Len(a), b) /\ Chain(out, b, l) /\ Middle(c, l, d, e)
        /\ IsRun(H, e, n) /\ Begun(st, d) /\ Behind(c, d, top, strict)
    BY <1>4, <2>3 DEF Line
  <2>5. IsRun(c.turn.labels, l, d) /\ IsRun(Waiting(c), d, e)  BY <1>13, <2>4 DEF Middle
  <2>6. Chain(Append(out, m), b, d)
    <3>1. IsRun(m.labels, l, d)  BY <1>6, <2>5
    <3> QED  BY <1>6, <2>4, <3>1, ChainAppend
  <2>7. Chain(z, b, d)
    <3>1. PICK r \in Seq(Msg) : r = Append(out, m)  BY <1>7
    <3>2. Chain(r \o v, b, d)  BY <1>7, <2>6, <3>1, ChainQuiet
    <3> QED  BY <1>7, <3>1, <3>2
  <2>8. Middle(y, d, d, e)
    <3>1. y.turn.labels = <<>>  BY <1>6 DEF NoTurn
    <3>2. IsRun(<<>>, d, d)  BY EmptyRun
    <3> QED  BY <1>6, <1>14, <2>5, <3>1, <3>2 DEF Middle
  <2>9. Behind(y, d, top, strict)  BY <1>13, <1>14, <1>18, <2>4 DEF Behind
  <2>10. Line(y, F, H, n, a, st, top, strict)  BY <1>4, <2>4, <2>7, <2>8, <2>9 DEF Line
  <2> QED  BY <1>3, <2>0, <2>1, <2>2, <2>10 DEF InLine
<1>21. Unlike(y)
  <2>1. Unlike(c)  BY <1>3 DEF Good, Placed
  <2>2. /\ \A i, j \in 1..Len(out) : out[i].t = "completed" /\ out[j].t = "completed" /\ out[i].id = out[j].id => i = j
        /\ \A i \in 1..Len(out) : out[i].t = "completed" => ~ InTurn(c, out[i].id)
        /\ \A i, j \in 1..Len(ids) : ids[i] = ids[j] => i = j
    BY <1>4, <2>1 DEF Unlike
  <2>3. \A i \in 1..Len(out), j \in 1..Len(ids) : out[i].t = "completed" => out[i].id # ids[j]
    BY <1>4, <2>2 DEF InTurn
  <2>4. ASSUME NEW i \in 1..Len(z), NEW j \in 1..Len(z), z[i].t = "completed", z[j].t = "completed", z[i].id = z[j].id
        PROVE  i = j
    <3>1. CASE i \in 1..Len(out) /\ z[i] = out[i]
      <4>1. j \in 1..Len(out) /\ z[j] = out[j]  BY <1>10, <1>11, <2>3, <2>4, <3>1
      <4> QED  BY <2>2, <2>4, <3>1, <4>1
    <3>2. CASE i - h \in 1..Len(ids) /\ z[i].id = ids[i - h]
      <4>1. j - h \in 1..Len(ids) /\ z[j].id = ids[j - h]  BY <1>10, <1>11, <2>3, <2>4, <3>2
      <4>2. i - h = j - h  BY <2>2, <2>4, <3>2, <4>1
      <4> QED  BY <4>2
    <3> QED  BY <1>10, <1>11, <2>4, <3>1, <3>2
  <2>5. y.turn.uuids = <<>>  BY <1>6 DEF NoTurn
  <2> QED  BY <1>4, <1>15, <2>4, <2>5 DEF Unlike
<1>22. TurnMarked(y, sent, p)  BY <1>6 DEF TurnMarked, NoTurn
<1>23. AnswersMarked(z, sent, p)
  <2>1. AnswersMarked(out, sent, p)  BY <1>3, <1>4, <1>12 DEF Good, Placed
  <2> SUFFICES ASSUME NEW i \in 1..Len(z), IsAnswer(z[i])
               PROVE  i < Len(z) /\ z[i + 1].t = "completed" /\ Marked(z, sent, p, z[i + 1].id, i)
    BY DEF AnswersMarked
  <2>0. u \in Seq(Msg) /\ z = out \o u  BY <1>6, <1>7
  <2>2. CASE i \in 1..Len(out)  BY <2>0, <2>1, <2>2, AnswersThen
  <2>3. CASE i = h
    <3>1. 1 \in 1..Len(ids) /\ h + 1 \in 1..Len(z)  BY <1>9, <1>13
    <3>2. z[h + 1].t = "completed" /\ z[h + 1].id = ids[1]  BY <1>9, <3>1
    <3>3. PICK q : q = ids[1]  OBVIOUS
    <3>4. h \in 1..Len(out) + 1  BY <1>7, <1>8
    <3>5. Marked(z, sent, p, q, h)
      <4>1. Marked(out, sent, p, q, h)  BY <1>8, <1>13, <3>3
      <4> QED  BY <1>6, <1>7, <3>4, <4>1, MarkedThen
    <3> QED  BY <2>3, <3>1, <3>2, <3>3, <3>5
  <2>4. CASE i > h
    <3>1. i \notin 1..Len(out) /\ i # h  BY <1>9, <2>4
    <3>2. z[i].t = "completed"  BY <1>10, <3>1
    <3> QED  BY <3>2 DEF IsAnswer
  <2> QED  BY <1>10, <2>2, <2>3, <2>4
<1>24. WaitingMarked(y, sent)  BY <1>3, <1>6, <1>12 DEF Good, Placed, WaitingMarked
<1>25. PumpMarked(z, x.side, p, x.job)
  <2>1. PumpMarked(out, w.side, p, w.job)  BY <1>3, <1>4 DEF Good, Placed
  <2>2. out # <<>> => z # <<>> /\ z[1] = out[1]
    <3> SUFFICES ASSUME out # <<>> PROVE z # <<>> /\ z[1] = out[1]  OBVIOUS
    <3>1. 1 \in 1..Len(out)  BY <1>4
    <3>2. 1 \in 1..Len(z) /\ z[1] = out[1]  BY <1>9, <3>1
    <3> QED  BY <3>2
  <2> QED  BY <2>1, <2>2 DEF PumpMarked
<1>26. Carried(y, sent, x.job)
  <2>1. Carried(c, sent, w.job)  BY <1>3, <1>12 DEF Good, Placed
  <2>2. \A q : InWaiting(y, q) <=> InWaiting(c, q)  BY <1>6 DEF InWaiting
  <2> QED  BY <1>16, <2>1, <2>2 DEF Carried
<1>27. SeenKnown(y, x.side)
  <2>1. SeenKnown(c, x.side) /\ c.turn.stage # "none"  BY <1>3 DEF Good, Placed
  <2>2. u \in Seq(Msg) /\ y.out = c.out \o u  BY <1>4, <1>6, <1>7
  <2> QED  BY <2>1, <2>2, SeenThen
<1>28. JobKnown(x.side, x.job, y)  BY <1>13 DEF Good, Placed, JobKnown
<1>29. StopKnown(x.side, x.job, p, y, sp)
  <2>1. StopKnown(w.side, w.job, p, c, sp)  BY <1>3 DEF Good, Placed
  <2>2. y.turn.stage = "none"  BY <1>6 DEF NoTurn
  <2>3. ASSUME w.side.stopping
        PROVE  \E i \in 1..Len(z) : IsAnswer(z[i]) /\ \A j \in 1..Len(z) : IsAnswer(z[j]) => j = i
    <3>1. NoAnswer(out)  BY <1>4, <1>13, <2>1, <2>3 DEF StopKnown
    <3>2. ASSUME NEW j \in 1..Len(z), IsAnswer(z[j]) PROVE j = h
      <4>1. j \notin 1..Len(out) \/ z[j] # out[j]  BY <3>1, <3>2 DEF NoAnswer
      <4>2. z[j].t # "completed"  BY <3>2 DEF IsAnswer
      <4> QED  BY <1>10, <4>1, <4>2
    <3>3. h \in 1..Len(z) /\ IsAnswer(z[h])  BY <1>6, <1>9
    <3> QED  BY <3>2, <3>3
  <2> QED  BY <1>4, <1>6, <2>1, <2>2, <2>3 DEF StopKnown
<1>30. Placed(x, p, sp)
  BY <1>3, <1>4, <1>12, <1>21, <1>22, <1>23, <1>24, <1>25, <1>26, <1>27, <1>28, <1>29 DEF Placed
<1> QED  BY <1>19, <1>20, <1>30 DEF Good

LEMMA TurnEndsKeeps ==
  ASSUME SessionInv, NEW terminal \in {"result", "hook_stopped", "interrupted"}, TurnEnds(terminal)
  PROVE  SessionInv'
<1>1. /\ Good(World, kinds, pump, answers, started, spent) /\ Awake(side) /\ World \in Worlds
      /\ World.side = side /\ World.cli = cli /\ World.job = job
      /\ side \in Side /\ cli \in Cli /\ job \in Job
  BY InvHolds
<1>2. PICK w, k, p, a, st, sp : w = World /\ k = kinds /\ p = pump /\ a = answers /\ st = started /\ sp = spent
  OBVIOUS
<1>3. /\ kinds' = k /\ pump' = p /\ answers' = a /\ started' = st /\ spent' = sp /\ read' \in BOOLEAN
      /\ job' = job /\ side' = side /\ cli.turn.stage # "none"
  BY <1>1, <1>2 DEF TurnEnds, SessionInv
<1>4. Good(w, k, p, a, st, sp) /\ w.side = side /\ w.cli = cli /\ w.job = job  BY <1>1, <1>2
<1>5. PICK c \in Cli : c = cli  BY <1>1
<1>6. PICK labels \in Seq(Nat), ids \in Seq(Nat) : labels = c.turn.labels /\ ids = c.turn.uuids
  <2>1. c.turn.labels \in Seq(Nat) /\ c.turn.uuids \in Seq(Nat)  BY DEF Cli, Turn
  <2> QED  BY <2>1
<1>7. PICK said \in MsgKinds : said = IF terminal = "hook_stopped" THEN "hook_stopped" ELSE "result"
  <2>1. (IF terminal = "hook_stopped" THEN "hook_stopped" ELSE "result") \in MsgKinds  BY DEF MsgKinds
  <2> QED  BY <2>1
<1>8. PICK m : m = Result(said, labels)  OBVIOUS
<1>9. m \in Msg /\ m.t = said /\ m.labels = labels  BY <1>8, ResultIs
<1>10. IsAnswer(m)  BY <1>7, <1>9 DEF IsAnswer
<1>11. PICK v \in Seq(Msg) : v = Lifecycles("completed", ids)
  <2>1. PICK t \in MsgKinds : t = "completed"  BY DEF MsgKinds
  <2>2. Lifecycles(t, ids) \in Seq(Msg)  BY LifecyclesAre
  <2> QED  BY <2>1, <2>2
<1>12. PICK u \in Seq(Msg) : u = <<m>> \o v
  <2>1. <<m>> \in Seq(Msg)  BY <1>9
  <2>2. <<m>> \o v \in Seq(Msg)  BY <2>1
  <2> QED  BY <2>2
<1>13. PICK z \in Seq(Msg) : z = c.out \o u
  <2>1. c.out \o u \in Seq(Msg)  BY DEF Cli
  <2> QED  BY <2>1
<1>14. PICK y : y = cli'  OBVIOUS
<1>15. y = [c EXCEPT !.turn = NoTurn, !.out = z]
  BY <1>5, <1>6, <1>7, <1>8, <1>11, <1>12, <1>13, <1>14 DEF TurnEnds, Emits
<1>16. NoTurn \in Turn
  <2>1. <<>> \in Seq(Nat)  OBVIOUS
  <2> QED  BY <2>1 DEF NoTurn, Turn
<1>17. /\ y \in Cli /\ y.turn = NoTurn /\ y.out = z /\ y.stopped = c.stopped /\ y.pulled = c.pulled
       /\ y.before = c.before /\ y.input = c.input
  BY <1>15, <1>16 DEF Cli
<1>18. Waiting(y) = Waiting(c)  BY <1>17 DEF Waiting
<1>19. PICK x : x = [side |-> side, cli |-> y, job |-> job]  OBVIOUS
<1>20. x \in Worlds /\ x.side = side /\ x.cli = y /\ x.job = job  BY <1>1, <1>17, <1>19 DEF Worlds
<1>21. EndsTurn(c, y, m, u, v)
  BY <1>6, <1>9, <1>10, <1>11, <1>12, <1>13, <1>17, <1>18 DEF EndsTurn
<1>22. Good(x, k, p, a, st, sp)
  <2>1. /\ w.cli.turn.stage # "none" /\ x.side = w.side /\ x.job = w.job /\ EndsTurn(w.cli, x.cli, m, u, v)
    BY <1>3, <1>4, <1>5, <1>20, <1>21
  <2> QED  BY <1>4, <1>20, <2>1, EndKeeps
<1>23. Becomes(x) /\ Awake(x.side)  BY <1>1, <1>3, <1>14, <1>20 DEF Becomes
<1> QED  BY <1>3, <1>22, <1>23, InvThen

-----------------------------------------------------------------------------
(* The pump takes a message.                                                *)

\* y is c without the first message.
Takes(c, y) ==
  /\ c.out # <<>> /\ y.out = Tail(c.out) /\ y.turn = c.turn /\ y.stopped = c.stopped
  /\ Waiting(y) = Waiting(c)

LEMMA TakenIs ==
  ASSUME NEW c \in Cli, NEW y \in Cli, Takes(c, y)
  PROVE  /\ Len(c.out) \in Nat /\ Len(y.out) \in Nat /\ Len(c.out) = Len(y.out) + 1 /\ 1 \in 1..Len(c.out)
         /\ Head(c.out) = c.out[1] /\ c.out[1] \in Msg
         /\ \A i \in 1..Len(y.out) : i + 1 \in 1..Len(c.out) /\ y.out[i] = c.out[i + 1]
         /\ \A i \in 1..Len(c.out) : i = 1 \/ (i - 1 \in 1..Len(y.out) /\ y.out[i - 1] = c.out[i])
         /\ \A v : Passed(y, v) => Passed(c, v)
         /\ \A v : (InTurn(y, v) <=> InTurn(c, v)) /\ (InWaiting(y, v) <=> InWaiting(c, v))
         /\ (NoteWaits(y) <=> NoteWaits(c))
<1>1. PICK out \in Seq(Msg), z \in Seq(Msg) : out = c.out /\ z = y.out  BY DEF Cli
<1>2. /\ z = Tail(out) /\ out # <<>> /\ y.turn = c.turn /\ Waiting(y) = Waiting(c)  BY <1>1 DEF Takes
<1>3. /\ Len(z) = Len(out) - 1 /\ Len(out) \in Nat /\ Len(out) >= 1 /\ Head(out) = out[1] /\ out[1] \in Msg
      /\ \A n \in 1..Len(out) - 1 : z[n] = out[n + 1]
  BY <1>2, TailIs
<1>4. ASSUME NEW i \in 1..Len(z) PROVE i + 1 \in 1..Len(out) /\ z[i] = out[i + 1]  BY <1>3
<1>5. ASSUME NEW i \in 1..Len(out), i # 1 PROVE i - 1 \in 1..Len(z) /\ z[i - 1] = out[i]
  <2>1. PICK j \in 1..Len(out) - 1 : j = i - 1
    <3>1. i - 1 \in 1..Len(out) - 1  BY <1>3, <1>5
    <3> QED  BY <3>1
  <2>2. i = j + 1 /\ z[j] = out[j + 1]  BY <1>3, <2>1
  <2> QED  BY <1>3, <2>1, <2>2
<1>6. \A v : (InTurn(y, v) <=> InTurn(c, v)) /\ (InWaiting(y, v) <=> InWaiting(c, v))
  BY <1>2 DEF InTurn, InWaiting
<1>7. ASSUME NEW v, NEW t, InOut(y, t, v) PROVE InOut(c, t, v)
  <2>1. PICK i \in 1..Len(z) : z[i].t = t /\ z[i].id = v  BY <1>1, <1>7 DEF InOut
  <2>2. PICK j \in 1..Len(out) : j = i + 1  BY <1>4
  <2>3. out[j].t = t /\ out[j].id = v  BY <1>4, <2>1, <2>2
  <2> QED  BY <1>1, <2>3 DEF InOut
<1>8. \A v : Passed(y, v) => Passed(c, v)  BY <1>6, <1>7 DEF Passed
<1>9. NoteWaits(y) <=> NoteWaits(c)  BY <1>2 DEF NoteWaits
<1>10. 1 \in 1..Len(out) /\ Len(z) \in Nat /\ Len(out) = Len(z) + 1  BY <1>3
<1> QED  BY <1>1, <1>3, <1>4, <1>5, <1>6, <1>8, <1>9, <1>10

\* A message that is no result: the line stays, the stream is shorter.
LEMMA LineTake ==
  ASSUME NEW c \in Cli, NEW y \in Cli, Takes(c, y), Head(c.out).labels = <<>>,
         NEW F, NEW H, NEW n \in Nat, NEW a, NEW st, NEW top \in Nat, NEW strict \in BOOLEAN,
         Line(c, F, H, n, a, st, top, strict)
  PROVE  Line(y, F, H, n, a, st, top, strict)
<1>1. PICK b \in Nat, l \in Nat, d \in Nat, e \in Nat :
        /\ IsRun(a, 0, Len(a)) /\ IsRun(F, Len(a), b) /\ Chain(c.out, b, l) /\ Middle(c, l, d, e)
        /\ IsRun(H, e, n) /\ Begun(st, d) /\ Behind(c, d, top, strict)
  BY DEF Line
<1>2. y.out = Tail(c.out) /\ c.out # <<>> /\ y.turn = c.turn /\ y.stopped = c.stopped /\ Waiting(y) = Waiting(c)
  BY DEF Takes
<1>3. c.out \in Seq(Msg)  BY DEF Cli
<1>4. PICK q \in Nat : IsRun(Head(c.out).labels, b, q) /\ Chain(Tail(c.out), q, l)  BY <1>1, <1>2, <1>3, ChainTail
<1>5. q = b
  <2>1. IsRun(<<>>, b, q)  BY <1>4
  <2> QED  BY <2>1, EmptyRun
<1>6. (\A v : Passed(y, v) => Passed(c, v)) /\ (NoteWaits(y) <=> NoteWaits(c))  BY TakenIs
<1>7. Middle(y, l, d, e)  BY <1>1, <1>2, <1>6 DEF Middle
<1>8. Behind(y, d, top, strict)  BY <1>1, <1>2, <1>6 DEF Behind
<1> QED  BY <1>1, <1>2, <1>4, <1>5, <1>7, <1>8 DEF Line

LEMMA UnlikeTake ==
  ASSUME NEW c \in Cli, NEW y \in Cli, Takes(c, y), Unlike(c)
  PROVE  Unlike(y)
<1>1. /\ Len(c.out) \in Nat /\ Len(y.out) \in Nat
      /\ \A i \in 1..Len(y.out) : i + 1 \in 1..Len(c.out) /\ y.out[i] = c.out[i + 1]
      /\ \A v : InTurn(y, v) <=> InTurn(c, v)
  BY TakenIs
<1>2. ASSUME NEW i \in 1..Len(y.out), NEW j \in 1..Len(y.out), y.out[i].t = "completed", y.out[j].t = "completed",
             y.out[i].id = y.out[j].id
      PROVE  i = j
  <2>1. PICK m \in 1..Len(c.out), n \in 1..Len(c.out) : m = i + 1 /\ n = j + 1  BY <1>1
  <2>2. y.out[i] = c.out[m] /\ y.out[j] = c.out[n]  BY <1>1, <2>1
  <2>3. m = n  BY <1>2, <2>2 DEF Unlike
  <2> QED  BY <2>1, <2>3
<1>3. \A n \in 1..Len(y.out) : y.out[n].t = "completed" => ~ InTurn(y, y.out[n].id)  BY <1>1 DEF Unlike
<1>4. y.turn = c.turn  BY DEF Takes
<1> QED  BY <1>2, <1>3, <1>4 DEF Unlike

\* What was said of place n in the stream is true of the place before it in the shorter one.
LEMMA MarkedTake ==
  ASSUME NEW c \in Cli, NEW y \in Cli, Takes(c, y), NEW sent, NEW p, NEW v,
         NEW n \in Nat, n >= 2, n <= Len(c.out) + 1, NEW q, q = n - 1, Marked(c.out, sent, p, v, n),
         NEW next, next[v] # "no", NEW r,
         next[v] = "started" => r.t = "none" /\ \A m \in 2..n - 1 : ~ IsAnswer(c.out[m])
  PROVE  Marked(y.out, next, r, v, q)
<1>1. /\ Len(c.out) \in Nat /\ Len(y.out) \in Nat /\ Len(c.out) = Len(y.out) + 1
      /\ \A i \in 1..Len(y.out) : i + 1 \in 1..Len(c.out) /\ y.out[i] = c.out[i + 1]
  BY TakenIs
<1>2. PICK out \in Seq(Msg), z \in Seq(Msg) : out = c.out /\ z = y.out  BY DEF Cli
<1>3. ASSUME NEW m \in 1..q - 1 PROVE m + 1 \in 1..n - 1 /\ m + 1 \in 2..n - 1 /\ z[m] = out[m + 1]
  <2>1. m \in 1..Len(z)  BY <1>1, <1>2
  <2> QED  BY <1>1, <1>2, <2>1
<1>4. ASSUME NEW i \in 1..Len(z), z[i].t = "started", z[i].id = v, NEW m \in 1..q - 1, IsAnswer(z[m])
      PROVE  m < i
  <2>1. PICK j \in 1..Len(out), o \in 1..n - 1 : j = i + 1 /\ o = m + 1
    <3>1. i + 1 \in 1..Len(out) /\ m + 1 \in 1..n - 1  BY <1>1, <1>2, <1>3
    <3> QED  BY <3>1
  <2>2. out[j].t = "started" /\ out[j].id = v /\ IsAnswer(out[o])  BY <1>1, <1>2, <1>3, <1>4, <2>1
  <2>3. o < j  BY <1>2, <2>2 DEF Marked
  <2> QED  BY <2>1, <2>3
<1>5. next[v] = "started" => r.t = "none" /\ \A m \in 1..q - 1 : ~ IsAnswer(z[m])  BY <1>2, <1>3
<1> QED  BY <1>2, <1>4, <1>5 DEF Marked

\* What the session hears of a prompt.
Hears(sent, next, m) ==
  /\ next \in [Id -> Marks]
  /\ \A v \in Id :
       \/ v = m.id /\ m.t = "completed" /\ next[v] = "no"
       \/ v = m.id /\ m.t = "started" /\ sent[v] = "no" /\ next[v] = "no"
       \/ v = m.id /\ m.t = "started" /\ sent[v] # "no" /\ next[v] = "started"
       \/ (v # m.id \/ (m.t # "completed" /\ m.t # "started")) /\ next[v] = sent[v]

LEMMA HandleKeeps ==
  ASSUME NEW w, NEW k, NEW p, NEW a, NEW st, NEW sp, Good(w, k, p, a, st, sp), NEW x \in Worlds,
         p.t = "none", Takes(w.cli, x.cli), ~ IsAnswer(Head(w.cli.out)), x.job = w.job,
         x.side.inputs = w.side.inputs, x.side.compacting = w.side.compacting,
         x.side.stopping = w.side.stopping, x.side.advancing = w.side.advancing, x.side.seen,
         Hears(w.side.sent, x.side.sent, Head(w.cli.out))
  PROVE  Good(x, k, p, a, st, sp)
<1>1. /\ w \in Worlds /\ w.cli \in Cli /\ w.side \in Side /\ w.job \in Job /\ Len(k) \in Nat
      /\ Len(k) <= MaxInputs /\ MaxInputs \in Nat
      /\ MaxInputs + sp.stops \in Nat /\ Strict(w.side, w.job) \in BOOLEAN
      /\ \A i \in 1..Len(Waiting(w.cli)) : Waiting(w.cli)[i] \in Id
      /\ \A v \in Nat : Passed(w.cli, v) => v \in Id
  BY GoodIds
<1>2. x.cli \in Cli /\ x.side \in Side /\ x.job \in Job  BY TypesOf
<1>3. PICK c \in Cli, y \in Cli : c = w.cli /\ y = x.cli  BY <1>1, <1>2
<1>4. PICK out \in Seq(Msg), z \in Seq(Msg), ids \in Seq(Nat) : out = c.out /\ z = y.out /\ ids = c.turn.uuids
  <2>1. c.out \in Seq(Msg) /\ y.out \in Seq(Msg) /\ c.turn.uuids \in Seq(Nat)  BY DEF Cli, Turn
  <2> QED  BY <2>1
<1>5. PICK m : m = out[1]  OBVIOUS
<1>6. Takes(c, y)  BY <1>3
<1>7. /\ Len(out) \in Nat /\ Len(z) \in Nat /\ Len(out) = Len(z) + 1 /\ 1 \in 1..Len(out)
      /\ Head(c.out) = m /\ m \in Msg
      /\ (\A i \in 1..Len(z) : i + 1 \in 1..Len(out) /\ z[i] = out[i + 1])
      /\ (\A i \in 1..Len(out) : i = 1 \/ (i - 1 \in 1..Len(z) /\ z[i - 1] = out[i]))
      /\ (\A v : Passed(y, v) => Passed(c, v))
      /\ (\A v : (InTurn(y, v) <=> InTurn(c, v)) /\ (InWaiting(y, v) <=> InWaiting(c, v)))
      /\ (NoteWaits(y) <=> NoteWaits(c))
  <2>1. /\ Len(c.out) \in Nat /\ Len(y.out) \in Nat /\ Len(c.out) = Len(y.out) + 1 /\ 1 \in 1..Len(c.out)
        /\ Head(c.out) = c.out[1] /\ c.out[1] \in Msg
        /\ \A i \in 1..Len(y.out) : i + 1 \in 1..Len(c.out) /\ y.out[i] = c.out[i + 1]
        /\ \A i \in 1..Len(c.out) : i = 1 \/ (i - 1 \in 1..Len(y.out) /\ y.out[i - 1] = c.out[i])
        /\ \A v : Passed(y, v) => Passed(c, v)
        /\ \A v : (InTurn(y, v) <=> InTurn(c, v)) /\ (InWaiting(y, v) <=> InWaiting(c, v))
        /\ (NoteWaits(y) <=> NoteWaits(c))
    BY <1>6, TakenIs
  <2> QED  BY <1>4, <1>5, <2>1
<1>8. y.turn = c.turn /\ y.stopped = c.stopped /\ Waiting(y) = Waiting(c)  BY <1>6 DEF Takes
<1>9. PICK sent \in [Id -> Marks], next \in [Id -> Marks] : sent = w.side.sent /\ next = x.side.sent
  <2>1. w.side.sent \in [Id -> Marks] /\ x.side.sent \in [Id -> Marks]  BY <1>1, <1>2 DEF Side
  <2> QED  BY <2>1
<1>10. ~ IsAnswer(m) /\ Hears(sent, next, m)  BY <1>3, <1>7, <1>9
<1>11. ASSUME NEW v \in Id
       PROVE  /\ sent[v] = "no" => next[v] = "no"
              /\ next[v] = "sent" => sent[v] = "sent"
              /\ v = m.id /\ m.t = "completed" => next[v] = "no"
              /\ (v = m.id /\ m.t = "completed") \/ sent[v] = "no" \/ next[v] # "no"
              /\ next[v] = "started" => sent[v] = "started" \/ (v = m.id /\ m.t = "started")
              /\ (v # m.id \/ (m.t # "completed" /\ m.t # "started")) => next[v] = sent[v]
  BY <1>10, <1>11 DEF Hears
<1>12. m.t = "completed" => InOut(c, "completed", m.id) /\ m.id \in Id
  <2> SUFFICES ASSUME m.t = "completed" PROVE InOut(c, "completed", m.id) /\ m.id \in Id  OBVIOUS
  <2>1. InOut(c, "completed", m.id)  BY <1>4, <1>5, <1>7 DEF InOut
  <2>2. m.id \in Nat  BY <1>7 DEF Msg
  <2>3. Passed(c, m.id)  BY <2>1 DEF Passed
  <2> QED  BY <1>1, <1>3, <2>1, <2>2, <2>3
<1>13. ASSUME NEW v \in Id, NEW n \in Nat, n >= 2, n <= Len(out) + 1, Marked(out, sent, p, v, n),
              ~ (v = m.id /\ m.t = "completed"), NEW q, q = n - 1
       PROVE  Marked(z, next, p, v, q)
  <2>1. sent[v] # "no"  BY <1>13 DEF Marked
  <2>2. next[v] # "no"  BY <1>11, <1>13, <2>1
  <2>3. next[v] = "started" => \A i \in 2..n - 1 : ~ IsAnswer(out[i])
    <3>1. CASE sent[v] = "started"  BY <1>13, <3>1 DEF Marked
    <3>2. CASE v = m.id /\ m.t = "started"
      <4>1. \A i \in 1..n - 1 : IsAnswer(out[i]) => i < 1  BY <1>5, <1>7, <1>13, <3>2 DEF Marked
      <4> QED  BY <4>1
    <3> QED  BY <1>11, <3>1, <3>2
  <2>4. \A i : out[i] = c.out[i]  BY <1>4
  <2>5. Marked(c.out, sent, p, v, n) /\ n <= Len(c.out) + 1  BY <1>4, <1>13
  <2>6. next[v] = "started" => p.t = "none" /\ \A i \in 2..n - 1 : ~ IsAnswer(c.out[i])  BY <1>4, <2>3
  <2>7. Marked(y.out, next, p, v, q)  BY <1>6, <1>13, <2>2, <2>5, <2>6, MarkedTake
  <2> QED  BY <1>4, <2>7
<1>14. Shaped(x, k, p, sp)
  <2>0. \A i \in 1..Len(out) : ~ IsAnswer(out[i]) => out[i].labels = <<>>
    BY <1>3, <1>4 DEF Good, Shaped, MessagesKnown
  <2>1. ASSUME NEW i \in 1..Len(z), ~ IsAnswer(z[i]) PROVE z[i].labels = <<>>
    <3>1. PICK j \in 1..Len(out) : j = i + 1  BY <1>7
    <3>2. z[i] = out[j]  BY <1>7, <3>1
    <3> QED  BY <2>0, <2>1, <3>2
  <2> QED  BY <1>3, <1>4, <2>1 DEF Good, Shaped, MessagesKnown
<1>15. InLine(x, k, p, a, st, sp)
  <2>0. PICK F, H : F = First(p, w.job) /\ H = Held(w.side, w.job)  OBVIOUS
  <2>1. PICK strict \in BOOLEAN : strict = Strict(w.side, w.job)  BY <1>1
  <2>2. PICK top \in Nat, n \in Nat : top = MaxInputs + sp.stops /\ n = Len(k)  BY <1>1
  <2>3. Line(c, F, H, n, a, st, top, strict)  BY <1>3, <2>0, <2>1, <2>2 DEF Good, InLine
  <2>4. Head(c.out).labels = <<>>
    <3>1. \A i \in 1..Len(out) : ~ IsAnswer(out[i]) => out[i].labels = <<>>
      BY <1>3, <1>4 DEF Good, Shaped, MessagesKnown
    <3> QED  BY <1>5, <1>7, <1>10, <3>1
  <2>5. Line(y, F, H, n, a, st, top, strict)  BY <1>6, <2>3, <2>4, LineTake
  <2>6. F = First(p, x.job) /\ H = Held(x.side, x.job) /\ strict = Strict(x.side, x.job)
    BY <2>0, <2>1 DEF Held, Strict
  <2> QED  BY <1>3, <2>2, <2>5, <2>6 DEF InLine
<1>16. Unlike(c) /\ Unlike(y)
  <2>1. Unlike(c)  BY <1>3 DEF Good, Placed
  <2> QED  BY <1>6, <2>1, UnlikeTake
<1>17. TurnMarked(y, next, p)
  <2>1. TurnMarked(c, sent, p)  BY <1>3, <1>9 DEF Good, Placed
  <2>2. CASE c.turn.stage = "none"  BY <1>8, <2>1, <2>2 DEF TurnMarked
  <2>3. CASE c.turn.stage # "none"
    <3>1. ~ NoteWaits(c) /\ ids # <<>> /\ Marked(out, sent, p, ids[1], Len(out) + 1)
      BY <1>4, <2>1, <2>3 DEF TurnMarked
    <3>2. 1 \in 1..Len(ids)  BY <3>1
    <3>3. PICK v \in Nat : v = ids[1]  BY <3>2
    <3>4. InTurn(c, v)  BY <1>4, <3>2, <3>3 DEF InTurn
    <3>5. v \in Id
      <4>1. Passed(w.cli, v)  BY <1>3, <3>4 DEF Passed
      <4> QED  BY <1>1, <4>1
    <3>6. ~ (v = m.id /\ m.t = "completed")  BY <1>4, <1>5, <1>7, <1>16, <3>4 DEF Unlike
    <3>7. PICK n \in Nat : n = Len(out) + 1  BY <1>7
    <3>8. n >= 2 /\ n <= Len(out) + 1 /\ Len(z) + 1 = n - 1 /\ Marked(out, sent, p, v, n)
      BY <1>7, <3>1, <3>3, <3>7
    <3>9. Marked(z, next, p, v, Len(z) + 1)  BY <1>13, <3>5, <3>6, <3>8
    <3> QED  BY <1>4, <1>7, <1>8, <2>3, <3>1, <3>3, <3>9 DEF TurnMarked
  <2> QED  BY <2>2, <2>3
<1>18. AnswersMarked(z, next, p)
  <2>1. AnswersMarked(out, sent, p)  BY <1>3, <1>4, <1>9 DEF Good, Placed
  <2> SUFFICES ASSUME NEW i \in 1..Len(z), IsAnswer(z[i])
               PROVE  i < Len(z) /\ z[i + 1].t = "completed" /\ Marked(z, next, p, z[i + 1].id, i)
    BY DEF AnswersMarked
  <2>2. PICK n \in 1..Len(out) : n = i + 1  BY <1>7
  <2>3. z[i] = out[n]  BY <1>7, <2>2
  <2>4. n < Len(out) /\ out[n + 1].t = "completed" /\ Marked(out, sent, p, out[n + 1].id, n)
    BY <2>1, <2>3 DEF AnswersMarked
  <2>5. PICK j \in 1..Len(z) : j = i + 1  BY <1>7, <2>2, <2>4
  <2>6. i < Len(z) /\ z[j] = out[n + 1]  BY <1>7, <2>2, <2>4, <2>5
  <2>7. n + 1 \in 1..Len(out) /\ n + 1 # 1  BY <1>7, <2>2, <2>4
  <2>8. PICK v \in Nat : v = out[n + 1].id
    <3>1. out[n + 1] \in Msg  BY <2>7
    <3> QED  BY <3>1 DEF Msg
  <2>9. v \in Id
    <3>1. InOut(c, "completed", v)  BY <1>4, <2>4, <2>7, <2>8 DEF InOut
    <3>2. Passed(w.cli, v)  BY <1>3, <3>1 DEF Passed
    <3> QED  BY <1>1, <3>2
  <2>10. ~ (v = m.id /\ m.t = "completed")
    BY <1>4, <1>5, <1>7, <1>16, <2>4, <2>7, <2>8 DEF Unlike
  <2>11. n >= 2 /\ n <= Len(out) + 1 /\ i = n - 1 /\ n \in Nat  BY <1>7, <2>2, <2>4
  <2>12. Marked(out, sent, p, v, n)  BY <2>4, <2>8
  <2>13. Marked(z, next, p, v, i)  BY <1>13, <2>9, <2>10, <2>11, <2>12
  <2> QED  BY <2>4, <2>5, <2>6, <2>8, <2>13
<1>19. WaitingMarked(y, next)
  <2>1. WaitingMarked(c, sent)  BY <1>3, <1>9 DEF Good, Placed
  <2> SUFFICES ASSUME NEW i \in 1..Len(Waiting(c)) PROVE next[Waiting(c)[i]] = "sent"
    BY <1>8 DEF WaitingMarked
  <2>2. PICK W \in Seq(Nat) : W = Waiting(c)  BY WaitingTyped
  <2>3. PICK v \in Nat : v = W[i]  BY <2>2
  <2>4. v \in Id /\ sent[v] = "sent"  BY <1>1, <1>3, <2>1, <2>2, <2>3 DEF WaitingMarked
  <2>5. ~ Passed(c, v)
    <3>1. PICK F, H : F = First(p, w.job) /\ H = Held(w.side, w.job)  OBVIOUS
    <3>2. PICK strict \in BOOLEAN : strict = Strict(w.side, w.job)  BY <1>1
    <3>3. PICK top \in Nat, n \in Nat : top = MaxInputs + sp.stops /\ n = Len(k)  BY <1>1
    <3>4. Line(c, F, H, n, a, st, top, strict)  BY <1>3, <3>1, <3>2, <3>3 DEF Good, InLine
    <3>5. PICK b \in Nat, l \in Nat, d \in Nat, e \in Nat :
            /\ IsRun(a, 0, Len(a)) /\ IsRun(F, Len(a), b) /\ Chain(c.out, b, l) /\ Middle(c, l, d, e)
            /\ IsRun(H, e, n) /\ Begun(st, d) /\ Behind(c, d, top, strict)
            /\ Len(a) \in Nat /\ Len(a) <= b /\ b <= l /\ l <= d /\ d <= e /\ e <= n
      BY <3>4, LineBounds, SMTT(30)
    <3>6. e <= MaxInputs  BY <1>1, <3>3, <3>5
    <3>7. ~ Passed(c, Waiting(c)[i])  BY <3>5, <3>6, WaitingNew
    <3> QED  BY <2>2, <2>3, <3>7
  <2>6. v # m.id \/ (m.t # "completed" /\ m.t # "started")
    <3> SUFFICES ASSUME v = m.id, m.t \in {"completed", "started"} PROVE FALSE  OBVIOUS
    <3>1. InOut(c, m.t, v)  BY <1>4, <1>5, <1>7 DEF InOut
    <3> QED  BY <2>5, <3>1 DEF Passed
  <2>7. next[v] = sent[v]  BY <1>11, <2>4, <2>6
  <2> QED  BY <2>2, <2>3, <2>4, <2>7
<1>20. PumpMarked(z, x.side, p, x.job)  BY DEF PumpMarked
<1>21. Carried(y, next, x.job)
  <2>1. Carried(c, sent, w.job)  BY <1>3, <1>9 DEF Good, Placed
  <2> SUFFICES ASSUME NEW v \in Id, next[v] # "no", x.job.by # "mid"
               PROVE  InWaiting(y, v) \/ InTurn(y, v) \/ InOut(y, "completed", v)
    BY DEF Carried
  <2>2. sent[v] # "no"  BY <1>11
  <2>3. InWaiting(c, v) \/ InTurn(c, v) \/ InOut(c, "completed", v)  BY <2>1, <2>2 DEF Carried
  <2>4. ASSUME InOut(c, "completed", v) PROVE InOut(y, "completed", v)
    <3>1. PICK i \in 1..Len(out) : out[i].t = "completed" /\ out[i].id = v  BY <1>4, <2>4 DEF InOut
    <3>2. i # 1  BY <1>5, <1>11, <3>1
    <3>3. i - 1 \in 1..Len(z) /\ z[i - 1] = out[i]  BY <1>7, <3>2
    <3> QED  BY <1>4, <3>1, <3>3 DEF InOut
  <2> QED  BY <1>7, <2>3, <2>4
<1>22. SeenKnown(y, x.side)  BY DEF SeenKnown
<1>23. NoAnswer(out) => NoAnswer(z)
  <2> SUFFICES ASSUME NoAnswer(out), NEW i \in 1..Len(z) PROVE ~ IsAnswer(z[i])  BY DEF NoAnswer
  <2>1. PICK j \in 1..Len(out) : j = i + 1  BY <1>7
  <2>2. z[i] = out[j]  BY <1>7, <2>1
  <2> QED  BY <2>2 DEF NoAnswer
<1>24. (NoneKept(sent) => NoneKept(next)) /\ (NoneHeld(sent) => NoneHeld(next))
  BY <1>11 DEF NoneKept, NoneHeld
<1>25. JobKnown(x.side, x.job, y)
  <2>1. JobKnown(w.side, w.job, c)  BY <1>3 DEF Good, Placed
  <2>2. Idle(c) => Idle(y)  BY <1>4, <1>8, <1>23 DEF Idle
  <2> QED  BY <1>9, <1>24, <2>1, <2>2 DEF JobKnown
<1>26. StopKnown(x.side, x.job, p, y, sp)
  <2>1. StopKnown(w.side, w.job, p, c, sp)  BY <1>3 DEF Good, Placed
  <2>2. ASSUME NEW n \in 1..Len(out), IsAnswer(out[n]), \A i \in 1..Len(out) : IsAnswer(out[i]) => i = n
        PROVE  \E j \in 1..Len(z) : IsAnswer(z[j]) /\ \A i \in 1..Len(z) : IsAnswer(z[i]) => i = j
    <3>1. n # 1  BY <1>5, <1>10, <2>2
    <3>2. PICK j \in 1..Len(z) : j = n - 1 /\ z[j] = out[n]
      <4>1. n - 1 \in 1..Len(z) /\ z[n - 1] = out[n]  BY <1>7, <3>1
      <4> QED  BY <4>1
    <3>3. ASSUME NEW i \in 1..Len(z), IsAnswer(z[i]) PROVE i = j
      <4>1. PICK o \in 1..Len(out) : o = i + 1  BY <1>7
      <4>2. z[i] = out[o]  BY <1>7, <4>1
      <4>3. o = n  BY <2>2, <3>3, <4>2
      <4> QED  BY <3>2, <4>1, <4>3
    <3> QED  BY <2>2, <3>2, <3>3
  <2>3. w.side.stopping => \/ c.turn.stage = "stopped" /\ NoAnswer(z)
                           \/ /\ c.turn.stage = "none"
                              /\ \E j \in 1..Len(z) : IsAnswer(z[j]) /\ \A i \in 1..Len(z) : IsAnswer(z[i]) => i = j
    BY <1>4, <1>23, <2>1, <2>2 DEF StopKnown
  <2>4. Strict(x.side, x.job) <=> Strict(w.side, w.job)  BY DEF Strict
  <2> QED  BY <1>4, <1>8, <1>9, <1>24, <2>1, <2>3, <2>4 DEF StopKnown
<1>27. Placed(x, p, sp)
  BY <1>3, <1>4, <1>9, <1>16, <1>17, <1>18, <1>19, <1>20, <1>21, <1>22, <1>25, <1>26 DEF Placed
<1> QED  BY <1>14, <1>15, <1>27 DEF Good

LEMMA HandledIs ==
  ASSUME SessionInv, NEW h, h = Handled, cli.out # <<>>
  PROVE  /\ h \in Worlds /\ h.side = side /\ h.job = job /\ Takes(cli, h.cli)
         /\ h.cli \in Cli /\ Head(cli.out) \in Msg
<1>1. World \in Worlds /\ World.side = side /\ World.cli = cli /\ World.job = job
      /\ side \in Side /\ cli \in Cli /\ job \in Job
  BY InvHolds
<1>2. PICK out \in Seq(Msg) : out = cli.out  BY <1>1 DEF Cli
<1>3. Tail(out) \in Seq(Msg) /\ Head(out) \in Msg
  <2>1. out # <<>>  BY <1>2
  <2> QED  BY <2>1, TailIs
<1>4. PICK z \in Seq(Msg) : z = Tail(out)  BY <1>3
<1>5. PICK y : y = [cli EXCEPT !.out = z]  OBVIOUS
<1>6. /\ y \in Cli /\ y.out = z /\ y.turn = cli.turn /\ y.stopped = cli.stopped /\ y.pulled = cli.pulled
      /\ y.before = cli.before /\ y.input = cli.input
  BY <1>1, <1>5 DEF Cli
<1>7. Takes(cli, y)
  <2>1. Waiting(y) = Waiting(cli)  BY <1>6 DEF Waiting
  <2> QED  BY <1>2, <1>4, <1>6, <2>1 DEF Takes
<1>8. PICK u : u = World  OBVIOUS
<1>9. h = [u EXCEPT !.cli = [u.cli EXCEPT !.out = Tail(u.cli.out)]]  BY <1>8 DEF Handled
<1>10. u \in Worlds /\ u.side = side /\ u.cli = cli /\ u.job = job  BY <1>1, <1>8
<1>11. h = [u EXCEPT !.cli = y]  BY <1>2, <1>4, <1>5, <1>9, <1>10
<1>12. h \in Worlds /\ h.side = side /\ h.cli = y /\ h.job = job  BY <1>6, <1>10, <1>11 DEF Worlds
<1> QED  BY <1>2, <1>3, <1>6, <1>7, <1>12

\* What the session is with the message taken and its lifecycle heard.
HearsLifecycle(w) ==
  /\ Becomes(Advance(w, TRUE)) /\ w.cli = Handled.cli /\ w.job = job
  /\ Hears(side.sent, w.side.sent, Head(cli.out)) /\ w.side.seen
  /\ w.side.inputs = side.inputs /\ w.side.compacting = side.compacting
  /\ w.side.stopping = side.stopping /\ w.side.advancing = side.advancing /\ w.side.closed = side.closed
  /\ w.side.last = side.last /\ w.side.floor = side.floor /\ w.side.due = side.due

LEMMA LifecycleHeard ==
  ASSUME SessionInv, OnLifecycle
  PROVE  \E w \in Worlds : HearsLifecycle(w)
<1>1. World \in Worlds /\ World.side = side /\ World.cli = cli /\ World.job = job
      /\ side \in Side /\ cli \in Cli /\ job \in Job
  BY InvHolds
<1>2. cli.out # <<>>  BY DEF OnLifecycle, PumpTakes
<1>3. PICK h : h = Handled  OBVIOUS
<1>4. /\ h \in Worlds /\ h.side = side /\ h.job = job /\ Head(cli.out) \in Msg
  BY <1>2, <1>3, HandledIs
<1>5. PICK m \in Msg : m = Message  BY <1>4 DEF Message
<1>6. PICK id \in Nat : id = m.id  BY DEF Msg
<1>7. PICK sent \in [Id -> Marks] : sent = side.sent
  <2>1. side.sent \in [Id -> Marks]  BY <1>1 DEF Side
  <2> QED  BY <2>1
<1>8. PICK now : now = IF sent[id] = "no" \/ m.t = "completed" THEN "no"
                       ELSE IF m.t = "started" THEN "started" ELSE sent[id]
  OBVIOUS
<1>9. PICK next : next = [sent EXCEPT ![id] = now]  OBVIOUS
<1>10. m.t \in {"queued", "started", "completed"}  BY <1>5 DEF OnLifecycle
<1>11. Hears(sent, next, m)
  <2>1. CASE id \in Id
    <3>1. now \in Marks  BY <1>8, <2>1 DEF Marks
    <3>2. next \in [Id -> Marks] /\ next[id] = now /\ \A v \in Id : v # id => next[v] = sent[v]
      BY <1>9, <2>1, <3>1
    <3>3. CASE m.t = "completed"  BY <1>6, <1>8, <3>2, <3>3 DEF Hears
    <3>4. CASE m.t = "started"  BY <1>6, <1>8, <3>2, <3>4 DEF Hears
    <3>5. CASE m.t = "queued"
      <4>1. now = sent[id]  BY <1>8, <3>5
      <4> QED  BY <1>6, <3>2, <3>5, <4>1 DEF Hears
    <3> QED  BY <1>10, <3>3, <3>4, <3>5
  <2>2. CASE id \notin Id
    <3>1. next = sent  BY <1>9, <2>2
    <3> QED  BY <1>6, <2>2, <3>1 DEF Hears
  <2> QED  BY <2>1, <2>2
<1>12. PICK s : s = [side EXCEPT !.seen = TRUE, !.sent = next]  OBVIOUS
<1>13. /\ s \in Side /\ s.seen /\ s.sent = next /\ s.inputs = side.inputs /\ s.compacting = side.compacting
       /\ s.stopping = side.stopping /\ s.advancing = side.advancing /\ s.closed = side.closed
       /\ s.last = side.last /\ s.floor = side.floor /\ s.due = side.due
  <2>1. next \in [Id -> Marks]  BY <1>11 DEF Hears
  <2> QED  BY <1>1, <1>12, <2>1 DEF Side
<1>14. PICK w : w = [h EXCEPT !.side = s]  OBVIOUS
<1>15. w \in Worlds /\ w.side = s /\ w.cli = h.cli /\ w.job = h.job  BY <1>4, <1>13, <1>14, SideIs
<1>16. PICK v : v = [Handled EXCEPT !.side.seen = TRUE, !.side.sent[id] = now]  OBVIOUS
<1>17. v = w
  <2>1. h.side.sent = sent /\ h \in [{"side", "cli", "job"} -> UNION {Side, Cli, Job}] /\ h.side \in Side
    BY <1>1, <1>4, <1>7 DEF Worlds
  <2>2. v = [h EXCEPT !.side.seen = TRUE, !.side.sent[id] = now]  BY <1>3, <1>16
  <2>3. v = [h EXCEPT !.side = [side EXCEPT !.seen = TRUE, !.sent = next]]
    BY <1>1, <1>4, <1>7, <1>9, <2>2 DEF Worlds, Side
  <2> QED  BY <1>12, <1>14, <2>3
<1>18. Becomes(Advance(w, TRUE))
  <2>1. Becomes(Advance([Handled EXCEPT !.side.seen = TRUE, !.side.sent[id] = now], TRUE))
    BY <1>5, <1>6, <1>7, <1>8 DEF OnLifecycle
  <2> QED  BY <1>16, <1>17, <2>1
<1>19. Hears(side.sent, w.side.sent, Head(cli.out))  BY <1>5, <1>7, <1>11, <1>13, <1>15 DEF Message
<1>20. HearsLifecycle(w)  BY <1>3, <1>4, <1>13, <1>15, <1>18, <1>19 DEF HearsLifecycle
<1> QED  BY <1>15, <1>20

LEMMA OnLifecycleKeeps ==
  ASSUME SessionInv, ~ side.closed, OnLifecycle
  PROVE  SessionInv'
<1>1. /\ Good(World, kinds, pump, answers, started, spent) /\ Awake(side) /\ World \in Worlds
      /\ World.side = side /\ World.cli = cli /\ World.job = job
  BY InvHolds
<1>2. PICK u, k, p, a, st, sp : u = World /\ k = kinds /\ p = pump /\ a = answers /\ st = started /\ sp = spent
  OBVIOUS
<1>3. /\ kinds' = k /\ pump' = p /\ answers' = a /\ started' = st /\ spent' = sp /\ read' \in BOOLEAN
      /\ pump = NoMessage /\ cli.out # <<>>
  BY <1>1, <1>2 DEF OnLifecycle, PumpTakes, SessionInv
<1>4. Good(u, k, p, a, st, sp) /\ u.side = side /\ u.cli = cli /\ u.job = job  BY <1>1, <1>2
<1>5. PICK h : h = Handled  OBVIOUS
<1>6. Takes(cli, h.cli)  BY <1>3, <1>5, HandledIs
<1>7. PICK w \in Worlds : HearsLifecycle(w)  BY LifecycleHeard
<1>8. PICK x : x = Advance(w, TRUE)  OBVIOUS
<1>9. Becomes(x)  BY <1>7, <1>8 DEF HearsLifecycle
<1>10. Good(w, k, p, a, st, sp)
  <2>1. p.t = "none"  BY <1>2, <1>3 DEF NoMessage
  <2>2. Takes(u.cli, w.cli) /\ Hears(u.side.sent, w.side.sent, Head(u.cli.out)) /\ w.job = u.job
    BY <1>4, <1>5, <1>6, <1>7 DEF HearsLifecycle
  <2>3. ~ IsAnswer(Head(u.cli.out))  BY <1>4 DEF OnLifecycle, Message, IsAnswer
  <2>4. /\ w.side.inputs = u.side.inputs /\ w.side.compacting = u.side.compacting
        /\ w.side.stopping = u.side.stopping /\ w.side.advancing = u.side.advancing /\ w.side.seen
    BY <1>4, <1>7 DEF HearsLifecycle
  <2> QED  BY <1>4, <1>7, <2>1, <2>2, <2>3, <2>4, HandleKeeps
<1>11. Good(x, k, p, a, st, sp) /\ Awake(x.side)
  <2>1. ~ w.side.closed  BY <1>7 DEF HearsLifecycle
  <2> QED  BY <1>3, <1>7, <1>8, <1>10, <2>1, AdvanceKeeps
<1> QED  BY <1>3, <1>9, <1>11, InvThen

LEMMA OnAssistantKeeps ==
  ASSUME SessionInv, ~ side.closed, OnAssistant
  PROVE  SessionInv'
<1>1. /\ Good(World, kinds, pump, answers, started, spent) /\ Awake(side) /\ World \in Worlds
      /\ World.side = side /\ World.cli = cli /\ World.job = job
      /\ side \in Side /\ cli \in Cli /\ job \in Job
  BY InvHolds
<1>2. PICK u, k, p, a, st, sp : u = World /\ k = kinds /\ p = pump /\ a = answers /\ st = started /\ sp = spent
  OBVIOUS
<1>3. /\ kinds' = k /\ pump' = p /\ answers' = a /\ started' = st /\ spent' = sp /\ read' \in BOOLEAN
      /\ pump = NoMessage /\ cli.out # <<>>
  BY <1>1, <1>2 DEF OnAssistant, PumpTakes, SessionInv
<1>4. Good(u, k, p, a, st, sp) /\ u.side = side /\ u.cli = cli /\ u.job = job  BY <1>1, <1>2
<1>5. PICK h : h = Handled  OBVIOUS
<1>6. /\ h \in Worlds /\ h.side = side /\ h.job = job /\ Takes(cli, h.cli)
      /\ h.cli \in Cli /\ Head(cli.out) \in Msg
  BY <1>3, <1>5, HandledIs
<1>7. PICK m \in Msg : m = Message  BY <1>6 DEF Message
<1>8. m.t = "assistant" /\ m.n \in Nat  BY <1>7 DEF OnAssistant, Msg
<1>9. PICK floor \in Int : floor = IF side.floor = Unread THEN m.n ELSE side.floor
  <2>1. side.floor \in Int  BY <1>1 DEF Side
  <2>2. (IF side.floor = Unread THEN m.n ELSE side.floor) \in Int  BY <1>8, <2>1
  <2> QED  BY <2>2
<1>10. PICK s : s = [side EXCEPT !.turnOpen = TRUE, !.last = m.n, !.floor = floor]  OBVIOUS
<1>11. s \in Side /\ MarksSame(side, s) /\ s.inputs = side.inputs /\ s.closed = side.closed
       /\ s.inputEnded = side.inputEnded
  BY <1>1, <1>8, <1>10 DEF Side, MarksSame
<1>12. side.seen
  <2> SUFFICES ASSUME ~ side.seen PROVE FALSE  OBVIOUS
  <2>1. cli.out[1].t = "queued"  BY <1>3, <1>4 DEF Good, Placed, SeenKnown
  <2>2. PICK out \in Seq(Msg) : out = cli.out  BY <1>1 DEF Cli
  <2>3. Head(out) = out[1]  BY <1>3, <2>2, TailIs
  <2> QED  BY <1>7, <1>8, <2>1, <2>2, <2>3 DEF Message
<1>13. PICK w : w = [h EXCEPT !.side = s]  OBVIOUS
<1>14. w \in Worlds /\ w.side = s /\ w.cli = h.cli /\ w.job = h.job  BY <1>6, <1>11, <1>13, SideIs
<1>15. w = [Handled EXCEPT !.side.turnOpen = TRUE, !.side.last = Message.n,
                           !.side.floor = IF @ = Unread THEN Message.n ELSE @]
  BY <1>1, <1>5, <1>6, <1>7, <1>9, <1>10, <1>13 DEF Worlds, Side
<1>16. Becomes(w)  BY <1>15 DEF OnAssistant
<1>17. PICK sent : sent = side.sent  OBVIOUS
<1>18. Hears(sent, sent, m)
  <2>1. sent \in [Id -> Marks]  BY <1>1, <1>17 DEF Side
  <2> QED  BY <1>8, <2>1 DEF Hears
<1>19. Good(w, k, p, a, st, sp)
  <2>1. p.t = "none"  BY <1>2, <1>3 DEF NoMessage
  <2>2. Takes(u.cli, w.cli) /\ Hears(u.side.sent, w.side.sent, Head(u.cli.out)) /\ w.job = u.job
    BY <1>4, <1>6, <1>7, <1>11, <1>14, <1>17, <1>18 DEF Message, MarksSame
  <2>3. ~ IsAnswer(Head(u.cli.out))  BY <1>4, <1>7, <1>8 DEF Message, IsAnswer
  <2>4. /\ w.side.inputs = u.side.inputs /\ w.side.compacting = u.side.compacting
        /\ w.side.stopping = u.side.stopping /\ w.side.advancing = u.side.advancing /\ w.side.seen
    BY <1>4, <1>11, <1>12, <1>14 DEF MarksSame
  <2> QED  BY <1>4, <1>14, <2>1, <2>2, <2>3, <2>4, HandleKeeps
<1>20. Awake(w.side)  BY <1>1, <1>11, <1>14 DEF Awake, MarksSame
<1> QED  BY <1>3, <1>16, <1>19, <1>20, InvThen

\* A result goes from the stream to where it is about to be answered.
LEMMA LineAnswer ==
  ASSUME NEW c \in Cli, NEW y \in Cli, Takes(c, y), NEW labels, labels = Head(c.out).labels,
         NEW F, F = <<>>, NEW H, NEW n \in Nat, NEW a, NEW st, NEW top \in Nat,
         NEW strict \in BOOLEAN, NEW then \in BOOLEAN, then => strict,
         Line(c, F, H, n, a, st, top, strict)
  PROVE  Line(y, labels, H, n, a, st, top, then)
<1>1. PICK b \in Nat, l \in Nat, d \in Nat, e \in Nat :
        /\ IsRun(a, 0, Len(a)) /\ IsRun(F, Len(a), b) /\ Chain(c.out, b, l) /\ Middle(c, l, d, e)
        /\ IsRun(H, e, n) /\ Begun(st, d) /\ Behind(c, d, top, strict)
  BY DEF Line
<1>2. y.out = Tail(c.out) /\ c.out # <<>> /\ y.turn = c.turn /\ y.stopped = c.stopped /\ Waiting(y) = Waiting(c)
  BY DEF Takes
<1>3. c.out \in Seq(Msg)  BY DEF Cli
<1>4. PICK q \in Nat : IsRun(Head(c.out).labels, b, q) /\ Chain(Tail(c.out), q, l)  BY <1>1, <1>2, <1>3, ChainTail
<1>5. b = Len(a)
  <2>1. IsRun(F, Len(a), b)  BY <1>1
  <2>2. Len(a) \in Nat  BY <1>1 DEF IsRun
  <2>3. F = <<>> /\ IsRun(<<>>, Len(a), b)  BY <2>1
  <2> QED  BY <2>2, <2>3, EmptyRun
<1>6. (\A v : Passed(y, v) => Passed(c, v)) /\ (NoteWaits(y) <=> NoteWaits(c))  BY TakenIs
<1>7. Middle(y, l, d, e)  BY <1>1, <1>2, <1>6 DEF Middle
<1>8. Behind(y, d, top, then)  BY <1>1, <1>2, <1>6 DEF Behind
<1>9. IsRun(labels, Len(a), q)  BY <1>4, <1>5
<1> QED  BY <1>1, <1>2, <1>4, <1>7, <1>8, <1>9 DEF Line

\* What a result at the front of the stream says.
LEMMA AnswerFirst ==
  ASSUME NEW w, NEW k, NEW p, NEW a, NEW st, NEW sp, Good(w, k, p, a, st, sp),
         w.cli.out # <<>>, IsAnswer(Head(w.cli.out))
  PROVE  /\ w.job.by = "none" /\ w.job = NoJob /\ ~ w.side.compacting /\ ~ w.side.advancing /\ w.side.seen
         /\ IsAnswer(w.cli.out[1]) /\ 1 \in 1..Len(w.cli.out)
         /\ w.side.stopping =>
              /\ Waiting(w.cli) = <<>> /\ NoneHeld(w.side.sent) /\ w.cli.turn = NoTurn /\ p.t = "none"
              /\ sp.stops > 0
              /\ \A i \in 1..Len(w.cli.out) : IsAnswer(w.cli.out[i]) => i = 1
<1>1. w \in Worlds /\ w.cli \in Cli  BY GoodIds
<1>2. PICK c \in Cli : c = w.cli  BY <1>1
<1>3. PICK out \in Seq(Msg) : out = c.out  BY DEF Cli
<1>4. out # <<>> /\ IsAnswer(Head(out))  BY <1>2, <1>3
<1>5. Head(out) = out[1] /\ 1 \in 1..Len(out)  BY <1>4, TailIs
<1>6. IsAnswer(out[1]) /\ ~ NoAnswer(out)  BY <1>4, <1>5 DEF NoAnswer
<1>7. w.job.by = "none" /\ w.job = NoJob
  <2>1. ~ Idle(w.cli)  BY <1>2, <1>3, <1>6 DEF Idle
  <2> QED  BY <2>1, BusyCli
<1>8. w.side \in Side  BY <1>1, TypesOf
<1>9. ~ w.side.compacting /\ ~ w.side.advancing
  <2>1. JobKnown(w.side, w.job, w.cli)  BY DEF Good, Placed
  <2> QED  BY <1>7, <2>1 DEF JobKnown
<1>10. w.side.seen
  <2> SUFFICES ASSUME ~ w.side.seen PROVE FALSE  OBVIOUS
  <2>1. c.out[1].t = "queued"  BY <1>2, <1>3, <1>4 DEF Good, Placed, SeenKnown
  <2> QED  BY <1>3, <1>6, <2>1 DEF IsAnswer
<1>11. ASSUME w.side.stopping
       PROVE  /\ Waiting(c) = <<>> /\ NoneHeld(w.side.sent) /\ c.turn = NoTurn /\ p.t = "none" /\ sp.stops > 0
              /\ \A i \in 1..Len(out) : IsAnswer(out[i]) => i = 1
  <2>1. StopKnown(w.side, w.job, p, c, sp) /\ TurnMarked(c, w.side.sent, p)  BY <1>2 DEF Good, Placed
  <2>2. /\ Waiting(c) = <<>> /\ p.t = "none" /\ NoneHeld(w.side.sent) /\ c.turn.stage = "none" /\ sp.stops > 0
        /\ \E n \in 1..Len(out) : IsAnswer(out[n]) /\ \A m \in 1..Len(out) : IsAnswer(out[m]) => m = n
    BY <1>3, <1>6, <1>11, <2>1 DEF StopKnown, Strict
  <2>3. PICK n \in 1..Len(out) : IsAnswer(out[n]) /\ \A m \in 1..Len(out) : IsAnswer(out[m]) => m = n  BY <2>2
  <2>4. 1 = n  BY <1>5, <1>6, <2>3
  <2>5. c.turn = NoTurn  BY <2>1, <2>2 DEF TurnMarked
  <2>6. \A i \in 1..Len(out) : IsAnswer(out[i]) => i = 1  BY <2>3, <2>4
  <2> QED  BY <2>2, <2>5, <2>6
<1> QED  BY <1>2, <1>3, <1>5, <1>6, <1>7, <1>9, <1>10, <1>11

\* The result of a turn the hook stopped begins a compact: nothing else is on its way.
LEMMA MidKeeps ==
  ASSUME NEW w, NEW k, NEW p, NEW a, NEW st, NEW sp, Good(w, k, p, a, st, sp), NEW x \in Worlds,
         p = NoMessage, Takes(w.cli, x.cli), IsAnswer(Head(w.cli.out)), w.side.stopping,
         x.side.sent = w.side.sent, x.side.seen = w.side.seen, x.side.inputs = w.side.inputs,
         x.side.compacting, ~ x.side.stopping, x.side.advancing = w.side.advancing,
         x.job.by = "mid", x.job.pump, x.job.labels = Head(w.cli.out).labels
  PROVE  Good(x, k, p, a, st, sp)
<1>1. /\ w \in Worlds /\ w.cli \in Cli /\ w.side \in Side /\ Len(k) \in Nat
      /\ MaxInputs + sp.stops \in Nat /\ Strict(w.side, w.job) \in BOOLEAN
  BY GoodIds
<1>2. x.cli \in Cli /\ x.side \in Side /\ x.job \in Job  BY TypesOf
<1>3. PICK c \in Cli, y \in Cli : c = w.cli /\ y = x.cli  BY <1>1, <1>2
<1>4. PICK out \in Seq(Msg), z \in Seq(Msg) : out = c.out /\ z = y.out
  <2>1. c.out \in Seq(Msg) /\ y.out \in Seq(Msg)  BY DEF Cli
  <2> QED  BY <2>1
<1>5. Takes(c, y)  BY <1>3
<1>6. out # <<>>  BY <1>4, <1>5 DEF Takes
<1>7. /\ w.job.by = "none" /\ ~ w.side.compacting /\ ~ w.side.advancing /\ w.side.seen
      /\ Waiting(c) = <<>> /\ NoneHeld(w.side.sent) /\ c.turn = NoTurn /\ p.t = "none"
      /\ sp.stops > 0
      /\ \A i \in 1..Len(out) : IsAnswer(out[i]) => i = 1
  BY <1>3, <1>4, <1>6, AnswerFirst
<1>8. /\ Len(z) \in Nat /\ Len(out) \in Nat
      /\ \A i \in 1..Len(z) : i + 1 \in 1..Len(out) /\ z[i] = out[i + 1]
  <2>1. /\ Len(y.out) \in Nat /\ Len(c.out) \in Nat
        /\ \A i \in 1..Len(y.out) : i + 1 \in 1..Len(c.out) /\ y.out[i] = c.out[i + 1]
    BY <1>5, TakenIs
  <2> QED  BY <1>4, <2>1
<1>9. NoAnswer(z)
  <2> SUFFICES ASSUME NEW i \in 1..Len(z) PROVE ~ IsAnswer(z[i])  BY DEF NoAnswer
  <2>1. PICK j \in 1..Len(out) : j = i + 1  BY <1>8
  <2>2. z[i] = out[j] /\ j # 1  BY <1>8, <2>1
  <2> QED  BY <1>7, <2>2
<1>10. y.turn = NoTurn /\ Waiting(y) = <<>>  BY <1>5, <1>7 DEF Takes
<1>11. Idle(y)  BY <1>4, <1>9, <1>10 DEF Idle, NoTurn
<1>12. Shaped(x, k, p, sp)
  <2>0. \A i \in 1..Len(out) : ~ IsAnswer(out[i]) => out[i].labels = <<>>
    BY <1>3, <1>4 DEF Good, Shaped, MessagesKnown
  <2>1. ASSUME NEW i \in 1..Len(z), ~ IsAnswer(z[i]) PROVE z[i].labels = <<>>
    <3>1. PICK j \in 1..Len(out) : j = i + 1  BY <1>8
    <3>2. z[i] = out[j]  BY <1>8, <3>1
    <3> QED  BY <2>0, <2>1, <3>2
  <2> QED  BY <1>3, <1>4, <2>1 DEF Good, Shaped, MessagesKnown
<1>13. InLine(x, k, p, a, st, sp)
  <2>0. PICK F, H, labels : F = First(p, w.job) /\ H = Held(w.side, w.job) /\ labels = Head(c.out).labels  OBVIOUS
  <2>1. PICK strict \in BOOLEAN : strict = Strict(w.side, w.job)  BY <1>1
  <2>2. PICK top \in Nat, n \in Nat : top = MaxInputs + sp.stops /\ n = Len(k)  BY <1>1
  <2>3. Line(c, F, H, n, a, st, top, strict)  BY <1>3, <2>0, <2>1, <2>2 DEF Good, InLine
  <2>4. F = <<>>  BY <1>7, <2>0 DEF First, NoMessage
  <2>5. strict  BY <2>1 DEF Strict
  <2>6. Line(y, labels, H, n, a, st, top, strict)  BY <1>5, <2>0, <2>3, <2>4, LineAnswer
  <2>7. labels = First(p, x.job) /\ H = Held(x.side, x.job)
    BY <1>3, <1>7, <2>0 DEF First, Held
  <2>8. Strict(x.side, x.job) = strict  BY <2>5 DEF Strict
  <2> QED  BY <1>3, <2>2, <2>6, <2>7, <2>8 DEF InLine
<1>14. Unlike(y)
  <2>1. Unlike(c)  BY <1>3 DEF Good, Placed
  <2> QED  BY <1>5, <2>1, UnlikeTake
<1>15. TurnMarked(y, x.side.sent, p)  BY <1>10 DEF TurnMarked, NoTurn
<1>16. AnswersMarked(z, x.side.sent, p)  BY <1>9 DEF AnswersMarked, NoAnswer
<1>17. WaitingMarked(y, x.side.sent)  BY <1>10 DEF WaitingMarked
<1>18. PumpMarked(z, x.side, p, x.job)  BY <1>7 DEF PumpMarked
<1>19. Carried(y, x.side.sent, x.job)  BY DEF Carried
<1>20. SeenKnown(y, x.side)  BY <1>7 DEF SeenKnown
<1>21. JobKnown(x.side, x.job, y)  BY <1>7, <1>11 DEF JobKnown
<1>22. StopKnown(x.side, x.job, p, y, sp)  BY <1>7 DEF StopKnown
<1>23. Placed(x, p, sp)
  BY <1>3, <1>4, <1>14, <1>15, <1>16, <1>17, <1>18, <1>19, <1>20, <1>21, <1>22 DEF Placed
<1> QED  BY <1>12, <1>13, <1>23 DEF Good

\* Another result goes to the pump.
LEMMA PumpKeeps ==
  ASSUME NEW w, NEW k, NEW p, NEW a, NEW st, NEW sp, Good(w, k, p, a, st, sp), NEW x \in Worlds,
         p = NoMessage, Takes(w.cli, x.cli), NEW m \in Msg, m = Head(w.cli.out), IsAnswer(m),
         x.side.sent = w.side.sent, x.side.seen = w.side.seen, x.side.inputs = w.side.inputs,
         x.side.compacting = w.side.compacting, ~ x.side.stopping, x.side.advancing = w.side.advancing,
         x.job = w.job
  PROVE  Good(x, k, m, a, st, sp) /\ ~ NoneKept(x.side.sent)
<1>1. /\ w \in Worlds /\ w.cli \in Cli /\ w.side \in Side /\ w.job \in Job /\ Len(k) \in Nat
      /\ MaxInputs + sp.stops \in Nat /\ Strict(w.side, w.job) \in BOOLEAN
      /\ \A v \in Nat : Passed(w.cli, v) => v \in Id
  BY GoodIds
<1>2. x.cli \in Cli /\ x.side \in Side /\ x.job \in Job  BY TypesOf
<1>3. PICK c \in Cli, y \in Cli : c = w.cli /\ y = x.cli  BY <1>1, <1>2
<1>4. PICK out \in Seq(Msg), z \in Seq(Msg), ids \in Seq(Nat) : out = c.out /\ z = y.out /\ ids = c.turn.uuids
  <2>1. c.out \in Seq(Msg) /\ y.out \in Seq(Msg) /\ c.turn.uuids \in Seq(Nat)  BY DEF Cli, Turn
  <2> QED  BY <2>1
<1>5. Takes(c, y)  BY <1>3
<1>6. /\ y.turn = c.turn /\ y.stopped = c.stopped /\ Waiting(y) = Waiting(c) /\ out # <<>>
  BY <1>4, <1>5 DEF Takes
<1>7. /\ Len(out) \in Nat /\ Len(z) \in Nat /\ Len(out) = Len(z) + 1 /\ 1 \in 1..Len(out)
      /\ (\A i \in 1..Len(z) : i + 1 \in 1..Len(out) /\ z[i] = out[i + 1])
      /\ (\A i \in 1..Len(out) : i = 1 \/ (i - 1 \in 1..Len(z) /\ z[i - 1] = out[i]))
      /\ (\A v : (InTurn(y, v) <=> InTurn(c, v)) /\ (InWaiting(y, v) <=> InWaiting(c, v)))
      /\ (NoteWaits(y) <=> NoteWaits(c))
  <2>1. /\ Len(c.out) \in Nat /\ Len(y.out) \in Nat /\ Len(c.out) = Len(y.out) + 1 /\ 1 \in 1..Len(c.out)
        /\ Head(c.out) = c.out[1] /\ c.out[1] \in Msg
        /\ \A i \in 1..Len(y.out) : i + 1 \in 1..Len(c.out) /\ y.out[i] = c.out[i + 1]
        /\ \A i \in 1..Len(c.out) : i = 1 \/ (i - 1 \in 1..Len(y.out) /\ y.out[i - 1] = c.out[i])
        /\ \A v : Passed(y, v) => Passed(c, v)
        /\ \A v : (InTurn(y, v) <=> InTurn(c, v)) /\ (InWaiting(y, v) <=> InWaiting(c, v))
        /\ (NoteWaits(y) <=> NoteWaits(c))
    BY <1>5, TakenIs
  <2> QED  BY <1>4, <2>1
<1>8. PICK sent : sent = w.side.sent  OBVIOUS
<1>9. /\ w.job.by = "none" /\ w.job = NoJob /\ ~ w.side.compacting /\ ~ w.side.advancing /\ w.side.seen
      /\ IsAnswer(out[1])
  BY <1>3, <1>4, <1>6, AnswerFirst
<1>10. m.t \in {"result", "hook_stopped"}  BY DEF IsAnswer
\* Behind this result no start was heard.
<1>11. ASSUME NEW v, NEW n \in Nat, n >= 2, n <= Len(out) + 1, Marked(out, sent, p, v, n), NEW q, q = n - 1
       PROVE  Marked(z, sent, m, v, q)
  <2>1. sent[v] # "no" /\ (sent[v] = "started" => \A i \in 1..n - 1 : ~ IsAnswer(out[i]))  BY <1>11 DEF Marked
  <2>2. 1 \in 1..n - 1  BY <1>11
  <2>3. sent[v] # "started"  BY <1>9, <2>1, <2>2
  <2>4. Marked(c.out, sent, p, v, n) /\ n <= Len(c.out) + 1  BY <1>4, <1>11
  <2>5. sent[v] = "started" => m.t = "none" /\ \A i \in 2..n - 1 : ~ IsAnswer(c.out[i])  BY <2>3
  <2>7. PICK next, r : next = sent /\ r = m  OBVIOUS
  <2>8. next[v] # "no" /\ (next[v] = "started" => r.t = "none" /\ \A i \in 2..n - 1 : ~ IsAnswer(c.out[i]))
    BY <2>1, <2>3, <2>7
  <2>9. Marked(y.out, next, r, v, q)  BY <1>5, <1>11, <2>4, <2>8, MarkedTake
  <2>6. Marked(y.out, sent, m, v, q)  BY <2>7, <2>9
  <2> QED  BY <1>4, <2>6
<1>12. Shaped(x, k, m, sp)
  <2>0. \A i \in 1..Len(out) : ~ IsAnswer(out[i]) => out[i].labels = <<>>
    BY <1>3, <1>4 DEF Good, Shaped, MessagesKnown
  <2>1. ASSUME NEW i \in 1..Len(z), ~ IsAnswer(z[i]) PROVE z[i].labels = <<>>
    <3>1. PICK j \in 1..Len(out) : j = i + 1  BY <1>7
    <3>2. z[i] = out[j]  BY <1>7, <3>1
    <3> QED  BY <2>0, <2>1, <3>2
  <2> QED  BY <1>3, <1>4, <1>10, <2>1 DEF Good, Shaped, MessagesKnown
<1>13. InLine(x, k, m, a, st, sp)
  <2>0. PICK F, H, labels : F = First(p, w.job) /\ H = Held(w.side, w.job) /\ labels = Head(c.out).labels  OBVIOUS
  <2>1. PICK strict \in BOOLEAN : strict = Strict(w.side, w.job)  BY <1>1
  <2>2. PICK top \in Nat, n \in Nat : top = MaxInputs + sp.stops /\ n = Len(k)  BY <1>1
  <2>3. Line(c, F, H, n, a, st, top, strict)  BY <1>3, <2>0, <2>1, <2>2 DEF Good, InLine
  <2>4. F = <<>>  BY <1>9, <2>0 DEF First, NoMessage
  <2>5. PICK then \in BOOLEAN : then = FALSE  OBVIOUS
  <2>6. Line(y, labels, H, n, a, st, top, then)  BY <1>5, <2>0, <2>3, <2>4, <2>5, LineAnswer
  <2>7. labels = First(m, x.job) /\ H = Held(x.side, x.job) /\ Strict(x.side, x.job) = then
    BY <1>3, <1>9, <2>0, <2>5 DEF First, Held, Strict
  <2> QED  BY <1>3, <2>2, <2>6, <2>7 DEF InLine
<1>14. Unlike(y)
  <2>1. Unlike(c)  BY <1>3 DEF Good, Placed
  <2> QED  BY <1>5, <2>1, UnlikeTake
<1>15. TurnMarked(y, sent, m)
  <2>1. TurnMarked(c, sent, p)  BY <1>3, <1>8 DEF Good, Placed
  <2>2. CASE c.turn.stage = "none"  BY <1>6, <2>1, <2>2 DEF TurnMarked
  <2>3. CASE c.turn.stage # "none"
    <3>1. ~ NoteWaits(c) /\ ids # <<>> /\ Marked(out, sent, p, ids[1], Len(out) + 1)
      BY <1>4, <2>1, <2>3 DEF TurnMarked
    <3>2. PICK v : v = ids[1]  OBVIOUS
    <3>3. PICK n \in Nat : n = Len(out) + 1  BY <1>7
    <3>4. n >= 2 /\ n <= Len(out) + 1 /\ Len(z) + 1 = n - 1 /\ Marked(out, sent, p, v, n)
      BY <1>7, <3>1, <3>2, <3>3
    <3>5. Marked(z, sent, m, v, Len(z) + 1)  BY <1>11, <3>4
    <3> QED  BY <1>4, <1>6, <1>7, <2>3, <3>1, <3>2, <3>5 DEF TurnMarked
  <2> QED  BY <2>2, <2>3
<1>16. AnswersMarked(out, sent, p)  BY <1>3, <1>4, <1>8 DEF Good, Placed
<1>17. AnswersMarked(z, sent, m)
  <2> SUFFICES ASSUME NEW i \in 1..Len(z), IsAnswer(z[i])
               PROVE  i < Len(z) /\ z[i + 1].t = "completed" /\ Marked(z, sent, m, z[i + 1].id, i)
    BY DEF AnswersMarked
  <2>2. PICK n \in 1..Len(out) : n = i + 1  BY <1>7
  <2>3. z[i] = out[n]  BY <1>7, <2>2
  <2>4. n < Len(out) /\ out[n + 1].t = "completed" /\ Marked(out, sent, p, out[n + 1].id, n)
    BY <1>16, <2>3 DEF AnswersMarked
  <2>5. PICK j \in 1..Len(z) : j = i + 1  BY <1>7, <2>2, <2>4
  <2>6. i < Len(z) /\ z[j] = out[n + 1]  BY <1>7, <2>2, <2>4, <2>5
  <2>8. PICK v : v = out[n + 1].id  OBVIOUS
  <2>11. n >= 2 /\ n <= Len(out) + 1 /\ i = n - 1 /\ n \in Nat  BY <1>7, <2>2, <2>4
  <2>12. Marked(out, sent, p, v, n)  BY <2>4, <2>8
  <2>13. Marked(z, sent, m, v, i)  BY <1>11, <2>11, <2>12
  <2> QED  BY <2>4, <2>5, <2>6, <2>8, <2>13
<1>18. WaitingMarked(y, sent)  BY <1>3, <1>6, <1>8 DEF Good, Placed, WaitingMarked
<1>19. z # <<>> /\ z[1].t = "completed" /\ sent[z[1].id] # "no" /\ z[1].id \in Id
  <2>1. 1 < Len(out) /\ out[1 + 1].t = "completed" /\ Marked(out, sent, p, out[1 + 1].id, 1)
    BY <1>7, <1>9, <1>16 DEF AnswersMarked
  <2>2. 1 \in 1..Len(z)  BY <1>7, <2>1
  <2>3. z[1] = out[1 + 1] /\ 1 + 1 \in 1..Len(out)  BY <1>7, <2>2
  <2>9. z[1] \in Msg  BY <2>2
  <2>4. PICK v \in Nat : v = z[1].id  BY <2>9 DEF Msg
  <2>5. sent[v] # "no"  BY <2>1, <2>3, <2>4 DEF Marked
  <2>6. InOut(c, "completed", v)  BY <1>4, <2>1, <2>3, <2>4 DEF InOut
  <2>7. Passed(w.cli, v)  BY <1>3, <2>6 DEF Passed
  <2>8. v \in Id  BY <1>1, <2>7
  <2> QED  BY <2>1, <2>2, <2>3, <2>4, <2>5, <2>8
<1>20. PumpMarked(z, x.side, m, x.job)  BY <1>8, <1>9, <1>19 DEF PumpMarked
<1>21. Carried(y, sent, x.job)
  <2>1. Carried(c, sent, w.job)  BY <1>3, <1>8 DEF Good, Placed
  <2> SUFFICES ASSUME NEW v \in Id, sent[v] # "no"
               PROVE  InWaiting(y, v) \/ InTurn(y, v) \/ InOut(y, "completed", v)
    BY DEF Carried
  <2>3. InWaiting(c, v) \/ InTurn(c, v) \/ InOut(c, "completed", v)  BY <1>9, <2>1 DEF Carried
  <2>4. ASSUME InOut(c, "completed", v) PROVE InOut(y, "completed", v)
    <3>1. PICK i \in 1..Len(out) : out[i].t = "completed" /\ out[i].id = v  BY <1>4, <2>4 DEF InOut
    <3>2. i # 1  BY <1>9, <3>1 DEF IsAnswer
    <3>3. i - 1 \in 1..Len(z) /\ z[i - 1] = out[i]  BY <1>7, <3>2
    <3> QED  BY <1>4, <3>1, <3>3 DEF InOut
  <2> QED  BY <1>7, <2>3, <2>4
<1>22. SeenKnown(y, x.side)  BY <1>9 DEF SeenKnown
<1>23. JobKnown(x.side, x.job, y)  BY <1>9 DEF JobKnown
<1>24. StopKnown(x.side, x.job, m, y, sp)  BY <1>9 DEF StopKnown, Strict
<1>25. Placed(x, m, sp)
  BY <1>3, <1>4, <1>8, <1>14, <1>15, <1>17, <1>18, <1>20, <1>21, <1>22, <1>23, <1>24 DEF Placed
<1>26. ~ NoneKept(x.side.sent)  BY <1>8, <1>19 DEF NoneKept
<1> QED  BY <1>12, <1>13, <1>25, <1>26 DEF Good

LEMMA OnResultKeeps ==
  ASSUME SessionInv, ~ side.closed, OnResult
  PROVE  SessionInv'
<1>1. /\ Good(World, kinds, pump, answers, started, spent) /\ Awake(side) /\ World \in Worlds
      /\ World.side = side /\ World.cli = cli /\ World.job = job
      /\ side \in Side /\ cli \in Cli /\ job \in Job
  BY InvHolds
<1>2. PICK u, k, p, a, st, sp : u = World /\ k = kinds /\ p = pump /\ a = answers /\ st = started /\ sp = spent
  OBVIOUS
<1>3. /\ kinds' = k /\ answers' = a /\ started' = st /\ spent' = sp /\ read' \in BOOLEAN
      /\ pump = NoMessage /\ p = NoMessage /\ cli.out # <<>>
  BY <1>1, <1>2 DEF OnResult, PumpTakes, SessionInv
<1>4. Good(u, k, p, a, st, sp) /\ u.side = side /\ u.cli = cli /\ u.job = job  BY <1>1, <1>2
<1>5. PICK h : h = Handled  OBVIOUS
<1>6. /\ h \in Worlds /\ h.side = side /\ h.job = job /\ Takes(cli, h.cli)
      /\ h.cli \in Cli /\ Head(cli.out) \in Msg
  BY <1>3, <1>5, HandledIs
<1>7. PICK m \in Msg : m = Message  BY <1>6 DEF Message
<1>8. IsAnswer(m) /\ m = Head(u.cli.out)  BY <1>4, <1>7 DEF OnResult, Message, IsAnswer
<1>9. PICK s : s = [side EXCEPT !.stopping = FALSE]  OBVIOUS
<1>10. /\ s \in Side /\ s.sent = side.sent /\ s.seen = side.seen /\ s.inputs = side.inputs
       /\ s.compacting = side.compacting /\ s.stopping = FALSE /\ s.advancing = side.advancing
       /\ s.closed = side.closed /\ s.inputEnded = side.inputEnded
  BY <1>1, <1>9 DEF Side
<1>11. PICK w : w = [h EXCEPT !.side = s]  OBVIOUS
<1>12. w \in Worlds /\ w.side = s /\ w.cli = h.cli /\ w.job = h.job  BY <1>6, <1>10, <1>11, SideIs
<1>13. w = [Handled EXCEPT !.side.stopping = FALSE]  BY <1>5, <1>6, <1>9, <1>11
<1>14. CASE side.stopping /\ m.t = "hook_stopped"
  <2>1. PICK x : x = Compacts(w, "mid", 0, m.labels, TRUE)  OBVIOUS
  <2>2. Becomes(x) /\ pump' = p  BY <1>2, <1>7, <1>13, <1>14, <2>1 DEF OnResult
  <2>3. PICK t, j : t = [s EXCEPT !.compacting = TRUE] /\ j = [by |-> "mid", id |-> 0, labels |-> m.labels, pump |-> TRUE]
    OBVIOUS
  <2>4. t \in Side /\ t.sent = s.sent /\ t.seen = s.seen /\ t.inputs = s.inputs /\ t.compacting = TRUE
        /\ t.stopping = FALSE /\ t.advancing = s.advancing /\ t.closed = s.closed
    BY <1>10, <2>3 DEF Side
  <2>5. j \in Job /\ j.by = "mid" /\ j.pump = TRUE /\ j.labels = m.labels
    <3>1. m.labels \in Seq(Nat)  BY DEF Msg
    <3> QED  BY <2>3, <3>1 DEF Job
  <2>6. x = [w EXCEPT !.side = t, !.job = j]  BY <1>12, <2>1, <2>3 DEF Compacts
  <2>7. x \in Worlds /\ x.side = t /\ x.cli = w.cli /\ x.job = j  BY <1>12, <2>4, <2>5, <2>6 DEF Worlds
  <2>8. Good(x, k, p, a, st, sp)
    <3>1. /\ Takes(u.cli, x.cli) /\ IsAnswer(Head(u.cli.out)) /\ u.side.stopping
          /\ x.side.sent = u.side.sent /\ x.side.seen = u.side.seen /\ x.side.inputs = u.side.inputs
          /\ x.side.compacting /\ ~ x.side.stopping /\ x.side.advancing = u.side.advancing
          /\ x.job.by = "mid" /\ x.job.pump /\ x.job.labels = Head(u.cli.out).labels
      BY <1>4, <1>6, <1>8, <1>10, <1>12, <1>14, <2>4, <2>5, <2>7
    <3> QED  BY <1>3, <1>4, <2>7, <3>1, MidKeeps
  <2>9. Awake(x.side)  BY <1>10, <2>4, <2>7 DEF Awake
  <2> QED  BY <1>3, <2>2, <2>8, <2>9, InvThen
<1>15. CASE ~ (side.stopping /\ m.t = "hook_stopped")
  <2>1. PICK t : t = [s EXCEPT !.midTurnFailed = FALSE]  OBVIOUS
  <2>2. /\ t \in Side /\ t.sent = s.sent /\ t.seen = s.seen /\ t.inputs = s.inputs /\ t.compacting = s.compacting
        /\ t.stopping = FALSE /\ t.advancing = s.advancing /\ t.closed = s.closed
    BY <1>10, <2>1 DEF Side
  <2>3. PICK x : x = [w EXCEPT !.side = t]  OBVIOUS
  <2>4. x \in Worlds /\ x.side = t /\ x.cli = w.cli /\ x.job = w.job  BY <1>12, <2>2, <2>3, SideIs
  <2>5. x = [w EXCEPT !.side.midTurnFailed = FALSE]  BY <1>12, <2>1, <2>3
  <2>6. Becomes(x) /\ pump' = m  BY <1>7, <1>13, <1>15, <2>5 DEF OnResult
  <2>7. Good(x, k, m, a, st, sp) /\ ~ NoneKept(x.side.sent)
    <3>1. /\ Takes(u.cli, x.cli)
          /\ x.side.sent = u.side.sent /\ x.side.seen = u.side.seen /\ x.side.inputs = u.side.inputs
          /\ x.side.compacting = u.side.compacting /\ ~ x.side.stopping /\ x.side.advancing = u.side.advancing
          /\ x.job = u.job
      BY <1>4, <1>6, <1>10, <1>12, <2>2, <2>4
    <3> QED  BY <1>3, <1>4, <1>8, <2>4, <3>1, PumpKeeps
  <2>8. Awake(x.side)  BY <1>10, <2>2, <2>4, <2>7 DEF Awake
  <2> QED  BY <1>3, <2>6, <2>7, <2>8, InvThen
<1> QED  BY <1>14, <1>15

\* What the end of a turn leaves of the marks: the prompts that are sent and not started.
SettlesMarks(sent, next) ==
  /\ next \in [Id -> Marks]
  /\ \A v \in Id : (sent[v] = "sent" => next[v] = "sent") /\ (sent[v] # "sent" => next[v] = "no")

LEMMA SettledIs ==
  ASSUME NEW s \in Side, NEW y, y = Settled(s)
  PROVE  /\ y \in Side /\ y.inputs = s.inputs /\ y.seen = s.seen /\ y.compacting = s.compacting
         /\ y.stopping = s.stopping /\ y.advancing = s.advancing /\ y.due = s.due /\ y.closed = s.closed
         /\ y.inputEnded = s.inputEnded /\ y.last = s.last /\ y.floor = s.floor
         /\ s.seen => SettlesMarks(s.sent, y.sent)
         /\ NoneHeld(s.sent) => NoneKept(y.sent)
<1>1. PICK sent \in [Id -> Marks] : sent = s.sent  BY DEF Side
<1>2. PICK next : next = [i \in DOMAIN s.sent |-> IF s.seen /\ s.sent[i] = "sent" THEN "sent" ELSE "no"]  OBVIOUS
<1>3. /\ next \in [Id -> Marks]
      /\ \A v \in Id : next[v] = IF s.seen /\ sent[v] = "sent" THEN "sent" ELSE "no"
  BY <1>1, <1>2 DEF Marks
<1>4. y = [s EXCEPT !.sent = next]  BY <1>2 DEF Settled
<1> HIDE <1>2
<1>5. /\ y \in Side /\ y.inputs = s.inputs /\ y.seen = s.seen /\ y.compacting = s.compacting
      /\ y.stopping = s.stopping /\ y.advancing = s.advancing /\ y.due = s.due /\ y.closed = s.closed
      /\ y.inputEnded = s.inputEnded /\ y.last = s.last /\ y.floor = s.floor /\ y.sent = next
  BY <1>3, <1>4 DEF Side
<1>6. ASSUME s.seen PROVE SettlesMarks(s.sent, y.sent)  BY <1>1, <1>3, <1>5, <1>6 DEF SettlesMarks
<1>7. ASSUME NoneHeld(s.sent) PROVE NoneKept(y.sent)  BY <1>1, <1>3, <1>5, <1>7 DEF NoneHeld, NoneKept
<1> QED  BY <1>5, <1>6, <1>7

\* While the pump awaits a capture no start was heard of a prompt that is not over.
LEMMA MarkedSettles ==
  ASSUME NEW out, NEW sent \in [Id -> Marks], NEW next, SettlesMarks(sent, next), NEW p, p.t # "none", NEW q,
         NEW v \in Id, NEW n, Marked(out, sent, p, v, n)
  PROVE  Marked(out, next, q, v, n)
<1>1. sent[v] # "no" /\ sent[v] # "started" /\ sent[v] \in Marks  BY DEF Marked
<1>2. sent[v] = "sent"  BY <1>1 DEF Marks
<1>3. next[v] = "sent"  BY <1>2 DEF SettlesMarks
<1>4. /\ next[v] # "no" /\ next[v] # "started"
      /\ \A i \in 1..Len(out) : out[i].t = "started" /\ out[i].id = v => \A m \in 1..n - 1 : IsAnswer(out[m]) => m < i
  BY <1>3 DEF Marked
<1> QED  BY <1>4 DEF Marked

\* What holds while the pump awaits a capture.
LEMMA CaptureAwaited ==
  ASSUME NEW w, NEW k, NEW p, NEW a, NEW st, NEW sp, Good(w, k, p, a, st, sp), p # NoMessage
  PROVE  /\ p \in Msg /\ p.t # "none" /\ p.labels \in Seq(Nat) /\ w.job = NoJob /\ w.job.by = "none"
         /\ ~ w.side.compacting /\ ~ w.side.advancing /\ ~ w.side.stopping /\ w.side.seen
<1>1. p \in Msg /\ p.t # "none"  BY DEF Good, Shaped, MessagesKnown
<1>2. w.side.seen /\ w.job.by = "none"  BY <1>1 DEF Good, Placed, PumpMarked
<1>3. JobKnown(w.side, w.job, w.cli) /\ StopKnown(w.side, w.job, p, w.cli, sp)  BY DEF Good, Placed
<1>4. w.side \in Side  BY GoodIds
<1>5. w.job = NoJob /\ ~ w.side.compacting /\ ~ w.side.advancing  BY <1>2, <1>3 DEF JobKnown
<1>6. ~ w.side.stopping  BY <1>1, <1>3 DEF StopKnown
<1>7. p.labels \in Seq(Nat)  BY <1>1 DEF Msg
<1> QED  BY <1>1, <1>2, <1>5, <1>6, <1>7

\* The host gets the result, and the prompts of the turn are settled.
LEMMA SettleKeeps ==
  ASSUME NEW w, NEW k, NEW p, NEW a, NEW st, NEW sp, Good(w, k, p, a, st, sp), p # NoMessage,
         NEW x \in Worlds, x.cli = w.cli, x.job = w.job,
         x.side.inputs = w.side.inputs, x.side.seen = w.side.seen, x.side.compacting = w.side.compacting,
         x.side.stopping = w.side.stopping, x.side.advancing = w.side.advancing,
         SettlesMarks(w.side.sent, x.side.sent),
         NEW q, q = NoMessage, NEW b, b = a \o p.labels
  PROVE  Good(x, k, q, b, st, sp)
<1>1. /\ p \in Msg /\ p.t # "none" /\ p.labels \in Seq(Nat) /\ w.job = NoJob /\ w.job.by = "none"
      /\ ~ w.side.compacting /\ ~ w.side.advancing /\ ~ w.side.stopping /\ w.side.seen
  BY CaptureAwaited
<1>2. /\ w \in Worlds /\ w.cli \in Cli /\ w.side \in Side /\ Len(k) \in Nat
      /\ MaxInputs + sp.stops \in Nat /\ Strict(w.side, w.job) \in BOOLEAN
      /\ (\A i \in 1..Len(Waiting(w.cli)) : Waiting(w.cli)[i] \in Id)
      /\ \A v \in Nat : Passed(w.cli, v) => v \in Id
  BY GoodIds
<1>3. PICK c \in Cli : c = w.cli  BY <1>2
<1>4. PICK sent \in [Id -> Marks], next \in [Id -> Marks] : sent = w.side.sent /\ next = x.side.sent
  <2>1. w.side.sent \in [Id -> Marks] /\ x.side.sent \in [Id -> Marks]  BY TypesOf, <1>2
  <2> QED  BY <2>1
<1>5. SettlesMarks(sent, next)  BY <1>4
<1>6. PICK out \in Seq(Msg) : out = c.out  BY DEF Cli
<1>7. q \in Msg /\ q.t = "none" /\ q.labels = <<>>
  <2>1. <<>> \in Seq(Nat)  OBVIOUS
  <2> QED  BY <2>1 DEF NoMessage, Msg, MsgKinds
<1>8. Shaped(x, k, q, sp)  BY <1>3, <1>7 DEF Good, Shaped, MessagesKnown
<1>9. InLine(x, k, q, b, st, sp)
  <2>0. PICK F, H : F = p.labels /\ H = Held(w.side, w.job)  OBVIOUS
  <2>1. PICK strict \in BOOLEAN : strict = Strict(w.side, w.job)  BY <1>2
  <2>2. PICK top \in Nat, n \in Nat : top = MaxInputs + sp.stops /\ n = Len(k)  BY <1>2
  <2>3. Line(c, F, H, n, a, st, top, strict)  BY <1>1, <1>3, <2>0, <2>1, <2>2 DEF Good, InLine, First
  <2>4. PICK r \in Nat, l \in Nat, d \in Nat, e \in Nat :
          /\ IsRun(a, 0, Len(a)) /\ IsRun(F, Len(a), r) /\ Chain(c.out, r, l) /\ Middle(c, l, d, e)
          /\ IsRun(H, e, n) /\ Begun(st, d) /\ Behind(c, d, top, strict)
    BY <2>3 DEF Line
  <2>5. Len(a) \in Nat  BY <2>4 DEF IsRun
  <2>6. IsRun(b, 0, r)
    <3>1. IsRun(a \o F, 0, r)  BY <2>4, <2>5, RunConcat
    <3> QED  BY <2>0, <3>1
  <2>7. Len(b) = r  BY <2>6 DEF IsRun
  <2>8. PICK E : E = <<>>  OBVIOUS
  <2>9. IsRun(E, Len(b), r) /\ IsRun(b, 0, Len(b))
    <3>1. IsRun(<<>>, r, r)  BY EmptyRun
    <3> QED  BY <2>6, <2>7, <2>8, <3>1
  <2>10. Line(c, E, H, n, b, st, top, strict)  BY <2>4, <2>9 DEF Line
  <2>11. E = First(q, x.job) /\ H = Held(x.side, x.job) /\ Strict(x.side, x.job) = strict
    BY <1>1, <1>7, <2>0, <2>1, <2>8 DEF First, Held, Strict
  <2> QED  BY <1>3, <2>2, <2>10, <2>11 DEF InLine
<1>10. Unlike(c)  BY <1>3 DEF Good, Placed
<1>11. TurnMarked(c, next, q)
  <2>1. TurnMarked(c, sent, p)  BY <1>3, <1>4 DEF Good, Placed
  <2>2. CASE c.turn.stage = "none"  BY <2>1, <2>2 DEF TurnMarked
  <2>3. CASE c.turn.stage # "none"
    <3>1. /\ ~ NoteWaits(w.cli) /\ w.cli.turn.uuids # <<>> /\ w.cli.turn.uuids[1] \in Id
          /\ Marked(w.cli.out, w.side.sent, p, w.cli.turn.uuids[1], Len(w.cli.out) + 1)
      BY <1>3, <2>3, TurnOfPrompt
    <3>2. PICK v \in Id : v = w.cli.turn.uuids[1]  BY <3>1
    <3>5. PICK n : n = Len(w.cli.out) + 1  BY <3>1
    <3>3. Marked(out, sent, p, v, n)  BY <1>3, <1>4, <1>6, <3>1, <3>2, <3>5
    <3>4. Marked(out, next, q, v, n)  BY <1>1, <1>5, <3>3, MarkedSettles
    <3> QED  BY <1>3, <1>6, <2>3, <3>1, <3>2, <3>4, <3>5 DEF TurnMarked
  <2> QED  BY <2>2, <2>3
<1>12. AnswersMarked(out, next, q)
  <2>1. AnswersMarked(out, sent, p)  BY <1>3, <1>4, <1>6 DEF Good, Placed
  <2> SUFFICES ASSUME NEW i \in 1..Len(out), IsAnswer(out[i])
               PROVE  i < Len(out) /\ out[i + 1].t = "completed" /\ Marked(out, next, q, out[i + 1].id, i)
    BY DEF AnswersMarked
  <2>2. i < Len(out) /\ out[i + 1].t = "completed" /\ Marked(out, sent, p, out[i + 1].id, i)
    BY <2>1 DEF AnswersMarked
  <2>3. PICK j \in 1..Len(out) : j = i + 1  BY <2>2
  <2>4. out[j] \in Msg  OBVIOUS
  <2>5. PICK v \in Nat : v = out[j].id  BY <2>4 DEF Msg
  <2>6. InOut(w.cli, "completed", v)  BY <1>3, <1>6, <2>2, <2>3, <2>5 DEF InOut
  <2>7. v \in Id  BY <1>2, <2>6 DEF Passed
  <2>8. Marked(out, sent, p, v, i)  BY <2>2, <2>3, <2>5
  <2>9. Marked(out, next, q, v, i)  BY <1>1, <1>5, <2>7, <2>8, MarkedSettles
  <2> QED  BY <2>2, <2>3, <2>5, <2>9
<1>13. WaitingMarked(c, next)
  <2>1. WaitingMarked(c, sent)  BY <1>3, <1>4 DEF Good, Placed
  <2> QED  BY <1>2, <1>3, <1>5, <2>1 DEF WaitingMarked, SettlesMarks
<1>14. PumpMarked(out, x.side, q, x.job)  BY <1>7 DEF PumpMarked
<1>15. Carried(c, next, x.job)
  <2>1. Carried(c, sent, w.job)  BY <1>3, <1>4 DEF Good, Placed
  <2> QED  BY <1>1, <1>5, <2>1 DEF Carried, SettlesMarks
<1>16. SeenKnown(c, x.side)  BY <1>1 DEF SeenKnown
<1>17. JobKnown(x.side, x.job, c)  BY <1>1 DEF JobKnown
<1>18. StopKnown(x.side, x.job, q, c, sp)  BY <1>1 DEF StopKnown, Strict
<1>19. Placed(x, q, sp)
  BY <1>3, <1>4, <1>6, <1>10, <1>11, <1>12, <1>13, <1>14, <1>15, <1>16, <1>17, <1>18 DEF Placed
<1> QED  BY <1>8, <1>9, <1>19 DEF Good

\* A session that keeps nothing has nothing on its way.
LEMMA KeptNothing ==
  ASSUME NEW w, NEW k, NEW p, NEW a, NEW st, NEW sp, Good(w, k, p, a, st, sp), NoneKept(w.side.sent)
  PROVE  Idle(w.cli) /\ w.cli.turn = NoTurn /\ p = NoMessage /\ ~ w.side.stopping
<1>1. /\ w.cli \in Cli /\ w.side \in Side
      /\ (\A i \in 1..Len(Waiting(w.cli)) : Waiting(w.cli)[i] \in Id)
      /\ \A x \in Nat : Passed(w.cli, x) => x \in Id
  BY GoodIds
<1>2. PICK c \in Cli, s \in Side : c = w.cli /\ s = w.side  BY <1>1
<1>6. PICK j : j = w.job  OBVIOUS
<1>3. /\ MessagesKnown(c, p) /\ TurnMarked(c, s.sent, p) /\ AnswersMarked(c.out, s.sent, p)
      /\ WaitingMarked(c, s.sent) /\ PumpMarked(c.out, s, p, j) /\ StopKnown(s, j, p, c, sp)
      /\ NoneKept(s.sent)
  BY <1>2, <1>6 DEF Good, Shaped, Placed
<1>4. /\ \A i \in 1..Len(Waiting(c)) : Waiting(c)[i] \in Id
      /\ \A x \in Nat : Passed(c, x) => x \in Id
  BY <1>1, <1>2
<1>5. Idle(c) /\ c.turn = NoTurn /\ p = NoMessage /\ ~ s.stopping  BY <1>3, <1>4, NoneKeptIdle
<1> QED  BY <1>2, <1>5

\* A compact begins with the result of a turn, which the host does not get before it is over.
LEMMA TurnCompactKeeps ==
  ASSUME NEW w, NEW k, NEW p, NEW a, NEW st, NEW sp, Good(w, k, p, a, st, sp), p # NoMessage,
         NEW y \in Worlds, y.cli = w.cli, y.job = w.job,
         y.side.inputs = w.side.inputs, y.side.seen = w.side.seen, y.side.compacting = w.side.compacting,
         y.side.stopping = w.side.stopping, y.side.advancing = w.side.advancing,
         SettlesMarks(w.side.sent, y.side.sent), NoneKept(y.side.sent),
         NEW x \in Worlds, x.cli = y.cli, x.job.by = "turn", x.job.labels = p.labels,
         x.side.inputs = y.side.inputs, x.side.seen = y.side.seen, x.side.sent = y.side.sent,
         x.side.compacting, x.side.stopping = y.side.stopping, x.side.advancing = y.side.advancing,
         NEW q, q = NoMessage
  PROVE  Good(x, k, q, a, st, sp)
<1>1. /\ p \in Msg /\ p.t # "none" /\ p.labels \in Seq(Nat) /\ w.job = NoJob /\ w.job.by = "none"
      /\ ~ w.side.compacting /\ ~ w.side.advancing /\ ~ w.side.stopping /\ w.side.seen
  BY CaptureAwaited
<1>2. PICK b : b = a \o p.labels  OBVIOUS
<1>3. Good(y, k, q, b, st, sp)  BY <1>2, SettleKeeps
<1>4. PICK c : c = w.cli  OBVIOUS
<1>5. Idle(c) /\ c.turn = NoTurn
  <2>1. Idle(y.cli) /\ y.cli.turn = NoTurn  BY <1>3, KeptNothing
  <2> QED  BY <1>4, <2>1
<1>6. q.t = "none"  BY DEF NoMessage
<1>7. Shaped(x, k, q, sp)  BY <1>3 DEF Good, Shaped
<1>8. InLine(x, k, q, a, st, sp)
  <2>1. /\ First(q, x.job) = First(p, w.job) /\ Held(x.side, x.job) = Held(w.side, w.job)
        /\ Strict(x.side, x.job) = Strict(w.side, w.job)
    BY <1>1 DEF First, Held, Strict
  <2> QED  BY <2>1 DEF Good, InLine
<1>9. Unlike(c)  BY <1>4 DEF Good, Placed
<1>10. TurnMarked(c, x.side.sent, q)  BY <1>5 DEF TurnMarked, NoTurn
<1>11. AnswersMarked(c.out, x.side.sent, q)  BY <1>5 DEF AnswersMarked, Idle, NoAnswer
<1>12. WaitingMarked(c, x.side.sent)  BY <1>5 DEF WaitingMarked, Idle
<1>13. PumpMarked(c.out, x.side, q, x.job)  BY <1>6 DEF PumpMarked
<1>14. Carried(c, x.side.sent, x.job)  BY DEF Carried, NoneKept
<1>15. SeenKnown(c, x.side)  BY <1>1 DEF SeenKnown
<1>16. JobKnown(x.side, x.job, c)  BY <1>1, <1>5 DEF JobKnown
<1>17. StopKnown(x.side, x.job, q, c, sp)  BY <1>1 DEF StopKnown, Strict
<1>18. Placed(x, q, sp)
  BY <1>4, <1>9, <1>10, <1>11, <1>12, <1>13, <1>14, <1>15, <1>16, <1>17 DEF Placed
<1> QED  BY <1>7, <1>8, <1>18 DEF Good

LEMMA ResultCapturedKeeps ==
  ASSUME SessionInv, ~ side.closed, ResultCaptured
  PROVE  SessionInv'
<1>1. /\ Good(World, kinds, pump, answers, started, spent) /\ Awake(side) /\ World \in Worlds
      /\ World.side = side /\ World.cli = cli /\ World.job = job
      /\ side \in Side /\ cli \in Cli /\ job \in Job
  BY InvHolds
<1>2. PICK u, k, p, a, st, sp : u = World /\ k = kinds /\ p = pump /\ a = answers /\ st = started /\ sp = spent
  OBVIOUS
<1>3. PICK q : q = NoMessage  OBVIOUS
<1>4. /\ kinds' = k /\ pump' = q /\ started' = st /\ spent' = sp /\ read' \in BOOLEAN /\ p # NoMessage
  BY <1>1, <1>2, <1>3 DEF ResultCaptured, SessionInv
<1>5. Good(u, k, p, a, st, sp) /\ u.side = side /\ u.cli = cli /\ u.job = job /\ u \in Worlds  BY <1>1, <1>2
<1>6. /\ p.t # "none" /\ p.labels \in Seq(Nat) /\ u.job = NoJob /\ u.job.by = "none"
      /\ ~ u.side.compacting /\ ~ u.side.advancing /\ ~ u.side.stopping /\ u.side.seen
  BY <1>4, <1>5, CaptureAwaited
<1>7. PICK open : open = [side EXCEPT !.turnOpen = FALSE]  OBVIOUS
<1>8. /\ open \in Side /\ open.sent = side.sent /\ open.seen = side.seen /\ open.inputs = side.inputs
      /\ open.compacting = side.compacting /\ open.stopping = side.stopping /\ open.advancing = side.advancing
      /\ open.closed = side.closed /\ open.inputEnded = side.inputEnded
  BY <1>1, <1>7 DEF Side
<1>9. PICK over : over = Settled(open)  OBVIOUS
<1>10. /\ over \in Side /\ over.inputs = side.inputs /\ over.seen = side.seen /\ over.compacting = side.compacting
       /\ over.stopping = side.stopping /\ over.advancing = side.advancing /\ over.closed = side.closed
       /\ over.inputEnded = side.inputEnded /\ SettlesMarks(side.sent, over.sent)
  <2>1. /\ over \in Side /\ over.inputs = open.inputs /\ over.seen = open.seen /\ over.compacting = open.compacting
        /\ over.stopping = open.stopping /\ over.advancing = open.advancing /\ over.closed = open.closed
        /\ over.inputEnded = open.inputEnded /\ (open.seen => SettlesMarks(open.sent, over.sent))
    BY <1>8, <1>9, SettledIs
  <2> QED  BY <1>5, <1>6, <1>8, <2>1
<1>11. PICK due : due = DueCompact(side)  OBVIOUS
<1>12. PICK s : s = [over EXCEPT !.due = @ /\ side.compacting]  OBVIOUS
<1>13. /\ s \in Side /\ s.sent = over.sent /\ s.seen = over.seen /\ s.inputs = over.inputs
       /\ s.compacting = over.compacting /\ s.stopping = over.stopping /\ s.advancing = over.advancing
       /\ s.closed = over.closed /\ s.inputEnded = over.inputEnded
  <2>1. PICK d \in BOOLEAN : d = (over.due /\ side.compacting)  OBVIOUS
  <2>2. s = [over EXCEPT !.due = d]  BY <1>12, <2>1
  <2>3. over \in Side  BY <1>10
  <2> QED  BY <2>2, <2>3 DEF Side
<1>14. PICK w : w = [World EXCEPT !.side = s]  OBVIOUS
<1>15. w \in Worlds /\ w.side = s /\ w.cli = cli /\ w.job = job  BY <1>1, <1>13, <1>14, SideIs
<1>16. w = [World EXCEPT !.side = [over EXCEPT !.due = @ /\ side.compacting]]  BY <1>12, <1>14
<1>17. over = Settled([side EXCEPT !.turnOpen = FALSE])  BY <1>7, <1>9
<1>18. /\ w.cli = u.cli /\ w.job = u.job
       /\ w.side.inputs = u.side.inputs /\ w.side.seen = u.side.seen /\ w.side.compacting = u.side.compacting
       /\ w.side.stopping = u.side.stopping /\ w.side.advancing = u.side.advancing
       /\ SettlesMarks(u.side.sent, w.side.sent)
  BY <1>5, <1>10, <1>13, <1>15
<1>19. CASE due /\ ~ CliHoldsUnstarted(over)
  <2>1. PICK x : x = Compacts(w, "turn", 0, pump.labels, TRUE)  OBVIOUS
  <2>2. Becomes(x) /\ answers' = a
    <3>1. Becomes(Compacts(w, "turn", 0, pump.labels, TRUE)) /\ answers' = answers
      BY <1>11, <1>16, <1>17, <1>19 DEF ResultCaptured
    <3> QED  BY <1>2, <2>1, <3>1
  <2>3. PICK t, j : t = [s EXCEPT !.compacting = TRUE]
                    /\ j = [by |-> "turn", id |-> 0, labels |-> p.labels, pump |-> TRUE]
    OBVIOUS
  <2>4. t \in Side /\ t.sent = s.sent /\ t.seen = s.seen /\ t.inputs = s.inputs /\ t.compacting = TRUE
        /\ t.stopping = s.stopping /\ t.advancing = s.advancing /\ t.closed = s.closed
    BY <1>13, <2>3 DEF Side
  <2>5. j \in Job /\ j.by = "turn" /\ j.labels = p.labels  BY <1>6, <2>3 DEF Job
  <2>6. x = [w EXCEPT !.side = t, !.job = j]  BY <1>2, <1>15, <2>1, <2>3 DEF Compacts
  <2>7. x \in Worlds /\ x.side = t /\ x.cli = w.cli /\ x.job = j  BY <1>15, <2>4, <2>5, <2>6 DEF Worlds
  <2>8. NoneKept(w.side.sent)
    <3>1. DOMAIN over.sent = Id  BY <1>10 DEF Side
    <3>2. \A v \in Id : over.sent[v] # "sent"  BY <1>5, <1>6, <1>10, <1>19, <3>1 DEF CliHoldsUnstarted
    <3>3. \A v \in Id : over.sent[v] = "no"  BY <1>10, <3>2 DEF SettlesMarks
    <3> QED  BY <1>13, <1>15, <3>3 DEF NoneKept
  <2>9. Good(x, k, q, a, st, sp)
    <3>1. /\ x.cli = w.cli /\ x.job.by = "turn" /\ x.job.labels = p.labels
          /\ x.side.inputs = w.side.inputs /\ x.side.seen = w.side.seen /\ x.side.sent = w.side.sent
          /\ x.side.compacting /\ x.side.stopping = w.side.stopping /\ x.side.advancing = w.side.advancing
      BY <1>15, <2>4, <2>5, <2>7
    <3> QED  BY <1>3, <1>4, <1>5, <1>15, <1>18, <2>7, <2>8, <3>1, TurnCompactKeeps
  <2>10. Awake(x.side)  BY <1>10, <1>13, <2>4, <2>7 DEF Awake
  <2> QED  BY <1>4, <2>2, <2>9, <2>10, InvThen
<1>20. CASE ~ (due /\ ~ CliHoldsUnstarted(over))
  <2>1. PICK t : t = [s EXCEPT !.due = @ \/ due]  OBVIOUS
  <2>2. /\ t \in Side /\ t.sent = s.sent /\ t.seen = s.seen /\ t.inputs = s.inputs /\ t.compacting = s.compacting
        /\ t.stopping = s.stopping /\ t.advancing = s.advancing /\ t.closed = s.closed
    <3>1. due \in BOOLEAN  BY <1>1, <1>11 DEF DueCompact, Side, PastTrigger
    <3>2. (s.due \/ due) \in BOOLEAN  OBVIOUS
    <3> QED  BY <1>13, <2>1, <3>2 DEF Side
  <2>3. PICK y : y = [w EXCEPT !.side = t]  OBVIOUS
  <2>4. y \in Worlds /\ y.side = t /\ y.cli = w.cli /\ y.job = w.job  BY <1>15, <2>2, <2>3, SideIs
  <2>5. y = [w EXCEPT !.side.due = @ \/ due]  BY <1>15, <2>1, <2>3
  <2>6. PICK x : x = Advance(y, TRUE)  OBVIOUS
  <2>7. PICK b : b = a \o p.labels  OBVIOUS
  <2>8. Becomes(x) /\ answers' = b
    <3>1. Becomes(Advance([w EXCEPT !.side.due = @ \/ due], TRUE)) /\ answers' = answers \o pump.labels
      BY <1>11, <1>16, <1>17, <1>20 DEF ResultCaptured
    <3> QED  BY <1>2, <2>5, <2>6, <2>7, <3>1
  <2>9. Good(y, k, q, b, st, sp)
    <3>1. /\ y.cli = u.cli /\ y.job = u.job
          /\ y.side.inputs = u.side.inputs /\ y.side.seen = u.side.seen /\ y.side.compacting = u.side.compacting
          /\ y.side.stopping = u.side.stopping /\ y.side.advancing = u.side.advancing
          /\ SettlesMarks(u.side.sent, y.side.sent)
      BY <1>15, <1>18, <2>2, <2>4
    <3> QED  BY <1>3, <1>4, <1>5, <2>4, <2>7, <3>1, SettleKeeps
  <2>10. Good(x, k, q, b, st, sp) /\ Awake(x.side)
    <3>1. ~ y.side.closed  BY <1>10, <1>13, <2>2, <2>4
    <3> QED  BY <1>4, <2>6, <2>9, <3>1, AdvanceKeeps
  <2> QED  BY <1>4, <2>8, <2>10, InvThen
<1> QED  BY <1>19, <1>20

\* The generation that is live when a rebuild is over: nothing is on its way in it.
Renews(w, x) ==
  /\ x.side.sent = w.side.sent /\ x.side.seen = w.side.seen /\ x.side.stopping = w.side.stopping
  /\ ~ x.side.compacting /\ x.job = NoJob
  /\ Waiting(x.cli) = <<>> /\ x.cli.pulled = <<>> /\ x.cli.turn = NoTurn /\ x.cli.stopped = w.job.labels
  /\ x.cli.out = <<>> \/ x.cli.out = w.cli.out

\* What holds while a compact runs.
LEMMA JobRuns ==
  ASSUME NEW w, NEW k, NEW p, NEW a, NEW st, NEW sp, Good(w, k, p, a, st, sp), w.job.by # "none"
  PROVE  /\ Idle(w.cli) /\ w.cli.turn = NoTurn /\ p = NoMessage /\ p.labels = <<>> /\ p.t = "none"
         /\ ~ w.side.stopping /\ w.side.compacting
         /\ w.cli.pulled = <<>> /\ w.cli.before = 0 /\ w.cli.input = <<>>
<1>1. JobKnown(w.side, w.job, w.cli) /\ PumpMarked(w.cli.out, w.side, p, w.job)
      /\ TurnMarked(w.cli, w.side.sent, p) /\ MessagesKnown(w.cli, p)
  BY DEF Good, Placed, Shaped
<1>2. Idle(w.cli) /\ ~ w.side.stopping /\ w.side.compacting  BY <1>1 DEF JobKnown
<1>3. w.cli.turn = NoTurn  BY <1>1, <1>2 DEF Idle, TurnMarked
<1>4. p = NoMessage  BY <1>1 DEF PumpMarked, MessagesKnown
<1>5. p.labels = <<>> /\ p.t = "none"  BY <1>4 DEF NoMessage
<1>6. w.cli \in Cli  BY GoodIds
<1>7. PICK c \in Cli : c = w.cli  BY <1>6
<1>8. PICK s \in Seq(Nat), i \in Seq(Nat), v \in Nat : s = c.pulled /\ i = c.input /\ v = c.before
  <2>1. c.pulled \in Seq(Nat) /\ c.input \in Seq(Nat) /\ c.before \in Nat  BY WaitingIs
  <2> QED  BY <2>1
<1>9. Waiting(c) = <<>>  BY <1>2, <1>7 DEF Idle
<1>10. v = 0
  <2> SUFFICES ASSUME v # 0 PROVE FALSE  OBVIOUS
  <2>1. (s \o <<v>>) \o i = <<>>
    <3>1. c.before # 0 => Waiting(c) = (c.pulled \o <<c.before>>) \o c.input  BY WaitingIs
    <3> QED  BY <1>8, <1>9, <3>1
  <2>9. <<v>> \in Seq(Nat)  OBVIOUS
  <2>2. PICK u \in Seq(Nat) : u = <<v>>  BY <2>9
  <2>3. Len(u) = 1  BY <2>2
  <2>4. PICK r \in Seq(Nat) : r = s \o u
    <3>1. s \o u \in Seq(Nat)  BY ConcatIs
    <3> QED  BY <3>1
  <2>5. Len(r) = Len(s) + Len(u)  BY <2>4, ConcatIs
  <2>6. Len(r \o i) = Len(r) + Len(i)  BY ConcatIs
  <2>7. Len(r \o i) = 0  BY <2>1, <2>2, <2>4
  <2>8. Len(s) \in Nat /\ Len(i) \in Nat  OBVIOUS
  <2> QED  BY <2>3, <2>5, <2>6, <2>7, <2>8
<1>11. s \o i = <<>>
  <2>1. c.before = 0 => Waiting(c) = c.pulled \o c.input  BY WaitingIs
  <2> QED  BY <1>8, <1>9, <1>10, <2>1
<1>12. s = <<>> /\ i = <<>>
  <2>1. Len(s \o i) = Len(s) + Len(i)  BY ConcatIs
  <2>2. Len(s \o i) = 0  BY <1>11
  <2>3. Len(s) \in Nat /\ Len(i) \in Nat  OBVIOUS
  <2>4. Len(s) = 0 /\ Len(i) = 0  BY <2>1, <2>2, <2>3
  <2> QED  BY <2>4
<1> QED  BY <1>2, <1>3, <1>4, <1>5, <1>7, <1>8, <1>10, <1>12

\* Nothing of the old generation is passed that was not.
LEMMA RenewedCli ==
  ASSUME NEW w \in Worlds, NEW x \in Worlds, Renews(w, x), Idle(w.cli), w.cli.turn = NoTurn, NEW p, MessagesKnown(w.cli, p)
  PROVE  /\ \A v : Passed(x.cli, v) => Passed(w.cli, v)
         /\ NoAnswer(x.cli.out) /\ ~ NoteWaits(x.cli)
         /\ \A i \in 1..Len(x.cli.out) : x.cli.out[i].labels = <<>>
         /\ Unlike(w.cli) => Unlike(x.cli)
         /\ SeenKnown(w.cli, w.side) => SeenKnown(x.cli, x.side)
<1>1. PICK c \in Cli, y \in Cli : c = w.cli /\ y = x.cli  BY TypesOf
<1>2. y.out = <<>> \/ y.out = c.out  BY <1>1 DEF Renews
<1>3. y.turn = NoTurn /\ Waiting(y) = <<>> /\ y.pulled = <<>> /\ x.side.seen = w.side.seen  BY <1>1 DEF Renews
<1>4. Len(y.turn.uuids) = 0 /\ y.turn.stage = "none"  BY <1>3 DEF NoTurn
<1>5. \A v : ~ InTurn(y, v)  BY <1>4 DEF InTurn
<1>6. \A t, v : InOut(y, t, v) => InOut(c, t, v)  BY <1>2 DEF InOut
<1>7. \A v : Passed(y, v) => Passed(c, v)  BY <1>5, <1>6 DEF Passed
<1>8. NoAnswer(c.out) /\ \A i \in 1..Len(c.out) : c.out[i].labels = <<>>
  BY <1>1 DEF Idle, MessagesKnown, NoAnswer
<1>9. NoAnswer(y.out) /\ \A i \in 1..Len(y.out) : y.out[i].labels = <<>>  BY <1>2, <1>8 DEF NoAnswer
<1>10. ~ NoteWaits(y)  BY <1>3 DEF NoteWaits
<1>11. ASSUME Unlike(c) PROVE Unlike(y)  BY <1>2, <1>4, <1>5, <1>11 DEF Unlike
<1>12. ASSUME SeenKnown(c, w.side) PROVE SeenKnown(y, x.side)
  BY <1>2, <1>3, <1>4, <1>12 DEF SeenKnown
<1> QED  BY <1>1, <1>7, <1>9, <1>10, <1>11, <1>12

\* The line through a generation in which nothing is on its way.
LEMMA QuietLine ==
  ASSUME NEW y \in Cli, Waiting(y) = <<>>, y.turn = NoTurn, \A i \in 1..Len(y.out) : y.out[i].labels = <<>>,
         NEW d \in Nat, NEW b, IsRun(b, 0, d), NEW H, NEW n, IsRun(H, d, n), NEW st, Begun(st, d), NEW top,
         \A x \in Nat : Passed(y, x) => (1 <= x /\ x <= d) \/ (x > MaxInputs /\ x <= top),
         NEW F, F = <<>>, NEW strict, ~ strict
  PROVE  Line(y, F, H, n, b, st, top, strict)
<1>1. Len(b) = d  BY DEF IsRun
<1>2. IsRun(<<>>, d, d)  BY EmptyRun
<1>3. IsRun(F, Len(b), d) /\ IsRun(b, 0, Len(b))  BY <1>1, <1>2
<1>4. ~ NoteWaits(y)  BY DEF NoteWaits
<1>5. y.turn.labels = <<>>  BY DEF NoTurn
<1>6. Middle(y, d, d, d)  BY <1>2, <1>4, <1>5 DEF Middle
<1>7. Chain(y.out, d, d)
  <2>1. PICK z \in Seq(Msg), e \in Seq(Msg) : z = y.out /\ e = <<>>
    <3>1. y.out \in Seq(Msg) /\ <<>> \in Seq(Msg)  BY DEF Cli
    <3> QED  BY <3>1
  <2>2. Chain(e, d, d)  BY <2>1, ChainEmpty
  <2>3. \A i \in 1..Len(z) : z[i].labels = <<>>  BY <2>1
  <2>4. Chain(e \o z, d, d)  BY <2>2, <2>3, ChainQuiet
  <2>5. e \o z = z  BY <2>1
  <2> QED  BY <2>1, <2>4, <2>5
<1>8. Behind(y, d, top, strict)  BY <1>4 DEF Behind
<1> QED  BY <1>3, <1>6, <1>7, <1>8 DEF Line

\* What is answered when the rebuild is over, and what is held then.
RenewsLine(w, x, a, b) ==
  \/ w.job.by = "turn" /\ b = a \o w.job.labels /\ x.side.inputs = w.side.inputs
  \/ w.job.by = "manual" /\ b = a \o <<w.job.id>> /\ x.side.inputs = w.side.inputs
  \/ w.job.by = "send" /\ b = a /\ x.side.inputs = <<w.job.id>> \o w.side.inputs

LEMMA RenewKeeps ==
  ASSUME NEW w, NEW k, NEW p, NEW a, NEW st, NEW sp, Good(w, k, p, a, st, sp),
         NEW x \in Worlds, Renews(w, x), ~ x.side.advancing, NEW b, RenewsLine(w, x, a, b)
  PROVE  Good(x, k, p, b, st, sp) /\ NoneKept(x.side.sent)
<1>0. w.job.by # "none" /\ w.job.by # "mid"  BY DEF RenewsLine
<1>1. /\ Idle(w.cli) /\ w.cli.turn = NoTurn /\ p = NoMessage /\ p.labels = <<>> /\ p.t = "none"
      /\ ~ w.side.stopping /\ w.side.compacting
  BY <1>0, JobRuns
<1>2. /\ w \in Worlds /\ w.cli \in Cli /\ w.side \in Side /\ w.job \in Job /\ Len(k) \in Nat
      /\ MaxInputs + sp.stops \in Nat /\ Strict(w.side, w.job) \in BOOLEAN
  BY GoodIds
<1>3. MessagesKnown(w.cli, p) /\ JobKnown(w.side, w.job, w.cli) /\ Unlike(w.cli) /\ SeenKnown(w.cli, w.side)
  BY DEF Good, Placed, Shaped
<1>4. /\ \A v : Passed(x.cli, v) => Passed(w.cli, v)
      /\ NoAnswer(x.cli.out) /\ ~ NoteWaits(x.cli)
      /\ \A i \in 1..Len(x.cli.out) : x.cli.out[i].labels = <<>>
      /\ Unlike(x.cli) /\ SeenKnown(x.cli, x.side)
  BY <1>1, <1>2, <1>3, RenewedCli
<1>5. PICK c \in Cli, y \in Cli : c = w.cli /\ y = x.cli  BY <1>2, TypesOf
<1>6. /\ x.side.sent = w.side.sent /\ ~ x.side.stopping /\ ~ x.side.compacting /\ x.job = NoJob
      /\ Waiting(y) = <<>> /\ y.turn = NoTurn
  BY <1>1, <1>5 DEF Renews
<1>7. x.job.by = "none"  BY <1>6 DEF NoJob
<1>8. NoneKept(x.side.sent)  BY <1>0, <1>2, <1>3, <1>6 DEF JobKnown, Job
<1>9. Shaped(x, k, p, sp)  BY <1>1, <1>4 DEF Good, Shaped, MessagesKnown
<1>10. InLine(x, k, p, b, st, sp)
  <2>1. PICK F, H : F = First(p, w.job) /\ H = Held(w.side, w.job)  OBVIOUS
  <2>2. PICK strict \in BOOLEAN : strict = Strict(w.side, w.job)  BY <1>2
  <2>3. PICK top \in Nat, n \in Nat : top = MaxInputs + sp.stops /\ n = Len(k)  BY <1>2
  <2>4. Line(c, F, H, n, a, st, top, strict)  BY <1>5, <2>1, <2>2, <2>3 DEF Good, InLine
  <2>5. Idle(c) /\ c.turn = NoTurn  BY <1>1, <1>5
  <2>6. PICK d \in Nat :
          /\ IsRun(a, 0, Len(a)) /\ IsRun(F, Len(a), d) /\ IsRun(H, d, n)
          /\ Begun(st, d) /\ Behind(c, d, top, strict) /\ Len(a) \in Nat /\ Len(a) <= d /\ d <= n
    BY <2>4, <2>5, IdleLine
  <2>7. PICK I : I = x.side.inputs  OBVIOUS
  <2>8. F = w.job.labels  BY <1>0, <2>1 DEF First
  <2>9. \E q \in Nat : d <= q /\ IsRun(b, 0, q) /\ IsRun(I, q, n)
    <3>1. CASE w.job.by = "turn"
      <4>1. b = a \o F /\ I = H  BY <2>1, <2>7, <2>8, <3>1 DEF RenewsLine, Held
      <4>2. IsRun(a \o F, 0, d)  BY <2>6, RunConcat
      <4> QED  BY <2>6, <4>1, <4>2
    <3>2. CASE w.job.by \in {"send", "manual"}
      <4>1. F = <<>> /\ H = <<w.job.id>> \o w.side.inputs  BY <1>3, <2>1, <2>8, <3>2 DEF JobKnown, Held
      <4>2. d = Len(a)
        <5>1. IsRun(<<>>, Len(a), d)  BY <2>6, <4>1
        <5> QED  BY <2>6, <5>1, EmptyRun
      <4>3. PICK ins \in Seq(Nat), one \in Seq(Nat) : ins = w.side.inputs /\ one = <<w.job.id>>
        <5>1. w.side.inputs \in Seq(Nat) /\ w.job.id \in Nat  BY <1>2, TypesOf
        <5>2. <<w.job.id>> \in Seq(Nat)  BY <5>1
        <5> QED  BY <5>1, <5>2
      <4>4. CASE w.job.by = "send"
        <5>1. b = a /\ I = H  BY <2>7, <4>1, <4>4 DEF RenewsLine
        <5> QED  BY <2>6, <4>2, <5>1
      <4>5. CASE w.job.by = "manual"
        <5>1. b = a \o one /\ I = ins  BY <2>7, <4>3, <4>5 DEF RenewsLine
        <5>2. Len(one) = 1 /\ one # <<>>  BY <4>3
        <5>3. IsRun(one \o ins, d, n)  BY <2>6, <4>1, <4>3
        <5>4. d + Len(one) \in Nat /\ IsRun(one, d, d + Len(one)) /\ IsRun(ins, d + Len(one), n)  BY <5>3, RunSplit
        <5>5. PICK q \in Nat : q = d + Len(one)  BY <5>4
        <5>6. IsRun(one, d, q) /\ IsRun(ins, q, n) /\ d <= q  BY <5>2, <5>4, <5>5
        <5>7. IsRun(a, 0, d)  BY <2>6, <4>2
        <5>8. IsRun(a \o one, 0, q)  BY <5>6, <5>7, RunConcat
        <5> QED  BY <5>1, <5>6, <5>8
      <4> QED  BY <3>2, <4>4, <4>5
    <3> QED  BY <3>1, <3>2 DEF RenewsLine
  <2>10. PICK q \in Nat : d <= q /\ IsRun(b, 0, q) /\ IsRun(I, q, n)  BY <2>9
  <2>11. Begun(st, q)
    <3>1. /\ st \in Seq(Nat) /\ \A i \in 1..Len(st) : st[i] <= d
          /\ \A i, j \in 1..Len(st) : i < j => st[i] < st[j]
      BY <2>6 DEF Begun
    <3>2. \A i \in 1..Len(st) : st[i] \in Nat  BY <3>1
    <3> QED  BY <2>10, <3>1, <3>2 DEF Begun
  <2>12. \A v \in Nat : Passed(y, v) => (1 <= v /\ v <= q) \/ (v > MaxInputs /\ v <= top)
    BY <1>4, <1>5, <2>6, <2>10 DEF Behind
  <2>13. PICK E, loose : E = <<>> /\ loose = FALSE  OBVIOUS
  <2>14. \A i \in 1..Len(y.out) : y.out[i].labels = <<>>  BY <1>4, <1>5
  <2>15. ~ loose  BY <2>13
  <2>16. Line(y, E, I, n, b, st, top, loose)  BY <1>6, <2>10, <2>11, <2>12, <2>13, <2>14, <2>15, QuietLine
  <2>17. E = First(p, x.job) /\ I = Held(x.side, x.job) /\ Strict(x.side, x.job) = loose
    BY <1>1, <1>6, <1>7, <2>7, <2>13 DEF First, Held, Strict
  <2> QED  BY <1>5, <2>3, <2>16, <2>17 DEF InLine
<1>11. TurnMarked(y, x.side.sent, p)  BY <1>6 DEF TurnMarked, NoTurn
<1>12. AnswersMarked(y.out, x.side.sent, p)  BY <1>4, <1>5 DEF AnswersMarked, NoAnswer
<1>13. WaitingMarked(y, x.side.sent)  BY <1>6 DEF WaitingMarked
<1>14. PumpMarked(y.out, x.side, p, x.job)  BY <1>1 DEF PumpMarked
<1>15. Carried(y, x.side.sent, x.job)  BY <1>8 DEF Carried, NoneKept
<1>16. JobKnown(x.side, x.job, y)  BY <1>6, <1>7 DEF JobKnown
<1>17. StopKnown(x.side, x.job, p, y, sp)  BY <1>6, <1>7 DEF StopKnown, Strict
<1>18. Placed(x, p, sp)
  BY <1>4, <1>5, <1>11, <1>12, <1>13, <1>14, <1>15, <1>16, <1>17 DEF Placed
<1> QED  BY <1>8, <1>9, <1>10, <1>18 DEF Good

SendsNote(v, x, kept, note) ==
  /\ x.cli = [v.cli EXCEPT !.input = Append(@, note)]
  /\ x.side.sent = [kept EXCEPT ![note] = "sent"]

\* The note of a turn the hook stopped goes to the generation that is live now.
LEMMA NoteKeeps ==
  ASSUME NEW w, NEW k, NEW p, NEW a, NEW st, NEW sp, Good(w, k, p, a, st, sp), w.job.by = "mid",
         NEW v \in Worlds, Renews(w, v), NEW x \in Worlds,
         NEW note, note = MaxInputs + sp.stops, x.job = NoJob,
         x.side.inputs = w.side.inputs, x.side.seen = w.side.seen, ~ x.side.compacting, ~ x.side.stopping,
         ~ x.side.advancing,
         NEW kept, NoneKept(kept), kept \in [Id -> Marks], SendsNote(v, x, kept, note)
  PROVE  Good(x, k, p, a, st, sp) /\ ~ NoneKept(x.side.sent)
<1>1. /\ Idle(w.cli) /\ w.cli.turn = NoTurn /\ p = NoMessage /\ p.labels = <<>> /\ p.t = "none"
      /\ ~ w.side.stopping /\ w.side.compacting
  BY JobRuns
<1>2. /\ w \in Worlds /\ w.cli \in Cli /\ w.side \in Side /\ w.job \in Job /\ Len(k) \in Nat
      /\ MaxInputs + sp.stops \in Nat /\ Strict(w.side, w.job) \in BOOLEAN /\ sp \in Spent
      /\ MaxInputs \in Nat /\ MaxStops \in Nat
  BY GoodIds
<1>3. /\ MessagesKnown(w.cli, p) /\ JobKnown(w.side, w.job, w.cli) /\ Unlike(w.cli) /\ SeenKnown(w.cli, w.side)
      /\ StopKnown(w.side, w.job, p, w.cli, sp)
  BY DEF Good, Placed, Shaped
<1>4. /\ \A i : Passed(v.cli, i) => Passed(w.cli, i)
      /\ NoAnswer(v.cli.out) /\ ~ NoteWaits(v.cli)
      /\ \A i \in 1..Len(v.cli.out) : v.cli.out[i].labels = <<>>
      /\ Unlike(v.cli) /\ SeenKnown(v.cli, v.side)
  BY <1>1, <1>2, <1>3, RenewedCli
<1>5. PICK c \in Cli, z \in Cli, y \in Cli : c = w.cli /\ z = v.cli /\ y = x.cli  BY <1>2, TypesOf
<1>6. sp.stops > 0 /\ sp.stops \in 0..MaxStops  BY <1>2, <1>3 DEF StopKnown, Strict, Spent
<1>7. note \in Nat /\ note > MaxInputs /\ note \in Id
  BY <1>2, <1>6 DEF Id, Notes
<1>8. y.out = z.out /\ y.turn = z.turn /\ y.stopped = z.stopped /\ y.pulled = z.pulled /\ z.turn = NoTurn
      /\ z.pulled = <<>> /\ Waiting(z) = <<>> /\ z.stopped = w.job.labels /\ v.side.seen = w.side.seen
  BY <1>5 DEF Renews, SendsNote, Cli
<1>9. Waiting(y) = Append(Waiting(z), note)
  <2>1. y = [z EXCEPT !.input = Append(@, note)]  BY <1>5 DEF SendsNote
  <2> QED  BY <1>7, <2>1, WaitingSent
<1>10. Waiting(y) = <<note>>  BY <1>8, <1>9
<1>11. Waiting(y) # <<>> /\ Head(Waiting(y)) = note /\ Tail(Waiting(y)) = <<>> /\ Len(Waiting(y)) = 1
       /\ Waiting(y)[1] = note
  BY <1>10
<1>12. NoteWaits(y)  BY <1>7, <1>11 DEF NoteWaits
<1>13. \A i : Passed(y, i) <=> Passed(z, i)  BY <1>8 DEF Passed, InTurn, InOut
<1>14. PICK sent \in [Id -> Marks] : sent = x.side.sent  BY TypesOf
<1>15. sent[note] = "sent" /\ \A i \in Id : i # note => sent[i] = "no"  BY <1>7, <1>14 DEF NoneKept, SendsNote
<1>16. x.job.by = "none"  BY DEF NoJob
<1>17. Shaped(x, k, p, sp)  BY <1>1, <1>4, <1>5, <1>8 DEF Good, Shaped, MessagesKnown
<1>18. InLine(x, k, p, a, st, sp)
  <2>1. PICK F, H : F = First(p, w.job) /\ H = Held(w.side, w.job)  OBVIOUS
  <2>2. PICK strict \in BOOLEAN : strict = Strict(w.side, w.job)  BY <1>2
  <2>3. PICK n \in Nat : n = Len(k)  BY <1>2
  <2>4. Line(c, F, H, n, a, st, note, strict)  BY <1>5, <2>1, <2>2, <2>3 DEF Good, InLine
  <2>5. Idle(c) /\ c.turn = NoTurn  BY <1>1, <1>5
  <2>6. PICK d \in Nat :
          /\ IsRun(a, 0, Len(a)) /\ IsRun(F, Len(a), d) /\ IsRun(H, d, n)
          /\ Begun(st, d) /\ Behind(c, d, note, strict) /\ Len(a) \in Nat /\ Len(a) <= d /\ d <= n
    BY <1>7, <2>4, <2>5, IdleLine
  <2>7. F = y.stopped /\ H = x.side.inputs /\ strict
    BY <1>8, <2>1, <2>2 DEF First, Held, Strict
  <2>8. PICK l \in Nat : l = Len(a)  BY <2>6
  <2>9. IsRun(<<>>, l, l) /\ IsRun(<<>>, d, d)  BY EmptyRun
  <2>10. Middle(y, l, d, d)  BY <1>11, <1>12, <2>6, <2>7, <2>8, <2>9 DEF Middle
  <2>11. Chain(y.out, l, l)
    <3>1. PICK o \in Seq(Msg), e \in Seq(Msg) : o = y.out /\ e = <<>>
      <4>1. y.out \in Seq(Msg) /\ <<>> \in Seq(Msg)  BY DEF Cli
      <4> QED  BY <4>1
    <3>2. Chain(e, l, l)  BY <3>1, ChainEmpty
    <3>3. \A i \in 1..Len(o) : o[i].labels = <<>>  BY <1>4, <1>5, <1>8, <3>1
    <3>4. Chain(e \o o, l, l)  BY <3>2, <3>3, ChainQuiet
    <3>5. e \o o = o  BY <3>1
    <3> QED  BY <3>1, <3>4, <3>5
  <2>12. PICK E, loose : E = <<>> /\ loose = FALSE  OBVIOUS
  <2>13. Behind(y, d, note, loose)
    <3>1. \A i \in Nat : Passed(y, i) => Passed(c, i)  BY <1>4, <1>5, <1>13
    <3>2. \A i \in Nat : Passed(c, i) => (1 <= i /\ i <= d) \/ (i > MaxInputs /\ i <= note)  BY <2>6 DEF Behind
    <3>3. \A i \in Nat : Passed(c, i) /\ i > d => i < note  BY <2>6, <2>7 DEF Behind
    <3> QED  BY <1>11, <3>1, <3>2, <3>3 DEF Behind
  <2>14. IsRun(E, Len(a), l) /\ IsRun(H, d, n)  BY <2>6, <2>8, <2>9, <2>12
  <2>15. Line(y, E, H, n, a, st, note, loose)
    BY <2>6, <2>10, <2>11, <2>13, <2>14 DEF Line
  <2>16. E = First(p, x.job) /\ H = Held(x.side, x.job) /\ Strict(x.side, x.job) = loose
    BY <1>1, <1>16, <2>7, <2>12 DEF First, Held, Strict
  <2> QED  BY <1>5, <2>3, <2>15, <2>16 DEF InLine
<1>19. Unlike(y)
  <2>1. Unlike(z)  BY <1>4, <1>5
  <2> QED  BY <1>8, <2>1 DEF Unlike, InTurn
<1>20. TurnMarked(y, sent, p)  BY <1>8 DEF TurnMarked, NoTurn
<1>21. AnswersMarked(y.out, sent, p)  BY <1>4, <1>5, <1>8 DEF AnswersMarked, NoAnswer
<1>22. WaitingMarked(y, sent)  BY <1>11, <1>15 DEF WaitingMarked
<1>23. PumpMarked(y.out, x.side, p, x.job)  BY <1>1 DEF PumpMarked
<1>24. Carried(y, sent, x.job)
  <2>1. InWaiting(y, note)  BY <1>11 DEF InWaiting
  <2> QED  BY <1>15, <2>1 DEF Carried
<1>25. SeenKnown(y, x.side)  BY <1>4, <1>5, <1>8 DEF SeenKnown
<1>26. JobKnown(x.side, x.job, y)  BY <1>16 DEF JobKnown
<1>27. StopKnown(x.side, x.job, p, y, sp)  BY <1>16 DEF StopKnown, Strict
<1>28. Placed(x, p, sp)
  BY <1>5, <1>14, <1>19, <1>20, <1>21, <1>22, <1>23, <1>24, <1>25, <1>26, <1>27 DEF Placed
<1>29. ~ NoneKept(x.side.sent)  BY <1>7, <1>14, <1>15 DEF NoneKept
<1> QED  BY <1>17, <1>18, <1>28, <1>29 DEF Good

\* Only the number of notes matters of what is spent.
LEMMA SpentFrame ==
  ASSUME NEW w, NEW k, NEW p, NEW a, NEW st, NEW sp, Good(w, k, p, a, st, sp),
         NEW r \in Spent, r.stops = sp.stops
  PROVE  Good(w, k, p, a, st, r)
<1>1. Shaped(w, k, p, r)  BY DEF Good, Shaped
<1>2. InLine(w, k, p, a, st, r)  BY DEF Good, InLine
<1>3. Placed(w, p, r)  BY DEF Good, Placed, StopKnown
<1> QED  BY <1>1, <1>2, <1>3 DEF Good

LEMMA NewCliIs ==
  ASSUME NEW input \in Seq(Nat), NEW context \in Nat, NEW stopped \in Seq(Nat),
         NEW y, y = NewCli(input, context, stopped)
  PROVE  /\ y \in Cli /\ y.input = input /\ y.before = 0 /\ y.pulled = <<>> /\ y.turn = NoTurn /\ y.out = <<>>
         /\ y.stopped = stopped
<1>1. <<>> \in Seq(Nat) /\ <<>> \in Seq(Msg)  OBVIOUS
<1>2. NoTurn \in Turn  BY <1>1 DEF NoTurn, Turn
<1> QED  BY <1>1, <1>2 DEF NewCli, Cli

\* What a rebuild leaves, whether it adopts the new generation or keeps the old one.
LEMMA RenewedIs ==
  ASSUME SessionInv, job.by # "none", NEW v, v = Adopt \/ v = KeepsGeneration
  PROVE  /\ v \in Worlds /\ Renews(World, v)
         /\ v.side.inputs = side.inputs /\ v.side.advancing = side.advancing /\ v.side.closed = side.closed
<1>1. /\ Good(World, kinds, pump, answers, started, spent) /\ World \in Worlds
      /\ World.side = side /\ World.cli = cli /\ World.job = job
      /\ side \in Side /\ cli \in Cli /\ job \in Job
  BY InvHolds
<1>2. /\ Idle(cli) /\ cli.turn = NoTurn /\ cli.pulled = <<>> /\ cli.before = 0 /\ cli.input = <<>>
  <2>1. PICK u, k, p, a, st, sp : u = World /\ k = kinds /\ p = pump /\ a = answers /\ st = started /\ sp = spent
    OBVIOUS
  <2>2. Good(u, k, p, a, st, sp) /\ u.job.by # "none" /\ u.cli = cli  BY <1>1, <2>1
  <2>3. /\ Idle(u.cli) /\ u.cli.turn = NoTurn
        /\ u.cli.pulled = <<>> /\ u.cli.before = 0 /\ u.cli.input = <<>>
    BY <2>2, JobRuns
  <2> QED  BY <2>2, <2>3
<1>3. Waiting(cli) = <<>>  BY <1>2 DEF Idle
<1>4. job.labels \in Seq(Nat) /\ cli.base \in Nat  BY <1>1 DEF Job, Cli
<1>5. NoJob \in Job /\ <<>> \in Seq(Nat)  BY DEF NoJob, Job
<1>6. CASE v = Adopt
  <2>1. PICK s : s = [side EXCEPT !.due = FALSE, !.floor = Unread, !.last = 0, !.compacting = FALSE]  OBVIOUS
  <2>2. /\ s \in Side /\ s.sent = side.sent /\ s.seen = side.seen /\ s.stopping = side.stopping
        /\ s.compacting = FALSE /\ s.inputs = side.inputs /\ s.advancing = side.advancing /\ s.closed = side.closed
    <3>1. Unread \in Int  BY DEF Unread
    <3> QED  BY <1>1, <2>1, <3>1 DEF Side
  <2>3. PICK y : y = NewCli(cli.input, cli.base, job.labels)  OBVIOUS
  <2>4. PICK ins, base, labels : ins = cli.input /\ base = cli.base /\ labels = job.labels  OBVIOUS
  <2>5. ins \in Seq(Nat) /\ base \in Nat /\ labels \in Seq(Nat) /\ y = NewCli(ins, base, labels)
    BY <1>2, <1>4, <1>5, <2>3, <2>4
  <2>6. /\ y \in Cli /\ y.input = ins /\ y.before = 0 /\ y.pulled = <<>> /\ y.turn = NoTurn /\ y.out = <<>>
        /\ y.stopped = labels
    BY <2>5, NewCliIs
  <2>7. Waiting(y) = <<>>
    <3>1. ins = <<>>  BY <1>2, <2>4
    <3> QED  BY <2>6, <3>1 DEF Waiting
  <2>8. v = [World EXCEPT !.side = s, !.cli = y, !.job = NoJob]  BY <1>1, <1>6, <2>1, <2>3 DEF Adopt
  <2>9. v \in Worlds /\ v.side = s /\ v.cli = y /\ v.job = NoJob  BY <1>1, <1>5, <2>2, <2>6, <2>8 DEF Worlds
  <2>10. Renews(World, v)  BY <1>1, <2>2, <2>4, <2>6, <2>7, <2>9 DEF Renews
  <2> QED  BY <2>2, <2>9, <2>10
<1>7. CASE v = KeepsGeneration
  <2>1. PICK failed \in BOOLEAN : failed = (side.midTurnFailed \/ job.by = "mid")  BY <1>1 DEF Side
  <2>2. PICK s : s = [side EXCEPT !.compacting = FALSE, !.midTurnFailed = failed]  OBVIOUS
  <2>3. /\ s \in Side /\ s.sent = side.sent /\ s.seen = side.seen /\ s.stopping = side.stopping
        /\ s.compacting = FALSE /\ s.inputs = side.inputs /\ s.advancing = side.advancing /\ s.closed = side.closed
    BY <1>1, <2>1, <2>2 DEF Side
  <2>4. PICK y : y = [cli EXCEPT !.stopped = job.labels]  OBVIOUS
  <2>5. /\ y \in Cli /\ y.input = cli.input /\ y.before = cli.before /\ y.pulled = cli.pulled
        /\ y.turn = cli.turn /\ y.out = cli.out /\ y.stopped = job.labels
    BY <1>1, <1>4, <2>4 DEF Cli
  <2>6. Waiting(y) = <<>>  BY <1>3, <2>5 DEF Waiting
  <2>7. v = [World EXCEPT !.side = s, !.cli = y, !.job = NoJob]
    <3>1. PICK q : q = World  OBVIOUS
    <3>2. q \in Worlds /\ q.side = side /\ q.cli = cli /\ q.job = job  BY <1>1, <3>1
    <3>3. v = [q EXCEPT !.side.compacting = FALSE, !.side.midTurnFailed = @ \/ job.by = "mid",
                        !.cli.stopped = job.labels, !.job = NoJob]
      BY <1>7, <3>1 DEF KeepsGeneration
    <3>4. v = [q EXCEPT !.side = [side EXCEPT !.compacting = FALSE, !.midTurnFailed = failed],
                        !.cli = [cli EXCEPT !.stopped = job.labels], !.job = NoJob]
      BY <1>1, <2>1, <3>2, <3>3 DEF Worlds, Side
    <3> QED  BY <2>2, <2>4, <3>1, <3>4
  <2>8. v \in Worlds /\ v.side = s /\ v.cli = y /\ v.job = NoJob  BY <1>1, <1>5, <2>3, <2>5, <2>7 DEF Worlds
  <2>9. Renews(World, v)  BY <1>1, <1>2, <2>3, <2>5, <2>6, <2>8 DEF Renews
  <2> QED  BY <2>3, <2>8, <2>9
<1> QED  BY <1>6, <1>7

\* What a rebuild begins with, and what it leaves to its caller.
RebuildEnds(u, k, p, a, st, sp, v) ==
  /\ Good(u, k, p, a, st, sp) /\ u.side.compacting
  /\ u.job.by # "none" /\ u = World /\ ~ side.closed
  /\ v \in Worlds /\ Renews(u, v) /\ v.side.inputs = u.side.inputs /\ v.side.advancing = u.side.advancing
  /\ v.side.closed = u.side.closed
  /\ kinds' = k /\ pump' = p /\ started' = st /\ spent' = sp /\ sp.stops = spent.stops /\ read' \in BOOLEAN
  /\ answers = a /\ a \in Seq(Nat) /\ answers' = a \o Answered
  /\ Becomes(Continues(v))

LEMMA EndFacts ==
  ASSUME NEW u, NEW k, NEW p, NEW a, NEW st, NEW sp, NEW v, RebuildEnds(u, k, p, a, st, sp, v)
  PROVE  /\ Good(u, k, p, a, st, sp) /\ u.side = side /\ u.cli = cli /\ u.job = job /\ job.by # "none"
         /\ side \in Side /\ cli \in Cli /\ job \in Job /\ JobKnown(side, job, cli)
         /\ ~ v.side.closed /\ ~ v.side.stopping /\ ~ v.side.compacting /\ v.side \in Side
         /\ v.side.advancing = side.advancing
         /\ (side.advancing <=> job.by \in {"send", "manual"})
<1>1. Good(u, k, p, a, st, sp) /\ u.job.by # "none" /\ Renews(u, v) /\ v \in Worlds  BY DEF RebuildEnds
<1>2. u \in Worlds /\ u.side \in Side /\ u.cli \in Cli /\ u.job \in Job  BY <1>1, GoodIds, TypesOf
<1>3. u.side = side /\ u.cli = cli /\ u.job = job  BY DEF RebuildEnds, World
<1>4. JobKnown(side, job, cli)  BY <1>1, <1>3 DEF Good, Placed
<1>5. ~ side.stopping /\ (side.advancing <=> job.by \in {"send", "manual"})  BY <1>1, <1>3, <1>4 DEF JobKnown
<1>6. ~ v.side.closed /\ ~ v.side.stopping /\ ~ v.side.compacting /\ v.side.advancing = side.advancing
  BY <1>1, <1>3, <1>5 DEF RebuildEnds, Renews
<1>7. v.side \in Side  BY <1>1, TypesOf
<1> QED  BY <1>1, <1>2, <1>3, <1>4, <1>5, <1>6, <1>7

LEMMA TurnEnded ==
  ASSUME NEW u, NEW k, NEW p, NEW a, NEW st, NEW sp, NEW v, RebuildEnds(u, k, p, a, st, sp, v), job.by = "turn"
  PROVE  SessionInv'
<1>1. /\ Good(u, k, p, a, st, sp) /\ u.side = side /\ u.cli = cli /\ u.job = job
      /\ side \in Side /\ cli \in Cli /\ job \in Job
      /\ ~ v.side.closed /\ ~ v.side.stopping /\ ~ v.side.compacting /\ v.side \in Side
      /\ v.side.advancing = side.advancing
      /\ (side.advancing <=> job.by \in {"send", "manual"})
  BY EndFacts
<1>2. /\ v \in Worlds /\ Renews(u, v) /\ v.side.inputs = u.side.inputs
      /\ kinds' = k /\ pump' = p /\ started' = st /\ spent' = sp /\ read' \in BOOLEAN
      /\ answers' = a \o Answered /\ Becomes(Continues(v))
  BY DEF RebuildEnds
<1>3. PICK b : b = a \o job.labels  OBVIOUS
<1>4. answers' = b  BY <1>2, <1>3 DEF Answered
<1>5. ~ v.side.advancing  BY <1>1
<1>6. RenewsLine(u, v, a, b)  BY <1>1, <1>2, <1>3 DEF RenewsLine
<1>7. Good(v, k, p, b, st, sp)  BY <1>1, <1>2, <1>5, <1>6, RenewKeeps
<1>8. PICK x : x = Advance(v, TRUE)  OBVIOUS
<1>9. Good(x, k, p, b, st, sp) /\ Awake(x.side)  BY <1>1, <1>2, <1>7, <1>8, AdvanceKeeps
<1>10. Becomes(x)  BY <1>2, <1>8 DEF Continues
<1> QED  BY <1>2, <1>4, <1>9, <1>10, InvThen

LEMMA ManualEnded ==
  ASSUME NEW u, NEW k, NEW p, NEW a, NEW st, NEW sp, NEW v, RebuildEnds(u, k, p, a, st, sp, v), job.by = "manual"
  PROVE  SessionInv'
<1>1. /\ Good(u, k, p, a, st, sp) /\ u.side = side /\ u.cli = cli /\ u.job = job
      /\ side \in Side /\ cli \in Cli /\ job \in Job
      /\ ~ v.side.closed /\ ~ v.side.stopping /\ ~ v.side.compacting /\ v.side \in Side
  BY EndFacts
<1>2. /\ v \in Worlds /\ Renews(u, v) /\ v.side.inputs = u.side.inputs
      /\ kinds' = k /\ pump' = p /\ started' = st /\ spent' = sp /\ read' \in BOOLEAN
      /\ answers' = a \o Answered /\ Becomes(Continues(v))
  BY DEF RebuildEnds
<1>3. PICK b : b = a \o <<job.id>>  OBVIOUS
<1>4. answers' = b  BY <1>2, <1>3 DEF Answered
<1>5. PICK y : y = [v EXCEPT !.side.advancing = FALSE]  OBVIOUS
<1>6. y \in Worlds /\ y.cli = v.cli /\ y.job = v.job /\ y.side = [v.side EXCEPT !.advancing = FALSE]
  BY <1>2, <1>5, AdvancingOff
<1>7. /\ ~ y.side.advancing /\ y.side.inputs = v.side.inputs /\ y.side.sent = v.side.sent
      /\ y.side.seen = v.side.seen /\ y.side.stopping = v.side.stopping /\ y.side.compacting = v.side.compacting
  BY <1>1, <1>6 DEF Side
<1>8. Renews(u, y)  BY <1>2, <1>6, <1>7 DEF Renews
<1>9. RenewsLine(u, y, a, b)  BY <1>1, <1>2, <1>3, <1>7 DEF RenewsLine
<1>10. Good(y, k, p, b, st, sp)  BY <1>1, <1>6, <1>7, <1>8, <1>9, RenewKeeps
<1>11. PICK waits \in BOOLEAN : waits = job.pump  BY <1>1 DEF Job
<1>12. PICK x : x = Advances(v, waits)  OBVIOUS
<1>13. Good(x, k, p, b, st, sp) /\ Awake(x.side)
  <2>1. v \in Worlds /\ kinds' = k /\ ~ v.side.closed  BY <1>1, <1>2
  <2> QED  BY <1>5, <1>10, <1>12, <2>1, AdvancesKeeps
<1>14. Becomes(x)
  <2>1. Continues(v) = Advances(v, job.pump)  BY DEF Continues
  <2> QED  BY <1>2, <1>11, <1>12, <2>1
<1> QED  BY <1>2, <1>4, <1>13, <1>14, InvThen

LEMMA SendEnded ==
  ASSUME NEW u, NEW k, NEW p, NEW a, NEW st, NEW sp, NEW v, RebuildEnds(u, k, p, a, st, sp, v), job.by = "send"
  PROVE  SessionInv'
<1>1. /\ Good(u, k, p, a, st, sp) /\ u.side = side /\ u.cli = cli /\ u.job = job
      /\ side \in Side /\ cli \in Cli /\ job \in Job
      /\ ~ v.side.closed /\ ~ v.side.stopping /\ ~ v.side.compacting /\ v.side \in Side
  BY EndFacts
<1>2. /\ v \in Worlds /\ Renews(u, v) /\ v.side.inputs = u.side.inputs
      /\ kinds' = k /\ pump' = p /\ started' = st /\ spent' = sp /\ read' \in BOOLEAN
      /\ a \in Seq(Nat) /\ answers' = a \o Answered /\ Becomes(Continues(v))
  BY DEF RebuildEnds
<1>3. answers' = a
  <2>1. Answered = <<>>  BY DEF Answered
  <2> QED  BY <1>2, <2>1
<1>4. PICK id \in Nat : id = job.id  BY <1>1 DEF Job
<1>5. PICK ins \in Seq(Nat) : ins = side.inputs  BY <1>1 DEF Side
<1>6. PICK more \in Seq(Nat) : more = <<id>> \o ins
  <2>1. <<id>> \o ins \in Seq(Nat)  OBVIOUS
  <2> QED  BY <2>1
<1>7. more # <<>> /\ Head(more) = id /\ Tail(more) = ins  BY <1>6
<1>8. PICK t : t = [v.side EXCEPT !.inputs = more, !.advancing = FALSE]  OBVIOUS
<1>9. /\ t \in Side /\ t.inputs = more /\ t.advancing = FALSE /\ t.sent = v.side.sent /\ t.seen = v.side.seen
      /\ t.stopping = v.side.stopping /\ t.compacting = v.side.compacting /\ t.closed = v.side.closed
  BY <1>1, <1>8 DEF Side
<1>10. PICK y : y = [v EXCEPT !.side = t]  OBVIOUS
<1>11. y \in Worlds /\ y.side = t /\ y.cli = v.cli /\ y.job = v.job  BY <1>2, <1>9, <1>10, SideIs
<1>12. Renews(u, y)  BY <1>2, <1>9, <1>11 DEF Renews
<1>13. RenewsLine(u, y, a, a)
  <2>1. y.side.inputs = <<u.job.id>> \o u.side.inputs  BY <1>1, <1>4, <1>5, <1>6, <1>9, <1>11
  <2> QED  BY <1>1, <2>1 DEF RenewsLine
<1>14. Good(y, k, p, a, st, sp)
  <2>1. ~ y.side.advancing  BY <1>9, <1>11
  <2> QED  BY <1>1, <1>11, <1>12, <1>13, <2>1, RenewKeeps
<1>15. PICK m : m = Send(v, id)  OBVIOUS
<1>16. Sends(v, m, id)  BY <1>2, <1>15, SendIs
<1>17. /\ m \in Worlds /\ m.job = v.job
       /\ m.side = [v.side EXCEPT !.sent = [v.side.sent EXCEPT ![id] = "sent"]]
       /\ m.cli = [v.cli EXCEPT !.input = Append(v.cli.input, id)]
  BY <1>16 DEF Sends
<1>18. PICK z : z = [m EXCEPT !.side.advancing = FALSE]  OBVIOUS
<1>19. z \in Worlds /\ z.cli = m.cli /\ z.job = m.job /\ z.side = [m.side EXCEPT !.advancing = FALSE]
  BY <1>17, <1>18, AdvancingOff
<1>20. /\ z.side.inputs = ins /\ z.side.sent = [y.side.sent EXCEPT ![id] = "sent"]
       /\ z.side.seen = y.side.seen /\ z.side.compacting = y.side.compacting
       /\ z.side.stopping = y.side.stopping /\ z.side.advancing = y.side.advancing /\ z.side.closed = FALSE
  <2>1. v.side.inputs = ins /\ v.side.closed = FALSE  BY <1>1, <1>2, <1>5 DEF Side
  <2>2. PICK ms \in Side, vs \in Side : ms = m.side /\ vs = v.side  BY <1>1, <1>17, TypesOf
  <2>3. PICK next : next = [vs.sent EXCEPT ![id] = "sent"]  OBVIOUS
  <2>4. ms = [vs EXCEPT !.sent = next]  BY <1>17, <2>2, <2>3
  <2>5. /\ ms.inputs = vs.inputs /\ ms.sent = next /\ ms.seen = vs.seen /\ ms.compacting = vs.compacting
        /\ ms.stopping = vs.stopping /\ ms.closed = vs.closed
    BY <2>4 DEF Side
  <2>6. z.side = [ms EXCEPT !.advancing = FALSE]  BY <1>19, <2>2
  <2>7. /\ z.side.inputs = ms.inputs /\ z.side.sent = ms.sent /\ z.side.seen = ms.seen
        /\ z.side.compacting = ms.compacting /\ z.side.stopping = ms.stopping /\ z.side.advancing = FALSE
        /\ z.side.closed = ms.closed
    BY <2>6 DEF Side
  <2>8. /\ vs.inputs = ins /\ vs.closed = FALSE /\ y.side.sent = vs.sent /\ y.side.seen = vs.seen
        /\ y.side.compacting = vs.compacting /\ y.side.stopping = vs.stopping /\ y.side.advancing = FALSE
    BY <1>9, <1>11, <2>1, <2>2
  <2>9. z.side.sent = [y.side.sent EXCEPT ![id] = "sent"]  BY <2>3, <2>5, <2>7, <2>8
  <2> HIDE <2>3
  <2> QED  BY <2>5, <2>7, <2>8, <2>9
<1>21. z.cli = [y.cli EXCEPT !.input = Append(@, id)] /\ z.job = y.job
  <2>1. v.cli \in Cli  BY <1>2, TypesOf
  <2> QED  BY <1>11, <1>17, <1>19, <2>1 DEF Cli
<1>22. SendsHead(y, z, id)  BY <1>7, <1>9, <1>11, <1>20, <1>21 DEF SendsHead
<1>23. Good(z, k, p, a, st, sp) /\ ~ NoneKept(z.side.sent)
  <2>1. y.job.by = "none" /\ ~ y.side.stopping  BY <1>1, <1>2, <1>9, <1>11 DEF Renews, NoJob
  <2> QED  BY <1>14, <1>19, <1>22, <2>1, SendKeeps
<1>24. PICK x : x = EndIfIdle(z)  OBVIOUS
<1>25. Good(x, k, p, a, st, sp) /\ Awake(x.side)  BY <1>20, <1>23, <1>24, EndIfIdleKeeps
<1>26. Becomes(x)
  <2>1. Continues(v) = EndIfIdle([Send(v, job.id) EXCEPT !.side.advancing = FALSE])  BY DEF Continues
  <2> QED  BY <1>2, <1>4, <1>15, <1>18, <1>24, <2>1
<1> QED  BY <1>2, <1>3, <1>25, <1>26, InvThen

LEMMA MidEnded ==
  ASSUME NEW u, NEW k, NEW p, NEW a, NEW st, NEW sp, NEW v, RebuildEnds(u, k, p, a, st, sp, v), job.by = "mid"
  PROVE  SessionInv'
<1>1. /\ Good(u, k, p, a, st, sp) /\ u.side = side /\ u.cli = cli /\ u.job = job
      /\ side \in Side /\ cli \in Cli /\ job \in Job /\ JobKnown(side, job, cli)
      /\ ~ v.side.closed /\ ~ v.side.stopping /\ ~ v.side.compacting /\ v.side \in Side
      /\ v.side.advancing = side.advancing
      /\ (side.advancing <=> job.by \in {"send", "manual"})
  BY EndFacts
<1>2. /\ v \in Worlds /\ Renews(u, v) /\ v.side.inputs = u.side.inputs
      /\ kinds' = k /\ pump' = p /\ started' = st /\ spent' = sp /\ read' \in BOOLEAN /\ sp.stops = spent.stops
      /\ a \in Seq(Nat) /\ answers' = a \o Answered /\ Becomes(Continues(v))
  BY DEF RebuildEnds
<1>3. answers' = a
  <2>1. Answered = <<>>  BY DEF Answered
  <2> QED  BY <1>2, <2>1
<1>4. PICK note \in Nat : note = MaxInputs + sp.stops
  <2>1. MaxInputs + sp.stops \in Nat  BY <1>1, GoodIds
  <2> QED  BY <2>1
<1>5. PICK t : t = Settled(v.side)  OBVIOUS
<1>6. /\ t \in Side /\ t.inputs = v.side.inputs /\ t.seen = v.side.seen /\ t.compacting = v.side.compacting
      /\ t.stopping = v.side.stopping /\ t.advancing = v.side.advancing /\ t.closed = v.side.closed
      /\ (NoneHeld(v.side.sent) => NoneKept(t.sent))
  BY <1>1, <1>5, SettledIs
<1>7. PICK kept \in [Id -> Marks] : kept = t.sent  BY <1>6 DEF Side
<1>8. NoneKept(kept)
  <2>1. NoneHeld(side.sent)  BY <1>1 DEF JobKnown
  <2>2. v.side.sent = side.sent  BY <1>1, <1>2 DEF Renews
  <2> QED  BY <1>6, <1>7, <2>1, <2>2
<1>9. PICK y : y = [v EXCEPT !.side = t]  OBVIOUS
<1>10. y \in Worlds /\ y.side = t /\ y.cli = v.cli /\ y.job = v.job  BY <1>2, <1>6, <1>9, SideIs
<1>11. PICK x : x = Send(y, note)  OBVIOUS
<1>12. Sends(y, x, note)  BY <1>10, <1>11, SendIs
<1>13. /\ x \in Worlds /\ x.job = v.job
       /\ x.side = [t EXCEPT !.sent = [t.sent EXCEPT ![note] = "sent"]]
       /\ x.cli = [v.cli EXCEPT !.input = Append(v.cli.input, note)]
  BY <1>10, <1>12 DEF Sends
<1>14. x.job = NoJob /\ ~ t.compacting /\ ~ t.stopping /\ ~ t.advancing /\ ~ t.closed
       /\ t.inputs = u.side.inputs /\ t.seen = u.side.seen
  BY <1>1, <1>2, <1>6, <1>13 DEF Renews
<1>15. /\ x.side.inputs = t.inputs /\ x.side.seen = t.seen /\ x.side.compacting = t.compacting
       /\ x.side.stopping = t.stopping /\ x.side.advancing = t.advancing /\ x.side.closed = t.closed
       /\ x.side.sent = [kept EXCEPT ![note] = "sent"]
  BY <1>6, <1>7, <1>13 DEF Side
<1>16. SendsNote(v, x, kept, note)
  <2>1. v.cli \in Cli  BY <1>2, TypesOf
  <2>2. x.cli = [v.cli EXCEPT !.input = Append(@, note)]  BY <1>13, <2>1 DEF Cli
  <2> QED  BY <1>15, <2>2 DEF SendsNote
<1>17. Good(x, k, p, a, st, sp) /\ ~ NoneKept(x.side.sent)
  <2>1. /\ x.side.inputs = u.side.inputs /\ x.side.seen = u.side.seen /\ ~ x.side.compacting
        /\ ~ x.side.stopping /\ ~ x.side.advancing
    BY <1>14, <1>15
  <2>2. u.job.by = "mid"  BY <1>1
  <2>3. /\ Good(u, k, p, a, st, sp) /\ v \in Worlds /\ Renews(u, v) /\ x \in Worlds /\ x.job = NoJob
    BY <1>1, <1>2, <1>13, <1>14
  <2> QED  BY <1>4, <1>8, <1>16, <2>1, <2>2, <2>3, NoteKeeps
<1>18. Awake(x.side)  BY <1>14, <1>15, <1>17 DEF Awake
<1>19. Becomes(x)
  <2>1. Continues(v) = Send([v EXCEPT !.side = Settled(v.side)], MaxInputs + spent.stops)  BY DEF Continues
  <2> QED  BY <1>2, <1>4, <1>5, <1>9, <1>11, <2>1
<1> QED  BY <1>2, <1>3, <1>17, <1>18, <1>19, InvThen

LEMMA RebuiltKeeps ==
  ASSUME SessionInv, ~ side.closed, NEW adopted \in BOOLEAN, Rebuilt(adopted)
  PROVE  SessionInv'
<1>1. /\ Good(World, kinds, pump, answers, started, spent) /\ read \in BOOLEAN
      /\ World.side = side /\ World.cli = cli /\ World.job = job
      /\ side \in Side /\ cli \in Cli /\ job \in Job /\ spent \in Spent
  BY InvHolds
<1>2. PICK u, k, p, a, st, r : u = World /\ k = kinds /\ p = pump /\ a = answers /\ st = started /\ r = spent
  OBVIOUS
<1>3. Good(u, k, p, a, st, r) /\ u.side = side /\ u.cli = cli /\ u.job = job  BY <1>1, <1>2
<1>4. PICK failures \in Nat : failures = IF adopted THEN spent.failures ELSE spent.failures + 1
  <2>1. spent.failures \in Nat  BY <1>1 DEF Spent
  <2>2. (IF adopted THEN spent.failures ELSE spent.failures + 1) \in Nat  BY <2>1
  <2> QED  BY <2>2
<1>5. PICK sp : sp = [spent EXCEPT !.failures = failures]  OBVIOUS
<1>6. sp \in Spent /\ sp.stops = r.stops /\ sp.stops = spent.stops  BY <1>1, <1>2, <1>5 DEF Spent
<1>7. spent' = sp
  <2>1. spent' = [spent EXCEPT !.failures = IF adopted THEN @ ELSE @ + 1]  BY DEF Rebuilt
  <2> QED  BY <1>1, <1>4, <1>5, <2>1 DEF Spent
<1>8. Good(u, k, p, a, st, sp)  BY <1>3, <1>6, SpentFrame
<1>9. job.by # "none" /\ u.job.by # "none"  BY <1>3 DEF Rebuilt
<1>10. PICK v : v = IF adopted THEN Adopt ELSE KeepsGeneration  OBVIOUS
<1>11. v = Adopt \/ v = KeepsGeneration  BY <1>10
<1>12. /\ v \in Worlds /\ Renews(u, v)
       /\ v.side.inputs = side.inputs /\ v.side.advancing = side.advancing /\ v.side.closed = side.closed
  <2>1. /\ v \in Worlds /\ Renews(World, v)
        /\ v.side.inputs = side.inputs /\ v.side.advancing = side.advancing /\ v.side.closed = side.closed
    BY <1>9, <1>11, RenewedIs
  <2> QED  BY <1>2, <2>1
<1>13. /\ kinds' = k /\ pump' = p /\ started' = st /\ read' \in BOOLEAN
       /\ answers' = a \o Answered /\ Becomes(Continues(v))
  BY <1>1, <1>2, <1>10 DEF Rebuilt
<1>14. a \in Seq(Nat)  BY <1>3 DEF Good, InLine, Line, IsRun
<1>15. u.side.compacting  BY <1>8, <1>9, JobRuns
<1>16. RebuildEnds(u, k, p, a, st, sp, v)
  BY <1>2, <1>3, <1>6, <1>7, <1>8, <1>9, <1>12, <1>13, <1>14, <1>15 DEF RebuildEnds
<1>17. CASE job.by = "turn"  BY <1>16, <1>17, TurnEnded
<1>18. CASE job.by = "manual"  BY <1>16, <1>18, ManualEnded
<1>19. CASE job.by = "send"  BY <1>16, <1>19, SendEnded
<1>20. CASE job.by = "mid"  BY <1>16, <1>20, MidEnded
<1>21. job.by \in {"turn", "mid", "send", "manual"}  BY <1>1, <1>9 DEF Job
<1> QED  BY <1>17, <1>18, <1>19, <1>20, <1>21

-----------------------------------------------------------------------------
(* The invariant, and what it says to the host.                             *)

LEMMA InitGood ==
  ASSUME SessionInit
  PROVE  SessionInv
<1>1. MaxInputs \in Nat /\ MaxStops \in Nat /\ Trigger \in Nat  BY SessionBounds
<1>2. PICK c : c = cli  OBVIOUS
<1>3. PICK context \in Nat, e \in Seq(Nat) : c = NewCli(e, context, e) /\ e = <<>>
  <2>1. <<>> \in Seq(Nat) /\ 0 \in Nat  OBVIOUS
  <2>2. cli = NewCli(<<>>, 0, <<>>) \/ cli = NewCli(<<>>, Trigger, <<>>)  BY DEF SessionInit
  <2> QED  BY <1>1, <1>2, <2>1, <2>2
<1>4. /\ c \in Cli /\ c.input = <<>> /\ c.before = 0 /\ c.pulled = <<>> /\ c.turn = NoTurn /\ c.out = <<>>
      /\ c.stopped = <<>>
  <2>1. /\ c \in Cli /\ c.input = e /\ c.before = 0 /\ c.pulled = <<>> /\ c.turn = NoTurn /\ c.out = <<>>
        /\ c.stopped = e
    <3>1. c = NewCli(e, context, e)  BY <1>3
    <3> QED  BY <3>1, NewCliIs
  <2> QED  BY <1>3, <2>1
<1>5. Waiting(c) = <<>> /\ c.turn.stage = "none" /\ Len(c.out) = 0 /\ Len(c.turn.uuids) = 0
  BY <1>4 DEF Waiting, NoTurn
<1>6. PICK sent : sent = [i \in Prompts \cup Notes |-> "no"]  OBVIOUS
<1>7. sent \in [Id -> Marks] /\ NoneKept(sent)  BY <1>6 DEF Id, Marks, NoneKept
<1>8. PICK s : s = side  OBVIOUS
<1>9. /\ s \in Side /\ s.sent = sent /\ s.inputs = <<>> /\ ~ s.seen /\ ~ s.compacting /\ ~ s.stopping
      /\ ~ s.advancing /\ ~ s.inputEnded /\ ~ s.closed
  <2>1. side = [inputs |-> <<>>, sent |-> sent, seen |-> FALSE, due |-> FALSE,
                compacting |-> FALSE, stopping |-> FALSE, midTurnFailed |-> FALSE, turnOpen |-> FALSE,
                advancing |-> FALSE, last |-> 0, floor |-> NoFloor, inputEnded |-> FALSE, closed |-> FALSE]
    BY <1>6 DEF SessionInit
  <2>2. NoFloor \in Int /\ <<>> \in Seq(Nat)  BY DEF NoFloor
  <2> QED  BY <1>7, <1>8, <2>1, <2>2 DEF Side
<1>10. PICK j : j = job  OBVIOUS
<1>11. j = NoJob /\ j.by = "none" /\ j \in Job /\ j.labels = <<>>
  <2>1. <<>> \in Seq(Nat)  OBVIOUS
  <2> QED  BY <1>10, <2>1 DEF SessionInit, NoJob, Job
<1>12. PICK w : w = World  OBVIOUS
<1>13. w \in Worlds /\ w.side = s /\ w.cli = c /\ w.job = j
  BY <1>2, <1>4, <1>8, <1>9, <1>10, <1>11, <1>12 DEF World, Worlds
<1>14. PICK k, p, a, st, sp : k = kinds /\ p = pump /\ a = answers /\ st = started /\ sp = spent  OBVIOUS
<1>15. /\ k = <<>> /\ p = NoMessage /\ a = <<>> /\ st = <<>> /\ sp = [stops |-> 0, failures |-> 0, reads |-> 0]
  BY <1>14 DEF SessionInit
<1>16. p \in Msg /\ p.t = "none" /\ p.labels = <<>>
  <2>1. <<>> \in Seq(Nat)  OBVIOUS
  <2> QED  BY <1>15, <2>1 DEF NoMessage, Msg, MsgKinds
<1>17. sp \in Spent /\ sp.stops = 0  BY <1>1, <1>15 DEF Spent
<1>18. k \in Kinds /\ Len(k) = 0  BY <1>15 DEF Kinds
<1>19. Shaped(w, k, p, sp)
  BY <1>1, <1>5, <1>13, <1>15, <1>16, <1>17, <1>18 DEF Shaped, MessagesKnown
<1>20. \A v : ~ Passed(c, v)  BY <1>5 DEF Passed, InTurn, InOut
<1>21. InLine(w, k, p, a, st, sp)
  <2>0. PICK d \in Nat : d = 0  OBVIOUS
  <2>1. PICK H, F, loose : H = s.inputs /\ F = p.labels /\ loose = FALSE  OBVIOUS
  <2>2. IsRun(a, d, d) /\ IsRun(H, d, d)
    <3>1. IsRun(<<>>, d, d)  BY EmptyRun
    <3> QED  BY <1>9, <1>15, <2>1, <3>1
  <2>3. IsRun(a, 0, d)  BY <2>0, <2>2
  <2>4. Begun(st, d)
    <3>1. Len(st) = 0 /\ st \in Seq(Nat)  BY <1>15
    <3> QED  BY <3>1 DEF Begun
  <2>5. PICK n : n = Len(k)  OBVIOUS
  <2>6. IsRun(H, d, n)  BY <1>18, <2>0, <2>2, <2>5
  <2>7. PICK top : top = MaxInputs + sp.stops  OBVIOUS
  <2>8. \A v \in Nat : Passed(c, v) => (1 <= v /\ v <= d) \/ (v > MaxInputs /\ v <= top)  BY <1>20
  <2>9. \A i \in 1..Len(c.out) : c.out[i].labels = <<>>  BY <1>5
  <2>10. F = <<>> /\ ~ loose  BY <1>16, <2>1
  <2>11. Waiting(c) = <<>> /\ c.turn = NoTurn  BY <1>4, <1>5
  <2>12. Line(c, F, H, n, a, st, top, loose)  BY <1>4, <2>3, <2>4, <2>6, <2>8, <2>9, <2>10, <2>11, QuietLine
  <2>13. F = First(p, j) /\ H = Held(s, j) /\ Strict(s, j) = loose
    BY <1>9, <1>11, <2>1 DEF First, Held, Strict
  <2> QED  BY <1>13, <2>5, <2>7, <2>12, <2>13 DEF InLine
<1>22. Unlike(c)  BY <1>5 DEF Unlike
<1>23. TurnMarked(c, sent, p) /\ AnswersMarked(c.out, sent, p) /\ WaitingMarked(c, sent)
  BY <1>4, <1>5 DEF TurnMarked, AnswersMarked, WaitingMarked
<1>24. PumpMarked(c.out, s, p, j)  BY <1>16 DEF PumpMarked
<1>25. Carried(c, sent, j)  BY <1>7 DEF Carried, NoneKept
<1>26. SeenKnown(c, s)  BY <1>4, <1>5 DEF SeenKnown
<1>27. JobKnown(s, j, c)  BY <1>9, <1>11 DEF JobKnown
<1>28. StopKnown(s, j, p, c, sp)  BY <1>9, <1>11 DEF StopKnown, Strict
<1>29. Placed(w, p, sp)
  BY <1>9, <1>13, <1>22, <1>23, <1>24, <1>25, <1>26, <1>27, <1>28 DEF Placed
<1>30. Good(w, k, p, a, st, sp)  BY <1>19, <1>21, <1>29 DEF Good
<1>31. Awake(s)  BY <1>9 DEF Awake
<1> QED  BY <1>8, <1>12, <1>14, <1>30, <1>31 DEF SessionInv, SessionInit

LEMMA SessionKeeps ==
  ASSUME SessionInv, [SessionNext]_sessionVars
  PROVE  SessionInv'
<1>1. CASE UNCHANGED sessionVars  BY <1>1 DEF sessionVars, SessionInv, World
<1>2. ASSUME NEW kind \in {"prompt", "compact"}, ~ side.closed, PushUser(kind) PROVE SessionInv'
  BY <1>2, PushUserKeeps
<1>3. ASSUME ~ side.closed, EndInput PROVE SessionInv'  BY <1>3, EndInputKeeps
<1>4. ASSUME ReadAgain PROVE SessionInv'  BY <1>4, ReadAgainKeeps
<1>5. ASSUME NEW usable \in BOOLEAN, ReadArrives(usable) PROVE SessionInv'  BY <1>5, ReadArrivesKeeps
<1>6. ASSUME ~ side.closed, Pull PROVE SessionInv'  BY <1>6, PullKeeps
<1>7. ASSUME ~ side.closed, Pulled PROVE SessionInv'  BY <1>7, PulledKeeps
<1>8. ASSUME NEW tool \in BOOLEAN, ~ side.closed, Request(tool) PROVE SessionInv'  BY <1>8, RequestKeeps
<1>9. ASSUME NEW terminal \in {"result", "hook_stopped", "interrupted"}, TurnEnds(terminal) PROVE SessionInv'
  BY <1>9, TurnEndsKeeps
<1>10. ASSUME NEW safe \in BOOLEAN, NEW folds \in BOOLEAN, ~ side.closed, PostToolUse(safe, folds) PROVE SessionInv'
  BY <1>10, PostToolUseKeeps
<1>11. ASSUME ~ side.closed, OnLifecycle PROVE SessionInv'  BY <1>11, OnLifecycleKeeps
<1>12. ASSUME ~ side.closed, OnAssistant PROVE SessionInv'  BY <1>12, OnAssistantKeeps
<1>13. ASSUME ~ side.closed, OnResult PROVE SessionInv'  BY <1>13, OnResultKeeps
<1>14. ASSUME ~ side.closed, ResultCaptured PROVE SessionInv'  BY <1>14, ResultCapturedKeeps
<1>15. ASSUME NEW adopted \in BOOLEAN, ~ side.closed, Rebuilt(adopted) PROVE SessionInv'  BY <1>15, RebuiltKeeps
<1> QED  BY <1>1, <1>2, <1>3, <1>4, <1>5, <1>6, <1>7, <1>8, <1>9, <1>10, <1>11, <1>12, <1>13, <1>14, <1>15
         DEF SessionNext, SessionStep

LEMMA InvOrders ==
  ASSUME SessionInv
  PROVE  InputOrder
<1>1. PICK u, k, p, a, st, sp : u = World /\ k = kinds /\ p = pump /\ a = answers /\ st = started /\ sp = spent
  OBVIOUS
<1>2. Good(u, k, p, a, st, sp)  BY <1>1, InvHolds
<1>3. PICK d : IsRun(a, 0, Len(a)) /\ Begun(st, d)  BY <1>2 DEF Good, InLine, Line
<1>4. \A i \in DOMAIN a : a[i] = i
  <2>1. a \in Seq(Nat) /\ \A i \in 1..Len(a) : a[i] = 0 + i  BY <1>3 DEF IsRun
  <2> QED  BY <2>1
<1>5. \A i, j \in DOMAIN st : i < j => st[i] < st[j]
  <2>1. Begun(st, d)  BY <1>3
  <2> QED  BY <2>1 DEF Begun
<1> QED  BY <1>1, <1>4, <1>5 DEF InputOrder

\* Nothing is on its way in a session that is quiet, and it keeps nothing.
LEMMA QuietKeepsNothing ==
  ASSUME NEW w, NEW k, NEW p, NEW a, NEW st, NEW sp, Good(w, k, p, a, st, sp),
         NEW c \in Cli, c = w.cli, c.input = <<>>, c.before = 0, c.pulled = <<>>, c.turn = NoTurn, c.out = <<>>,
         w.job = NoJob
  PROVE  NoneKept(w.side.sent) /\ ~ w.side.compacting
<1>1. Carried(c, w.side.sent, w.job) /\ JobKnown(w.side, w.job, c)  BY DEF Good, Placed
<1>2. w.job.by = "none"  BY DEF NoJob
<1>3. Len(Waiting(c)) = 0 /\ Len(c.turn.uuids) = 0 /\ Len(c.out) = 0  BY DEF Waiting, NoTurn
<1>4. \A x : ~ InWaiting(c, x) /\ ~ InTurn(c, x) /\ ~ InOut(c, "completed", x)
  BY <1>3 DEF InWaiting, InTurn, InOut
<1>5. NoneKept(w.side.sent)  BY <1>1, <1>2, <1>4 DEF Carried, NoneKept
<1>6. ~ w.side.compacting  BY <1>1, <1>2 DEF JobKnown
<1> QED  BY <1>5, <1>6

\* With nothing on its way and nothing held, every input is answered.
LEMMA AllAnswered ==
  ASSUME NEW w, NEW k, NEW p, NEW a, NEW st, NEW sp, Good(w, k, p, a, st, sp),
         NoneKept(w.side.sent), ~ w.side.compacting, w.side.inputs = <<>>
  PROVE  Len(a) = Len(k)
<1>1. Idle(w.cli) /\ w.cli.turn = NoTurn /\ p = NoMessage  BY KeptNothing
<1>2. JobKnown(w.side, w.job, w.cli)  BY DEF Good, Placed
<1>3. w.job.by = "none"  BY <1>2 DEF JobKnown
<1>4. /\ w.cli \in Cli /\ Len(k) \in Nat /\ MaxInputs + sp.stops \in Nat /\ Strict(w.side, w.job) \in BOOLEAN
  BY GoodIds
<1>5. PICK c \in Cli, n \in Nat, top \in Nat, strict \in BOOLEAN :
        c = w.cli /\ n = Len(k) /\ top = MaxInputs + sp.stops /\ strict = Strict(w.side, w.job)
  BY <1>4
<1>6. PICK F, H : F = First(p, w.job) /\ H = Held(w.side, w.job)  OBVIOUS
<1>7. Line(c, F, H, n, a, st, top, strict)  BY <1>5, <1>6 DEF Good, InLine
<1>8. F = <<>> /\ H = <<>>  BY <1>1, <1>3, <1>6 DEF First, Held, NoMessage
<1>9. Idle(c) /\ c.turn = NoTurn  BY <1>1, <1>5
<1>10. PICK d \in Nat : IsRun(F, Len(a), d) /\ IsRun(H, d, n) /\ Len(a) \in Nat
  BY <1>7, <1>9, IdleLine
<1>11. d = Len(a) /\ n = d
  <2>1. IsRun(<<>>, Len(a), d) /\ IsRun(<<>>, d, n)  BY <1>8, <1>10
  <2> QED  BY <1>10, <2>1, EmptyRun
<1> QED  BY <1>5, <1>11

LEMMA InvQuiets ==
  ASSUME SessionInv
  PROVE  QuietMeansAnswered
<1>1. /\ Good(World, kinds, pump, answers, started, spent) /\ Awake(side)
      /\ World.side = side /\ World.cli = cli /\ World.job = job /\ side \in Side /\ cli \in Cli
  BY InvHolds
<1>2. PICK u, k, p, a, st, sp : u = World /\ k = kinds /\ p = pump /\ a = answers /\ st = started /\ sp = spent
  OBVIOUS
<1>3. Good(u, k, p, a, st, sp) /\ u.side = side /\ u.cli = cli /\ u.job = job  BY <1>1, <1>2
<1>4. ASSUME Quiet \/ side.closed PROVE NoneKept(side.sent) /\ ~ side.compacting
  <2>1. CASE side.closed  BY <1>1, <2>1 DEF Awake
  <2>2. CASE Quiet
    <3>1. PICK c \in Cli : c = cli  BY <1>1
    <3>2. /\ c = u.cli /\ c.input = <<>> /\ c.before = 0 /\ c.pulled = <<>> /\ c.turn = NoTurn /\ c.out = <<>>
          /\ u.job = NoJob
      BY <1>3, <2>2, <3>1 DEF Quiet
    <3>3. NoneKept(u.side.sent) /\ ~ u.side.compacting  BY <1>3, <3>2, QuietKeepsNothing
    <3> QED  BY <1>3, <3>3
  <2> QED  BY <1>4, <2>1, <2>2
<1>5. ASSUME NoneKept(side.sent), ~ side.compacting PROVE side.inputs = <<>> /\ Len(answers) = Len(kinds)
  <2>1. ~ side.stopping
    <3>1. NoneKept(u.side.sent)  BY <1>3, <1>5
    <3>2. ~ u.side.stopping  BY <1>3, <3>1, KeptNothing
    <3> QED  BY <1>3, <3>2
  <2>2. side.inputs = <<>>  BY <1>1, <1>5, <2>1 DEF Awake
  <2>3. NoneKept(u.side.sent) /\ ~ u.side.compacting /\ u.side.inputs = <<>>  BY <1>3, <1>5, <2>2
  <2>4. Len(a) = Len(k)  BY <1>3, <2>3, AllAnswered
  <2> QED  BY <1>2, <2>2, <2>4
<1>6. ASSUME NoneKept(side.sent), ~ side.compacting, side.inputs = <<>>, side.inputEnded PROVE side.closed
  BY <1>1, <1>6 DEF Awake
<1> QED  BY <1>4, <1>5, <1>6 DEF QuietMeansAnswered

LEMMA SessionHolds == SessionSpec => []SessionInv
<1>1. SessionInit => SessionInv  BY InitGood
<1>2. SessionInv /\ [SessionNext]_sessionVars => SessionInv'  BY SessionKeeps
<1> QED  BY <1>1, <1>2, PTL DEF SessionSpec

\* Every input of the host is answered once and in the order it was sent, and every prompt is
\* started once and in that order, whatever generations are replaced (session.ts).
THEOREM SessionAnswersInOrder == SessionSpec => []InputOrder
<1>1. SessionInv => InputOrder  BY InvOrders
<1> QED  BY <1>1, SessionHolds, PTL

\* A session in which nothing is on its way has answered everything, and has closed if its
\* input ended (session.ts).
THEOREM QuietSessionIsAnswered == SessionSpec => []QuietMeansAnswered
<1>1. SessionInv => QuietMeansAnswered  BY InvQuiets
<1> QED  BY <1>1, SessionHolds, PTL

-----------------------------------------------------------------------------
(* What the session was told of the context of its generation.              *)

\* Every reading of a generation is past the size it began with, up to the bound.
Heard(c) ==
  /\ c.context <= MaxContext /\ c.base <= c.context
  /\ \A n \in 1..Len(c.out) : c.out[n].t = "assistant" =>
       c.out[n].n <= c.context /\ (c.out[n].n > c.base \/ c.out[n].n = MaxContext)

NewContext(s, c) == s.floor # NoFloor /\ ~ c.reread => c.context >= c.base + 2

Told(s, c) ==
  /\ s.last <= c.context
  /\ s.floor \in {NoFloor, Unread} \/ s.floor >= 0
  /\ s.floor >= 0 => s.floor > c.base \/ s.floor = MaxContext
  /\ s.floor = Unread /\ ~ c.reread => s.last = 0
  /\ s.due \/ s.stopping => NewContext(s, c)

Readings == Heard(cli) /\ Told(side, cli)

\* What NewContextFirst says of one step.
NewFirst ==
  job = NoJob /\ job'.by \in {"turn", "mid", "send"} /\ side.floor # NoFloor /\ ~ cli.reread
  => cli.context >= cli.base + 2

\* A context past the trigger and past the first reading is a new one.
LEMMA PastIsNew ==
  ASSUME NEW s \in Side, NEW c \in Cli, Heard(c), Told(s, c), PastTrigger(s)
  PROVE  NewContext(s, c)
<1> SUFFICES ASSUME s.floor # NoFloor, ~ c.reread PROVE c.context >= c.base + 2  BY DEF NewContext
<1>1. s.last \in Nat /\ s.floor \in Int /\ c.context \in Nat /\ c.base \in Nat  BY DEF Side, Cli
<1>2. Trigger \in Nat /\ Trigger # 0 /\ MaxContext \in Nat  BY SessionBounds
<1>3. s.last >= Trigger /\ s.last > s.floor  BY DEF PastTrigger
<1>4. s.floor # Unread  BY <1>1, <1>2, <1>3 DEF Told
<1>5. s.floor >= 0 /\ (s.floor > c.base \/ s.floor = MaxContext) /\ s.last <= c.context  BY <1>4 DEF Told
<1>6. c.context <= MaxContext  BY DEF Heard
<1> QED  BY <1>1, <1>2, <1>3, <1>5, <1>6

\* A step that tells nothing new of the context.
OnlyTells(s, c, t, d) ==
  /\ t.last = s.last /\ t.floor = s.floor
  /\ t.due \/ t.stopping => s.due \/ s.stopping \/ PastTrigger(s)
  /\ d.base = c.base /\ d.context = c.context /\ (c.reread => d.reread)
  /\ \A n \in 1..Len(d.out) : d.out[n].t # "assistant" \/ \E m \in 1..Len(c.out) : d.out[n] = c.out[m]

LEMMA TellsKeeps ==
  ASSUME NEW s \in Side, NEW c \in Cli, Heard(c), Told(s, c), NEW t, NEW d, OnlyTells(s, c, t, d)
  PROVE  Heard(d) /\ Told(t, d)
<1>1. NewContext(s, c) \/ ~ (s.due \/ s.stopping \/ PastTrigger(s))  BY PastIsNew DEF Told
<1>2. /\ t.last = s.last /\ t.floor = s.floor
      /\ (t.due \/ t.stopping => s.due \/ s.stopping \/ PastTrigger(s))
      /\ d.base = c.base /\ d.context = c.context /\ (c.reread => d.reread)
  BY DEF OnlyTells
<1>3. Heard(d)  BY <1>2 DEF Heard, OnlyTells
<1>4. t.due \/ t.stopping => NewContext(t, d)  BY <1>1, <1>2 DEF NewContext
<1>5. Told(t, d)  BY <1>2, <1>4 DEF Told
<1> QED  BY <1>3, <1>5

\* What lets a step begin a compact.
MayBegin(s) == s.due \/ s.stopping \/ PastTrigger(s)

LEMMA StepTells ==
  ASSUME SessionInv, Readings, OnlyTells(side, cli, side', cli'),
         job'.by \in {"none", "manual"} \/ job' = job \/ job # NoJob \/ MayBegin(side)
  PROVE  Readings' /\ NewFirst
<1>1. side \in Side /\ cli \in Cli  BY InvHolds
<1>2. PICK s \in Side, c \in Cli : s = side /\ c = cli  BY <1>1
<1>3. PICK t, d : t = side' /\ d = cli'  OBVIOUS
<1>4. Heard(c) /\ Told(s, c) /\ OnlyTells(s, c, t, d)  BY <1>2, <1>3 DEF Readings
<1>5. Heard(d) /\ Told(t, d)  BY <1>4, TellsKeeps
<1>6. Readings'  BY <1>3, <1>5 DEF Readings
<1>7. NewFirst
  <2>1. ASSUME MayBegin(s) PROVE NewContext(s, c)  BY <1>4, <2>1, PastIsNew DEF MayBegin, Told
  <2>2. NoJob.by = "none"  BY DEF NoJob
  <2> QED  BY <1>2, <2>1, <2>2 DEF NewFirst, NewContext
<1> QED  BY <1>6, <1>7

-----------------------------------------------------------------------------
(* The steps that go on to other inputs.                                    *)

Tells(w, x) ==
  /\ x.side.last = w.side.last /\ x.side.floor = w.side.floor
  /\ x.side.due => w.side.due
  /\ x.side.stopping = w.side.stopping
  /\ x.cli.base = w.cli.base /\ x.cli.context = w.cli.context /\ x.cli.reread = w.cli.reread
  /\ x.cli.out = w.cli.out

LEMMA TellsSide ==
  ASSUME NEW w \in Worlds, NEW s \in Side, NEW x, x = [w EXCEPT !.side = s],
         s.last = w.side.last, s.floor = w.side.floor, s.due => w.side.due, s.stopping = w.side.stopping
  PROVE  Tells(w, x) /\ x.job = w.job /\ x \in Worlds
<1>1. x \in Worlds /\ x.side = s /\ x.cli = w.cli /\ x.job = w.job  BY SideIs
<1> QED  BY <1>1 DEF Tells

LEMMA EndTells ==
  ASSUME NEW w \in Worlds, NEW x, x = EndIfIdle(w)
  PROVE  Tells(w, x) /\ x.job = w.job
<1>1. PICK s \in Side : s = w.side  BY TypesOf
<1>2. PICK t : t = [s EXCEPT !.closed = TRUE]  OBVIOUS
<1>3. t \in Side /\ t.last = s.last /\ t.floor = s.floor /\ t.due = s.due /\ t.stopping = s.stopping
  BY <1>2 DEF Side
<1>4. PICK y : y = [w EXCEPT !.side = t]  OBVIOUS
<1>5. Tells(w, y) /\ y.job = w.job
  <2>1. t.last = w.side.last /\ t.floor = w.side.floor /\ (t.due => w.side.due) /\ t.stopping = w.side.stopping
    BY <1>1, <1>3
  <2> QED  BY <1>3, <1>4, <2>1, TellsSide
<1>6. x = w \/ x = y
  <2>1. y = [w EXCEPT !.side.closed = TRUE]  BY <1>1, <1>2, <1>4
  <2> QED  BY <2>1 DEF EndIfIdle
<1>7. Tells(w, w)  BY DEF Tells
<1> QED  BY <1>5, <1>6, <1>7

LEMMA SendTells ==
  ASSUME NEW w \in Worlds, NEW id \in Nat, NEW x, x = Send(w, id)
  PROVE  Tells(w, x) /\ x.job = w.job /\ x \in Worlds
<1>1. /\ x \in Worlds /\ x.job = w.job
      /\ x.side = [w.side EXCEPT !.sent = [w.side.sent EXCEPT ![id] = "sent"]]
      /\ x.cli = [w.cli EXCEPT !.input = Append(w.cli.input, id)]
  <2>1. Sends(w, x, id)  BY SendIs
  <2> QED  BY <2>1 DEF Sends
<1>2. PICK s \in Side, c \in Cli : s = w.side /\ c = w.cli  BY TypesOf
<1>3. PICK next, ins : next = [s.sent EXCEPT ![id] = "sent"] /\ ins = Append(c.input, id)  OBVIOUS
<1>4. x.side = [s EXCEPT !.sent = next] /\ x.cli = [c EXCEPT !.input = ins]  BY <1>1, <1>2, <1>3
<1> HIDE <1>3
<1>5. /\ x.side.last = s.last /\ x.side.floor = s.floor /\ x.side.due = s.due /\ x.side.stopping = s.stopping
  BY <1>4 DEF Side
<1>6. /\ x.cli.base = c.base /\ x.cli.context = c.context /\ x.cli.reread = c.reread /\ x.cli.out = c.out
  BY <1>4 DEF Cli
<1> QED  BY <1>1, <1>2, <1>5, <1>6 DEF Tells

LEMMA OffTells ==
  ASSUME NEW w \in Worlds, NEW x, x = [w EXCEPT !.side.advancing = FALSE]
  PROVE  Tells(w, x) /\ x.job = w.job /\ x \in Worlds
<1>1. x \in Worlds /\ x.cli = w.cli /\ x.job = w.job /\ x.side = [w.side EXCEPT !.advancing = FALSE]  BY AdvancingOff
<1>2. PICK s \in Side : s = w.side  BY TypesOf
<1>3. x.side.last = s.last /\ x.side.floor = s.floor /\ x.side.due = s.due /\ x.side.stopping = s.stopping
  BY <1>1, <1>2 DEF Side
<1> QED  BY <1>1, <1>2, <1>3 DEF Tells

LEMMA CompactsIs ==
  ASSUME NEW w \in Worlds, NEW by, NEW id, NEW labels, NEW waits, NEW x, x = Compacts(w, by, id, labels, waits)
  PROVE  Tells(w, x) /\ x.job.by = by
<1>1. PICK s \in Side : s = w.side  BY TypesOf
<1>2. PICK t, j : t = [s EXCEPT !.compacting = TRUE] /\ j = [by |-> by, id |-> id, labels |-> labels, pump |-> waits]
  OBVIOUS
<1>3. t.last = s.last /\ t.floor = s.floor /\ t.due = s.due /\ t.stopping = s.stopping /\ j.by = by
  BY <1>2 DEF Side
<1>4. x = [w EXCEPT !.side = t, !.job = j]  BY <1>1, <1>2 DEF Compacts
<1>5. x.side = t /\ x.job = j /\ x.cli = w.cli  BY <1>4 DEF Worlds
<1> QED  BY <1>1, <1>3, <1>5 DEF Tells

LEMMA AdvancesTells ==
  ASSUME NEW w \in Worlds, NEW waits, NEW x, x = Advances(w, waits)
  PROVE  Tells(w, x) /\ (x.job = w.job \/ x.job.by = "manual" \/ w.side.due)
<1>1. PICK s \in Side : s = w.side  BY TypesOf
<1>2. CASE ~ MayAdvance(w.side) \/ w.side.inputs = <<>>
  <2>1. PICK v : v = [w EXCEPT !.side.advancing = FALSE]  OBVIOUS
  <2>2. Tells(w, v) /\ v.job = w.job /\ v \in Worlds  BY <2>1, OffTells
  <2>3. x = EndIfIdle(v)  BY <1>2, <2>1 DEF Advances
  <2>4. Tells(v, x) /\ x.job = v.job  BY <2>2, <2>3, EndTells
  <2> QED  BY <2>2, <2>4 DEF Tells
<1>3. CASE MayAdvance(w.side) /\ w.side.inputs # <<>>
  <2>1. PICK i \in Seq(Nat) : i = s.inputs /\ i # <<>>  BY <1>1, <1>3 DEF Side
  <2>2. PICK id \in Nat : id = Head(i)  BY <2>1
  <2>3. PICK rest \in Seq(Nat) : rest = Tail(i)
    <3>1. Tail(i) \in Seq(Nat)  BY <2>1
    <3> QED  BY <3>1
  <2>4. PICK t : t = [s EXCEPT !.inputs = rest]  OBVIOUS
  <2>5. t \in Side /\ t.last = s.last /\ t.floor = s.floor /\ t.due = s.due /\ t.stopping = s.stopping
    BY <2>4 DEF Side
  <2>6. PICK taken : taken = [w EXCEPT !.side = t]  OBVIOUS
  <2>7. Tells(w, taken) /\ taken.job = w.job /\ taken \in Worlds
    <3>1. t.last = w.side.last /\ t.floor = w.side.floor /\ (t.due => w.side.due) /\ t.stopping = w.side.stopping
      BY <1>1, <2>5
    <3> QED  BY <2>5, <2>6, <3>1, TellsSide
  <2>8. taken.side = t  BY <2>5, <2>6, SideIs
  <2>9. taken = [w EXCEPT !.side.inputs = Tail(@)]  BY <1>1, <2>1, <2>3, <2>4, <2>6
  <2>10. PICK h : h = [t EXCEPT !.advancing = TRUE]  OBVIOUS
  <2>11. h \in Side /\ h.last = t.last /\ h.floor = t.floor /\ h.due = t.due /\ h.stopping = t.stopping
    BY <2>5, <2>10 DEF Side
  <2>12. PICK held : held = [taken EXCEPT !.side = h]  OBVIOUS
  <2>13. Tells(taken, held) /\ held.job = taken.job /\ held \in Worlds
    <3>1. /\ h.last = taken.side.last /\ h.floor = taken.side.floor /\ (h.due => taken.side.due)
          /\ h.stopping = taken.side.stopping
      BY <2>8, <2>11
    <3> QED  BY <2>7, <2>11, <2>12, <3>1, TellsSide
  <2>14. held = [taken EXCEPT !.side.advancing = TRUE] /\ held.side = h
    <3>1. held.side = h  BY <2>7, <2>11, <2>12, SideIs
    <3> QED  BY <2>8, <2>10, <2>12, <3>1
  <2>15. Head(w.side.inputs) = id  BY <1>1, <2>1, <2>2
  <2>16. CASE kinds'[id] = "compact"
    <3>1. x = Compacts(held, "manual", id, <<>>, waits)
      BY <1>3, <2>9, <2>14, <2>15, <2>16 DEF Advances
    <3>2. PICK by, labels : by = "manual" /\ labels = <<>>  OBVIOUS
    <3>3. x = Compacts(held, by, id, labels, waits)  BY <3>1, <3>2
    <3>4. Tells(held, x) /\ x.job.by = by  BY <2>13, <3>3, CompactsIs
    <3> QED  BY <2>7, <2>13, <3>2, <3>4 DEF Tells
  <2>17. CASE kinds'[id] # "compact" /\ w.side.due /\ ~ w.side.turnOpen
    <3>1. PICK g : g = [h EXCEPT !.due = FALSE]  OBVIOUS
    <3>2. g \in Side /\ g.last = h.last /\ g.floor = h.floor /\ g.due = FALSE /\ g.stopping = h.stopping
      BY <2>11, <3>1 DEF Side
    <3>3. PICK off : off = [held EXCEPT !.side = g]  OBVIOUS
    <3>4. Tells(held, off) /\ off.job = held.job /\ off \in Worlds
      <4>1. /\ g.last = held.side.last /\ g.floor = held.side.floor /\ (g.due => held.side.due)
            /\ g.stopping = held.side.stopping
        BY <2>14, <3>2
      <4> QED  BY <2>13, <3>2, <3>3, <4>1, TellsSide
    <3>5. off = [held EXCEPT !.side.due = FALSE]  BY <2>14, <3>1, <3>3
    <3>6. x = Compacts(off, "send", id, <<>>, waits)
      BY <1>3, <2>9, <2>14, <2>15, <2>17, <3>5 DEF Advances
    <3>7. PICK by, labels : by = "send" /\ labels = <<>>  OBVIOUS
    <3>8. x = Compacts(off, by, id, labels, waits)  BY <3>6, <3>7
    <3>9. Tells(off, x) /\ x.job.by = by  BY <3>4, <3>8, CompactsIs
    <3> QED  BY <2>7, <2>13, <2>17, <3>4, <3>9 DEF Tells
  <2>18. CASE kinds'[id] # "compact" /\ ~ (w.side.due /\ ~ w.side.turnOpen)
    <3>1. PICK z : z = Send(taken, id)  OBVIOUS
    <3>2. Tells(taken, z) /\ z.job = taken.job /\ z \in Worlds  BY <2>7, <3>1, SendTells
    <3>3. x = [z EXCEPT !.side.advancing = FALSE]
      BY <1>3, <2>9, <2>15, <2>18, <3>1 DEF Advances
    <3>4. Tells(z, x) /\ x.job = z.job  BY <3>2, <3>3, OffTells
    <3> QED  BY <2>7, <3>2, <3>4 DEF Tells
  <2> QED  BY <2>16, <2>17, <2>18
<1> QED  BY <1>2, <1>3

LEMMA AdvanceTells ==
  ASSUME NEW w \in Worlds, NEW waits, NEW x, x = Advance(w, waits)
  PROVE  Tells(w, x) /\ (x.job = w.job \/ x.job.by = "manual" \/ w.side.due)
<1>1. CASE w.side.advancing
  <2>1. x = w  BY <1>1 DEF Advance
  <2> QED  BY <2>1 DEF Tells
<1>2. CASE ~ w.side.advancing
  <2>1. x = Advances(w, waits)  BY <1>2 DEF Advance
  <2> QED  BY <2>1, AdvancesTells
<1> QED  BY <1>1, <1>2

-----------------------------------------------------------------------------
(* What each step tells.                                                    *)

LEMMA BecomesTells ==
  ASSUME NEW w \in Worlds, Heard(w.cli), Told(w.side, w.cli), NEW x, Tells(w, x), Becomes(x)
  PROVE  Readings'
<1>1. PICK s \in Side, c \in Cli : s = w.side /\ c = w.cli  BY TypesOf
<1>2. PICK t, d : t = x.side /\ d = x.cli  OBVIOUS
<1>3. /\ t.last = s.last /\ t.floor = s.floor /\ (t.due => s.due) /\ t.stopping = s.stopping
      /\ d.base = c.base /\ d.context = c.context /\ d.reread = c.reread /\ d.out = c.out
  BY <1>1, <1>2 DEF Tells
<1>4. OnlyTells(s, c, t, d)  BY <1>3 DEF OnlyTells
<1>5. Heard(c) /\ Told(s, c)  BY <1>1
<1>6. Heard(d) /\ Told(t, d)  BY <1>4, <1>5, TellsKeeps
<1>7. side' = t /\ cli' = d  BY <1>2 DEF Becomes
<1> QED  BY <1>6, <1>7 DEF Readings

LEMMA WorldTells ==
  ASSUME SessionInv, Readings, NEW w \in Worlds, OnlyTells(side, cli, w.side, w.cli), w.job = job,
         NEW x, Tells(w, x), Becomes(x),
         x.job = w.job \/ x.job.by = "manual" \/ w.side.due \/ MayBegin(side)
  PROVE  Readings' /\ NewFirst
<1>1. PICK s \in Side, c \in Cli : s = side /\ c = cli  BY InvHolds
<1>2. PICK t, d : t = w.side /\ d = w.cli  OBVIOUS
<1>3. Heard(c) /\ Told(s, c) /\ OnlyTells(s, c, t, d)  BY <1>1, <1>2 DEF Readings
<1>4. Heard(d) /\ Told(t, d)  BY <1>3, TellsKeeps
<1>5. Readings'  BY <1>2, <1>4, BecomesTells
<1>6. job' = job \/ job'.by = "manual" \/ MayBegin(s)
  <2>1. w.side.due => MayBegin(s)  BY <1>1, <1>2, <1>3 DEF OnlyTells, MayBegin
  <2> QED  BY <1>1, <2>1 DEF Becomes
<1>7. MayBegin(s) => NewContext(s, c)  BY <1>3, PastIsNew DEF MayBegin, Told
<1>8. NoJob.by = "none"  BY DEF NoJob
<1>9. NewFirst  BY <1>1, <1>6, <1>7, <1>8 DEF NewFirst, NewContext
<1> QED  BY <1>5, <1>9

\* A step that begins no compact.
LEMMA SameJobTells ==
  ASSUME SessionInv, Readings, OnlyTells(side, cli, side', cli'), job' = job
  PROVE  Readings' /\ NewFirst
BY StepTells

LEMMA TellsSelf ==
  ASSUME NEW s, NEW c, NEW t, NEW d, t.last = s.last, t.floor = s.floor, t.due => s.due, t.stopping = s.stopping,
         d.base = c.base, d.context = c.context, d.reread = c.reread, d.out = c.out
  PROVE  OnlyTells(s, c, t, d)
BY DEF OnlyTells

LEMMA PushUserTells ==
  ASSUME SessionInv, Readings, NEW kind, PushUser(kind)
  PROVE  Readings' /\ NewFirst
<1>1. /\ World \in Worlds /\ World.side = side /\ World.cli = cli /\ World.job = job
      /\ side \in Side /\ cli \in Cli /\ kinds \in Kinds
  BY InvHolds
<1>2. PICK u \in Worlds : u = World  BY <1>1
<1>3. PICK id \in Nat : id = Len(kinds) + 1  BY <1>1 DEF Kinds
<1>4. PICK s : s = [side EXCEPT !.inputs = Append(side.inputs, id)]  OBVIOUS
<1>5. s \in Side /\ s.last = side.last /\ s.floor = side.floor /\ s.due = side.due /\ s.stopping = side.stopping
  <2>1. side.inputs \in Seq(Nat) /\ Append(side.inputs, id) \in Seq(Nat)  BY <1>1 DEF Side
  <2> QED  BY <1>1, <1>4, <2>1 DEF Side
<1>6. PICK v : v = [u EXCEPT !.side = s]  OBVIOUS
<1>7. Tells(u, v) /\ v.job = u.job /\ v \in Worlds
  <2>1. s.last = u.side.last /\ s.floor = u.side.floor /\ (s.due => u.side.due) /\ s.stopping = u.side.stopping
    BY <1>1, <1>2, <1>5
  <2> QED  BY <1>5, <1>6, <2>1, TellsSide
<1>8. PICK y : y = Send(u, id)  OBVIOUS
<1>9. Tells(u, y) /\ y.job = u.job /\ y \in Worlds  BY <1>8, SendTells
<1>10. PICK w : w = IF kind = "compact" \/ Holds(side) THEN v ELSE y  OBVIOUS
<1>11. Tells(u, w) /\ w.job = u.job /\ w \in Worlds  BY <1>7, <1>9, <1>10
<1>12. PICK x : x = Advance(w, FALSE)  OBVIOUS
<1>13. Becomes(x)
  <2>1. v = [World EXCEPT !.side.inputs = Append(@, id)]  BY <1>1, <1>2, <1>4, <1>6
  <2>2. w = IF kind = "compact" \/ Holds(side)
            THEN [World EXCEPT !.side.inputs = Append(@, id)] ELSE Send(World, id)
    BY <1>2, <1>8, <1>10, <2>1
  <2> QED  BY <1>3, <1>12, <2>2 DEF PushUser
<1>14. PICK waits : waits = FALSE  OBVIOUS
<1>15. Tells(w, x) /\ (x.job = w.job \/ x.job.by = "manual" \/ w.side.due)
  <2>1. x = Advance(w, waits)  BY <1>12, <1>14
  <2> QED  BY <1>11, <2>1, AdvanceTells
<1>16. OnlyTells(side, cli, w.side, w.cli)
  <2>1. PICK b, c, t, d : b = side /\ c = cli /\ t = w.side /\ d = w.cli  OBVIOUS
  <2>2. /\ t.last = b.last /\ t.floor = b.floor /\ (t.due => b.due) /\ t.stopping = b.stopping
        /\ d.base = c.base /\ d.context = c.context /\ d.reread = c.reread /\ d.out = c.out
    BY <1>1, <1>2, <1>11, <2>1 DEF Tells
  <2>3. OnlyTells(b, c, t, d)  BY <2>2, TellsSelf
  <2> QED  BY <2>1, <2>3
<1>17. w.job = job  BY <1>1, <1>2, <1>11
<1> QED  BY <1>11, <1>13, <1>15, <1>16, <1>17, WorldTells

LEMMA EndInputTells ==
  ASSUME SessionInv, Readings, EndInput
  PROVE  Readings' /\ NewFirst
<1>1. /\ World \in Worlds /\ World.side = side /\ World.cli = cli /\ World.job = job
      /\ side \in Side /\ cli \in Cli
  BY InvHolds
<1>2. PICK u \in Worlds : u = World  BY <1>1
<1>3. PICK s : s = [side EXCEPT !.inputEnded = TRUE]  OBVIOUS
<1>4. s \in Side /\ s.last = side.last /\ s.floor = side.floor /\ s.due = side.due /\ s.stopping = side.stopping
  BY <1>1, <1>3 DEF Side
<1>5. PICK w : w = [u EXCEPT !.side = s]  OBVIOUS
<1>6. w \in Worlds /\ w.side = s /\ w.cli = cli /\ w.job = job  BY <1>1, <1>2, <1>4, <1>5, SideIs
<1>7. w = [World EXCEPT !.side.inputEnded = TRUE]  BY <1>1, <1>2, <1>3, <1>5
<1>8. PICK x : x = EndIfIdle(w)  OBVIOUS
<1>9. Tells(w, x) /\ x.job = w.job  BY <1>6, <1>8, EndTells
<1>10. Becomes(x)  BY <1>7, <1>8 DEF EndInput
<1>11. OnlyTells(side, cli, w.side, w.cli)
  <2>1. PICK b, c, t, d : b = side /\ c = cli /\ t = w.side /\ d = w.cli  OBVIOUS
  <2>2. /\ t.last = b.last /\ t.floor = b.floor /\ (t.due => b.due) /\ t.stopping = b.stopping
        /\ d.base = c.base /\ d.context = c.context /\ d.reread = c.reread /\ d.out = c.out
    BY <1>4, <1>6, <2>1
  <2>3. OnlyTells(b, c, t, d)  BY <2>2, TellsSelf
  <2> QED  BY <2>1, <2>3
<1> QED  BY <1>6, <1>9, <1>10, <1>11, WorldTells

LEMMA SameTells ==
  ASSUME SessionInv, Readings, UNCHANGED <<side, cli, job>>
  PROVE  Readings' /\ NewFirst
<1>1. Readings'  BY DEF Readings
<1>2. NoJob.by = "none"  BY DEF NoJob
<1> QED  BY <1>1, <1>2 DEF NewFirst

LEMMA ReadArrivesTells ==
  ASSUME SessionInv, Readings, NEW usable \in BOOLEAN, ReadArrives(usable)
  PROVE  Readings' /\ NewFirst
<1>1. side \in Side /\ cli \in Cli  BY InvHolds
<1>2. PICK b \in Side, c \in Cli : b = side /\ c = cli  BY <1>1
<1>3. PICK s, d : s = side' /\ d = cli'  OBVIOUS
<1>4. PICK past \in BOOLEAN : past = (usable /\ c.context >= Trigger)  OBVIOUS
<1>5. s = [b EXCEPT !.due = IF usable THEN past ELSE b.due, !.last = IF past THEN c.context ELSE b.last]
  BY <1>2, <1>3, <1>4 DEF ReadArrives
<1>6. d = [c EXCEPT !.reread = c.reread \/ past]  BY <1>2, <1>3, <1>4 DEF ReadArrives
<1>7. /\ s.floor = b.floor /\ s.stopping = b.stopping /\ s.due = (IF usable THEN past ELSE b.due)
      /\ s.last = IF past THEN c.context ELSE b.last
  BY <1>5 DEF Side
<1>8. /\ d.base = c.base /\ d.context = c.context /\ d.out = c.out /\ d.reread = (c.reread \/ past)
  BY <1>6 DEF Cli
<1>9. Heard(c) /\ Told(b, c)  BY <1>2 DEF Readings
<1>10. Heard(d)  BY <1>8, <1>9 DEF Heard
<1>11. Told(s, d)
  <2>1. c.context \in Nat  BY DEF Cli
  <2>2. CASE past
    <3>1. s.last = c.context  BY <1>7, <2>2
    <3>2. s.last <= d.context  BY <1>8, <2>1, <3>1
    <3>3. d.reread  BY <1>8, <2>2
    <3>4. s.floor = b.floor /\ d.base = c.base  BY <1>7, <1>8
    <3> QED  BY <1>9, <3>2, <3>3, <3>4 DEF Told, NewContext
  <2>3. CASE ~ past
    <3>1. s.last = b.last /\ (s.due => b.due) /\ d.reread = c.reread
      <4>1. c.reread \in BOOLEAN  BY DEF Cli
      <4> QED  BY <1>7, <1>8, <2>3, <4>1
    <3> QED  BY <1>7, <1>8, <1>9, <3>1 DEF Told, NewContext
  <2> QED  BY <2>2, <2>3
<1>12. Readings'  BY <1>3, <1>10, <1>11 DEF Readings
<1>13. NewFirst
  <2>1. NoJob.by = "none" /\ job' = job  BY DEF NoJob, ReadArrives
  <2> QED  BY <2>1 DEF NewFirst
<1> QED  BY <1>12, <1>13

\* What the CLI says that is no reading.
LEMMA OutOnly ==
  ASSUME NEW out \in Seq(Msg), NEW u \in Seq(Msg), NEW z, z = out \o u,
         \A i \in 1..Len(u) : u[i].t # "assistant"
  PROVE  \A n \in 1..Len(z) : z[n].t # "assistant" \/ \E m \in 1..Len(out) : z[n] = out[m]
<1>1. /\ Len(z) = Len(out) + Len(u) /\ Len(out) \in Nat /\ Len(u) \in Nat
      /\ \A n \in 1..(Len(out) + Len(u)) : /\ n <= Len(out) => z[n] = out[n]
                                           /\ n > Len(out) => z[n] = u[n - Len(out)]
  BY ConcatIs
<1> SUFFICES ASSUME NEW n \in 1..Len(z) PROVE z[n].t # "assistant" \/ \E m \in 1..Len(out) : z[n] = out[m]
  OBVIOUS
<1>2. CASE n <= Len(out)
  <2>1. n \in 1..Len(out) /\ z[n] = out[n]  BY <1>1, <1>2
  <2> QED  BY <2>1
<1>3. CASE n > Len(out)
  <2>1. PICK k \in 1..Len(u) : k = n - Len(out)  BY <1>1, <1>3
  <2>2. z[n] = u[k]  BY <1>1, <1>3, <2>1
  <2> QED  BY <2>2
<1> QED  BY <1>1, <1>2, <1>3

\* The CLI goes on and says nothing of its context.
LEMMA EmitTells ==
  ASSUME SessionInv, Readings, NEW u \in Seq(Msg), \A i \in 1..Len(u) : u[i].t # "assistant",
         NEW d, d = cli', d.out = cli.out \o u, d.base = cli.base, d.context = cli.context, d.reread = cli.reread,
         NEW t, t = side', t.last = side.last, t.floor = side.floor,
         t.due \/ t.stopping => MayBegin(side), job' = job
  PROVE  Readings' /\ NewFirst
<1>1. PICK s \in Side, c \in Cli : s = side /\ c = cli  BY InvHolds
<1>2. PICK out \in Seq(Msg) : out = c.out  BY DEF Cli
<1>3. PICK z : z = d.out  OBVIOUS
<1>4. z = out \o u  BY <1>1, <1>2, <1>3
<1>5. \A n \in 1..Len(z) : z[n].t # "assistant" \/ \E m \in 1..Len(out) : z[n] = out[m]  BY <1>4, OutOnly
<1>6. OnlyTells(s, c, t, d)  BY <1>1, <1>2, <1>3, <1>5 DEF OnlyTells, MayBegin
<1> QED  BY <1>1, <1>6, SameJobTells

LEMMA PullTells ==
  ASSUME SessionInv, Readings, Pull
  PROVE  Readings' /\ NewFirst
<1>1. PICK s \in Side, c \in Cli : s = side /\ c = cli  BY InvHolds
<1>2. PICK t, d : t = side' /\ d = cli'  OBVIOUS
<1>3. PICK open, ins, id : open = (s.turnOpen \/ ~ IsNote(Head(c.input))) /\ ins = Tail(c.input) /\ id = Head(c.input)
  OBVIOUS
<1>4. t = [s EXCEPT !.turnOpen = open] /\ d = [c EXCEPT !.input = ins, !.before = id] /\ job' = job
  BY <1>1, <1>2, <1>3 DEF Pull
<1>5. /\ t.last = s.last /\ t.floor = s.floor /\ t.due = s.due /\ t.stopping = s.stopping
      /\ d.base = c.base /\ d.context = c.context /\ d.reread = c.reread /\ d.out = c.out
  BY <1>4 DEF Side, Cli
<1>6. OnlyTells(s, c, t, d)  BY <1>5, TellsSelf
<1> QED  BY <1>1, <1>2, <1>4, <1>6, SameJobTells

LEMMA PulledTells ==
  ASSUME SessionInv, Readings, Pulled
  PROVE  Readings' /\ NewFirst
<1>1. PICK s \in Side, c \in Cli : s = side /\ c = cli  BY InvHolds
<1>2. PICK t, d : t = side' /\ d = cli'  OBVIOUS
<1>3. PICK id \in Nat : id = c.before  BY DEF Cli
<1>4. "queued" \in MsgKinds  BY DEF MsgKinds
<1>5. PICK m : m = Lifecycle("queued", id)  OBVIOUS
<1>6. m \in Msg /\ m.t = "queued"  BY <1>4, <1>5, LifecycleIs
<1>7. PICK u \in Seq(Msg) : u = <<m>>
  <2>1. <<m>> \in Seq(Msg)  BY <1>6
  <2> QED  BY <2>1
<1>8. \A i \in 1..Len(u) : u[i].t # "assistant"  BY <1>6, <1>7
<1>9. PICK more, z : more = Append(c.pulled, c.before) /\ z = c.out \o u  OBVIOUS
<1>10. d = [c EXCEPT !.before = 0, !.pulled = more, !.out = z] /\ t = s /\ job' = job
  BY <1>1, <1>2, <1>3, <1>5, <1>7, <1>9 DEF Pulled, Emits
<1> HIDE <1>9
<1>11. d.out = z /\ d.base = c.base /\ d.context = c.context /\ d.reread = c.reread  BY <1>10 DEF Cli
<1>12. d.out = cli.out \o u  BY <1>1, <1>9, <1>11
<1>13. t.due \/ t.stopping => MayBegin(side)  BY <1>1, <1>10 DEF MayBegin
<1> QED  BY <1>1, <1>2, <1>8, <1>10, <1>11, <1>12, <1>13, EmitTells

LEMMA TurnEndsTells ==
  ASSUME SessionInv, Readings, NEW terminal, TurnEnds(terminal)
  PROVE  Readings' /\ NewFirst
<1>1. PICK s \in Side, c \in Cli : s = side /\ c = cli  BY InvHolds
<1>2. PICK t, d : t = side' /\ d = cli'  OBVIOUS
<1>3. PICK said : said = IF terminal = "hook_stopped" THEN "hook_stopped" ELSE "result"  OBVIOUS
<1>4. said \in MsgKinds /\ said # "assistant" /\ "completed" \in MsgKinds  BY <1>3 DEF MsgKinds
<1>5. c.turn \in Turn  BY DEF Cli
<1>6. PICK labels \in Seq(Nat), ids \in Seq(Nat) : labels = c.turn.labels /\ ids = c.turn.uuids  BY <1>5 DEF Turn
<1>7. PICK m, l : m = Result(said, labels) /\ l = Lifecycles("completed", ids)  OBVIOUS
<1>8. m \in Msg /\ m.t = said  BY <1>4, <1>7, ResultIs
<1>9. /\ l \in Seq(Msg) /\ Len(l) = Len(ids) /\ Len(ids) \in Nat
      /\ \A i \in 1..Len(ids) : l[i].t = "completed" /\ l[i].id = ids[i] /\ l[i].labels = <<>>
  BY <1>4, <1>7, LifecyclesAre
<1>10. PICK one \in Seq(Msg) : one = <<m>>
  <2>1. <<m>> \in Seq(Msg)  BY <1>8
  <2> QED  BY <2>1
<1>11. Len(one) = 1 /\ one[1] = m  BY <1>10
<1>12. PICK u : u = one \o l  OBVIOUS
<1>13. /\ u \in Seq(Msg) /\ Len(u) = Len(one) + Len(l)
       /\ \A n \in 1..(Len(one) + Len(l)) : /\ n <= Len(one) => u[n] = one[n]
                                            /\ n > Len(one) => u[n] = l[n - Len(one)]
  <2>1. l \in Seq(Msg)  BY <1>9
  <2> QED  BY <1>12, <2>1, ConcatIs
<1>14. ASSUME NEW i \in 1..Len(u) PROVE u[i].t # "assistant"
  <2>1. CASE i = 1  BY <1>4, <1>8, <1>9, <1>11, <1>13, <2>1
  <2>2. CASE i # 1
    <3>1. PICK n \in 1..Len(ids) : n = i - 1  BY <1>9, <1>11, <1>13, <2>2
    <3>2. i \in 1..(Len(one) + Len(l)) /\ i > Len(one) /\ i - Len(one) = n  BY <1>9, <1>11, <1>13, <2>2, <3>1
    <3>3. u[i] = l[n]  BY <1>13, <3>2
    <3> QED  BY <1>9, <3>3
  <2> QED  BY <2>1, <2>2
<1>15. PICK z : z = c.out \o u  OBVIOUS
<1>16. d = [c EXCEPT !.turn = NoTurn, !.out = z] /\ t = s /\ job' = job
  BY <1>1, <1>2, <1>3, <1>6, <1>7, <1>10, <1>12, <1>15 DEF TurnEnds, Emits
<1> HIDE <1>15
<1>17. d.out = z /\ d.base = c.base /\ d.context = c.context /\ d.reread = c.reread  BY <1>16 DEF Cli
<1>18. d.out = cli.out \o u  BY <1>1, <1>15, <1>17
<1>19. t.due \/ t.stopping => MayBegin(side)  BY <1>1, <1>16 DEF MayBegin
<1> QED  BY <1>1, <1>2, <1>13, <1>14, <1>16, <1>17, <1>18, <1>19, EmitTells

LEMMA PostToolUseTells ==
  ASSUME SessionInv, Readings, NEW safe, NEW folds, PostToolUse(safe, folds)
  PROVE  Readings' /\ NewFirst
<1>1. PICK s \in Side, c \in Cli : s = side /\ c = cli  BY InvHolds
<1>2. PICK t, d : t = side' /\ d = cli'  OBVIOUS
<1>3. job' = job  BY DEF PostToolUse
<1>4. MidTurnDue => MayBegin(side)  BY DEF MidTurnDue, MayBegin
<1>5. CASE MidTurnDue /\ ~ CliHoldsUnstarted(side) /\ safe /\ spent.stops < MaxStops
  <2>1. PICK turn : turn = [c.turn EXCEPT !.stage = "stopped"]  OBVIOUS
  <2>2. t = [s EXCEPT !.stopping = TRUE, !.due = FALSE] /\ d = [c EXCEPT !.turn = turn]
    BY <1>1, <1>2, <1>5, <2>1 DEF PostToolUse
  <2>3. /\ t.last = s.last /\ t.floor = s.floor
        /\ d.base = c.base /\ d.context = c.context /\ d.reread = c.reread /\ d.out = c.out
    BY <2>2 DEF Side, Cli
  <2>4. MayBegin(s)  BY <1>1, <1>4, <1>5
  <2>5. OnlyTells(s, c, t, d)  BY <2>3, <2>4 DEF OnlyTells, MayBegin
  <2> QED  BY <1>1, <1>2, <1>3, <2>5, SameJobTells
<1>6. CASE ~ (MidTurnDue /\ ~ CliHoldsUnstarted(side) /\ safe /\ spent.stops < MaxStops)
  <2>1. PICK due : due = (s.due \/ (MidTurnDue /\ CliHoldsUnstarted(side)))  OBVIOUS
  <2>2. t = [s EXCEPT !.due = due] /\ Folds(folds)  BY <1>1, <1>2, <1>6, <2>1 DEF PostToolUse
  <2>3. t.last = s.last /\ t.floor = s.floor /\ t.due = due /\ t.stopping = s.stopping  BY <2>2 DEF Side
  <2>4. PICK ids \in Seq(Nat) : ids = IF folds THEN c.pulled ELSE <<>>
    <3>1. c.pulled \in Seq(Nat) /\ <<>> \in Seq(Nat)  BY DEF Cli
    <3>2. (IF folds THEN c.pulled ELSE <<>>) \in Seq(Nat)  BY <3>1
    <3> QED  BY <3>2
  <2>5. PICK left, turn, u : /\ left = IF folds THEN <<>> ELSE c.pulled
                             /\ turn = [c.turn EXCEPT !.stage = "work", !.labels = @ \o ids, !.uuids = @ \o ids]
                             /\ u = Lifecycles("started", ids)
    OBVIOUS
  <2>6. PICK z : z = c.out \o u  OBVIOUS
  <2>7. d = [c EXCEPT !.pulled = left, !.turn = turn, !.out = z]
    BY <1>1, <1>2, <2>2, <2>4, <2>5, <2>6 DEF Folds, Emits
  <2> HIDE <2>6
  <2>8. d.out = z /\ d.base = c.base /\ d.context = c.context /\ d.reread = c.reread  BY <2>7 DEF Cli
  <2>9. d.out = cli.out \o u  BY <1>1, <2>6, <2>8
  <2>10. "started" \in MsgKinds  BY DEF MsgKinds
  <2>11. /\ u \in Seq(Msg) /\ Len(u) = Len(ids) /\ Len(ids) \in Nat
         /\ \A i \in 1..Len(ids) : u[i].t = "started" /\ u[i].id = ids[i] /\ u[i].labels = <<>>
    BY <2>5, <2>10, LifecyclesAre
  <2>12. \A i \in 1..Len(u) : u[i].t # "assistant"  BY <2>11
  <2>13. t.due \/ t.stopping => MayBegin(side)
    <3>1. due => s.due \/ MidTurnDue  BY <2>1
    <3> QED  BY <1>1, <1>4, <2>3, <3>1 DEF MayBegin
  <2> QED  BY <1>1, <1>2, <1>3, <2>3, <2>8, <2>9, <2>11, <2>12, <2>13, EmitTells
<1> QED  BY <1>5, <1>6

\* A request tells a size past the one the generation began with.
LEMMA RequestTells ==
  ASSUME SessionInv, Readings, NEW tool, Request(tool)
  PROVE  Readings' /\ NewFirst
<1>1. PICK s \in Side, c \in Cli : s = side /\ c = cli  BY InvHolds
<1>2. PICK t, d : t = side' /\ d = cli'  OBVIOUS
<1>3. /\ MaxContext \in Nat /\ c.context \in Nat /\ c.base \in Nat /\ s.last \in Nat
  BY SessionBounds DEF Cli, Side
<1>4. Heard(c) /\ Told(s, c)  BY <1>1 DEF Readings
<1>5. c.context <= MaxContext /\ c.base <= c.context  BY <1>4 DEF Heard
<1>6. PICK n \in Nat : n = NextContext
  <2>1. NextContext \in Nat  BY <1>1, <1>3 DEF NextContext
  <2> QED  BY <2>1
<1>7. c.context <= n /\ n <= MaxContext /\ (n > c.base \/ n = MaxContext)
  BY <1>1, <1>3, <1>5, <1>6 DEF NextContext
<1>8. PICK id, starts : id = Head(c.pulled) /\ starts = (c.turn.stage = "none")  OBVIOUS
<1>9. PICK said \in Seq(Msg) : /\ said = IF starts THEN <<Lifecycle("started", id)>> ELSE <<>>
                               /\ \A i \in 1..Len(said) : said[i].t # "assistant"
  <2>1. CASE starts
    <3>1. c.pulled \in Seq(Nat) /\ c.pulled # <<>>
      <4>1. "none" # "work"  OBVIOUS
      <4> QED  BY <1>1, <1>8, <2>1, <4>1 DEF Request, Cli
    <3>2. id \in Nat  BY <1>8, <3>1
    <3>3. "started" \in MsgKinds  BY DEF MsgKinds
    <3>4. PICK m : m = Lifecycle("started", id)  OBVIOUS
    <3>5. m \in Msg /\ m.t = "started"  BY <3>2, <3>3, <3>4, LifecycleIs
    <3>6. <<m>> \in Seq(Msg) /\ \A i \in 1..Len(<<m>>) : <<m>>[i].t # "assistant"  BY <3>5
    <3>7. <<m>> = IF starts THEN <<Lifecycle("started", id)>> ELSE <<>>  BY <2>1, <3>4
    <3> QED  BY <3>6, <3>7
  <2>2. CASE ~ starts
    <3>1. PICK none \in Seq(Msg) : none = <<>>
      <4>1. <<>> \in Seq(Msg)  OBVIOUS
      <4> QED  BY <4>1
    <3>2. \A i \in 1..Len(none) : none[i].t # "assistant"  BY <3>1
    <3>3. none = IF starts THEN <<Lifecycle("started", id)>> ELSE <<>>  BY <2>2, <3>1
    <3> QED  BY <3>2, <3>3
  <2> QED  BY <2>1, <2>2
<1>10. PICK r : r = Reading(n)  OBVIOUS
<1>11. r \in Msg /\ r.t = "assistant" /\ r.n = n
  <2>1. r \in Msg /\ r.t = "assistant"  BY <1>10, ReadingIs
  <2>2. r.n = n  BY <1>10 DEF Reading, NoMessage
  <2> QED  BY <2>1, <2>2
<1>12. PICK one \in Seq(Msg) : one = <<r>>
  <2>1. <<r>> \in Seq(Msg)  BY <1>11
  <2> QED  BY <2>1
<1>13. Len(one) = 1 /\ one[1] = r  BY <1>12
<1>14. PICK u : u = said \o one  OBVIOUS
<1>15. /\ u \in Seq(Msg) /\ Len(u) = Len(said) + Len(one) /\ Len(said) \in Nat
       /\ \A i \in 1..(Len(said) + Len(one)) : /\ i <= Len(said) => u[i] = said[i]
                                               /\ i > Len(said) => u[i] = one[i - Len(said)]
  BY <1>14, ConcatIs
<1>16. ASSUME NEW i \in 1..Len(u) PROVE u[i].t # "assistant" \/ u[i].n = n
  <2>1. CASE i <= Len(said)
    <3>1. i \in 1..Len(said) /\ u[i] = said[i]  BY <1>13, <1>15, <2>1
    <3> QED  BY <1>9, <3>1
  <2>2. CASE i > Len(said)
    <3>1. u[i] = r  BY <1>13, <1>15, <2>2
    <3> QED  BY <1>11, <3>1
  <2> QED  BY <1>13, <1>15, <2>1, <2>2
<1>17. PICK out \in Seq(Msg) : out = c.out  BY DEF Cli
<1>18. PICK z : z = out \o u  OBVIOUS
<1>19. /\ Len(z) = Len(out) + Len(u) /\ Len(out) \in Nat /\ Len(u) \in Nat
       /\ \A i \in 1..(Len(out) + Len(u)) : /\ i <= Len(out) => z[i] = out[i]
                                            /\ i > Len(out) => z[i] = u[i - Len(out)]
  <2>1. u \in Seq(Msg)  BY <1>15
  <2> QED  BY <1>18, <2>1, ConcatIs
<1>20. PICK left, turn : d = [c EXCEPT !.pulled = left, !.turn = turn, !.context = n, !.out = z]
  <2>1. u = said \o <<Reading(NextContext)>>  BY <1>6, <1>10, <1>12, <1>14
  <2>2. z = Emits(said \o <<Reading(NextContext)>>)  BY <1>1, <1>17, <1>18, <2>1 DEF Emits
  <2>3. starts = (cli.turn.stage = "none") /\ said = IF starts THEN <<Lifecycle("started", Head(cli.pulled))>> ELSE <<>>
    BY <1>1, <1>8, <1>9
  <2> QED  BY <1>1, <1>2, <1>6, <2>2, <2>3 DEF Request
<1>21. d.out = z /\ d.base = c.base /\ d.context = n /\ d.reread = c.reread  BY <1>20 DEF Cli
<1>22. t = s /\ job' = job  BY <1>1, <1>2 DEF Request
<1>23. Heard(d)
  <2>1. ASSUME NEW i \in 1..Len(z), z[i].t = "assistant"
        PROVE  z[i].n <= n /\ (z[i].n > c.base \/ z[i].n = MaxContext)
    <3>1. CASE i <= Len(out)
      <4>1. i \in 1..Len(out) /\ z[i] = out[i]  BY <1>19, <3>1
      <4>2. PICK m \in Msg : m = out[i]  BY <4>1
      <4>3. m.n \in Nat  BY DEF Msg
      <4>4. m.n <= c.context /\ (m.n > c.base \/ m.n = MaxContext)  BY <1>4, <1>17, <2>1, <4>1, <4>2 DEF Heard
      <4>5. m.n <= n  BY <1>3, <1>7, <4>3, <4>4
      <4> QED  BY <4>1, <4>2, <4>4, <4>5
    <3>2. CASE i > Len(out)
      <4>1. PICK k \in 1..Len(u) : k = i - Len(out)  BY <1>19, <3>2
      <4>2. z[i] = u[k]  BY <1>19, <3>2, <4>1
      <4>3. z[i].n = n  BY <1>16, <2>1, <4>2
      <4> QED  BY <1>7, <4>3
    <3> QED  BY <1>19, <3>1, <3>2
  <2>2. c.base <= n  BY <1>3, <1>5, <1>7
  <2> QED  BY <1>7, <1>21, <2>1, <2>2 DEF Heard
<1>24. Told(s, d)
  <2>1. s.last <= d.context  BY <1>3, <1>4, <1>7, <1>21 DEF Told
  <2>2. NewContext(s, c) => NewContext(s, d)  BY <1>3, <1>7, <1>21 DEF NewContext
  <2> QED  BY <1>4, <1>21, <2>1, <2>2 DEF Told
<1>25. Readings'  BY <1>2, <1>22, <1>23, <1>24 DEF Readings
<1>26. NewFirst
  <2>1. NoJob.by = "none"  BY DEF NoJob
  <2> QED  BY <1>22, <2>1 DEF NewFirst
<1> QED  BY <1>25, <1>26

\* The message the pump takes tells nothing more of the generation.
LEMMA HandledTells ==
  ASSUME SessionInv, NEW h, h = Handled, cli.out # <<>>,
         NEW s, s.last = side.last, s.floor = side.floor, s.due \/ s.stopping => MayBegin(side),
         NEW y, y = h.cli
  PROVE  /\ OnlyTells(side, cli, s, y)
         /\ y.base = cli.base /\ y.context = cli.context /\ y.reread = cli.reread
<1>1. PICK b \in Side, c \in Cli : b = side /\ c = cli  BY InvHolds
<1>2. Takes(c, y) /\ y \in Cli  BY <1>1, HandledIs
<1>3. /\ Len(y.out) \in Nat
      /\ \A i \in 1..Len(y.out) : i + 1 \in 1..Len(c.out) /\ y.out[i] = c.out[i + 1]
  BY <1>2, TakenIs
<1>4. \A n \in 1..Len(y.out) : \E m \in 1..Len(c.out) : y.out[n] = c.out[m]  BY <1>3
<1>5. y.base = c.base /\ y.context = c.context /\ y.reread = c.reread
  <2>1. PICK u : u = World  OBVIOUS
  <2>2. u \in Worlds /\ u.cli = c  BY <1>1, <2>1, InvHolds
  <2>3. h = [u EXCEPT !.cli = [u.cli EXCEPT !.out = Tail(u.cli.out)]]  BY <2>1 DEF Handled
  <2>4. y = [c EXCEPT !.out = Tail(c.out)]  BY <2>2, <2>3 DEF Worlds
  <2> QED  BY <2>4 DEF Cli
<1>6. OnlyTells(b, c, s, y)  BY <1>1, <1>4, <1>5 DEF OnlyTells, MayBegin
<1> QED  BY <1>1, <1>5, <1>6

LEMMA OnLifecycleTells ==
  ASSUME SessionInv, Readings, OnLifecycle
  PROVE  Readings' /\ NewFirst
<1>1. PICK w \in Worlds : HearsLifecycle(w)  BY LifecycleHeard
<1>2. cli.out # <<>>  BY DEF OnLifecycle, PumpTakes
<1>3. PICK h : h = Handled  OBVIOUS
<1>4. PICK s, y : s = w.side /\ y = w.cli  OBVIOUS
<1>5. /\ s.last = side.last /\ s.floor = side.floor /\ s.due = side.due /\ s.stopping = side.stopping
      /\ y = h.cli /\ w.job = job
  BY <1>1, <1>3, <1>4 DEF HearsLifecycle
<1>6. OnlyTells(side, cli, s, y)
  <2>1. s.due \/ s.stopping => MayBegin(side)  BY <1>5 DEF MayBegin
  <2> QED  BY <1>2, <1>3, <1>5, <2>1, HandledTells
<1>7. PICK waits : waits = TRUE  OBVIOUS
<1>8. PICK x : x = Advance(w, waits)  OBVIOUS
<1>9. Becomes(x)  BY <1>1, <1>7, <1>8 DEF HearsLifecycle
<1>10. Tells(w, x) /\ (x.job = w.job \/ x.job.by = "manual" \/ w.side.due)  BY <1>8, AdvanceTells
<1>11. OnlyTells(side, cli, w.side, w.cli)  BY <1>4, <1>6
<1> QED  BY <1>5, <1>9, <1>10, <1>11, WorldTells

\* A reading is what the session knows of the context, and the first one of a generation its floor.
LEMMA OnAssistantTells ==
  ASSUME SessionInv, Readings, OnAssistant
  PROVE  Readings' /\ NewFirst
<1>1. PICK b \in Side, c \in Cli : b = side /\ c = cli  BY InvHolds
<1>2. cli.out # <<>>  BY DEF OnAssistant, PumpTakes
<1>3. PICK h : h = Handled  OBVIOUS
<1>4. /\ h \in Worlds /\ h.side = side /\ h.job = job /\ Takes(cli, h.cli)
      /\ h.cli \in Cli /\ Head(cli.out) \in Msg
  BY <1>2, <1>3, HandledIs
<1>5. PICK y : y = h.cli  OBVIOUS
<1>6. PICK m \in Msg : m = Message  BY <1>4 DEF Message
<1>7. m.t = "assistant" /\ m.n \in Nat  BY <1>6 DEF OnAssistant, Msg
<1>8. PICK floor \in Int : floor = IF b.floor = Unread THEN m.n ELSE b.floor
  <2>1. b.floor \in Int  BY DEF Side
  <2>2. (IF b.floor = Unread THEN m.n ELSE b.floor) \in Int  BY <1>7, <2>1
  <2> QED  BY <2>2
<1>9. PICK s : s = [b EXCEPT !.turnOpen = TRUE, !.last = m.n, !.floor = floor]  OBVIOUS
<1>10. s.last = m.n /\ s.floor = floor /\ s.due = b.due /\ s.stopping = b.stopping  BY <1>9 DEF Side
<1>11. side' = s /\ cli' = y /\ job' = job
  <2>1. PICK w : w = [Handled EXCEPT !.side.turnOpen = TRUE, !.side.last = Message.n,
                                     !.side.floor = IF @ = Unread THEN Message.n ELSE @]
    OBVIOUS
  <2>2. w = [h EXCEPT !.side = s]  BY <1>1, <1>3, <1>4, <1>6, <1>8, <1>9, <2>1 DEF Worlds, Side
  <2>3. w.side = s /\ w.cli = y /\ w.job = job  BY <1>4, <1>5, <2>2 DEF Worlds
  <2>4. Becomes(w)  BY <2>1 DEF OnAssistant
  <2> QED  BY <2>3, <2>4 DEF Becomes
<1>12. OnlyTells(side, cli, b, y) /\ y.base = c.base /\ y.context = c.context /\ y.reread = c.reread
  <2>1. b.last = side.last /\ b.floor = side.floor /\ (b.due \/ b.stopping => MayBegin(side))
    BY <1>1 DEF MayBegin
  <2>2. /\ OnlyTells(side, cli, b, y)
        /\ y.base = cli.base /\ y.context = cli.context /\ y.reread = cli.reread
    BY <1>2, <1>3, <1>5, <2>1, HandledTells
  <2> QED  BY <1>1, <2>2
<1>13. Heard(c) /\ Told(b, c)  BY <1>1 DEF Readings
<1>14. Heard(y)
  <2>1. OnlyTells(b, c, b, y)  BY <1>1, <1>12
  <2> QED  BY <1>13, <2>1, TellsKeeps
<1>15. m.n <= c.context /\ (m.n > c.base \/ m.n = MaxContext)
  <2>1. 1 \in 1..Len(c.out) /\ Head(c.out) = c.out[1]  BY <1>1, <1>4, <1>5, TakenIs
  <2>2. c.out[1] = m  BY <1>1, <1>6, <2>1 DEF Message
  <2> QED  BY <1>7, <1>13, <2>1, <2>2 DEF Heard
<1>16. /\ c.context \in Nat /\ c.base \in Nat /\ MaxContext \in Nat /\ b.floor \in Int /\ NoFloor = -1 /\ Unread = -2
  BY SessionBounds DEF Cli, Side, NoFloor, Unread
<1>17. Told(s, y)
  <2>1. s.last <= y.context  BY <1>10, <1>12, <1>15
  <2>2. s.floor \in {NoFloor, Unread} \/ s.floor >= 0  BY <1>7, <1>8, <1>10, <1>13, <1>16 DEF Told
  <2>3. s.floor >= 0 => s.floor > y.base \/ s.floor = MaxContext
    BY <1>8, <1>10, <1>12, <1>13, <1>15 DEF Told
  <2>4. s.floor # Unread  BY <1>7, <1>8, <1>10, <1>16
  <2>5. s.floor # NoFloor => b.floor # NoFloor  BY <1>8, <1>10, <1>16
  <2>6. s.due \/ s.stopping => NewContext(s, y)  BY <1>10, <1>12, <1>13, <2>5 DEF Told, NewContext
  <2> QED  BY <2>1, <2>2, <2>3, <2>4, <2>6 DEF Told
<1>18. Readings'  BY <1>11, <1>14, <1>17 DEF Readings
<1>19. NewFirst
  <2>1. NoJob.by = "none"  BY DEF NoJob
  <2> QED  BY <1>11, <2>1 DEF NewFirst
<1> QED  BY <1>18, <1>19

LEMMA OnResultTells ==
  ASSUME SessionInv, Readings, OnResult
  PROVE  Readings' /\ NewFirst
<1>1. PICK b \in Side, c \in Cli : b = side /\ c = cli  BY InvHolds
<1>2. cli.out # <<>>  BY DEF OnResult, PumpTakes
<1>3. PICK h : h = Handled  OBVIOUS
<1>4. /\ h \in Worlds /\ h.side = side /\ h.job = job /\ Takes(cli, h.cli)
      /\ h.cli \in Cli /\ Head(cli.out) \in Msg
  BY <1>2, <1>3, HandledIs
<1>5. PICK y : y = h.cli  OBVIOUS
<1>6. PICK m : m = Message  OBVIOUS
<1>7. PICK s : s = [b EXCEPT !.stopping = FALSE]  OBVIOUS
<1>8. s \in Side /\ s.last = b.last /\ s.floor = b.floor /\ s.due = b.due /\ s.stopping = FALSE
  BY <1>7 DEF Side
<1>9. PICK w : w = [h EXCEPT !.side = s]  OBVIOUS
<1>10. w \in Worlds /\ w.side = s /\ w.cli = y /\ w.job = job  BY <1>4, <1>5, <1>8, <1>9, SideIs
<1>11. w = [Handled EXCEPT !.side.stopping = FALSE]  BY <1>1, <1>3, <1>4, <1>7, <1>9
<1>12. OnlyTells(side, cli, w.side, w.cli)
  <2>1. s.last = side.last /\ s.floor = side.floor /\ (s.due \/ s.stopping => MayBegin(side))
    BY <1>1, <1>8 DEF MayBegin
  <2>2. OnlyTells(side, cli, s, y)  BY <1>2, <1>3, <1>5, <2>1, HandledTells
  <2> QED  BY <1>10, <2>2
<1>13. CASE side.stopping /\ m.t = "hook_stopped"
  <2>1. PICK by, id, labels, waits : by = "mid" /\ id = 0 /\ labels = m.labels /\ waits = TRUE  OBVIOUS
  <2>2. PICK x : x = Compacts(w, by, id, labels, waits)  OBVIOUS
  <2>3. Tells(w, x) /\ x.job.by = by  BY <1>10, <2>2, CompactsIs
  <2>4. Becomes(x)  BY <1>6, <1>11, <1>13, <2>1, <2>2 DEF OnResult
  <2>5. MayBegin(side)  BY <1>13 DEF MayBegin
  <2> QED  BY <1>10, <1>12, <2>3, <2>4, <2>5, WorldTells
<1>14. CASE ~ (side.stopping /\ m.t = "hook_stopped")
  <2>1. PICK t : t = [s EXCEPT !.midTurnFailed = FALSE]  OBVIOUS
  <2>2. t \in Side /\ t.last = s.last /\ t.floor = s.floor /\ t.due = s.due /\ t.stopping = s.stopping
    BY <1>8, <2>1 DEF Side
  <2>3. PICK x : x = [w EXCEPT !.side = t]  OBVIOUS
  <2>4. Tells(w, x) /\ x.job = w.job
    <3>1. t.last = w.side.last /\ t.floor = w.side.floor /\ (t.due => w.side.due) /\ t.stopping = w.side.stopping
      BY <1>10, <2>2
    <3> QED  BY <1>10, <2>2, <2>3, <3>1, TellsSide
  <2>5. x = [w EXCEPT !.side.midTurnFailed = FALSE]  BY <1>10, <2>1, <2>3
  <2>6. Becomes(x)  BY <1>6, <1>11, <1>14, <2>5 DEF OnResult
  <2> QED  BY <1>10, <1>12, <2>4, <2>6, WorldTells
<1> QED  BY <1>13, <1>14

LEMMA ResultCapturedTells ==
  ASSUME SessionInv, Readings, ResultCaptured
  PROVE  Readings' /\ NewFirst
<1>1. /\ World \in Worlds /\ World.side = side /\ World.cli = cli /\ World.job = job
      /\ side \in Side /\ cli \in Cli /\ job \in Job
  BY InvHolds
<1>2. PICK open : open = [side EXCEPT !.turnOpen = FALSE]  OBVIOUS
<1>3. /\ open \in Side /\ open.last = side.last /\ open.floor = side.floor
      /\ open.due = side.due /\ open.stopping = side.stopping
  BY <1>1, <1>2 DEF Side
<1>4. PICK over : over = Settled(open)  OBVIOUS
<1>5. /\ over \in Side /\ over.last = side.last /\ over.floor = side.floor
      /\ over.due = side.due /\ over.stopping = side.stopping
  <2>1. /\ over \in Side /\ over.last = open.last /\ over.floor = open.floor
        /\ over.due = open.due /\ over.stopping = open.stopping
    BY <1>3, <1>4, SettledIs
  <2> QED  BY <1>3, <2>1
<1>6. PICK due : due = DueCompact(side)  OBVIOUS
<1>7. due => MayBegin(side)  BY <1>6 DEF DueCompact, MayBegin
<1>8. PICK s : s = [over EXCEPT !.due = @ /\ side.compacting]  OBVIOUS
<1>9. s \in Side /\ s.last = over.last /\ s.floor = over.floor /\ (s.due => side.due) /\ s.stopping = over.stopping
  <2>1. PICK d \in BOOLEAN : d = (over.due /\ side.compacting)  OBVIOUS
  <2>2. s = [over EXCEPT !.due = d]  BY <1>8, <2>1
  <2>3. s \in Side /\ s.last = over.last /\ s.floor = over.floor /\ s.due = d /\ s.stopping = over.stopping
    BY <1>5, <2>2 DEF Side
  <2> QED  BY <1>5, <2>1, <2>3
<1>10. PICK w : w = [World EXCEPT !.side = s]  OBVIOUS
<1>11. w \in Worlds /\ w.side = s /\ w.cli = cli /\ w.job = job  BY <1>1, <1>9, <1>10, SideIs
<1>12. w = [World EXCEPT !.side = [over EXCEPT !.due = @ /\ side.compacting]]  BY <1>8, <1>10
<1>13. over = Settled([side EXCEPT !.turnOpen = FALSE])  BY <1>2, <1>4
<1>14. CASE due /\ ~ CliHoldsUnstarted(over)
  <2>1. PICK by, id, labels, waits : by = "turn" /\ id = 0 /\ labels = pump.labels /\ waits = TRUE  OBVIOUS
  <2>2. PICK x : x = Compacts(w, by, id, labels, waits)  OBVIOUS
  <2>3. Tells(w, x) /\ x.job.by = by  BY <1>11, <2>2, CompactsIs
  <2>4. Becomes(x)
    <3>1. Becomes(Compacts(w, "turn", 0, pump.labels, TRUE))
      BY <1>6, <1>12, <1>13, <1>14 DEF ResultCaptured
    <3> QED  BY <2>1, <2>2, <3>1
  <2>5. OnlyTells(side, cli, w.side, w.cli)
    <3>1. PICK b, c, t, d : b = side /\ c = cli /\ t = w.side /\ d = w.cli  OBVIOUS
    <3>2. /\ t.last = b.last /\ t.floor = b.floor /\ (t.due => b.due) /\ t.stopping = b.stopping
          /\ d.base = c.base /\ d.context = c.context /\ d.reread = c.reread /\ d.out = c.out
      BY <1>5, <1>9, <1>11, <3>1
    <3>3. OnlyTells(b, c, t, d)  BY <3>2, TellsSelf
    <3> QED  BY <3>1, <3>3
  <2> QED  BY <1>7, <1>11, <1>14, <2>3, <2>4, <2>5, WorldTells
<1>15. CASE ~ (due /\ ~ CliHoldsUnstarted(over))
  <2>1. PICK t : t = [s EXCEPT !.due = @ \/ due]  OBVIOUS
  <2>2. /\ t \in Side /\ t.last = s.last /\ t.floor = s.floor /\ (t.due => s.due \/ due) /\ t.stopping = s.stopping
    <3>1. due \in BOOLEAN  BY <1>1, <1>6 DEF DueCompact, Side, PastTrigger
    <3>2. (s.due \/ due) \in BOOLEAN  OBVIOUS
    <3> QED  BY <1>9, <2>1, <3>2 DEF Side
  <2>3. PICK y : y = [w EXCEPT !.side = t]  OBVIOUS
  <2>4. y \in Worlds /\ y.side = t /\ y.cli = w.cli /\ y.job = w.job  BY <1>11, <2>2, <2>3, SideIs
  <2>5. y = [w EXCEPT !.side.due = @ \/ due]  BY <1>11, <2>1, <2>3
  <2>6. PICK waits : waits = TRUE  OBVIOUS
  <2>7. PICK x : x = Advance(y, waits)  OBVIOUS
  <2>8. Becomes(x)
    <3>1. Becomes(Advance([w EXCEPT !.side.due = @ \/ due], TRUE))
      BY <1>6, <1>12, <1>13, <1>15 DEF ResultCaptured
    <3> QED  BY <2>5, <2>6, <2>7, <3>1
  <2>9. Tells(y, x) /\ (x.job = y.job \/ x.job.by = "manual" \/ y.side.due)  BY <2>4, <2>7, AdvanceTells
  <2>10. OnlyTells(side, cli, y.side, y.cli)
    <3>1. PICK b, c, e, d : b = side /\ c = cli /\ e = y.side /\ d = y.cli  OBVIOUS
    <3>2. /\ e.last = b.last /\ e.floor = b.floor /\ (e.due \/ e.stopping => MayBegin(b))
          /\ d = c
      BY <1>5, <1>7, <1>9, <1>11, <2>2, <2>4, <3>1 DEF MayBegin
    <3>3. OnlyTells(b, c, e, d)  BY <3>2 DEF OnlyTells, MayBegin
    <3> QED  BY <3>1, <3>3
  <2>11. y.job = job  BY <1>11, <2>4
  <2> QED  BY <2>4, <2>8, <2>9, <2>10, <2>11, WorldTells
<1> QED  BY <1>14, <1>15

\* What the caller of a rebuild goes on to says nothing new of the context.
LEMMA ContinuesTells ==
  ASSUME SessionInv, NEW v \in Worlds, NEW x, x = Continues(v), job.by # "none"
  PROVE  Tells(v, x)
<1>1. job \in Job /\ spent \in Spent  BY InvHolds
<1>2. CASE job.by = "turn"
  <2>1. PICK waits : waits = TRUE  OBVIOUS
  <2>2. x = Advance(v, waits)  BY <1>2, <2>1 DEF Continues
  <2> QED  BY <2>2, AdvanceTells
<1>3. CASE job.by = "mid"
  <2>1. PICK id \in Nat : id = MaxInputs + spent.stops
    <3>1. MaxInputs + spent.stops \in Nat  BY <1>1, SessionBounds DEF Spent
    <3> QED  BY <3>1
  <2>2. PICK s \in Side : s = v.side  BY TypesOf
  <2>3. PICK t : t = Settled(s)  OBVIOUS
  <2>4. t \in Side /\ t.last = s.last /\ t.floor = s.floor /\ t.due = s.due /\ t.stopping = s.stopping
    BY <2>3, SettledIs
  <2>5. PICK y : y = [v EXCEPT !.side = t]  OBVIOUS
  <2>6. Tells(v, y) /\ y \in Worlds
    <3>1. t.last = v.side.last /\ t.floor = v.side.floor /\ (t.due => v.side.due) /\ t.stopping = v.side.stopping
      BY <2>2, <2>4
    <3> QED  BY <2>4, <2>5, <3>1, TellsSide
  <2>7. x = Send(y, id)  BY <1>3, <2>1, <2>2, <2>3, <2>5 DEF Continues
  <2>8. Tells(y, x)  BY <2>6, <2>7, SendTells
  <2> QED  BY <2>6, <2>8 DEF Tells
<1>4. CASE job.by = "send"
  <2>1. PICK id \in Nat : id = job.id  BY <1>1 DEF Job
  <2>2. PICK y : y = Send(v, id)  OBVIOUS
  <2>3. Tells(v, y) /\ y \in Worlds  BY <2>2, SendTells
  <2>4. PICK z : z = [y EXCEPT !.side.advancing = FALSE]  OBVIOUS
  <2>5. Tells(y, z) /\ z \in Worlds  BY <2>3, <2>4, OffTells
  <2>6. x = EndIfIdle(z)  BY <1>4, <2>1, <2>2, <2>4 DEF Continues
  <2>7. Tells(z, x)  BY <2>5, <2>6, EndTells
  <2> QED  BY <2>3, <2>5, <2>7 DEF Tells
<1>5. CASE job.by \notin {"turn", "mid", "send"}
  <2>1. PICK waits : waits = job.pump  OBVIOUS
  <2>2. x = Advances(v, waits)  BY <1>5, <2>1 DEF Continues
  <2> QED  BY <2>2, AdvancesTells
<1> QED  BY <1>2, <1>3, <1>4, <1>5

\* A generation begins with the size that was told of it, and no reading yet; one that is kept
\* is told of as before.
LEMMA RebuiltTells ==
  ASSUME SessionInv, Readings, NEW adopted, Rebuilt(adopted)
  PROVE  Readings' /\ NewFirst
<1>1. /\ Good(World, kinds, pump, answers, started, spent) /\ World \in Worlds
      /\ World.side = side /\ World.cli = cli /\ World.job = job
      /\ side \in Side /\ cli \in Cli /\ job \in Job
  BY InvHolds
<1>2. job.by # "none"  BY DEF Rebuilt
<1>3. PICK b \in Side, c \in Cli : b = side /\ c = cli  BY <1>1
<1>4. Heard(c) /\ Told(b, c)  BY <1>3 DEF Readings
<1>5. PICK v : v = IF adopted THEN Adopt ELSE KeepsGeneration  OBVIOUS
<1>6. v \in Worlds  BY <1>2, <1>5, RenewedIs
<1>7. ~ b.stopping
  <2>1. PICK u, k, p, a, st, sp : u = World /\ k = kinds /\ p = pump /\ a = answers /\ st = started /\ sp = spent
    OBVIOUS
  <2>2. Good(u, k, p, a, st, sp) /\ u.job.by # "none" /\ u.side = b  BY <1>1, <1>2, <1>3, <2>1
  <2>3. ~ u.side.stopping  BY <2>2, JobRuns
  <2> QED  BY <2>2, <2>3
<1>8. Heard(v.cli) /\ Told(v.side, v.cli)
  <2>1. CASE adopted
    <3>1. PICK t : t = [b EXCEPT !.due = FALSE, !.floor = Unread, !.last = 0, !.compacting = FALSE]  OBVIOUS
    <3>2. t.due = FALSE /\ t.floor = Unread /\ t.last = 0 /\ t.stopping = b.stopping
      BY <3>1 DEF Side
    <3>3. PICK d : d = NewCli(c.input, c.base, job.labels)  OBVIOUS
    <3>4. d.base = c.base /\ d.context = c.base /\ d.out = <<>>  BY <3>3 DEF NewCli
    <3>5. v.side = t /\ v.cli = d
      <4>1. v = [World EXCEPT !.side = t, !.cli = d, !.job = NoJob]  BY <1>1, <1>3, <1>5, <2>1, <3>1, <3>3 DEF Adopt
      <4> QED  BY <1>1, <4>1 DEF Worlds
    <3>6. c.context <= MaxContext /\ c.base <= c.context  BY <1>4 DEF Heard
    <3>7. c.base \in Nat /\ c.context \in Nat /\ MaxContext \in Nat  BY SessionBounds DEF Cli
    <3>8. Heard(d)
      <4>1. d.base <= d.context /\ d.context <= MaxContext  BY <3>4, <3>6, <3>7
      <4>2. \A n \in 1..Len(d.out) : FALSE  BY <3>4
      <4> QED  BY <4>1, <4>2 DEF Heard
    <3>9. Told(t, d)
      <4>1. t.last <= d.context  BY <3>2, <3>4, <3>7
      <4>2. ~ (t.floor >= 0)  BY <3>2 DEF Unread
      <4>3. ~ t.due /\ ~ t.stopping  BY <1>7, <3>2
      <4> QED  BY <3>2, <4>1, <4>2, <4>3 DEF Told
    <3> QED  BY <3>5, <3>8, <3>9
  <2>2. CASE ~ adopted
    <3>1. PICK failed \in BOOLEAN : failed = (b.midTurnFailed \/ job.by = "mid")  BY DEF Side
    <3>2. PICK t : t = [b EXCEPT !.compacting = FALSE, !.midTurnFailed = failed]  OBVIOUS
    <3>3. t.last = b.last /\ t.floor = b.floor /\ t.due = b.due /\ t.stopping = b.stopping  BY <3>2 DEF Side
    <3>4. PICK d : d = [c EXCEPT !.stopped = job.labels]  OBVIOUS
    <3>5. d.base = c.base /\ d.context = c.context /\ d.reread = c.reread /\ d.out = c.out  BY <3>4 DEF Cli
    <3>6. v.side = t /\ v.cli = d
      <4>1. PICK q : q = World  OBVIOUS
      <4>2. q \in Worlds /\ q.side = b /\ q.cli = c  BY <1>1, <1>3, <4>1
      <4>3. v = [q EXCEPT !.side.compacting = FALSE, !.side.midTurnFailed = @ \/ job.by = "mid",
                          !.cli.stopped = job.labels, !.job = NoJob]
        BY <1>5, <2>2, <4>1 DEF KeepsGeneration
      <4>4. v = [q EXCEPT !.side = [b EXCEPT !.compacting = FALSE, !.midTurnFailed = failed],
                          !.cli = [c EXCEPT !.stopped = job.labels], !.job = NoJob]
        BY <3>1, <4>2, <4>3 DEF Worlds, Side
      <4>5. v = [q EXCEPT !.side = t, !.cli = d, !.job = NoJob]  BY <3>2, <3>4, <4>4
      <4> QED  BY <4>2, <4>5 DEF Worlds
    <3>7. OnlyTells(b, c, t, d)  BY <3>3, <3>5, TellsSelf
    <3>8. Heard(d) /\ Told(t, d)  BY <1>4, <3>7, TellsKeeps
    <3> QED  BY <3>6, <3>8
  <2> QED  BY <2>1, <2>2
<1>9. PICK x : x = Continues(v)  OBVIOUS
<1>10. Tells(v, x)  BY <1>2, <1>6, <1>9, ContinuesTells
<1>11. Becomes(x)  BY <1>5, <1>9 DEF Rebuilt
<1>12. Readings'  BY <1>6, <1>8, <1>10, <1>11, BecomesTells
<1>13. NewFirst
  <2>1. NoJob.by = "none"  BY DEF NoJob
  <2>2. job # NoJob  BY <1>2, <2>1
  <2> QED  BY <2>2 DEF NewFirst
<1> QED  BY <1>12, <1>13

-----------------------------------------------------------------------------

LEMMA InitTells ==
  ASSUME SessionInit
  PROVE  Readings
<1>1. Trigger \in Nat /\ MaxContext \in Nat /\ Trigger <= MaxContext  BY SessionBounds
<1>2. PICK n \in {0, Trigger} : cli = NewCli(<<>>, n, <<>>)  BY DEF SessionInit
<1>3. n \in Nat /\ n <= MaxContext  BY <1>1, <1>2
<1>4. cli.base = n /\ cli.context = n /\ cli.out = <<>>  BY <1>2 DEF NewCli
<1>5. side.last = 0 /\ side.floor = NoFloor /\ side.due = FALSE /\ side.stopping = FALSE  BY DEF SessionInit
<1>6. Heard(cli)
  <2>1. \A i \in 1..Len(cli.out) : FALSE  BY <1>4
  <2> QED  BY <1>3, <1>4, <2>1 DEF Heard
<1>7. Told(side, cli)
  <2>1. ~ (side.floor >= 0) /\ side.floor # Unread  BY <1>5 DEF NoFloor, Unread
  <2>2. side.last <= cli.context  BY <1>3, <1>4, <1>5
  <2> QED  BY <1>5, <2>1, <2>2 DEF Told
<1> QED  BY <1>6, <1>7 DEF Readings

LEMMA StepReadings ==
  ASSUME SessionInv, Readings, SessionNext
  PROVE  Readings' /\ NewFirst
<1>1. ASSUME NEW kind \in {"prompt", "compact"}, PushUser(kind) PROVE Readings' /\ NewFirst  BY <1>1, PushUserTells
<1>2. ASSUME EndInput PROVE Readings' /\ NewFirst  BY <1>2, EndInputTells
<1>3. ASSUME ReadAgain PROVE Readings' /\ NewFirst  BY <1>3, SameTells DEF ReadAgain
<1>4. ASSUME NEW usable \in BOOLEAN, ReadArrives(usable) PROVE Readings' /\ NewFirst  BY <1>4, ReadArrivesTells
<1>5. ASSUME Pull PROVE Readings' /\ NewFirst  BY <1>5, PullTells
<1>6. ASSUME Pulled PROVE Readings' /\ NewFirst  BY <1>6, PulledTells
<1>7. ASSUME NEW tool \in BOOLEAN, Request(tool) PROVE Readings' /\ NewFirst  BY <1>7, RequestTells
<1>8. ASSUME NEW terminal \in {"result", "hook_stopped", "interrupted"}, TurnEnds(terminal)
      PROVE Readings' /\ NewFirst
  BY <1>8, TurnEndsTells
<1>9. ASSUME NEW safe \in BOOLEAN, NEW folds \in BOOLEAN, PostToolUse(safe, folds) PROVE Readings' /\ NewFirst
  BY <1>9, PostToolUseTells
<1>10. ASSUME OnLifecycle PROVE Readings' /\ NewFirst  BY <1>10, OnLifecycleTells
<1>11. ASSUME OnAssistant PROVE Readings' /\ NewFirst  BY <1>11, OnAssistantTells
<1>12. ASSUME OnResult PROVE Readings' /\ NewFirst  BY <1>12, OnResultTells
<1>13. ASSUME ResultCaptured PROVE Readings' /\ NewFirst  BY <1>13, ResultCapturedTells
<1>14. ASSUME NEW adopted \in BOOLEAN, Rebuilt(adopted) PROVE Readings' /\ NewFirst  BY <1>14, RebuiltTells
<1> QED
  BY <1>1, <1>2, <1>3, <1>4, <1>5, <1>6, <1>7, <1>8, <1>9, <1>10, <1>11, <1>12, <1>13, <1>14
  DEF SessionNext, SessionStep

\* An automatic compact follows new context: a generation that a compact started is replaced by
\* another automatic compact only when the session was told of more than its first request.
THEOREM NewContextComesFirst == SessionSpec => NewContextFirst
<1>1. SessionInit => Readings  BY InitTells
<1>2. SessionInv /\ Readings /\ [SessionNext]_sessionVars => Readings'
  <2>1. SessionInv /\ Readings /\ SessionNext => Readings'  BY StepReadings
  <2>2. Readings /\ UNCHANGED sessionVars => Readings'  BY DEF sessionVars, Readings
  <2> QED  BY <2>1, <2>2
<1>3. SessionSpec => []SessionInv  BY SessionHolds
<1>4. SessionInv /\ Readings /\ [SessionNext]_sessionVars =>
        [(job = NoJob /\ job'.by \in {"turn", "mid", "send"} /\ side.floor # NoFloor /\ ~ cli.reread)
           => cli.context >= cli.base + 2]_sessionVars
  <2>1. SessionInv /\ Readings /\ SessionNext => NewFirst  BY StepReadings
  <2> QED  BY <2>1 DEF NewFirst
<1> QED  BY <1>1, <1>2, <1>3, <1>4, PTL DEF SessionSpec, NewContextFirst
=============================================================================
