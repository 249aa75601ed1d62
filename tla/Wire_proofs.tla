----------------------------- MODULE Wire_proofs ------------------------------
(***************************************************************************)
(* For messages of every size, buffers of every size and wherever the      *)
(* kernel cuts the stream: the messages that ProcessMessages takes are     *)
(* those the other end sent, whole and in their order, and the send        *)
(* buffer's size and offset are what SocketSendData asserts.               *)
(***************************************************************************)
EXTENDS Wire, WellFoundedInduction, TLAPS

-----------------------------------------------------------------------------
\* Numbers and loops

LessThan == {p \in Nat \X Nat : p[1] < p[2]}

\* The library states that < is well founded, and that a well-founded relation
\* has minimal elements; for natural numbers: a non-empty set has a smallest one.
LEMMA SmallestExists ==
    ASSUME NEW S \in SUBSET Nat, S # {}
    PROVE  \E m \in S : \A k \in S : m <= k
<1>1. IsWellFoundedOn(LessThan, Nat)
    BY NatLessThanWellFounded, Zenon DEF LessThan, OpToRel
<1>2. PICK m \in S : \A k \in S : <<k, m>> \notin LessThan
    BY <1>1, WFMin, Zenon
<1>3. \A i, j \in Nat : i < j => <<i, j>> \in LessThan
    BY DEF LessThan
<1>4. ASSUME NEW k \in S PROVE m <= k
    <2>1. m \in Nat /\ k \in Nat
        OBVIOUS
    <2>2. ~(k < m)
        BY <1>2, <1>3, <2>1
    <2> QED
        BY <2>1, <2>2
<1> QED
    BY <1>4

\* Induction over the natural numbers, for a set instead of a predicate.
LEMMA Induction ==
    ASSUME NEW T \in SUBSET Nat, 0 \in T, \A n \in T : n + 1 \in T
    PROVE  T = Nat
<1>1. ASSUME Nat \ T # {} PROVE FALSE
    <2>1. PICK m \in Nat \ T : \A k \in Nat \ T : m <= k
        BY <1>1, SmallestExists
    <2>2. m # 0 /\ m - 1 \in Nat
        BY <2>1
    <2>3. m - 1 \in T
        BY <2>1, <2>2
    <2> QED
        BY <2>1, <2>2, <2>3
<1> QED
    BY <1>1

\* The same up to a bound: what holds of 0 and goes on from each number below n to the
\* next holds up to n.
LEMMA InductionTo ==
    ASSUME NEW n \in Nat, NEW T, 0 \in T, \A k \in 0 .. n : k \in T /\ k < n => k + 1 \in T
    PROVE  0 .. n \subseteq T
<1> DEFINE U == {k \in Nat : k <= n => k \in T}
<1>1. U \in SUBSET Nat /\ 0 \in U
    OBVIOUS
<1>2. ASSUME NEW k \in U PROVE k + 1 \in U
    OBVIOUS
<1>3. U = Nat
    <2> HIDE DEF U
    <2> QED
        BY <1>1, <1>2, Induction
<1> QED
    BY <1>3

\* A loop of n turns, each of which makes a state in S of a state in S, has such states.
IsLoop(g, n, S, start, F) ==
    /\ g \in [0 .. n -> S] /\ g[0] = start
    /\ \A i \in 1 .. n : g[i] = F[i][g[i - 1]]

LEMMA LoopExists ==
    ASSUME NEW n \in Nat, NEW S, NEW start \in S, NEW F, F \in [1 .. n -> [S -> S]]
    PROVE  \E g : IsLoop(g, n, S, start, F)
<1> DEFINE Loop(g, k) == /\ g \in [0 .. n -> S] /\ g[0] = start
                         /\ \A i \in 1 .. k : g[i] = F[i][g[i - 1]]
           T == {k \in 0 .. n : \E g : Loop(g, k)}
<1>1. 0 \in T
    <2> DEFINE g == [i \in 0 .. n |-> start]
    <2>1. Loop(g, 0) /\ 0 \in 0 .. n
        OBVIOUS
    <2> HIDE DEF g, Loop
    <2> QED
        BY <2>1
<1>2. ASSUME NEW k \in 0 .. n, k \in T, k < n PROVE k + 1 \in T
    <2>1. PICK g : Loop(g, k)
        BY <1>2
    <2>2. k \in Nat /\ k + 1 \in 0 .. n /\ k + 1 \in 1 .. n /\ 0 \in 0 .. n /\ 0 # k + 1
        BY <1>2
    <2> DEFINE s == F[k + 1][g[k]]
               h == [i \in 0 .. n |-> IF i = k + 1 THEN s ELSE g[i]]
    <2>3. s \in S
        <3>1. F[k + 1] \in [S -> S] /\ g[k] \in S
            BY <2>1, <2>2
        <3> QED
            BY <3>1
    <2> HIDE DEF s
    <2>4. h \in [0 .. n -> S] /\ h[0] = start
        BY <2>1, <2>2, <2>3
    <2>5. ASSUME NEW i \in 1 .. k + 1 PROVE h[i] = F[i][h[i - 1]]
        <3>1. i \in 0 .. n /\ i - 1 \in 0 .. n /\ i - 1 # k + 1
            BY <2>2
        <3>2. h[i - 1] = g[i - 1]
            BY <3>1
        <3>3. CASE i = k + 1
            <4>1. h[i] = s /\ i - 1 = k
                BY <2>2, <3>1, <3>3
            <4> HIDE DEF h
            <4> QED
                BY <3>2, <3>3, <4>1 DEF s
        <3>4. CASE i # k + 1
            <4>1. i \in 1 .. k
                BY <2>2, <3>4
            <4>2. h[i] = g[i]
                BY <3>1, <3>4
            <4> HIDE DEF h
            <4> QED
                BY <2>1, <3>2, <4>1, <4>2
        <3> QED
            BY <3>3, <3>4
    <2>6. Loop(h, k + 1)
        BY <2>4, <2>5
    <2> HIDE DEF h, Loop
    <2> QED
        BY <2>2, <2>6
<1>3. n \in T
    <2> HIDE DEF T
    <2>1. 0 .. n \subseteq T
        BY <1>1, <1>2, InductionTo
    <2> QED
        BY <2>1
<1>4. PICK g : Loop(g, n)
    BY <1>3
<1> QED
    BY <1>4 DEF IsLoop

-----------------------------------------------------------------------------
\* Messages in a row

\* t[i] is what the first i messages have together.
IsTotal(t, msgs) ==
    /\ t \in [0 .. Len(msgs) -> Nat] /\ t[0] = 0
    /\ \A i \in 1 .. Len(msgs) : t[i] = t[i - 1] + Len(msgs[i])

LEMMA TotalExists ==
    ASSUME NEW U, NEW msgs \in Seq(Seq(U))
    PROVE  \E t : IsTotal(t, msgs) /\ TotalLength(msgs) = t[Len(msgs)]
<1> DEFINE n == Len(msgs)
           F == [i \in 1 .. n |-> [s \in Nat |-> s + Len(msgs[i])]]
           Body(t) == t = [i \in 0 .. n |-> IF i = 0 THEN 0 ELSE t[i - 1] + Len(msgs[i])]
           total == CHOOSE t : Body(t)
<1>1. n \in Nat /\ TotalLength(msgs) = total[n]
    BY DEF TotalLength
<1>2. \A i \in 1 .. n : Len(msgs[i]) \in Nat
    OBVIOUS
<1>3. F \in [1 .. n -> [Nat -> Nat]]
    BY <1>2
<1>4. \A i \in 1 .. n : \A s \in Nat : F[i][s] = s + Len(msgs[i])
    OBVIOUS
<1> HIDE DEF n, F
<1>5. PICK g \in [0 .. n -> Nat] : g[0] = 0 /\ \A i \in 1 .. n : g[i] = F[i][g[i - 1]]
    <2> DEFINE S == Nat
               zero == 0
    <2>1. zero \in S /\ F \in [1 .. n -> [S -> S]]
        BY <1>3
    <2> HIDE DEF S, zero
    <2>2. \E g : IsLoop(g, n, S, zero, F)
        BY <1>1, <2>1, LoopExists
    <2> QED
        BY <2>2 DEF S, zero, IsLoop
<1>6. \A i \in 1 .. n : i - 1 \in 0 .. n /\ i \in 0 .. n /\ i # 0
    BY <1>1
<1>7. Body(g)
    <2>1. ASSUME NEW i \in 0 .. n
          PROVE  g[i] = IF i = 0 THEN 0 ELSE g[i - 1] + Len(msgs[i])
        <3>1. CASE i = 0
            BY <1>5, <3>1
        <3>2. CASE i # 0
            <4>1. i \in 1 .. n
                BY <1>1, <3>2
            <4> QED
                BY <1>4, <1>5, <1>6, <3>2, <4>1
        <3> QED
            BY <3>1, <3>2
    <2> QED
        BY <2>1
<1>8. Body(total)
    <2> HIDE DEF Body
    <2> QED
        BY <1>7
<1> HIDE DEF total
<1> DEFINE T == {k \in 0 .. n : total[k] \in Nat}
<1>9. total[0] = 0 /\ \A i \in 1 .. n : total[i] = total[i - 1] + Len(msgs[i])
    BY <1>1, <1>6, <1>8
<1>10. 0 \in T
    BY <1>1, <1>9
<1>11. ASSUME NEW k \in 0 .. n, k \in T, k < n PROVE k + 1 \in T
    <2>1. k + 1 \in 1 .. n /\ k + 1 \in 0 .. n /\ (k + 1) - 1 = k
        BY <1>1, <1>11
    <2>2. total[k + 1] = total[k] + Len(msgs[k + 1])
        BY <1>9, <2>1
    <2> QED
        BY <1>2, <1>11, <2>1, <2>2
<1>12. 0 .. n \subseteq T
    <2> HIDE DEF T
    <2> QED
        BY <1>1, <1>10, <1>11, InductionTo
<1>13. total \in [0 .. n -> Nat]
    BY <1>8, <1>12
<1>14. IsTotal(total, msgs)
    BY <1>9, <1>13 DEF IsTotal, n
<1> QED
    BY <1>1, <1>14 DEF n

\* There is only one such function.
LEMMA TotalIs ==
    ASSUME NEW U, NEW msgs \in Seq(Seq(U)), NEW t, IsTotal(t, msgs)
    PROVE  TotalLength(msgs) = t[Len(msgs)]
<1> DEFINE n == Len(msgs)
<1>1. PICK u : IsTotal(u, msgs) /\ TotalLength(msgs) = u[n]
    BY TotalExists
<1>2. n \in Nat
    OBVIOUS
<1> DEFINE T == {k \in 0 .. n : t[k] = u[k]}
<1>3. /\ t[0] = 0 /\ u[0] = 0
      /\ \A i \in 1 .. n : t[i] = t[i - 1] + Len(msgs[i]) /\ u[i] = u[i - 1] + Len(msgs[i])
    BY <1>1 DEF IsTotal
<1> HIDE DEF n
<1>4. 0 \in T
    BY <1>2, <1>3
<1>5. ASSUME NEW k \in 0 .. n, k \in T, k < n PROVE k + 1 \in T
    <2>1. k + 1 \in 1 .. n /\ k + 1 \in 0 .. n /\ (k + 1) - 1 = k
        BY <1>2, <1>5
    <2> QED
        BY <1>3, <1>5, <2>1
<1>6. n \in T
    <2> HIDE DEF T
    <2>1. 0 .. n \subseteq T
        BY <1>2, <1>4, <1>5, InductionTo
    <2> QED
        BY <1>2, <2>1
<1> QED
    BY <1>1, <1>6 DEF n

\* What a part of the messages has together.
LEMMA TotalOfFirst ==
    ASSUME NEW U, NEW msgs \in Seq(Seq(U)), NEW t, IsTotal(t, msgs), NEW k \in 0 .. Len(msgs)
    PROVE  TotalLength(SubSeq(msgs, 1, k)) = t[k]
<1> DEFINE part == SubSeq(msgs, 1, k)
           u == [i \in 0 .. k |-> t[i]]
<1>1. /\ part \in Seq(Seq(U)) /\ Len(part) = k /\ \A i \in 1 .. k : part[i] = msgs[i]
      /\ k \in Nat
    OBVIOUS
<1>2. /\ \A i \in 0 .. Len(msgs) : t[i] \in Nat
      /\ t[0] = 0 /\ \A i \in 1 .. Len(msgs) : t[i] = t[i - 1] + Len(msgs[i])
    BY DEF IsTotal
<1>3. u[k] = t[k] /\ u[0] = 0 /\ u \in [0 .. k -> Nat]
    BY <1>1, <1>2
<1>4. \A i \in 1 .. k : u[i] = u[i - 1] + Len(part[i])
    <2> SUFFICES ASSUME NEW i \in 1 .. k PROVE u[i] = u[i - 1] + Len(part[i])
        OBVIOUS
    <2>1. i \in 1 .. Len(msgs) /\ i - 1 \in 0 .. k /\ i \in 0 .. k
        BY <1>1
    <2>2. u[i] = t[i] /\ u[i - 1] = t[i - 1] /\ part[i] = msgs[i]
        BY <1>1, <2>1
    <2> HIDE DEF u, part
    <2> QED
        BY <1>2, <2>1, <2>2
<1> HIDE DEF part, u
<1>5. IsTotal(u, part)
    BY <1>1, <1>3, <1>4 DEF IsTotal
<1> QED
    BY <1>1, <1>3, <1>5, TotalIs DEF part

\* The totals do not fall.
LEMMA TotalGrows ==
    ASSUME NEW U, NEW msgs \in Seq(Seq(U)), NEW t, IsTotal(t, msgs),
           NEW j \in 0 .. Len(msgs), NEW k \in 0 .. j
    PROVE  t[k] <= t[j]
<1> DEFINE n == Len(msgs)
<1>1. /\ n \in Nat /\ \A i \in 0 .. n : t[i] \in Nat
      /\ \A i \in 1 .. n : t[i] = t[i - 1] + Len(msgs[i])
    <2>1. n \in Nat
        OBVIOUS
    <2>2. t \in [0 .. n -> Nat] /\ \A i \in 1 .. n : t[i] = t[i - 1] + Len(msgs[i])
        BY DEF IsTotal
    <2> QED
        BY <2>1, <2>2
<1> DEFINE T == {i \in 0 .. n : k <= i => t[k] <= t[i]}
<1>2. \A i \in 1 .. n : Len(msgs[i]) \in Nat
    OBVIOUS
<1>3. j \in 0 .. n /\ k \in 0 .. n /\ k <= j
    OBVIOUS
<1> HIDE DEF n
<1>4. 0 \in T
    BY <1>1, <1>3
<1>5. ASSUME NEW i \in 0 .. n, i \in T, i < n PROVE i + 1 \in T
    <2>1. i + 1 \in 1 .. n /\ i + 1 \in 0 .. n /\ (i + 1) - 1 = i /\ i \in Nat
        BY <1>1, <1>5
    <2>2. t[i + 1] = t[i] + Len(msgs[i + 1]) /\ Len(msgs[i + 1]) \in Nat
        BY <1>1, <1>2, <2>1
    <2>3. t[i] \in Nat /\ t[i + 1] \in Nat /\ t[k] \in Nat /\ k \in Nat
        BY <1>1, <1>3, <2>1
    <2>4. CASE k <= i
        BY <1>5, <2>1, <2>2, <2>3, <2>4
    <2>5. CASE k > i
        <3>1. k <= i + 1 => k = i + 1
            BY <2>1, <2>3, <2>5
        <3> QED
            BY <2>1, <2>3, <3>1
    <2> QED
        BY <2>1, <2>3, <2>4, <2>5
<1>6. 0 .. n \subseteq T
    <2> HIDE DEF T
    <2> QED
        BY <1>1, <1>4, <1>5, InductionTo
<1> QED
    BY <1>3, <1>6

\* g is f and then m.
IsJoin(g, U, f, m) ==
    /\ g \in Seq(U) /\ Len(g) = Len(f) + Len(m)
    /\ \A p \in 1 .. Len(f) : g[p] = f[p]
    /\ \A j \in 1 .. Len(m) : g[Len(f) + j] = m[j]

LEMMA Joined ==
    ASSUME NEW U, NEW f \in Seq(U), NEW m \in Seq(U)
    PROVE  IsJoin(f \o m, U, f, m)
<1>1. f \o m \in Seq(U) /\ Len(f \o m) = Len(f) + Len(m) /\ Len(f) \in Nat /\ Len(m) \in Nat
    OBVIOUS
<1>2. \A i \in 1 .. Len(f) + Len(m) :
        (f \o m)[i] = IF i <= Len(f) THEN f[i] ELSE m[i - Len(f)]
    OBVIOUS
<1>3. ASSUME NEW p \in 1 .. Len(f) PROVE (f \o m)[p] = f[p]
    <2>1. p \in 1 .. Len(f) + Len(m) /\ p <= Len(f)
        BY <1>1
    <2> QED
        BY <1>2, <2>1
<1>4. ASSUME NEW j \in 1 .. Len(m) PROVE (f \o m)[Len(f) + j] = m[j]
    <2>1. /\ Len(f) + j \in 1 .. Len(f) + Len(m) /\ ~(Len(f) + j <= Len(f))
          /\ (Len(f) + j) - Len(f) = j
        BY <1>1
    <2> QED
        BY <1>2, <2>1
<1> QED
    BY <1>1, <1>3, <1>4 DEF IsJoin

\* f is the first k messages, one behind the other.
Flat(f, U, msgs, t, k) ==
    /\ f \in Seq(U) /\ Len(f) = t[k]
    /\ \A i \in 1 .. k : \A j \in 1 .. Len(msgs[i]) : f[t[i - 1] + j] = msgs[i][j]

LEMMA FlatOne ==
    ASSUME NEW U, NEW msgs \in Seq(Seq(U)), msgs # <<>>, NEW t, IsTotal(t, msgs)
    PROVE  Flat(msgs[1], U, msgs, t, 1)
<1>1. 1 \in 1 .. Len(msgs) /\ 1 - 1 = 0 /\ Len(msgs) \in Nat
    OBVIOUS
<1>2. msgs[1] \in Seq(U)
    BY <1>1
<1>3. t[0] = 0 /\ t[1] = t[1 - 1] + Len(msgs[1])
    BY <1>1 DEF IsTotal
<1>4. t[1] = Len(msgs[1]) /\ Len(msgs[1]) \in Nat
    BY <1>1, <1>2, <1>3
<1>5. ASSUME NEW i \in 1 .. 1, NEW j \in 1 .. Len(msgs[i]) PROVE msgs[1][t[i - 1] + j] = msgs[i][j]
    <2>1. i = 1 /\ i - 1 = 0
        OBVIOUS
    <2>2. t[i - 1] + j = j
        BY <1>3, <2>1
    <2> QED
        BY <2>1, <2>2
<1> QED
    BY <1>2, <1>4, <1>5 DEF Flat

LEMMA FlatMore ==
    ASSUME NEW U, NEW msgs \in Seq(Seq(U)), NEW t, IsTotal(t, msgs), NEW k \in 1 .. Len(msgs),
           k + 1 <= Len(msgs), NEW f, Flat(f, U, msgs, t, k)
    PROVE  Flat(f \o msgs[k + 1], U, msgs, t, k + 1)
<1> DEFINE m == msgs[k + 1]
           g == f \o m
<1>1. /\ Len(msgs) \in Nat /\ k + 1 \in 1 .. Len(msgs) /\ k \in 0 .. Len(msgs) /\ k \in Nat
      /\ (k + 1) - 1 = k
    OBVIOUS
<1>2. m \in Seq(U) /\ \A i \in 1 .. k + 1 : Len(msgs[i]) \in Nat
    BY <1>1
<1>3. f \in Seq(U) /\ Len(f) = t[k]
      /\ \A i \in 1 .. k : \A j \in 1 .. Len(msgs[i]) : f[t[i - 1] + j] = msgs[i][j]
    BY DEF Flat
<1>4. /\ \A i \in 0 .. Len(msgs) : t[i] \in Nat
      /\ \A i \in 1 .. Len(msgs) : t[i] = t[i - 1] + Len(msgs[i])
    BY DEF IsTotal
<1>5. t[k + 1] = t[k] + Len(m) /\ t[k] \in Nat /\ Len(m) \in Nat
    BY <1>1, <1>2, <1>4
<1> HIDE DEF m
<1>6. /\ g \in Seq(U) /\ Len(g) = t[k] + Len(m)
      /\ \A p \in 1 .. t[k] : g[p] = f[p]
      /\ \A j \in 1 .. Len(m) : g[t[k] + j] = m[j]
    <2>1. f \in Seq(U) /\ m \in Seq(U) /\ Len(f) = t[k]
        BY <1>2, <1>3
    <2>2. IsJoin(g, U, f, m)
        BY <2>1, Joined
    <2> HIDE DEF g
    <2> QED
        BY <2>1, <2>2 DEF IsJoin
<1> HIDE DEF g
<1>7. ASSUME NEW i \in 1 .. k + 1, NEW j \in 1 .. Len(msgs[i]) PROVE g[t[i - 1] + j] = msgs[i][j]
    <2>1. CASE i = k + 1
        <3>1. i - 1 = k /\ msgs[i] = m
            BY <1>1, <2>1 DEF m
        <3>2. j \in 1 .. Len(m)
            BY <3>1
        <3> QED
            BY <1>6, <3>1, <3>2
    <2>2. CASE i # k + 1
        <3>1. i \in 1 .. k /\ i \in 1 .. Len(msgs) /\ i - 1 \in 0 .. Len(msgs) /\ i \in 0 .. k
            BY <1>1, <2>2
        <3>2. t[i] <= t[k]
            BY <1>1, <3>1, TotalGrows
        <3>3. t[i] \in Nat /\ t[i - 1] \in Nat /\ t[i] = t[i - 1] + Len(msgs[i])
            BY <1>1, <1>4, <3>1
        <3>4. t[i - 1] + j \in 1 .. t[k]
            <4>1. j \in Nat /\ 1 <= j /\ j <= Len(msgs[i]) /\ Len(msgs[i]) \in Nat
                BY <1>2
            <4> DEFINE a == t[i - 1]
                       b == t[i]
                       c == t[k]
                       l == Len(msgs[i])
            <4>2. /\ a \in Nat /\ b \in Nat /\ c \in Nat /\ l \in Nat
                  /\ b = a + l /\ b <= c /\ j <= l
                BY <1>5, <3>2, <3>3, <4>1
            <4> HIDE DEF a, b, c, l
            <4>3. a + j \in 1 .. c
                BY <4>1, <4>2
            <4> QED
                BY <4>3 DEF a, c
        <3> QED
            BY <1>3, <1>6, <3>1, <3>4
    <2> QED
        BY <2>1, <2>2
<1> QED
    BY <1>5, <1>6, <1>7 DEF Flat, g, m

LEMMA FlattenIs ==
    ASSUME NEW U, NEW msgs \in Seq(Seq(U)), msgs # <<>>, NEW t, IsTotal(t, msgs)
    PROVE  Flat(FlattenSeq(msgs), U, msgs, t, Len(msgs))
<1> DEFINE n == Len(msgs)
           S == Seq(U)
           empty == <<>>
           F == [i \in 1 .. n |-> [s \in S |-> s \o msgs[i]]]
           Body(f) == f = [i \in 1 .. n |-> IF i = 1 THEN msgs[i] ELSE f[i - 1] \o msgs[i]]
           flat == CHOOSE f : Body(f)
<1>1. n \in Nat /\ n # 0 /\ 1 \in 1 .. n /\ 1 \in 0 .. n
    OBVIOUS
<1>2. FlattenSeq(msgs) = flat[n]
    BY <1>1 DEF FlattenSeq
<1>3. \A i \in 1 .. n : msgs[i] \in S
    OBVIOUS
<1>4. empty \in S /\ F \in [1 .. n -> [S -> S]]
    BY <1>3
<1>5. \A i \in 1 .. n : \A s \in S : F[i][s] = s \o msgs[i]
    OBVIOUS
<1> HIDE DEF n, F
<1>6. PICK g : IsLoop(g, n, S, empty, F)
    <2> HIDE DEF S, empty
    <2> QED
        BY <1>1, <1>4, LoopExists
<1>7. g \in [0 .. n -> S] /\ g[0] = empty /\ \A i \in 1 .. n : g[i] = g[i - 1] \o msgs[i]
    <2>1. g \in [0 .. n -> S] /\ g[0] = empty /\ \A i \in 1 .. n : g[i] = F[i][g[i - 1]]
        BY <1>6 DEF IsLoop
    <2>2. \A i \in 1 .. n : g[i - 1] \in S
        BY <1>1, <2>1
    <2> HIDE DEF S, empty
    <2>3. ASSUME NEW i \in 1 .. n PROVE g[i] = g[i - 1] \o msgs[i]
        <3>1. g[i] = F[i][g[i - 1]] /\ g[i - 1] \in S
            BY <2>1, <2>2
        <3> QED
            BY <1>5, <3>1
    <2> QED
        BY <2>1, <2>3
<1>8. \E f : Body(f)
    <2> DEFINE h == [i \in 1 .. n |-> g[i]]
    <2>1. ASSUME NEW i \in 1 .. n
          PROVE  h[i] = IF i = 1 THEN msgs[i] ELSE h[i - 1] \o msgs[i]
        <3>1. CASE i = 1
            <4>1. g[i] = g[i - 1] \o msgs[i] /\ msgs[i] \in Seq(U)
                BY <1>3, <1>7
            <4>2. g[i - 1] = <<>>
                BY <1>7, <3>1
            <4>3. g[i] = <<>> \o msgs[i]
                BY <4>1, <4>2
            <4> DEFINE m == msgs[i]
            <4> HIDE DEF m
            <4>4. m \in Seq(U) => <<>> \o m = m
                OBVIOUS
            <4>5. g[i] = msgs[i]
                BY <4>1, <4>3, <4>4 DEF m
            <4> QED
                BY <3>1, <4>5
        <3>2. CASE i # 1
            <4>1. i - 1 \in 1 .. n
                BY <1>1, <3>2
            <4> QED
                BY <1>7, <3>2, <4>1
        <3> QED
            BY <3>1, <3>2
    <2>2. Body(h)
        BY <2>1
    <2> HIDE DEF h, Body
    <2> QED
        BY <2>2
<1>9. Body(flat)
    <2> HIDE DEF Body
    <2> QED
        BY <1>8
<1> HIDE DEF flat
<1>10. flat[1] = msgs[1]
    BY <1>1, <1>9
<1> DEFINE T == {k \in 0 .. n : k # 0 => Flat(flat[k], U, msgs, t, k)}
<1>11. 0 \in T
    BY <1>1
<1>12. ASSUME NEW k \in 0 .. n, k \in T, k < n PROVE k + 1 \in T
    <2>1. k + 1 \in 1 .. n /\ k + 1 \in 0 .. n /\ (k + 1) - 1 = k /\ k \in Nat
        BY <1>1, <1>12
    <2>2. CASE k = 0
        <3>1. Flat(flat[1], U, msgs, t, 1) /\ k + 1 = 1
            BY <1>10, <2>2, FlatOne
        <3> QED
            BY <2>1, <3>1
    <2>3. CASE k # 0
        <3> DEFINE x == flat[k]
        <3>1. k \in 1 .. n /\ k + 1 # 1
            BY <2>1, <2>3
        <3>2. flat[k + 1] = x \o msgs[k + 1] /\ Flat(x, U, msgs, t, k)
            BY <1>9, <1>12, <2>1, <2>3, <3>1
        <3>3. k \in 1 .. Len(msgs) /\ k + 1 <= Len(msgs)
            BY <1>1, <1>12, <3>1 DEF n
        <3> HIDE DEF x
        <3>4. Flat(x \o msgs[k + 1], U, msgs, t, k + 1)
            BY <3>2, <3>3, FlatMore
        <3> QED
            BY <2>1, <3>2, <3>4
    <2> QED
        BY <2>2, <2>3
<1>13. n \in T
    <2> HIDE DEF T
    <2>1. 0 .. n \subseteq T
        BY <1>1, <1>11, <1>12, InductionTo
    <2> QED
        BY <1>1, <2>1
<1> QED
    BY <1>1, <1>2, <1>13 DEF n

-----------------------------------------------------------------------------
\* Units in a row

Unit == [id : Nat, size : Payloads, at : Nat]

\* What comes next: a place in a message.  The size of a message that has not begun is open.
Start(id) == [id |-> id, at |-> 1, size |-> 0]

After(u) ==
    IF u.at = HeaderSize + u.size THEN Start(u.id + 1)
    ELSE [id |-> u.id, at |-> u.at + 1, size |-> u.size]

Accepts(p, u) == u.id = p.id /\ u.at = p.at /\ (p.at # 1 => u.size = p.size)

\* The units s lead from the place p to the place q.
Run(s, p, q) ==
    IF Len(s) = 0 THEN p = q
    ELSE /\ Accepts(p, s[1])
         /\ \A i \in 2 .. Len(s) : Accepts(After(s[i - 1]), s[i])
         /\ q = After(s[Len(s)])

LEMMA RunJoin ==
    ASSUME NEW s \in Seq(Unit), NEW r \in Seq(Unit), NEW p, NEW q, NEW z,
           Run(s, p, q), Run(r, q, z)
    PROVE  Run(s \o r, p, z)
<1> DEFINE g == s \o r
<1>1. IsJoin(g, Unit, s, r) /\ Len(s) \in Nat /\ Len(r) \in Nat
    BY Joined
<1> HIDE DEF g
<1>2. /\ Len(g) = Len(s) + Len(r)
      /\ \A i \in 1 .. Len(s) : g[i] = s[i]
      /\ \A j \in 1 .. Len(r) : g[Len(s) + j] = r[j]
    BY <1>1 DEF IsJoin
<1>3. CASE Len(s) = 0
    <2>1. p = q /\ Len(g) = Len(r)
        BY <1>1, <1>2, <1>3 DEF Run
    <2>2. \A j \in 1 .. Len(r) : g[j] = r[j]
        BY <1>1, <1>2, <1>3
    <2>3. CASE Len(r) = 0
        BY <2>1, <2>3 DEF Run, g
    <2>4. CASE Len(r) # 0
        <3>1. g[1] = r[1] /\ g[Len(r)] = r[Len(r)]
            BY <1>1, <2>2, <2>4
        <3>2. \A i \in 2 .. Len(r) : g[i] = r[i] /\ g[i - 1] = r[i - 1]
            BY <1>1, <2>2
        <3>3. /\ Accepts(p, g[1]) /\ z = After(g[Len(g)])
              /\ \A i \in 2 .. Len(g) : Accepts(After(g[i - 1]), g[i])
            BY <2>1, <2>4, <3>1, <3>2 DEF Run
        <3> QED
            BY <2>1, <2>4, <3>3 DEF Run, g
    <2> QED
        BY <2>3, <2>4
<1>4. CASE Len(s) # 0
    <2>1. Len(g) # 0 /\ g[1] = s[1] /\ Accepts(p, g[1]) /\ q = After(s[Len(s)])
        <3>1. 1 \in 1 .. Len(s)
            BY <1>1, <1>4
        <3> QED
            BY <1>1, <1>2, <1>4, <3>1 DEF Run
    <2>2. z = After(g[Len(g)])
        <3>1. CASE Len(r) = 0
            <4>1. Len(g) = Len(s) /\ Len(s) \in 1 .. Len(s)
                BY <1>1, <1>2, <1>4, <3>1
            <4>2. g[Len(g)] = s[Len(s)] /\ z = q
                BY <1>2, <3>1, <4>1 DEF Run
            <4> QED
                BY <2>1, <4>2
        <3>2. CASE Len(r) # 0
            <4>1. Len(r) \in 1 .. Len(r)
                BY <1>1, <3>2
            <4>2. g[Len(g)] = r[Len(r)] /\ z = After(r[Len(r)])
                BY <1>2, <3>2, <4>1 DEF Run
            <4> QED
                BY <4>2
        <3> QED
            BY <3>1, <3>2
    <2>3. ASSUME NEW i \in 2 .. Len(g) PROVE Accepts(After(g[i - 1]), g[i])
        <3>1. CASE i <= Len(s)
            <4>1. i \in 2 .. Len(s) /\ i \in 1 .. Len(s) /\ i - 1 \in 1 .. Len(s)
                BY <1>1, <3>1
            <4>2. g[i] = s[i] /\ g[i - 1] = s[i - 1]
                BY <1>2, <4>1
            <4> QED
                BY <1>4, <4>1, <4>2 DEF Run
        <3>2. CASE i = Len(s) + 1
            <4>1. 1 \in 1 .. Len(r) /\ Len(s) \in 1 .. Len(s) /\ i - 1 = Len(s)
                BY <1>1, <1>2, <1>4, <3>2
            <4>2. g[i] = r[1] /\ g[i - 1] = s[Len(s)]
                BY <1>2, <3>2, <4>1
            <4>3. Accepts(q, r[1])
                BY <1>1, <4>1 DEF Run
            <4> QED
                BY <2>1, <4>2, <4>3
        <3>3. CASE i > Len(s) + 1
            <4> DEFINE j == i - Len(s)
            <4>1. /\ j \in 2 .. Len(r) /\ j \in 1 .. Len(r) /\ j - 1 \in 1 .. Len(r)
                  /\ i = Len(s) + j /\ i - 1 = Len(s) + (j - 1) /\ Len(r) # 0
                BY <1>1, <1>2, <3>3
            <4> HIDE DEF j
            <4>2. g[i] = r[j] /\ g[i - 1] = r[j - 1]
                BY <1>2, <4>1
            <4> QED
                BY <4>1, <4>2 DEF Run
        <3> QED
            BY <1>1, <1>2, <3>1, <3>2, <3>3
    <2> QED
        BY <2>1, <2>2, <2>3 DEF Run, g
<1> QED
    BY <1>3, <1>4

LEMMA RunSplit ==
    ASSUME NEW s \in Seq(Unit), NEW p, NEW z, Run(s, p, z), NEW n \in 1 .. Len(s)
    PROVE  /\ Run(SubSeq(s, 1, n), p, After(s[n]))
           /\ Run(SubSeq(s, n + 1, Len(s)), After(s[n]), z)
<1> DEFINE a == SubSeq(s, 1, n)
           b == SubSeq(s, n + 1, Len(s))
           L == Len(s)
<1>1. /\ L \in Nat /\ n \in Nat /\ 1 <= n /\ n <= L
      /\ Len(a) = n /\ \A i \in 1 .. n : a[i] = s[i]
    OBVIOUS
<1>2. Len(b) = L - n /\ \A i \in 1 .. L - n : b[i] = s[n + i]
    OBVIOUS
<1>3. /\ Accepts(p, s[1]) /\ \A i \in 2 .. L : Accepts(After(s[i - 1]), s[i])
      /\ z = After(s[L])
    BY <1>1 DEF Run
<1> HIDE DEF a, b, L
<1>4. Run(a, p, After(s[n]))
    <2>1. a[1] = s[1] /\ a[n] = s[n]
        BY <1>1
    <2>2. ASSUME NEW i \in 2 .. n PROVE Accepts(After(a[i - 1]), a[i])
        <3>1. i \in 1 .. n /\ i - 1 \in 1 .. n /\ i \in 2 .. L
            BY <1>1
        <3> QED
            BY <1>1, <1>3, <3>1
    <2> QED
        BY <1>1, <1>3, <2>1, <2>2 DEF Run
<1>5. Run(b, After(s[n]), z)
    <2>1. CASE n = L
        BY <1>1, <1>2, <1>3, <2>1 DEF Run
    <2>2. CASE n # L
        <3>1. Len(b) \in Nat /\ Len(b) # 0 /\ Len(b) \in 1 .. L - n /\ 1 \in 1 .. L - n
              /\ n + Len(b) = L /\ n + 1 \in 2 .. L /\ (n + 1) - 1 = n
            BY <1>1, <1>2, <2>2
        <3>2. b[1] = s[n + 1] /\ b[Len(b)] = s[L]
            BY <1>2, <3>1
        <3>3. Accepts(After(s[n]), b[1])
            BY <1>3, <3>1, <3>2
        <3>4. ASSUME NEW i \in 2 .. Len(b) PROVE Accepts(After(b[i - 1]), b[i])
            <4>1. /\ i \in 1 .. L - n /\ i - 1 \in 1 .. L - n /\ n + i \in 2 .. L
                  /\ n + (i - 1) = (n + i) - 1
                BY <1>1, <1>2, <3>1
            <4>2. b[i] = s[n + i] /\ b[i - 1] = s[(n + i) - 1]
                BY <1>2, <4>1
            <4> QED
                BY <1>3, <4>1, <4>2
        <3> QED
            BY <1>3, <3>1, <3>2, <3>3, <3>4 DEF Run
    <2> QED
        BY <2>1, <2>2
<1> QED
    BY <1>4, <1>5 DEF a, b, L

\* Messages come in the order of their numbers.
LEMMA RunIds ==
    ASSUME NEW s \in Seq(Unit), NEW p, p.id \in Nat, NEW q, Run(s, p, q)
    PROVE  q.id \in Nat /\ p.id <= q.id
<1> DEFINE n == Len(s)
           T == {k \in 0 .. n : k # 0 => p.id <= s[k].id}
<1>1. n \in Nat /\ \A i \in 1 .. n : s[i] \in Unit
    OBVIOUS
<1>2. \A i \in 1 .. n : s[i].id \in Nat
    BY <1>1 DEF Unit
<1>3. ASSUME NEW u \in Unit PROVE After(u).id \in Nat /\ u.id <= After(u).id
    BY DEF Unit, After, Start
<1>4. n # 0 => /\ Accepts(p, s[1]) /\ \A i \in 2 .. n : Accepts(After(s[i - 1]), s[i])
               /\ q = After(s[n])
    BY DEF Run
<1>5. n = 0 => p = q
    BY DEF Run
<1> HIDE DEF n
<1>6. 0 \in T
    BY <1>1
<1>7. ASSUME NEW k \in 0 .. n, k \in T, k < n PROVE k + 1 \in T
    <2>1. k + 1 \in 1 .. n /\ k + 1 \in 0 .. n /\ (k + 1) - 1 = k /\ n # 0 /\ k \in Nat
        BY <1>1, <1>7
    <2>2. CASE k = 0
        <3>1. s[k + 1].id = p.id
            BY <1>4, <2>1, <2>2 DEF Accepts
        <3> QED
            BY <2>1, <3>1
    <2>3. CASE k # 0
        <3>1. k \in 1 .. n /\ k + 1 \in 2 .. n
            BY <2>1, <2>3
        <3>2. s[k + 1].id = After(s[k]).id
            BY <1>4, <2>1, <3>1 DEF Accepts
        <3>3. /\ p.id <= s[k].id /\ s[k].id \in Nat /\ After(s[k]).id \in Nat
              /\ s[k].id <= After(s[k]).id
            BY <1>1, <1>2, <1>3, <1>7, <2>3, <3>1
        <3> QED
            BY <2>1, <3>2, <3>3
    <2> QED
        BY <2>2, <2>3
<1>8. n \in T
    <2> HIDE DEF T
    <2>1. 0 .. n \subseteq T
        BY <1>1, <1>6, <1>7, InductionTo
    <2> QED
        BY <1>1, <2>1
<1>9. CASE n = 0
    BY <1>5, <1>9
<1>10. CASE n # 0
    <2>1. n \in 1 .. n
        BY <1>1, <1>10
    <2>2. /\ p.id <= s[n].id /\ s[n].id \in Nat /\ After(s[n]).id \in Nat
          /\ s[n].id <= After(s[n]).id /\ q = After(s[n])
        BY <1>1, <1>2, <1>3, <1>4, <1>8, <1>10, <2>1
    <2> QED
        BY <2>2
<1> QED
    BY <1>9, <1>10

-----------------------------------------------------------------------------
\* Receiving

Place(id, size, at) == [id |-> id, size |-> size, at |-> at]

Part == [hdrbuf : Seq(Unit), vRecv : Seq(Unit)]

\* head and data are the beginning of message id, header first.
Pieces(head, data, id, size) ==
    /\ head \in Seq(Unit) /\ data \in Seq(Unit) /\ size \in Payloads
    /\ Len(head) \in 1 .. HeaderSize /\ Len(data) \in 0 .. size
    /\ Len(data) # 0 => Len(head) = HeaderSize
    /\ \A j \in 1 .. Len(head) : head[j] = Place(id, size, j)
    /\ \A j \in 1 .. Len(data) : data[j] = Place(id, size, HeaderSize + j)

Half(m, id) == m \in Part /\ Pieces(m.hdrbuf, m.vRecv, id, MessageSize(m))

Ended(head, data, size) == Len(head) + Len(data) = HeaderSize + size

\* What comes after them.
Onward(head, data, id, size) ==
    IF Ended(head, data, size) THEN Start(id + 1)
    ELSE Place(id, size, Len(head) + Len(data) + 1)

\* vRecvMsg after n messages were processed: only the last may be incomplete.
Receiving(n, msgs) ==
    /\ msgs \in Seq(Part)
    /\ \A i \in 1 .. Len(msgs) : Half(msgs[i], n + i)
    /\ \A i \in 1 .. Len(msgs) - 1 : Complete(msgs[i])

\* What the receiver waits for.
Awaited(n, msgs) ==
    IF msgs = <<>> THEN Start(n + 1)
    ELSE Onward(Last(msgs).hdrbuf, Last(msgs).vRecv, n + Len(msgs), MessageSize(Last(msgs)))

LEMMA SizesAre == HeaderSize \in Nat \ {0} /\ Payloads \subseteq Nat
    BY WireAssumption DEF WireAssumption

Msg(head, data) == [hdrbuf |-> head, vRecv |-> data]

LEMMA PiecesAre ==
    ASSUME NEW head, NEW data, NEW id, NEW size, Pieces(head, data, id, size)
    PROVE  /\ Half(Msg(head, data), id) /\ MessageSize(Msg(head, data)) = size
           /\ Msg(head, data).hdrbuf = head /\ Msg(head, data).vRecv = data
           /\ Complete(Msg(head, data)) <=> Ended(head, data, size)
<1> DEFINE m == Msg(head, data)
<1>1. m.hdrbuf = head /\ m.vRecv = data /\ m \in Part
    BY DEF Msg, Part, Pieces
<1>2. /\ Len(head) \in 1 .. HeaderSize /\ Len(data) \in 0 .. size /\ size \in Nat
      /\ HeaderSize \in Nat \ {0} /\ (Len(data) # 0 => Len(head) = HeaderSize)
    BY SizesAre DEF Pieces
<1>3. head[1].size = size
    <2>1. 1 \in 1 .. Len(head)
        BY <1>2
    <2>2. head[1] = Place(id, size, 1)
        BY <2>1 DEF Pieces
    <2> QED
        BY <2>2 DEF Place
<1> HIDE DEF m
<1>4. MessageSize(m) = size
    BY <1>1, <1>3 DEF MessageSize
<1>5. Complete(m) <=> Len(head) = HeaderSize /\ Len(data) = size
    BY <1>1, <1>4 DEF Complete, InData
<1>6. Len(head) = HeaderSize /\ Len(data) = size <=> Len(head) + Len(data) = HeaderSize + size
    BY <1>2
<1> QED
    BY <1>1, <1>4, <1>5, <1>6 DEF Half, m, Ended

\* What follows in a message that has not ended
LEMMA NextPlace ==
    ASSUME NEW head, NEW data, NEW id, NEW size, Pieces(head, data, id, size),
           ~Ended(head, data, size), NEW u \in Unit, Accepts(Onward(head, data, id, size), u)
    PROVE  u = Place(id, size, Len(head) + Len(data) + 1)
<1> DEFINE at == Len(head) + Len(data) + 1
<1>1. Len(head) \in 1 .. HeaderSize /\ Len(data) \in 0 .. size /\ HeaderSize \in Nat /\ size \in Nat
    BY SizesAre DEF Pieces
<1>2. at # 1
    BY <1>1
<1>3. Accepts(Place(id, size, at), u)
    BY DEF Onward
<1> HIDE DEF at
<1>4. u = Place(id, size, at)
    BY <1>2, <1>3 DEF Accepts, Place, Unit
<1> QED
    BY <1>4 DEF at

Longer(s, u) == Append(s, u)

LEMMA DataGrows ==
    ASSUME NEW head, NEW data, NEW id, NEW size, Pieces(head, data, id, size),
           Len(head) = HeaderSize, ~Ended(head, data, size),
           NEW u \in Unit, Accepts(Onward(head, data, id, size), u)
    PROVE  /\ Pieces(head, Longer(data, u), id, size)
           /\ Onward(head, Longer(data, u), id, size) = After(u)
<1> DEFINE more == Append(data, u)
<1>1. /\ head \in Seq(Unit) /\ data \in Seq(Unit) /\ size \in Payloads /\ size \in Nat
      /\ Len(head) \in Nat /\ Len(data) \in 0 .. size /\ HeaderSize \in Nat \ {0}
      /\ \A j \in 1 .. Len(head) : head[j] = Place(id, size, j)
      /\ \A j \in 1 .. Len(data) : data[j] = Place(id, size, HeaderSize + j)
    BY SizesAre DEF Pieces
<1>2. /\ more \in Seq(Unit) /\ Len(more) = Len(data) + 1 /\ more[Len(data) + 1] = u
      /\ \A j \in 1 .. Len(data) : more[j] = data[j]
    BY <1>1
<1>3. /\ Len(data) + 1 \in 0 .. size /\ Len(head) \in 1 .. HeaderSize
      /\ u = Place(id, size, Len(head) + Len(data) + 1)
    <2>1. u = Place(id, size, Len(head) + Len(data) + 1)
        BY NextPlace
    <2>2. Len(head) + Len(data) # HeaderSize + size
        BY DEF Ended
    <2>3. Len(data) # size
        BY <2>2
    <2>4. Len(data) \in 0 .. size /\ size \in Nat /\ HeaderSize \in Nat \ {0}
        BY <1>1
    <2>5. Len(data) + 1 \in 0 .. size
        BY <2>3, <2>4
    <2>6. Len(head) \in 1 .. HeaderSize
        BY <2>4
    <2> QED
        BY <2>1, <2>5, <2>6
<1> HIDE DEF more
<1>4. ASSUME NEW j \in 1 .. Len(data) + 1 PROVE more[j] = Place(id, size, HeaderSize + j)
    <2>1. CASE j = Len(data) + 1
        <3>1. HeaderSize + j = Len(head) + Len(data) + 1
            BY <1>1, <2>1
        <3> QED
            BY <1>2, <1>3, <2>1, <3>1
    <2>2. CASE j # Len(data) + 1
        <3>1. j \in 1 .. Len(data)
            BY <1>1, <2>2
        <3> QED
            BY <1>1, <1>2, <3>1
    <2> QED
        BY <2>1, <2>2
<1>5. Pieces(head, more, id, size)
    BY <1>1, <1>2, <1>3, <1>4 DEF Pieces
<1>6. Len(head) + Len(more) = Len(head) + Len(data) + 1
    BY <1>1, <1>2
<1>7. Onward(head, more, id, size) = After(u)
    BY <1>3, <1>6 DEF Onward, Ended, After, Place
<1> QED
    BY <1>5, <1>7 DEF more, Longer

LEMMA HeaderGrows ==
    ASSUME NEW head, NEW data, NEW id, NEW size, Pieces(head, data, id, size),
           Len(head) # HeaderSize, ~Ended(head, data, size),
           NEW u \in Unit, Accepts(Onward(head, data, id, size), u)
    PROVE  /\ Pieces(Longer(head, u), data, id, size)
           /\ Onward(Longer(head, u), data, id, size) = After(u)
<1> DEFINE more == Append(head, u)
<1>1. /\ head \in Seq(Unit) /\ data \in Seq(Unit) /\ size \in Payloads /\ size \in Nat
      /\ Len(head) \in 1 .. HeaderSize /\ Len(data) \in 0 .. size /\ HeaderSize \in Nat \ {0}
      /\ Len(data) = 0
      /\ \A j \in 1 .. Len(head) : head[j] = Place(id, size, j)
      /\ \A j \in 1 .. Len(data) : data[j] = Place(id, size, HeaderSize + j)
    BY SizesAre DEF Pieces
<1>2. /\ more \in Seq(Unit) /\ Len(more) = Len(head) + 1 /\ more[Len(head) + 1] = u
      /\ \A j \in 1 .. Len(head) : more[j] = head[j]
    BY <1>1
<1>3. Len(head) + 1 \in 1 .. HeaderSize /\ u = Place(id, size, Len(head) + Len(data) + 1)
    BY <1>1, NextPlace
<1> HIDE DEF more
<1>4. ASSUME NEW j \in 1 .. Len(head) + 1 PROVE more[j] = Place(id, size, j)
    <2>1. CASE j = Len(head) + 1
        <3>1. j = Len(head) + Len(data) + 1
            BY <1>1, <2>1
        <3> QED
            BY <1>2, <1>3, <2>1, <3>1
    <2>2. CASE j # Len(head) + 1
        <3>1. j \in 1 .. Len(head)
            BY <1>1, <2>2
        <3> QED
            BY <1>1, <1>2, <3>1
    <2> QED
        BY <2>1, <2>2
<1>5. Pieces(more, data, id, size)
    BY <1>1, <1>2, <1>3, <1>4 DEF Pieces
<1>6. Len(more) + Len(data) = Len(head) + Len(data) + 1
    BY <1>1, <1>2
<1>7. Onward(more, data, id, size) = After(u)
    BY <1>3, <1>6 DEF Onward, Ended, After, Place
<1> QED
    BY <1>5, <1>7 DEF more, Longer

\* The first unit of a message
LEMMA HeaderBegins ==
    ASSUME NEW id, NEW u \in Unit, u.id = id, u.at = 1
    PROVE  /\ Pieces(<<u>>, <<>>, id, u.size) /\ Onward(<<u>>, <<>>, id, u.size) = After(u)
<1>1. /\ <<u>> \in Seq(Unit) /\ <<>> \in Seq(Unit) /\ Len(<<u>>) = 1 /\ <<u>>[1] = u
      /\ Len(<<>>) = 0
    OBVIOUS
<1>2. u = Place(id, u.size, 1) /\ u.size \in Payloads
    BY DEF Unit, Place
<1>3. HeaderSize \in Nat \ {0} /\ u.size \in Nat
    BY <1>2, SizesAre
<1> DEFINE head == <<u>>
           data == <<>>
<1> HIDE DEF head, data
<1>4. Pieces(head, data, id, u.size) /\ Onward(head, data, id, u.size) = After(u)
    BY <1>1, <1>2, <1>3 DEF Pieces, Onward, Ended, After, Place, head, data
<1> QED
    BY <1>4 DEF head, data

\* One more unit
Grown(m, u) ==
    IF InData(m) THEN [m EXCEPT !.vRecv = Append(@, u)] ELSE [m EXCEPT !.hdrbuf = Append(@, u)]

LEMMA GrownIs ==
    ASSUME NEW m \in Part, NEW u
    PROVE  Grown(m, u) = IF Len(m.hdrbuf) = HeaderSize THEN Msg(m.hdrbuf, Append(m.vRecv, u))
                         ELSE Msg(Append(m.hdrbuf, u), m.vRecv)
<1> DEFINE a == Append(m.vRecv, u)
           b == Append(m.hdrbuf, u)
<1>1. Grown(m, u) = IF Len(m.hdrbuf) = HeaderSize THEN [m EXCEPT !.vRecv = a]
                    ELSE [m EXCEPT !.hdrbuf = b]
    BY DEF Grown, InData
<1> HIDE DEF a, b
<1>2. [m EXCEPT !.vRecv = a] = Msg(m.hdrbuf, a) /\ [m EXCEPT !.hdrbuf = b] = Msg(b, m.vRecv)
    BY DEF Part, Msg
<1> QED
    BY <1>1, <1>2 DEF a, b

LEMMA HalfGoesOn ==
    ASSUME NEW m, NEW id, Half(m, id), ~Complete(m), NEW u \in Unit,
           Accepts(Onward(m.hdrbuf, m.vRecv, id, MessageSize(m)), u)
    PROVE  /\ Half(Grown(m, u), id) /\ MessageSize(Grown(m, u)) = MessageSize(m)
           /\ Onward(Grown(m, u).hdrbuf, Grown(m, u).vRecv, id, MessageSize(m)) = After(u)
<1> DEFINE head == m.hdrbuf
           data == m.vRecv
           size == MessageSize(m)
           h == Grown(m, u)
<1>1. m \in Part /\ Pieces(head, data, id, size) /\ m = Msg(head, data)
    BY DEF Half, Part, Msg
<1>2. Accepts(Onward(head, data, id, size), u) /\ ~Complete(m)
    OBVIOUS
<1>3. h = IF Len(head) = HeaderSize THEN Msg(head, Append(data, u))
          ELSE Msg(Append(head, u), data)
    BY <1>1, GrownIs
<1> HIDE DEF head, data, size, h
<1>4. ~Ended(head, data, size)
    BY <1>1, <1>2, PiecesAre
<1>5. CASE Len(head) = HeaderSize
    <2> DEFINE more == Longer(data, u)
    <2>1. Pieces(head, more, id, size) /\ Onward(head, more, id, size) = After(u)
        BY <1>1, <1>2, <1>4, <1>5, DataGrows
    <2>2. h = Msg(head, more)
        BY <1>3, <1>5 DEF Longer
    <2> HIDE DEF more
    <2>3. Half(h, id) /\ MessageSize(h) = size /\ h.hdrbuf = head /\ h.vRecv = more
        BY <2>1, <2>2, PiecesAre
    <2> QED
        BY <2>1, <2>3 DEF h, size
<1>6. CASE Len(head) # HeaderSize
    <2> DEFINE more == Longer(head, u)
    <2>1. Pieces(more, data, id, size) /\ Onward(more, data, id, size) = After(u)
        BY <1>1, <1>2, <1>4, <1>6, HeaderGrows
    <2>2. h = Msg(more, data)
        BY <1>3, <1>6 DEF Longer
    <2> HIDE DEF more
    <2>3. Half(h, id) /\ MessageSize(h) = size /\ h.hdrbuf = more /\ h.vRecv = data
        BY <2>1, <2>2, PiecesAre
    <2> QED
        BY <2>1, <2>3 DEF h, size
<1> QED
    BY <1>5, <1>6

\* The receiver has taken what is in its messages and waits for p.
Waits(n, msgs, p) == Receiving(n, msgs) /\ Awaited(n, msgs) = p

\* t is s and then x.
IsAppended(t, U, s, x) ==
    /\ t \in Seq(U) /\ Len(t) = Len(s) + 1 /\ t[Len(s) + 1] = x
    /\ \A i \in 1 .. Len(s) : t[i] = s[i]

LEMMA Appended ==
    ASSUME NEW U, NEW s \in Seq(U), NEW x \in U
    PROVE  IsAppended(Append(s, x), U, s, x)
BY DEF IsAppended

LEMMA FirstIs ==
    ASSUME NEW U, NEW s \in Seq(U), NEW k \in 0 .. Len(s)
    PROVE  /\ SubSeq(s, 1, k) \in Seq(U) /\ Len(SubSeq(s, 1, k)) = k
           /\ \A i \in 1 .. k : SubSeq(s, 1, k)[i] = s[i]
OBVIOUS

LEMMA FrontIs ==
    ASSUME NEW U, NEW s \in Seq(U), Len(s) # 0
    PROVE  /\ Front(s) \in Seq(U) /\ Len(Front(s)) = Len(s) - 1
           /\ \A i \in 1 .. Len(s) - 1 : Front(s)[i] = s[i]
<1>1. Len(s) - 1 \in 0 .. Len(s)
    OBVIOUS
<1> QED
    BY <1>1, FirstIs DEF Front

LEMMA GrownPart ==
    ASSUME NEW m \in Part, NEW u \in Unit
    PROVE  Grown(m, u) \in Part
<1>1. m.hdrbuf \in Seq(Unit) /\ m.vRecv \in Seq(Unit)
    BY DEF Part
<1> DEFINE head == m.hdrbuf
           data == m.vRecv
<1> HIDE DEF head, data
<1>2. IsAppended(Append(head, u), Unit, head, u) /\ IsAppended(Append(data, u), Unit, data, u)
    BY <1>1, Appended DEF head, data
<1>3. Append(head, u) \in Seq(Unit) /\ Append(data, u) \in Seq(Unit)
    BY <1>2 DEF IsAppended
<1>4. \A a, b \in Seq(Unit) : Msg(a, b) \in Part
    BY DEF Msg, Part
<1>5. Msg(head, Append(data, u)) \in Part /\ Msg(Append(head, u), data) \in Part
    BY <1>1, <1>3, <1>4 DEF head, data
<1>6. Grown(m, u) \in {Msg(head, Append(data, u)), Msg(Append(head, u), data)}
    BY GrownIs DEF head, data
<1> QED
    BY <1>5, <1>6

LEMMA HalfAppended ==
    ASSUME NEW n \in Nat, NEW msgs, Receiving(n, msgs), NEW h, NEW id, Half(h, id),
           id = n + (Len(msgs) + 1), \A i \in 1 .. Len(msgs) : Complete(msgs[i]),
           NEW p, p = Onward(h.hdrbuf, h.vRecv, id, MessageSize(h))
    PROVE  Waits(n, Append(msgs, h), p)
<1> DEFINE t == Append(msgs, h)
           l == Len(msgs)
<1>1. /\ msgs \in Seq(Part) /\ h \in Part /\ l \in Nat
      /\ \A i \in 1 .. l : Half(msgs[i], n + i)
    BY DEF Receiving, Half
<1>2. /\ t \in Seq(Part) /\ Len(t) = l + 1 /\ t[l + 1] = h /\ t # <<>>
      /\ \A i \in 1 .. l : t[i] = msgs[i]
    <2>1. IsAppended(t, Part, msgs, h)
        BY <1>1, Appended
    <2> HIDE DEF t
    <2>2. /\ t \in Seq(Part) /\ Len(t) = l + 1 /\ t[l + 1] = h
          /\ \A i \in 1 .. l : t[i] = msgs[i]
        BY <2>1 DEF IsAppended
    <2> HIDE DEF l
    <2>3. t # <<>>
        BY <1>1, <2>2
    <2> QED
        BY <2>2, <2>3
<1> HIDE DEF t
<1>3. Last(t) = h
    BY <1>2 DEF Last
<1>4. \A i \in 1 .. Len(t) : Half(t[i], n + i)
    <2> SUFFICES ASSUME NEW i \in 1 .. l + 1 PROVE Half(t[i], n + i)
        BY <1>2
    <2>1. CASE i = l + 1
        BY <1>2, <2>1
    <2>2. CASE i # l + 1
        <3>1. i \in 1 .. l
            BY <1>1, <2>2
        <3> QED
            BY <1>1, <1>2, <3>1
    <2> QED
        BY <2>1, <2>2
<1>5. \A i \in 1 .. Len(t) - 1 : Complete(t[i])
    <2>1. Len(t) - 1 = l
        BY <1>1, <1>2
    <2> QED
        BY <1>2, <2>1
<1>6. Receiving(n, t)
    BY <1>2, <1>4, <1>5 DEF Receiving
<1>7. n + Len(t) = id
    BY <1>2
<1>8. Awaited(n, t) = p
    BY <1>2, <1>3, <1>7 DEF Awaited
<1> QED
    BY <1>6, <1>8 DEF Waits, t

\* readHeader and readData take the next unit.
LEMMA AbsorbKeeps ==
    ASSUME NEW n \in Nat, NEW msgs, NEW p, Waits(n, msgs, p), NEW u \in Unit, Accepts(p, u)
    PROVE  Waits(n, Absorb(msgs, u), After(u))
<1> DEFINE l == Len(msgs)
           m == Last(msgs)
<1>1. /\ msgs \in Seq(Part) /\ l \in Nat /\ Receiving(n, msgs) /\ Awaited(n, msgs) = p
      /\ \A i \in 1 .. l : Half(msgs[i], n + i)
      /\ \A i \in 1 .. l - 1 : Complete(msgs[i])
    BY DEF Waits, Receiving
<1>2. msgs = <<>> <=> l = 0
    BY <1>1
<1>3. l # 0 => m = msgs[l] /\ l \in 1 .. l
    BY <1>1 DEF Last
<1> HIDE DEF m
<1>4. CASE msgs = <<>> \/ Complete(m)
    <2> DEFINE h == Msg(<<u>>, <<>>)
               id == n + (l + 1)
    <2>1. p = Start(id)
        <3>1. CASE msgs = <<>>
            <4>1. n + 1 = id
                BY <1>1, <1>2, <3>1
            <4> QED
                BY <1>1, <3>1, <4>1 DEF Awaited
        <3>2. CASE msgs # <<>>
            <4> DEFINE k == n + l
            <4>1. Half(m, k) /\ p = Onward(m.hdrbuf, m.vRecv, k, MessageSize(m))
                BY <1>1, <1>2, <1>3, <3>2 DEF Awaited, m
            <4>2. k + 1 = id
                BY <1>1
            <4> HIDE DEF k, id
            <4>3. Pieces(m.hdrbuf, m.vRecv, k, MessageSize(m)) /\ m = Msg(m.hdrbuf, m.vRecv)
                BY <4>1 DEF Half, Part, Msg
            <4>4. Ended(m.hdrbuf, m.vRecv, MessageSize(m))
                BY <1>4, <3>2, <4>3, PiecesAre
            <4> QED
                BY <4>1, <4>2, <4>4 DEF Onward
        <3> QED
            BY <3>1, <3>2
    <2>2. u.id = id /\ u.at = 1
        BY <2>1 DEF Accepts, Start
    <2> HIDE DEF id
    <2>3. Pieces(<<u>>, <<>>, id, u.size) /\ Onward(<<u>>, <<>>, id, u.size) = After(u)
        BY <2>2, HeaderBegins
    <2>4. /\ Half(h, id) /\ MessageSize(h) = u.size /\ h.hdrbuf = <<u>> /\ h.vRecv = <<>>
        BY <2>3, PiecesAre
    <2>5. \A i \in 1 .. Len(msgs) : Complete(msgs[i])
        <3> SUFFICES ASSUME NEW i \in 1 .. l PROVE Complete(msgs[i])
            OBVIOUS
        <3>1. CASE i = l
            <4>1. l # 0
                BY <1>1
            <4> QED
                BY <1>2, <1>3, <1>4, <3>1, <4>1
        <3>2. CASE i # l
            <4>1. i \in 1 .. l - 1
                BY <1>1, <3>2
            <4> QED
                BY <1>1, <4>1
        <3> QED
            BY <3>1, <3>2
    <2>6. Absorb(msgs, u) = Append(msgs, h)
        BY <1>4 DEF Absorb, Msg, m
    <2> HIDE DEF h
    <2>7. After(u) = Onward(h.hdrbuf, h.vRecv, id, MessageSize(h))
        BY <2>3, <2>4
    <2>8. Waits(n, Append(msgs, h), After(u))
        BY <1>1, <2>4, <2>5, <2>7, HalfAppended DEF id
    <2> QED
        BY <2>6, <2>8
<1>5. CASE ~(msgs = <<>> \/ Complete(m))
    <2> DEFINE h == Grown(m, u)
               id == n + l
               front == Front(msgs)
    <2>1. Half(m, id) /\ p = Onward(m.hdrbuf, m.vRecv, id, MessageSize(m)) /\ l # 0
        BY <1>1, <1>2, <1>3, <1>5 DEF Awaited, m
    <2>2. /\ front \in Seq(Part) /\ Len(front) = l - 1
          /\ \A i \in 1 .. l - 1 : front[i] = msgs[i]
        BY <1>1, <2>1, FrontIs
    <2>3. Absorb(msgs, u) = Append(front, h)
        BY <1>5 DEF Absorb, Grown, m
    <2>4. id = n + (Len(front) + 1)
        BY <1>1, <2>1, <2>2
    <2> HIDE DEF id, h, front
    <2>5. /\ Half(h, id) /\ MessageSize(h) = MessageSize(m)
          /\ Onward(h.hdrbuf, h.vRecv, id, MessageSize(m)) = After(u)
        BY <1>5, <2>1, HalfGoesOn DEF h
    <2>6. \A i \in 1 .. Len(front) : Half(front[i], n + i) /\ Complete(front[i])
        <3>1. \A i \in 1 .. l - 1 : i \in 1 .. l
            BY <1>1
        <3> QED
            BY <1>1, <2>2, <3>1
    <2>7. Receiving(n, front)
        <3>1. Len(front) \in Nat
            BY <1>1, <2>1, <2>2
        <3>2. \A i \in 1 .. Len(front) - 1 : i \in 1 .. Len(front)
            BY <3>1
        <3> QED
            BY <2>2, <2>6, <3>2 DEF Receiving
    <2>8. After(u) = Onward(h.hdrbuf, h.vRecv, id, MessageSize(h))
        BY <2>5
    <2>9. Waits(n, Append(front, h), After(u))
        BY <2>4, <2>5, <2>6, <2>7, <2>8, HalfAppended
    <2> QED
        BY <2>3, <2>9
<1> QED
    BY <1>4, <1>5

\* ReceiveMsgBytes is a loop over the units.
Taken(g, n, msgs, units) ==
    g[0] = msgs /\ \A i \in 1 .. n : g[i] = Absorb(g[i - 1], units[i])

LEMMA ReceivedIs ==
    ASSUME NEW msgs \in Seq(Part), NEW units \in Seq(Unit)
    PROVE  \E g : Taken(g, Len(units), msgs, units) /\ ReceiveMsgBytes(msgs, units) = g[Len(units)]
<1> DEFINE n == Len(units)
           S == Seq(Part)
           F == [i \in 1 .. n |-> [s \in S |-> Absorb(s, units[i])]]
           Body(f) == f = [i \in 0 .. n |-> IF i = 0 THEN msgs ELSE Absorb(f[i - 1], units[i])]
           received == CHOOSE f : Body(f)
<1>1. n \in Nat /\ ReceiveMsgBytes(msgs, units) = received[n]
    BY DEF ReceiveMsgBytes
<1>2. ASSUME NEW i \in 1 .. n, NEW s \in S PROVE Absorb(s, units[i]) \in S
    <2> DEFINE u == units[i]
    <2>1. u \in Unit
        OBVIOUS
    <2> HIDE DEF u
    <2>2. Msg(<<u>>, <<>>) \in Part
        BY <2>1 DEF Msg, Part
    <2>3. CASE s = <<>> \/ Complete(Last(s))
        <3>1. Absorb(s, u) = Append(s, Msg(<<u>>, <<>>))
            BY <2>3 DEF Absorb, Msg
        <3> QED
            BY <2>2, <3>1 DEF u
    <2>4. CASE ~(s = <<>> \/ Complete(Last(s)))
        <3> DEFINE h == Grown(Last(s), u)
                   front == Front(s)
        <3>1. s # <<>> /\ Last(s) \in Part /\ front \in Seq(Part)
            BY <2>4 DEF Last, Front
        <3>2. h \in Part
            BY <2>1, <3>1, GrownPart
        <3>3. Absorb(s, u) = Append(front, h)
            BY <2>4 DEF Absorb, Grown
        <3> HIDE DEF h, front
        <3> QED
            BY <3>1, <3>2, <3>3 DEF u
    <2> QED
        BY <2>3, <2>4
<1>3. F \in [1 .. n -> [S -> S]] /\ msgs \in S
    BY <1>2
<1>4. \A i \in 1 .. n : \A s \in S : F[i][s] = Absorb(s, units[i])
    OBVIOUS
<1> HIDE DEF n, F, S
<1>5. PICK g : IsLoop(g, n, S, msgs, F)
    BY <1>1, <1>3, LoopExists
<1>6. g \in [0 .. n -> S] /\ g[0] = msgs /\ \A i \in 1 .. n : g[i] = Absorb(g[i - 1], units[i])
    <2>1. g \in [0 .. n -> S] /\ g[0] = msgs /\ \A i \in 1 .. n : g[i] = F[i][g[i - 1]]
        BY <1>5 DEF IsLoop
    <2>2. \A i \in 1 .. n : g[i - 1] \in S
        BY <1>1, <2>1
    <2> QED
        BY <1>4, <2>1, <2>2
<1>7. Body(g)
    <2>1. ASSUME NEW i \in 0 .. n
          PROVE  g[i] = IF i = 0 THEN msgs ELSE Absorb(g[i - 1], units[i])
        <3>1. i # 0 => i \in 1 .. n
            BY <1>1
        <3> QED
            BY <1>6, <3>1
    <2> QED
        BY <1>6, <2>1
<1>8. Body(received)
    <2> HIDE DEF Body
    <2> QED
        BY <1>7
<1> HIDE DEF received
<1>9. Taken(received, n, msgs, units)
    <2>1. \A i \in 1 .. n : i # 0 /\ i \in 0 .. n
        BY <1>1
    <2> QED
        BY <1>1, <1>8, <2>1 DEF Taken
<1> QED
    BY <1>1, <1>9 DEF n

\* A recv returns what comes next.
LEMMA ReceiveKeeps ==
    ASSUME NEW n \in Nat, NEW msgs, NEW p, Waits(n, msgs, p), NEW units \in Seq(Unit), NEW q,
           Run(units, p, q)
    PROVE  Waits(n, ReceiveMsgBytes(msgs, units), q)
<1> DEFINE l == Len(units)
<1>1. msgs \in Seq(Part) /\ l \in Nat
    BY DEF Waits, Receiving
<1>2. PICK g : Taken(g, l, msgs, units) /\ ReceiveMsgBytes(msgs, units) = g[l]
    BY <1>1, ReceivedIs
<1>3. g[0] = msgs /\ \A i \in 1 .. l : g[i] = Absorb(g[i - 1], units[i])
    BY <1>2 DEF Taken
<1>4. /\ l = 0 => p = q
      /\ l # 0 => /\ Accepts(p, units[1]) /\ q = After(units[l])
                  /\ \A i \in 2 .. l : Accepts(After(units[i - 1]), units[i])
    BY DEF Run
<1>5. \A i \in 1 .. l : units[i] \in Unit
    OBVIOUS
<1> HIDE DEF l
<1> DEFINE To(k) == Waits(n, g[k], IF k = 0 THEN p ELSE After(units[k]))
           T == {k \in 0 .. l : To(k)}
<1>6. 0 \in T
    BY <1>1, <1>3
<1>7. ASSUME NEW k \in 0 .. l, k \in T, k < l PROVE k + 1 \in T
    <2>1. k \in Nat /\ k + 1 \in 1 .. l /\ k + 1 \in 0 .. l /\ (k + 1) - 1 = k /\ k + 1 # 0 /\ l # 0
        BY <1>1, <1>7
    <2> DEFINE r == IF k = 0 THEN p ELSE After(units[k])
    <2>2. Waits(n, g[k], r) /\ g[k + 1] = Absorb(g[k], units[k + 1]) /\ units[k + 1] \in Unit
        BY <1>3, <1>5, <1>7, <2>1
    <2>3. Accepts(r, units[k + 1])
        <3>1. CASE k = 0
            BY <1>4, <2>1, <3>1
        <3>2. CASE k # 0
            <4>1. k + 1 \in 2 .. l
                BY <2>1, <3>2
            <4>2. Accepts(After(units[k]), units[k + 1])
                BY <1>4, <2>1, <4>1
            <4> QED
                BY <3>2, <4>2
        <3> QED
            BY <3>1, <3>2
    <2> HIDE DEF r
    <2>4. Waits(n, g[k + 1], After(units[k + 1]))
        BY <2>2, <2>3, AbsorbKeeps
    <2> QED
        BY <2>1, <2>4
<1>8. l \in T
    <2> HIDE DEF T
    <2>1. 0 .. l \subseteq T
        BY <1>1, <1>6, <1>7, InductionTo
    <2> QED
        BY <1>1, <2>1
<1>9. Waits(n, g[l], q)
    BY <1>4, <1>8
<1> QED
    BY <1>2, <1>9

-----------------------------------------------------------------------------
\* Sending: positions in a row of messages

IsMessage(m, id) == m[1].size \in Payloads /\ m = Message(id, m[1].size)

LEMMA MessageIs ==
    ASSUME NEW id \in Nat, NEW size \in Payloads
    PROVE  /\ IsMessage(Message(id, size), id) /\ Message(id, size) \in Seq(Unit)
           /\ Len(Message(id, size)) = HeaderSize + size /\ Message(id, size)[1].size = size
           /\ \A j \in 1 .. HeaderSize + size : Message(id, size)[j] = Place(id, size, j)
<1> DEFINE n == HeaderSize + size
           m == Message(id, size)
<1>1. n \in Nat /\ n # 0 /\ 1 \in 1 .. n
    BY SizesAre
<1>2. m = [j \in 1 .. n |-> Place(id, size, j)]
    BY DEF Message, Place
<1>3. \A j \in 1 .. n : Place(id, size, j) \in Unit
    BY <1>1 DEF Place, Unit
<1> HIDE DEF n, m
<1>4. /\ m \in Seq(Unit) /\ Len(m) = n /\ \A j \in 1 .. n : m[j] = Place(id, size, j)
    BY <1>1, <1>2, <1>3
<1>5. m[1].size = size
    BY <1>1, <1>4 DEF Place
<1> QED
    BY <1>4, <1>5 DEF IsMessage, n, m

\* The messages msgs bear the numbers after first.
Row(first, msgs, t) ==
    /\ first \in Nat /\ msgs \in Seq(Seq(Unit)) /\ msgs # <<>> /\ IsTotal(t, msgs)
    /\ \A i \in 1 .. Len(msgs) : IsMessage(msgs[i], first + i)

LEMMA RowIs ==
    ASSUME NEW first, NEW msgs, NEW t, Row(first, msgs, t)
    PROVE  /\ Len(msgs) \in Nat /\ Len(msgs) # 0 /\ t[0] = 0
           /\ \A i \in 0 .. Len(msgs) : t[i] \in Nat
           /\ \A i \in 1 .. Len(msgs) :
                /\ msgs[i] \in Seq(Unit) /\ msgs[i][1].size \in Payloads
                /\ Len(msgs[i]) = HeaderSize + msgs[i][1].size /\ Len(msgs[i]) \in Nat \ {0}
                /\ t[i] = t[i - 1] + Len(msgs[i])
                /\ \A j \in 1 .. Len(msgs[i]) :
                     msgs[i][j] = Place(first + i, msgs[i][1].size, j)
<1>1. Len(msgs) \in Nat /\ Len(msgs) # 0 /\ first \in Nat
    BY DEF Row
<1>2. t[0] = 0 /\ \A i \in 0 .. Len(msgs) : t[i] \in Nat
    BY DEF Row, IsTotal
<1>3. ASSUME NEW i \in 1 .. Len(msgs)
      PROVE  /\ msgs[i] \in Seq(Unit) /\ msgs[i][1].size \in Payloads
             /\ Len(msgs[i]) = HeaderSize + msgs[i][1].size /\ Len(msgs[i]) \in Nat \ {0}
             /\ t[i] = t[i - 1] + Len(msgs[i])
             /\ \A j \in 1 .. Len(msgs[i]) : msgs[i][j] = Place(first + i, msgs[i][1].size, j)
    <2> DEFINE m == msgs[i]
               id == first + i
               size == m[1].size
    <2>1. IsMessage(m, id) /\ t[i] = t[i - 1] + Len(msgs[i])
        BY DEF Row, IsTotal
    <2>2. id \in Nat
        BY <1>1
    <2> HIDE DEF m, id, size
    <2>3. size \in Payloads /\ m = Message(id, size)
        BY <2>1 DEF IsMessage, size
    <2>4. /\ m \in Seq(Unit) /\ Len(m) = HeaderSize + size
          /\ \A j \in 1 .. HeaderSize + size : m[j] = Place(id, size, j)
        BY <2>2, <2>3, MessageIs
    <2>5. Len(m) \in Nat \ {0}
        BY <2>3, <2>4, SizesAre
    <2> QED
        BY <2>1, <2>3, <2>4, <2>5 DEF m, id, size
<1> QED
    BY <1>1, <1>2, <1>3

\* The first k messages end before the unit after p, and not the next.
Reached(t, n, p, k) == k \in 0 .. n /\ t[k] <= p /\ (k < n => t[k + 1] > p)

LEMMA ReachedExists ==
    ASSUME NEW first, NEW msgs, NEW t, Row(first, msgs, t), NEW p \in 0 .. t[Len(msgs)]
    PROVE  \E k : Reached(t, Len(msgs), p, k)
<1> DEFINE n == Len(msgs)
           T == {k \in 0 .. n : t[k] <= p}
<1>1. n \in Nat /\ t[0] = 0 /\ \A i \in 0 .. n : t[i] \in Nat
    BY RowIs
<1>2. p \in Nat
    BY <1>1
<1> HIDE DEF n
<1>3. SUFFICES ASSUME ~ \E k : Reached(t, n, p, k) PROVE FALSE
    BY DEF n
<1>4. 0 \in T
    BY <1>1, <1>2
<1>5. ASSUME NEW k \in 0 .. n, k \in T, k < n PROVE k + 1 \in T
    <2>1. k + 1 \in 0 .. n
        BY <1>1, <1>5
    <2>2. ~(t[k + 1] > p)
        BY <1>3, <1>5 DEF Reached
    <2> QED
        BY <1>1, <1>2, <2>1, <2>2
<1>6. n \in T
    <2> HIDE DEF T
    <2>1. 0 .. n \subseteq T
        BY <1>1, <1>4, <1>5, InductionTo
    <2> QED
        BY <1>1, <2>1
<1>7. Reached(t, n, p, n)
    BY <1>1, <1>6 DEF Reached
<1> QED
    BY <1>3, <1>7

LEMMA ReachedOnce ==
    ASSUME NEW first, NEW msgs, NEW t, Row(first, msgs, t), NEW p \in Nat,
           NEW k, NEW l, Reached(t, Len(msgs), p, k), Reached(t, Len(msgs), p, l)
    PROVE  k = l
<1> DEFINE n == Len(msgs)
<1>1. n \in Nat /\ k \in 0 .. n /\ l \in 0 .. n /\ \A i \in 0 .. n : t[i] \in Nat
    BY RowIs DEF Reached
<1>2. \A j \in 0 .. n : \A i \in 0 .. j : t[i] <= t[j]
    BY TotalGrows DEF Row
<1>3. /\ t[k] <= p /\ (k < n => t[k + 1] > p)
      /\ t[l] <= p /\ (l < n => t[l + 1] > p)
    BY DEF Reached
<1> HIDE DEF n
<1>4. ASSUME NEW a \in 0 .. n, NEW b \in 0 .. n, a < n => t[a + 1] > p, t[b] <= p
      PROVE  b <= a
    <2> SUFFICES ASSUME a < b PROVE FALSE
        BY <1>1
    <2>1. a < n /\ a + 1 \in 0 .. n /\ a + 1 \in 0 .. b
        BY <1>1
    <2>2. t[a + 1] > p /\ t[a + 1] <= t[b] /\ t[a + 1] \in Nat /\ t[b] \in Nat
        BY <1>1, <1>2, <1>4, <2>1
    <2> QED
        BY <1>4, <2>2
<1>5. l <= k /\ k <= l
    BY <1>1, <1>3, <1>4
<1> QED
    BY <1>1, <1>5

\* What SocketSendData finds.
LEMMA WholeIs ==
    ASSUME NEW first, NEW msgs, NEW t, Row(first, msgs, t), NEW p \in 0 .. t[Len(msgs)]
    PROVE  Reached(t, Len(msgs), p, WholeMessages(msgs, p))
<1> DEFINE n == Len(msgs)
           Is(k) == /\ TotalLength(SubSeq(msgs, 1, k)) <= p
                    /\ k < n => TotalLength(SubSeq(msgs, 1, k + 1)) > p
<1>1. n \in Nat /\ msgs \in Seq(Seq(Unit)) /\ IsTotal(t, msgs)
    BY RowIs DEF Row
<1>2. \A k \in 0 .. n : TotalLength(SubSeq(msgs, 1, k)) = t[k]
    BY <1>1, TotalOfFirst
<1>3. WholeMessages(msgs, p) = CHOOSE k \in 0 .. n : Is(k)
    BY DEF WholeMessages
<1>4. PICK i : Reached(t, n, p, i)
    BY ReachedExists
<1> HIDE DEF n
<1>5. \A k \in 0 .. n : k < n => k + 1 \in 0 .. n
    BY <1>1
<1>6. \A k \in 0 .. n : Is(k) <=> Reached(t, n, p, k)
    BY <1>2, <1>5 DEF Reached
<1>7. i \in 0 .. n
    BY <1>4 DEF Reached
<1>8. i \in 0 .. n /\ Is(i)
    BY <1>4, <1>6, <1>7
<1> DEFINE w == WholeMessages(msgs, p)
<1> HIDE DEF Is
<1>9. w \in 0 .. n /\ Is(w)
    BY <1>3, <1>8
<1> QED
    BY <1>6, <1>9 DEF n

\* What follows the first p units.
Position(first, msgs, t, p, k) ==
    IF p = t[k] THEN Start(first + k + 1)
    ELSE Place(first + k + 1, msgs[k + 1][1].size, p - t[k] + 1)

\* One unit leads from a position to the next.
LEMMA UnitLeads ==
    ASSUME NEW first, NEW msgs, NEW t, Row(first, msgs, t),
           NEW f, Flat(f, Unit, msgs, t, Len(msgs)), NEW p \in Nat, p + 1 <= t[Len(msgs)],
           NEW k, Reached(t, Len(msgs), p, k), NEW l, Reached(t, Len(msgs), p + 1, l)
    PROVE  /\ Accepts(Position(first, msgs, t, p, k), f[p + 1])
           /\ After(f[p + 1]) = Position(first, msgs, t, p + 1, l)
<1> DEFINE n == Len(msgs)
           m == msgs[k + 1]
           size == m[1].size
           j == p + 1 - t[k]
           id == first + k + 1
<1>1. /\ n \in Nat /\ \A i \in 0 .. n : t[i] \in Nat
      /\ \A i \in 1 .. n : t[i] = t[i - 1] + Len(msgs[i]) /\ Len(msgs[i]) \in Nat \ {0}
      /\ first \in Nat
    <2>1. first \in Nat
        BY DEF Row
    <2>2. /\ n \in Nat /\ \A i \in 0 .. n : t[i] \in Nat
          /\ \A i \in 1 .. n : t[i] = t[i - 1] + Len(msgs[i]) /\ Len(msgs[i]) \in Nat \ {0}
        BY RowIs
    <2> QED
        BY <2>1, <2>2
<1>2. k \in 0 .. n /\ t[k] <= p /\ (k < n => t[k + 1] > p) /\ l \in 0 .. n
    BY DEF Reached
<1>3. /\ k < n /\ k + 1 \in 1 .. n /\ k \in Nat /\ (k + 1) - 1 = k /\ k + 1 \in 0 .. n
    <2>1. k # n
        BY <1>1, <1>2
    <2> QED
        BY <1>1, <1>2, <2>1
<1>4. /\ Len(m) = HeaderSize + size /\ size \in Payloads
      /\ \A i \in 1 .. Len(m) : m[i] = Place(first + (k + 1), size, i)
    BY <1>3, RowIs
<1>5. first + (k + 1) = id
    BY <1>1, <1>3
<1>6. \A i \in 1 .. Len(m) : f[t[k] + i] = m[i]
    BY <1>3 DEF Flat
<1> HIDE DEF n, m, size
<1>7. /\ t[k] \in Nat /\ Len(m) \in Nat /\ t[k + 1] = t[k] + Len(m) /\ t[k + 1] \in Nat
    BY <1>1, <1>3 DEF m
<1>8. j \in 1 .. Len(m) /\ t[k] + j = p + 1
    BY <1>2, <1>3, <1>7
<1>9. f[p + 1] = Place(id, size, j)
    BY <1>4, <1>5, <1>6, <1>8
<1>10. Accepts(Position(first, msgs, t, p, k), f[p + 1])
    <2>1. CASE p = t[k]
        <3>1. j = 1
            BY <1>7, <2>1
        <3> QED
            BY <1>9, <2>1, <3>1 DEF Position, Accepts, Start, Place
    <2>2. CASE p # t[k]
        <3>1. p - t[k] + 1 = j
            BY <1>7
        <3> HIDE DEF j, id
        <3>2. Position(first, msgs, t, p, k) = Place(id, size, j)
            BY <2>2, <3>1 DEF Position, id, size, m
        <3> QED
            BY <1>9, <3>2 DEF Accepts
    <2> QED
        BY <2>1, <2>2
<1>11. CASE j = Len(m)
    <2>1. p + 1 = t[k + 1]
        BY <1>7, <1>8, <1>11
    <2>2. Reached(t, n, p + 1, k + 1)
        <3>1. ASSUME k + 1 < n PROVE t[(k + 1) + 1] > p + 1
            <4>1. (k + 1) + 1 \in 1 .. n /\ ((k + 1) + 1) - 1 = k + 1
                BY <1>1, <1>3, <3>1
            <4>2. /\ t[(k + 1) + 1] = t[k + 1] + Len(msgs[(k + 1) + 1])
                  /\ Len(msgs[(k + 1) + 1]) \in Nat \ {0}
                BY <1>1, <4>1
            <4> QED
                BY <1>7, <2>1, <4>2
        <3>2. t[k + 1] <= p + 1
            BY <1>7, <2>1
        <3> QED
            BY <1>3, <3>1, <3>2 DEF Reached
    <2>3. l = k + 1
        <3>1. p + 1 \in Nat
            OBVIOUS
        <3> QED
            BY <2>2, <3>1, ReachedOnce DEF n
    <2>4. Position(first, msgs, t, p + 1, l) = Start(first + l + 1)
        BY <2>1, <2>3 DEF Position
    <2>5. first + l + 1 = id + 1
        BY <1>1, <1>3, <2>3
    <2>6. After(f[p + 1]) = Start(id + 1)
        <3> HIDE DEF j, id
        <3> QED
            BY <1>4, <1>9, <1>11 DEF After, Place
    <2> QED
        BY <1>10, <2>4, <2>5, <2>6
<1>12. CASE j # Len(m)
    <2>1. p + 1 < t[k + 1] /\ t[k] <= p + 1 /\ p + 1 # t[k]
        BY <1>2, <1>7, <1>8, <1>12
    <2>2. Reached(t, n, p + 1, k)
        BY <1>2, <1>7, <2>1 DEF Reached
    <2>3. l = k
        <3>1. p + 1 \in Nat
            OBVIOUS
        <3> QED
            BY <2>2, <3>1, ReachedOnce DEF n
    <2>4. (p + 1) - t[k] + 1 = j + 1
        BY <1>7
    <2> HIDE DEF j, id
    <2>5. Position(first, msgs, t, p + 1, l) = Place(id, size, j + 1)
        BY <2>1, <2>3, <2>4 DEF Position, id, size, m
    <2>6. After(f[p + 1]) = Place(id, size, j + 1)
        BY <1>4, <1>9, <1>12 DEF After, Place
    <2> QED
        BY <1>10, <2>5, <2>6
<1> QED
    BY <1>11, <1>12

\* n units after the first o
Cut(f, o, n) == SubSeq(f, o + 1, o + n)

LEMMA CutIs ==
    ASSUME NEW U, NEW f \in Seq(U), NEW o \in Nat, NEW n \in Nat, o + n <= Len(f)
    PROVE  /\ Cut(f, o, n) \in Seq(U) /\ Len(Cut(f, o, n)) = n
           /\ \A i \in 1 .. n : Cut(f, o, n)[i] = f[o + i]
BY DEF Cut

LEMMA CutRuns ==
    ASSUME NEW first, NEW msgs, NEW t, Row(first, msgs, t),
           NEW f, Flat(f, Unit, msgs, t, Len(msgs)), NEW o \in Nat, NEW n \in Nat,
           o + n <= t[Len(msgs)],
           NEW k, Reached(t, Len(msgs), o, k), NEW l, Reached(t, Len(msgs), o + n, l)
    PROVE  /\ Cut(f, o, n) \in Seq(Unit) /\ Len(Cut(f, o, n)) = n
           /\ Run(Cut(f, o, n), Position(first, msgs, t, o, k),
                  Position(first, msgs, t, o + n, l))
<1> DEFINE c == Cut(f, o, n)
           L == Len(msgs)
<1>1. t[L] \in Nat /\ t[L] = Len(f) /\ f \in Seq(Unit)
    BY RowIs DEF Flat
<1>2. /\ c \in Seq(Unit) /\ Len(c) = n /\ \A i \in 1 .. n : c[i] = f[o + i]
    BY <1>1, CutIs
<1> HIDE DEF c
<1> DEFINE at == [i \in 0 .. n |-> CHOOSE j : Reached(t, L, o + i, j)]
<1>3. \A i \in 0 .. n : Reached(t, L, o + i, at[i])
    <2>1. \A i \in 0 .. n : o + i \in 0 .. t[L]
        BY <1>1
    <2>2. \A i \in 0 .. n : \E j : Reached(t, L, o + i, j)
        BY <2>1, ReachedExists
    <2> QED
        BY <2>2
<1> HIDE DEF at
<1>4. ASSUME NEW i \in 1 .. n
      PROVE  /\ Accepts(Position(first, msgs, t, o + (i - 1), at[i - 1]), c[i])
             /\ After(c[i]) = Position(first, msgs, t, o + i, at[i])
    <2> DEFINE p == o + (i - 1)
    <2>1. p \in Nat /\ p + 1 = o + i /\ p + 1 <= t[L] /\ i - 1 \in 0 .. n /\ i \in 0 .. n
        BY <1>1
    <2>2. Reached(t, L, p, at[i - 1]) /\ Reached(t, L, p + 1, at[i])
        BY <1>3, <2>1
    <2>3. c[i] = f[p + 1]
        BY <1>2, <2>1
    <2> HIDE DEF p
    <2>4. /\ Accepts(Position(first, msgs, t, p, at[i - 1]), f[p + 1])
          /\ After(f[p + 1]) = Position(first, msgs, t, p + 1, at[i])
        BY <2>1, <2>2, UnitLeads
    <2> QED
        BY <2>1, <2>3, <2>4 DEF p
<1>5. at[0] = k /\ at[n] = l
    <2>1. o + 0 = o /\ 0 \in 0 .. n /\ n \in 0 .. n /\ o + n \in Nat
        OBVIOUS
    <2>2. Reached(t, L, o, at[0]) /\ Reached(t, L, o + n, at[n])
        BY <1>3, <2>1
    <2> QED
        BY <2>1, <2>2, ReachedOnce
<1>6. CASE n = 0
    <2>1. o + n = o
        BY <1>6
    <2> QED
        BY <1>2, <1>5, <1>6, <2>1 DEF Run, c
<1>7. CASE n # 0
    <2>1. 1 \in 1 .. n /\ n \in 1 .. n /\ 1 - 1 = 0 /\ o + 0 = o
        BY <1>7
    <2>2. Accepts(Position(first, msgs, t, o, k), c[1])
        BY <1>4, <1>5, <2>1
    <2>3. After(c[n]) = Position(first, msgs, t, o + n, l)
        BY <1>4, <1>5, <2>1
    <2>4. ASSUME NEW i \in 2 .. n PROVE Accepts(After(c[i - 1]), c[i])
        <3>1. i - 1 \in 1 .. n /\ i \in 1 .. n
            OBVIOUS
        <3> QED
            BY <1>4, <3>1
    <2> QED
        BY <1>2, <1>7, <2>2, <2>3, <2>4 DEF Run, c
<1> QED
    BY <1>6, <1>7

-----------------------------------------------------------------------------
\* Sending: the end of a connection

EndType ==
    [vSendMsg : Seq(Seq(Unit)), nSendOffset : Nat, nSendSize : Nat, vRecvMsg : Seq(Part),
     sent : Seq(Nat), processed : Seq(Seq(Unit))]

\* How many messages are out.
Gone(x) == Len(x.sent) - Len(x.vSendMsg)

\* The messages that are not out, and how far the first of them is.
Sending(x) ==
    /\ Gone(x) \in Nat
    /\ \A i \in 1 .. Len(x.vSendMsg) : IsMessage(x.vSendMsg[i], Gone(x) + i)
    /\ x.nSendSize = TotalLength(x.vSendMsg)
    /\ IF x.vSendMsg = <<>> THEN x.nSendOffset = 0
       ELSE x.nSendOffset \in 0 .. Len(Head(x.vSendMsg)) - 1

\* What the end sends next.
Upcoming(x) ==
    IF x.nSendOffset = 0 THEN Start(Gone(x) + 1)
    ELSE Place(Gone(x) + 1, x.vSendMsg[1][1].size, x.nSendOffset + 1)

\* What remains of a row
RestOf(msgs, k) == SubSeq(msgs, k + 1, Len(msgs))

LEMMA RestIs ==
    ASSUME NEW U, NEW s \in Seq(U), NEW k \in 0 .. Len(s)
    PROVE  /\ RestOf(s, k) \in Seq(U) /\ Len(RestOf(s, k)) = Len(s) - k
           /\ \A i \in 1 .. Len(s) - k : RestOf(s, k)[i] = s[k + i]
BY DEF RestOf

LEMMA TotalOfRest ==
    ASSUME NEW U, NEW msgs \in Seq(Seq(U)), NEW t, IsTotal(t, msgs), NEW k \in 0 .. Len(msgs)
    PROVE  TotalLength(RestOf(msgs, k)) = t[Len(msgs)] - t[k]
<1> DEFINE n == Len(msgs)
           rest == RestOf(msgs, k)
           u == [i \in 0 .. n - k |-> t[k + i] - t[k]]
<1>1. /\ n \in Nat /\ k \in 0 .. n /\ rest \in Seq(Seq(U)) /\ Len(rest) = n - k
      /\ \A i \in 1 .. n - k : rest[i] = msgs[k + i]
    BY RestIs
<1>2. /\ \A i \in 0 .. n : t[i] \in Nat
      /\ \A i \in 1 .. n : t[i] = t[i - 1] + Len(msgs[i])
    BY DEF IsTotal
<1>3. \A i \in k .. n : t[k] <= t[i]
    <2> SUFFICES ASSUME NEW i \in k .. n PROVE t[k] <= t[i]
        OBVIOUS
    <2>1. i \in 0 .. n /\ k \in 0 .. i
        BY <1>1
    <2> QED
        BY <2>1, TotalGrows
<1>4. \A i \in 1 .. n : Len(msgs[i]) \in Nat
    OBVIOUS
<1> HIDE DEF n, rest
<1>5. \A i \in 0 .. n - k : t[k + i] - t[k] \in Nat
    <2> SUFFICES ASSUME NEW i \in 0 .. n - k PROVE t[k + i] - t[k] \in Nat
        OBVIOUS
    <2>1. k + i \in 0 .. n /\ k + i \in k .. n
        BY <1>1
    <2>2. t[k] \in Nat /\ t[k + i] \in Nat /\ t[k] <= t[k + i]
        BY <1>1, <1>2, <1>3, <2>1
    <2> QED
        BY <2>2
<1>6. u \in [0 .. n - k -> Nat]
    BY <1>5
<1>7. u[0] = 0 /\ u[n - k] = t[n] - t[k]
    <2>1. 0 \in 0 .. n - k /\ n - k \in 0 .. n - k /\ k + 0 = k /\ k + (n - k) = n
        BY <1>1
    <2>2. t[k] - t[k] = 0
        BY <1>1, <1>2
    <2> QED
        BY <2>1, <2>2
<1>8. \A i \in 1 .. n - k : u[i] = u[i - 1] + Len(rest[i])
    <2> SUFFICES ASSUME NEW i \in 1 .. n - k PROVE u[i] = u[i - 1] + Len(rest[i])
        OBVIOUS
    <2>1. /\ i \in 0 .. n - k /\ i - 1 \in 0 .. n - k /\ k + i \in 1 .. n
          /\ k + (i - 1) = (k + i) - 1 /\ (k + i) - 1 \in 0 .. n /\ k + i \in 0 .. n
        BY <1>1
    <2>2. /\ u[i] = t[k + i] - t[k] /\ u[i - 1] = t[(k + i) - 1] - t[k]
        BY <2>1
    <2>3. /\ t[k + i] = t[(k + i) - 1] + Len(msgs[k + i]) /\ t[(k + i) - 1] \in Nat
          /\ t[k] \in Nat /\ Len(msgs[k + i]) \in Nat /\ rest[i] = msgs[k + i]
        BY <1>1, <1>2, <1>4, <2>1
    <2> HIDE DEF u
    <2> QED
        BY <2>2, <2>3
<1> HIDE DEF u
<1>9. IsTotal(u, rest)
    BY <1>1, <1>6, <1>7, <1>8 DEF IsTotal
<1>10. TotalLength(rest) = u[Len(rest)]
    BY <1>1, <1>9, TotalIs
<1> QED
    BY <1>1, <1>7, <1>10 DEF rest, n

Changed(y, v, s, o) == [y EXCEPT !.vSendMsg = v, !.nSendSize = s, !.nSendOffset = o]

LEMMA ChangedIs ==
    ASSUME NEW y \in EndType, NEW v, NEW s, NEW o
    PROVE  Changed(y, v, s, o) =
             [vSendMsg |-> v, nSendOffset |-> o, nSendSize |-> s, vRecvMsg |-> y.vRecvMsg,
              sent |-> y.sent, processed |-> y.processed]
<1> DEFINE fields ==
             {"vSendMsg", "nSendOffset", "nSendSize", "vRecvMsg", "sent", "processed"}
           c == Changed(y, v, s, o)
           r == [vSendMsg |-> v, nSendOffset |-> o, nSendSize |-> s, vRecvMsg |-> y.vRecvMsg,
                 sent |-> y.sent, processed |-> y.processed]
<1>1. DOMAIN y = fields
    BY DEF EndType
<1>2. /\ c = [g \in fields |-> c[g]]
      /\ c.vSendMsg = v /\ c.nSendOffset = o /\ c.nSendSize = s
      /\ c.vRecvMsg = y.vRecvMsg /\ c.sent = y.sent /\ c.processed = y.processed
    BY <1>1 DEF Changed
<1>3. /\ r = [g \in fields |-> r[g]]
      /\ r.vSendMsg = v /\ r.nSendOffset = o /\ r.nSendSize = s
      /\ r.vRecvMsg = y.vRecvMsg /\ r.sent = y.sent /\ r.processed = y.processed
    OBVIOUS
<1> HIDE DEF c, r
<1>4. \A g \in fields : c[g] = r[g]
    BY <1>2, <1>3
<1>5. c = r
    BY <1>2, <1>3, <1>4
<1> QED
    BY <1>5 DEF c, r

LEMMA SentEnd ==
    ASSUME NEW y \in EndType, NEW n
    PROVE  LET k == WholeMessages(y.vSendMsg, y.nSendOffset + n)
               d == TotalLength(SubSeq(y.vSendMsg, 1, k))
           IN  SocketSendData(y, n) = Changed(y, RestOf(y.vSendMsg, k), y.nSendSize - d,
                                              y.nSendOffset + n - d)
BY Zenon DEF SocketSendData, RestOf, Changed

\* The kernel takes n units of what the end has to send.
LEMMA SendKeeps ==
    ASSUME NEW y \in EndType, Sending(y), y.vSendMsg # <<>>, NEW n \in Nat,
           y.nSendOffset + n <= TotalLength(y.vSendMsg)
    PROVE  /\ SocketSendData(y, n) \in EndType /\ Sending(SocketSendData(y, n))
           /\ SocketSendData(y, n).vRecvMsg = y.vRecvMsg
           /\ SocketSendData(y, n).processed = y.processed
           /\ UnitsSent(y, n) \in Seq(Unit) /\ Len(UnitsSent(y, n)) = n
           /\ Run(UnitsSent(y, n), Upcoming(y), Upcoming(SocketSendData(y, n)))
<1> DEFINE msgs == y.vSendMsg
           L == Len(msgs)
           first == Gone(y)
           o == y.nSendOffset
           p == o + n
           k == WholeMessages(msgs, p)
           d == TotalLength(SubSeq(msgs, 1, k))
           z == SocketSendData(y, n)
           rest == RestOf(msgs, k)
           f == FlattenSeq(msgs)
<1>1. /\ msgs \in Seq(Seq(Unit)) /\ o \in Nat /\ y.sent \in Seq(Nat) /\ y.vRecvMsg \in Seq(Part)
      /\ y.processed \in Seq(Seq(Unit)) /\ y.nSendSize = TotalLength(msgs)
      /\ Len(y.sent) \in Nat
    BY DEF EndType, Sending
<1>2. PICK t : IsTotal(t, msgs) /\ TotalLength(msgs) = t[L]
    BY <1>1, TotalExists
<1>3. Row(first, msgs, t)
    BY <1>1, <1>2 DEF Row, Sending
<1>4. o < Len(Head(msgs)) /\ p <= t[L] /\ p \in Nat
    <2>1. Len(Head(msgs)) \in Nat
        BY <1>1
    <2> QED
        BY <1>1, <1>2, <2>1 DEF Sending
<1>5. /\ L \in Nat /\ L # 0 /\ t[0] = 0 /\ t[L] \in Nat /\ first \in Nat
      /\ t[1] = Len(msgs[1]) /\ t[1] \in Nat
    <2>1. L \in Nat /\ L # 0 /\ t[0] = 0 /\ \A i \in 0 .. L : t[i] \in Nat
        BY <1>3, RowIs
    <2>2. \A i \in 1 .. L : t[i] = t[i - 1] + Len(msgs[i]) /\ Len(msgs[i]) \in Nat \ {0}
        BY <1>3, RowIs
    <2>3. 1 \in 1 .. L /\ 1 - 1 = 0 /\ L \in 0 .. L
        BY <2>1
    <2>4. t[1] = t[0] + Len(msgs[1]) /\ Len(msgs[1]) \in Nat
        BY <2>2, <2>3
    <2>5. first \in Nat
        BY <1>3 DEF Row
    <2> QED
        BY <2>1, <2>3, <2>4, <2>5
<1>6. Reached(t, L, p, k)
    <2>1. p \in 0 .. t[L]
        BY <1>4, <1>5
    <2> HIDE DEF p
    <2> QED
        BY <1>3, <2>1, WholeIs
<1>7. k \in 0 .. L /\ t[k] <= p /\ (k < L => t[k + 1] > p) /\ k \in Nat /\ t[k] \in Nat
    <2>1. \A i \in 0 .. L : t[i] \in Nat
        BY <1>3, RowIs
    <2> HIDE DEF p, k, L
    <2> QED
        BY <1>5, <1>6, <2>1 DEF Reached
<1>8. d = t[k]
    <2> HIDE DEF k
    <2> QED
        BY <1>1, <1>2, <1>7, TotalOfFirst
<1>9. /\ rest \in Seq(Seq(Unit)) /\ Len(rest) = L - k /\ TotalLength(rest) = t[L] - t[k]
      /\ \A i \in 1 .. L - k : rest[i] = msgs[k + i]
    <2> DEFINE R == RestOf(msgs, k)
               P == Seq(Unit)
    <2>1. msgs \in Seq(P) /\ k \in 0 .. Len(msgs)
        BY <1>1, <1>7
    <2>2. IsTotal(t, msgs) /\ TotalLength(R) = t[Len(msgs)] - t[k]
        <3> HIDE DEF k, msgs
        <3> QED
            BY <1>2, <2>1, TotalOfRest
    <2> HIDE DEF P, k
    <2>3. /\ RestOf(msgs, k) \in Seq(P) /\ Len(RestOf(msgs, k)) = Len(msgs) - k
          /\ \A i \in 1 .. Len(msgs) - k : RestOf(msgs, k)[i] = msgs[k + i]
        <3> HIDE DEF msgs
        <3> QED
            BY <2>1, RestIs
    <2> QED
        BY <2>2, <2>3 DEF P
<1>10. z = [vSendMsg |-> rest, nSendOffset |-> p - t[k], nSendSize |-> t[L] - t[k],
            vRecvMsg |-> y.vRecvMsg, sent |-> y.sent, processed |-> y.processed]
    <2> DEFINE size == y.nSendSize - d
               offset == o + n - d
    <2>1. z = Changed(y, rest, size, offset)
        BY SentEnd, Zenon
    <2> HIDE DEF z, d, k, rest, L
    <2>2. size = t[L] - t[k] /\ offset = p - t[k]
        <3>1. y.nSendSize = t[L] /\ d = t[k]
            BY <1>1, <1>2, <1>8
        <3>2. offset = p - t[k]
            BY <1>1, <1>7, <3>1
        <3> QED
            BY <3>1, <3>2
    <2> HIDE DEF size, offset, p
    <2>3. z = [vSendMsg |-> rest, nSendOffset |-> offset, nSendSize |-> size,
               vRecvMsg |-> y.vRecvMsg, sent |-> y.sent, processed |-> y.processed]
        BY <2>1, ChangedIs
    <2> QED
        BY <2>2, <2>3
<1> HIDE DEF z, d, k, rest
<1>11. /\ z.vSendMsg = rest /\ z.nSendOffset = p - t[k] /\ z.nSendSize = t[L] - t[k]
       /\ z.vRecvMsg = y.vRecvMsg /\ z.sent = y.sent /\ z.processed = y.processed
    BY <1>10
<1>12. p - t[k] \in Nat /\ t[L] - t[k] \in Nat
    <2>1. p - t[k] \in Nat
        BY <1>4, <1>7
    <2>2. t[k] <= t[L]
        BY <1>4, <1>5, <1>7
    <2> QED
        BY <1>5, <1>7, <2>1, <2>2
<1>13. z \in EndType
    BY <1>1, <1>9, <1>10, <1>12 DEF EndType
<1>14. Gone(z) = first + k
    <2>1. first = Len(y.sent) - L /\ Gone(z) = Len(y.sent) - Len(rest)
        BY <1>11 DEF Gone
    <2> HIDE DEF L, first
    <2> QED
        BY <1>1, <1>5, <1>7, <1>9, <2>1
<1>15. rest = <<>> <=> k = L
    <2>1. rest = <<>> <=> Len(rest) = 0
        BY <1>9
    <2> HIDE DEF L
    <2> QED
        BY <1>5, <1>7, <1>9, <2>1
<1>16. Sending(z)
    <2>1. Gone(z) \in Nat
        BY <1>5, <1>7, <1>14
    <2>2. ASSUME NEW i \in 1 .. L - k PROVE IsMessage(rest[i], Gone(z) + i)
        <3>1. k + i \in 1 .. L /\ first + (k + i) = Gone(z) + i
            BY <1>5, <1>7, <1>14
        <3>2. IsMessage(msgs[k + i], first + (k + i))
            BY <1>3, <3>1 DEF Row
        <3> QED
            BY <1>9, <3>1, <3>2
    <2>3. z.nSendSize = TotalLength(rest)
        BY <1>9, <1>11
    <2>4. CASE k = L
        <3>1. p - t[k] = 0
            BY <1>4, <1>7, <2>4
        <3> QED
            BY <1>9, <1>11, <1>15, <2>1, <2>2, <2>3, <2>4, <3>1 DEF Sending
    <2>5. CASE k # L
        <3>1. 1 \in 1 .. L - k /\ k + 1 \in 1 .. L /\ k < L /\ (k + 1) - 1 = k
            BY <1>5, <1>7, <2>5
        <3>2. rest # <<>> /\ Head(rest) = msgs[k + 1]
            <4>1. rest # <<>> /\ rest[1] = msgs[k + 1]
                BY <1>9, <1>15, <2>5, <3>1
            <4> HIDE DEF msgs
            <4> QED
                BY <1>9, <4>1
        <3>3. t[k + 1] = t[k] + Len(msgs[k + 1]) /\ Len(msgs[k + 1]) \in Nat
            BY <1>3, <3>1, RowIs
        <3>4. p - t[k] \in 0 .. Len(msgs[k + 1]) - 1
            <4> HIDE DEF p, msgs
            <4> QED
                BY <1>4, <1>7, <1>12, <3>1, <3>3
        <3> QED
            BY <1>9, <1>11, <2>1, <2>2, <2>3, <3>2, <3>4 DEF Sending
    <2> QED
        BY <2>4, <2>5
<1>17. Upcoming(y) = Position(first, msgs, t, o, 0)
    <2>1. o - 0 + 1 = o + 1 /\ first + 0 + 1 = first + 1 /\ 0 + 1 = 1
        BY <1>1, <1>5
    <2> QED
        BY <1>5, <2>1 DEF Upcoming, Position
<1>18. Upcoming(z) = Position(first, msgs, t, p, k)
    <2>1. CASE p = t[k]
        <3>1. z.nSendOffset = 0
            BY <1>4, <1>11, <2>1
        <3> QED
            BY <1>14, <2>1, <3>1 DEF Upcoming, Position
    <2>2. CASE p # t[k]
        <3>1. z.nSendOffset # 0 /\ z.nSendOffset + 1 = p - t[k] + 1
            BY <1>4, <1>7, <1>11, <2>2
        <3>2. k # L
            BY <1>4, <1>5, <1>7, <2>2
        <3>3. 1 \in 1 .. L - k
            BY <1>5, <1>7, <3>2
        <3>4. z.vSendMsg[1] = msgs[k + 1]
            BY <1>9, <1>11, <3>3
        <3> HIDE DEF p, msgs, first
        <3> QED
            BY <1>14, <2>2, <3>1, <3>4 DEF Upcoming, Position
    <2> QED
        BY <2>1, <2>2
<1>19. Reached(t, L, o, 0)
    <2>1. Head(msgs) = msgs[1]
        BY <1>1
    <2> QED
        BY <1>1, <1>4, <1>5, <2>1 DEF Reached
<1>20. Flat(f, Unit, msgs, t, L)
    BY <1>1, <1>2, FlattenIs
<1>21. UnitsSent(y, n) = Cut(f, o, n)
    BY DEF UnitsSent, Cut
<1>22. /\ Cut(f, o, n) \in Seq(Unit) /\ Len(Cut(f, o, n)) = n
       /\ Run(Cut(f, o, n), Upcoming(y), Upcoming(z))
    <2> HIDE DEF f, o
    <2>1. /\ Cut(f, o, n) \in Seq(Unit) /\ Len(Cut(f, o, n)) = n
          /\ Run(Cut(f, o, n), Position(first, msgs, t, o, 0), Position(first, msgs, t, o + n, k))
        <3> HIDE DEF msgs, first
        <3> QED
            BY <1>1, <1>3, <1>4, <1>6, <1>19, <1>20, CutRuns DEF p
    <2> QED
        BY <1>17, <1>18, <2>1
<1> QED
    BY <1>11, <1>13, <1>16, <1>21, <1>22 DEF z

LEMMA TotalOfMore ==
    ASSUME NEW U, NEW msgs \in Seq(Seq(U)), NEW m \in Seq(U)
    PROVE  TotalLength(Append(msgs, m)) = TotalLength(msgs) + Len(m)
<1> DEFINE more == Append(msgs, m)
           n == Len(msgs)
<1>1. IsAppended(more, Seq(U), msgs, m) /\ n \in Nat /\ Len(m) \in Nat
    BY Appended
<1> HIDE DEF more
<1>2. /\ more \in Seq(Seq(U)) /\ Len(more) = n + 1 /\ more[n + 1] = m
      /\ \A i \in 1 .. n : more[i] = msgs[i]
    BY <1>1 DEF IsAppended
<1>3. PICK t : IsTotal(t, more) /\ TotalLength(more) = t[n + 1]
    BY <1>2, TotalExists
<1>4. t[n + 1] = t[n] + Len(m)
    <2>1. n + 1 \in 1 .. n + 1 /\ (n + 1) - 1 = n
        BY <1>1
    <2>2. \A i \in 1 .. Len(more) : t[i] = t[i - 1] + Len(more[i])
        BY <1>3 DEF IsTotal
    <2>3. t[n + 1] = t[n] + Len(more[n + 1])
        BY <1>2, <2>1, <2>2
    <2> QED
        BY <1>2, <2>3
<1>5. TotalLength(msgs) = t[n]
    <2> DEFINE u == [i \in 0 .. n |-> t[i]]
    <2>1. t[0] = 0 /\ \A i \in 0 .. n : t[i] \in Nat
        <3>1. t \in [0 .. n + 1 -> Nat] /\ t[0] = 0
            BY <1>2, <1>3 DEF IsTotal
        <3>2. \A i \in 0 .. n : i \in 0 .. n + 1
            BY <1>1
        <3> QED
            BY <3>1, <3>2
    <2>2. \A i \in 1 .. n : t[i] = t[i - 1] + Len(msgs[i])
        <3> SUFFICES ASSUME NEW i \in 1 .. n PROVE t[i] = t[i - 1] + Len(msgs[i])
            OBVIOUS
        <3>1. i \in 1 .. Len(more) /\ more[i] = msgs[i]
            BY <1>1, <1>2
        <3>2. t[i] = t[i - 1] + Len(more[i])
            BY <1>3, <3>1 DEF IsTotal
        <3> QED
            BY <3>1, <3>2
    <2>3. \A i \in 1 .. n : i \in 0 .. n /\ i - 1 \in 0 .. n
        BY <1>1
    <2>4. n \in 0 .. n /\ 0 \in 0 .. n
        BY <1>1
    <2> HIDE DEF n
    <2>5. u \in [0 .. n -> Nat] /\ u[0] = 0 /\ u[n] = t[n]
        BY <2>1, <2>4
    <2>6. \A i \in 1 .. n : u[i] = u[i - 1] + Len(msgs[i])
        BY <2>2, <2>3
    <2> HIDE DEF u
    <2>7. IsTotal(u, msgs)
        BY <2>5, <2>6 DEF IsTotal, n
    <2>8. TotalLength(msgs) = u[n]
        BY <2>7, TotalIs DEF n
    <2> QED
        BY <2>5, <2>8
<1> QED
    BY <1>3, <1>4, <1>5 DEF more

\* The first message is not longer than all.
LEMMA OffsetFits ==
    ASSUME NEW x \in EndType, Sending(x)
    PROVE  x.nSendOffset <= TotalLength(x.vSendMsg) /\ TotalLength(x.vSendMsg) \in Nat
<1> DEFINE msgs == x.vSendMsg
           L == Len(msgs)
<1>1. msgs \in Seq(Seq(Unit)) /\ x.nSendOffset \in Nat
    BY DEF EndType
<1>2. PICK t : IsTotal(t, msgs) /\ TotalLength(msgs) = t[L]
    BY <1>1, TotalExists
<1>3. L \in Nat
    BY <1>1
<1>4. t[0] = 0 /\ (\A i \in 0 .. L : t[i] \in Nat) /\ L \in 0 .. L
    <2>1. t \in [0 .. L -> Nat] /\ t[0] = 0
        BY <1>2 DEF IsTotal
    <2> HIDE DEF L
    <2> QED
        BY <1>3, <2>1
<1>5. CASE msgs = <<>>
    <2>1. x.nSendOffset = 0
        BY <1>5 DEF Sending
    <2>2. t[L] \in Nat
        BY <1>4
    <2> HIDE DEF L, msgs
    <2> QED
        BY <1>2, <2>1, <2>2 DEF msgs
<1>6. CASE msgs # <<>>
    <2>1. 1 \in 1 .. L /\ 1 \in 0 .. L /\ 1 - 1 = 0 /\ Head(msgs) = msgs[1] /\ Len(msgs[1]) \in Nat
        BY <1>1, <1>6
    <2>2. x.nSendOffset <= Len(msgs[1])
        BY <1>1, <1>6, <2>1 DEF Sending
    <2>3. t[1] = t[0] + Len(msgs[1])
        BY <1>2, <2>1 DEF IsTotal
    <2>4. t[1] <= t[L]
        <3>1. 1 \in 0 .. L /\ L \in 0 .. L
            BY <1>4, <2>1
        <3> QED
            BY <1>1, <1>2, <3>1, TotalGrows
    <2>5. t[1] \in Nat /\ t[L] \in Nat
        BY <1>4, <2>1
    <2> HIDE DEF L, msgs
    <2>6. x.nSendOffset <= t[L]
        BY <1>1, <1>4, <2>1, <2>2, <2>3, <2>4, <2>5
    <2> QED
        BY <1>2, <2>5, <2>6 DEF msgs
<1> QED
    BY <1>5, <1>6

\* How much the kernel takes.
LEMMA SendableIs ==
    ASSUME NEW x \in EndType, Sending(x), NEW free \in Nat
    PROVE  /\ Sendable(x, free) \in Nat /\ Sendable(x, free) <= free
           /\ x.nSendOffset + Sendable(x, free) <= TotalLength(x.vSendMsg)
<1> DEFINE total == TotalLength(x.vSendMsg)
           o == x.nSendOffset
<1>1. o \in Nat /\ total \in Nat /\ o <= total
    BY OffsetFits DEF EndType
<1>2. Sendable(x, free) = IF total - o < free THEN total - o ELSE free
    BY DEF Sendable
<1> HIDE DEF o, total
<1>3. /\ Sendable(x, free) \in Nat /\ Sendable(x, free) <= free
      /\ o + Sendable(x, free) <= total
    BY <1>1, <1>2
<1> QED
    BY <1>3 DEF o, total


LEMMA QueueIs ==
    ASSUME NEW y \in EndType, NEW m
    PROVE  Queue(y, m) =
             [vSendMsg |-> Append(y.vSendMsg, m), nSendOffset |-> y.nSendOffset,
              nSendSize |-> y.nSendSize + Len(m), vRecvMsg |-> y.vRecvMsg,
              sent |-> Append(y.sent, m[1].id), processed |-> y.processed]
<1> DEFINE fields ==
             {"vSendMsg", "nSendOffset", "nSendSize", "vRecvMsg", "sent", "processed"}
           v == Append(y.vSendMsg, m)
           s == y.nSendSize + Len(m)
           q == Append(y.sent, m[1].id)
           c == [y EXCEPT !.vSendMsg = v, !.nSendSize = s, !.sent = q]
           r == [vSendMsg |-> v, nSendOffset |-> y.nSendOffset, nSendSize |-> s,
                 vRecvMsg |-> y.vRecvMsg, sent |-> q, processed |-> y.processed]
<1>1. Queue(y, m) = c
    BY Zenon DEF Queue
<1>2. DOMAIN y = fields
    BY DEF EndType
<1> HIDE DEF v, s, q
<1>3. /\ c = [g \in fields |-> c[g]]
      /\ c.vSendMsg = v /\ c.nSendSize = s /\ c.sent = q
      /\ c.vRecvMsg = y.vRecvMsg /\ c.nSendOffset = y.nSendOffset /\ c.processed = y.processed
    BY <1>2
<1>4. /\ r = [g \in fields |-> r[g]]
      /\ r.vSendMsg = v /\ r.nSendSize = s /\ r.sent = q
      /\ r.vRecvMsg = y.vRecvMsg /\ r.nSendOffset = y.nSendOffset /\ r.processed = y.processed
    OBVIOUS
<1> HIDE DEF c, r
<1>5. \A g \in fields : c[g] = r[g]
    BY <1>3, <1>4
<1>6. c = r
    BY <1>3, <1>4, <1>5
<1> QED
    BY <1>1, <1>6 DEF c, r, v, s, q

\* BeginMessage to EndMessage
LEMMA QueueKeeps ==
    ASSUME NEW y \in EndType, Sending(y), NEW size \in Payloads
    PROVE  LET x == Queue(y, Message(Len(y.sent) + 1, size)) IN
           /\ x \in EndType /\ Sending(x) /\ x.vSendMsg # <<>> /\ Upcoming(x) = Upcoming(y)
           /\ x.vRecvMsg = y.vRecvMsg /\ x.processed = y.processed
<1> DEFINE id == Len(y.sent) + 1
           m == Message(id, size)
           x == Queue(y, m)
           v == y.vSendMsg
           n == Len(v)
           w == Append(v, m)
           q == Append(y.sent, id)
<1>1. /\ v \in Seq(Seq(Unit)) /\ y.nSendOffset \in Nat /\ y.nSendSize \in Nat
      /\ y.sent \in Seq(Nat) /\ y.vRecvMsg \in Seq(Part) /\ y.processed \in Seq(Seq(Unit))
    BY DEF EndType
<1>2. Len(y.sent) \in Nat /\ id \in Nat /\ n \in Nat
    BY <1>1
<1>3. /\ IsMessage(m, id) /\ m \in Seq(Unit) /\ Len(m) \in Nat \ {0} /\ m[1].id = id
    <2> HIDE DEF id, m
    <2>1. /\ IsMessage(m, id) /\ m \in Seq(Unit) /\ Len(m) = HeaderSize + size
          /\ \A j \in 1 .. HeaderSize + size : m[j] = Place(id, size, j)
        BY <1>2, MessageIs DEF m
    <2>2. HeaderSize + size \in Nat \ {0} /\ 1 \in 1 .. HeaderSize + size
        BY SizesAre
    <2> QED
        BY <2>1, <2>2 DEF Place
<1>4. /\ w \in Seq(Seq(Unit)) /\ Len(w) = n + 1 /\ w[n + 1] = m /\ w # <<>>
      /\ \A i \in 1 .. n : w[i] = v[i]
    <2> HIDE DEF m, v, n, w
    <2>1. IsAppended(w, Seq(Unit), v, m)
        BY <1>1, <1>3, Appended DEF w
    <2>2. /\ w \in Seq(Seq(Unit)) /\ Len(w) = n + 1 /\ w[n + 1] = m
          /\ \A i \in 1 .. n : w[i] = v[i]
        BY <2>1 DEF IsAppended, n
    <2> QED
        BY <1>2, <2>2
<1>5. q \in Seq(Nat) /\ Len(q) = Len(y.sent) + 1
    <2> HIDE DEF id
    <2> QED
        BY <1>1, <1>2
<1>6. x = [vSendMsg |-> w, nSendOffset |-> y.nSendOffset, nSendSize |-> y.nSendSize + Len(m),
           vRecvMsg |-> y.vRecvMsg, sent |-> q, processed |-> y.processed]
    <2> HIDE DEF m, id
    <2> QED
        BY <1>3, QueueIs
<1>7. TotalLength(w) = TotalLength(v) + Len(m)
    <2> HIDE DEF m
    <2> QED
        BY <1>1, <1>3, TotalOfMore
<1> HIDE DEF x, w, q, m
<1>8. /\ x.vSendMsg = w /\ x.nSendOffset = y.nSendOffset /\ x.nSendSize = y.nSendSize + Len(m)
      /\ x.vRecvMsg = y.vRecvMsg /\ x.sent = q /\ x.processed = y.processed
    BY <1>6
<1>9. x \in EndType
    <2>1. y.nSendSize + Len(m) \in Nat
        BY <1>1, <1>3
    <2> QED
        BY <1>1, <1>4, <1>5, <1>6, <2>1 DEF EndType
<1>10. Gone(x) = Gone(y) /\ Gone(y) \in Nat /\ Gone(y) + (n + 1) = id
    <2>1. Gone(y) = Len(y.sent) - n /\ Gone(x) = Len(q) - Len(w) /\ Gone(y) \in Nat
        BY <1>8 DEF Gone, Sending
    <2> DEFINE a == Gone(y)
               b == Gone(x)
               c == Len(q)
               d == Len(w)
               e == Len(y.sent)
    <2>2. a = e - n /\ b = c - d /\ a \in Nat /\ c = e + 1 /\ d = n + 1 /\ id = e + 1
        BY <1>4, <1>5, <2>1
    <2>3. e \in Nat /\ n \in Nat
        BY <1>2
    <2> HIDE DEF a, b, c, d, e, n, id
    <2> QED
        BY <2>2, <2>3 DEF a, b
<1>11. \A i \in 1 .. Len(w) : IsMessage(w[i], Gone(x) + i)
    <2> SUFFICES ASSUME NEW i \in 1 .. n + 1 PROVE IsMessage(w[i], Gone(y) + i)
        BY <1>4, <1>10
    <2>1. CASE i = n + 1
        BY <1>3, <1>4, <1>10, <2>1
    <2>2. CASE i # n + 1
        <3>1. i \in 1 .. n
            BY <1>2, <2>2
        <3> QED
            BY <1>4, <3>1 DEF Sending
    <2> QED
        BY <2>1, <2>2
<1>12. v # <<>> => 1 \in 1 .. n /\ w[1] = v[1] /\ Head(v) = v[1]
    BY <1>1, <1>4
<1>13. Head(w) = w[1] /\ Len(w[1]) \in Nat \ {0}
    <2>1. Head(w) = w[1]
        BY <1>4
    <2>2. 1 \in 1 .. Len(w) /\ IsMessage(w[1], Gone(x) + 1) /\ Gone(x) + 1 \in Nat
        BY <1>2, <1>4, <1>10, <1>11
    <2>3. Len(w[1]) = HeaderSize + w[1][1].size /\ w[1][1].size \in Payloads
        <3> DEFINE a == w[1]
                   k == Gone(x) + 1
        <3> HIDE DEF a, k
        <3>1. a[1].size \in Payloads /\ a = Message(k, a[1].size) /\ k \in Nat
            BY <2>2 DEF IsMessage, a, k
        <3>2. Len(a) = HeaderSize + a[1].size
            BY <3>1, MessageIs
        <3> QED
            BY <3>1, <3>2 DEF a
    <2> QED
        BY <2>1, <2>3, SizesAre
<1>14. y.nSendOffset \in 0 .. Len(w[1]) - 1
    <2>1. CASE v = <<>>
        <3>1. y.nSendOffset = 0
            BY <2>1 DEF Sending
        <3> QED
            BY <1>13, <3>1
    <2>2. CASE v # <<>>
        BY <1>12, <2>2 DEF Sending
    <2> QED
        BY <2>1, <2>2
<1>15. Sending(x)
    <2>1. x.nSendSize = TotalLength(w)
        BY <1>7, <1>8 DEF Sending
    <2> QED
        BY <1>4, <1>8, <1>10, <1>11, <1>13, <1>14, <2>1 DEF Sending
<1>16. Upcoming(x) = Upcoming(y)
    <2>1. CASE y.nSendOffset = 0
        BY <1>8, <1>10, <2>1 DEF Upcoming
    <2>2. CASE y.nSendOffset # 0
        <3>1. v # <<>>
            BY <2>2 DEF Sending
        <3> QED
            BY <1>8, <1>10, <1>12, <2>2, <3>1 DEF Upcoming
    <2> QED
        BY <2>1, <2>2
<1> QED
    BY <1>4, <1>8, <1>9, <1>15, <1>16 DEF x, m

-----------------------------------------------------------------------------
\* Processing

\* What was processed, and what is received, are the messages in their order.
Taking(y) ==
    /\ \A i \in 1 .. Len(y.processed) : IsMessage(y.processed[i], i)
    /\ Receiving(Len(y.processed), y.vRecvMsg)

Expected(y) == Awaited(Len(y.processed), y.vRecvMsg)

SameSender(x, y) ==
    /\ x.vSendMsg = y.vSendMsg /\ x.nSendOffset = y.nSendOffset
    /\ x.nSendSize = y.nSendSize /\ x.sent = y.sent

LEMMA SameSends ==
    ASSUME NEW x, NEW y, SameSender(x, y), Sending(y)
    PROVE  Sending(x) /\ Upcoming(x) = Upcoming(y)
BY Zenon DEF SameSender, Sending, Upcoming, Gone

SameReceiver(x, y) == x.vRecvMsg = y.vRecvMsg /\ x.processed = y.processed

LEMMA SameTakes ==
    ASSUME NEW x, NEW y, SameReceiver(x, y), Taking(y)
    PROVE  Taking(x) /\ Expected(x) = Expected(y)
BY Zenon DEF SameReceiver, Taking, Expected

\* The header and the data of a complete message are what was sent.
LEMMA WholeMessage ==
    ASSUME NEW m, NEW id, Half(m, id), Complete(m)
    PROVE  IsMessage(m.hdrbuf \o m.vRecv, id) /\ m.hdrbuf \o m.vRecv \in Seq(Unit)
<1> DEFINE head == m.hdrbuf
           data == m.vRecv
           size == MessageSize(m)
           g == head \o data
           n == HeaderSize + size
<1>1. /\ Pieces(head, data, id, size) /\ Len(head) = HeaderSize /\ Len(data) = size
    BY DEF Half, Complete, InData
<1> HIDE DEF head, data, size
<1>2. /\ head \in Seq(Unit) /\ data \in Seq(Unit) /\ size \in Nat /\ size \in Payloads
      /\ HeaderSize \in Nat \ {0}
      /\ \A j \in 1 .. Len(head) : head[j] = Place(id, size, j)
      /\ \A j \in 1 .. Len(data) : data[j] = Place(id, size, HeaderSize + j)
    BY <1>1, SizesAre DEF Pieces
<1>3. IsJoin(g, Unit, head, data)
    BY <1>2, Joined
<1> HIDE DEF g
<1>4. /\ g \in Seq(Unit) /\ Len(g) = n
      /\ \A p \in 1 .. HeaderSize : g[p] = head[p]
      /\ \A j \in 1 .. size : g[HeaderSize + j] = data[j]
    BY <1>1, <1>3 DEF IsJoin
<1>5. ASSUME NEW p \in 1 .. n PROVE g[p] = Place(id, size, p)
    <2>1. CASE p <= HeaderSize
        <3>1. p \in 1 .. HeaderSize
            BY <1>2, <2>1
        <3> QED
            BY <1>1, <1>2, <1>4, <3>1
    <2>2. CASE p > HeaderSize
        <3> DEFINE j == p - HeaderSize
        <3>1. j \in 1 .. size /\ HeaderSize + j = p
            BY <1>2, <2>2
        <3> HIDE DEF j
        <3>2. g[HeaderSize + j] = data[j] /\ data[j] = Place(id, size, HeaderSize + j)
            BY <1>1, <1>2, <1>4, <3>1
        <3> QED
            BY <3>1, <3>2
    <2> QED
        BY <1>2, <2>1, <2>2
<1>6. n \in Nat /\ 1 \in 1 .. n
    BY <1>2
<1> HIDE DEF n
<1>7. g = [i \in 1 .. n |-> Place(id, size, i)]
    <2>1. g = [i \in 1 .. n |-> g[i]]
        BY <1>4
    <2> QED
        BY <1>5, <2>1
<1>8. g[1].size = size
    <2>1. g[1] = Place(id, size, 1)
        BY <1>5, <1>6
    <2> QED
        BY <2>1 DEF Place
<1>9. g = Message(id, size)
    BY <1>7 DEF Message, Place, n
<1> QED
    BY <1>2, <1>4, <1>8, <1>9 DEF IsMessage, g, head, data

LEMMA EmptyIs ==
    ASSUME NEW U, NEW s \in Seq(U)
    PROVE  s = <<>> <=> Len(s) = 0
OBVIOUS

LEMMA TailIs ==
    ASSUME NEW U, NEW s \in Seq(U), s # <<>>
    PROVE  /\ Tail(s) \in Seq(U) /\ Len(Tail(s)) = Len(s) - 1 /\ Len(s) \in Nat \ {0}
           /\ \A i \in 1 .. Len(s) - 1 : Tail(s)[i] = s[i + 1]
           /\ Head(s) = s[1]
OBVIOUS

\* After the first message was processed
LEMMA TailReceives ==
    ASSUME NEW n \in Nat, NEW msgs, Receiving(n, msgs), msgs # <<>>, Complete(Head(msgs))
    PROVE  Receiving(n + 1, Tail(msgs)) /\ Awaited(n + 1, Tail(msgs)) = Awaited(n, msgs)
<1> DEFINE rest == Tail(msgs)
           L == Len(msgs)
<1>1. /\ msgs \in Seq(Part) /\ \A i \in 1 .. L : Half(msgs[i], n + i)
      /\ \A i \in 1 .. L - 1 : Complete(msgs[i])
    BY DEF Receiving
<1>2. /\ rest \in Seq(Part) /\ Len(rest) = L - 1 /\ L \in Nat \ {0}
      /\ \A i \in 1 .. L - 1 : rest[i] = msgs[i + 1]
      /\ Head(msgs) = msgs[1]
    BY <1>1, TailIs
<1>3. rest = <<>> <=> L = 1
    <2>1. rest \in Seq(Part) /\ Len(rest) = L - 1
        BY <1>2
    <2> HIDE DEF rest, L
    <2>2. rest = <<>> <=> Len(rest) = 0
        BY <2>1, EmptyIs
    <2> QED
        BY <1>2, <2>1, <2>2
<1>4. Last(msgs) = msgs[L]
    BY DEF Last
<1>5. Last(rest) = rest[L - 1]
    BY <1>2 DEF Last
<1> HIDE DEF rest, L
<1>6. Receiving(n + 1, rest)
    <2>1. ASSUME NEW i \in 1 .. Len(rest) PROVE Half(rest[i], (n + 1) + i)
        <3>1. i \in 1 .. L - 1 /\ i + 1 \in 1 .. L /\ n + (i + 1) = (n + 1) + i
            BY <1>2
        <3> QED
            BY <1>1, <1>2, <3>1
    <2>2. ASSUME NEW i \in 1 .. Len(rest) - 1 PROVE Complete(rest[i])
        <3>1. i \in 1 .. L - 1 /\ i + 1 \in 1 .. L - 1
            BY <1>2
        <3> QED
            BY <1>1, <1>2, <3>1
    <2> QED
        BY <1>2, <2>1, <2>2 DEF Receiving
<1>7. CASE L = 1
    <2> DEFINE m == msgs[1]
    <2>1. Half(m, n + 1) /\ Complete(m) /\ Last(msgs) = m
        BY <1>1, <1>2, <1>4, <1>7
    <2>2. Awaited(n + 1, rest) = Start((n + 1) + 1)
        BY <1>3, <1>7 DEF Awaited
    <2>3. Awaited(n, msgs) = Onward(m.hdrbuf, m.vRecv, n + 1, MessageSize(m))
        BY <1>7, <2>1 DEF Awaited, L
    <2> HIDE DEF m
    <2>4. Pieces(m.hdrbuf, m.vRecv, n + 1, MessageSize(m)) /\ m = Msg(m.hdrbuf, m.vRecv)
        BY <2>1 DEF Half, Part, Msg
    <2>5. Ended(m.hdrbuf, m.vRecv, MessageSize(m))
        BY <2>1, <2>4, PiecesAre
    <2> QED
        BY <1>6, <2>2, <2>3, <2>5 DEF Onward, rest
<1>8. CASE L # 1
    <2>1. L - 1 \in 1 .. L - 1 /\ (L - 1) + 1 = L /\ (n + 1) + (L - 1) = n + L
        BY <1>2, <1>8
    <2>2. Last(rest) = Last(msgs) /\ (n + 1) + Len(rest) = n + L
        BY <1>2, <1>4, <1>5, <2>1
    <2> QED
        BY <1>3, <1>6, <1>8, <2>2 DEF Awaited, rest, L
<1> QED
    BY <1>7, <1>8

LEMMA ProcessedIs ==
    ASSUME NEW y \in EndType
    PROVE  LET m == Head(y.vRecvMsg) IN
           Processed(y) =
             [vSendMsg |-> y.vSendMsg, nSendOffset |-> y.nSendOffset, nSendSize |-> y.nSendSize,
              vRecvMsg |-> Tail(y.vRecvMsg), sent |-> y.sent,
              processed |-> Append(y.processed, m.hdrbuf \o m.vRecv)]
<1> DEFINE fields ==
             {"vSendMsg", "nSendOffset", "nSendSize", "vRecvMsg", "sent", "processed"}
           m == Head(y.vRecvMsg)
           v == Tail(y.vRecvMsg)
           d == Append(y.processed, m.hdrbuf \o m.vRecv)
           c == [y EXCEPT !.vRecvMsg = v, !.processed = d]
           r == [vSendMsg |-> y.vSendMsg, nSendOffset |-> y.nSendOffset,
                 nSendSize |-> y.nSendSize, vRecvMsg |-> v, sent |-> y.sent, processed |-> d]
<1>1. Processed(y) = c
    BY Zenon DEF Processed
<1>2. DOMAIN y = fields
    BY DEF EndType
<1> HIDE DEF v, d
<1>3. /\ c = [g \in fields |-> c[g]]
      /\ c.vSendMsg = y.vSendMsg /\ c.nSendSize = y.nSendSize /\ c.sent = y.sent
      /\ c.vRecvMsg = v /\ c.nSendOffset = y.nSendOffset /\ c.processed = d
    BY <1>2
<1>4. /\ r = [g \in fields |-> r[g]]
      /\ r.vSendMsg = y.vSendMsg /\ r.nSendSize = y.nSendSize /\ r.sent = y.sent
      /\ r.vRecvMsg = v /\ r.nSendOffset = y.nSendOffset /\ r.processed = d
    OBVIOUS
<1> HIDE DEF c, r
<1>5. \A g \in fields : c[g] = r[g]
    BY <1>3, <1>4
<1>6. c = r
    BY <1>3, <1>4, <1>5
<1> QED
    BY <1>1, <1>6 DEF c, r, v, d

\* ProcessMessages takes the first message.
LEMMA ProcessKeeps ==
    ASSUME NEW y \in EndType, Taking(y), HasMessage(y)
    PROVE  /\ Processed(y) \in EndType /\ Taking(Processed(y))
           /\ Expected(Processed(y)) = Expected(y) /\ SameSender(Processed(y), y)
<1> DEFINE msgs == y.vRecvMsg
           m == Head(msgs)
           n == Len(y.processed)
           g == m.hdrbuf \o m.vRecv
           d == Append(y.processed, g)
           rest == Tail(msgs)
           x == Processed(y)
<1>1. /\ msgs \in Seq(Part) /\ y.processed \in Seq(Seq(Unit)) /\ n \in Nat
      /\ y.vSendMsg \in Seq(Seq(Unit)) /\ y.nSendOffset \in Nat /\ y.nSendSize \in Nat
      /\ y.sent \in Seq(Nat)
    BY DEF EndType
<1>2. msgs # <<>> /\ Complete(m)
    BY DEF HasMessage
<1>3. x = [vSendMsg |-> y.vSendMsg, nSendOffset |-> y.nSendOffset, nSendSize |-> y.nSendSize,
           vRecvMsg |-> rest, sent |-> y.sent, processed |-> d]
    BY ProcessedIs
<1>4. /\ Receiving(n, msgs) /\ \A i \in 1 .. n : IsMessage(y.processed[i], i)
    BY DEF Taking
<1> HIDE DEF m, x, rest, d, g
<1>5. Half(m, n + 1)
    <2>1. 1 \in 1 .. Len(msgs) /\ m = msgs[1]
        BY <1>1, <1>2 DEF m
    <2> QED
        BY <1>4, <2>1 DEF Receiving
<1>6. IsMessage(g, n + 1) /\ g \in Seq(Unit)
    BY <1>2, <1>5, WholeMessage DEF g
<1>7. /\ d \in Seq(Seq(Unit)) /\ Len(d) = n + 1 /\ d[n + 1] = g
      /\ \A i \in 1 .. n : d[i] = y.processed[i]
    <2>1. IsAppended(d, Seq(Unit), y.processed, g)
        BY <1>1, <1>6, Appended DEF d
    <2> QED
        BY <2>1 DEF IsAppended
<1>8. /\ Receiving(n + 1, rest) /\ Awaited(n + 1, rest) = Awaited(n, msgs)
    <2> HIDE DEF msgs, n
    <2> QED
        BY <1>1, <1>2, <1>4, TailReceives DEF rest, m
<1>9. \A i \in 1 .. n + 1 : IsMessage(d[i], i)
    <2> SUFFICES ASSUME NEW i \in 1 .. n + 1 PROVE IsMessage(d[i], i)
        OBVIOUS
    <2>1. CASE i = n + 1
        BY <1>6, <1>7, <2>1
    <2>2. CASE i # n + 1
        <3>1. i \in 1 .. n
            BY <1>1, <2>2
        <3> QED
            BY <1>4, <1>7, <3>1
    <2> QED
        BY <2>1, <2>2
<1>10. /\ x.vSendMsg = y.vSendMsg /\ x.nSendOffset = y.nSendOffset /\ x.nSendSize = y.nSendSize
       /\ x.vRecvMsg = rest /\ x.sent = y.sent /\ x.processed = d
    BY <1>3
<1>11. rest \in Seq(Part)
    BY <1>8 DEF Receiving
<1>12. x \in EndType
    BY <1>1, <1>3, <1>7, <1>11 DEF EndType
<1>13. Taking(x) /\ Expected(x) = Expected(y)
    BY <1>7, <1>8, <1>9, <1>10 DEF Taking, Expected
<1> QED
    BY <1>10, <1>12, <1>13 DEF SameSender, x

-----------------------------------------------------------------------------
\* The connection

EndInv(x) == x \in EndType /\ Sending(x) /\ Taking(x)

\* What is under way from x leads from what y waits for to what x sends next.
Streaming(x, way, y) ==
    way \in Seq(Unit) /\ Len(way) <= Capacity /\ Run(way, Expected(y), Upcoming(x))

\* The inductive invariant: neither end's lists alone determine what may arrive, only the
\* unbroken row of units from one end to the other does.
WireInv ==
    /\ ends \in [Ends -> EndType] /\ link \in [Ends -> Seq(Unit)]
    /\ \A e \in Ends : EndInv(ends[e]) /\ Streaming(ends[e], link[e], ends[Other(e)])

Turns(e, z) == ends' = [ends EXCEPT ![e] = z]

Carries(e, way) == link' = [link EXCEPT ![e] = way]

LEMMA OtherIs ==
    ASSUME NEW e \in Ends
    PROVE  /\ Other(e) \in Ends /\ Other(e) # e /\ Other(Other(e)) = e
           /\ \A o \in Ends : o = e \/ o = Other(e)
BY DEF Ends, Other

\* One end's record and the link from an end change.
LEMMA InvKept ==
    ASSUME WireInv, NEW e \in Ends, NEW o \in Ends, NEW z, NEW way, EndInv(z),
           Turns(e, z), Carries(o, way),
           o = e => Streaming(z, way, ends[Other(e)])
                    /\ Streaming(ends[Other(e)], link[Other(e)], z),
           o # e => Streaming(z, link[e], ends[o]) /\ Streaming(ends[o], way, z)
    PROVE  WireInv'
<1> DEFINE f == Other(e)
<1>1. f \in Ends /\ f # e /\ Other(f) = e /\ (\A i \in Ends : i = e \/ i = f)
    BY OtherIs
<1>2. /\ ends \in [Ends -> EndType] /\ link \in [Ends -> Seq(Unit)]
      /\ \A i \in Ends : EndInv(ends[i])
    BY DEF WireInv
<1>3. ends' \in [Ends -> EndType] /\ ends'[e] = z /\ ends'[f] = ends[f]
    BY <1>1, <1>2 DEF Turns, EndInv
<1>4. way \in Seq(Unit)
    BY DEF Streaming
<1>5. /\ link' \in [Ends -> Seq(Unit)] /\ link'[o] = way
      /\ \A i \in Ends : i # o => link'[i] = link[i]
    BY <1>2, <1>4 DEF Carries
<1> HIDE DEF f
<1>6. Streaming(z, link'[e], ends[f]) /\ Streaming(ends[f], link'[f], z)
    <2>1. CASE o = e
        BY <1>1, <1>5, <2>1 DEF f
    <2>2. CASE o # e
        <3>1. o = f
            BY <1>1, <2>2
        <3> QED
            BY <1>1, <1>5, <2>2, <3>1
    <2> QED
        BY <2>1, <2>2
<1>7. ASSUME NEW i \in Ends
      PROVE  EndInv(ends'[i]) /\ Streaming(ends'[i], link'[i], ends'[Other(i)])
    <2>1. CASE i = e
        BY <1>3, <1>6, <2>1 DEF f
    <2>2. CASE i = f
        BY <1>1, <1>2, <1>3, <1>6, <2>2
    <2> QED
        BY <1>1, <2>1, <2>2
<1>8. WireInv' = (/\ ends' \in [Ends -> EndType] /\ link' \in [Ends -> Seq(Unit)]
                  /\ \A i \in Ends : EndInv(ends'[i])
                                     /\ Streaming(ends'[i], link'[i], ends'[Other(i)]))
    BY DEF WireInv, EndInv, Streaming
<1> QED
    BY <1>3, <1>5, <1>7, <1>8

\* An end sends.
LEMMA SendStep ==
    ASSUME WireInv, NEW e \in Ends, NEW y \in EndType, Sending(y), y.vSendMsg # <<>>,
           Taking(y), Expected(y) = Expected(ends[e]), Upcoming(y) = Upcoming(ends[e]),
           NEW n \in Nat, y.nSendOffset + n <= TotalLength(y.vSendMsg),
           n <= Capacity - Len(link[e]),
           Turns(e, SocketSendData(y, n)), Carries(e, link[e] \o UnitsSent(y, n))
    PROVE  WireInv'
<1> DEFINE z == SocketSendData(y, n)
           units == UnitsSent(y, n)
           way == link[e] \o units
           f == Other(e)
<1>1. /\ z \in EndType /\ Sending(z) /\ SameReceiver(z, y)
      /\ units \in Seq(Unit) /\ Len(units) = n /\ Run(units, Upcoming(y), Upcoming(z))
    BY SendKeeps DEF SameReceiver
<1> HIDE DEF z, units, f
<1>2. Taking(z) /\ Expected(z) = Expected(ends[e])
    BY <1>1, SameTakes
<1>3. /\ f \in Ends /\ Other(f) = e /\ f = Other(e)
      /\ Streaming(ends[e], link[e], ends[f]) /\ Streaming(ends[f], link[f], ends[e])
    BY OtherIs DEF WireInv, f
<1>4. /\ link[e] \in Seq(Unit) /\ Len(link[e]) <= Capacity
      /\ Run(link[e], Expected(ends[f]), Upcoming(ends[e]))
    BY <1>3 DEF Streaming
<1>5. way \in Seq(Unit) /\ Len(way) = Len(link[e]) + n
    <2>1. IsJoin(way, Unit, link[e], units)
        BY <1>1, <1>4, Joined
    <2> HIDE DEF way
    <2> QED
        BY <1>1, <2>1 DEF IsJoin
<1>6. Run(way, Expected(ends[f]), Upcoming(z))
    <2>1. Run(units, Upcoming(ends[e]), Upcoming(z))
        BY <1>1
    <2> QED
        BY <1>1, <1>4, <2>1, RunJoin
<1>7. Len(way) <= Capacity
    <2>1. Len(link[e]) \in Nat /\ Capacity \in Nat
        BY <1>4, WireAssumption DEF WireAssumption
    <2> HIDE DEF way
    <2> QED
        BY <1>5, <2>1
<1>8. Turns(e, z) /\ Carries(e, way)
    BY DEF z, units
<1> HIDE DEF way
<1>9. Streaming(z, way, ends[f])
    BY <1>5, <1>6, <1>7 DEF Streaming
<1>10. Streaming(ends[f], link[f], z)
    BY <1>2, <1>3 DEF Streaming
<1>11. EndInv(z)
    BY <1>1, <1>2 DEF EndInv
<1> QED
    BY <1>3, <1>8, <1>9, <1>10, <1>11, InvKept

\* How much is free on the link.
LEMMA FreeIs ==
    ASSUME WireInv, NEW e \in Ends
    PROVE  Capacity - Len(link[e]) \in Nat
<1>1. Streaming(ends[e], link[e], ends[Other(e)])
    BY DEF WireInv
<1>2. link[e] \in Seq(Unit) /\ Len(link[e]) <= Capacity
    BY <1>1 DEF Streaming
<1>3. Len(link[e]) \in Nat /\ Capacity \in Nat
    BY <1>2, WireAssumption DEF WireAssumption
<1> QED
    BY <1>2, <1>3

LEMMA PushStep ==
    ASSUME WireInv, NEW e \in Ends, NEW x \in EndType, Sending(x), Taking(x),
           Expected(x) = Expected(ends[e]), Upcoming(x) = Upcoming(ends[e]),
           NEW size \in Payloads, Push(e, x, size)
    PROVE  WireInv'
<1> DEFINE y == Queue(x, Message(Len(x.sent) + 1, size))
           free == Capacity - Len(link[e])
           n == IF x.vSendMsg = <<>> THEN Sendable(y, free) ELSE 0
<1>1. /\ y \in EndType /\ Sending(y) /\ y.vSendMsg # <<>> /\ Upcoming(y) = Upcoming(x)
      /\ SameReceiver(y, x)
    BY QueueKeeps DEF SameReceiver
<1>2. Turns(e, SocketSendData(y, n)) /\ Carries(e, link[e] \o UnitsSent(y, n))
    <2>1. /\ ends' = [ends EXCEPT ![e] = SocketSendData(y, n)]
          /\ link' = [link EXCEPT ![e] = link[e] \o UnitsSent(y, n)]
        BY Zenon DEF Push
    <2> QED
        BY <2>1, Zenon DEF Turns, Carries
<1> HIDE DEF y
<1>3. free \in Nat
    BY FreeIs
<1> HIDE DEF free
<1>4. n \in Nat /\ n <= free /\ y.nSendOffset + n <= TotalLength(y.vSendMsg)
    <2>1. CASE x.vSendMsg = <<>>
        <3>1. n = Sendable(y, free)
            BY <2>1
        <3> QED
            BY <1>1, <1>3, <3>1, SendableIs
    <2>2. CASE x.vSendMsg # <<>>
        <3>1. n = 0
            BY <2>2
        <3>2. y.nSendOffset \in Nat /\ y.nSendOffset <= TotalLength(y.vSendMsg)
            BY <1>1, OffsetFits DEF EndType
        <3>3. y.nSendOffset + 0 = y.nSendOffset
            BY <3>2
        <3> QED
            BY <1>3, <3>1, <3>2, <3>3
    <2> QED
        BY <2>1, <2>2
<1> HIDE DEF n
<1>5. Taking(y) /\ Expected(y) = Expected(x)
    BY <1>1, SameTakes
<1>6. n <= Capacity - Len(link[e])
    BY <1>4 DEF free
<1>7. Expected(y) = Expected(ends[e]) /\ Upcoming(y) = Upcoming(ends[e])
    BY <1>1, <1>5
<1> QED
    BY <1>1, <1>2, <1>4, <1>5, <1>6, <1>7, SendStep

\* An end takes the first n units of what is under way to it.
Received(y, units) == [y EXCEPT !.vRecvMsg = ReceiveMsgBytes(@, units)]

LEMMA ReceivedEnd ==
    ASSUME NEW y \in EndType, NEW units
    PROVE  /\ Received(y, units).vRecvMsg = ReceiveMsgBytes(y.vRecvMsg, units)
           /\ Received(y, units).processed = y.processed
           /\ SameSender(Received(y, units), y)
           /\ ReceiveMsgBytes(y.vRecvMsg, units) \in Seq(Part) => Received(y, units) \in EndType
<1> DEFINE v == ReceiveMsgBytes(y.vRecvMsg, units)
           c == [y EXCEPT !.vRecvMsg = v]
<1>1. Received(y, units) = c
    BY Zenon DEF Received
<1> HIDE DEF v
<1>2. /\ c.vRecvMsg = v /\ c.processed = y.processed /\ c.vSendMsg = y.vSendMsg
      /\ c.nSendOffset = y.nSendOffset /\ c.nSendSize = y.nSendSize /\ c.sent = y.sent
      /\ v \in Seq(Part) => c \in EndType
    BY DEF EndType
<1> QED
    BY <1>1, <1>2 DEF SameSender, v

LEMMA RecvStep ==
    ASSUME WireInv, NEW e \in Ends, NEW n \in 1 .. Len(link[Other(e)]),
           Turns(e, Received(ends[e], SubSeq(link[Other(e)], 1, n))),
           Carries(Other(e), RestOf(link[Other(e)], n))
    PROVE  WireInv'
<1> DEFINE f == Other(e)
           from == link[f]
           y == ends[e]
           units == SubSeq(from, 1, n)
           rest == RestOf(from, n)
           z == Received(y, units)
           k == Len(y.processed)
<1>1. /\ f \in Ends /\ f # e /\ y \in EndType /\ EndInv(y)
      /\ Streaming(y, link[e], ends[f]) /\ Streaming(ends[f], from, y)
    BY OtherIs DEF WireInv, EndInv
<1>2. /\ y \in EndType /\ Sending(y) /\ k \in Nat
      /\ \A i \in 1 .. k : IsMessage(y.processed[i], i)
      /\ Waits(k, y.vRecvMsg, Expected(y))
    BY <1>1 DEF EndInv, EndType, Taking, Waits, Expected
<1>3. from \in Seq(Unit) /\ Len(from) <= Capacity /\ Run(from, Expected(y), Upcoming(ends[f]))
    BY <1>1 DEF Streaming
<1>4. n \in 1 .. Len(from) /\ n \in 0 .. Len(from) /\ Len(from) \in Nat /\ Capacity \in Nat
    BY <1>3, WireAssumption DEF WireAssumption
<1>5. Turns(e, z) /\ Carries(f, rest)
    OBVIOUS
<1>6. /\ Run(units, Expected(y), After(from[n])) /\ Run(rest, After(from[n]), Upcoming(ends[f]))
      /\ units \in Seq(Unit) /\ rest \in Seq(Unit) /\ Len(rest) <= Capacity
    <2> HIDE DEF from
    <2>1. /\ Run(units, Expected(y), After(from[n]))
          /\ Run(rest, After(from[n]), Upcoming(ends[f]))
        BY <1>3, <1>4, RunSplit DEF RestOf
    <2>2. units \in Seq(Unit) /\ rest \in Seq(Unit) /\ Len(rest) = Len(from) - n
        BY <1>3, <1>4, FirstIs, RestIs
    <2> HIDE DEF units, rest
    <2> QED
        BY <1>3, <1>4, <2>1, <2>2
<1> HIDE DEF from, units, rest, f, y, z, k
<1>7. Waits(k, ReceiveMsgBytes(y.vRecvMsg, units), After(from[n]))
    BY <1>2, <1>6, ReceiveKeeps
<1>8. /\ z.vRecvMsg = ReceiveMsgBytes(y.vRecvMsg, units) /\ z.processed = y.processed
      /\ SameSender(z, y) /\ (ReceiveMsgBytes(y.vRecvMsg, units) \in Seq(Part) => z \in EndType)
    BY <1>2, ReceivedEnd DEF z
<1>9. z \in EndType
    BY <1>7, <1>8 DEF Waits, Receiving
<1>10. Taking(z) /\ Expected(z) = After(from[n])
    BY <1>2, <1>7, <1>8 DEF Taking, Expected, Waits, k
<1>11. Sending(z) /\ Upcoming(z) = Upcoming(y)
    BY <1>2, <1>8, SameSends
<1>12. EndInv(z)
    BY <1>9, <1>10, <1>11 DEF EndInv
<1>13. Streaming(z, link[e], ends[f]) /\ Streaming(ends[f], rest, z)
    BY <1>1, <1>6, <1>10, <1>11 DEF Streaming
<1> QED
    BY <1>1, <1>5, <1>12, <1>13, InvKept DEF f

-----------------------------------------------------------------------------
\* Every step keeps the invariant.

LEMMA InitInv == Init => WireInv
<1> SUFFICES ASSUME Init PROVE WireInv
    OBVIOUS
<1> DEFINE none == <<>>
<1>1. ends = [e \in Ends |-> NewEnd] /\ link = [e \in Ends |-> none]
    BY DEF Init
<1>2. \A U : none \in Seq(U)
    OBVIOUS
<1>3. Len(none) = 0
    OBVIOUS
<1>4. /\ NewEnd.vSendMsg = none /\ NewEnd.nSendOffset = 0 /\ NewEnd.nSendSize = 0
      /\ NewEnd.vRecvMsg = none /\ NewEnd.sent = none /\ NewEnd.processed = none
    BY DEF NewEnd
<1>5. NewEnd \in EndType
    BY <1>2 DEF NewEnd, EndType
<1>6. TotalLength(none) = 0
    <2>1. PICK t : IsTotal(t, none) /\ TotalLength(none) = t[Len(none)]
        BY <1>2, TotalExists
    <2> QED
        BY <1>3, <2>1 DEF IsTotal
<1> HIDE DEF none
<1>7. Gone(NewEnd) = 0
    BY <1>3, <1>4 DEF Gone
<1>8. Sending(NewEnd) /\ Upcoming(NewEnd) = Start(1)
    <2>1. \A i \in 1 .. Len(none) : FALSE
        BY <1>3
    <2>2. Sending(NewEnd)
        BY <1>4, <1>6, <1>7, <2>1 DEF Sending, none
    <2> QED
        BY <1>4, <1>7, <2>2 DEF Upcoming
<1>9. Taking(NewEnd) /\ Expected(NewEnd) = Start(1)
    <2>1. (\A i \in 1 .. Len(none) : FALSE) /\ (\A i \in 1 .. Len(none) - 1 : FALSE)
        BY <1>3
    <2>2. Receiving(0, none)
        BY <1>2, <2>1 DEF Receiving
    <2>3. Taking(NewEnd)
        BY <1>3, <1>4, <2>1, <2>2 DEF Taking
    <2>4. Awaited(0, none) = Start(1)
        BY DEF Awaited, none
    <2> QED
        BY <1>3, <1>4, <2>3, <2>4 DEF Expected
<1>10. EndInv(NewEnd)
    BY <1>5, <1>8, <1>9 DEF EndInv
<1>11. Streaming(NewEnd, none, NewEnd)
    <2>1. Run(none, Start(1), Start(1))
        BY <1>3 DEF Run
    <2>2. 0 <= Capacity
        BY WireAssumption DEF WireAssumption
    <2> QED
        BY <1>2, <1>3, <1>8, <1>9, <2>1, <2>2 DEF Streaming
<1>12. \A e \in Ends : ends[e] = NewEnd /\ link[e] = none /\ ends[Other(e)] = NewEnd
    BY <1>1, OtherIs
<1>13. ends \in [Ends -> EndType] /\ link \in [Ends -> Seq(Unit)]
    BY <1>1, <1>2, <1>5
<1> QED
    BY <1>10, <1>11, <1>12, <1>13 DEF WireInv

LEMMA EndIs ==
    ASSUME WireInv, NEW e \in Ends
    PROVE  ends[e] \in EndType /\ Sending(ends[e]) /\ Taking(ends[e])
BY DEF WireInv, EndInv

LEMMA NextInv == WireInv /\ [Next]_vars => WireInv'
<1> SUFFICES ASSUME WireInv, [Next]_vars PROVE WireInv'
    OBVIOUS
<1>1. ASSUME NEW e \in Ends, PushMessage(e) PROVE WireInv'
    <2>1. PICK size \in Payloads : Push(e, ends[e], size)
        BY <1>1 DEF PushMessage
    <2> QED
        BY <2>1, EndIs, PushStep
<1>2. ASSUME NEW e \in Ends, ServiceSend(e) PROVE WireInv'
    <2> DEFINE y == ends[e]
               free == Capacity - Len(link[e])
               n == Sendable(y, free)
    <2>1. y \in EndType /\ Sending(y) /\ Taking(y) /\ y.vSendMsg # <<>> /\ free \in Nat
        BY <1>2, EndIs, FreeIs DEF ServiceSend, SelectsSend
    <2>2. Turns(e, SocketSendData(y, n)) /\ Carries(e, link[e] \o UnitsSent(y, n))
        BY <1>2, Zenon DEF ServiceSend, Turns, Carries
    <2> HIDE DEF y, free
    <2>3. n \in Nat /\ n <= free /\ y.nSendOffset + n <= TotalLength(y.vSendMsg)
        BY <2>1, SendableIs
    <2>4. n <= Capacity - Len(link[e])
        BY <2>3 DEF free
    <2>5. Expected(y) = Expected(ends[e]) /\ Upcoming(y) = Upcoming(ends[e])
        BY DEF y
    <2> HIDE DEF n
    <2> QED
        BY <2>1, <2>2, <2>3, <2>4, <2>5, SendStep
<1>3. ASSUME NEW e \in Ends, ServiceRecv(e) PROVE WireInv'
    <2> DEFINE f == Other(e)
    <2>1. PICK n \in 1 .. Len(link[f]) :
            /\ ends' = [ends EXCEPT ![e].vRecvMsg = ReceiveMsgBytes(@, SubSeq(link[f], 1, n))]
            /\ link' = [link EXCEPT ![f] = SubSeq(@, n + 1, Len(@))]
        BY <1>3, Zenon DEF ServiceRecv
    <2>2. Turns(e, Received(ends[e], SubSeq(link[f], 1, n)))
        BY <2>1, Zenon DEF Turns, Received
    <2>3. Carries(f, RestOf(link[f], n))
        BY <2>1, Zenon DEF Carries, RestOf
    <2> QED
        BY <2>2, <2>3, RecvStep
<1>4. ASSUME NEW e \in Ends, ProcessMessages(e) PROVE WireInv'
    <2> DEFINE y == ends[e]
               x == Processed(y)
    <2>1. y \in EndType /\ Sending(y) /\ Taking(y) /\ HasMessage(y)
        BY <1>4, EndIs DEF ProcessMessages, MayProcess
    <2>2. /\ x \in EndType /\ Taking(x) /\ Expected(x) = Expected(y)
          /\ Sending(x) /\ Upcoming(x) = Upcoming(y)
        <3> HIDE DEF y
        <3> QED
            BY <2>1, ProcessKeeps, SameSends
    <2>3. CASE Turns(e, x) /\ link' = link
        <3> DEFINE f == Other(e)
        <3>1. /\ Streaming(y, link[e], ends[f]) /\ Streaming(ends[f], link[f], y)
            BY OtherIs DEF WireInv
        <3> HIDE DEF y, x, f
        <3>2. Streaming(x, link[e], ends[f]) /\ Streaming(ends[f], link[f], x) /\ EndInv(x)
            BY <2>2, <3>1 DEF Streaming, EndInv
        <3>3. Carries(e, link[e])
            BY <2>3 DEF WireInv, Carries
        <3> QED
            BY <2>3, <3>2, <3>3, InvKept DEF f
    <2>4. CASE \E size \in Payloads : Push(e, x, size)
        <3>1. PICK size \in Payloads : Push(e, x, size)
            BY <2>4
        <3> HIDE DEF x
        <3> QED
            BY <2>2, <3>1, PushStep
    <2> QED
        BY <1>4, <2>3, <2>4, Zenon DEF ProcessMessages, Turns
<1>5. ASSUME UNCHANGED <<ends, link>> PROVE WireInv'
    BY <1>5 DEF WireInv, EndInv, Streaming
<1> QED
    BY <1>1, <1>2, <1>3, <1>4, <1>5 DEF Next, TimesOut, Quiet, vars

THEOREM WireInvHolds == Spec => []WireInv
    BY InitInv, NextInv, PTL DEF Spec

-----------------------------------------------------------------------------
\* What the invariant says

LEMMA ExpectedIs ==
    ASSUME NEW y \in EndType, Taking(y)
    PROVE  Expected(y).id \in Nat /\ Len(y.processed) + 1 <= Expected(y).id
<1> DEFINE n == Len(y.processed)
           msgs == y.vRecvMsg
           L == Len(msgs)
           m == Last(msgs)
<1>1. n \in Nat /\ msgs \in Seq(Part) /\ L \in Nat
    BY DEF EndType
<1>2. CASE msgs = <<>>
    BY <1>1, <1>2 DEF Expected, Awaited, Start
<1>3. CASE msgs # <<>>
    <2>1. L # 0
        BY <1>1, <1>3
    <2>2. Expected(y).id \in {n + L, (n + L) + 1}
        BY <1>3 DEF Expected, Awaited, Onward, Start, Place
    <2> HIDE DEF n, L
    <2> QED
        BY <1>1, <2>1, <2>2 DEF n
<1> QED
    BY <1>2, <1>3

LEMMA UpcomingIs ==
    ASSUME NEW x \in EndType, Sending(x)
    PROVE  Upcoming(x).id \in Nat /\ Upcoming(x).id <= Len(x.sent) + 1
<1>1. Len(x.sent) \in Nat /\ Len(x.vSendMsg) \in Nat
    BY DEF EndType
<1>2. Gone(x) \in Nat /\ Gone(x) = Len(x.sent) - Len(x.vSendMsg)
    BY DEF Sending, Gone
<1>3. Upcoming(x).id = Gone(x) + 1
    BY DEF Upcoming, Start, Place
<1> DEFINE a == Len(x.sent)
           b == Len(x.vSendMsg)
           c == Upcoming(x).id
           d == Gone(x)
<1> HIDE DEF a, b, c, d
<1>4. a \in Nat /\ b \in Nat /\ d \in Nat /\ d = a - b /\ c = d + 1
    BY <1>1, <1>2, <1>3 DEF a, b, c, d
<1>5. c \in Nat /\ c <= a + 1
    BY <1>4
<1> QED
    BY <1>5 DEF a, c

(***************************************************************************)
(* For every size of messages and buffers, and wherever the kernel cuts    *)
(* the stream: what ProcessMessages took are the first messages the other  *)
(* end sent, each whole and in its place (SocketSendData's offset,         *)
(* CNetMessage::readHeader and readData).                                  *)
(***************************************************************************)
THEOREM MessagesComeThrough == Spec => []MessagesArriveWhole
<1>1. WireInv => MessagesArriveWhole
    <2> SUFFICES ASSUME WireInv, NEW e \in Ends
                 PROVE  /\ Len(ends[e].processed) <= Len(ends[Other(e)].sent)
                        /\ \A i \in 1 .. Len(ends[e].processed) :
                             ends[e].processed[i] = Message(i, ends[e].processed[i][1].size)
        BY DEF MessagesArriveWhole
    <2> DEFINE y == ends[e]
               x == ends[Other(e)]
               way == link[Other(e)]
    <2>1. /\ Other(e) \in Ends /\ y \in EndType /\ Taking(y) /\ x \in EndType /\ Sending(x)
          /\ Streaming(x, way, y)
        BY OtherIs, EndIs DEF WireInv
    <2> HIDE DEF x, y, way
    <2>2. way \in Seq(Unit) /\ Run(way, Expected(y), Upcoming(x))
        BY <2>1 DEF Streaming
    <2>3. Expected(y).id \in Nat /\ Len(y.processed) + 1 <= Expected(y).id
        BY <2>1, ExpectedIs
    <2>4. Upcoming(x).id \in Nat /\ Upcoming(x).id <= Len(x.sent) + 1
        BY <2>1, UpcomingIs
    <2>5. Expected(y).id <= Upcoming(x).id
        BY <2>2, <2>3, RunIds
    <2>6. Len(y.processed) \in Nat /\ Len(x.sent) \in Nat
        BY <2>1 DEF EndType
    <2>7. Len(y.processed) <= Len(x.sent)
        <3> DEFINE a == Len(y.processed)
                   b == Expected(y).id
                   c == Upcoming(x).id
                   d == Len(x.sent)
        <3> HIDE DEF a, b, c, d
        <3>1. a \in Nat /\ b \in Nat /\ c \in Nat /\ d \in Nat /\ a + 1 <= b /\ b <= c /\ c <= d + 1
            BY <2>3, <2>4, <2>5, <2>6 DEF a, b, c, d
        <3>2. a <= d
            BY <3>1
        <3> QED
            BY <3>2 DEF a, d
    <2>8. \A i \in 1 .. Len(y.processed) :
            y.processed[i] = Message(i, y.processed[i][1].size)
        BY <2>1 DEF Taking, IsMessage
    <2> QED
        BY <2>7, <2>8 DEF x, y
<1> QED
    BY <1>1, WireInvHolds, PTL

(***************************************************************************)
(* SocketSendData's assertions never fail: nSendSize is the size of what   *)
(* vSendMsg holds and nSendOffset lies in its first message, however often *)
(* the kernel takes a part of a message, or the end of one and the         *)
(* beginning of the next.                                                  *)
(***************************************************************************)
THEOREM SendBufferIsRight == Spec => []SendBufferAccounted
<1>1. WireInv => SendBufferAccounted
    BY EndIs DEF SendBufferAccounted, Sending
<1> QED
    BY <1>1, WireInvHolds, PTL
===============================================================================
