---------------------------- MODULE MemPool_proofs ----------------------------
(***************************************************************************)
(* Theorems about MemPool, for every tree of blocks, every set of          *)
(* transactions and every limit.                                           *)
(***************************************************************************)
EXTENDS MemPool, Coins_proofs

-----------------------------------------------------------------------------
\* The loop that puts sequences together.
LEMMA FlattenLoop ==
    ASSUME NEW X, NEW q \in Seq(Seq(X)), Len(q) # 0
    PROVE  \E f : /\ FlattenSeq(q) = f[Len(q)]
                  /\ \A i \in 1 .. Len(q) : f[i] = IF i = 1 THEN q[i] ELSE f[i - 1] \o q[i]
<1> DEFINE n == Len(q)
           P == Seq(X)
           op(r, i) == IF i = 1 THEN q[i] ELSE r \o q[i]
           F == [a \in P \X (1 .. n) |-> op(a[1], a[2])]
           Body(g) == g = [i \in 1 .. n |-> IF i = 1 THEN q[i] ELSE g[i - 1] \o q[i]]
           flatten == CHOOSE g : Body(g)
<1>1. n \in Nat /\ n # 0 /\ \A i \in 1 .. n : q[i] \in P
    OBVIOUS
<1>2. FlattenSeq(q) = flatten[n]
    BY <1>1 DEF FlattenSeq
<1> HIDE DEF n
<1>3. F \in [P \X (1 .. n) -> P]
    <2>1. ASSUME NEW r \in P, NEW i \in 1 .. n PROVE op(r, i) \in P
        BY <1>1
    <2> HIDE DEF P, op
    <2> QED
        BY <2>1
<1>4. <<>> \in P
    OBVIOUS
<1>5. Body(flatten)
    <2>1. PICK h \in [0 .. n -> P] : Runs(h, n, <<>>, F)
        <3> DEFINE start == <<>>
        <3>1. start \in P
            BY <1>4
        <3> HIDE DEF start, P, F, flatten, Body
        <3>2. \E h \in [0 .. n -> P] : Runs(h, n, start, F)
            BY <1>1, <1>3, <3>1, LoopExists
        <3> QED
            BY <3>2 DEF start
    <2> DEFINE g == [i \in 1 .. n |-> h[i]]
    <2>2. ASSUME NEW i \in 1 .. n
          PROVE  g[i] = IF i = 1 THEN q[i] ELSE g[i - 1] \o q[i]
        <3>1. h[i] = op(h[i - 1], i)
            <4>1. i - 1 \in 0 .. n
                BY <1>1
            <4>2. h[i] = F[<<h[i - 1], i>>] /\ h[i - 1] \in P
                BY <2>1, <4>1 DEF Runs
            <4> HIDE DEF P, op
            <4> QED
                BY <4>2
        <3>2. i # 1 => i - 1 \in 1 .. n
            BY <1>1
        <3> QED
            BY <3>1, <3>2
    <2>3. Body(g)
        BY <2>2
    <2> HIDE DEF Body
    <2> QED
        BY <2>3
<1>6. ASSUME NEW i \in 1 .. n PROVE flatten[i] = IF i = 1 THEN q[i] ELSE flatten[i - 1] \o q[i]
    <2> HIDE DEF flatten
    <2> QED
        BY <1>5
<1> HIDE DEF flatten
<1> QED
    BY <1>2, <1>6 DEF n

\* Two sequences of X, one after the other.
LEMMA ToSetOfBoth ==
    ASSUME NEW X, NEW r \in Seq(X), NEW e \in Seq(X)
    PROVE  r \o e \in Seq(X) /\ ToSet(r \o e) = ToSet(r) \cup ToSet(e)
<1> DEFINE both == r \o e
           m == Len(r)
           n == Len(e)
<1>1. /\ both \in Seq(X) /\ Len(both) = m + n /\ m \in Nat /\ n \in Nat
      /\ \A i \in 1 .. m + n : both[i] = IF i <= m THEN r[i] ELSE e[i - m]
    OBVIOUS
<1>2. DOMAIN both = 1 .. m + n /\ DOMAIN r = 1 .. m /\ DOMAIN e = 1 .. n
    BY <1>1
<1> HIDE DEF both, m, n
<1>3. ASSUME NEW i \in 1 .. m + n PROVE both[i] \in ToSet(r) \cup ToSet(e)
    <2>1. (i <= m /\ i \in 1 .. m) \/ (~(i <= m) /\ i - m \in 1 .. n)
        BY <1>1
    <2>2. CASE i <= m /\ i \in 1 .. m
        <3>1. both[i] = r[i]
            BY <1>1, <2>2
        <3> QED
            BY <1>2, <2>2, <3>1 DEF ToSet
    <2>3. CASE ~(i <= m) /\ i - m \in 1 .. n
        <3>1. both[i] = e[i - m]
            BY <1>1, <2>3
        <3> QED
            BY <1>2, <2>3, <3>1 DEF ToSet
    <2> QED
        BY <2>1, <2>2, <2>3
<1>4. ASSUME NEW i \in 1 .. m PROVE r[i] \in ToSet(both)
    <2>1. i \in 1 .. m + n /\ i <= m
        BY <1>1
    <2> QED
        BY <1>1, <1>2, <2>1 DEF ToSet
<1>5. ASSUME NEW i \in 1 .. n PROVE e[i] \in ToSet(both)
    <2>1. i + m \in 1 .. m + n /\ ~(i + m <= m) /\ (i + m) - m = i
        BY <1>1
    <2> QED
        BY <1>1, <1>2, <2>1 DEF ToSet
<1>6. ToSet(both) = ToSet(r) \cup ToSet(e)
    BY <1>2, <1>3, <1>4, <1>5 DEF ToSet
<1> QED
    BY <1>1, <1>6 DEF both

\* Sequences of X put together are a sequence of X, of their elements.
LEMMA FlattenIs ==
    ASSUME NEW X, NEW q \in Seq(Seq(X))
    PROVE  /\ FlattenSeq(q) \in Seq(X)
           /\ \A x : x \in ToSet(FlattenSeq(q)) <=> \E i \in 1 .. Len(q) : x \in ToSet(q[i])
<1> DEFINE n == Len(q)
           P == Seq(X)
           Has(r, k) == \A x : x \in ToSet(r) <=> \E i \in 1 .. k : x \in ToSet(q[i])
<1>1. n \in Nat /\ \A i \in 1 .. n : q[i] \in P
    OBVIOUS
<1>2. CASE n = 0
    <2>1. FlattenSeq(q) = <<>>
        BY <1>2 DEF FlattenSeq
    <2>2. <<>> \in P /\ ToSet(<<>>) = {} /\ 1 .. 0 = {}
        BY DEF ToSet
    <2> QED
        BY <1>2, <2>1, <2>2
<1>3. CASE n # 0
    <2>1. PICK f : /\ FlattenSeq(q) = f[n]
                   /\ \A i \in 1 .. n : f[i] = IF i = 1 THEN q[i] ELSE f[i - 1] \o q[i]
        BY <1>3, FlattenLoop
    <2> DEFINE T == {i \in 0 .. n : i # 0 => f[i] \in P /\ Has(f[i], i)}
    <2> HIDE DEF n
    <2>2. 0 \in T
        BY <1>1
    <2>3. ASSUME NEW k \in 0 .. n, k \in T, k < n PROVE k + 1 \in T
        <3>1. /\ k + 1 \in 1 .. n /\ (k + 1) - 1 = k /\ (k + 1 = 1 <=> k = 0)
              /\ k + 1 \in 0 .. n /\ \A i : i \in 1 .. k + 1 <=> i \in 1 .. k \/ i = k + 1
            BY <1>1, <2>3
        <3>2. f[k + 1] = IF k = 0 THEN q[k + 1] ELSE f[k] \o q[k + 1]
            BY <2>1, <3>1
        <3>3. q[k + 1] \in P
            BY <1>1, <3>1
        <3>4. CASE k = 0
            <4>1. f[1] = q[1] /\ f[1] \in P
                BY <3>2, <3>3, <3>4
            <4>2. \A i : i \in 1 .. 1 <=> i = 1
                OBVIOUS
            <4>3. Has(f[1], 1)
                BY <4>1, <4>2
            <4> HIDE DEF Has
            <4> QED
                BY <3>1, <3>4, <4>1, <4>3
        <3>5. CASE k # 0
            <4>1. f[k] \in P /\ Has(f[k], k) /\ f[k + 1] = f[k] \o q[k + 1]
                BY <2>3, <3>2, <3>5
            <4> DEFINE r == f[k]
                       e == q[k + 1]
            <4>2. r \in P /\ e \in P
                BY <3>3, <4>1
            <4> HIDE DEF r, e
            <4>3. r \o e \in P /\ ToSet(r \o e) = ToSet(r) \cup ToSet(e)
                BY <4>2, ToSetOfBoth
            <4>4. f[k + 1] \in P /\ ToSet(f[k + 1]) = ToSet(f[k]) \cup ToSet(q[k + 1])
                BY <4>1, <4>3 DEF r, e
            <4>5. Has(f[k + 1], k + 1)
                BY <3>1, <4>1, <4>4
            <4> HIDE DEF Has
            <4> QED
                BY <3>1, <4>4, <4>5
        <3> QED
            BY <3>4, <3>5
    <2>4. 0 .. n \subseteq T
        <3> HIDE DEF T
        <3> QED
            BY <1>1, <2>2, <2>3, InductionTo
    <2>5. n \in 0 .. n
        BY <1>1
    <2> HIDE DEF Has
    <2>6. f[n] \in P /\ Has(f[n], n)
        BY <1>3, <2>4, <2>5
    <2> QED
        BY <2>1, <2>6 DEF Has, n
<1> QED
    BY <1>2, <1>3

\* DropAll goes through a sequence once.
LEMMA DropAllLoop ==
    ASSUME NEW X, NEW q \in Seq(X), NEW S
    PROVE  LoopEnds(Len(q), Seq(X), <<>>,
                    [a \in Seq(X) \X (1 .. Len(q)) |-> IF q[a[2]] \in S THEN a[1] ELSE Append(a[1], q[a[2]])],
                    DropAll(q, S))
<1>1. DropAll(q, S) = Dropped(q, S)
    BY DEF DropAll, Dropped, FoldLeft, MapThenFoldSet
<1> QED
    BY <1>1, DroppedLoop

-----------------------------------------------------------------------------
\* The transactions that wait for a parent

Prevs(t) == {in.hash : in \in ToSet(TxIn[t])}

\* The orphans T with their index, when the index has an entry for each member of D.
Book(T, D) == [txs |-> T, byPrev |-> [h \in D |-> {t \in T : h \in Prevs(t)}]]

\* At most n orphans, and an index that is exact.
IsBook(o, n) ==
    /\ o = Book(o.txs, DOMAIN o.byPrev)
    /\ o.txs \subseteq Txids /\ DOMAIN o.byPrev \subseteq Txids
    /\ \A t \in o.txs : Prevs(t) \subseteq DOMAIN o.byPrev
    /\ IsFiniteSet(o.txs) /\ Cardinality(o.txs) <= n

OrphanInv == IsBook(orphans, MaxOrphans)

LEMMA PrevsType ==
    ASSUME NEW t \in Txids
    PROVE  Prevs(t) \subseteq Txids
<1>1. TxIn[t] \in Seq([hash : Txids, n : Nat \ {0}])
    BY TransactionAssumption DEF TransactionAssumption
<1>2. ASSUME NEW i \in DOMAIN TxIn[t] PROVE TxIn[t][i].hash \in Txids
    <2> DEFINE S == [hash : Txids, n : Nat \ {0}]
               q == TxIn[t]
    <2>1. q[i] \in S
        <3>1. q \in Seq(S) /\ i \in DOMAIN q
            BY <1>1
        <3> HIDE DEF q, S
        <3> QED
            BY <3>1
    <2> QED
        BY <2>1
<1> QED
    BY <1>2 DEF Prevs, ToSet

LEMMA BookIs ==
    ASSUME NEW T, NEW D
    PROVE  /\ Book(T, D).txs = T /\ DOMAIN Book(T, D).byPrev = D
           /\ \A h \in D : Book(T, D).byPrev[h] = {t \in T : h \in Prevs(t)}
    BY DEF Book

\* AddOrphanTx enters a transaction under each of its parents.
LEMMA AddKeepsBook ==
    ASSUME NEW n \in Nat, NEW o, IsBook(o, n), NEW t \in Txids
    PROVE  IsBook(AddOrphanTx(o, t), n + 1)
<1> DEFINE T == o.txs
           D == DOMAIN o.byPrev
           set(h) == IF h \in D THEN o.byPrev[h] ELSE {}
<1>1. /\ T \subseteq Txids /\ D \subseteq Txids /\ IsFiniteSet(T) /\ Cardinality(T) <= n
      /\ \A u \in T : Prevs(u) \subseteq D
      /\ \A h \in D : o.byPrev[h] = {u \in T : h \in Prevs(u)}
    BY BookIs DEF IsBook
<1>2. Cardinality(T) \in Nat
    BY <1>1, FS_CardinalityType
<1>3. CASE t \in o.txs \/ t \in BigTxs
    BY <1>1, <1>2, <1>3 DEF AddOrphanTx, IsBook
<1>4. CASE t \notin o.txs /\ t \notin BigTxs
    <2> DEFINE a == [h \in D \cup Prevs(t) |-> IF h \in Prevs(t) THEN set(h) \cup {t} ELSE set(h)]
    <2>1. AddOrphanTx(o, t) = [txs |-> T \cup {t}, byPrev |-> a]
        BY <1>4 DEF AddOrphanTx, Prevs
    <2>2. ASSUME NEW h \in D \cup Prevs(t) PROVE a[h] = {u \in T \cup {t} : h \in Prevs(u)}
        <3>1. set(h) = {u \in T : h \in Prevs(u)}
            BY <1>1
        <3> HIDE DEF set, T, D
        <3> QED
            BY <3>1
    <2>3. [txs |-> T \cup {t}, byPrev |-> a] = Book(T \cup {t}, D \cup Prevs(t))
        <3>1. a = [h \in D \cup Prevs(t) |-> {u \in T \cup {t} : h \in Prevs(u)}]
            BY <2>2
        <3> HIDE DEF a, T, D
        <3> QED
            BY <3>1 DEF Book
    <2> HIDE DEF a, T, D
    <2>4. IsFiniteSet(T \cup {t}) /\ Cardinality(T \cup {t}) <= n + 1
        <3>1. t \notin T
            BY <1>4 DEF T
        <3> QED
            BY <1>1, <1>2, <3>1, FS_AddElement
    <2> QED
        BY <1>1, <2>1, <2>3, <2>4, PrevsType, BookIs DEF IsBook
<1> QED
    BY <1>3, <1>4

\* EraseOrphanTx removes it from each of these entries, and the entries it was alone in.
LEMMA EraseKeepsBook ==
    ASSUME NEW n \in Nat, NEW o, IsBook(o, n), NEW t \in Txids
    PROVE  /\ IsBook(EraseOrphanTx(o, t), n)
           /\ t \in o.txs => IsBook(EraseOrphanTx(o, t), n - 1)
<1> DEFINE T == o.txs
           D == DOMAIN o.byPrev
           emptied == {h \in Prevs(t) : o.byPrev[h] = {t}}
<1>1. /\ T \subseteq Txids /\ D \subseteq Txids /\ IsFiniteSet(T) /\ Cardinality(T) <= n
      /\ \A u \in T : Prevs(u) \subseteq D
      /\ \A h \in D : o.byPrev[h] = {u \in T : h \in Prevs(u)}
    BY BookIs DEF IsBook
<1>2. Cardinality(T) \in Nat
    BY <1>1, FS_CardinalityType
<1>3. CASE t \notin o.txs
    BY <1>3 DEF EraseOrphanTx
<1>4. CASE t \in o.txs
    <2> DEFINE a == [h \in D \ emptied |-> o.byPrev[h] \ {t}]
    <2>1. EraseOrphanTx(o, t) = [txs |-> T \ {t}, byPrev |-> a]
        BY <1>4 DEF EraseOrphanTx, Prevs
    <2>2. ASSUME NEW h \in D \ emptied PROVE a[h] = {u \in T \ {t} : h \in Prevs(u)}
        BY <1>1
    <2>3. [txs |-> T \ {t}, byPrev |-> a] = Book(T \ {t}, D \ emptied)
        <3>1. a = [h \in D \ emptied |-> {u \in T \ {t} : h \in Prevs(u)}]
            BY <2>2
        <3> HIDE DEF a, T, D, emptied
        <3> QED
            BY <3>1 DEF Book
    <2>4. ASSUME NEW u \in T \ {t} PROVE Prevs(u) \subseteq D \ emptied
        BY <1>1
    <2> HIDE DEF a, T, D, emptied
    <2>5. IsFiniteSet(T \ {t}) /\ Cardinality(T \ {t}) <= n - 1
        <3>1. t \in T
            BY <1>4 DEF T
        <3>2. IsFiniteSet(T \ {t}) /\ Cardinality(T \ {t}) = Cardinality(T) - 1
            BY <1>1, <3>1, FS_RemoveElement
        <3> QED
            BY <1>1, <1>2, <3>2
    <2>6. Cardinality(T \ {t}) <= n
        <3>1. Cardinality(T \ {t}) \in Nat
            BY <2>5, FS_CardinalityType
        <3> QED
            BY <2>5, <3>1
    <2> QED
        BY <1>1, <2>1, <2>3, <2>4, <2>5, <2>6, BookIs DEF IsBook
<1> QED
    BY <1>3, <1>4

\* A transaction that was accepted is looked up, and what waited for it is erased.
LEMMA ProcessKeepsBook ==
    ASSUME NEW n \in Nat, NEW o, IsBook(o, n), NEW p, NEW t \in Txids
    PROVE  IsBook(ProcessOrphansOf(o, p, t), n)
<1> DEFINE waiting == IF t \in DOMAIN o.byPrev THEN o.byPrev[t] ELSE {}
           looked == [o EXCEPT !.byPrev = [h \in DOMAIN @ \cup {t} |->
                                              IF h = t THEN waiting ELSE @[h]]]
           base == EraseOrphanTx(looked, t)
           gone == IF Verdict(pindexBest, p, t, TRUE, pruned) = "missing" THEN {} ELSE waiting
           D == DOMAIN o.byPrev
           T == o.txs
<1>1. /\ T \subseteq Txids /\ D \subseteq Txids /\ IsFiniteSet(T) /\ Cardinality(T) <= n
      /\ \A u \in T : Prevs(u) \subseteq D
      /\ \A h \in D : o.byPrev[h] = {u \in T : h \in Prevs(u)}
    BY BookIs DEF IsBook
<1>2. waiting \subseteq T /\ IsFiniteSet(waiting)
    <2>1. waiting \subseteq T
        BY <1>1
    <2> QED
        BY <1>1, <2>1, FS_Subset
<1>3. IsBook(looked, n)
    <2> DEFINE b == [h \in D \cup {t} |-> IF h = t THEN waiting ELSE o.byPrev[h]]
    <2>1. looked = [txs |-> T, byPrev |-> b]
        BY DEF IsBook, Book
    <2>2. b = [h \in D \cup {t} |-> {u \in T : h \in Prevs(u)}]
        BY <1>1
    <2> HIDE DEF b, looked, waiting, T, D
    <2>3. looked = Book(T, D \cup {t})
        BY <2>1, <2>2 DEF Book
    <2> QED
        BY <1>1, <2>3, BookIs DEF IsBook
<1> DEFINE P == {q \in {Book(U, E) : U, E \in SUBSET Txids} : IsBook(q, n)}
           Body(g) == g = [s \in SUBSET gone |->
                              IF s = {} THEN base
                              ELSE EraseOrphanTx(g[s \ {CHOOSE x \in s : TRUE}],
                                                 CHOOSE x \in s : TRUE)]
           erased == CHOOSE g : Body(g)
           pick == [s \in (SUBSET gone) \ {{}} |-> CHOOSE x \in s : TRUE]
           F == [a \in P \X gone |-> EraseOrphanTx(a[1], a[2])]
<1>4. ProcessOrphansOf(o, p, t) = erased[gone]
    BY DEF ProcessOrphansOf, FoldSet, MapThenFoldSet
<1>5. \A q : q \in P <=> IsBook(q, n)
    BY DEF IsBook
<1>6. Picks(pick, gone)
    BY DEF Picks
<1>11. gone \subseteq T /\ IsFiniteSet(gone)
    BY <1>2, FS_EmptySet
<1>12. IsBook(base, n)
    <2> HIDE DEF looked
    <2> QED
        BY <1>3, EraseKeepsBook
<1> HIDE DEF P, gone, base
<1>7. F \in [P \X gone -> P]
    <2>1. ASSUME NEW q \in P, NEW u \in gone PROVE EraseOrphanTx(q, u) \in P
        <3>1. u \in Txids
            BY <1>1, <1>11
        <3> QED
            BY <1>5, <3>1, EraseKeepsBook
    <2> QED
        BY <2>1
<1>8. Body(erased)
    <2>1. PICK g \in [SUBSET gone -> P] : IsFold(g, gone, base, F, pick)
        <3>1. IsFiniteSet(gone) /\ base \in P
            BY <1>5, <1>11, <1>12
        <3> HIDE DEF pick, F, erased, Body
        <3> QED
            BY <1>6, <1>7, <3>1, FoldExists
    <2>2. Body(g)
        <3>1. ASSUME NEW s \in SUBSET gone, s # {}
              PROVE  g[s] = EraseOrphanTx(g[s \ {CHOOSE x \in s : TRUE}], CHOOSE x \in s : TRUE)
            <4>1. pick[s] = (CHOOSE x \in s : TRUE) /\ pick[s] \in gone
                BY <1>6, <3>1 DEF Picks
            <4>2. g[s \ {pick[s]}] \in P
                OBVIOUS
            <4>3. g[s] = F[<<g[s \ {pick[s]}], pick[s]>>]
                BY <2>1, <3>1 DEF IsFold, Folds
            <4> HIDE DEF pick
            <4>4. g[s] = EraseOrphanTx(g[s \ {pick[s]}], pick[s])
                BY <4>1, <4>2, <4>3
            <4> QED
                BY <4>1, <4>4
        <3>2. g[{}] = base
            BY <2>1 DEF IsFold, Folds
        <3>3. g = [s \in SUBSET gone |-> g[s]]
            OBVIOUS
        <3> QED
            BY <3>1, <3>2, <3>3
    <2> HIDE DEF Body
    <2> QED
        BY <2>2
<1>9. IsFoldIn(erased, gone, P, base, F, pick)
    <2> HIDE DEF erased
    <2>1. ASSUME NEW s \in SUBSET gone, s # {}, erased[s \ {pick[s]}] \in P
          PROVE  erased[s] = F[<<erased[s \ {pick[s]}], pick[s]>>]
        <3>1. pick[s] = (CHOOSE x \in s : TRUE) /\ pick[s] \in gone
            BY <1>6, <2>1 DEF Picks
        <3>2. erased[s] = EraseOrphanTx(erased[s \ {pick[s]}], pick[s])
            BY <1>8, <2>1, <3>1
        <3> HIDE DEF pick
        <3> QED
            BY <2>1, <3>1, <3>2
    <2>2. erased[{}] = base
        BY <1>8
    <2> QED
        BY <2>1, <2>2 DEF IsFoldIn, Folds
<1>10. erased[gone] \in P
    <2>1. IsFiniteSet(gone) /\ base \in P
        BY <1>5, <1>11, <1>12
    <2> HIDE DEF erased, pick, F
    <2>2. \A s \in SUBSET gone : erased[s] \in P
        BY <1>6, <1>7, <1>9, <2>1, FoldStays
    <2> QED
        BY <2>2
<1> QED
    <2> HIDE DEF erased
    <2> QED
        BY <1>4, <1>5, <1>10

-----------------------------------------------------------------------------
\* The pool

\* Nothing but what the transactions of the pool spend is in mapNextTx, each outpoint
\* with the one that spends it.
IsPool(p) ==
    /\ p = [mapTx |-> p.mapTx, mapNextTx |-> p.mapNextTx]
    /\ p.mapTx \subseteq Txids /\ IsFiniteSet(p.mapTx)
    /\ p.mapNextTx = [o \in Points(p.mapTx) |-> p.mapNextTx[o]]
    /\ \A t \in p.mapTx : \A o \in Points({t}) : p.mapNextTx[o] = t

Pools ==
    {p \in [mapTx : SUBSET Txids, mapNextTx : UNION {[D -> Txids] : D \in SUBSET Points(Txids)}] :
        IsPool(p)}

LEMMA PointsIs ==
    ASSUME NEW T
    PROVE  \A o : o \in Points(T) <=> \E t \in T : o \in Points({t})
    BY DEF Points

LEMMA PoolsIs == \A p : p \in Pools <=> IsPool(p)
<1>1. ASSUME NEW p, IsPool(p) PROVE p \in Pools
    <2>1. p.mapTx \in SUBSET Txids /\ Points(p.mapTx) \in SUBSET Points(Txids)
        <3>1. p.mapTx \in SUBSET Txids
            BY <1>1 DEF IsPool
        <3> QED
            BY <3>1 DEF Points
    <2>2. ASSUME NEW o \in Points(p.mapTx) PROVE p.mapNextTx[o] \in Txids
        <3>1. PICK t \in p.mapTx : o \in Points({t})
            BY PointsIs
        <3> QED
            BY <1>1, <3>1 DEF IsPool
    <2>3. p.mapNextTx \in [Points(p.mapTx) -> Txids]
        BY <1>1, <2>2 DEF IsPool
    <2>4. p.mapNextTx \in UNION {[D -> Txids] : D \in SUBSET Points(Txids)}
        BY <2>1, <2>3
    <2> DEFINE S == UNION {[D -> Txids] : D \in SUBSET Points(Txids)}
    <2>5. p \in [mapTx : SUBSET Txids, mapNextTx : S]
        <3> HIDE DEF S
        <3>1. p = [mapTx |-> p.mapTx, mapNextTx |-> p.mapNextTx]
            BY <1>1 DEF IsPool
        <3> QED
            BY <2>1, <2>4, <3>1 DEF S
    <2> QED
        BY <1>1, <2>5 DEF Pools
<1> QED
    BY <1>1 DEF Pools

LEMMA PoolIs ==
    ASSUME NEW T \in SUBSET Txids, IsFiniteSet(T), NEW f, f = [o \in Points(T) |-> f[o]],
           \A t \in T : \A o \in Points({t}) : f[o] = t
    PROVE  IsPool([mapTx |-> T, mapNextTx |-> f])
<1> DEFINE p == [mapTx |-> T, mapNextTx |-> f]
<1>1. p.mapTx = T /\ p.mapNextTx = f /\ p = [mapTx |-> p.mapTx, mapNextTx |-> p.mapNextTx]
    OBVIOUS
<1> HIDE DEF p
<1>2. IsPool(p)
    BY <1>1 DEF IsPool
<1> QED
    BY <1>2 DEF p

\* No two transactions of a pool spend the same outpoint.
LEMMA OneSpender ==
    ASSUME NEW p, IsPool(p), NEW t \in p.mapTx, NEW u \in p.mapTx,
           NEW o, o \in Points({t}), o \in Points({u})
    PROVE  t = u
<1>1. p.mapNextTx[o] = t /\ p.mapNextTx[o] = u
    BY DEF IsPool
<1> QED
    BY <1>1

\* remove() takes the entries of what it removes, and no others.
LEMMA TakeKeepsPool ==
    ASSUME NEW p, IsPool(p), NEW ts
    PROVE  IsPool(Take(p, ts))
<1> DEFINE T == p.mapTx
           f == p.mapNextTx
           D == DOMAIN f \ Points(ts \cap T)
<1>1. DOMAIN f = Points(T) /\ T \subseteq Txids /\ IsFiniteSet(T)
    BY DEF IsPool
<1>2. ASSUME NEW o PROVE o \in D <=> o \in Points(T \ ts)
    <2>1. o \in Points(T) <=> \E t \in T : o \in Points({t})
        BY PointsIs
    <2>2. o \in Points(ts \cap T) <=> \E t \in ts \cap T : o \in Points({t})
        BY PointsIs
    <2>3. o \in Points(T \ ts) <=> \E t \in T \ ts : o \in Points({t})
        BY PointsIs
    <2>4. ASSUME NEW t \in T, NEW u \in T, o \in Points({t}), o \in Points({u}) PROVE t = u
        BY <2>4, OneSpender
    <2> QED
        BY <1>1, <2>1, <2>2, <2>3, <2>4
<1>3. Take(p, ts) = [mapTx |-> T \ ts, mapNextTx |-> [o \in D |-> f[o]]]
    BY DEF Take, Restrict, Outpoints
<1>4. D = Points(T \ ts)
    BY <1>2
<1>5. ASSUME NEW t \in T \ ts, NEW o \in Points({t}) PROVE f[o] = t /\ o \in D
    <2>1. f[o] = t
        BY DEF IsPool
    <2>2. o \in Points(T \ ts)
        BY PointsIs
    <2> QED
        BY <1>4, <2>1, <2>2
<1> DEFINE next == [o \in D |-> f[o]]
<1>6. next = [o \in Points(T \ ts) |-> next[o]]
    BY <1>4
<1>7. \A t \in T \ ts : \A o \in Points({t}) : next[o] = t
    BY <1>5
<1> HIDE DEF next, D
<1> DEFINE left == T \ ts
<1>8. left \in SUBSET Txids /\ IsFiniteSet(left)
    BY <1>1, FS_Subset
<1>9. next = [o \in Points(left) |-> next[o]] /\ \A t \in left : \A o \in Points({t}) : next[o] = t
    BY <1>6, <1>7
<1>10. Take(p, ts) = [mapTx |-> left, mapNextTx |-> next]
    BY <1>3 DEF next
<1> HIDE DEF left, T
<1>11. IsPool([mapTx |-> left, mapNextTx |-> next])
    BY <1>8, <1>9, PoolIs
<1> QED
    BY <1>10, <1>11

\* A transaction may join if nothing in the pool spends what it spends.
LEMMA AddKeepsPool ==
    ASSUME NEW p, IsPool(p), NEW t \in Txids, Points({t}) \cap DOMAIN p.mapNextTx = {}
    PROVE  IsPool(AddUnchecked(p, t))
<1> DEFINE T == p.mapTx
           f == p.mapNextTx
           D == DOMAIN f \cup Points({t})
           next == [o \in D |-> IF o \in Points({t}) THEN t ELSE f[o]]
<1>1. DOMAIN f = Points(T) /\ T \subseteq Txids /\ IsFiniteSet(T)
    BY DEF IsPool
<1>2. D = Points(T \cup {t})
    <2>1. \A o : o \in Points(T \cup {t}) <=> \E u \in T \cup {t} : o \in Points({u})
        BY PointsIs
    <2>2. \A o : o \in Points(T) <=> \E u \in T : o \in Points({u})
        BY PointsIs
    <2> HIDE DEF f, T
    <2> QED
        BY <1>1, <2>1, <2>2
<1>3. AddUnchecked(p, t) = [mapTx |-> T \cup {t}, mapNextTx |-> next]
    BY DEF AddUnchecked, Outpoints
<1>4. ASSUME NEW u \in T \cup {t}, NEW o \in Points({u}) PROVE next[o] = u
    <2>1. o \in D
        BY <1>2, PointsIs
    <2>2. CASE o \in Points({t})
        <3>1. u = t
            <4>1. o \notin DOMAIN f
                BY <2>2
            <4>2. u \notin T
                BY <1>1, <4>1, PointsIs
            <4> QED
                BY <4>2
        <3> QED
            BY <2>1, <2>2, <3>1
    <2>3. CASE o \notin Points({t})
        <3>1. u \in T
            BY <2>3
        <3>2. f[o] = u
            BY <3>1 DEF IsPool
        <3> QED
            BY <2>1, <2>3, <3>2
    <2> QED
        BY <2>2, <2>3
<1>5. next = [o \in Points(T \cup {t}) |-> next[o]]
    BY <1>2
<1>6. T \cup {t} \in SUBSET Txids /\ IsFiniteSet(T \cup {t})
    BY <1>1, FS_AddElement
<1> HIDE DEF T, f, next, D
<1>7. IsPool([mapTx |-> T \cup {t}, mapNextTx |-> next])
    BY <1>4, <1>5, <1>6, PoolIs
<1> QED
    BY <1>3, <1>7

\* accept() says so only of such a transaction.
LEMMA OkIsNew ==
    ASSUME NEW b, NEW p, NEW t, NEW fLimitFree, NEW spent,
           Verdict(b, p, t, fLimitFree, spent) = "ok"
    PROVE  Points({t}) \cap DOMAIN p.mapNextTx = {}
    BY DEF Verdict, Outpoints

LEMMA RemoveKeepsPool ==
    ASSUME NEW p, IsPool(p), NEW t, NEW fRecursive
    PROVE  IsPool(RemoveTx(p, t, fRecursive))
    BY TakeKeepsPool DEF RemoveTx

\* removeConflicts goes through the inputs of t.
LEMMA ConflictsLoop ==
    ASSUME NEW t \in Txids, NEW p, IsPool(p)
    PROVE  LoopEnds(Len(TxIn[t]), Pools, p,
                    [a \in Pools \X (1 .. Len(TxIn[t])) |-> RemoveConflict(a[1], t, TxIn[t][a[2]])],
                    RemoveConflicts(p, t))
<1> DEFINE n == Len(TxIn[t])
           P == Pools
           start == p
           op(r, x) == RemoveConflict(r, t, x)
           F == [a \in P \X (1 .. n) |-> op(a[1], TxIn[t][a[2]])]
           Body(g) == g = [s \in SUBSET DOMAIN TxIn[t] |->
                              IF s = {} THEN start ELSE op(g[s \ {Max(s)}], TxIn[t][Max(s)])]
           total == CHOOSE g : Body(g)
<1>1. RemoveConflicts(p, t) = total[DOMAIN TxIn[t]]
    BY DEF RemoveConflicts, FoldLeft, MapThenFoldSet
<1>2. n \in Nat /\ DOMAIN TxIn[t] = 1 .. n /\ start \in P
    BY PoolsIs, TransactionAssumption DEF TransactionAssumption
<1> HIDE DEF n
<1>3. F \in [P \X (1 .. n) -> P]
    <2>1. ASSUME NEW r \in P, NEW i \in 1 .. n PROVE op(r, TxIn[t][i]) \in P
        BY <2>1, PoolsIs, RemoveKeepsPool DEF RemoveConflict
    <2> HIDE DEF P, op
    <2> QED
        BY <2>1
<1>4. ASSUME NEW s \in (SUBSET (1 .. n)) \ {{}}, NEW g, g[s \ {Max(s)}] \in P
      PROVE  F[<<g[s \ {FromLast(n)[s]}], FromLast(n)[s]>>] = op(g[s \ {Max(s)}], TxIn[t][Max(s)])
    <2>1. FromLast(n)[s] = Max(s) /\ Max(s) \in 1 .. n
        BY <1>2, FromLastPicks DEF FromLast, Picks
    <2> HIDE DEF P, op
    <2> QED
        BY <1>4, <2>1
<1> HIDE DEF op
<1>5. Body(total)
    <2>1. PICK g \in [SUBSET (1 .. n) -> P] : IsFold(g, 1 .. n, start, F, FromLast(n))
        <3> HIDE DEF F, P, total, Body, start
        <3> QED
            BY <1>2, <1>3, LeftFoldExists
    <2> HIDE DEF F, P, start
    <2>2. Body(g)
        <3>1. ASSUME NEW s \in (SUBSET (1 .. n)) \ {{}}
              PROVE  g[s] = op(g[s \ {Max(s)}], TxIn[t][Max(s)])
            <4>1. g[s \ {Max(s)}] \in P
                OBVIOUS
            <4> QED
                BY <1>4, <2>1, <4>1 DEF IsFold, Folds
        <3>2. g[{}] = start
            BY <2>1 DEF IsFold, Folds
        <3> QED
            BY <1>2, <3>1, <3>2
    <2> HIDE DEF Body
    <2> QED
        BY <2>2
<1>6. IsFoldIn(total, 1 .. n, P, start, F, FromLast(n))
    <2> HIDE DEF total, F, P, start
    <2>1. ASSUME NEW s \in SUBSET (1 .. n), s # {}, total[s \ {FromLast(n)[s]}] \in P
          PROVE  total[s] = F[<<total[s \ {FromLast(n)[s]}], FromLast(n)[s]>>]
        <3>1. FromLast(n)[s] = Max(s)
            BY <2>1 DEF FromLast
        <3>2. total[s] = op(total[s \ {Max(s)}], TxIn[t][Max(s)])
            BY <1>2, <1>5, <2>1
        <3> QED
            BY <1>4, <2>1, <3>1, <3>2
    <2>2. total[{}] = start
        BY <1>5
    <2> QED
        BY <2>1, <2>2 DEF IsFoldIn, Folds
<1>7. LoopEnds(n, P, start, F, total[1 .. n])
    <2> HIDE DEF total, F, P, start, Body
    <2> QED
        BY <1>2, <1>3, <1>6, LeftFold
<1> QED
    <2>1. LoopEnds(n, P, start, F, RemoveConflicts(p, t))
        <3> HIDE DEF F, P, start, total
        <3> QED
            BY <1>1, <1>2, <1>7
    <2> QED
        BY <2>1 DEF n, op

LEMMA ConflictsKeepPool ==
    ASSUME NEW t \in Txids, NEW p, IsPool(p)
    PROVE  IsPool(RemoveConflicts(p, t))
<1>1. Len(TxIn[t]) \in Nat
    BY TransactionAssumption DEF TransactionAssumption
<1> QED
    BY <1>1, ConflictsLoop, LoopEndsIn, PoolsIs

\* The first loop of SetBestChain over the pool.
LEMMA ResurrectLoop ==
    ASSUME NEW new, NEW empty, NEW q \in Seq(Txids), NEW p, IsPool(p)
    PROVE  LoopEnds(Len(q), Pools, p,
                    [a \in Pools \X (1 .. Len(q)) |-> Resurrect(new, a[1], q[a[2]], empty)],
                    ResurrectAll(new, p, q, empty))
<1> DEFINE n == Len(q)
           P == Pools
           start == p
           op(r, x) == Resurrect(new, r, x, empty)
           F == [a \in P \X (1 .. n) |-> op(a[1], q[a[2]])]
           Body(g) == g = [s \in SUBSET DOMAIN q |->
                              IF s = {} THEN start ELSE op(g[s \ {Max(s)}], q[Max(s)])]
           total == CHOOSE g : Body(g)
<1>1. ResurrectAll(new, p, q, empty) = total[DOMAIN q]
    BY DEF ResurrectAll, FoldLeft, MapThenFoldSet
<1>2. n \in Nat /\ DOMAIN q = 1 .. n /\ start \in P
    BY PoolsIs
<1> HIDE DEF n
<1>3. F \in [P \X (1 .. n) -> P]
    <2>1. ASSUME NEW r \in P, NEW i \in 1 .. n PROVE op(r, q[i]) \in P
        <3>1. q[i] \in Txids /\ IsPool(r)
            BY <1>2, PoolsIs
        <3> QED
            BY <3>1, OkIsNew, AddKeepsPool, RemoveKeepsPool, PoolsIs DEF Resurrect
    <2> HIDE DEF P, op
    <2> QED
        BY <2>1
<1>4. ASSUME NEW s \in (SUBSET (1 .. n)) \ {{}}, NEW g, g[s \ {Max(s)}] \in P
      PROVE  F[<<g[s \ {FromLast(n)[s]}], FromLast(n)[s]>>] = op(g[s \ {Max(s)}], q[Max(s)])
    <2>1. FromLast(n)[s] = Max(s) /\ Max(s) \in 1 .. n
        BY <1>2, FromLastPicks DEF FromLast, Picks
    <2> HIDE DEF P, op
    <2> QED
        BY <1>4, <2>1
<1> HIDE DEF op
<1>5. Body(total)
    <2>1. PICK g \in [SUBSET (1 .. n) -> P] : IsFold(g, 1 .. n, start, F, FromLast(n))
        <3> HIDE DEF F, P, total, Body, start
        <3> QED
            BY <1>2, <1>3, LeftFoldExists
    <2> HIDE DEF F, P, start
    <2>2. Body(g)
        <3>1. ASSUME NEW s \in (SUBSET (1 .. n)) \ {{}}
              PROVE  g[s] = op(g[s \ {Max(s)}], q[Max(s)])
            <4>1. g[s \ {Max(s)}] \in P
                OBVIOUS
            <4> QED
                BY <1>4, <2>1, <4>1 DEF IsFold, Folds
        <3>2. g[{}] = start
            BY <2>1 DEF IsFold, Folds
        <3> QED
            BY <1>2, <3>1, <3>2
    <2> HIDE DEF Body
    <2> QED
        BY <2>2
<1>6. IsFoldIn(total, 1 .. n, P, start, F, FromLast(n))
    <2> HIDE DEF total, F, P, start
    <2>1. ASSUME NEW s \in SUBSET (1 .. n), s # {}, total[s \ {FromLast(n)[s]}] \in P
          PROVE  total[s] = F[<<total[s \ {FromLast(n)[s]}], FromLast(n)[s]>>]
        <3>1. FromLast(n)[s] = Max(s)
            BY <2>1 DEF FromLast
        <3>2. total[s] = op(total[s \ {Max(s)}], q[Max(s)])
            BY <1>2, <1>5, <2>1
        <3> QED
            BY <1>4, <2>1, <3>1, <3>2
    <2>2. total[{}] = start
        BY <1>5
    <2> QED
        BY <2>1, <2>2 DEF IsFoldIn, Folds
<1>7. LoopEnds(n, P, start, F, total[1 .. n])
    <2> HIDE DEF total, F, P, start, Body
    <2> QED
        BY <1>2, <1>3, <1>6, LeftFold
<1> QED
    <2>1. LoopEnds(n, P, start, F, ResurrectAll(new, p, q, empty))
        <3> HIDE DEF F, P, start, total
        <3> QED
            BY <1>1, <1>2, <1>7
    <2> QED
        BY <2>1 DEF n, op

\* The second loop of SetBestChain over the pool.
LEMMA DeleteLoop ==
    ASSUME NEW q \in Seq(Txids), NEW p, IsPool(p)
    PROVE  LoopEnds(Len(q), Pools, p,
                    [a \in Pools \X (1 .. Len(q)) |-> Delete(a[1], q[a[2]])],
                    FoldLeft(Delete, p, q))
<1> DEFINE n == Len(q)
           P == Pools
           start == p
           op(r, x) == Delete(r, x)
           F == [a \in P \X (1 .. n) |-> op(a[1], q[a[2]])]
           Body(g) == g = [s \in SUBSET DOMAIN q |->
                              IF s = {} THEN start ELSE op(g[s \ {Max(s)}], q[Max(s)])]
           total == CHOOSE g : Body(g)
<1>1. FoldLeft(Delete, p, q) = total[DOMAIN q]
    BY DEF FoldLeft, MapThenFoldSet
<1>2. n \in Nat /\ DOMAIN q = 1 .. n /\ start \in P
    BY PoolsIs
<1> HIDE DEF n
<1>3. F \in [P \X (1 .. n) -> P]
    <2>1. ASSUME NEW r \in P, NEW i \in 1 .. n PROVE op(r, q[i]) \in P
        <3>1. q[i] \in Txids /\ IsPool(r)
            BY <1>2, PoolsIs
        <3> QED
            BY <3>1, RemoveKeepsPool, ConflictsKeepPool, PoolsIs DEF Delete
    <2> HIDE DEF P, op
    <2> QED
        BY <2>1
<1>4. ASSUME NEW s \in (SUBSET (1 .. n)) \ {{}}, NEW g, g[s \ {Max(s)}] \in P
      PROVE  F[<<g[s \ {FromLast(n)[s]}], FromLast(n)[s]>>] = op(g[s \ {Max(s)}], q[Max(s)])
    <2>1. FromLast(n)[s] = Max(s) /\ Max(s) \in 1 .. n
        BY <1>2, FromLastPicks DEF FromLast, Picks
    <2> HIDE DEF P, op
    <2> QED
        BY <1>4, <2>1
<1> HIDE DEF op
<1>5. Body(total)
    <2>1. PICK g \in [SUBSET (1 .. n) -> P] : IsFold(g, 1 .. n, start, F, FromLast(n))
        <3> HIDE DEF F, P, total, Body, start
        <3> QED
            BY <1>2, <1>3, LeftFoldExists
    <2> HIDE DEF F, P, start
    <2>2. Body(g)
        <3>1. ASSUME NEW s \in (SUBSET (1 .. n)) \ {{}}
              PROVE  g[s] = op(g[s \ {Max(s)}], q[Max(s)])
            <4>1. g[s \ {Max(s)}] \in P
                OBVIOUS
            <4> QED
                BY <1>4, <2>1, <4>1 DEF IsFold, Folds
        <3>2. g[{}] = start
            BY <2>1 DEF IsFold, Folds
        <3> QED
            BY <1>2, <3>1, <3>2
    <2> HIDE DEF Body
    <2> QED
        BY <2>2
<1>6. IsFoldIn(total, 1 .. n, P, start, F, FromLast(n))
    <2> HIDE DEF total, F, P, start
    <2>1. ASSUME NEW s \in SUBSET (1 .. n), s # {}, total[s \ {FromLast(n)[s]}] \in P
          PROVE  total[s] = F[<<total[s \ {FromLast(n)[s]}], FromLast(n)[s]>>]
        <3>1. FromLast(n)[s] = Max(s)
            BY <2>1 DEF FromLast
        <3>2. total[s] = op(total[s \ {Max(s)}], q[Max(s)])
            BY <1>2, <1>5, <2>1
        <3> QED
            BY <1>4, <2>1, <3>1, <3>2
    <2>2. total[{}] = start
        BY <1>5
    <2> QED
        BY <2>1, <2>2 DEF IsFoldIn, Folds
<1>7. LoopEnds(n, P, start, F, total[1 .. n])
    <2> HIDE DEF total, F, P, start, Body
    <2> QED
        BY <1>2, <1>3, <1>6, LeftFold
<1> QED
    <2>1. LoopEnds(n, P, start, F, FoldLeft(Delete, p, q))
        <3> HIDE DEF F, P, start, total
        <3> QED
            BY <1>1, <1>2, <1>7
    <2> QED
        BY <2>1 DEF n, op

-----------------------------------------------------------------------------
\* Blocks

\* Upwards lists blocks.
LEMMA UpwardsType ==
    ASSUME NEW b \in Blocks, NEW h \in Nat
    PROVE  Upwards(b, h) \in Seq(Blocks)
<1> DEFINE n == Height[b] - h
<1>1. ASSUME NEW i \in 1 .. n PROVE Upwards(b, h)[i] \in Blocks
    <2>1. h + i \in 1 .. Height[b]
        BY BlockTreeAssumption DEF BlockTreeAssumption
    <2>2. Upwards(b, h)[i] = BlockAt(b, h + i)
        BY DEF Upwards, BlockAt
    <2> QED
        BY <2>1, <2>2, BlockAtIs
<1>2. n \in Int
    BY BlockTreeAssumption DEF BlockTreeAssumption
<1>3. PICK m \in Nat : 1 .. n = 1 .. m
    <2>1. CASE n \in Nat
        BY <2>1
    <2>2. CASE n \notin Nat
        <3>1. 1 .. n = 1 .. 0
            BY <1>2, <2>2
        <3> QED
            BY <3>1
    <2> QED
        BY <2>1, <2>2
<1>4. Upwards(b, h) = [i \in 1 .. m |-> Upwards(b, h)[i]]
    BY <1>3 DEF Upwards
<1> DEFINE u == Upwards(b, h)
<1>5. u \in [1 .. m -> Blocks]
    BY <1>1, <1>3, <1>4
<1> HIDE DEF n, u
<1>6. u \in Seq(Blocks)
    BY <1>5
<1> QED
    BY <1>6 DEF u

LEMMA ForkHeight ==
    ASSUME NEW a \in Blocks, NEW b \in Blocks
    PROVE  Height[ForkOf(a, b)] \in Nat
<1>1. a # NoBlock /\ b # NoBlock
    BY BlockTreeAssumption DEF BlockTreeAssumption
<1>2. Genesis \in ChainOf(a) \cap ChainOf(b)
    BY <1>1, GenesisOnChain DEF ChainOf
<1>3. ForkOf(a, b) \in Blocks
    BY <1>2, ForkProperty DEF Tips
<1> QED
    BY <1>3, BlockTreeAssumption DEF BlockTreeAssumption

LEMMA TxsOfType ==
    ASSUME NEW q \in Seq(Blocks)
    PROVE  TxsOf(q) \in Seq(Txids)
<1> DEFINE ss == [i \in DOMAIN q |-> BlockTxs[q[i]]]
<1>1. \A i \in DOMAIN q : BlockTxs[q[i]] \in Seq(Txids)
    BY TransactionAssumption DEF TransactionAssumption
<1>2. ss \in Seq(Seq(Txids))
    BY <1>1
<1> HIDE DEF ss
<1>3. FlattenSeq(ss) \in Seq(Txids)
    BY <1>2, FlattenIs
<1> QED
    BY <1>3 DEF TxsOf, ss

\* Whatever SetBestChain disconnects and connects, the pool stays one.
LEMMA SwitchKeepsPool ==
    ASSUME NEW p, IsPool(p), NEW old \in Blocks, NEW new \in Blocks, NEW empty
    PROVE  IsPool(PoolAfterSwitch(p, old, new, empty))
<1> DEFINE r == Resurrected(old, new)
           txs == TxsOf(Attached(old, new))
           p1 == ResurrectAll(new, p, r, empty)
<1>1. txs \in Seq(Txids)
    BY ForkHeight, UpwardsType, TxsOfType DEF Attached
<1>2. r \in Seq(Txids)
    <2>1. LastCheckpoint \in Nat /\ Height[ForkOf(old, new)] \in Nat
        BY ForkHeight, MemPoolAssumption DEF MemPoolAssumption
    <2>2. TxsOf(Detached(old, new)) \in Seq(Txids)
        BY <2>1, UpwardsType, TxsOfType DEF Detached
    <2> DEFINE q == TxsOf(Detached(old, new))
    <2>3. Len(q) \in Nat
        BY <2>2
    <2> HIDE DEF q
    <2>4. DropAll(q, CoinBases) \in Seq(Txids)
        BY <2>2, <2>3, DropAllLoop, LoopEndsIn DEF q
    <2> QED
        BY <2>4 DEF Resurrected, q
<1> HIDE DEF r, txs
<1>3. IsPool(p1)
    <2>1. Len(r) \in Nat
        BY <1>2
    <2> QED
        BY <1>2, <2>1, ResurrectLoop, LoopEndsIn, PoolsIs
<1>4. PoolAfterSwitch(p, old, new, empty) = FoldLeft(Delete, p1, txs)
    BY DEF PoolAfterSwitch, r, txs
<1> HIDE DEF p1
<1>5. IsPool(FoldLeft(Delete, p1, txs))
    <2>1. Len(txs) \in Nat
        BY <1>1
    <2> QED
        BY <1>1, <1>3, <2>1, DeleteLoop, LoopEndsIn, PoolsIs
<1> QED
    BY <1>4, <1>5

\* The entries of the cache are of transactions.
LEMMA PrunedType ==
    ASSUME NEW empty \in SUBSET Txids, NEW old \in Blocks, NEW new \in Blocks, NEW fFlush
    PROVE  PrunedAfterSwitch(empty, old, new, fFlush) \in SUBSET Txids
<1>1. ASSUME NEW b \in Blocks PROVE ChainOf(b) \subseteq Blocks
    BY OnChain, BlockTreeAssumption DEF ChainOf, BlockTreeAssumption
<1>2. ASSUME NEW c \in Blocks PROVE Touched(c) \subseteq Txids
    <2>1. \A t \in ToSet(BlockTxs[c]) : t \in Txids
        BY TransactionAssumption DEF TransactionAssumption, ToSet
    <2>2. ASSUME NEW t \in Txids, NEW i \in DOMAIN TxIn[t] PROVE TxIn[t][i].hash \in Txids
        BY PrevsType DEF Prevs, ToSet
    <2> QED
        BY <2>1, <2>2 DEF Touched
<1> DEFINE branches == (ChainOf(old) \ ChainOf(new)) \cup (ChainOf(new) \ ChainOf(old))
<1>3. \A c \in branches : Touched(c) \subseteq Txids
    BY <1>1, <1>2
<1> QED
    BY <1>3 DEF PrunedAfterSwitch

\* What AcceptBlock and the loop over vWorkQueue work on.
States ==
    [index : SUBSET Blocks, failed : SUBSET Blocks, best : Blocks, pool : Pools,
     pruned : SUBSET Txids, flushing : SUBSET Blocks, fOk : BOOLEAN, queue : Seq(Blocks), orphans : Seq(Blocks)]

\* AcceptBlock stores at most b, and calls it a failure only if its chain is invalid.
Stores(s, b, a) ==
    /\ a \in States /\ a.orphans = s.orphans
    /\ a.index \in {s.index, s.index \cup {b}}

LEMMA FlawedChain ==
    ASSUME NEW b \in Blocks, NEW c \in ChainOf(b), ~ValidChain[c]
    PROVE  ~ValidChain[b]
<1>1. c \in Ancestry[b] /\ c \in Blocks /\ Ancestry[c] \subseteq Ancestry[b]
    BY OnChain, BlockTreeAssumption DEF ChainOf, BlockTreeAssumption
<1> QED
    BY <1>1 DEF ValidChain

LEMMA AcceptIs ==
    ASSUME NEW s \in States, NEW b \in Blocks
    PROVE  /\ Stores(s, b, AcceptBlock(s, b)) /\ AcceptBlock(s, b).queue = s.queue
           /\ AcceptBlock(s, b).index # s.index =>
                AcceptBlock(s, b).fOk \/ ~ValidChain[b]
<1> DEFINE stored == b \notin s.index /\ Parent[b] \in s.index /\ b \notin BadBlocks
           better == stored /\ ChainWork[b] > ChainWork[s.best]
           flawed == {c \in ChainOf(b) : ~ValidChain[c]}
           found  == IF better /\ flawed # {} THEN {Lowest(flawed)} ELSE {}
           index  == IF stored THEN s.index \cup {b} ELSE s.index
           failed1 == s.failed \cup found
           best   == IF better /\ flawed = {} THEN b ELSE s.best
           empty  == PrunedAfterSwitch(s.pruned, s.best, b, b \in s.flushing)
           pruned1 == IF better /\ flawed = {} THEN empty ELSE s.pruned
           pool1  == IF better /\ flawed = {} THEN PoolAfterSwitch(s.pool, s.best, b, empty)
                     ELSE s.pool
           fOk    == stored /\ found \subseteq s.failed
           a == AcceptBlock(s, b)
<1>1. a = [s EXCEPT !.index = index, !.failed = failed1, !.best = best, !.pruned = pruned1,
                    !.pool = pool1, !.fOk = fOk]
    BY DEF AcceptBlock
<1>2. found \subseteq Blocks
    <2>1. CASE flawed = {}
        BY <2>1
    <2>2. CASE flawed # {}
        <3>1. flawed \subseteq Blocks
            BY OnChain, BlockTreeAssumption DEF ChainOf, BlockTreeAssumption
        <3> HIDE DEF flawed
        <3>2. Lowest(flawed) \in flawed
            BY <2>2, <3>1, LowestProperty
        <3> QED
            BY <3>1, <3>2
    <2> QED
        BY <2>1, <2>2
<1>3. index \in SUBSET Blocks /\ failed1 \in SUBSET Blocks /\ best \in Blocks
    BY <1>2 DEF States
<1>4. pool1 \in Pools
    <2>1. s.pool \in Pools /\ s.best \in Blocks
        BY DEF States
    <2> QED
        BY <2>1, SwitchKeepsPool, PoolsIs
<1>10. pruned1 \in SUBSET Txids
    <2>1. s.pruned \in SUBSET Txids /\ s.best \in Blocks
        BY DEF States
    <2>2. empty \in SUBSET Txids
        BY <2>1, PrunedType
    <2> HIDE DEF empty
    <2> QED
        BY <2>1, <2>2
<1>5. stored /\ ~fOk => ~ValidChain[b]
    <2>1. ASSUME stored, ~fOk PROVE ~ValidChain[b]
        <3>1. found # {}
            BY <2>1
        <3>2. PICK c \in flawed : TRUE
            BY <3>1
        <3> QED
            BY <3>2, FlawedChain
    <2> QED
        BY <2>1
<1>6. index # s.index => stored
    OBVIOUS
<1>7. fOk \in BOOLEAN /\ index \in {s.index, s.index \cup {b}}
    OBVIOUS
<1> HIDE DEF index, failed1, best, pool1, pruned1, fOk, stored
<1>8. /\ a \in States /\ a.orphans = s.orphans /\ a.queue = s.queue /\ a.index = index
      /\ a.fOk = fOk
    <2> HIDE DEF a
    <2> QED
        BY <1>1, <1>3, <1>4, <1>7, <1>10 DEF States
<1> HIDE DEF a
<1>9. Stores(s, b, a) /\ a.queue = s.queue /\ (a.index # s.index => a.fOk \/ ~ValidChain[b])
    BY <1>5, <1>6, <1>7, <1>8 DEF Stores
<1> QED
    BY <1>9 DEF a

\* An orphan that is stored joins the queue, or its chain is invalid.
LEMMA AcceptOrphanIs ==
    ASSUME NEW s \in States, NEW b \in Blocks
    PROVE  /\ Stores(s, b, AcceptOrphan(s, b))
           /\ AcceptOrphan(s, b).queue \in {s.queue, Append(s.queue, b)}
           /\ AcceptOrphan(s, b).index # s.index =>
                AcceptOrphan(s, b).queue = Append(s.queue, b) \/ ~ValidChain[b]
<1> DEFINE a == AcceptBlock(s, b)
           queue == Append(s.queue, b)
           r == AcceptOrphan(s, b)
<1>1. Stores(s, b, a) /\ a.queue = s.queue /\ (a.index # s.index => a.fOk \/ ~ValidChain[b])
    BY AcceptIs
<1>2. r = IF a.fOk THEN [a EXCEPT !.queue = queue] ELSE a
    BY <1>1 DEF AcceptOrphan
<1>3. queue \in Seq(Blocks)
    BY DEF States
<1> HIDE DEF a, queue, r
<1>4. CASE ~a.fOk
    BY <1>1, <1>2, <1>4 DEF r, queue
<1>5. CASE a.fOk
    <2>1. /\ r \in States /\ r.queue = queue /\ r.index = a.index /\ r.orphans = a.orphans
        BY <1>1, <1>2, <1>3, <1>5 DEF States, Stores
    <2>2. Stores(s, b, r)
        BY <1>1, <2>1 DEF Stores
    <2> QED
        BY <2>1, <2>2 DEF r, queue
<1> QED
    BY <1>4, <1>5

\* One turn goes through the orphans once.
LEMMA TurnLoop ==
    ASSUME NEW waiting, NEW q \in Seq(Blocks), NEW s0 \in States
    PROVE  LoopEnds(Len(q), States, s0,
                    [a \in States \X (1 .. Len(q)) |-> IF q[a[2]] \in waiting THEN AcceptOrphan(a[1], q[a[2]]) ELSE a[1]],
                    AcceptAll(s0, waiting, q))
<1> DEFINE n == Len(q)
           P == States
           start == s0
           op(r, x) == IF x \in waiting THEN AcceptOrphan(r, x) ELSE r
           F == [a \in P \X (1 .. n) |-> op(a[1], q[a[2]])]
           Body(g) == g = [s \in SUBSET DOMAIN q |->
                              IF s = {} THEN start ELSE op(g[s \ {Max(s)}], q[Max(s)])]
           total == CHOOSE g : Body(g)
<1>1. AcceptAll(s0, waiting, q) = total[DOMAIN q]
    BY DEF AcceptAll, FoldLeft, MapThenFoldSet
<1>2. n \in Nat /\ DOMAIN q = 1 .. n /\ start \in P
    OBVIOUS
<1> HIDE DEF n
<1>3. F \in [P \X (1 .. n) -> P]
    <2>1. ASSUME NEW r \in P, NEW i \in 1 .. n PROVE op(r, q[i]) \in P
        <3>1. q[i] \in Blocks
            BY <1>2
        <3> QED
            BY <3>1, AcceptOrphanIs DEF Stores
    <2> HIDE DEF P, op
    <2> QED
        BY <2>1
<1>4. ASSUME NEW s \in (SUBSET (1 .. n)) \ {{}}, NEW g, g[s \ {Max(s)}] \in P
      PROVE  F[<<g[s \ {FromLast(n)[s]}], FromLast(n)[s]>>] = op(g[s \ {Max(s)}], q[Max(s)])
    <2>1. FromLast(n)[s] = Max(s) /\ Max(s) \in 1 .. n
        BY <1>2, FromLastPicks DEF FromLast, Picks
    <2> HIDE DEF P, op
    <2> QED
        BY <1>4, <2>1
<1> HIDE DEF op
<1>5. Body(total)
    <2>1. PICK g \in [SUBSET (1 .. n) -> P] : IsFold(g, 1 .. n, start, F, FromLast(n))
        <3> HIDE DEF F, P, total, Body, start
        <3> QED
            BY <1>2, <1>3, LeftFoldExists
    <2> HIDE DEF F, P, start
    <2>2. Body(g)
        <3>1. ASSUME NEW s \in (SUBSET (1 .. n)) \ {{}}
              PROVE  g[s] = op(g[s \ {Max(s)}], q[Max(s)])
            <4>1. g[s \ {Max(s)}] \in P
                OBVIOUS
            <4> QED
                BY <1>4, <2>1, <4>1 DEF IsFold, Folds
        <3>2. g[{}] = start
            BY <2>1 DEF IsFold, Folds
        <3> QED
            BY <1>2, <3>1, <3>2
    <2> HIDE DEF Body
    <2> QED
        BY <2>2
<1>6. IsFoldIn(total, 1 .. n, P, start, F, FromLast(n))
    <2> HIDE DEF total, F, P, start
    <2>1. ASSUME NEW s \in SUBSET (1 .. n), s # {}, total[s \ {FromLast(n)[s]}] \in P
          PROVE  total[s] = F[<<total[s \ {FromLast(n)[s]}], FromLast(n)[s]>>]
        <3>1. FromLast(n)[s] = Max(s)
            BY <2>1 DEF FromLast
        <3>2. total[s] = op(total[s \ {Max(s)}], q[Max(s)])
            BY <1>2, <1>5, <2>1
        <3> QED
            BY <1>4, <2>1, <3>1, <3>2
    <2>2. total[{}] = start
        BY <1>5
    <2> QED
        BY <2>1, <2>2 DEF IsFoldIn, Folds
<1>7. LoopEnds(n, P, start, F, total[1 .. n])
    <2> HIDE DEF total, F, P, start, Body
    <2> QED
        BY <1>2, <1>3, <1>6, LeftFold
<1> QED
    <2>1. LoopEnds(n, P, start, F, AcceptAll(s0, waiting, q))
        <3> HIDE DEF F, P, start, total
        <3> QED
            BY <1>1, <1>2, <1>7
    <2> QED
        BY <2>1 DEF n, op

\* In the middle of the loop: an orphan is not in the block index, and its parent is there
\* only if its chain is invalid or its turn is still to come.
Waits(s) ==
    \A c \in ToSet(s.orphans) :
        /\ c \notin s.index
        /\ Parent[c] \in s.index =>
            ~ValidChain[Parent[c]] \/ \E j \in 1 .. Len(s.queue) : s.queue[j] = Parent[c]

\* Within a turn, after the first k orphans: u is the state and left what remains of
\* them.  Every block that was stored since is in the queue, behind the one whose turn it
\* is, or has an invalid chain, and the queue grew no faster than left did not.
Turned(s, waiting, k, u, left) ==
    /\ u \in States /\ left \in Seq(Blocks)
    /\ u.orphans = s.orphans
    /\ s.index \subseteq u.index /\ u.index \subseteq s.index \cup waiting
    /\ Len(s.queue) <= Len(u.queue)
    /\ \A j \in 1 .. Len(s.queue) : u.queue[j] = s.queue[j]
    /\ \A b \in u.index \ s.index :
        ~ValidChain[b] \/ \E j \in 2 .. Len(u.queue) : u.queue[j] = b
    /\ Len(u.queue) + Len(left) <= Len(s.queue) + k
    /\ \A j \in 1 .. Len(left) : left[j] \in ToSet(s.orphans) \ waiting

LEMMA TurnStep ==
    ASSUME NEW s \in States, Len(s.queue) > 0, NEW waiting, NEW k \in Nat, NEW u, NEW left,
           Turned(s, waiting, k, u, left), NEW x \in ToSet(s.orphans), x \in Blocks
    PROVE  Turned(s, waiting, k + 1,
                  IF x \in waiting THEN AcceptOrphan(u, x) ELSE u,
                  IF x \in waiting THEN left ELSE Append(left, x))
<1> DEFINE n == Len(s.queue)
           m == Len(u.queue)
           l == Len(left)
<1>1. /\ u \in States /\ left \in Seq(Blocks) /\ u.queue \in Seq(Blocks) /\ s.queue \in Seq(Blocks)
      /\ n \in Nat /\ m \in Nat /\ Len(left) \in Nat
    <2>1. u \in States /\ left \in Seq(Blocks)
        BY DEF Turned
    <2>2. u.queue \in Seq(Blocks) /\ s.queue \in Seq(Blocks)
        BY <2>1 DEF States
    <2> QED
        BY <2>1, <2>2
<1>2. m + l <= n + k
    BY DEF Turned
<1>3. CASE x \in waiting
    <2> DEFINE a == AcceptOrphan(u, x)
    <2>1. /\ a \in States /\ a.orphans = u.orphans /\ a.index \in {u.index, u.index \cup {x}}
          /\ a.queue \in {u.queue, Append(u.queue, x)}
          /\ a.index # u.index => a.queue = Append(u.queue, x) \/ ~ValidChain[x]
        BY <1>1, AcceptOrphanIs DEF Stores
    <2> HIDE DEF a
    <2>2. /\ Len(a.queue) \in {m, m + 1}
          /\ \A j \in 1 .. m : a.queue[j] = u.queue[j]
          /\ a.queue = Append(u.queue, x) => Len(a.queue) = m + 1 /\ a.queue[m + 1] = x
        <3> DEFINE v == u.queue
                   w == a.queue
        <3>1. v \in Seq(Blocks) /\ w \in {v, Append(v, x)}
            BY <1>1, <2>1
        <3> HIDE DEF v, w
        <3>2. /\ Len(Append(v, x)) = Len(v) + 1 /\ Append(v, x)[Len(v) + 1] = x
              /\ \A j \in 1 .. Len(v) : Append(v, x)[j] = v[j]
            BY <3>1
        <3> QED
            BY <3>1, <3>2 DEF v, w
    <2>3. Len(s.queue) <= Len(a.queue) /\ \A j \in 1 .. n : a.queue[j] = s.queue[j]
        BY <1>1, <2>2 DEF Turned
    <2>4. ASSUME NEW b \in a.index \ s.index
          PROVE  ~ValidChain[b] \/ \E j \in 2 .. Len(a.queue) : a.queue[j] = b
        <3>1. CASE b \in u.index
            <4>1. ~ValidChain[b] \/ \E j \in 2 .. m : u.queue[j] = b
                BY <3>1, <2>4 DEF Turned
            <4> QED
                BY <1>1, <2>2, <4>1
        <3>2. CASE b \notin u.index
            <4>1. b = x /\ a.index # u.index
                BY <2>1, <2>4, <3>2
            <4>2. m + 1 \in 2 .. m + 1
                BY <1>1 DEF Turned
            <4> QED
                BY <2>1, <2>2, <4>1, <4>2
        <3> QED
            BY <3>1, <3>2
    <2>5. Len(a.queue) + Len(left) <= Len(s.queue) + (k + 1)
        <3> DEFINE w == Len(a.queue)
        <3>1. w = m \/ w = m + 1
            BY <2>2
        <3>2. m \in Nat /\ l \in Nat /\ n \in Nat
            BY <1>1
        <3> HIDE DEF w, m, l, n
        <3>3. w + l <= n + (k + 1)
            BY <1>2, <3>1, <3>2
        <3> QED
            BY <3>3 DEF w, l, n
    <2>6. Turned(s, waiting, k + 1, a, left)
        BY <1>1, <1>3, <2>1, <2>3, <2>4, <2>5 DEF Turned
    <2> QED
        BY <1>3, <2>6 DEF a
<1>4. CASE x \notin waiting
    <2> DEFINE d == Append(left, x)
    <2>1. /\ d \in Seq(Blocks) /\ Len(d) = Len(left) + 1
          /\ \A j \in 1 .. Len(d) : d[j] = x \/ (j \in 1 .. Len(left) /\ d[j] = left[j])
        BY <1>1
    <2> HIDE DEF d
    <2>2. \A j \in 1 .. Len(d) : d[j] \in ToSet(s.orphans) \ waiting
        BY <1>4, <2>1 DEF Turned
    <2>3. Len(u.queue) + Len(d) <= Len(s.queue) + (k + 1)
        <3> DEFINE w == Len(d)
        <3>1. w = l + 1
            BY <2>1
        <3>2. m \in Nat /\ l \in Nat /\ n \in Nat
            BY <1>1
        <3> HIDE DEF w, m, l, n
        <3>3. m + w <= n + (k + 1)
            BY <1>2, <3>1, <3>2
        <3> QED
            BY <3>3 DEF w, m, n
    <2>4. Turned(s, waiting, k + 1, u, d)
        BY <2>1, <2>2, <2>3 DEF Turned
    <2> QED
        BY <1>4, <2>4 DEF d
<1> QED
    BY <1>3, <1>4

\* The blocks there may still be a turn for.
ToDo(s) == Len(s.queue) + Len(s.orphans)

\* A turn that has a block to work for leaves less to do.
LEMMA TurnIs ==
    ASSUME NEW s \in States, s.queue # <<>>, Waits(s)
    PROVE  /\ AcceptOrphansOf(s) \in States
           /\ Waits(AcceptOrphansOf(s))
           /\ ToDo(AcceptOrphansOf(s)) <= ToDo(s) - 1
<1> DEFINE q == s.orphans
           n == Len(q)
           waiting == WaitingFor(q, Head(s.queue))
           FU == [a \in States \X (1 .. n) |->
                    IF q[a[2]] \in waiting THEN AcceptOrphan(a[1], q[a[2]]) ELSE a[1]]
           FD == [a \in Seq(Blocks) \X (1 .. n) |->
                    IF q[a[2]] \in waiting THEN a[1] ELSE Append(a[1], q[a[2]])]
           end == AcceptAll(s, waiting, q)
           left == DropAll(q, waiting)
           t == AcceptOrphansOf(s)
<1>1. /\ q \in Seq(Blocks) /\ s.queue \in Seq(Blocks) /\ n \in Nat
      /\ DOMAIN q = 1 .. n /\ ToSet(q) = {q[i] : i \in 1 .. n}
    BY DEF States, ToSet
<1>2. Len(s.queue) > 0 /\ Len(s.queue) \in Nat
    BY <1>1
<1>3. PICK u \in [0 .. n -> States] : Runs(u, n, s, FU) /\ u[n] = end
    <2>1. LoopEnds(n, States, s, FU, end)
        BY <1>1, TurnLoop
    <2> QED
        BY <2>1 DEF LoopEnds
<1>4. PICK d \in [0 .. n -> Seq(Blocks)] : Runs(d, n, <<>>, FD) /\ d[n] = left
    <2>1. LoopEnds(n, Seq(Blocks), <<>>, FD, left)
        BY <1>1, DropAllLoop
    <2> QED
        BY <2>1 DEF LoopEnds
<1>5. t = [end EXCEPT !.queue = Tail(@), !.orphans = DropAll(@, waiting)]
    BY DEF AcceptOrphansOf
<1> DEFINE T == {k \in 0 .. n : Turned(s, waiting, k, u[k], d[k])}
<1> HIDE DEF n, end, left, t, waiting
<1>6. 0 \in T
    <2>1. u[0] = s /\ d[0] = <<>>
        BY <1>3, <1>4 DEF Runs
    <2>2. Turned(s, waiting, 0, s, <<>>)
        BY <1>1, <1>2 DEF Turned
    <2> QED
        BY <1>1, <2>1, <2>2
<1>7. ASSUME NEW k \in 0 .. n, k \in T, k < n PROVE k + 1 \in T
    <2> DEFINE x == q[k + 1]
    <2>1. k \in Nat /\ k + 1 \in 1 .. n /\ (k + 1) - 1 = k /\ k + 1 \in 0 .. n
        BY <1>1, <1>7
    <2>2. x \in ToSet(q) /\ x \in Blocks
        BY <1>1, <2>1
    <2>3. u[k + 1] = IF x \in waiting THEN AcceptOrphan(u[k], x) ELSE u[k]
        <3>1. u[k + 1] = FU[<<u[k], k + 1>>] /\ u[k] \in States
            BY <1>3, <2>1 DEF Runs
        <3> QED
            BY <2>1, <3>1
    <2>4. d[k + 1] = IF x \in waiting THEN d[k] ELSE Append(d[k], x)
        <3>1. d[k + 1] = FD[<<d[k], k + 1>>] /\ d[k] \in Seq(Blocks)
            BY <1>4, <2>1 DEF Runs
        <3> DEFINE S == Seq(Blocks)
        <3>2. FD = [a \in S \X (1 .. n) |->
                        IF q[a[2]] \in waiting THEN a[1] ELSE Append(a[1], q[a[2]])]
            OBVIOUS
        <3> HIDE DEF S, FD
        <3> QED
            BY <2>1, <3>1, <3>2 DEF S
    <2> HIDE DEF x
    <2>5. Turned(s, waiting, k + 1, u[k + 1], d[k + 1])
        BY <1>2, <1>7, <2>1, <2>2, <2>3, <2>4, TurnStep
    <2> QED
        BY <2>1, <2>5
<1>8. Turned(s, waiting, n, end, left)
    <2>1. n \in T
        <3>1. 0 .. n \subseteq T
            <4> HIDE DEF T
            <4> QED
                BY <1>1, <1>6, <1>7, InductionTo
        <3> HIDE DEF T
        <3> QED
            BY <1>1, <3>1
    <2> QED
        BY <1>3, <1>4, <2>1
<1>9. /\ end \in States /\ left \in Seq(Blocks) /\ end.queue \in Seq(Blocks)
      /\ Len(end.queue) \in Nat /\ Len(end.queue) > 0 /\ Len(left) \in Nat
    <2>1. end \in States /\ left \in Seq(Blocks) /\ Len(s.queue) <= Len(end.queue)
        BY <1>8 DEF Turned
    <2>2. end.queue \in Seq(Blocks)
        BY <2>1 DEF States
    <2> QED
        BY <1>2, <2>1, <2>2
<1>10. /\ t \in States /\ t.queue = Tail(end.queue) /\ t.orphans = left /\ t.index = end.index
    <2>1. end.orphans = q
        BY <1>8 DEF Turned
    <2> DEFINE tail == Tail(end.queue)
    <2>2. tail \in Seq(Blocks)
        BY <1>9
    <2>3. t = [end EXCEPT !.queue = tail, !.orphans = left]
        BY <1>5, <2>1 DEF left
    <2> HIDE DEF tail
    <2>4. t \in States /\ t.queue = tail /\ t.orphans = left /\ t.index = end.index
        BY <1>9, <2>2, <2>3 DEF States
    <2> QED
        BY <2>4 DEF tail
<1>11. /\ Len(t.queue) = Len(end.queue) - 1
       /\ \A j \in 2 .. Len(end.queue) : t.queue[j - 1] = end.queue[j]
    BY <1>9, <1>10
<1>12. ToDo(t) <= ToDo(s) - 1
    <2>1. Len(end.queue) + Len(left) <= Len(s.queue) + n
        BY <1>8 DEF Turned
    <2> DEFINE before == Len(s.queue)
               after == Len(end.queue)
               rest == Len(left)
    <2>2. /\ Len(t.queue) = after - 1 /\ Len(t.orphans) = rest /\ Len(s.orphans) = n
          /\ before \in Nat /\ after \in Nat /\ rest \in Nat /\ n \in Nat
        BY <1>1, <1>2, <1>9, <1>10, <1>11 DEF n
    <2>3. after + rest <= before + n
        BY <2>1
    <2>4. ToDo(t) = (after - 1) + rest /\ ToDo(s) = before + n
        BY <2>2 DEF ToDo
    <2> HIDE DEF before, after, rest, ToDo
    <2>5. (after - 1) + rest <= (before + n) - 1
        BY <2>2, <2>3
    <2> QED
        BY <2>4, <2>5
<1>13. ASSUME NEW c \in ToSet(t.orphans)
       PROVE  /\ c \notin t.index
              /\ Parent[c] \in t.index =>
                    ~ValidChain[Parent[c]] \/ \E j \in 1 .. Len(t.queue) : t.queue[j] = Parent[c]
    <2>1. c \in ToSet(q) /\ c \notin waiting
        <3>1. PICK j \in 1 .. Len(left) : c = left[j]
            BY <1>9, <1>10 DEF ToSet
        <3> QED
            BY <1>8, <3>1 DEF Turned
    <2>2. c \notin s.index
        BY <2>1 DEF Waits
    <2>3. c \notin t.index
        BY <1>8, <1>10, <2>1, <2>2 DEF Turned
    <2>4. ASSUME NEW j \in 2 .. Len(end.queue)
          PROVE  \E i \in 1 .. Len(t.queue) : t.queue[i] = end.queue[j]
        <3>1. j - 1 \in 1 .. Len(t.queue)
            BY <1>9, <1>11
        <3> QED
            BY <1>11, <3>1
    <2>5. CASE Parent[c] \in s.index
        <3>1. CASE ~ValidChain[Parent[c]]
            BY <2>3, <3>1
        <3>2. CASE ValidChain[Parent[c]]
            <4>1. PICK j \in 1 .. Len(s.queue) : s.queue[j] = Parent[c]
                BY <2>1, <2>5, <3>2 DEF Waits
            <4>2. j # 1
                <5>1. Parent[c] # Head(s.queue)
                    BY <2>1 DEF WaitingFor, waiting
                <5>2. Head(s.queue) = s.queue[1]
                    BY <1>1, <1>2
                <5> QED
                    BY <4>1, <5>1, <5>2
            <4>3. j \in 2 .. Len(end.queue) /\ end.queue[j] = Parent[c]
                BY <1>2, <1>8, <1>9, <4>1, <4>2 DEF Turned
            <4> QED
                BY <2>3, <2>4, <4>3
        <3> QED
            BY <3>1, <3>2
    <2>6. CASE Parent[c] \in t.index \ s.index
        <3>1. ~ValidChain[Parent[c]] \/ \E j \in 2 .. Len(end.queue) : end.queue[j] = Parent[c]
            BY <1>8, <1>10, <2>6 DEF Turned
        <3> QED
            BY <2>3, <2>4, <3>1
    <2> QED
        BY <2>3, <2>5, <2>6
<1> QED
    <2>1. Waits(t)
        BY <1>13 DEF Waits
    <2> QED
        BY <1>10, <1>12, <2>1 DEF t

WaitingStates == {s \in States : Waits(s)}

LEMMA TurnKeepsWaiting ==
    ASSUME NEW s \in WaitingStates
    PROVE  AcceptOrphansOf(s) \in WaitingStates
<1>1. CASE s.queue = <<>>
    BY <1>1 DEF AcceptOrphansOf
<1>2. CASE s.queue # <<>>
    BY <1>2, TurnIs DEF WaitingStates
<1> QED
    BY <1>1, <1>2

\* The loop over vWorkQueue.
LEMMA QueueLoop ==
    ASSUME NEW q \in Seq(Blocks), NEW s0 \in WaitingStates
    PROVE  LoopEnds(Len(q), WaitingStates, s0,
                    [a \in WaitingStates \X (1 .. Len(q)) |-> AcceptOrphansOf(a[1])],
                    AcceptDescendants(s0, q))
<1> DEFINE n == Len(q)
           P == WaitingStates
           start == s0
           op(r, x) == AcceptOrphansOf(r)
           F == [a \in P \X (1 .. n) |-> op(a[1], q[a[2]])]
           Body(g) == g = [s \in SUBSET DOMAIN q |->
                              IF s = {} THEN start ELSE op(g[s \ {Max(s)}], q[Max(s)])]
           total == CHOOSE g : Body(g)
<1>1. AcceptDescendants(s0, q) = total[DOMAIN q]
    BY DEF AcceptDescendants, FoldLeft, MapThenFoldSet
<1>2. n \in Nat /\ DOMAIN q = 1 .. n /\ start \in P
    OBVIOUS
<1> HIDE DEF n
<1>3. F \in [P \X (1 .. n) -> P]
    <2>1. ASSUME NEW r \in P, NEW i \in 1 .. n PROVE op(r, q[i]) \in P
        BY TurnKeepsWaiting
    <2> HIDE DEF P, op
    <2> QED
        BY <2>1
<1>4. ASSUME NEW s \in (SUBSET (1 .. n)) \ {{}}, NEW g, g[s \ {Max(s)}] \in P
      PROVE  F[<<g[s \ {FromLast(n)[s]}], FromLast(n)[s]>>] = op(g[s \ {Max(s)}], q[Max(s)])
    <2>1. FromLast(n)[s] = Max(s) /\ Max(s) \in 1 .. n
        BY <1>2, FromLastPicks DEF FromLast, Picks
    <2> HIDE DEF P, op
    <2> QED
        BY <1>4, <2>1
<1> HIDE DEF op
<1>5. Body(total)
    <2>1. PICK g \in [SUBSET (1 .. n) -> P] : IsFold(g, 1 .. n, start, F, FromLast(n))
        <3> HIDE DEF F, P, total, Body, start
        <3> QED
            BY <1>2, <1>3, LeftFoldExists
    <2> HIDE DEF F, P, start
    <2>2. Body(g)
        <3>1. ASSUME NEW s \in (SUBSET (1 .. n)) \ {{}}
              PROVE  g[s] = op(g[s \ {Max(s)}], q[Max(s)])
            <4>1. g[s \ {Max(s)}] \in P
                OBVIOUS
            <4> QED
                BY <1>4, <2>1, <4>1 DEF IsFold, Folds
        <3>2. g[{}] = start
            BY <2>1 DEF IsFold, Folds
        <3> QED
            BY <1>2, <3>1, <3>2
    <2> HIDE DEF Body
    <2> QED
        BY <2>2
<1>6. IsFoldIn(total, 1 .. n, P, start, F, FromLast(n))
    <2> HIDE DEF total, F, P, start
    <2>1. ASSUME NEW s \in SUBSET (1 .. n), s # {}, total[s \ {FromLast(n)[s]}] \in P
          PROVE  total[s] = F[<<total[s \ {FromLast(n)[s]}], FromLast(n)[s]>>]
        <3>1. FromLast(n)[s] = Max(s)
            BY <2>1 DEF FromLast
        <3>2. total[s] = op(total[s \ {Max(s)}], q[Max(s)])
            BY <1>2, <1>5, <2>1
        <3> QED
            BY <1>4, <2>1, <3>1, <3>2
    <2>2. total[{}] = start
        BY <1>5
    <2> QED
        BY <2>1, <2>2 DEF IsFoldIn, Folds
<1>7. LoopEnds(n, P, start, F, total[1 .. n])
    <2> HIDE DEF total, F, P, start, Body
    <2> QED
        BY <1>2, <1>3, <1>6, LeftFold
<1> QED
    <2>1. LoopEnds(n, P, start, F, AcceptDescendants(s0, q))
        <3> HIDE DEF F, P, start, total
        <3> QED
            BY <1>1, <1>2, <1>7
    <2> QED
        BY <2>1 DEF n, op

\* It ends with an empty queue, after no more turns than there were blocks.
LEMMA QueueEmpties ==
    ASSUME NEW s \in WaitingStates, NEW q \in Seq(Blocks),
           ToDo(s) <= Len(q)
    PROVE  /\ AcceptDescendants(s, q) \in WaitingStates
           /\ AcceptDescendants(s, q).queue = <<>>
<1> DEFINE n == Len(q)
           F == [a \in WaitingStates \X (1 .. n) |-> AcceptOrphansOf(a[1])]
           e == AcceptDescendants(s, q)
<1>1. n \in Nat
    OBVIOUS
<1>2. PICK h \in [0 .. n -> WaitingStates] : Runs(h, n, s, F) /\ h[n] = e
    <2>1. LoopEnds(n, WaitingStates, s, F, e)
        BY QueueLoop
    <2> QED
        BY <2>1 DEF LoopEnds
<1>3. ASSUME NEW r \in WaitingStates
      PROVE  /\ r \in States /\ Waits(r) /\ r.queue \in Seq(Blocks)
             /\ ToDo(r) \in Nat /\ (ToDo(r) = 0 => r.queue = <<>>)
    <2>1. r \in States /\ Waits(r) /\ r.queue \in Seq(Blocks) /\ r.orphans \in Seq(Blocks)
        BY DEF WaitingStates, States
    <2> DEFINE x == r.queue
               y == r.orphans
    <2>2. x \in Seq(Blocks) /\ y \in Seq(Blocks)
        BY <2>1
    <2> HIDE DEF x, y
    <2>3. /\ Len(x) + Len(y) \in Nat
          /\ Len(x) + Len(y) = 0 => x = <<>>
        BY <2>2
    <2> QED
        BY <2>1, <2>3 DEF x, y, ToDo
<1> DEFINE T == {k \in 0 .. n : h[k].queue = <<>> \/ ToDo(h[k]) <= n - k}
<1> HIDE DEF n, e
<1>4. 0 \in T
    <2>1. h[0] = s
        BY <1>2 DEF Runs
    <2>2. ToDo(s) <= n - 0 /\ 0 \in 0 .. n
        BY <1>1, <1>3 DEF n
    <2> QED
        BY <2>1, <2>2
<1>5. ASSUME NEW k \in 0 .. n, k \in T, k < n PROVE k + 1 \in T
    <2>1. k + 1 \in 1 .. n /\ (k + 1) - 1 = k /\ k + 1 \in 0 .. n /\ h[k] \in WaitingStates
        BY <1>1, <1>5
    <2>2. h[k + 1] = AcceptOrphansOf(h[k])
        <3>1. h[k + 1] = F[<<h[k], k + 1>>]
            BY <1>2, <2>1 DEF Runs
        <3> QED
            BY <2>1, <3>1
    <2>3. CASE h[k].queue = <<>>
        BY <2>1, <2>2, <2>3 DEF AcceptOrphansOf
    <2>4. CASE h[k].queue # <<>>
        <3>1. ToDo(h[k + 1]) <= ToDo(h[k]) - 1
            <4> DEFINE r == h[k]
            <4>1. r \in States /\ Waits(r) /\ r.queue # <<>> /\ h[k + 1] = AcceptOrphansOf(r)
                BY <1>3, <2>1, <2>2, <2>4
            <4> HIDE DEF r
            <4>2. ToDo(AcceptOrphansOf(r)) <= ToDo(r) - 1
                BY <4>1, TurnIs
            <4> QED
                BY <4>1, <4>2 DEF r
        <3>2. ToDo(h[k]) <= n - k
            BY <1>5, <2>4
        <3>3. ToDo(h[k]) \in Int /\ ToDo(h[k + 1]) \in Int
            BY <1>3, <2>1
        <3>4. ToDo(h[k + 1]) <= n - (k + 1)
            BY <1>1, <3>1, <3>2, <3>3
        <3> QED
            BY <2>1, <3>4
    <2> QED
        BY <2>3, <2>4
<1>6. n \in T
    <2>1. 0 .. n \subseteq T
        <3> HIDE DEF T
        <3> QED
            BY <1>1, <1>4, <1>5, InductionTo
    <2> HIDE DEF T
    <2> QED
        BY <1>1, <2>1
<1>7. e \in WaitingStates
    BY <1>1, <1>2
<1>8. e.queue = <<>>
    <2>1. e.queue = <<>> \/ ToDo(e) <= n - n
        BY <1>2, <1>6
    <2>2. ToDo(e) \in Nat /\ (ToDo(e) = 0 => e.queue = <<>>)
        BY <1>3, <1>7
    <2> QED
        BY <1>1, <2>1, <2>2
<1> QED
    BY <1>7, <1>8 DEF e

-----------------------------------------------------------------------------
\* The invariant

PoolInv == IsPool(pool)

BlocksInv ==
    /\ mapBlockIndex \subseteq Blocks /\ failed \subseteq Blocks
    /\ pindexBest \in Blocks /\ orphanBlocks \in Seq(Blocks) /\ pruned \in SUBSET Txids

MemPoolInv == PoolInv /\ OrphanInv /\ BlocksInv /\ OrphanBlocksWait

LEMMA NoTxsIs == IsPool(NoTxs) /\ IsBook(NoOrphans, MaxOrphans)
<1>1. IsPool(NoTxs)
    <2>1. Points({}) = {}
        BY DEF Points
    <2>2. <<>> = [o \in {} |-> <<>>[o]]
        OBVIOUS
    <2>3. IsFiniteSet({})
        BY FS_EmptySet
    <2> DEFINE none == {}
               next == <<>>
    <2>4. /\ none \in SUBSET Txids /\ IsFiniteSet(none) /\ next = [o \in Points(none) |-> next[o]]
          /\ \A t \in none : \A o \in Points({t}) : next[o] = t
        BY <2>1, <2>2, <2>3
    <2>5. NoTxs = [mapTx |-> none, mapNextTx |-> next]
        BY DEF NoTxs
    <2> HIDE DEF none, next
    <2> QED
        BY <2>4, <2>5, PoolIs
<1>2. IsBook(NoOrphans, MaxOrphans)
    <2>1. NoOrphans.txs = {} /\ NoOrphans.byPrev = <<>> /\ DOMAIN <<>> = {}
        BY DEF NoOrphans
    <2>2. Book({}, {}) = NoOrphans
        <3>1. <<>> = [h \in {} |-> {t \in {} : h \in Prevs(t)}]
            OBVIOUS
        <3> QED
            BY <3>1 DEF Book, NoOrphans
    <2>3. IsFiniteSet({}) /\ Cardinality({}) = 0 /\ MaxOrphans \in Nat
        BY FS_EmptySet, MemPoolAssumption DEF MemPoolAssumption
    <2> QED
        BY <2>1, <2>2, <2>3 DEF IsBook
<1> QED
    BY <1>1, <1>2

LEMMA InitInv == Init => MemPoolInv
<1> SUFFICES ASSUME Init PROVE MemPoolInv
    OBVIOUS
<1>1. PoolInv /\ OrphanInv
    BY NoTxsIs DEF Init, PoolInv, OrphanInv
<1>2. BlocksInv
    BY BlockTreeAssumption DEF Init, BlocksInv, BlockTreeAssumption
<1>3. OrphanBlocksWait
    BY DEF Init, OrphanBlocksWait, ToSet
<1> QED
    BY <1>1, <1>2, <1>3 DEF MemPoolInv

LEMMA RestartKeeps ==
    ASSUME MemPoolInv, Restart
    PROVE  MemPoolInv'
<1>1. pool' = NoTxs /\ orphans' = NoOrphans /\ orphanBlocks' = <<>> /\ pruned' = {}
      /\ UNCHANGED <<mapBlockIndex, failed, pindexBest>>
    BY DEF Restart
<1>2. PoolInv' /\ OrphanInv'
    BY <1>1, NoTxsIs DEF PoolInv, OrphanInv
<1>3. BlocksInv'
    BY <1>1 DEF MemPoolInv, BlocksInv
<1>4. OrphanBlocksWait'
    BY <1>1 DEF OrphanBlocksWait, ToSet
<1> QED
    BY <1>2, <1>3, <1>4 DEF MemPoolInv

LEMMA ReceiveTxKeeps ==
    ASSUME MemPoolInv, NEW t \in Txids, ReceiveTx(t)
    PROVE  MemPoolInv'
<1>1. UNCHANGED <<orphanBlocks, mapBlockIndex, failed, pindexBest, pruned>>
    BY DEF ReceiveTx
<1>2. BlocksInv' /\ OrphanBlocksWait'
    BY <1>1 DEF MemPoolInv, BlocksInv, OrphanBlocksWait
<1>3. MaxOrphans \in Nat /\ IsBook(orphans, MaxOrphans) /\ IsPool(pool)
    BY MemPoolAssumption DEF MemPoolAssumption, MemPoolInv, PoolInv, OrphanInv
<1>4. \/ /\ Verdict(pindexBest, pool, t, TRUE, pruned) = "ok"
         /\ pool' = AddUnchecked(pool, t)
         /\ orphans' = ProcessOrphansOf(orphans, pool', t)
      \/ /\ orphans' \in LimitOrphanTxSize(AddOrphanTx(orphans, t))
         /\ UNCHANGED pool
    BY DEF ReceiveTx
<1>5. CASE /\ Verdict(pindexBest, pool, t, TRUE, pruned) = "ok"
           /\ pool' = AddUnchecked(pool, t)
           /\ orphans' = ProcessOrphansOf(orphans, pool', t)
    <2>1. IsPool(pool')
        BY <1>3, <1>5, OkIsNew, AddKeepsPool
    <2>2. IsBook(orphans', MaxOrphans)
        BY <1>3, <1>5, ProcessKeepsBook
    <2> QED
        BY <1>2, <2>1, <2>2 DEF MemPoolInv, PoolInv, OrphanInv
<1>6. CASE orphans' \in LimitOrphanTxSize(AddOrphanTx(orphans, t)) /\ UNCHANGED pool
    <2> DEFINE o == AddOrphanTx(orphans, t)
    <2>1. IsBook(o, MaxOrphans + 1)
        BY <1>3, AddKeepsBook
    <2> HIDE DEF o
    <2>2. CASE Cardinality(o.txs) <= MaxOrphans
        <3>1. orphans' = o
            BY <1>6, <2>2 DEF LimitOrphanTxSize, o
        <3>2. IsBook(orphans', MaxOrphans)
            BY <2>1, <2>2, <3>1 DEF IsBook
        <3> QED
            BY <1>2, <1>3, <1>6, <3>2 DEF MemPoolInv, PoolInv, OrphanInv
    <2>3. CASE ~(Cardinality(o.txs) <= MaxOrphans)
        <3>1. PICK u \in o.txs : orphans' = EraseOrphanTx(o, u)
            BY <1>6, <2>3 DEF LimitOrphanTxSize, o
        <3>2. u \in Txids /\ MaxOrphans + 1 \in Nat /\ (MaxOrphans + 1) - 1 = MaxOrphans
            BY <1>3, <2>1, <3>1 DEF IsBook
        <3>3. IsBook(EraseOrphanTx(o, u), (MaxOrphans + 1) - 1)
            BY <2>1, <3>1, <3>2, EraseKeepsBook
        <3>4. IsBook(orphans', MaxOrphans)
            BY <3>1, <3>2, <3>3
        <3> QED
            BY <1>2, <1>3, <1>6, <3>4 DEF MemPoolInv, PoolInv, OrphanInv
    <2> QED
        BY <2>2, <2>3
<1> QED
    BY <1>4, <1>5, <1>6

\* What AcceptBlock leaves of the state when the block's parent is stored, and the work that
\* ProcessBlock then has: the block is in the queue if it was accepted.
Start(flushing) ==
    [index |-> mapBlockIndex, failed |-> failed, best |-> pindexBest,
     pool |-> pool, pruned |-> pruned, flushing |-> flushing,
     fOk |-> FALSE, queue |-> <<>>, orphans |-> orphanBlocks]

Work(b, flushing) ==
    LET a == AcceptBlock(Start(flushing), b)
    IN  IF a.fOk THEN [a EXCEPT !.queue = <<b>>] ELSE a

LEMMA WorkIs ==
    ASSUME MemPoolInv, NEW b \in Blocks, b \notin mapBlockIndex, b \notin ToSet(orphanBlocks),
           NEW flushing \in SUBSET Blocks
    PROVE  /\ Work(b, flushing) \in WaitingStates
           /\ ToDo(Work(b, flushing)) <= Len(<<b>> \o orphanBlocks)
<1> DEFINE start == Start(flushing)
           a == AcceptBlock(start, b)
           w == Work(b, flushing)
<1>1. /\ start \in States /\ start.index = mapBlockIndex /\ start.queue = <<>>
      /\ start.orphans = orphanBlocks
    <2>1. pool \in Pools
        BY PoolsIs DEF MemPoolInv, PoolInv
    <2> QED
        BY <2>1 DEF Start, States, MemPoolInv, BlocksInv
<1>2. /\ a \in States /\ a.orphans = orphanBlocks /\ a.queue = <<>>
      /\ a.index \in {mapBlockIndex, mapBlockIndex \cup {b}}
      /\ a.index # mapBlockIndex => a.fOk \/ ~ValidChain[b]
    BY <1>1, AcceptIs DEF Stores
<1>3. w = IF a.fOk THEN [a EXCEPT !.queue = <<b>>] ELSE a
    BY DEF Work
<1> HIDE DEF a, w
<1>4. /\ w \in States /\ w.orphans = orphanBlocks /\ w.index = a.index
      /\ w.queue = IF a.fOk THEN <<b>> ELSE <<>>
    <2> DEFINE one == <<b>>
    <2>1. one \in Seq(Blocks)
        OBVIOUS
    <2> HIDE DEF one
    <2>2. CASE a.fOk
        BY <1>2, <1>3, <2>1, <2>2 DEF States, one
    <2>3. CASE ~a.fOk
        BY <1>2, <1>3, <2>3
    <2> QED
        BY <2>2, <2>3
<1>5. ASSUME NEW c \in ToSet(orphanBlocks)
      PROVE  /\ c \notin w.index
             /\ Parent[c] \in w.index =>
                    ~ValidChain[Parent[c]] \/ \E j \in 1 .. Len(w.queue) : w.queue[j] = Parent[c]
    <2>1. c \notin mapBlockIndex /\ (Parent[c] \in mapBlockIndex => ~ValidChain[Parent[c]])
        BY DEF MemPoolInv, OrphanBlocksWait
    <2>2. c # b
        OBVIOUS
    <2>3. CASE Parent[c] \in w.index /\ ValidChain[Parent[c]]
        <3>1. Parent[c] = b /\ a.index # mapBlockIndex
            BY <1>2, <1>4, <2>1, <2>3
        <3>2. w.queue = <<b>>
            BY <1>2, <1>4, <2>3, <3>1
        <3>3. 1 \in 1 .. Len(w.queue) /\ w.queue[1] = b
            BY <3>2
        <3> QED
            BY <1>2, <1>4, <2>1, <2>2, <3>1, <3>3
    <2> QED
        BY <1>2, <1>4, <2>1, <2>2, <2>3
<1>6. Waits(w)
    BY <1>4, <1>5 DEF Waits
<1>7. ToDo(w) <= Len(<<b>> \o orphanBlocks)
    <2> DEFINE l == Len(orphanBlocks)
               m == Len(w.queue)
    <2>1. orphanBlocks \in Seq(Blocks) /\ l \in Nat
        BY DEF MemPoolInv, BlocksInv
    <2>2. m \in {0, 1}
        BY <1>4
    <2>3. Len(<<b>> \o orphanBlocks) = 1 + l
        BY <2>1
    <2>4. ToDo(w) = m + l
        BY <1>4 DEF ToDo
    <2> HIDE DEF l, m
    <2>5. m + l <= 1 + l
        BY <2>1, <2>2
    <2> QED
        BY <2>3, <2>4, <2>5
<1> QED
    BY <1>4, <1>6, <1>7 DEF w, WaitingStates

LEMMA ProcessBlockKeeps ==
    ASSUME MemPoolInv, NEW b \in Blocks, ProcessBlock(b)
    PROVE  MemPoolInv'
<1>1. b \notin mapBlockIndex /\ b \notin ToSet(orphanBlocks) /\ UNCHANGED orphans
    BY DEF ProcessBlock
<1>2. OrphanInv'
    BY <1>1 DEF MemPoolInv, OrphanInv
<1>3. CASE Parent[b] \notin mapBlockIndex
    <2>1. /\ orphanBlocks' = Append(orphanBlocks, b)
          /\ UNCHANGED <<mapBlockIndex, failed, pindexBest, pool, pruned>>
        BY <1>3 DEF ProcessBlock
    <2>2. orphanBlocks \in Seq(Blocks)
        BY DEF MemPoolInv, BlocksInv
    <2>3. orphanBlocks' \in Seq(Blocks) /\ ToSet(orphanBlocks') = ToSet(orphanBlocks) \cup {b}
        BY <2>1, <2>2 DEF ToSet
    <2>4. PoolInv' /\ BlocksInv'
        BY <2>1, <2>3 DEF MemPoolInv, PoolInv, BlocksInv
    <2>5. OrphanBlocksWait'
        BY <1>1, <1>3, <2>1, <2>3 DEF MemPoolInv, OrphanBlocksWait
    <2> QED
        BY <1>2, <2>4, <2>5 DEF MemPoolInv
<1>4. CASE Parent[b] \in mapBlockIndex
    <2> DEFINE done(f) == AcceptDescendants(Work(b, f), <<b>> \o orphanBlocks)
    <2>7. PICK flushing \in FlushSets :
            /\ mapBlockIndex' = done(flushing).index /\ failed' = done(flushing).failed
            /\ pindexBest' = done(flushing).best /\ pool' = done(flushing).pool
            /\ pruned' = done(flushing).pruned /\ orphanBlocks' = done(flushing).orphans
        BY <1>4 DEF ProcessBlock, Becomes, Work, Start
    <2> DEFINE e == done(flushing)
    <2>8. flushing \in SUBSET Blocks
        BY MemPoolAssumption DEF MemPoolAssumption
    <2>1. /\ mapBlockIndex' = e.index /\ failed' = e.failed /\ pindexBest' = e.best
          /\ pool' = e.pool /\ pruned' = e.pruned /\ orphanBlocks' = e.orphans
        BY <2>7
    <2>2. e \in WaitingStates /\ e.queue = <<>>
        <3>1. <<b>> \o orphanBlocks \in Seq(Blocks)
            BY DEF MemPoolInv, BlocksInv
        <3> QED
            BY <1>1, <2>8, <3>1, WorkIs, QueueEmpties
    <2> HIDE DEF e, done
    <2>3. e \in States /\ Waits(e)
        BY <2>2 DEF WaitingStates
    <2>4. PoolInv'
        BY <2>1, <2>3, PoolsIs DEF States, PoolInv
    <2>5. BlocksInv'
        BY <2>1, <2>3 DEF States, BlocksInv
    <2>6. OrphanBlocksWait'
        <3>1. ~(\E j \in 1 .. Len(e.queue) : TRUE)
            BY <2>2
        <3> QED
            BY <2>1, <2>3, <3>1 DEF Waits, OrphanBlocksWait
    <2> QED
        BY <1>2, <2>4, <2>5, <2>6 DEF MemPoolInv
<1> QED
    BY <1>3, <1>4

LEMMA StepInv == MemPoolInv /\ [Next]_vars => MemPoolInv'
<1> SUFFICES ASSUME MemPoolInv, [Next]_vars PROVE MemPoolInv'
    OBVIOUS
<1>1. ASSUME NEW b \in Blocks, ProcessBlock(b) PROVE MemPoolInv'
    BY <1>1, ProcessBlockKeeps
<1>2. ASSUME NEW t \in Txids, ReceiveTx(t) PROVE MemPoolInv'
    BY <1>2, ReceiveTxKeeps
<1>3. CASE Restart
    BY <1>3, RestartKeeps
<1>4. CASE UNCHANGED vars
    BY <1>4 DEF vars, MemPoolInv, PoolInv, OrphanInv, BlocksInv, OrphanBlocksWait
<1> QED
    BY <1>1, <1>2, <1>3, <1>4 DEF Next

\* The pool, the orphan transactions and the orphan blocks keep to the invariant, whatever
\* blocks and transactions arrive in whatever order, and over restarts.
THEOREM MemPoolHolds == Spec => []MemPoolInv
    BY InitInv, StepInv, PTL DEF Spec

\* mapNextTx names for each outpoint the pool spends the one transaction that spends it,
\* and no other outpoint: so no sequence of accept, remove, removeConflicts and
\* reorganisations leaves two pool transactions that spend the same output.
THEOREM PoolMatches == Spec => []NextTxMatches
<1>1. MemPoolInv => NextTxMatches
    <2> SUFFICES ASSUME IsPool(pool) PROVE NextTxMatches
        BY DEF MemPoolInv, PoolInv
    <2>1. DOMAIN pool.mapNextTx = Points(pool.mapTx)
        BY DEF IsPool
    <2> QED
        BY <2>1 DEF IsPool, NextTxMatches, Outpoints
<1> QED
    BY <1>1, MemPoolHolds, PTL

\* mapOrphanTransactionsByPrev and mapOrphanTransactions describe the same transactions,
\* at most MAX_ORPHAN_TRANSACTIONS of them, after each add, erase and random eviction.
THEOREM OrphansIndexed == Spec => []OrphansAreIndexed
<1>1. MemPoolInv => OrphansAreIndexed
    <2> SUFFICES ASSUME IsBook(orphans, MaxOrphans) PROVE OrphansAreIndexed
        BY DEF MemPoolInv, OrphanInv
    <2> DEFINE D == DOMAIN orphans.byPrev
    <2>1. ASSUME NEW h \in D PROVE orphans.byPrev[h] = {t \in orphans.txs : h \in Prevs(t)}
        <3> DEFINE T == orphans.txs
        <3>1. orphans = Book(T, D)
            BY DEF IsBook
        <3> HIDE DEF T, D
        <3>2. Book(T, D).byPrev[h] = {t \in T : h \in Prevs(t)}
            BY BookIs
        <3> QED
            BY <3>1, <3>2 DEF T
    <2>2. ASSUME NEW t \in orphans.txs, NEW in \in ToSet(TxIn[t])
          PROVE  in.hash \in D /\ t \in orphans.byPrev[in.hash]
        <3>1. in.hash \in Prevs(t)
            BY DEF Prevs
        <3> QED
            BY <2>1, <3>1 DEF IsBook
    <2>3. ASSUME NEW h \in D, NEW t \in orphans.byPrev[h]
          PROVE  t \in orphans.txs /\ \E in \in ToSet(TxIn[t]) : in.hash = h
        BY <2>1 DEF Prevs
    <2> QED
        BY <2>2, <2>3 DEF IsBook, OrphansAreIndexed
<1> QED
    BY <1>1, MemPoolHolds, PTL

\* ProcessBlock never leaves an orphan block behind whose parent it has accepted, however
\* the orphans are ordered and however many generations of them one block sets free: the
\* queue is empty after a turn for each of them, and the one whose chain is invalid is the
\* only stored parent an orphan may have.
THEOREM BlocksWait == Spec => []OrphanBlocksWait
<1>1. MemPoolInv => OrphanBlocksWait
    BY DEF MemPoolInv
<1> QED
    BY <1>1, MemPoolHolds, PTL

-----------------------------------------------------------------------------
\* What the coins of a valid chain are

GenesisTxs == ToSet(BlockTxs[Genesis])

\* A transaction that is not the genesis block's has the output.
Made(o) == o.hash \in Txids \ GenesisTxs /\ o.n \in DOMAIN TxOut[o.hash]

IsPoint(o) == o = [hash |-> o.hash, n |-> o.n]

Available(b, o) == \E out \in Utxo(b) : [hash |-> out.hash, n |-> out.n] = o

\* A chain spends only what it made, and has left what it did not spend.
Exact(b) ==
    /\ \A o \in Points(ChainTxs(b)) : o.hash \in ChainTxs(b)
    /\ \A o : IsPoint(o) =>
        (Available(b, o) <=> Made(o) /\ o.hash \in ChainTxs(b) /\ o \notin Points(ChainTxs(b)))

\* An input is an outpoint of a transaction; a coinbase has none, any other has one.
LEMMA InputsIs ==
    ASSUME NEW t \in Txids
    PROVE  /\ Points({t}) = ToSet(TxIn[t])
           /\ \A o \in Points({t}) : IsPoint(o) /\ o.hash \in Txids
           /\ ~IsCoinBase(t) <=> \E o : o \in Points({t})
<1>1. TxIn[t] \in Seq([hash : Txids, n : Nat \ {0}])
    BY TransactionAssumption DEF TransactionAssumption
<1>2. Points({t}) = ToSet(TxIn[t])
    BY DEF Points
<1> DEFINE q == TxIn[t]
           P == [hash : Txids, n : Nat \ {0}]
<1>3. \A o \in P : IsPoint(o) /\ o.hash \in Txids
    BY DEF IsPoint
<1>4. q \in Seq(P)
    BY <1>1
<1> HIDE DEF q, P
<1>5. /\ \A o \in ToSet(q) : o \in P
      /\ q # <<>> <=> \E o : o \in ToSet(q)
    <2>1. Len(q) \in Nat /\ DOMAIN q = 1 .. Len(q) /\ \A i \in 1 .. Len(q) : q[i] \in P
        BY <1>4
    <2>2. q # <<>> <=> Len(q) # 0
        BY <1>4
    <2>3. ToSet(q) = {q[i] : i \in 1 .. Len(q)}
        BY <2>1 DEF ToSet
    <2>4. Len(q) # 0 => 1 \in 1 .. Len(q)
        BY <2>1
    <2>5. Len(q) = 0 => \A i : i \notin 1 .. Len(q)
        BY <2>1
    <2> QED
        BY <2>1, <2>2, <2>3, <2>4, <2>5
<1> QED
    BY <1>2, <1>3, <1>5 DEF q, IsCoinBase

LEMMA PointsOfBoth ==
    ASSUME NEW S, NEW T
    PROVE  Points(S \cup T) = Points(S) \cup Points(T)
    BY DEF Points

\* The transactions of a chain are those of its parent's and its own.
LEMMA ChainTxsIs ==
    /\ ChainTxs(Genesis) = GenesisTxs
    /\ \A b \in Blocks : ChainTxs(b) \subseteq Txids /\ GenesisTxs \subseteq ChainTxs(b)
    /\ \A b \in Blocks \ {Genesis} : ChainTxs(b) = ChainTxs(Parent[b]) \cup ToSet(BlockTxs[b])
<1>1. ChainOf(Genesis) = {Genesis}
    BY GenesisAssumption, BlockTreeAssumption DEF GenesisAssumption, BlockTreeAssumption, ChainOf
<1>2. ChainTxs(Genesis) = GenesisTxs
    BY <1>1 DEF ChainTxs, GenesisTxs
<1>3. ASSUME NEW b \in Blocks PROVE ToSet(BlockTxs[b]) \subseteq Txids /\ b # NoBlock
    <2>1. BlockTxs[b] \in Seq(Txids)
        BY TransactionAssumption DEF TransactionAssumption
    <2> QED
        BY <2>1, BlockTreeAssumption DEF ToSet, BlockTreeAssumption
<1>4. ASSUME NEW b \in Blocks
      PROVE  ChainTxs(b) \subseteq Txids /\ GenesisTxs \subseteq ChainTxs(b)
    <2>1. ChainOf(b) \subseteq Blocks /\ Genesis \in ChainOf(b)
        BY <1>3, SelfOnChain, GenesisOnChain DEF ChainOf
    <2> QED
        BY <1>3, <2>1 DEF ChainTxs, GenesisTxs
<1>5. ASSUME NEW b \in Blocks \ {Genesis}
      PROVE  ChainTxs(b) = ChainTxs(Parent[b]) \cup ToSet(BlockTxs[b])
    <2>1. Parent[b] \in Blocks /\ Ancestry[b] = {b} \cup Ancestry[Parent[b]]
        BY ParentBelow
    <2>2. ChainOf(b) = {b} \cup ChainOf(Parent[b])
        BY <1>3, <2>1 DEF ChainOf
    <2> QED
        BY <2>2 DEF ChainTxs
<1> QED
    BY <1>2, <1>4, <1>5

\* The first transaction of a block, and no other, is a coinbase.
LEMMA VtxIs ==
    ASSUME NEW b \in Blocks
    PROVE  LET vtx == BlockTxs[b]
           IN  /\ Len(vtx) \in Nat \ {0} /\ ToSet(vtx) = {vtx[i] : i \in 1 .. Len(vtx)}
               /\ \A i \in 1 .. Len(vtx) : vtx[i] \in Txids /\ (IsCoinBase(vtx[i]) <=> i = 1)
<1>1. /\ BlockTxs[b] \in Seq(Txids) /\ BlockTxs[b] # <<>>
      /\ \A i \in DOMAIN BlockTxs[b] : TxIn[BlockTxs[b][i]] = <<>> <=> i = 1
    BY TransactionAssumption DEF TransactionAssumption
<1>2. Len(BlockTxs[b]) \in Nat \ {0} /\ DOMAIN BlockTxs[b] = 1 .. Len(BlockTxs[b])
    BY <1>1
<1>3. \A i \in 1 .. Len(BlockTxs[b]) : BlockTxs[b][i] \in Txids
    BY <1>1, <1>2
<1> QED
    BY <1>1, <1>2, <1>3 DEF IsCoinBase, ToSet

\* The coinbase of a block is not in the chain below it.
LEMMA CoinBaseIsNew ==
    ASSUME NEW b \in Blocks \ ({Genesis} \cup BadBlocks)
    PROVE  BlockTxs[b][1] \notin ChainTxs(Parent[b])
<1> SUFFICES ASSUME NEW c \in ChainOf(Parent[b]), BlockTxs[b][1] \in ToSet(BlockTxs[c]) PROVE FALSE
    BY DEF ChainTxs
<1>1. Parent[b] \in Blocks /\ b \in Blocks
    BY ParentBelow
<1>2. c \in Blocks
    <2>1. Parent[b] # NoBlock
        BY <1>1, BlockTreeAssumption DEF BlockTreeAssumption
    <2> QED
        BY <1>1, <2>1, OnChain DEF ChainOf
<1>3. PICK i \in 1 .. Len(BlockTxs[c]) : BlockTxs[b][1] = BlockTxs[c][i]
    <2>1. ToSet(BlockTxs[c]) = {BlockTxs[c][i] : i \in 1 .. Len(BlockTxs[c])}
        BY <1>2, VtxIs
    <2> QED
        BY <2>1
<1>4. IsCoinBase(BlockTxs[b][1])
    <2>1. 1 \in 1 .. Len(BlockTxs[b])
        BY <1>1, VtxIs
    <2> QED
        BY <1>1, <2>1, VtxIs
<1>5. i = 1
    BY <1>2, <1>3, <1>4, VtxIs
<1> QED
    BY <1>3, <1>5, CoinBaseAssumption DEF CoinBaseAssumption

\* Output o is one of outs.
Among(outs, o) == \E out \in outs : [hash |-> out.hash, n |-> out.n] = o

LEMMA OutputsHave ==
    ASSUME NEW t, NEW nHeight, NEW o, IsPoint(o)
    PROVE  Among(OutputsOf(t, nHeight), o) <=> o.hash = t /\ o.n \in DOMAIN TxOut[t]
<1>1. ASSUME NEW out \in OutputsOf(t, nHeight), [hash |-> out.hash, n |-> out.n] = o
      PROVE  o.hash = t /\ o.n \in DOMAIN TxOut[t]
    <2>1. out.hash = t /\ out.n \in DOMAIN TxOut[t]
        BY DEF OutputsOf
    <2> QED
        BY <1>1, <2>1
<1>2. ASSUME o.hash = t, o.n \in DOMAIN TxOut[t] PROVE Among(OutputsOf(t, nHeight), o)
    <2> DEFINE out == [hash |-> t, n |-> o.n, nValue |-> TxOut[t][o.n].nValue,
                       fP2SH |-> TxOut[t][o.n].fP2SH,
                       nHeight |-> nHeight, fCoinBase |-> IsCoinBase(t)]
    <2>1. out \in OutputsOf(t, nHeight)
        BY <1>2 DEF OutputsOf
    <2>2. [hash |-> out.hash, n |-> out.n] = o
        BY <1>2 DEF IsPoint
    <2> HIDE DEF out
    <2> QED
        BY <2>1, <2>2 DEF Among
<1> QED
    BY <1>1, <1>2 DEF Among

\* The outputs of a set of transactions, with those there were, that they do not spend.
LEMMA AfterHas ==
    ASSUME NEW unspent, NEW b, NEW ts, NEW o, IsPoint(o)
    PROVE  Among(After(unspent, b, ts), o)
            <=> /\ Among(unspent, o) \/ (o.hash \in ts /\ o.n \in DOMAIN TxOut[o.hash])
                /\ o \notin Points(ts)
<1> DEFINE new == UNION {OutputsOf(t, Height[b]) : t \in ts}
<1>1. Among(new, o) <=> o.hash \in ts /\ o.n \in DOMAIN TxOut[o.hash]
    <2>1. Among(new, o) <=> \E t \in ts : Among(OutputsOf(t, Height[b]), o)
        BY DEF Among
    <2> HIDE DEF new
    <2> QED
        BY <2>1, OutputsHave
<1>2. Among(After(unspent, b, ts), o) <=> Among(unspent \cup new, o) /\ o \notin Points(ts)
    BY DEF Among, After
<1>3. Among(unspent \cup new, o) <=> Among(unspent, o) \/ Among(new, o)
    BY DEF Among
<1> QED
    BY <1>1, <1>2, <1>3

\* A valid block spends what is left of the chain below it, or what its earlier
\* transactions made, so that none of its transactions is in that chain.
LEMMA BlockIsNew ==
    ASSUME NEW b \in Blocks \ ({Genesis} \cup BadBlocks), Exact(Parent[b]),
           ValidOn(Utxo(Parent[b]), b)
    PROVE  /\ ToSet(BlockTxs[b]) \cap ChainTxs(Parent[b]) = {}
           /\ \A o \in Points(ToSet(BlockTxs[b])) :
                o.hash \in ChainTxs(Parent[b]) \cup ToSet(BlockTxs[b])
<1> DEFINE p == Parent[b]
           vtx == BlockTxs[b]
           n == Len(vtx)
           B == ToSet(vtx)
           C == ChainTxs(p)
           Earlier(i) == {vtx[j] : j \in 1 .. (i - 1)}
           before(i) == After(Utxo(p), b, Earlier(i))
           T == {i \in 0 .. n : \A j \in 1 .. i : vtx[j] \notin C}
<1>1. /\ n \in Nat \ {0} /\ B = {vtx[i] : i \in 1 .. n}
      /\ \A i \in 1 .. n : vtx[i] \in Txids /\ (IsCoinBase(vtx[i]) <=> i = 1)
    BY VtxIs
<1>2. ASSUME NEW i \in 2 .. n, NEW o \in Points({vtx[i]})
      PROVE  /\ IsPoint(o)
             /\ Available(p, o) \/ o.hash \in Earlier(i)
    <2>1. i \in 1 .. n /\ vtx[i] \in Txids
        BY <1>1
    <2>2. IsPoint(o) /\ o \in ToSet(TxIn[vtx[i]])
        BY <2>1, InputsIs
    <2>3. ValidSpend(before(i), b, vtx[i])
        BY DEF ValidOn
    <2>4. PICK out \in InputsOf(before(i), vtx[i]) : [hash |-> out.hash, n |-> out.n] = o
        BY <2>2, <2>3 DEF ValidSpend
    <2>5. Among(before(i), o)
        BY <2>4 DEF InputsOf, Among
    <2> HIDE DEF Earlier
    <2>6. Among(Utxo(p), o) \/ o.hash \in Earlier(i)
        BY <2>2, <2>5, AfterHas
    <2> QED
        BY <2>2, <2>6 DEF Among, Available
<1>3. \A o : IsPoint(o) /\ Available(p, o) => o.hash \in C /\ o \notin Points(C)
    BY DEF Exact
<1>4. \A o \in Points(C) : o.hash \in C
    BY DEF Exact
<1>5. vtx[1] \notin C
    BY CoinBaseIsNew
<1> HIDE DEF p, vtx, n, B, C, Earlier, before
<1>6. ASSUME NEW k \in 0 .. n, k \in T, k < n PROVE k + 1 \in T
    <2>1. /\ k + 1 \in 1 .. n /\ k + 1 \in 0 .. n /\ (k + 1) - 1 = k
          /\ \A j \in 1 .. k + 1 : j \in 1 .. k \/ j = k + 1
          /\ k # 0 => k + 1 \in 2 .. n /\ k + 1 # 1
        BY <1>1, <1>6
    <2>2. \A j \in 1 .. k : vtx[j] \notin C
        BY <1>6
    <2>3. vtx[k + 1] \notin C
        <3>1. CASE k = 0
            BY <1>5, <3>1
        <3>2. CASE k # 0
            <4> SUFFICES ASSUME vtx[k + 1] \in C PROVE FALSE
                OBVIOUS
            <4> DEFINE t == vtx[k + 1]
            <4>1. t \in Txids /\ ~IsCoinBase(t) /\ t \in C
                BY <1>1, <2>1, <3>2
            <4> HIDE DEF t
            <4>2. PICK o : o \in Points({t})
                BY <4>1, InputsIs
            <4>3. o \in Points(C)
                BY <4>1, <4>2, PointsIs
            <4>4. IsPoint(o) /\ (Available(p, o) \/ o.hash \in Earlier(k + 1))
                BY <1>2, <2>1, <3>2, <4>2 DEF t
            <4>5. o.hash \in Earlier(k + 1)
                BY <1>3, <4>3, <4>4
            <4>6. PICK j \in 1 .. k : o.hash = vtx[j]
                BY <2>1, <4>5 DEF Earlier
            <4> QED
                BY <1>4, <2>2, <4>3, <4>6
        <3> QED
            BY <3>1, <3>2
    <2> QED
        BY <2>1, <2>2, <2>3
<1>7. \A j \in 1 .. n : vtx[j] \notin C
    <2>1. 0 \in T
        BY <1>1
    <2>2. n \in T
        <3>1. 0 .. n \subseteq T
            <4> HIDE DEF T
            <4> QED
                BY <1>1, <1>6, <2>1, InductionTo
        <3> HIDE DEF T
        <3> QED
            BY <1>1, <3>1
    <2> QED
        BY <2>2
<1>8. ASSUME NEW o \in Points(B) PROVE o.hash \in C \cup B
    <2>1. PICK t \in B : o \in Points({t})
        BY PointsIs
    <2>2. PICK i \in 1 .. n : t = vtx[i]
        BY <1>1
    <2>3. i # 1
        <3>1. ~IsCoinBase(t)
            BY <1>1, <2>1, <2>2, InputsIs
        <3> QED
            BY <1>1, <2>2, <3>1
    <2>4. i \in 2 .. n
        BY <1>1, <2>3
    <2>5. IsPoint(o) /\ (Available(p, o) \/ o.hash \in Earlier(i))
        BY <1>2, <2>1, <2>2, <2>4
    <2>6. Earlier(i) \subseteq B
        <3>1. \A j \in 1 .. (i - 1) : j \in 1 .. n
            BY <1>1
        <3> QED
            BY <1>1, <3>1 DEF Earlier
    <2> QED
        BY <1>3, <2>5, <2>6
<1>9. B \cap C = {}
    BY <1>1, <1>7
<1> QED
    BY <1>8, <1>9 DEF B, C, p, vtx

LEMMA ExactStep ==
    ASSUME NEW b \in Blocks \ ({Genesis} \cup BadBlocks), Exact(Parent[b]),
           ValidOn(Utxo(Parent[b]), b)
    PROVE  Exact(b)
<1> DEFINE p == Parent[b]
           B == ToSet(BlockTxs[b])
           C == ChainTxs(p)
           D == ChainTxs(b)
<1>1. D = C \cup B /\ GenesisTxs \subseteq C /\ B \subseteq Txids
    <2>1. p \in Blocks /\ b \in Blocks
        BY ParentBelow
    <2>2. D = C \cup B /\ GenesisTxs \subseteq C /\ D \subseteq Txids
        BY <2>1, ChainTxsIs
    <2> QED
        BY <2>2
<1>2. B \cap C = {} /\ \A o \in Points(B) : o.hash \in C \cup B
    BY BlockIsNew
<1>3. /\ \A o \in Points(C) : o.hash \in C
      /\ \A o : IsPoint(o) => (Available(p, o) <=> Made(o) /\ o.hash \in C /\ o \notin Points(C))
    BY DEF Exact
<1>4. Utxo(b) = After(Utxo(p), b, B)
    BY UtxoIs
<1> HIDE DEF p, B, C, D
<1>5. Points(D) = Points(C) \cup Points(B)
    BY <1>1, PointsOfBoth
<1>6. \A o \in Points(D) : o.hash \in D
    BY <1>1, <1>2, <1>3, <1>5
<1>7. ASSUME NEW o, IsPoint(o)
      PROVE  Available(b, o) <=> Made(o) /\ o.hash \in D /\ o \notin Points(D)
    <2>1. Available(b, o) <=> /\ Available(p, o) \/ (o.hash \in B /\ o.n \in DOMAIN TxOut[o.hash])
                              /\ o \notin Points(B)
        <3>1. Among(Utxo(b), o) <=> /\ Among(Utxo(p), o) \/ (o.hash \in B /\ o.n \in DOMAIN TxOut[o.hash])
                                    /\ o \notin Points(B)
            BY <1>4, <1>7, AfterHas
        <3> QED
            BY <3>1 DEF Among, Available
    <2>2. CASE o.hash \in B
        <3>1. o.hash \notin C /\ o \notin Points(C) /\ o.hash \in Txids \ GenesisTxs
            BY <1>1, <1>2, <1>3, <2>2
        <3>2. ~Available(p, o)
            BY <1>3, <1>7, <3>1
        <3>3. Made(o) <=> o.n \in DOMAIN TxOut[o.hash]
            BY <3>1 DEF Made
        <3> QED
            BY <1>1, <1>5, <2>1, <2>2, <3>1, <3>2, <3>3
    <2>3. CASE o.hash \notin B
        BY <1>1, <1>3, <1>5, <1>7, <2>1, <2>3
    <2> QED
        BY <2>2, <2>3
<1> QED
    BY <1>6, <1>7 DEF Exact, D

\* So it is for every valid chain that AcceptBlock may store.
LEMMA ChainIsExact ==
    ASSUME NEW b \in Blocks, ValidChain[b], ChainOf(b) \cap BadBlocks = {}
    PROVE  Exact(b)
<1> DEFINE Good(c) == ValidChain[c] /\ ChainOf(c) \cap BadBlocks = {}
           T == {c \in Blocks : Good(c) /\ ~Exact(c)}
<1>1. ASSUME NEW c \in Blocks
      PROVE  /\ c # NoBlock /\ ChainOf(c) = Ancestry[c] /\ c \in Ancestry[c] /\ Height[c] \in Nat
             /\ ValidChain[c] <=> \A a \in Ancestry[c] \ {Genesis} : ValidOn(UtxoOf[Parent[a]], a)
    <2>1. c # NoBlock /\ Height[c] \in Nat
        BY BlockTreeAssumption DEF BlockTreeAssumption
    <2> QED
        BY <2>1, SelfOnChain DEF ChainOf, ValidChain
<1>2. Exact(Genesis)
    <2>1. Genesis \in Blocks /\ Utxo(Genesis) = {} /\ ChainTxs(Genesis) = GenesisTxs
        BY UtxoIs, ChainTxsIs, BlockTreeAssumption DEF BlockTreeAssumption
    <2>2. Points(GenesisTxs) = {}
        <3>1. PICK t \in Txids : IsCoinBase(t) /\ GenesisTxs = {t}
            <4> DEFINE q == BlockTxs[Genesis]
            <4>1. /\ Len(q) = 1 /\ ToSet(q) = {q[i] : i \in 1 .. Len(q)}
                  /\ \A i \in 1 .. Len(q) : q[i] \in Txids /\ (IsCoinBase(q[i]) <=> i = 1)
                BY <2>1, VtxIs, CoinBaseAssumption DEF CoinBaseAssumption
            <4> HIDE DEF q
            <4>2. \A i : i \in 1 .. Len(q) <=> i = 1
                BY <4>1
            <4>3. ToSet(q) = {q[1]} /\ q[1] \in Txids /\ IsCoinBase(q[1])
                BY <4>1, <4>2
            <4> QED
                BY <4>3 DEF q, GenesisTxs
        <3> QED
            BY <3>1, InputsIs
    <2>3. \A o : ~Available(Genesis, o)
        BY <2>1 DEF Available
    <2> QED
        BY <2>1, <2>2, <2>3 DEF Exact, Made
<1>3. ASSUME T # {} PROVE FALSE
    <2>1. PICK c \in T : \A d \in T : Height[c] <= Height[d]
        <3>1. T \in SUBSET Blocks
            OBVIOUS
        <3> HIDE DEF T
        <3> QED
            BY <1>3, <3>1, LowestExists
    <2>2. c \in Blocks /\ Good(c) /\ ~Exact(c) /\ c # Genesis
        BY <1>2, <2>1
    <2>3. /\ Parent[c] \in Blocks /\ Height[Parent[c]] < Height[c]
          /\ Ancestry[c] = {c} \cup Ancestry[Parent[c]]
        BY <2>2, ParentBelow
    <2>4. Good(Parent[c]) /\ c \notin BadBlocks /\ ValidOn(Utxo(Parent[c]), c)
        <3>1. ValidOn(UtxoOf[Parent[c]], c) /\ ValidChain[Parent[c]]
            BY <1>1, <2>2, <2>3
        <3>2. Utxo(Parent[c]) = UtxoOf[Parent[c]]
            BY <1>1, <2>3 DEF Utxo
        <3>3. ChainOf(Parent[c]) \cap BadBlocks = {} /\ c \notin BadBlocks
            BY <1>1, <2>2, <2>3
        <3> QED
            BY <3>1, <3>2, <3>3
    <2>5. Parent[c] \notin T
        <3>1. Height[c] \in Nat /\ Height[Parent[c]] \in Nat
            BY <1>1, <2>2, <2>3
        <3> HIDE DEF T
        <3> QED
            BY <2>1, <2>3, <3>1
    <2>6. Exact(Parent[c])
        BY <2>3, <2>4, <2>5
    <2> HIDE DEF Good
    <2> QED
        BY <2>2, <2>4, <2>6, ExactStep
<1> QED
    BY <1>3

-----------------------------------------------------------------------------
\* What is removed with a transaction

\* The transactions of the pool that spend an output of one of ts.
Spenders(p, ts) == {p.mapNextTx[o] : o \in {q \in DOMAIN p.mapNextTx : q.hash \in ts}}

\* The set after k turns: it has them all, or more than k members.
Grows(p, t, W, k) ==
    /\ t \in W /\ W \subseteq {t} \cup p.mapTx
    /\ Spenders(p, W) \subseteq W \/ Cardinality(W) > k

LEMMA SpendersIs ==
    ASSUME NEW p, IsPool(p), NEW W
    PROVE  /\ Spenders(p, W) \subseteq p.mapTx
           /\ \A u \in p.mapTx : \A o \in Points({u}) : o.hash \in W => u \in Spenders(p, W)
<1>1. /\ DOMAIN p.mapNextTx = Points(p.mapTx)
      /\ \A t \in p.mapTx : \A o \in Points({t}) : p.mapNextTx[o] = t
    BY DEF IsPool
<1>2. ASSUME NEW o \in DOMAIN p.mapNextTx PROVE p.mapNextTx[o] \in p.mapTx
    <2>1. PICK t \in p.mapTx : o \in Points({t})
        BY <1>1, PointsIs
    <2> QED
        BY <1>1, <2>1
<1>3. ASSUME NEW u \in p.mapTx, NEW o \in Points({u}), o.hash \in W PROVE u \in Spenders(p, W)
    <2>1. o \in DOMAIN p.mapNextTx
        BY <1>1, PointsIs
    <2> QED
        BY <1>1, <1>3, <2>1 DEF Spenders
<1> QED
    BY <1>2, <1>3 DEF Spenders

LEMMA GrowsOn ==
    ASSUME NEW p, IsPool(p), NEW t, NEW W, NEW k \in Nat, Grows(p, t, W, k)
    PROVE  Grows(p, t, W \cup Spenders(p, W), k + 1)
<1> DEFINE V == W \cup Spenders(p, W)
<1>1. t \in V /\ V \subseteq {t} \cup p.mapTx
    BY SpendersIs DEF Grows
<1>2. CASE Spenders(p, W) \subseteq W
    <2>1. V = W
        BY <1>2
    <2> HIDE DEF V
    <2> QED
        BY <1>1, <1>2, <2>1 DEF Grows, V
<1>3. CASE ~(Spenders(p, W) \subseteq W)
    <2>1. Cardinality(W) > k
        BY <1>3 DEF Grows
    <2>2. PICK u \in Spenders(p, W) : u \notin W
        BY <1>3
    <2>3. IsFiniteSet({t} \cup p.mapTx)
        BY FS_AddElement DEF IsPool
    <2>4. IsFiniteSet(W) /\ IsFiniteSet(V)
        BY <1>1, <2>3, FS_Subset DEF Grows
    <2>5. Cardinality(W \cup {u}) = Cardinality(W) + 1 /\ IsFiniteSet(W \cup {u})
        BY <2>2, <2>4, FS_AddElement
    <2>6. Cardinality(W \cup {u}) <= Cardinality(V)
        <3>1. W \cup {u} \subseteq V
            BY <2>2
        <3> HIDE DEF V
        <3> QED
            BY <2>4, <3>1, FS_Subset
    <2>7. Cardinality(W) \in Nat /\ Cardinality(V) \in Nat
        BY <2>4, FS_CardinalityType
    <2>8. Cardinality(V) > k + 1
        BY <2>1, <2>5, <2>6, <2>7
    <2> HIDE DEF V
    <2>9. Grows(p, t, V, k + 1)
        BY <1>1, <2>8 DEF Grows
    <2> QED
        BY <2>9 DEF V
<1> QED
    BY <1>2, <1>3

\* As many turns as the pool has transactions are enough.
LEMMA GrownAll ==
    ASSUME NEW p, IsPool(p), NEW t, NEW W, Grows(p, t, W, Cardinality(p.mapTx))
    PROVE  Spenders(p, W) \subseteq W
<1> SUFFICES ASSUME Cardinality(W) > Cardinality(p.mapTx) PROVE Spenders(p, W) \subseteq W
    BY DEF Grows
<1> DEFINE M == p.mapTx
           n == Cardinality(M)
<1>1. IsFiniteSet(M) /\ n \in Nat
    BY FS_CardinalityType DEF IsPool
<1>2. W \subseteq {t} \cup M
    BY DEF Grows
<1>3. CASE t \in M
    <2>1. W \subseteq M
        BY <1>2, <1>3
    <2>2. Cardinality(W) <= n /\ Cardinality(W) \in Nat
        BY <1>1, <2>1, FS_Subset, FS_CardinalityType
    <2> QED
        BY <1>1, <2>2
<1>4. CASE t \notin M
    <2>1. IsFiniteSet(M \cup {t}) /\ Cardinality(M \cup {t}) = n + 1
        BY <1>1, <1>4, FS_AddElement
    <2>2. M \subseteq W
        <3> SUFFICES ASSUME NEW u \in M, u \notin W PROVE FALSE
            OBVIOUS
        <3>1. W \subseteq (M \cup {t}) \ {u} /\ u \in M \cup {t}
            BY <1>2
        <3>2. /\ IsFiniteSet((M \cup {t}) \ {u})
              /\ Cardinality((M \cup {t}) \ {u}) = Cardinality(M \cup {t}) - 1
            BY <2>1, <3>1, FS_RemoveElement
        <3>3. Cardinality((M \cup {t}) \ {u}) = n
            BY <1>1, <2>1, <3>2
        <3>4. Cardinality(W) <= n /\ Cardinality(W) \in Nat
            BY <3>1, <3>2, <3>3, FS_Subset, FS_CardinalityType
        <3> QED
            BY <1>1, <3>4
    <2> QED
        BY <2>2, SpendersIs
<1> QED
    BY <1>3, <1>4

\* remove() with fRecursive goes on to whatever spends what it removes.
LEMMA WithSpendersIs ==
    ASSUME NEW p, IsPool(p), NEW t
    PROVE  /\ t \in WithSpenders(p, t)
           /\ \A u \in p.mapTx : \A o \in Points({u}) :
                o.hash \in WithSpenders(p, t) => u \in WithSpenders(p, t)
<1> DEFINE M == p.mapTx
           P == SUBSET ({t} \cup M)
           base == {t}
           op(r) == r \cup Spenders(p, r)
           Body(g) == g = [s \in SUBSET M |->
                              IF s = {} THEN base ELSE op(g[s \ {CHOOSE x \in s : TRUE}])]
           all == CHOOSE g : Body(g)
           pick == [s \in (SUBSET M) \ {{}} |-> CHOOSE x \in s : TRUE]
           F == [a \in P \X M |-> op(a[1])]
<1>1. WithSpenders(p, t) = all[M]
    BY DEF WithSpenders, FoldSet, MapThenFoldSet, Spenders
<1>2. Picks(pick, M) /\ IsFiniteSet(M) /\ base \in P
    BY DEF Picks, IsPool
<1>3. F \in [P \X M -> P]
    <2>1. ASSUME NEW r \in P PROVE op(r) \in P
        BY SpendersIs
    <2> HIDE DEF P, op
    <2> QED
        BY <2>1
<1> HIDE DEF op
<1>4. Body(all)
    <2>1. PICK g \in [SUBSET M -> P] : IsFold(g, M, base, F, pick)
        <3> HIDE DEF pick, F, P, M, base, all, Body
        <3> QED
            BY <1>2, <1>3, FoldExists
    <2> HIDE DEF P, M, base
    <2>2. Body(g)
        <3>1. ASSUME NEW s \in SUBSET M, s # {}
              PROVE  g[s] = op(g[s \ {CHOOSE x \in s : TRUE}])
            <4>1. pick[s] = (CHOOSE x \in s : TRUE) /\ pick[s] \in M
                BY <1>2, <3>1 DEF Picks
            <4>2. g[s \ {pick[s]}] \in P
                OBVIOUS
            <4>3. g[s] = F[<<g[s \ {pick[s]}], pick[s]>>]
                BY <2>1, <3>1 DEF IsFold, Folds
            <4> HIDE DEF pick
            <4>4. g[s] = op(g[s \ {pick[s]}])
                BY <4>1, <4>2, <4>3
            <4> QED
                BY <4>1, <4>4
        <3>2. g[{}] = base
            BY <2>1 DEF IsFold, Folds
        <3>3. g = [s \in SUBSET M |-> g[s]]
            OBVIOUS
        <3> QED
            BY <3>1, <3>2, <3>3
    <2> HIDE DEF Body
    <2> QED
        BY <2>2
<1> DEFINE T == {s \in SUBSET M : Grows(p, t, all[s], Cardinality(s))}
<1>5. {} \in T
    <2>1. all[{}] = {t}
        <3> HIDE DEF all
        <3> QED
            BY <1>4
    <2>2. Cardinality({t}) > Cardinality({})
        BY FS_EmptySet, FS_Singleton
    <2> HIDE DEF all, M
    <2> QED
        BY <2>1, <2>2 DEF Grows
<1>6. ASSUME NEW s \in (SUBSET M) \ {{}}, \A x \in s : s \ {x} \in T PROVE s \in T
    <2> DEFINE x == CHOOSE y \in s : TRUE
    <2>1. x \in s /\ s \ {x} \in T
        BY <1>6
    <2>2. all[s] = all[s \ {x}] \cup Spenders(p, all[s \ {x}])
        <3>1. all[s] = op(all[s \ {x}])
            <4> HIDE DEF all
            <4> QED
                BY <1>4
        <3> HIDE DEF all
        <3> QED
            BY <3>1 DEF op
    <2> HIDE DEF x, all
    <2>3. IsFiniteSet(s) /\ Cardinality(s) \in Nat /\ Cardinality(s \ {x}) = Cardinality(s) - 1
          /\ Cardinality(s \ {x}) \in Nat
        <3>1. IsFiniteSet(s)
            BY <1>2, FS_Subset
        <3>2. IsFiniteSet(s \ {x})
            BY <3>1, FS_Subset
        <3> QED
            BY <2>1, <3>1, <3>2, FS_RemoveElement, FS_CardinalityType
    <2> DEFINE k == Cardinality(s \ {x})
               W == all[s \ {x}]
    <2>4. Grows(p, t, W, k) /\ k \in Nat
        BY <2>1, <2>3
    <2>5. Cardinality(s) = k + 1 /\ all[s] = W \cup Spenders(p, W)
        BY <2>2, <2>3
    <2> HIDE DEF k, W
    <2>6. Grows(p, t, all[s], k + 1)
        BY <2>4, <2>5, GrowsOn
    <2> QED
        BY <2>5, <2>6
<1>7. Grows(p, t, all[M], Cardinality(M))
    <2>1. SUBSET M \subseteq T
        <3> HIDE DEF T, M
        <3> QED
            BY <1>2, <1>5, <1>6, SubsetInduction
    <2>2. M \in T
        <3> HIDE DEF T
        <3> QED
            BY <2>1
    <2> HIDE DEF all
    <2> QED
        BY <2>2
<1> DEFINE W == all[M]
<1>8. WithSpenders(p, t) = W /\ Grows(p, t, W, Cardinality(p.mapTx))
    BY <1>1, <1>7
<1> HIDE DEF W
<1>9. t \in W /\ Spenders(p, W) \subseteq W
    BY <1>8, GrownAll DEF Grows
<1> QED
    BY <1>8, <1>9, SpendersIs

-----------------------------------------------------------------------------
\* Pools whose transactions can be mined

\* What the transactions of the pool spend is made by one of the pool or of S.
Rooted(p, S) == \A t \in p.mapTx : \A o \in Points({t}) : Made(o) /\ o.hash \in p.mapTx \cup S

\* On top of the chain of b: none of it is in the pool, nor spends what the pool spends.
Minable(p, b) ==
    /\ IsPool(p) /\ Rooted(p, ChainTxs(b) \cup Lost)
    /\ p.mapTx \cap ChainTxs(b) = {}
    /\ Points(p.mapTx) \cap Points(ChainTxs(b)) = {}

LEMMA RootedInMore ==
    ASSUME NEW p, NEW S, NEW T, Rooted(p, S), S \subseteq T
    PROVE  Rooted(p, T)
    BY DEF Rooted

\* Removing t and what spends it, and theirs, leaves nothing that spends what is removed.
LEMMA RemoveAllIs ==
    ASSUME NEW p, IsPool(p), NEW t, NEW S, Rooted(p, S)
    PROVE  /\ RemoveTx(p, t, TRUE).mapTx \subseteq p.mapTx \ {t}
           /\ Rooted(RemoveTx(p, t, TRUE), S \ {t})
<1> DEFINE W == WithSpenders(p, t)
           q == RemoveTx(p, t, TRUE)
<1>1. q.mapTx = p.mapTx \ W
    BY DEF RemoveTx, Take
<1>2. /\ t \in W
      /\ \A u \in p.mapTx : \A o \in Points({u}) : o.hash \in W => u \in W
    BY WithSpendersIs
<1> HIDE DEF W, q
<1>3. ASSUME NEW u \in q.mapTx, NEW o \in Points({u})
      PROVE  Made(o) /\ o.hash \in q.mapTx \cup (S \ {t})
    <2>1. u \in p.mapTx /\ o.hash \notin W
        BY <1>1, <1>2
    <2>2. Made(o) /\ o.hash \in p.mapTx \cup S
        BY <2>1 DEF Rooted
    <2> QED
        BY <1>1, <1>2, <2>1, <2>2
<1>4. q.mapTx \subseteq p.mapTx \ {t} /\ Rooted(q, S \ {t})
    BY <1>1, <1>2, <1>3 DEF Rooted
<1> QED
    BY <1>4 DEF q

\* Removing a transaction that is in S, alone.
LEMMA RemoveOneIs ==
    ASSUME NEW p, NEW S, Rooted(p, S), NEW t \in S
    PROVE  /\ RemoveTx(p, t, FALSE).mapTx = p.mapTx \ {t}
           /\ Rooted(RemoveTx(p, t, FALSE), S)
<1>1. RemoveTx(p, t, FALSE).mapTx = p.mapTx \ {t}
    BY DEF RemoveTx, Take
<1> QED
    BY <1>1 DEF Rooted

\* A pool that is left of p, with nothing that spends one of the points D.
Cleared(p, S, q, D) ==
    IsPool(q) /\ q.mapTx \subseteq p.mapTx /\ Rooted(q, S) /\ Points(q.mapTx) \cap D = {}

\* One turn of removeConflicts, when t is not in the pool.
LEMMA ConflictIs ==
    ASSUME NEW p, NEW S, NEW q, NEW D, Cleared(p, S, q, D), NEW t, t \notin p.mapTx, NEW in
    PROVE  Cleared(p, S, RemoveConflict(q, t, in), D \cup {in})
<1> DEFINE r == RemoveConflict(q, t, in)
<1>1. IsPool(q) /\ q.mapTx \subseteq p.mapTx /\ Rooted(q, S) /\ Points(q.mapTx) \cap D = {}
    BY DEF Cleared
<1>2. DOMAIN q.mapNextTx = Points(q.mapTx)
    BY <1>1 DEF IsPool
<1>3. CASE in \notin DOMAIN q.mapNextTx
    <2>1. r = q
        BY <1>3 DEF RemoveConflict
    <2> HIDE DEF r
    <2>2. Cleared(p, S, r, D \cup {in})
        BY <1>1, <1>2, <1>3, <2>1 DEF Cleared
    <2> QED
        BY <2>2 DEF r
<1>4. CASE in \in DOMAIN q.mapNextTx
    <2>1. PICK u \in q.mapTx : in \in Points({u})
        BY <1>2, <1>4, PointsIs
    <2>2. q.mapNextTx[in] = u /\ u # t
        BY <1>1, <2>1 DEF IsPool
    <2>3. r = RemoveTx(q, u, TRUE)
        BY <1>4, <2>2 DEF RemoveConflict
    <2> HIDE DEF r
    <2> DEFINE a == RemoveTx(q, u, TRUE)
    <2>4. IsPool(a)
        BY <1>1, RemoveKeepsPool
    <2>5. a.mapTx \subseteq q.mapTx \ {u} /\ Rooted(a, S \ {u})
        BY <1>1, RemoveAllIs
    <2> HIDE DEF a
    <2>6. Rooted(a, S)
        BY <2>5, RootedInMore
    <2>7. Points(a.mapTx) \subseteq Points(q.mapTx)
        BY <2>5 DEF Points
    <2>8. in \notin Points(a.mapTx)
        <3> SUFFICES ASSUME NEW v \in a.mapTx, in \in Points({v}) PROVE FALSE
            BY PointsIs
        <3>1. v \in q.mapTx /\ v # u
            BY <2>5
        <3> QED
            BY <1>1, <2>1, <3>1, OneSpender
    <2>9. Cleared(p, S, a, D \cup {in})
        BY <1>1, <2>4, <2>5, <2>6, <2>7, <2>8 DEF Cleared
    <2> QED
        BY <2>3, <2>9 DEF r, a
<1> QED
    BY <1>3, <1>4

\* removeConflicts leaves nothing that spends what t spends.
LEMMA ConflictsAre ==
    ASSUME NEW t \in Txids, NEW p, IsPool(p), t \notin p.mapTx, NEW S, Rooted(p, S)
    PROVE  Cleared(p, S, RemoveConflicts(p, t), Points({t}))
<1> DEFINE q == TxIn[t]
           n == Len(q)
           F == [a \in Pools \X (1 .. n) |-> RemoveConflict(a[1], t, q[a[2]])]
           e == RemoveConflicts(p, t)
           D(k) == {q[i] : i \in 1 .. k}
<1>1. n \in Nat /\ Points({t}) = D(n)
    <2>1. q \in Seq([hash : Txids, n : Nat \ {0}])
        BY TransactionAssumption DEF TransactionAssumption
    <2>2. n \in Nat /\ DOMAIN q = 1 .. n
        BY <2>1
    <2> QED
        BY <2>2, InputsIs DEF ToSet
<1>2. PICK h \in [0 .. n -> Pools] : Runs(h, n, p, F) /\ h[n] = e
    <2>1. LoopEnds(n, Pools, p, F, e)
        BY ConflictsLoop
    <2> QED
        BY <2>1 DEF LoopEnds
<1> DEFINE T == {k \in 0 .. n : Cleared(p, S, h[k], D(k))}
<1> HIDE DEF n, e, D
<1>3. 0 \in T
    <2>1. h[0] = p
        BY <1>2 DEF Runs
    <2>2. D(0) = {}
        BY DEF D
    <2>3. Cleared(p, S, h[0], D(0))
        BY <2>1, <2>2 DEF Cleared
    <2> QED
        BY <1>1, <2>3
<1>4. ASSUME NEW k \in 0 .. n, k \in T, k < n PROVE k + 1 \in T
    <2>1. /\ k + 1 \in 1 .. n /\ (k + 1) - 1 = k /\ k + 1 \in 0 .. n
          /\ \A i : i \in 1 .. k + 1 <=> i \in 1 .. k \/ i = k + 1
        BY <1>1, <1>4
    <2>2. h[k + 1] = RemoveConflict(h[k], t, q[k + 1])
        <3>1. h[k + 1] = F[<<h[k], k + 1>>] /\ h[k] \in Pools
            BY <1>2, <2>1 DEF Runs
        <3> QED
            BY <2>1, <3>1
    <2>3. D(k + 1) = D(k) \cup {q[k + 1]}
        BY <2>1 DEF D
    <2> DEFINE r == h[k]
               in == q[k + 1]
               C == D(k)
    <2>4. Cleared(p, S, r, C)
        BY <1>4
    <2> HIDE DEF r, in, C
    <2>5. Cleared(p, S, RemoveConflict(r, t, in), C \cup {in})
        BY <2>4, ConflictIs
    <2>6. Cleared(p, S, h[k + 1], D(k + 1))
        BY <2>2, <2>3, <2>5 DEF r, in, C
    <2> QED
        BY <2>1, <2>6
<1>5. n \in T
    <2>1. 0 .. n \subseteq T
        <3> HIDE DEF T
        <3> QED
            BY <1>1, <1>3, <1>4, InductionTo
    <2> HIDE DEF T
    <2> QED
        BY <1>1, <2>1
<1>6. Cleared(p, S, e, D(n))
    BY <1>2, <1>5
<1> QED
    BY <1>1, <1>6 DEF e

\* Delete takes a transaction of S, and what conflicts with it, out of the pool.
LEMMA DeleteIs ==
    ASSUME NEW p, IsPool(p), NEW S, Rooted(p, S), NEW t \in Txids, t \in S
    PROVE  /\ Cleared(p, S, Delete(p, t), Points({t}))
           /\ t \notin Delete(p, t).mapTx
<1> DEFINE q == RemoveTx(p, t, FALSE)
           r == RemoveConflicts(q, t)
<1>1. IsPool(q) /\ q.mapTx = p.mapTx \ {t} /\ Rooted(q, S)
    <2>1. IsPool(q)
        <3> DEFINE no == FALSE
        <3>1. IsPool(RemoveTx(p, t, no))
            <4> HIDE DEF no
            <4> QED
                BY RemoveKeepsPool
        <3> QED
            BY <3>1
    <2> QED
        BY <2>1, RemoveOneIs
<1> HIDE DEF q
<1>2. Cleared(q, S, r, Points({t}))
    BY <1>1, ConflictsAre
<1>3. Delete(p, t) = r
    BY DEF Delete, q
<1> HIDE DEF r
<1>4. Cleared(p, S, r, Points({t})) /\ t \notin r.mapTx
    BY <1>1, <1>2 DEF Cleared
<1> QED
    BY <1>3, <1>4

\* What accept() takes is no coinbase, and spends unspent outputs of the chain or outputs of
\* the pool.
LEMMA OkSpends ==
    ASSUME NEW b, NEW p, NEW t \in Txids, NEW fLimitFree, NEW spent,
           Verdict(b, p, t, fLimitFree, spent) = "ok"
    PROVE  /\ \E o : o \in Points({t})
           /\ \A o \in Points({t}) :
                Available(b, o) \/ (o.hash \in p.mapTx /\ o.n \in DOMAIN TxOut[o.hash])
<1> DEFINE view == View(b, p, spent)
<1>1. ~IsCoinBase(t) /\ HaveInputs(InputsOf(view, t), t)
    BY DEF Verdict
<1>2. ASSUME NEW o \in Points({t})
      PROVE  Available(b, o) \/ (o.hash \in p.mapTx /\ o.n \in DOMAIN TxOut[o.hash])
    <2>1. IsPoint(o) /\ o \in ToSet(TxIn[t])
        BY InputsIs
    <2>2. PICK out \in InputsOf(view, t) : [hash |-> out.hash, n |-> out.n] = o
        BY <1>1, <2>1 DEF HaveInputs
    <2>3. out \in view
        BY <2>2 DEF InputsOf
    <2>4. CASE out \in Utxo(b)
        BY <2>2, <2>4 DEF Available
    <2>5. CASE out \notin Utxo(b)
        <3>1. PICK u \in p.mapTx : out \in OutputsOf(u, MEMPOOL_HEIGHT)
            BY <2>3, <2>5 DEF View
        <3> DEFINE outs == OutputsOf(u, MEMPOOL_HEIGHT)
        <3>2. Among(outs, o)
            BY <2>2, <3>1 DEF Among
        <3>3. o.hash = u /\ o.n \in DOMAIN TxOut[u]
            BY <2>1, <3>2, OutputsHave
        <3> QED
            BY <3>1, <3>3
    <2> QED
        BY <2>4, <2>5
<1> QED
    BY <1>1, <1>2, InputsIs

\* accept() keeps the pool minable.
LEMMA AddKeepsMinable ==
    ASSUME NEW b \in Blocks, Exact(b), NEW p, Minable(p, b), NEW t \in Txids, NEW fLimitFree, NEW spent,
           Verdict(b, p, t, fLimitFree, spent) = "ok"
    PROVE  Minable(AddUnchecked(p, t), b)
<1> DEFINE q == AddUnchecked(p, t)
           N == ChainTxs(b)
<1>1. /\ IsPool(p) /\ Rooted(p, N \cup Lost) /\ p.mapTx \cap N = {}
      /\ Points(p.mapTx) \cap Points(N) = {}
    BY DEF Minable
<1>2. GenesisTxs \subseteq N /\ N \subseteq Txids
    BY ChainTxsIs
<1>3. q.mapTx = p.mapTx \cup {t} /\ IsPool(q)
    <2>1. IsPool(q)
        BY <1>1, OkIsNew, AddKeepsPool
    <2> QED
        BY <2>1 DEF AddUnchecked
<1>4. /\ \A o \in Points(N) : o.hash \in N
      /\ \A o : IsPoint(o) /\ Available(b, o) => Made(o) /\ o.hash \in N /\ o \notin Points(N)
    BY DEF Exact
<1>5. PICK o1 : o1 \in Points({t})
    BY OkSpends
<1> HIDE DEF q, N
<1>6. ASSUME NEW o \in Points({t})
      PROVE  Made(o) /\ o.hash \in p.mapTx \cup N /\ o \notin Points(N)
    <2>1. IsPoint(o) /\ o.hash \in Txids
        BY InputsIs
    <2>2. CASE Available(b, o)
        BY <1>4, <2>1, <2>2
    <2>3. CASE o.hash \in p.mapTx /\ o.n \in DOMAIN TxOut[o.hash]
        BY <1>1, <1>2, <1>4, <2>1, <2>3 DEF Made
    <2> QED
        BY <2>2, <2>3, OkSpends
<1>7. t \notin N
    <2> SUFFICES ASSUME t \in N PROVE FALSE
        OBVIOUS
    <2>1. o1 \in Points(N)
        BY <1>5, PointsIs
    <2> QED
        BY <1>5, <1>6, <2>1
<1>8. Rooted(q, N \cup Lost)
    BY <1>1, <1>3, <1>6 DEF Rooted
<1>9. Points(q.mapTx) \cap Points(N) = {}
    <2>1. Points(q.mapTx) = Points(p.mapTx) \cup Points({t})
        BY <1>3, PointsOfBoth
    <2> QED
        BY <1>1, <1>6, <2>1
<1>10. Minable(q, b)
    BY <1>1, <1>3, <1>7, <1>8, <1>9 DEF Minable, N
<1> QED
    BY <1>10 DEF q

-----------------------------------------------------------------------------
\* The transactions a switch moves

LEMMA DropAllIs ==
    ASSUME NEW X, NEW q \in Seq(X), NEW S
    PROVE  DropAll(q, S) \in Seq(X) /\ ToSet(DropAll(q, S)) = ToSet(q) \ S
<1> DEFINE n == Len(q)
           P == Seq(X)
           none == <<>>
           F == [a \in P \X (1 .. n) |-> IF q[a[2]] \in S THEN a[1] ELSE Append(a[1], q[a[2]])]
           e == DropAll(q, S)
           D(k) == {q[i] : i \in 1 .. k} \ S
<1>1. /\ n \in Nat /\ ToSet(q) = {q[i] : i \in 1 .. n} /\ \A i \in 1 .. n : q[i] \in X
    <2>1. n \in Nat /\ DOMAIN q = 1 .. n /\ \A i \in 1 .. n : q[i] \in X
        OBVIOUS
    <2> QED
        BY <2>1 DEF ToSet
<1>2. PICK h \in [0 .. n -> P] : Runs(h, n, none, F) /\ h[n] = e
    <2>1. LoopEnds(n, P, none, F, e)
        BY DropAllLoop
    <2> QED
        BY <2>1 DEF LoopEnds
<1> DEFINE T == {k \in 0 .. n : ToSet(h[k]) = D(k)}
<1> HIDE DEF n, e, D
<1>3. 0 \in T
    <2>1. h[0] = none
        BY <1>2 DEF Runs
    <2>2. D(0) = {} /\ ToSet(none) = {}
        BY DEF D, ToSet
    <2>3. ToSet(h[0]) = D(0)
        BY <2>1, <2>2
    <2> QED
        BY <1>1, <2>3
<1>4. ASSUME NEW k \in 0 .. n, k \in T, k < n PROVE k + 1 \in T
    <2>1. /\ k + 1 \in 1 .. n /\ (k + 1) - 1 = k /\ k + 1 \in 0 .. n
          /\ \A i : i \in 1 .. k + 1 <=> i \in 1 .. k \/ i = k + 1
        BY <1>1, <1>4
    <2> DEFINE x == q[k + 1]
    <2>2. h[k + 1] = IF x \in S THEN h[k] ELSE Append(h[k], x)
        <3>1. h[k + 1] = F[<<h[k], k + 1>>] /\ h[k] \in P
            BY <1>2, <2>1 DEF Runs
        <3> HIDE DEF P
        <3> QED
            BY <2>1, <3>1
    <2>3. D(k + 1) = D(k) \cup ({x} \ S)
        BY <2>1 DEF D
    <2>4. h[k] \in P /\ x \in X
        BY <1>1, <2>1
    <2> DEFINE r == h[k]
    <2> HIDE DEF x
    <2>5. r \in Seq(X)
        BY <2>4
    <2> HIDE DEF r
    <2>6. ToSet(Append(r, x)) = ToSet(r) \cup {x}
        <3> DEFINE s == Append(r, x)
                   m == Len(r)
        <3>1. /\ m \in Nat /\ DOMAIN r = 1 .. m /\ s[m + 1] = x
              /\ \A i \in 1 .. m : s[i] = r[i]
            BY <2>5
        <3>2. DOMAIN s = 1 .. m + 1
            BY <2>5
        <3> HIDE DEF s, m
        <3>3. \A i : i \in 1 .. m + 1 <=> i \in 1 .. m \/ i = m + 1
            BY <3>1
        <3>4. ToSet(s) = ToSet(r) \cup {x}
            BY <3>1, <3>2, <3>3 DEF ToSet
        <3> QED
            BY <3>4 DEF s
    <2>7. ToSet(h[k + 1]) = D(k + 1)
        <3>1. ToSet(h[k]) = D(k)
            BY <1>4
        <3>2. CASE x \in S
            BY <2>2, <2>3, <3>1, <3>2
        <3>3. CASE x \notin S
            BY <2>2, <2>3, <2>6, <3>1, <3>3 DEF r
        <3> QED
            BY <3>2, <3>3
    <2> QED
        BY <2>1, <2>7
<1>5. n \in T
    <2>1. 0 .. n \subseteq T
        <3> HIDE DEF T
        <3> QED
            BY <1>1, <1>3, <1>4, InductionTo
    <2> HIDE DEF T
    <2> QED
        BY <1>1, <2>1
<1>6. e \in P /\ ToSet(e) = D(n)
    <2>1. n \in 0 .. n
        BY <1>1
    <2> QED
        BY <1>2, <1>5, <2>1
<1> QED
    BY <1>1, <1>6 DEF e, D

LEMMA HeightOfBlockAt ==
    ASSUME NEW b \in Blocks, NEW h \in 1 .. Height[b]
    PROVE  Height[BlockAt(b, h)] = h
<1> DEFINE n == Height[b]
           T == {k \in 0 .. (n - 1) : Height[BlockAt(b, n - k)] = n - k}
<1>1. /\ n \in Nat /\ BlockAt(b, n) = b
      /\ \A k \in 1 .. n : /\ BlockAt(b, k) \in Blocks \ {Genesis}
                           /\ Parent[BlockAt(b, k)] = BlockAt(b, k - 1)
    BY BlockAtIs
<1> HIDE DEF n
<1>2. n - 1 \in Nat /\ 0 \in 0 .. (n - 1)
    BY <1>1 DEF n
<1>3. 0 \in T
    BY <1>1, <1>2 DEF n
<1>4. ASSUME NEW k \in 0 .. (n - 1), k \in T, k < n - 1 PROVE k + 1 \in T
    <2>1. /\ n - k \in 1 .. n /\ (n - k) - 1 = n - (k + 1) /\ k + 1 \in 0 .. (n - 1)
          /\ n - (k + 1) \in 1 .. n
        BY <1>1, <1>4
    <2> DEFINE c == BlockAt(b, n - k)
    <2>2. c \in Blocks \ {Genesis} /\ Parent[c] = BlockAt(b, n - (k + 1)) /\ Height[c] = n - k
        BY <1>1, <1>4, <2>1
    <2> HIDE DEF c
    <2>3. Height[c] = Height[Parent[c]] + 1 /\ Height[Parent[c]] \in Nat
        BY <2>2, ChildAssumption, BlockTreeAssumption DEF ChildAssumption, BlockTreeAssumption
    <2>4. Height[Parent[c]] = n - (k + 1)
        BY <2>1, <2>2, <2>3
    <2> QED
        BY <2>1, <2>2, <2>4
<1>5. 0 .. (n - 1) \subseteq T
    <2> HIDE DEF T
    <2> DEFINE m == n - 1
    <2>1. m \in Nat /\ 0 \in T /\ \A k \in 0 .. m : k \in T /\ k < m => k + 1 \in T
        BY <1>2, <1>3, <1>4
    <2> HIDE DEF m
    <2>2. 0 .. m \subseteq T
        BY <2>1, InductionTo
    <2> QED
        BY <2>2 DEF m
<1>6. n - h \in 0 .. (n - 1) /\ n - (n - h) = h
    BY <1>1 DEF n
<1>7. n - h \in T
    <2> HIDE DEF T
    <2> QED
        BY <1>5, <1>6
<1> QED
    BY <1>6, <1>7

\* TxsOf goes through the transactions of the blocks above a height.
LEMMA AboveIs ==
    ASSUME NEW b \in Blocks, NEW h \in Nat
    PROVE  /\ TxsOf(Upwards(b, h)) \in Seq(Txids)
           /\ \A x : x \in ToSet(TxsOf(Upwards(b, h)))
                        <=> \E c \in ChainOf(b) : Height[c] > h /\ x \in ToSet(BlockTxs[c])
<1> DEFINE u == Upwards(b, h)
           n == Height[b] - h
           qs == [i \in DOMAIN u |-> BlockTxs[u[i]]]
<1>1. /\ u \in Seq(Blocks) /\ DOMAIN u = 1 .. n
      /\ \A i \in 1 .. n : u[i] = BlockAt(b, h + i)
    <2>1. u \in Seq(Blocks)
        BY UpwardsType
    <2> QED
        BY <2>1 DEF Upwards, BlockAt
<1>2. /\ Height[b] \in Nat /\ ChainOf(b) = Ancestry[b] /\ b \in Ancestry[b]
      /\ \A c \in Ancestry[b] : c \in Blocks /\ Height[c] \in Nat /\ Height[c] <= Height[b]
    <2>1. b # NoBlock /\ Height[b] \in Nat /\ b \in Ancestry[b]
        BY SelfOnChain, BlockTreeAssumption DEF BlockTreeAssumption
    <2>2. ASSUME NEW c \in Ancestry[b] PROVE c \in Blocks /\ Height[c] \in Nat /\ Height[c] <= Height[b]
        <3>1. c \in Blocks /\ (c = b \/ Height[c] < Height[b])
            BY OnChain
        <3>2. Height[c] \in Nat
            BY <3>1, BlockTreeAssumption DEF BlockTreeAssumption
        <3> QED
            BY <2>1, <3>1, <3>2
    <2> QED
        BY <2>1, <2>2 DEF ChainOf
<1> HIDE DEF u, n
<1>3. ASSUME NEW i \in 1 .. n
      PROVE  u[i] \in ChainOf(b) /\ Height[u[i]] > h
    <2>1. h + i \in 1 .. Height[b] /\ h + i > h
        BY <1>2 DEF n
    <2>2. BlockAt(b, h + i) \in Ancestry[b] /\ Height[BlockAt(b, h + i)] = h + i
        BY <2>1, BlockAtIs, HeightOfBlockAt
    <2> QED
        BY <1>1, <1>2, <2>1, <2>2
<1>4. ASSUME NEW c \in ChainOf(b), Height[c] > h
      PROVE  \E i \in 1 .. n : u[i] = c
    <2> DEFINE k == Height[c]
    <2>1. c \in Ancestry[b] /\ k \in Nat /\ k <= Height[b]
        BY <1>2
    <2>2. k \in 1 .. Height[b] /\ k - h \in 1 .. n /\ h + (k - h) = k
        BY <1>2, <1>4, <2>1 DEF n
    <2>3. BlockAt(b, k) \in Ancestry[b] /\ Height[BlockAt(b, k)] = k
        BY <2>2, BlockAtIs, HeightOfBlockAt
    <2>4. BlockAt(b, k) = c
        BY <2>1, <2>3, ChainOrdered
    <2> HIDE DEF k
    <2>5. u[k - h] = c
        BY <1>1, <2>2, <2>4
    <2> QED
        BY <2>2, <2>5
<1>5. /\ qs \in Seq(Seq(Txids)) /\ Len(qs) \in Nat /\ 1 .. Len(qs) = 1 .. n
      /\ \A i \in 1 .. n : qs[i] = BlockTxs[u[i]]
    <2>1. Len(u) \in Nat /\ DOMAIN u = 1 .. Len(u) /\ \A i \in DOMAIN u : u[i] \in Blocks
        <3>1. u \in Seq(Blocks)
            BY <1>1
        <3> QED
            BY <3>1
    <2>2. qs = [i \in 1 .. Len(u) |-> BlockTxs[u[i]]]
        BY <2>1
    <2>3. \A i \in 1 .. Len(u) : BlockTxs[u[i]] \in Seq(Txids)
        BY <2>1, TransactionAssumption DEF TransactionAssumption
    <2> DEFINE X == Seq(Txids)
    <2> HIDE DEF qs, X
    <2>4. qs \in Seq(X) /\ Len(qs) = Len(u)
        <3>1. \A i \in 1 .. Len(u) : BlockTxs[u[i]] \in X
            BY <2>3 DEF X
        <3> QED
            BY <2>1, <2>2, <3>1
    <2>5. \A i \in 1 .. Len(u) : qs[i] = BlockTxs[u[i]]
        BY <2>2
    <2> QED
        BY <1>1, <2>1, <2>4, <2>5 DEF X
<1>6. TxsOf(u) = FlattenSeq(qs)
    BY DEF TxsOf
<1> HIDE DEF qs
<1>7. /\ TxsOf(u) \in Seq(Txids)
      /\ \A x : x \in ToSet(TxsOf(u)) <=> \E i \in 1 .. Len(qs) : x \in ToSet(qs[i])
    BY <1>5, <1>6, FlattenIs
<1>8. ASSUME NEW x
      PROVE  x \in ToSet(TxsOf(u)) <=> \E c \in ChainOf(b) : Height[c] > h /\ x \in ToSet(BlockTxs[c])
    <2>1. x \in ToSet(TxsOf(u)) <=> \E i \in 1 .. n : x \in ToSet(BlockTxs[u[i]])
        BY <1>5, <1>7
    <2> QED
        BY <1>3, <1>4, <2>1
<1> QED
    BY <1>7, <1>8 DEF u

\* The fork's transactions stay, Attached has the rest of the new chain's, and what is not
\* resurrected of the old chain's is lost.
LEMMA SwitchMoves ==
    ASSUME NEW old \in Blocks, NEW new \in Blocks
    PROVE  LET F == ChainTxs(ForkOf(old, new))
               R == ToSet(Resurrected(old, new))
           IN  /\ ForkOf(old, new) \in Blocks
               /\ ChainOf(ForkOf(old, new)) \subseteq ChainOf(old)
               /\ F \subseteq ChainTxs(old)
               /\ TxsOf(Attached(old, new)) \in Seq(Txids)
               /\ Resurrected(old, new) \in Seq(Txids)
               /\ ChainTxs(new) = F \cup ToSet(TxsOf(Attached(old, new)))
               /\ R \subseteq ChainTxs(old)
               /\ ChainTxs(old) \subseteq F \cup Lost \cup R
<1> DEFINE f == ForkOf(old, new)
           h == Height[f]
           up == TxsOf(Attached(old, new))
           k == IF h < LastCheckpoint THEN LastCheckpoint ELSE h
           down == TxsOf(Detached(old, new))
           r == Resurrected(old, new)
<1>1. /\ f \in Blocks /\ ChainOf(f) = Ancestry[f] /\ ChainOf(old) = Ancestry[old]
      /\ ChainOf(new) = Ancestry[new] /\ Ancestry[f] \subseteq Ancestry[old]
      /\ Ancestry[f] \subseteq Ancestry[new] /\ f \in Ancestry[old] /\ f \in Ancestry[new]
    <2>1. old # NoBlock /\ new # NoBlock
        BY BlockTreeAssumption DEF BlockTreeAssumption
    <2>2. Genesis \in ChainOf(old) \cap ChainOf(new)
        BY <2>1, GenesisOnChain DEF ChainOf
    <2>3. f \in Blocks /\ ChainOf(f) \subseteq ChainOf(old) \cap ChainOf(new)
        BY <2>2, ForkProperty DEF Tips
    <2> HIDE DEF f
    <2>4. f # NoBlock /\ f \in Ancestry[f]
        BY <2>3, SelfOnChain, BlockTreeAssumption DEF BlockTreeAssumption
    <2> QED
        BY <2>1, <2>3, <2>4 DEF ChainOf
<1> HIDE DEF f
<1>2. /\ h \in Nat /\ k \in Nat /\ LastCheckpoint \in Nat
      /\ \A c \in Ancestry[old] \cup Ancestry[new] : c \in Blocks /\ Height[c] \in Nat
    <2>1. \A c \in Ancestry[old] \cup Ancestry[new] : c \in Blocks
        BY OnChain
    <2> QED
        BY <1>1, <2>1, BlockTreeAssumption, MemPoolAssumption DEF BlockTreeAssumption, MemPoolAssumption
<1>3. /\ up \in Seq(Txids)
      /\ \A x : x \in ToSet(up) <=> \E c \in ChainOf(new) : Height[c] > h /\ x \in ToSet(BlockTxs[c])
    <2>1. Attached(old, new) = Upwards(new, h)
        BY DEF Attached, f
    <2> HIDE DEF h
    <2> QED
        BY <1>2, <2>1, AboveIs
<1>4. /\ down \in Seq(Txids)
      /\ \A x : x \in ToSet(down) <=> \E c \in ChainOf(old) : Height[c] > k /\ x \in ToSet(BlockTxs[c])
    <2>1. Detached(old, new) = Upwards(old, k)
        BY DEF Detached, f
    <2> HIDE DEF k
    <2> QED
        BY <1>2, <2>1, AboveIs
<1>5. r \in Seq(Txids) /\ ToSet(r) = ToSet(down) \ CoinBases
    <2>1. r = DropAll(down, CoinBases)
        BY DEF Resurrected
    <2> HIDE DEF down, r
    <2> QED
        BY <1>4, <2>1, DropAllIs
<1> HIDE DEF up, down, r, h, k
<1>6. ASSUME NEW c \in Ancestry[old] \cup Ancestry[new]
      PROVE  c \in Ancestry[f] \/ Height[c] > h
    <2>1. CASE Height[c] <= h
        <3>1. Height[c] <= Height[f]
            BY <2>1 DEF h
        <3> QED
            BY <1>1, <3>1, LowerOnChain
    <2> QED
        BY <1>2, <2>1
<1>7. ChainTxs(f) \subseteq ChainTxs(old) /\ ChainTxs(f) \subseteq ChainTxs(new)
    BY <1>1 DEF ChainTxs
<1>8. ChainTxs(new) = ChainTxs(f) \cup ToSet(up)
    <2>1. ChainTxs(new) \subseteq ChainTxs(f) \cup ToSet(up)
        BY <1>1, <1>3, <1>6 DEF ChainTxs
    <2>2. ToSet(up) \subseteq ChainTxs(new)
        BY <1>3 DEF ChainTxs
    <2> QED
        BY <1>7, <2>1, <2>2
<1>9. ToSet(r) \subseteq ChainTxs(old)
    BY <1>4, <1>5 DEF ChainTxs
<1>10. ASSUME NEW x \in ChainTxs(old) PROVE x \in ChainTxs(f) \cup Lost \cup ToSet(r)
    <2>1. PICK c \in Ancestry[old] : x \in ToSet(BlockTxs[c])
        BY <1>1 DEF ChainTxs
    <2>2. c \in Blocks
        BY <1>2
    <2>3. CASE c \in Ancestry[f]
        BY <1>1, <2>1, <2>3 DEF ChainTxs
    <2>4. CASE Height[c] <= LastCheckpoint
        BY <2>1, <2>2, <2>4 DEF Lost
    <2>5. CASE Height[c] > h /\ Height[c] > LastCheckpoint
        <3>1. Height[c] > k
            BY <2>5 DEF k
        <3>2. x \in ToSet(down)
            BY <1>1, <1>4, <2>1, <3>1
        <3> QED
            BY <1>5, <3>2 DEF Lost
    <2> QED
        BY <1>2, <1>6, <2>2, <2>3, <2>4, <2>5
<1> QED
    BY <1>1, <1>3, <1>5, <1>7, <1>8, <1>9, <1>10 DEF f, up, r

-----------------------------------------------------------------------------
\* The pool after a switch from old to new

\* In the loop that resurrects: Q are the transactions whose turn is still to come.  None of the
\* old chain's that the cache has an empty entry for comes back.
Risen(p, p0, old, new, empty, Q) ==
    /\ p.mapTx \cap ChainTxs(old) \cap empty = {}
    /\ IsPool(p) /\ Rooted(p, ChainTxs(new) \cup Lost \cup Q)
    /\ p.mapTx \subseteq p0.mapTx \cup (ChainTxs(old) \ ChainTxs(new))
    /\ Points(p.mapTx) \cap Points(ChainTxs(ForkOf(old, new))) = {}

LEMMA ResurrectIs ==
    ASSUME NEW old \in Blocks, NEW new \in Blocks,
           Exact(old), Exact(new), Exact(ForkOf(old, new)),
           NEW p0, Minable(p0, old), NEW p, NEW Q, NEW empty, Risen(p, p0, old, new, empty, Q),
           NEW t \in ChainTxs(old), NEW Q1, Q \ {t} \subseteq Q1
    PROVE  Risen(Resurrect(new, p, t, empty), p0, old, new, empty, Q1)
<1> DEFINE O == ChainTxs(old)
           N == ChainTxs(new)
           F == ChainTxs(ForkOf(old, new))
           q == Resurrect(new, p, t, empty)
<1>1. /\ F \subseteq O /\ F \subseteq N /\ O \subseteq Txids /\ GenesisTxs \subseteq F
      /\ t \in Txids
    <2>1. ForkOf(old, new) \in Blocks /\ F \subseteq O /\ F \subseteq N
        BY SwitchMoves
    <2>2. O \subseteq Txids
        BY ChainTxsIs
    <2>3. GenesisTxs \subseteq F
        <3> DEFINE f == ForkOf(old, new)
        <3> HIDE DEF f
        <3>1. f \in Blocks
            BY <2>1 DEF f
        <3>2. GenesisTxs \subseteq ChainTxs(f)
            BY <3>1, ChainTxsIs
        <3> QED
            BY <3>2 DEF f
    <2> QED
        BY <2>1, <2>2, <2>3
<1>2. /\ \A o \in Points(O) : o.hash \in O
      /\ \A o \in Points(N) : o.hash \in N
      /\ \A o \in Points(F) : o.hash \in F
      /\ \A o : IsPoint(o) /\ Available(new, o) => Made(o) /\ o.hash \in N /\ o \notin Points(N)
    BY DEF Exact
<1>3. p0.mapTx \cap O = {}
    BY DEF Minable
<1>4. /\ IsPool(p) /\ Rooted(p, N \cup Lost \cup Q)
      /\ p.mapTx \subseteq p0.mapTx \cup (O \ N)
      /\ Points(p.mapTx) \cap Points(F) = {}
      /\ p.mapTx \cap O \cap empty = {}
    BY DEF Risen
<1>5. t \in O
    OBVIOUS
<1>6. Points(F) \subseteq Points(N)
    BY <1>1 DEF Points
<1> HIDE DEF O, N, F, q
<1>7. CASE Verdict(new, p, t, FALSE, empty) # "ok"
    <2> DEFINE r == RemoveTx(p, t, TRUE)
               S == N \cup Lost \cup Q
    <2>1. q = r
        BY <1>7 DEF Resurrect, q
    <2>2. IsPool(r)
        BY <1>4, RemoveKeepsPool
    <2>3. r.mapTx \subseteq p.mapTx \ {t} /\ Rooted(r, S \ {t})
        BY <1>4, RemoveAllIs
    <2> HIDE DEF r
    <2>4. Rooted(r, N \cup Lost \cup Q1)
        <3>1. S \ {t} \subseteq N \cup Lost \cup Q1
            OBVIOUS
        <3> HIDE DEF S
        <3> QED
            BY <2>3, <3>1, RootedInMore
    <2>5. Points(r.mapTx) \subseteq Points(p.mapTx)
        BY <2>3 DEF Points
    <2> QED
        BY <1>4, <2>1, <2>2, <2>3, <2>4, <2>5 DEF Risen, O, N, F, q
<1>8. CASE Verdict(new, p, t, FALSE, empty) = "ok"
    <2> DEFINE r == AddUnchecked(p, t)
    <2>1. q = r
        BY <1>8 DEF Resurrect, q
    <2>2. r.mapTx = p.mapTx \cup {t} /\ IsPool(r)
        <3>1. IsPool(r)
            <4>1. Points({t}) \cap DOMAIN p.mapNextTx = {}
                BY <1>8 DEF Verdict, Outpoints
            <4> QED
                BY <1>1, <1>4, <4>1, AddKeepsPool
        <3> QED
            BY <3>1 DEF AddUnchecked
    <2> HIDE DEF r
    <2>3. /\ \E o : o \in Points({t})
          /\ \A o \in Points({t}) :
                Available(new, o) \/ (o.hash \in p.mapTx /\ o.n \in DOMAIN TxOut[o.hash])
        <3> DEFINE no == FALSE
        <3>1. Verdict(new, p, t, no, empty) = "ok"
            BY <1>8
        <3> HIDE DEF no
        <3> QED
            BY <1>1, <3>1, OkSpends
    <2>4. ASSUME NEW o \in Points({t})
          PROVE  /\ Made(o) /\ o.hash \in p.mapTx \cup N /\ o \notin Points(F)
                 /\ Available(new, o) \/ o.hash \in p.mapTx
        <3>1. IsPoint(o) /\ o.hash \in Txids
            BY <1>1, InputsIs
        <3>2. CASE Available(new, o)
            BY <1>2, <1>6, <3>1, <3>2
        <3>3. CASE o.hash \in p.mapTx /\ o.n \in DOMAIN TxOut[o.hash]
            <4>1. o.hash \notin F
                BY <1>1, <1>3, <1>4, <3>3
            <4> QED
                BY <1>1, <1>2, <3>1, <3>3, <4>1 DEF Made
        <3> QED
            BY <2>3, <3>2, <3>3
    <2>9. t \notin empty
        BY <1>8 DEF Verdict
    <2>5. t \notin N
        <3> SUFFICES ASSUME t \in N PROVE FALSE
            OBVIOUS
        <3>1. PICK o : o \in Points({t})
            BY <2>3
        <3>2. o \in Points(O) /\ o \in Points(N) /\ IsPoint(o)
            <4>1. o \in Points(O) /\ o \in Points(N)
                BY <1>5, <3>1, PointsIs
            <4> QED
                BY <1>1, <3>1, <4>1, InputsIs
        <3>3. o.hash \in p.mapTx
            BY <1>2, <2>4, <3>1, <3>2
        <3> QED
            BY <1>2, <1>3, <1>4, <3>2, <3>3
    <2>6. Rooted(r, N \cup Lost \cup Q1)
        <3> SUFFICES ASSUME NEW u \in r.mapTx, NEW o \in Points({u})
                     PROVE  Made(o) /\ o.hash \in r.mapTx \cup (N \cup Lost \cup Q1)
            BY DEF Rooted
        <3>1. CASE u = t
            BY <2>2, <2>4, <3>1
        <3>2. CASE u # t
            <4>1. Made(o) /\ o.hash \in p.mapTx \cup (N \cup Lost \cup Q)
                BY <1>4, <2>2, <3>2 DEF Rooted
            <4> QED
                BY <2>2, <4>1
        <3> QED
            BY <3>1, <3>2
    <2>7. Points(r.mapTx) = Points(p.mapTx) \cup Points({t})
        BY <2>2, PointsOfBoth
    <2>8. Points(r.mapTx) \cap Points(F) = {}
        BY <1>4, <2>4, <2>7
    <2> QED
        BY <1>4, <1>5, <2>1, <2>2, <2>5, <2>6, <2>8, <2>9 DEF Risen, O, N, F, q
<1> QED
    BY <1>7, <1>8 DEF q

\* After the loop what the pool spends is made by the pool, the new chain, or lost.
LEMMA ResurrectedAll ==
    ASSUME NEW old \in Blocks, NEW new \in Blocks,
           Exact(old), Exact(new), Exact(ForkOf(old, new)), NEW p0, Minable(p0, old),
           NEW empty
    PROVE  Risen(ResurrectAll(new, p0, Resurrected(old, new), empty), p0, old, new, empty, {})
<1> DEFINE q == Resurrected(old, new)
           n == Len(q)
           Fn == [a \in Pools \X (1 .. n) |-> Resurrect(new, a[1], q[a[2]], empty)]
           e == ResurrectAll(new, p0, q, empty)
           Q(k) == {q[i] : i \in (k + 1) .. n}
           O == ChainTxs(old)
           N == ChainTxs(new)
           F == ChainTxs(ForkOf(old, new))
<1>1. q \in Seq(Txids) /\ F \subseteq O /\ F \subseteq N /\ ToSet(q) \subseteq O
      /\ O \subseteq F \cup Lost \cup ToSet(q)
    BY SwitchMoves
<1>2. n \in Nat /\ ToSet(q) = {q[i] : i \in 1 .. n}
    <2>1. n \in Nat /\ DOMAIN q = 1 .. n
        BY <1>1
    <2> QED
        BY <2>1 DEF ToSet
<1>3. /\ IsPool(p0) /\ Rooted(p0, O \cup Lost) /\ Points(p0.mapTx) \cap Points(O) = {}
      /\ p0.mapTx \cap O = {}
    BY DEF Minable
<1> HIDE DEF q, O, N, F
<1>4. PICK h \in [0 .. n -> Pools] : Runs(h, n, p0, Fn) /\ h[n] = e
    <2>1. LoopEnds(n, Pools, p0, Fn, e)
        BY <1>1, <1>3, ResurrectLoop
    <2> QED
        BY <2>1 DEF LoopEnds
<1> DEFINE T == {k \in 0 .. n : Risen(h[k], p0, old, new, empty, Q(k))}
<1> HIDE DEF n, e, Q
<1>5. 0 \in T
    <2>1. h[0] = p0
        BY <1>4 DEF Runs
    <2>2. Q(0) = ToSet(q)
        BY <1>2 DEF Q
    <2>3. Rooted(p0, N \cup Lost \cup Q(0))
        <3>1. O \cup Lost \subseteq N \cup Lost \cup Q(0)
            BY <1>1, <2>2
        <3> QED
            BY <1>3, <3>1, RootedInMore
    <2>4. Points(F) \subseteq Points(O)
        BY <1>1 DEF Points
    <2>5. Risen(p0, p0, old, new, empty, Q(0))
        BY <1>3, <2>3, <2>4 DEF Risen, O, N, F
    <2> QED
        BY <1>2, <2>1, <2>5
<1>6. ASSUME NEW k \in 0 .. n, k \in T, k < n PROVE k + 1 \in T
    <2>1. /\ k + 1 \in 1 .. n /\ (k + 1) - 1 = k /\ k + 1 \in 0 .. n
          /\ \A i \in (k + 1) .. n : i = k + 1 \/ i \in ((k + 1) + 1) .. n
        BY <1>2, <1>6
    <2> DEFINE x == q[k + 1]
               r == h[k]
               Q0 == Q(k)
               Q1 == Q(k + 1)
    <2>2. h[k + 1] = Resurrect(new, r, x, empty)
        <3>1. h[k + 1] = Fn[<<h[k], k + 1>>] /\ h[k] \in Pools
            BY <1>4, <2>1 DEF Runs
        <3> QED
            BY <2>1, <3>1
    <2>3. Q0 \ {x} \subseteq Q1
        BY <2>1 DEF Q
    <2>4. x \in ChainTxs(old)
        BY <1>1, <1>2, <2>1 DEF O
    <2>5. Risen(r, p0, old, new, empty, Q0)
        BY <1>6
    <2> HIDE DEF x, r, Q0, Q1
    <2>6. Risen(Resurrect(new, r, x, empty), p0, old, new, empty, Q1)
        BY <2>3, <2>4, <2>5, ResurrectIs
    <2>7. Risen(h[k + 1], p0, old, new, empty, Q(k + 1))
        BY <2>2, <2>6 DEF Q1
    <2> QED
        BY <2>1, <2>7
<1>7. n \in T
    <2>1. 0 .. n \subseteq T
        <3> HIDE DEF T
        <3> QED
            BY <1>2, <1>5, <1>6, InductionTo
    <2> HIDE DEF T
    <2> QED
        BY <1>2, <2>1
<1>8. Q(n) = {}
    <2>1. \A i : i \notin (n + 1) .. n
        BY <1>2
    <2> QED
        BY <2>1 DEF Q
<1>9. Risen(e, p0, old, new, empty, {})
    <2>1. Risen(e, p0, old, new, empty, Q(n))
        BY <1>4, <1>7
    <2> QED
        BY <1>8, <2>1
<1> QED
    BY <1>9 DEF e, q

\* In the loop that deletes what the new chain's blocks hold: D are those whose turn is over.
Purged(p, p1, S, D) == Cleared(p1, S, p, Points(D)) /\ p.mapTx \cap D = {}

LEMMA PurgeStep ==
    ASSUME NEW p, NEW p1, NEW S, NEW D, Purged(p, p1, S, D), NEW t \in Txids, t \in S
    PROVE  Purged(Delete(p, t), p1, S, D \cup {t})
<1> DEFINE q == Delete(p, t)
<1>1. /\ IsPool(p) /\ p.mapTx \subseteq p1.mapTx /\ Rooted(p, S)
      /\ Points(p.mapTx) \cap Points(D) = {} /\ p.mapTx \cap D = {}
    BY DEF Purged, Cleared
<1>2. Cleared(p, S, q, Points({t})) /\ t \notin q.mapTx
    BY <1>1, DeleteIs
<1> HIDE DEF q
<1>3. /\ IsPool(q) /\ q.mapTx \subseteq p.mapTx /\ Rooted(q, S)
      /\ Points(q.mapTx) \cap Points({t}) = {}
    BY <1>2 DEF Cleared
<1>4. Points(q.mapTx) \subseteq Points(p.mapTx)
    BY <1>3 DEF Points
<1>5. Points(D \cup {t}) = Points(D) \cup Points({t})
    BY PointsOfBoth
<1>6. Points(q.mapTx) \cap Points(D \cup {t}) = {}
    BY <1>1, <1>3, <1>4, <1>5
<1>7. Purged(q, p1, S, D \cup {t})
    BY <1>1, <1>2, <1>3, <1>6 DEF Purged, Cleared
<1> QED
    BY <1>7 DEF q

LEMMA PurgedAll ==
    ASSUME NEW q \in Seq(Txids), NEW p1, IsPool(p1), NEW S, Rooted(p1, S), ToSet(q) \subseteq S
    PROVE  Purged(FoldLeft(Delete, p1, q), p1, S, ToSet(q))
<1> DEFINE n == Len(q)
           Fn == [a \in Pools \X (1 .. n) |-> Delete(a[1], q[a[2]])]
           e == FoldLeft(Delete, p1, q)
           D(k) == {q[i] : i \in 1 .. k}
<1>1. n \in Nat /\ ToSet(q) = D(n) /\ \A i \in 1 .. n : q[i] \in Txids /\ q[i] \in S
    <2>1. n \in Nat /\ DOMAIN q = 1 .. n /\ \A i \in 1 .. n : q[i] \in Txids
        OBVIOUS
    <2> QED
        BY <2>1 DEF ToSet
<1>2. PICK h \in [0 .. n -> Pools] : Runs(h, n, p1, Fn) /\ h[n] = e
    <2>1. LoopEnds(n, Pools, p1, Fn, e)
        BY DeleteLoop
    <2> QED
        BY <2>1 DEF LoopEnds
<1> DEFINE T == {k \in 0 .. n : Purged(h[k], p1, S, D(k))}
<1> HIDE DEF n, e, D
<1>3. 0 \in T
    <2>1. h[0] = p1
        BY <1>2 DEF Runs
    <2>2. D(0) = {} /\ Points({}) = {}
        BY DEF D, Points
    <2>3. Purged(p1, p1, S, D(0))
        BY <2>2 DEF Purged, Cleared
    <2> QED
        BY <1>1, <2>1, <2>3
<1>4. ASSUME NEW k \in 0 .. n, k \in T, k < n PROVE k + 1 \in T
    <2>1. /\ k + 1 \in 1 .. n /\ (k + 1) - 1 = k /\ k + 1 \in 0 .. n
          /\ \A i : i \in 1 .. k + 1 <=> i \in 1 .. k \/ i = k + 1
        BY <1>1, <1>4
    <2> DEFINE x == q[k + 1]
               r == h[k]
               D0 == D(k)
    <2>2. h[k + 1] = Delete(r, x)
        <3>1. h[k + 1] = Fn[<<h[k], k + 1>>] /\ h[k] \in Pools
            BY <1>2, <2>1 DEF Runs
        <3> QED
            BY <2>1, <3>1
    <2>3. D(k + 1) = D0 \cup {x}
        BY <2>1 DEF D
    <2>4. x \in Txids /\ x \in S
        BY <1>1, <2>1
    <2>5. Purged(r, p1, S, D0)
        BY <1>4
    <2> HIDE DEF x, r, D0
    <2>6. Purged(Delete(r, x), p1, S, D0 \cup {x})
        BY <2>4, <2>5, PurgeStep
    <2>7. Purged(h[k + 1], p1, S, D(k + 1))
        BY <2>2, <2>3, <2>6
    <2> QED
        BY <2>1, <2>7
<1>5. n \in T
    <2>1. 0 .. n \subseteq T
        <3> HIDE DEF T
        <3> QED
            BY <1>1, <1>3, <1>4, InductionTo
    <2> HIDE DEF T
    <2> QED
        BY <1>1, <2>1
<1>6. Purged(e, p1, S, D(n))
    BY <1>2, <1>5
<1> QED
    BY <1>1, <1>6 DEF e

\* A switch leaves a pool that can be mined on top of the new chain, with nothing of either
\* chain that the cache has an empty entry for.
LEMMA SwitchKeepsMinable ==
    ASSUME NEW old \in Blocks, NEW new \in Blocks,
           Exact(old), Exact(new), Exact(ForkOf(old, new)), NEW p0, Minable(p0, old),
           NEW empty
    PROVE  /\ Minable(PoolAfterSwitch(p0, old, new, empty), new)
           /\ PoolAfterSwitch(p0, old, new, empty).mapTx
                \subseteq p0.mapTx \cup (ChainTxs(old) \ empty)
<1> DEFINE p1 == ResurrectAll(new, p0, Resurrected(old, new), empty)
           q == TxsOf(Attached(old, new))
           e == PoolAfterSwitch(p0, old, new, empty)
           O == ChainTxs(old)
           N == ChainTxs(new)
           F == ChainTxs(ForkOf(old, new))
           S == N \cup Lost
<1>1. q \in Seq(Txids) /\ F \subseteq O /\ N = F \cup ToSet(q)
    BY SwitchMoves
<1>2. Risen(p1, p0, old, new, empty, {})
    BY ResurrectedAll
<1>3. e = FoldLeft(Delete, p1, q)
    BY DEF PoolAfterSwitch
<1>4. p0.mapTx \cap O = {}
    BY DEF Minable
<1> HIDE DEF p1, q, e
<1>5. /\ IsPool(p1) /\ Rooted(p1, S \cup {})
      /\ p1.mapTx \subseteq p0.mapTx \cup (O \ N) /\ p1.mapTx \cap O \cap empty = {}
      /\ Points(p1.mapTx) \cap Points(F) = {}
    BY <1>2 DEF Risen
<1>6. S \cup {} = S /\ ToSet(q) \subseteq S
    BY <1>1
<1> HIDE DEF O, N, F, S
<1>7. Purged(e, p1, S, ToSet(q))
    BY <1>1, <1>3, <1>5, <1>6, PurgedAll
<1>8. /\ IsPool(e) /\ e.mapTx \subseteq p1.mapTx /\ Rooted(e, S)
      /\ Points(e.mapTx) \cap Points(ToSet(q)) = {} /\ e.mapTx \cap ToSet(q) = {}
    BY <1>7 DEF Purged, Cleared
<1>9. e.mapTx \cap N = {}
    BY <1>1, <1>4, <1>5, <1>8
<1>10. Points(e.mapTx) \cap Points(N) = {}
    <2>1. Points(e.mapTx) \subseteq Points(p1.mapTx)
        BY <1>8 DEF Points
    <2>2. Points(N) = Points(F) \cup Points(ToSet(q))
        BY <1>1, PointsOfBoth
    <2> QED
        BY <1>5, <1>8, <2>1, <2>2
<1>11. e.mapTx \subseteq p0.mapTx \cup (O \ empty)
    BY <1>5, <1>8
<1> QED
    BY <1>8, <1>9, <1>10, <1>11 DEF Minable, e, N, S, O

\* No pool transaction is one that the cache, after the switch, has an empty entry for: what
\* either branch makes or spends is of one of the chains.
LEMMA SwitchKeepsVisible ==
    ASSUME NEW old \in Blocks, NEW new \in Blocks,
           Exact(old), Exact(new), Exact(ForkOf(old, new)), NEW p0, Minable(p0, old),
           NEW pruned0, p0.mapTx \cap pruned0 = {}, NEW fFlush
    PROVE  LET empty == PrunedAfterSwitch(pruned0, old, new, fFlush)
           IN  PoolAfterSwitch(p0, old, new, empty).mapTx \cap empty = {}
<1> DEFINE empty == PrunedAfterSwitch(pruned0, old, new, fFlush)
           e == PoolAfterSwitch(p0, old, new, empty)
           O == ChainTxs(old)
           N == ChainTxs(new)
<1>1. ASSUME NEW b \in Blocks, Exact(b), NEW c \in ChainOf(b) PROVE Touched(c) \subseteq ChainTxs(b)
    <2>1. ASSUME NEW t \in ToSet(BlockTxs[c]) PROVE t \in ChainTxs(b)
        BY DEF ChainTxs
    <2>2. ASSUME NEW t \in ToSet(BlockTxs[c]), NEW i \in DOMAIN TxIn[t]
          PROVE  TxIn[t][i].hash \in ChainTxs(b)
        <3>1. TxIn[t][i] \in ToSet(TxIn[t])
            BY DEF ToSet
        <3>2. TxIn[t][i] \in Points(ChainTxs(b))
            BY <2>1, <3>1 DEF Points
        <3> QED
            BY <1>1, <3>2 DEF Exact
    <2> QED
        BY <2>1, <2>2 DEF Touched
<1>2. empty \subseteq pruned0 \cup O \cup N
    BY <1>1 DEF PrunedAfterSwitch
<1> HIDE DEF empty
<1>3. Minable(e, new) /\ e.mapTx \subseteq p0.mapTx \cup (O \ empty)
    BY SwitchKeepsMinable
<1>4. e.mapTx \cap N = {} /\ p0.mapTx \cap O = {}
    BY <1>3 DEF Minable
<1> HIDE DEF e, O, N
<1>5. e.mapTx \cap empty = {}
    BY <1>2, <1>3, <1>4
<1> QED
    BY <1>5 DEF e, empty

-----------------------------------------------------------------------------
\* What the handlers keep

\* The best chain is valid, what is stored was not refused and hangs together, and the pool
\* can be mined on top of the best block and has nothing that the cache has an empty entry for.
Holds(index, best, p, empty) ==
    /\ best \in index /\ ValidChain[best]
    /\ index \cap BadBlocks = {}
    /\ \A b \in index : ChainOf(b) \subseteq index
    /\ Minable(p, best)
    /\ p.mapTx \cap empty = {}

Held(s) == Holds(s.index, s.best, s.pool, s.pruned)

\* A stored block with a valid chain has exact coins.
LEMMA StoredIsExact ==
    ASSUME NEW index \in SUBSET Blocks, index \cap BadBlocks = {}, NEW b \in index,
           ValidChain[b], ChainOf(b) \subseteq index
    PROVE  Exact(b)
<1>1. ChainOf(b) \cap BadBlocks = {}
    OBVIOUS
<1> QED
    BY <1>1, ChainIsExact

LEMMA AcceptKeeps ==
    ASSUME NEW s \in States, Held(s), NEW b \in Blocks
    PROVE  Held(AcceptBlock(s, b))
<1> DEFINE stored == b \notin s.index /\ Parent[b] \in s.index /\ b \notin BadBlocks
           better == stored /\ ChainWork[b] > ChainWork[s.best]
           flawed == {c \in ChainOf(b) : ~ValidChain[c]}
           found  == IF better /\ flawed # {} THEN {Lowest(flawed)} ELSE {}
           index  == IF stored THEN s.index \cup {b} ELSE s.index
           failed1 == s.failed \cup found
           best   == IF better /\ flawed = {} THEN b ELSE s.best
           empty  == PrunedAfterSwitch(s.pruned, s.best, b, b \in s.flushing)
           pruned1 == IF better /\ flawed = {} THEN empty ELSE s.pruned
           pool1  == IF better /\ flawed = {} THEN PoolAfterSwitch(s.pool, s.best, b, empty)
                     ELSE s.pool
           fOk    == stored /\ found \subseteq s.failed
           a == AcceptBlock(s, b)
<1>1. a = [s EXCEPT !.index = index, !.failed = failed1, !.best = best, !.pruned = pruned1,
                    !.pool = pool1, !.fOk = fOk]
    BY DEF AcceptBlock
<1>2. /\ s.index \subseteq Blocks /\ s.best \in Blocks /\ s.best \in s.index /\ ValidChain[s.best]
      /\ s.index \cap BadBlocks = {} /\ \A c \in s.index : ChainOf(c) \subseteq s.index
      /\ Minable(s.pool, s.best) /\ s.pool.mapTx \cap s.pruned = {}
    BY DEF States, Held, Holds
<1>3. \A c \in Blocks : c # NoBlock /\ ChainOf(c) = Ancestry[c] /\ c \in ChainOf(c) /\ Genesis \in ChainOf(c)
    BY SelfOnChain, GenesisOnChain, BlockTreeAssumption DEF ChainOf, BlockTreeAssumption
<1>4. index \subseteq Blocks /\ index \cap BadBlocks = {} /\ s.index \subseteq index
    BY <1>2
<1>5. ASSUME NEW c \in index PROVE ChainOf(c) \subseteq index
    <2>1. CASE c \in s.index
        BY <1>2, <1>4, <2>1
    <2>2. CASE c \notin s.index
        <3>1. c = b /\ stored /\ index = s.index \cup {b}
            BY <2>2
        <3>2. b # Genesis
            BY <1>2, <1>3, <3>1
        <3>3. Parent[b] \in Blocks /\ Ancestry[b] = {b} \cup Ancestry[Parent[b]]
            BY <3>2, ParentBelow
        <3>4. ChainOf(b) = {b} \cup ChainOf(Parent[b])
            BY <1>3, <3>3
        <3>5. ChainOf(Parent[b]) \subseteq s.index
            BY <1>2, <3>1
        <3> QED
            BY <3>1, <3>4, <3>5
    <2> QED
        BY <2>1, <2>2
<1>6. /\ best \in index /\ ValidChain[best] /\ Minable(pool1, best)
      /\ pool1.mapTx \cap pruned1 = {}
    <2>1. CASE better /\ flawed = {}
        <3>1. /\ best = b /\ b \in index /\ pool1 = PoolAfterSwitch(s.pool, s.best, b, empty)
              /\ pruned1 = empty
            BY <2>1
        <3>2. ValidChain[b]
            BY <1>3, <2>1
        <3> HIDE DEF best, pool1, pruned1, empty, index, better, flawed
        <3>3. Exact(b)
            BY <1>4, <1>5, <3>1, <3>2, StoredIsExact
        <3>4. Exact(s.best)
            BY <1>2, StoredIsExact
        <3> DEFINE f == ForkOf(s.best, b)
        <3>5. Exact(f)
            <4>1. f \in Blocks /\ ChainOf(f) \subseteq ChainOf(s.best)
                BY <1>2, SwitchMoves
            <4> HIDE DEF f
            <4>2. f \in ChainOf(s.best) /\ ChainOf(f) \subseteq s.index /\ f \in s.index
                BY <1>2, <1>3, <4>1
            <4>3. ValidChain[f]
                <5>1. ValidChain[f] = TRUE \/ ~ValidChain[f]
                    BY <4>1 DEF ValidChain
                <5> QED
                    BY <1>2, <4>2, <5>1, FlawedChain
            <4> QED
                BY <1>2, <4>2, <4>3, StoredIsExact
        <3> HIDE DEF f
        <3>6. Minable(PoolAfterSwitch(s.pool, s.best, b, empty), b)
            <4> DEFINE p0 == s.pool
                       old == s.best
            <4>1. old \in Blocks /\ Exact(old) /\ Exact(ForkOf(old, b)) /\ Minable(p0, old)
                BY <1>2, <3>4, <3>5 DEF f
            <4> HIDE DEF p0, old
            <4>2. Minable(PoolAfterSwitch(p0, old, b, empty), b)
                BY <3>3, <4>1, SwitchKeepsMinable
            <4> QED
                BY <4>2 DEF p0, old
        <3>7. PoolAfterSwitch(s.pool, s.best, b, empty).mapTx \cap empty = {}
            <4> DEFINE p0 == s.pool
                       old == s.best
                       spent == s.pruned
                       fFlush == b \in s.flushing
            <4>1. /\ old \in Blocks /\ Exact(old) /\ Exact(ForkOf(old, b)) /\ Minable(p0, old)
                  /\ p0.mapTx \cap spent = {}
                BY <1>2, <3>4, <3>5 DEF f
            <4>2. empty = PrunedAfterSwitch(spent, old, b, fFlush)
                BY DEF empty
            <4> HIDE DEF p0, old, spent, fFlush
            <4>3. PoolAfterSwitch(p0, old, b, empty).mapTx \cap empty = {}
                BY <3>3, <4>1, <4>2, SwitchKeepsVisible
            <4> QED
                BY <4>3 DEF p0, old
        <3> QED
            BY <3>1, <3>2, <3>6, <3>7
    <2>2. CASE ~(better /\ flawed = {})
        <3>1. best = s.best /\ pool1 = s.pool /\ pruned1 = s.pruned
            BY <2>2
        <3> HIDE DEF best, pool1, pruned1, empty, index, better, flawed
        <3> QED
            BY <1>2, <1>4, <3>1
    <2> QED
        BY <2>1, <2>2
<1> HIDE DEF index, failed1, best, pool1, pruned1, empty, fOk, stored, better, flawed, found, a
<1>7. a.index = index /\ a.best = best /\ a.pool = pool1 /\ a.pruned = pruned1
    BY <1>1 DEF States
<1>8. Held(a)
    BY <1>4, <1>5, <1>6, <1>7 DEF Held, Holds
<1> QED
    BY <1>8 DEF a

\* The queue and the orphans do not matter.
LEMMA QueuedIsHeld ==
    ASSUME NEW s \in States, Held(s), NEW q, NEW o
    PROVE  Held([s EXCEPT !.queue = q]) /\ Held([s EXCEPT !.queue = q, !.orphans = o])
<1> DEFINE a == [s EXCEPT !.queue = q]
           c == [s EXCEPT !.queue = q, !.orphans = o]
<1>1. a.index = s.index /\ a.best = s.best /\ a.pool = s.pool /\ a.pruned = s.pruned
    BY DEF States
<1>2. c.index = s.index /\ c.best = s.best /\ c.pool = s.pool /\ c.pruned = s.pruned
    BY DEF States
<1> HIDE DEF a, c
<1>3. Held(a) /\ Held(c)
    BY <1>1, <1>2 DEF Held
<1> QED
    BY <1>3 DEF a, c

LEMMA AcceptOrphanKeeps ==
    ASSUME NEW s \in States, Held(s), NEW b \in Blocks
    PROVE  Held(AcceptOrphan(s, b))
<1> DEFINE a == AcceptBlock(s, b)
           q == Append(a.queue, b)
<1>1. a \in States /\ Held(a)
    BY AcceptIs, AcceptKeeps DEF Stores
<1>2. AcceptOrphan(s, b) = IF a.fOk THEN [a EXCEPT !.queue = q] ELSE a
    BY DEF AcceptOrphan
<1> HIDE DEF a, q
<1>3. CASE a.fOk
    <2>1. AcceptOrphan(s, b) = [a EXCEPT !.queue = q]
        BY <1>2, <1>3
    <2> QED
        BY <1>1, <2>1, QueuedIsHeld
<1>4. CASE ~a.fOk
    BY <1>1, <1>2, <1>4
<1> QED
    BY <1>3, <1>4

LEMMA AcceptAllKeeps ==
    ASSUME NEW s \in States, Held(s), NEW waiting, NEW q \in Seq(Blocks)
    PROVE  AcceptAll(s, waiting, q) \in States /\ Held(AcceptAll(s, waiting, q))
<1> DEFINE n == Len(q)
           Fn == [a \in States \X (1 .. n) |->
                    IF q[a[2]] \in waiting THEN AcceptOrphan(a[1], q[a[2]]) ELSE a[1]]
           e == AcceptAll(s, waiting, q)
<1>1. n \in Nat /\ \A i \in 1 .. n : q[i] \in Blocks
    OBVIOUS
<1>2. PICK h \in [0 .. n -> States] : Runs(h, n, s, Fn) /\ h[n] = e
    <2>1. LoopEnds(n, States, s, Fn, e)
        BY TurnLoop
    <2> QED
        BY <2>1 DEF LoopEnds
<1> DEFINE T == {k \in 0 .. n : Held(h[k])}
<1> HIDE DEF n, e
<1>3. 0 \in T
    <2>1. h[0] = s
        BY <1>2 DEF Runs
    <2> QED
        BY <1>1, <2>1
<1>4. ASSUME NEW k \in 0 .. n, k \in T, k < n PROVE k + 1 \in T
    <2>1. k + 1 \in 1 .. n /\ (k + 1) - 1 = k /\ k + 1 \in 0 .. n
        BY <1>1, <1>4
    <2> DEFINE x == q[k + 1]
               r == h[k]
    <2>2. r \in States /\ h[k + 1] = IF x \in waiting THEN AcceptOrphan(r, x) ELSE r
        <3>1. h[k + 1] = Fn[<<h[k], k + 1>>] /\ h[k] \in States
            BY <1>2, <2>1 DEF Runs
        <3> QED
            BY <2>1, <3>1
    <2>3. Held(r) /\ x \in Blocks
        BY <1>1, <1>4, <2>1
    <2> HIDE DEF x, r
    <2>4. Held(h[k + 1])
        BY <2>2, <2>3, AcceptOrphanKeeps
    <2> QED
        BY <2>1, <2>4
<1>5. n \in T
    <2>1. 0 .. n \subseteq T
        <3> HIDE DEF T
        <3> QED
            BY <1>1, <1>3, <1>4, InductionTo
    <2> HIDE DEF T
    <2> QED
        BY <1>1, <2>1
<1>6. e \in States /\ Held(e)
    <2>1. n \in 0 .. n
        BY <1>1
    <2> QED
        BY <1>2, <1>5, <2>1
<1> QED
    BY <1>6 DEF e

LEMMA TurnKeeps ==
    ASSUME NEW s \in States, Held(s)
    PROVE  Held(AcceptOrphansOf(s))
<1> DEFINE waiting == WaitingFor(s.orphans, Head(s.queue))
           e == AcceptAll(s, waiting, s.orphans)
           tail == Tail(e.queue)
           left == DropAll(e.orphans, waiting)
<1>1. CASE s.queue = <<>>
    BY <1>1 DEF AcceptOrphansOf
<1>2. CASE s.queue # <<>>
    <2>1. AcceptOrphansOf(s) = [e EXCEPT !.queue = tail, !.orphans = left]
        BY <1>2 DEF AcceptOrphansOf
    <2>2. e \in States /\ Held(e)
        <3>1. s.orphans \in Seq(Blocks)
            BY DEF States
        <3> HIDE DEF waiting
        <3> QED
            BY <3>1, AcceptAllKeeps
    <2> HIDE DEF e, tail, left, waiting
    <2>3. Held([e EXCEPT !.queue = tail, !.orphans = left])
        BY <2>2, QueuedIsHeld
    <2> QED
        BY <2>1, <2>3
<1> QED
    BY <1>1, <1>2

LEMMA DescendantsKeep ==
    ASSUME NEW s \in WaitingStates, Held(s), NEW q \in Seq(Blocks)
    PROVE  Held(AcceptDescendants(s, q))
<1> DEFINE n == Len(q)
           Fn == [a \in WaitingStates \X (1 .. n) |-> AcceptOrphansOf(a[1])]
           e == AcceptDescendants(s, q)
<1>1. n \in Nat
    OBVIOUS
<1>2. PICK h \in [0 .. n -> WaitingStates] : Runs(h, n, s, Fn) /\ h[n] = e
    <2>1. LoopEnds(n, WaitingStates, s, Fn, e)
        BY QueueLoop
    <2> QED
        BY <2>1 DEF LoopEnds
<1> DEFINE T == {k \in 0 .. n : Held(h[k])}
<1> HIDE DEF n, e
<1>3. 0 \in T
    <2>1. h[0] = s
        BY <1>2 DEF Runs
    <2> QED
        BY <1>1, <2>1
<1>4. ASSUME NEW k \in 0 .. n, k \in T, k < n PROVE k + 1 \in T
    <2>1. k + 1 \in 1 .. n /\ (k + 1) - 1 = k /\ k + 1 \in 0 .. n
        BY <1>1, <1>4
    <2> DEFINE r == h[k]
    <2>2. r \in WaitingStates /\ h[k + 1] = AcceptOrphansOf(r)
        <3>1. h[k + 1] = Fn[<<h[k], k + 1>>] /\ h[k] \in WaitingStates
            BY <1>2, <2>1 DEF Runs
        <3> QED
            BY <2>1, <3>1
    <2>3. Held(r)
        BY <1>4
    <2> HIDE DEF r
    <2>4. Held(h[k + 1])
        BY <2>2, <2>3, TurnKeeps DEF WaitingStates
    <2> QED
        BY <2>1, <2>4
<1>5. n \in T
    <2>1. 0 .. n \subseteq T
        <3> HIDE DEF T
        <3> QED
            BY <1>1, <1>3, <1>4, InductionTo
    <2> HIDE DEF T
    <2> QED
        BY <1>1, <2>1
<1>6. Held(e)
    <2>1. n \in 0 .. n
        BY <1>1
    <2> QED
        BY <1>2, <1>5, <2>1
<1> QED
    BY <1>6 DEF e

HoldsNow == Holds(mapBlockIndex, pindexBest, pool, pruned)

LEMMA InitHolds == Init => HoldsNow
<1> SUFFICES ASSUME Init PROVE HoldsNow
    OBVIOUS
<1>1. /\ pool = NoTxs /\ NoTxs.mapTx = {} /\ mapBlockIndex = {Genesis} /\ pindexBest = Genesis
    BY DEF Init, NoTxs
<1>2. Genesis \in Blocks /\ ChainOf(Genesis) = {Genesis}
    BY GenesisAssumption, BlockTreeAssumption DEF GenesisAssumption, BlockTreeAssumption, ChainOf
<1>3. ValidChain[Genesis]
    BY <1>2, GenesisAssumption DEF GenesisAssumption, ValidChain
<1>4. Genesis \notin BadBlocks
    BY MemPoolAssumption DEF MemPoolAssumption
<1>5. Minable(NoTxs, Genesis)
    <2>1. IsPool(NoTxs) /\ NoTxs.mapTx = {} /\ Points({}) = {}
        BY NoTxsIs DEF NoTxs, Points
    <2> QED
        BY <2>1 DEF Minable, Rooted
<1> QED
    BY <1>1, <1>2, <1>3, <1>4, <1>5 DEF HoldsNow, Holds

LEMMA ProcessBlockHolds ==
    ASSUME MemPoolInv, HoldsNow, NEW b \in Blocks, ProcessBlock(b)
    PROVE  HoldsNow'
<1>1. b \notin mapBlockIndex /\ b \notin ToSet(orphanBlocks)
    BY DEF ProcessBlock
<1>2. CASE Parent[b] \notin mapBlockIndex
    <2>1. UNCHANGED <<mapBlockIndex, failed, pindexBest, pool, pruned>>
        BY <1>2 DEF ProcessBlock
    <2> QED
        BY <2>1 DEF HoldsNow
<1>3. CASE Parent[b] \in mapBlockIndex
    <2> DEFINE one == <<b>>
               done(f) == AcceptDescendants(Work(b, f), one \o orphanBlocks)
    <2>9. PICK flushing \in FlushSets :
            /\ mapBlockIndex' = done(flushing).index
            /\ pindexBest' = done(flushing).best /\ pool' = done(flushing).pool
            /\ pruned' = done(flushing).pruned
        BY <1>3 DEF ProcessBlock, Becomes, Work, Start
    <2> DEFINE w == Work(b, flushing)
               e == AcceptDescendants(w, one \o orphanBlocks)
               start == Start(flushing)
               a == AcceptBlock(start, b)
    <2>10. flushing \in SUBSET Blocks
        BY MemPoolAssumption DEF MemPoolAssumption
    <2>1. mapBlockIndex' = e.index /\ pindexBest' = e.best /\ pool' = e.pool /\ pruned' = e.pruned
        BY <2>9
    <2>2. w \in WaitingStates
        BY <1>1, <2>10, WorkIs
    <2>3. start \in States /\ Held(start)
        <3>1. pool \in Pools
            BY PoolsIs DEF MemPoolInv, PoolInv
        <3>2. start \in States
            BY <2>10, <3>1 DEF Start, States, MemPoolInv, BlocksInv
        <3>3. Held(start)
            BY DEF Start, Held, HoldsNow
        <3> QED
            BY <3>2, <3>3
    <2>4. a \in States /\ Held(a)
        BY <2>3, AcceptIs, AcceptKeeps DEF Stores
    <2>5. w = IF a.fOk THEN [a EXCEPT !.queue = one] ELSE a
        BY DEF Work
    <2>6. one \o orphanBlocks \in Seq(Blocks)
        BY DEF MemPoolInv, BlocksInv
    <2> DEFINE all == one \o orphanBlocks
    <2> HIDE DEF a, one
    <2>7. Held(w)
        <3> HIDE DEF w
        <3>1. CASE a.fOk
            <4>1. w = [a EXCEPT !.queue = one]
                BY <2>5, <3>1
            <4> QED
                BY <2>4, <4>1, QueuedIsHeld
        <3>2. CASE ~a.fOk
            BY <2>4, <2>5, <3>2
        <3> QED
            BY <3>1, <3>2
    <2>8. Held(e)
        <3>1. all \in Seq(Blocks)
            BY <2>6
        <3> HIDE DEF all, w
        <3>2. Held(AcceptDescendants(w, all))
            BY <2>2, <2>7, <3>1, DescendantsKeep
        <3> QED
            BY <3>2 DEF all
    <2> HIDE DEF e
    <2> QED
        BY <2>1, <2>8 DEF Held, HoldsNow
<1> QED
    BY <1>2, <1>3

LEMMA ReceiveTxHolds ==
    ASSUME MemPoolInv, HoldsNow, NEW t \in Txids, ReceiveTx(t)
    PROVE  HoldsNow'
<1>1. UNCHANGED <<mapBlockIndex, pindexBest, pruned>>
    BY DEF ReceiveTx
<1>2. /\ pindexBest \in mapBlockIndex /\ ValidChain[pindexBest]
      /\ mapBlockIndex \cap BadBlocks = {} /\ ChainOf(pindexBest) \subseteq mapBlockIndex
      /\ Minable(pool, pindexBest) /\ pool.mapTx \cap pruned = {}
      /\ pindexBest \in Blocks /\ mapBlockIndex \in SUBSET Blocks
    BY DEF HoldsNow, Holds, MemPoolInv, BlocksInv
<1>3. \/ /\ Verdict(pindexBest, pool, t, TRUE, pruned) = "ok"
         /\ pool' = AddUnchecked(pool, t)
      \/ UNCHANGED pool
    BY DEF ReceiveTx
<1>4. Minable(pool', pindexBest)
    <2>1. CASE /\ Verdict(pindexBest, pool, t, TRUE, pruned) = "ok"
               /\ pool' = AddUnchecked(pool, t)
        <3>1. Exact(pindexBest)
            BY <1>2, StoredIsExact
        <3> DEFINE yes == TRUE
        <3>2. Verdict(pindexBest, pool, t, yes, pruned) = "ok"
            BY <2>1
        <3> HIDE DEF yes
        <3>3. Minable(AddUnchecked(pool, t), pindexBest)
            BY <1>2, <3>1, <3>2, AddKeepsMinable
        <3> QED
            BY <2>1, <3>3
    <2>2. CASE UNCHANGED pool
        BY <1>2, <2>2
    <2> QED
        BY <1>3, <2>1, <2>2
<1>5. pool'.mapTx \cap pruned = {}
    <2>1. CASE /\ Verdict(pindexBest, pool, t, TRUE, pruned) = "ok"
               /\ pool' = AddUnchecked(pool, t)
        <3>1. t \notin pruned
            BY <2>1 DEF Verdict
        <3>2. pool'.mapTx = pool.mapTx \cup {t}
            BY <2>1 DEF AddUnchecked
        <3> QED
            BY <1>2, <3>1, <3>2
    <2>2. CASE UNCHANGED pool
        BY <1>2, <2>2
    <2> QED
        BY <1>3, <2>1, <2>2
<1> QED
    BY <1>1, <1>4, <1>5 DEF HoldsNow, Holds

LEMMA RestartHolds ==
    ASSUME HoldsNow, Restart
    PROVE  HoldsNow'
<1>1. pool' = NoTxs /\ NoTxs.mapTx = {} /\ UNCHANGED <<mapBlockIndex, pindexBest>>
    BY DEF Restart, NoTxs
<1>2. Minable(NoTxs, pindexBest)
    <2>1. IsPool(NoTxs) /\ NoTxs.mapTx = {} /\ Points({}) = {}
        BY NoTxsIs DEF NoTxs, Points
    <2> QED
        BY <2>1 DEF Minable, Rooted
<1> QED
    BY <1>1, <1>2 DEF HoldsNow, Holds

\* accept(), the switches of the best chain, the orphans that one block sets free and a
\* restart keep the pool minable on top of the best block.
LEMMA AlwaysHolds == Spec => [](MemPoolInv /\ HoldsNow)
<1>1. Init => MemPoolInv /\ HoldsNow
    BY InitInv, InitHolds
<1>2. MemPoolInv /\ HoldsNow /\ [Next]_vars => (MemPoolInv /\ HoldsNow)'
    <2> SUFFICES ASSUME MemPoolInv, HoldsNow, [Next]_vars PROVE (MemPoolInv /\ HoldsNow)'
        OBVIOUS
    <2>1. MemPoolInv'
        BY StepInv
    <2>2. ASSUME NEW b \in Blocks, ProcessBlock(b) PROVE HoldsNow'
        BY <2>2, ProcessBlockHolds
    <2>3. ASSUME NEW t \in Txids, ReceiveTx(t) PROVE HoldsNow'
        BY <2>3, ReceiveTxHolds
    <2>4. ASSUME Restart PROVE HoldsNow'
        BY <2>4, RestartHolds
    <2>5. ASSUME UNCHANGED vars PROVE HoldsNow'
        BY <2>5 DEF vars, HoldsNow
    <2>6. HoldsNow'
        BY <2>2, <2>3, <2>4, <2>5 DEF Next
    <2> QED
        BY <2>1, <2>6
<1> QED
    BY <1>1, <1>2, PTL DEF Spec

\* Whatever blocks were connected and disconnected, in whatever order they and the
\* transactions came, a pool transaction is not in the best chain and spends unspent
\* outputs of that chain or outputs of the pool, but for what SetBestChain does not
\* resurrect when it leaves a chain.
THEOREM PoolIsAlwaysMinable == Spec => []PoolIsMinable
<1>1. MemPoolInv /\ HoldsNow => PoolIsMinable
    <2> SUFFICES ASSUME MemPoolInv, HoldsNow, NEW t \in pool.mapTx
                 PROVE  /\ t \notin ChainTxs(pindexBest)
                        /\ \A o \in Points({t}) :
                            \/ o.hash \in pool.mapTx \/ Available(pindexBest, o)
                            \/ o.hash \in Lost \ ChainTxs(pindexBest)
        BY DEF PoolIsMinable, Outpoints, Available
    <2> DEFINE N == ChainTxs(pindexBest)
    <2>1. /\ pindexBest \in mapBlockIndex /\ ValidChain[pindexBest]
          /\ mapBlockIndex \cap BadBlocks = {} /\ ChainOf(pindexBest) \subseteq mapBlockIndex
          /\ mapBlockIndex \in SUBSET Blocks
          /\ IsPool(pool) /\ Rooted(pool, N \cup Lost) /\ pool.mapTx \cap N = {}
          /\ Points(pool.mapTx) \cap Points(N) = {}
        BY DEF HoldsNow, Holds, Minable, MemPoolInv, BlocksInv
    <2>2. Exact(pindexBest)
        BY <2>1, StoredIsExact
    <2>3. \A o : IsPoint(o) /\ Made(o) /\ o.hash \in N /\ o \notin Points(N) => Available(pindexBest, o)
        BY <2>2 DEF Exact
    <2> HIDE DEF N
    <2>4. ASSUME NEW o \in Points({t})
          PROVE  o.hash \in pool.mapTx \/ Available(pindexBest, o) \/ o.hash \in Lost \ N
        <3>1. Made(o) /\ o.hash \in pool.mapTx \cup N \cup Lost
            BY <2>1 DEF Rooted
        <3>2. o \notin Points(N)
            BY <2>1, PointsIs
        <3>3. IsPoint(o)
            <4>1. t \in Txids
                BY <2>1 DEF IsPool
            <4> QED
                BY <4>1, InputsIs
        <3> QED
            BY <2>3, <3>1, <3>2, <3>3
    <2>5. t \notin N
        BY <2>1
    <2> QED
        BY <2>4, <2>5 DEF N
<1> QED
    BY <1>1, AlwaysHolds, PTL

\* CCoinsViewMemPool answers from the pool for every pool transaction: neither the coins of the
\* best chain nor an empty entry that disconnected blocks left in the cache, however many
\* switches ago and with whatever flushes since, has the hash of one.
THEOREM PoolIsAlwaysVisible == Spec => []PoolIsVisible
<1>1. MemPoolInv /\ HoldsNow => PoolIsVisible
    <2> SUFFICES ASSUME MemPoolInv, HoldsNow, NEW out \in Utxo(pindexBest)
                 PROVE  out.hash \notin pool.mapTx
        BY DEF PoolIsVisible, HoldsNow, Holds
    <2> DEFINE o == [hash |-> out.hash, n |-> out.n]
    <2>1. /\ pindexBest \in mapBlockIndex /\ ValidChain[pindexBest]
          /\ mapBlockIndex \cap BadBlocks = {} /\ ChainOf(pindexBest) \subseteq mapBlockIndex
          /\ mapBlockIndex \in SUBSET Blocks
          /\ pool.mapTx \cap ChainTxs(pindexBest) = {}
        BY DEF HoldsNow, Holds, Minable, MemPoolInv, BlocksInv
    <2>2. Exact(pindexBest)
        BY <2>1, StoredIsExact
    <2>3. IsPoint(o) /\ Available(pindexBest, o) /\ o.hash = out.hash
        BY DEF IsPoint, Available
    <2> HIDE DEF o
    <2>4. o.hash \in ChainTxs(pindexBest)
        BY <2>2, <2>3 DEF Exact
    <2> QED
        BY <2>1, <2>3, <2>4
<1> QED
    BY <1>1, AlwaysHolds, PTL
===============================================================================
