---------------------------- MODULE AddrMan_proofs ----------------------------
(***************************************************************************)
(* What CAddrMan::Check_ verifies holds after every sequence of            *)
(* operations, and of what is loaded from the file that would be saved:    *)
(* for every set of addresses and every way their hashes choose buckets.   *)
(***************************************************************************)
EXTENDS AddrMan, FiniteSetTheorems, WellFoundedInduction, TLAPS

-----------------------------------------------------------------------------
\* Numbers and loops

LessThan == {p \in Nat \X Nat : p[1] < p[2]}

\* The library states that < is well founded, and that a well-founded relation
\* has minimal elements; for natural numbers: a non-empty set has a smallest one.
LEMMA SmallestExists ==
    ASSUME NEW S \in SUBSET Nat, S # {}
    PROVE  \E m \in S : \A k \in S : m <= k
<1>1. IsWellFoundedOn(LessThan, Nat)
    BY NatLessThanWellFounded, Zenon DEF LessThan, OpToRel
<1>2. PICK m \in S : \A k \in S : <<k, m>> \notin LessThan
    BY <1>1, WFMin, Zenon
<1>3. \A i, j \in Nat : i < j => <<i, j>> \in LessThan
    BY DEF LessThan
<1>4. ASSUME NEW k \in S PROVE m <= k
    <2>1. m \in Nat /\ k \in Nat
        OBVIOUS
    <2>2. ~(k < m)
        BY <1>2, <1>3, <2>1
    <2> QED
        BY <2>1, <2>2
<1> QED
    BY <1>4

\* Induction over the natural numbers, for a set instead of a predicate.
LEMMA Induction ==
    ASSUME NEW T \in SUBSET Nat, 0 \in T, \A n \in T : n + 1 \in T
    PROVE  T = Nat
<1>1. ASSUME Nat \ T # {} PROVE FALSE
    <2>1. PICK m \in Nat \ T : \A k \in Nat \ T : m <= k
        BY <1>1, SmallestExists
    <2>2. m # 0 /\ m - 1 \in Nat
        BY <2>1
    <2>3. m - 1 \in T
        BY <2>1, <2>2
    <2> QED
        BY <2>1, <2>2, <2>3
<1> QED
    BY <1>1

\* The same up to a bound: what holds of 0 and goes on from each number below n to the
\* next holds up to n.
LEMMA InductionTo ==
    ASSUME NEW n \in Nat, NEW T, 0 \in T, \A k \in 0 .. n : k \in T /\ k < n => k + 1 \in T
    PROVE  0 .. n \subseteq T
<1> DEFINE U == {k \in Nat : k <= n => k \in T}
<1>1. U \in SUBSET Nat /\ 0 \in U
    OBVIOUS
<1>2. ASSUME NEW k \in U PROVE k + 1 \in U
    OBVIOUS
<1>3. U = Nat
    <2> HIDE DEF U
    <2> QED
        BY <1>1, <1>2, Induction
<1> QED
    BY <1>3

-----------------------------------------------------------------------------
\* The invariant

Info ==
    [addr : Services, source : Sources, nTime : Nat, nLastSuccess : Nat, nLastTry : Nat,
     nAttempts : Nat, nRefCount : Nat, fInTried : BOOLEAN, nRandomPos : Nat]

NewIds(info) == {i \in DOMAIN info : ~info[i].fInTried}

TriedIds(info) == {i \in DOMAIN info : info[i].fInTried}

\* The new buckets that have i.
BucketsOf(vvNew, i) == {b \in NewBuckets : i \in vvNew[b]}

IsMan(m) ==
    m = [nIdCount |-> m.nIdCount, mapInfo |-> m.mapInfo, mapAddr |-> m.mapAddr,
         vRandom |-> m.vRandom, nTried |-> m.nTried, nNew |-> m.nNew,
         vvTried |-> m.vvTried, vvNew |-> m.vvNew]

Entries(info, n) ==
    /\ info \in [DOMAIN info -> Info]
    /\ n \in Nat /\ DOMAIN info \subseteq 0 .. n - 1

\* No two entries have the same address, and mapAddr finds each.
Found(info, mapAddr) ==
    /\ DOMAIN mapAddr = {Ip[info[i].addr] : i \in DOMAIN info}
    /\ \A i \in DOMAIN info : mapAddr[Ip[info[i].addr]] = i

\* vRandom has every id once, where its entry says.
Ordered(info, vRandom) ==
    /\ vRandom \in Seq(DOMAIN info)
    /\ \A i \in DOMAIN info :
        info[i].nRandomPos \in 1 .. Len(vRandom) /\ vRandom[info[i].nRandomPos] = i
    /\ \A p \in 1 .. Len(vRandom) : info[vRandom[p]].nRandomPos = p

Flagged(info) == \A i \in TriedIds(info) : info[i].nLastSuccess > 0 /\ info[i].nRefCount = 0

Counted(info, vRandom, nNew, nTried) ==
    /\ nNew = Cardinality(NewIds(info)) /\ nTried = Cardinality(TriedIds(info))
    /\ Len(vRandom) = nTried + nNew

\* New buckets hold new entries, each in as many buckets as it has references; what
\* entries in X have is left open.
Referenced(info, vvNew, X) ==
    /\ vvNew \in [NewBuckets -> SUBSET NewIds(info)]
    /\ \A i \in NewIds(info) \ X :
        /\ info[i].nRefCount \in 1 .. NewBucketsPerAddress
        /\ info[i].nRefCount = Cardinality(BucketsOf(vvNew, i))

\* Each tried entry is in one place of the tried buckets.
Placed(info, vvTried) ==
    /\ vvTried \in [TriedBuckets -> Seq(TriedIds(info))]
    /\ \A i \in TriedIds(info) :
        \E b \in TriedBuckets : \E p \in 1 .. Len(vvTried[b]) : vvTried[b][p] = i
    /\ \A b, c \in TriedBuckets :
        \A p \in 1 .. Len(vvTried[b]), q \in 1 .. Len(vvTried[c]) :
            vvTried[b][p] = vvTried[c][q] => b = c /\ p = q

\* A manager in order, up to the references of the entries in X.
Sound(m, X) ==
    /\ IsMan(m)
    /\ Entries(m.mapInfo, m.nIdCount)
    /\ Found(m.mapInfo, m.mapAddr)
    /\ Ordered(m.mapInfo, m.vRandom)
    /\ Flagged(m.mapInfo)
    /\ Counted(m.mapInfo, m.vRandom, m.nNew, m.nTried)
    /\ Referenced(m.mapInfo, m.vvNew, X)
    /\ Placed(m.mapInfo, m.vvTried)

Fits(vvNew, vvTried) ==
    /\ \A b \in NewBuckets : Cardinality(vvNew[b]) <= NewBucketSize
    /\ \A b \in TriedBuckets : Len(vvTried[b]) <= TriedBucketSize

AddrInv == Sound(am, {}) /\ Fits(am.vvNew, am.vvTried) /\ now \in Nat \ {0}

\* Sets of ids are finite.
LEMMA IdsFinite ==
    ASSUME NEW info, NEW n, Entries(info, n)
    PROVE  /\ IsFiniteSet(DOMAIN info) /\ DOMAIN info \subseteq Nat
           /\ \A S \in SUBSET DOMAIN info : IsFiniteSet(S) /\ Cardinality(S) \in Nat
<1>1. n \in Nat /\ DOMAIN info \subseteq 0 .. n - 1
    BY DEF Entries
<1>2. IsFiniteSet(0 .. n - 1)
    BY <1>1, FS_Interval
<1>3. IsFiniteSet(DOMAIN info)
    BY <1>1, <1>2, FS_Subset
<1>4. ASSUME NEW S \in SUBSET DOMAIN info PROVE IsFiniteSet(S) /\ Cardinality(S) \in Nat
    BY <1>3, FS_Subset, FS_CardinalityType
<1> QED
    BY <1>1, <1>3, <1>4

\* The same entries, up to what no table depends on.
Alike(info, new) ==
    /\ DOMAIN new = DOMAIN info /\ new \in [DOMAIN info -> Info]
    /\ \A i \in DOMAIN info :
        /\ new[i].addr = info[i].addr /\ new[i].fInTried = info[i].fInTried
        /\ new[i].nRefCount = info[i].nRefCount
        /\ info[i].nLastSuccess > 0 => new[i].nLastSuccess > 0

LEMMA AlikeKeeps ==
    ASSUME NEW m, NEW X, Sound(m, X), NEW info, Alike(m.mapInfo, info)
    PROVE  /\ Entries(info, m.nIdCount) /\ Found(info, m.mapAddr) /\ Flagged(info)
           /\ NewIds(info) = NewIds(m.mapInfo) /\ TriedIds(info) = TriedIds(m.mapInfo)
           /\ Counted(info, m.vRandom, m.nNew, m.nTried)
           /\ Referenced(info, m.vvNew, X) /\ Placed(info, m.vvTried)
<1>1. NewIds(info) = NewIds(m.mapInfo) /\ TriedIds(info) = TriedIds(m.mapInfo)
    BY DEF Alike, NewIds, TriedIds
<1>2. Entries(info, m.nIdCount)
    BY DEF Sound, Alike, Entries
<1>3. Found(info, m.mapAddr)
    <2>1. {Ip[info[i].addr] : i \in DOMAIN info} = {Ip[m.mapInfo[i].addr] : i \in DOMAIN m.mapInfo}
        BY DEF Alike
    <2> QED
        BY <2>1 DEF Sound, Alike, Found
<1>4. Flagged(info)
    <2> SUFFICES ASSUME NEW i \in TriedIds(info)
                 PROVE  info[i].nLastSuccess > 0 /\ info[i].nRefCount = 0
        BY DEF Flagged
    <2>1. i \in DOMAIN m.mapInfo /\ m.mapInfo[i].nLastSuccess > 0 /\ m.mapInfo[i].nRefCount = 0
        BY <1>1 DEF Sound, Flagged, TriedIds
    <2> QED
        BY <2>1 DEF Alike
<1>5. Counted(info, m.vRandom, m.nNew, m.nTried)
    BY <1>1 DEF Sound, Counted
<1>6. Referenced(info, m.vvNew, X)
    <2>1. ASSUME NEW i \in NewIds(info) \ X
          PROVE  /\ info[i].nRefCount \in 1 .. NewBucketsPerAddress
                 /\ info[i].nRefCount = Cardinality(BucketsOf(m.vvNew, i))
        <3>1. i \in DOMAIN m.mapInfo /\ i \in NewIds(m.mapInfo) \ X
            BY <1>1, <2>1 DEF NewIds
        <3> QED
            BY <3>1 DEF Sound, Referenced, Alike
    <2> QED
        BY <1>1, <2>1 DEF Sound, Referenced
<1>7. Placed(info, m.vvTried)
    BY <1>1 DEF Sound, Placed
<1> QED
    BY <1>1, <1>2, <1>3, <1>4, <1>5, <1>6, <1>7

\* A step that changes nothing but what no table depends on, and the order of vRandom.
LEMMA AlikeIsSound ==
    ASSUME NEW m, NEW X, Sound(m, X), NEW s,
           s = [m EXCEPT !.mapInfo = s.mapInfo, !.vRandom = s.vRandom],
           Alike(m.mapInfo, s.mapInfo), Ordered(s.mapInfo, s.vRandom),
           Len(s.vRandom) = Len(m.vRandom)
    PROVE  Sound(s, X) /\ s.vvNew = m.vvNew /\ s.vvTried = m.vvTried
<1>1. IsMan(s) /\ s.nIdCount = m.nIdCount /\ s.mapAddr = m.mapAddr /\ s.nTried = m.nTried
      /\ s.nNew = m.nNew /\ s.vvTried = m.vvTried /\ s.vvNew = m.vvNew
    BY DEF Sound, IsMan
<1>2. Counted(s.mapInfo, s.vRandom, m.nNew, m.nTried)
    BY AlikeKeeps DEF Counted
<1> QED
    BY <1>1, <1>2, AlikeKeeps DEF Sound

-----------------------------------------------------------------------------
\* Swapping, deleting, taking a reference away

Move(r, x) == [r EXCEPT !.nRandomPos = x]

LEMMA MoveIs ==
    ASSUME NEW r \in Info, NEW x \in Nat
    PROVE  /\ Move(r, x) \in Info /\ Move(r, x).nRandomPos = x
           /\ Move(r, x).addr = r.addr /\ Move(r, x).fInTried = r.fInTried
           /\ Move(r, x).nRefCount = r.nRefCount /\ Move(r, x).nLastSuccess = r.nLastSuccess
    BY DEF Info, Move

\* Two entries of a sequence change places.
Swapped(v, p, q) == [v EXCEPT ![p] = v[q], ![q] = v[p]]

LEMMA SwapSeq ==
    ASSUME NEW S, NEW v \in Seq(S), NEW p \in 1 .. Len(v), NEW q \in 1 .. Len(v)
    PROVE  /\ Swapped(v, p, q) \in Seq(S) /\ Len(Swapped(v, p, q)) = Len(v)
           /\ \A k \in 1 .. Len(v) :
                Swapped(v, p, q)[k] = IF k = q THEN v[p] ELSE IF k = p THEN v[q] ELSE v[k]
<1> DEFINE n == Len(v)
           w1 == [v EXCEPT ![p] = v[q]]
           w == [w1 EXCEPT ![q] = v[p]]
<1>1. n \in Nat /\ v \in [1 .. n -> S] /\ DOMAIN v = 1 .. n
    OBVIOUS
<1>2. v[p] \in S /\ v[q] \in S
    BY <1>1
<1> HIDE DEF n
<1>3. w1 \in [1 .. n -> S] /\ \A k \in 1 .. n : w1[k] = IF k = p THEN v[q] ELSE v[k]
    BY <1>1, <1>2
<1> HIDE DEF w1
<1>4. w \in [1 .. n -> S] /\ \A k \in 1 .. n : w[k] = IF k = q THEN v[p] ELSE w1[k]
    BY <1>2, <1>3
<1>5. w = Swapped(v, p, q)
    BY DEF w1, Swapped
<1> HIDE DEF w
<1>6. w \in Seq(S) /\ Len(w) = n
    BY <1>1, <1>4
<1> QED
    BY <1>3, <1>4, <1>5, <1>6 DEF n

\* The same tables, up to the order of vRandom and what no table depends on.
Reordered(m, t) ==
    /\ IsMan(t) /\ t.nIdCount = m.nIdCount /\ t.mapAddr = m.mapAddr
    /\ t.nTried = m.nTried /\ t.nNew = m.nNew /\ t.vvTried = m.vvTried /\ t.vvNew = m.vvNew
    /\ Alike(m.mapInfo, t.mapInfo) /\ Len(t.vRandom) = Len(m.vRandom)

\* SwapRandom keeps positions and vRandom in step.
LEMMA SwapKeeps ==
    ASSUME NEW m, NEW X, Sound(m, X),
           NEW p \in 1 .. Len(m.vRandom), NEW q \in 1 .. Len(m.vRandom)
    PROVE  /\ Sound(SwapRandom(m, p, q), X) /\ Reordered(m, SwapRandom(m, p, q))
           /\ SwapRandom(m, p, q).vRandom[q] = m.vRandom[p]
<1> DEFINE D == DOMAIN m.mapInfo
           v == m.vRandom
           info == m.mapInfo
           s == SwapRandom(m, p, q)
           first == [info EXCEPT ![v[p]] = Move(@, q)]
           both == [first EXCEPT ![v[q]] = Move(@, p)]
           w == Swapped(v, p, q)
<1>1. info \in [D -> Info] /\ v \in Seq(D) /\ D \subseteq Nat
    BY DEF Sound, Entries, Ordered
<1>2. p \in 1 .. Len(v) /\ q \in 1 .. Len(v) /\ p \in Nat /\ q \in Nat /\ v[p] \in D /\ v[q] \in D
    BY <1>1
<1>3. s.mapInfo = both /\ s.vRandom = w /\ s = [m EXCEPT !.mapInfo = both, !.vRandom = w]
    <2>1. IsMan(m)
        BY DEF Sound
    <2>2. /\ DOMAIN m = {"nIdCount", "mapInfo", "mapAddr", "vRandom", "nTried", "nNew",
                          "vvTried", "vvNew"}
          /\ DOMAIN s = DOMAIN m /\ s = [i \in DOMAIN s |-> s[i]]
        <3>1. DOMAIN m = {"nIdCount", "mapInfo", "mapAddr", "vRandom", "nTried", "nNew",
                          "vvTried", "vvNew"}
            BY <2>1 DEF IsMan
        <3>2. DOMAIN s = DOMAIN m
            BY DEF SwapRandom
        <3>3. s = [i \in DOMAIN s |-> s[i]]
            BY DEF SwapRandom
        <3> HIDE DEF s
        <3> QED
            BY <3>1, <3>2, <3>3
    <2>3. s.mapInfo = both
        BY <2>2 DEF SwapRandom, Move
    <2>4. s.vRandom = w
        BY <2>2 DEF SwapRandom, Swapped
    <2>5. /\ s.nIdCount = m.nIdCount /\ s.mapAddr = m.mapAddr /\ s.nTried = m.nTried
          /\ s.nNew = m.nNew /\ s.vvTried = m.vvTried /\ s.vvNew = m.vvNew
        BY <2>2 DEF SwapRandom
    <2> HIDE DEF s, both, w
    <2>6. IsMan(s)
        BY <2>2 DEF IsMan
    <2> QED
        BY <2>1, <2>3, <2>4, <2>5, <2>6 DEF IsMan
<1>4. /\ \A i \in D : info[i].nRandomPos \in 1 .. Len(v) /\ v[info[i].nRandomPos] = i
      /\ \A k \in 1 .. Len(v) : info[v[k]].nRandomPos = k
    BY DEF Sound, Ordered
<1> HIDE DEF s, D, v, info, w
<1>5. w \in Seq(D) /\ Len(w) = Len(v) /\ \A k \in 1 .. Len(v) :
        w[k] = IF k = q THEN v[p] ELSE IF k = p THEN v[q] ELSE v[k]
    BY <1>1, <1>2, SwapSeq DEF w
<1>6. first \in [D -> Info] /\ \A i \in D :
        first[i] = IF i = v[p] THEN Move(info[i], q) ELSE info[i]
    <2>1. ASSUME NEW i \in D PROVE Move(info[i], q) \in Info
        <3>1. info[i] \in Info
            BY <1>1
        <3> QED
            BY <1>2, <3>1, MoveIs
    <2> QED
        BY <1>1, <1>2, <2>1
<1> HIDE DEF first
<1>7. both \in [D -> Info] /\ \A i \in D :
        both[i] = IF i = v[q] THEN Move(first[i], p) ELSE first[i]
    <2>1. ASSUME NEW i \in D PROVE Move(first[i], p) \in Info
        <3>1. first[i] \in Info
            BY <1>6
        <3> QED
            BY <1>2, <3>1, MoveIs
    <2> QED
        BY <1>2, <1>6, <2>1
<1> HIDE DEF both
<1>8. ASSUME NEW i \in D
      PROVE  /\ first[i].nRandomPos = IF i = v[p] THEN q ELSE info[i].nRandomPos
             /\ first[i].addr = info[i].addr /\ first[i].fInTried = info[i].fInTried
             /\ first[i].nRefCount = info[i].nRefCount
             /\ first[i].nLastSuccess = info[i].nLastSuccess
    <2>1. info[i] \in Info
        BY <1>1
    <2>2. CASE i = v[p]
        <3>1. first[i] = Move(info[i], q)
            BY <1>6, <2>2
        <3> QED
            BY <1>2, <2>1, <2>2, <3>1, MoveIs
    <2>3. CASE i # v[p]
        BY <1>6, <2>3
    <2> QED
        BY <2>2, <2>3
<1>9. ASSUME NEW i \in D
      PROVE  /\ both[i].nRandomPos = IF i = v[q] THEN p ELSE first[i].nRandomPos
             /\ both[i].addr = info[i].addr /\ both[i].fInTried = info[i].fInTried
             /\ both[i].nRefCount = info[i].nRefCount
             /\ both[i].nLastSuccess = info[i].nLastSuccess
    <2>1. first[i] \in Info
        BY <1>6
    <2>2. CASE i = v[q]
        <3>1. both[i] = Move(first[i], p)
            BY <1>7, <2>2
        <3>2. /\ both[i].nRandomPos = p /\ both[i].addr = first[i].addr
              /\ both[i].fInTried = first[i].fInTried /\ both[i].nRefCount = first[i].nRefCount
              /\ both[i].nLastSuccess = first[i].nLastSuccess
            <4> DEFINE r == first[i]
            <4>1. r \in Info /\ p \in Nat
                BY <1>2, <2>1
            <4>2. both[i] = Move(r, p)
                BY <3>1
            <4> HIDE DEF r
            <4>3. /\ Move(r, p).nRandomPos = p /\ Move(r, p).addr = r.addr
                  /\ Move(r, p).fInTried = r.fInTried /\ Move(r, p).nRefCount = r.nRefCount
                  /\ Move(r, p).nLastSuccess = r.nLastSuccess
                BY <4>1, MoveIs
            <4> QED
                BY <4>2, <4>3 DEF r
        <3> QED
            BY <1>8, <2>2, <3>2
    <2>3. CASE i # v[q]
        BY <1>7, <1>8, <2>3
    <2> QED
        BY <2>2, <2>3
<1>10. Alike(info, both)
    BY <1>1, <1>7, <1>9 DEF Alike
<1>11. ASSUME NEW i \in D
       PROVE  both[i].nRandomPos = IF i = v[q] THEN p ELSE IF i = v[p] THEN q
                                   ELSE info[i].nRandomPos
    BY <1>8, <1>9
<1>12. Ordered(both, w)
    <2>1. DOMAIN both = D
        BY <1>7
    <2>2. ASSUME NEW i \in D
          PROVE  both[i].nRandomPos \in 1 .. Len(w) /\ w[both[i].nRandomPos] = i
        <3>1. info[i].nRandomPos \in 1 .. Len(v) /\ v[info[i].nRandomPos] = i
            BY <1>4
        <3>2. CASE i = v[q]
            BY <1>2, <1>5, <1>11, <3>2, <1>4
        <3>3. CASE i # v[q] /\ i = v[p]
            BY <1>2, <1>5, <1>11, <3>3
        <3>4. CASE i # v[q] /\ i # v[p]
            <4>1. both[i].nRandomPos = info[i].nRandomPos
                BY <1>11, <3>4
            <4> QED
                BY <1>2, <1>5, <3>1, <3>4, <4>1
        <3> QED
            BY <3>2, <3>3, <3>4
    <2>3. ASSUME NEW k \in 1 .. Len(w) PROVE both[w[k]].nRandomPos = k
        <3>1. k \in 1 .. Len(v) /\ v[k] \in D /\ info[v[k]].nRandomPos = k
              /\ info[v[p]].nRandomPos = p /\ info[v[q]].nRandomPos = q
            BY <1>1, <1>2, <1>4, <1>5
        <3>2. CASE k = q
            <4>1. w[k] = v[p]
                BY <1>5, <3>1, <3>2
            <4> QED
                BY <1>2, <1>11, <3>1, <3>2, <4>1
        <3>3. CASE k # q /\ k = p
            <4>1. w[k] = v[q]
                BY <1>5, <3>1, <3>3
            <4> QED
                BY <1>2, <1>11, <3>3, <4>1
        <3>4. CASE k # q /\ k # p
            <4>1. w[k] = v[k] /\ v[k] # v[q] /\ v[k] # v[p]
                BY <1>5, <3>1, <3>4
            <4> QED
                BY <1>11, <3>1, <4>1
        <3> QED
            BY <3>2, <3>3, <3>4
    <2> QED
        BY <1>5, <2>1, <2>2, <2>3 DEF Ordered
<1>13. Sound(s, X)
    <2>1. s = [m EXCEPT !.mapInfo = s.mapInfo, !.vRandom = s.vRandom] /\ Len(s.vRandom) = Len(v)
        BY <1>3, <1>5
    <2> QED
        BY <1>3, <1>10, <1>12, <2>1, AlikeIsSound DEF info, v
<1>14. w[q] = v[p] /\ Len(w) = Len(v)
    BY <1>2, <1>5
<1>15. Reordered(m, s)
    <2>1. IsMan(m)
        BY DEF Sound
    <2>2. /\ IsMan(s) /\ s.nIdCount = m.nIdCount /\ s.mapAddr = m.mapAddr
          /\ s.nTried = m.nTried /\ s.nNew = m.nNew /\ s.vvTried = m.vvTried
          /\ s.vvNew = m.vvNew
        BY <1>3, <2>1 DEF IsMan
    <2> QED
        BY <1>3, <1>10, <1>14, <2>2 DEF Reordered, info, v
<1> QED
    BY <1>3, <1>13, <1>14, <1>15 DEF s, v

\* Delete of an entry that no bucket has.
LEMMA DeleteKeeps ==
    ASSUME NEW m, NEW X, NEW id \in NewIds(m.mapInfo), Sound(m, X \cup {id}),
           BucketsOf(m.vvNew, id) = {}
    PROVE  /\ Sound(Delete(m, id), X)
           /\ Delete(m, id).vvNew = m.vvNew /\ Delete(m, id).vvTried = m.vvTried
           /\ \A i \in DOMAIN m.mapInfo \ {id} :
                /\ i \in DOMAIN Delete(m, id).mapInfo
                /\ Delete(m, id).mapInfo[i].addr = m.mapInfo[i].addr
                /\ Delete(m, id).mapInfo[i].fInTried = m.mapInfo[i].fInTried
                /\ Delete(m, id).mapInfo[i].nRefCount = m.mapInfo[i].nRefCount
<1> DEFINE D == DOMAIN m.mapInfo
           p == m.mapInfo[id].nRandomPos
           n == Len(m.vRandom)
           s == SwapRandom(m, p, n)
           info == s.mapInfo
           v == s.vRandom
           E == D \ {id}
           left == Erase(info, id)
           rest == Front(v)
           addrs == Erase(s.mapAddr, Ip[info[id].addr])
           d == Delete(m, id)
<1>1. id \in D /\ p \in 1 .. n /\ m.vRandom[p] = id /\ n \in 1 .. n /\ n \in Nat /\ n > 0
    <2>1. id \in D
        BY DEF NewIds
    <2>2. p \in 1 .. n /\ m.vRandom[p] = id /\ m.vRandom \in Seq(D)
        BY <2>1 DEF Sound, Ordered
    <2>3. n \in Nat
        BY <2>2
    <2> QED
        BY <2>1, <2>2, <2>3
<1>2. /\ Sound(s, X \cup {id}) /\ Alike(m.mapInfo, info) /\ Len(v) = n /\ v[n] = id
      /\ s.vvNew = m.vvNew /\ s.vvTried = m.vvTried /\ s.nIdCount = m.nIdCount /\ s.nNew = m.nNew
      /\ s.nTried = m.nTried
    <2> DEFINE Y == X \cup {id}
    <2>1. Sound(m, Y) /\ p \in 1 .. Len(m.vRandom) /\ n \in 1 .. Len(m.vRandom)
        BY <1>1
    <2> HIDE DEF Y, s, info, v, p, n
    <2>2. Sound(s, Y) /\ Reordered(m, s) /\ s.vRandom[n] = m.vRandom[p]
        BY <2>1, SwapKeeps DEF s
    <2> QED
        BY <1>1, <2>2 DEF Y, info, v, n, Reordered
<1>3. d = [s EXCEPT !.vRandom = rest, !.mapAddr = addrs, !.mapInfo = left, !.nNew = @ - 1]
    BY DEF Delete
<1> HIDE DEF s, p
<1>4. IsMan(s)
    BY <1>2 DEF Sound
<1>5. /\ IsMan(d) /\ d.mapInfo = left /\ d.mapAddr = addrs /\ d.vRandom = rest
      /\ d.nNew = s.nNew - 1 /\ d.nTried = s.nTried /\ d.vvNew = m.vvNew /\ d.vvTried = m.vvTried
      /\ d.nIdCount = m.nIdCount
    BY <1>2, <1>3, <1>4 DEF IsMan
<1> HIDE DEF d
<1>6. /\ DOMAIN info = D /\ info \in [D -> Info] /\ s.nIdCount \in Nat /\ D \subseteq 0 .. s.nIdCount - 1
      /\ info[id].fInTried = FALSE
    <2>1. DOMAIN info = D
        BY <1>2 DEF Alike
    <2>2. info \in [D -> Info] /\ s.nIdCount \in Nat /\ D \subseteq 0 .. s.nIdCount - 1
        BY <1>2, <2>1 DEF Sound, Entries
    <2>3. info[id].fInTried = m.mapInfo[id].fInTried /\ info[id].fInTried \in BOOLEAN
        BY <1>1, <1>2, <2>2 DEF Alike, Info
    <2> QED
        BY <2>1, <2>2, <2>3 DEF NewIds
<1>7. left = [i \in E |-> info[i]] /\ DOMAIN left = E /\ \A i \in E : left[i] = info[i]
    BY <1>6 DEF Erase
<1> HIDE DEF left
<1>8. NewIds(left) = NewIds(info) \ {id} /\ TriedIds(left) = TriedIds(info)
    BY <1>6, <1>7 DEF NewIds, TriedIds
<1>9. Entries(left, d.nIdCount)
    BY <1>2, <1>5, <1>6, <1>7 DEF Entries
<1>10. Found(left, addrs)
    <2>1. /\ DOMAIN s.mapAddr = {Ip[info[i].addr] : i \in D}
          /\ \A i \in D : s.mapAddr[Ip[info[i].addr]] = i
        BY <1>2, <1>6 DEF Sound, Found
    <2>2. \A i \in E : Ip[info[i].addr] # Ip[info[id].addr]
        BY <1>1, <2>1
    <2>3. DOMAIN addrs = {Ip[info[i].addr] : i \in D} \ {Ip[info[id].addr]}
          /\ \A a \in DOMAIN addrs : addrs[a] = s.mapAddr[a]
        BY <2>1 DEF Erase
    <2> HIDE DEF addrs
    <2>4. DOMAIN addrs = {Ip[left[i].addr] : i \in E}
        <3> DEFINE of(i) == Ip[info[i].addr]
        <3>1. {of(i) : i \in D} \ {of(id)} = {of(i) : i \in E}
            BY <1>1, <2>2
        <3>2. {Ip[left[i].addr] : i \in E} = {of(i) : i \in E}
            BY <1>7
        <3> QED
            BY <2>3, <3>1, <3>2
    <2>5. ASSUME NEW i \in E PROVE addrs[Ip[left[i].addr]] = i
        <3>1. Ip[left[i].addr] \in DOMAIN addrs
            BY <2>4
        <3>2. i \in D /\ left[i] = info[i]
            BY <1>7
        <3> QED
            BY <2>1, <2>3, <3>1, <3>2
    <2> HIDE DEF E
    <2>6. DOMAIN addrs = {Ip[left[i].addr] : i \in DOMAIN left}
        BY <1>7, <2>4
    <2>7. \A i \in DOMAIN left : addrs[Ip[left[i].addr]] = i
        BY <1>7, <2>5
    <2> QED
        BY <2>6, <2>7 DEF Found
<1>11. /\ v \in Seq(D) /\ Len(v) = n
       /\ \A i \in D : info[i].nRandomPos \in 1 .. n /\ v[info[i].nRandomPos] = i
       /\ \A k \in 1 .. n : info[v[k]].nRandomPos = k
    BY <1>2, <1>6 DEF Sound, Ordered
<1>12. rest \in Seq(E) /\ Len(rest) = n - 1 /\ \A k \in 1 .. n - 1 : rest[k] = v[k] /\ v[k] # id
    <2>1. \A k \in 1 .. n - 1 : k \in 1 .. n /\ v[k] \in E
        <3>1. \A k \in 1 .. n - 1 : k \in 1 .. n /\ k # n
            BY <1>1
        <3>2. n \in 1 .. n /\ v[n] = id
            BY <1>1, <1>2
        <3>3. ASSUME NEW k \in 1 .. n, k # n PROVE v[k] \in D /\ v[k] # id
            <4>1. info[v[k]].nRandomPos = k /\ info[v[n]].nRandomPos = n
                BY <1>11, <3>2
            <4>2. v[k] \in D
                BY <1>11
            <4> QED
                BY <3>2, <3>3, <4>1, <4>2
        <3> QED
            BY <3>1, <3>3
    <2>2. rest = SubSeq(v, 1, n - 1)
        BY <1>2 DEF Front
    <2>3. rest = [k \in 1 .. n - 1 |-> v[k]]
        BY <1>1, <1>11, <2>2
    <2> HIDE DEF rest
    <2>4. rest \in Seq(E)
        BY <1>1, <2>1, <2>3
    <2>5. Len(rest) = n - 1
        BY <1>1, <2>3
    <2> QED
        BY <2>1, <2>3, <2>4, <2>5
<1> HIDE DEF rest
<1>13. Ordered(left, rest)
    <2>1. ASSUME NEW i \in E
          PROVE  left[i].nRandomPos \in 1 .. Len(rest) /\ rest[left[i].nRandomPos] = i
        <3>1. left[i] = info[i] /\ info[i].nRandomPos \in 1 .. n /\ v[info[i].nRandomPos] = i
            BY <1>7, <1>11
        <3>2. info[i].nRandomPos # n
            BY <1>2, <3>1
        <3> QED
            BY <1>1, <1>12, <3>1, <3>2
    <2>2. ASSUME NEW k \in 1 .. Len(rest) PROVE left[rest[k]].nRandomPos = k
        <3>1. k \in 1 .. n - 1 /\ k \in 1 .. n
            BY <1>1, <1>12
        <3>2. rest[k] = v[k] /\ v[k] \in E
            BY <1>1, <1>11, <1>12, <3>1
        <3> QED
            BY <1>7, <1>11, <3>1, <3>2
    <2> QED
        BY <1>7, <1>12, <2>1, <2>2 DEF Ordered
<1>14. Flagged(left)
    <2> SUFFICES ASSUME NEW i \in TriedIds(left)
                 PROVE  left[i].nLastSuccess > 0 /\ left[i].nRefCount = 0
        BY DEF Flagged
    <2>1. i \in TriedIds(info) /\ left[i] = info[i]
        BY <1>7, <1>8 DEF TriedIds
    <2> QED
        BY <1>2, <2>1 DEF Sound, Flagged
<1>15. Counted(left, rest, d.nNew, d.nTried)
    <2>1. /\ s.nNew = Cardinality(NewIds(info)) /\ s.nTried = Cardinality(TriedIds(info))
          /\ n = s.nTried + s.nNew
        BY <1>2 DEF Sound, Counted
    <2>2. id \in NewIds(info) /\ NewIds(info) \subseteq DOMAIN info /\ TriedIds(info) \subseteq DOMAIN info
        BY <1>1, <1>6 DEF NewIds, TriedIds
    <2>3. IsFiniteSet(NewIds(info)) /\ s.nNew \in Nat /\ s.nTried \in Nat
        <3>1. Entries(info, s.nIdCount)
            BY <1>2 DEF Sound
        <3> QED
            BY <2>1, <2>2, <3>1, IdsFinite
    <2>4. Cardinality(NewIds(left)) = s.nNew - 1
        BY <1>8, <2>1, <2>2, <2>3, FS_RemoveElement
    <2>5. Len(rest) = s.nTried + (s.nNew - 1)
        BY <1>1, <1>12, <2>1, <2>3
    <2> QED
        BY <1>5, <1>8, <2>1, <2>4, <2>5 DEF Counted
<1>16. Referenced(left, d.vvNew, X)
    <2>1. /\ m.vvNew \in [NewBuckets -> SUBSET NewIds(info)]
          /\ \A i \in NewIds(info) \ (X \cup {id}) :
               /\ info[i].nRefCount \in 1 .. NewBucketsPerAddress
               /\ info[i].nRefCount = Cardinality(BucketsOf(m.vvNew, i))
        BY <1>2 DEF Sound, Referenced
    <2>2. \A b \in NewBuckets : id \notin m.vvNew[b]
        BY DEF BucketsOf
    <2>3. m.vvNew \in [NewBuckets -> SUBSET NewIds(left)]
        BY <1>8, <2>1, <2>2
    <2>4. ASSUME NEW i \in NewIds(left) \ X
          PROVE  /\ left[i].nRefCount \in 1 .. NewBucketsPerAddress
                 /\ left[i].nRefCount = Cardinality(BucketsOf(m.vvNew, i))
        <3>1. left[i] = info[i]
            BY <1>7 DEF NewIds
        <3> QED
            BY <1>8, <2>1, <3>1
    <2> QED
        BY <1>5, <2>3, <2>4 DEF Referenced
<1>17. Placed(left, d.vvTried)
    BY <1>2, <1>5, <1>8 DEF Sound, Placed
<1>18. ASSUME NEW i \in D \ {id}
       PROVE  /\ i \in DOMAIN d.mapInfo /\ d.mapInfo[i].addr = m.mapInfo[i].addr
              /\ d.mapInfo[i].fInTried = m.mapInfo[i].fInTried
              /\ d.mapInfo[i].nRefCount = m.mapInfo[i].nRefCount
    BY <1>2, <1>5, <1>7 DEF Alike
<1>19. Sound(d, X)
    BY <1>5, <1>9, <1>10, <1>13, <1>14, <1>15, <1>16, <1>17 DEF Sound
<1> QED
    BY <1>5, <1>18, <1>19 DEF d

\* References change, and the buckets that make them, and nothing else.
Recounts(m, t) ==
    /\ IsMan(t) /\ t.nIdCount = m.nIdCount /\ t.mapAddr = m.mapAddr /\ t.vRandom = m.vRandom
    /\ t.nTried = m.nTried /\ t.nNew = m.nNew /\ t.vvTried = m.vvTried
    /\ t.mapInfo \in [DOMAIN m.mapInfo -> Info]
    /\ \A i \in DOMAIN m.mapInfo :
        /\ t.mapInfo[i].addr = m.mapInfo[i].addr
        /\ t.mapInfo[i].fInTried = m.mapInfo[i].fInTried
        /\ t.mapInfo[i].nLastSuccess = m.mapInfo[i].nLastSuccess
        /\ t.mapInfo[i].nRandomPos = m.mapInfo[i].nRandomPos
        /\ i \in TriedIds(m.mapInfo) => t.mapInfo[i].nRefCount = m.mapInfo[i].nRefCount

LEMMA RecountsKeep ==
    ASSUME NEW m, NEW X, NEW Y, Sound(m, X), NEW t, Recounts(m, t),
           Referenced(t.mapInfo, t.vvNew, Y)
    PROVE  Sound(t, Y)
<1> DEFINE info == m.mapInfo
           new == t.mapInfo
           D == DOMAIN info
<1>1. /\ new \in [D -> Info] /\ DOMAIN new = D
      /\ \A i \in D : /\ new[i].addr = info[i].addr /\ new[i].fInTried = info[i].fInTried
                      /\ new[i].nLastSuccess = info[i].nLastSuccess
                      /\ new[i].nRandomPos = info[i].nRandomPos
                      /\ i \in TriedIds(info) => new[i].nRefCount = info[i].nRefCount
    BY DEF Recounts
<1>2. /\ Entries(info, m.nIdCount) /\ Found(info, m.mapAddr) /\ Ordered(info, m.vRandom)
      /\ Flagged(info) /\ Counted(info, m.vRandom, m.nNew, m.nTried) /\ Placed(info, m.vvTried)
    BY DEF Sound
<1>3. /\ IsMan(t) /\ t.nIdCount = m.nIdCount /\ t.mapAddr = m.mapAddr /\ t.vRandom = m.vRandom
      /\ t.nTried = m.nTried /\ t.nNew = m.nNew /\ t.vvTried = m.vvTried
    BY DEF Recounts
<1> HIDE DEF info, new
<1>4. NewIds(new) = NewIds(info) /\ TriedIds(new) = TriedIds(info)
    BY <1>1 DEF NewIds, TriedIds
<1>5. Entries(new, m.nIdCount)
    BY <1>1, <1>2 DEF Entries
<1>6. Found(new, m.mapAddr)
    <2>1. {Ip[new[i].addr] : i \in DOMAIN new} = {Ip[info[i].addr] : i \in D}
        BY <1>1
    <2> QED
        BY <1>1, <1>2, <2>1 DEF Found
<1>7. Ordered(new, m.vRandom)
    <2>1. /\ m.vRandom \in Seq(D) /\ \A k \in 1 .. Len(m.vRandom) : m.vRandom[k] \in D
        BY <1>2 DEF Ordered
    <2> QED
        BY <1>1, <1>2, <2>1 DEF Ordered
<1>8. Flagged(new)
    <2> SUFFICES ASSUME NEW i \in TriedIds(new)
                 PROVE  new[i].nLastSuccess > 0 /\ new[i].nRefCount = 0
        BY DEF Flagged
    <2>1. i \in D /\ i \in TriedIds(info) /\ info[i].nLastSuccess > 0 /\ info[i].nRefCount = 0
        BY <1>2, <1>4 DEF Flagged, TriedIds
    <2> QED
        BY <1>1, <2>1
<1>9. Counted(new, m.vRandom, m.nNew, m.nTried)
    BY <1>2, <1>4 DEF Counted
<1>10. Placed(new, m.vvTried)
    BY <1>2, <1>4 DEF Placed
<1> QED
    BY <1>3, <1>5, <1>6, <1>7, <1>8, <1>9, <1>10 DEF Sound, new

Recount(r, k) == [r EXCEPT !.nRefCount = k]

LEMMA RecountIs ==
    ASSUME NEW r \in Info, NEW k \in Nat
    PROVE  /\ Recount(r, k) \in Info /\ Recount(r, k).nRefCount = k
           /\ Recount(r, k).addr = r.addr /\ Recount(r, k).fInTried = r.fInTried
           /\ Recount(r, k).nLastSuccess = r.nLastSuccess
           /\ Recount(r, k).nRandomPos = r.nRandomPos
    BY DEF Info, Recount

\* One entry's count is set, and the buckets are others.
LEMMA RecountOne ==
    ASSUME NEW m, NEW X, Sound(m, X), NEW id \in NewIds(m.mapInfo), NEW k \in Nat,
           NEW t, IsMan(t), t.nIdCount = m.nIdCount, t.mapAddr = m.mapAddr,
           t.vRandom = m.vRandom, t.nTried = m.nTried, t.nNew = m.nNew,
           t.vvTried = m.vvTried,
           t.mapInfo = [m.mapInfo EXCEPT ![id] = Recount(@, k)]
    PROVE  /\ Recounts(m, t) /\ t.mapInfo[id].nRefCount = k
           /\ \A i \in DOMAIN m.mapInfo \ {id} : t.mapInfo[i] = m.mapInfo[i]
           /\ NewIds(t.mapInfo) = NewIds(m.mapInfo)
<1> DEFINE info == m.mapInfo
           new == t.mapInfo
           D == DOMAIN info
<1>1. info \in [D -> Info] /\ id \in D /\ info[id] \in Info
    BY DEF Sound, Entries, NewIds
<1>2. Recount(info[id], k) \in Info
    BY <1>1, RecountIs
<1>3. new \in [D -> Info] /\ DOMAIN new = D /\ new[id] = Recount(info[id], k)
      /\ \A i \in D \ {id} : new[i] = info[i]
    BY <1>1, <1>2
<1>4. id \notin TriedIds(info)
    BY DEF NewIds, TriedIds
<1> HIDE DEF info, new
<1>5. /\ new[id].nRefCount = k /\ new[id].addr = info[id].addr
      /\ new[id].fInTried = info[id].fInTried /\ new[id].nLastSuccess = info[id].nLastSuccess
      /\ new[id].nRandomPos = info[id].nRandomPos
    BY <1>1, <1>3, RecountIs
<1>6. \A i \in D : /\ new[i].addr = info[i].addr /\ new[i].fInTried = info[i].fInTried
                   /\ new[i].nLastSuccess = info[i].nLastSuccess
                   /\ new[i].nRandomPos = info[i].nRandomPos
                   /\ i \in TriedIds(info) => new[i].nRefCount = info[i].nRefCount
    BY <1>3, <1>4, <1>5
<1>7. NewIds(new) = NewIds(info)
    BY <1>3, <1>6 DEF NewIds
<1> QED
    BY <1>3, <1>5, <1>6, <1>7 DEF Recounts, info, new

\* A reference less: the entry leaves bucket b, and goes if it has no other.
LEMMA UnrefKeeps ==
    ASSUME NEW m, NEW X, Sound(m, X), NEW b \in NewBuckets, NEW id \in m.vvNew[b], id \notin X
    PROVE  /\ Sound(Unref(m, b, id), X)
           /\ Unref(m, b, id).vvNew = [m.vvNew EXCEPT ![b] = @ \ {id}]
           /\ Unref(m, b, id).vvTried = m.vvTried
           /\ \A i \in DOMAIN m.mapInfo \ {id} :
                /\ i \in DOMAIN Unref(m, b, id).mapInfo
                /\ Unref(m, b, id).mapInfo[i].addr = m.mapInfo[i].addr
                /\ Unref(m, b, id).mapInfo[i].fInTried = m.mapInfo[i].fInTried
                /\ Unref(m, b, id).mapInfo[i].nRefCount = m.mapInfo[i].nRefCount
<1> DEFINE info == m.mapInfo
           n == info[id].nRefCount
           k == n - 1
           u == [m EXCEPT !.mapInfo[id].nRefCount = @ - 1, !.vvNew[b] = @ \ {id}]
           V == [m.vvNew EXCEPT ![b] = @ \ {id}]
           Y == X \cup {id}
<1>1. /\ m.vvNew \in [NewBuckets -> SUBSET NewIds(info)] /\ id \in NewIds(info)
      /\ \A i \in NewIds(info) \ X : /\ info[i].nRefCount \in 1 .. NewBucketsPerAddress
                                     /\ info[i].nRefCount = Cardinality(BucketsOf(m.vvNew, i))
    BY DEF Sound, Referenced
<1>2. n \in 1 .. NewBucketsPerAddress /\ NewBucketsPerAddress \in Nat /\ k \in Nat
      /\ k <= NewBucketsPerAddress
    BY <1>1, AddrAssumption DEF AddrAssumption
<1>3. id \in DOMAIN info /\ IsMan(m) /\ info \in [DOMAIN info -> Info]
    BY <1>1 DEF Sound, NewIds, Entries
<1>4. u.mapInfo = [info EXCEPT ![id] = Recount(@, k)] /\ u.vvNew = V
      /\ IsMan(u) /\ u.nIdCount = m.nIdCount /\ u.mapAddr = m.mapAddr /\ u.vRandom = m.vRandom
      /\ u.nTried = m.nTried /\ u.nNew = m.nNew /\ u.vvTried = m.vvTried
    <2> DEFINE less == [info EXCEPT ![id] = Recount(@, k)]
    <2>1. u = [m EXCEPT !.mapInfo = less, !.vvNew = V]
        BY <1>3 DEF IsMan, Recount
    <2> HIDE DEF u, V, less
    <2>2. u.mapInfo = less /\ u.vvNew = V
          /\ IsMan(u) /\ u.nIdCount = m.nIdCount /\ u.mapAddr = m.mapAddr
          /\ u.vRandom = m.vRandom /\ u.nTried = m.nTried /\ u.nNew = m.nNew
          /\ u.vvTried = m.vvTried
        BY <1>3, <2>1 DEF IsMan
    <2> QED
        BY <2>2 DEF less
<1>5. Unref(m, b, id) = IF u.mapInfo[id].nRefCount = 0 THEN Delete(u, id) ELSE u
    BY DEF Unref
<1> HIDE DEF u, k, n
<1>6. /\ Recounts(m, u) /\ u.mapInfo[id].nRefCount = k /\ NewIds(u.mapInfo) = NewIds(info)
      /\ \A i \in DOMAIN info \ {id} : u.mapInfo[i] = info[i]
    BY <1>1, <1>2, <1>4, RecountOne
<1>7. /\ V \in [NewBuckets -> SUBSET NewIds(info)]
      /\ \A c \in NewBuckets : V[c] = IF c = b THEN m.vvNew[c] \ {id} ELSE m.vvNew[c]
    BY <1>1
<1> HIDE DEF V
<1>8. Cardinality(BucketsOf(V, id)) = k
    <2>1. BucketsOf(V, id) = BucketsOf(m.vvNew, id) \ {b} /\ b \in BucketsOf(m.vvNew, id)
        BY <1>7 DEF BucketsOf
    <2>2. IsFiniteSet(BucketsOf(m.vvNew, id))
        BY AddrAssumption, FS_Subset DEF AddrAssumption, BucketsOf
    <2>3. Cardinality(BucketsOf(m.vvNew, id)) = n
        BY <1>1 DEF n
    <2> QED
        BY <2>1, <2>2, <2>3, FS_RemoveElement DEF k
<1>9. ASSUME NEW i \in NewIds(info), i # id PROVE BucketsOf(V, i) = BucketsOf(m.vvNew, i)
    BY <1>7, <1>9 DEF BucketsOf
<1>10. Referenced(u.mapInfo, u.vvNew, Y)
    <2>1. ASSUME NEW i \in NewIds(u.mapInfo) \ Y
          PROVE  /\ u.mapInfo[i].nRefCount \in 1 .. NewBucketsPerAddress
                 /\ u.mapInfo[i].nRefCount = Cardinality(BucketsOf(V, i))
        <3>1. i \in NewIds(info) \ X /\ i # id /\ i \in DOMAIN info
            BY <1>6 DEF NewIds
        <3> QED
            BY <1>1, <1>6, <1>9, <3>1
    <2> QED
        BY <1>4, <1>6, <1>7, <2>1 DEF Referenced
<1>11. Sound(u, Y)
    <2> HIDE DEF Y
    <2> QED
        BY <1>6, <1>10, RecountsKeep
<1>12. CASE k = 0
    <2>1. BucketsOf(V, id) = {}
        <3>1. IsFiniteSet(BucketsOf(V, id))
            BY AddrAssumption, FS_Subset DEF AddrAssumption, BucketsOf
        <3> QED
            BY <1>8, <1>12, <3>1, FS_EmptySet
    <2>2. Unref(m, b, id) = Delete(u, id) /\ id \in NewIds(u.mapInfo) /\ BucketsOf(u.vvNew, id) = {}
        BY <1>1, <1>4, <1>5, <1>6, <1>12, <2>1
    <2>3. /\ Sound(Delete(u, id), X) /\ Delete(u, id).vvNew = u.vvNew
          /\ Delete(u, id).vvTried = u.vvTried
          /\ \A i \in DOMAIN u.mapInfo \ {id} :
                /\ i \in DOMAIN Delete(u, id).mapInfo
                /\ Delete(u, id).mapInfo[i].addr = u.mapInfo[i].addr
                /\ Delete(u, id).mapInfo[i].fInTried = u.mapInfo[i].fInTried
                /\ Delete(u, id).mapInfo[i].nRefCount = u.mapInfo[i].nRefCount
        BY <1>11, <2>2, DeleteKeeps
    <2>4. DOMAIN u.mapInfo = DOMAIN info
        BY <1>6 DEF Recounts
    <2> QED
        BY <1>4, <1>6, <2>2, <2>3, <2>4 DEF V
<1>13. CASE k # 0
    <2>1. Unref(m, b, id) = u
        BY <1>5, <1>6, <1>13
    <2>2. Referenced(u.mapInfo, u.vvNew, X)
        <3>1. ASSUME NEW i \in NewIds(u.mapInfo) \ X
              PROVE  /\ u.mapInfo[i].nRefCount \in 1 .. NewBucketsPerAddress
                     /\ u.mapInfo[i].nRefCount = Cardinality(BucketsOf(V, i))
            <4>1. CASE i = id
                BY <1>2, <1>6, <1>8, <1>13, <4>1
            <4>2. CASE i # id
                BY <1>4, <1>10, <3>1, <4>2 DEF Referenced
            <4> QED
                BY <4>1, <4>2
        <3> QED
            BY <1>4, <1>6, <1>7, <3>1 DEF Referenced
    <2>3. Sound(u, X)
        BY <1>6, <2>2, RecountsKeep
    <2>4. DOMAIN u.mapInfo = DOMAIN info
        BY <1>6 DEF Recounts
    <2> QED
        BY <1>4, <1>6, <2>1, <2>3, <2>4 DEF V
<1> QED
    BY <1>12, <1>13

-----------------------------------------------------------------------------
\* What becomes of tried entries

\* The tried entries of info are there in new, and are tried but for those in X.
Stays(info, new, X) ==
    \A i \in TriedIds(info) :
        /\ i \in DOMAIN new /\ new[i].addr = info[i].addr
        /\ i \in X \/ new[i].fInTried

LEMMA StaysOn ==
    ASSUME NEW a, NEW b, NEW c, NEW X, Stays(a, b, {}), Stays(b, c, X)
    PROVE  Stays(a, c, X)
<1> SUFFICES ASSUME NEW i \in TriedIds(a)
             PROVE  i \in DOMAIN c /\ c[i].addr = a[i].addr /\ (i \in X \/ c[i].fInTried)
    BY DEF Stays
<1>1. i \in DOMAIN b /\ b[i].addr = a[i].addr /\ b[i].fInTried
    BY DEF Stays
<1>2. i \in TriedIds(b)
    BY <1>1 DEF TriedIds
<1> QED
    BY <1>1, <1>2 DEF Stays

\* One entry is updated, and keeps its address and its table.
LEMMA UpdateStays ==
    ASSUME NEW info, NEW id \in DOMAIN info, NEW r,
           r.addr = info[id].addr, r.fInTried = info[id].fInTried
    PROVE  Stays(info, [info EXCEPT ![id] = r], {})
<1> DEFINE new == [info EXCEPT ![id] = r]
<1>1. DOMAIN new = DOMAIN info /\ new[id] = r /\ \A i \in DOMAIN info \ {id} : new[i] = info[i]
    OBVIOUS
<1> HIDE DEF new
<1>2. Stays(info, new, {})
    BY <1>1 DEF Stays, TriedIds
<1> QED
    BY <1>2 DEF new

\* Tried entries are in the bucket that their address has.
Homed(info, vv) ==
    \A b \in TriedBuckets : \A p \in 1 .. Len(vv[b]) : TriedBucketOf[info[vv[b][p]].addr] = b

LEMMA HomedOn ==
    ASSUME NEW info, NEW vv, Placed(info, vv), Homed(info, vv), NEW new, NEW X,
           Stays(info, new, X)
    PROVE  Homed(new, vv)
<1> SUFFICES ASSUME NEW b \in TriedBuckets, NEW p \in 1 .. Len(vv[b])
             PROVE  TriedBucketOf[new[vv[b][p]].addr] = b
    BY DEF Homed
<1>1. vv[b] \in Seq(TriedIds(info))
    BY DEF Placed
<1>2. vv[b][p] \in TriedIds(info)
    BY <1>1
<1>3. new[vv[b][p]].addr = info[vv[b][p]].addr
    BY <1>2 DEF Stays
<1> QED
    BY <1>3 DEF Homed

-----------------------------------------------------------------------------
\* Adding entries and references

\* An entry with its references counted is put into the bucket that was missing.
Inserted(m, b, id) == [m EXCEPT !.vvNew[b] = @ \cup {id}]

LEMMA InsertKeeps ==
    ASSUME NEW m, NEW id \in NewIds(m.mapInfo), Sound(m, {id}),
           NEW b \in NewBuckets, id \notin m.vvNew[b],
           m.mapInfo[id].nRefCount = Cardinality(BucketsOf(m.vvNew, id)) + 1,
           m.mapInfo[id].nRefCount <= NewBucketsPerAddress
    PROVE  /\ Sound(Inserted(m, b, id), {})
           /\ Inserted(m, b, id).vvNew = [m.vvNew EXCEPT ![b] = @ \cup {id}]
           /\ Inserted(m, b, id).vvTried = m.vvTried
<1> DEFINE info == m.mapInfo
           V == [m.vvNew EXCEPT ![b] = @ \cup {id}]
           t == Inserted(m, b, id)
           n == Cardinality(BucketsOf(m.vvNew, id))
<1>1. /\ m.vvNew \in [NewBuckets -> SUBSET NewIds(info)]
      /\ \A i \in NewIds(info) \ {id} :
            /\ info[i].nRefCount \in 1 .. NewBucketsPerAddress
            /\ info[i].nRefCount = Cardinality(BucketsOf(m.vvNew, i))
    BY DEF Sound, Referenced
<1>2. /\ t.vvNew = V /\ IsMan(t) /\ t.nIdCount = m.nIdCount /\ t.mapAddr = m.mapAddr
      /\ t.vRandom = m.vRandom /\ t.nTried = m.nTried /\ t.nNew = m.nNew
      /\ t.vvTried = m.vvTried /\ t.mapInfo = info
    BY DEF Inserted, IsMan, Sound
<1>3. /\ V \in [NewBuckets -> SUBSET NewIds(info)]
      /\ \A c \in NewBuckets : V[c] = IF c = b THEN m.vvNew[c] \cup {id} ELSE m.vvNew[c]
    BY <1>1
<1>4. info \in [DOMAIN info -> Info]
    BY DEF Sound, Entries
<1>5. Recounts(m, t)
    BY <1>2, <1>4 DEF Recounts
<1> HIDE DEF V, t
<1>6. IsFiniteSet(BucketsOf(m.vvNew, id))
    BY AddrAssumption, FS_Subset DEF AddrAssumption, BucketsOf
<1>7. Cardinality(BucketsOf(V, id)) = n + 1
    <2>1. BucketsOf(V, id) = BucketsOf(m.vvNew, id) \cup {b} /\ b \notin BucketsOf(m.vvNew, id)
        BY <1>3 DEF BucketsOf
    <2> QED
        BY <1>6, <2>1, FS_AddElement
<1>8. n + 1 \in 1 .. NewBucketsPerAddress
    <2>1. n \in Nat
        BY <1>6, FS_CardinalityType
    <2> HIDE DEF n
    <2>2. n + 1 <= NewBucketsPerAddress /\ NewBucketsPerAddress \in Nat
        BY AddrAssumption DEF AddrAssumption, n
    <2> QED
        BY <2>1, <2>2
<1>9. ASSUME NEW i \in NewIds(info)
      PROVE  /\ info[i].nRefCount \in 1 .. NewBucketsPerAddress
             /\ info[i].nRefCount = Cardinality(BucketsOf(V, i))
    <2>1. CASE i = id
        BY <1>7, <1>8, <2>1
    <2>2. CASE i # id
        <3>1. BucketsOf(V, i) = BucketsOf(m.vvNew, i)
            BY <1>3, <2>2 DEF BucketsOf
        <3> QED
            BY <1>1, <2>2, <3>1
    <2> QED
        BY <2>1, <2>2
<1>10. Referenced(t.mapInfo, t.vvNew, {})
    BY <1>2, <1>3, <1>9 DEF Referenced
<1>11. Sound(t, {})
    BY <1>5, <1>10, RecountsKeep
<1> QED
    BY <1>2, <1>11 DEF t, V

\* t has one entry more than m, the new entry r.
Added(m, r, t) ==
    /\ IsMan(t) /\ t.nIdCount = m.nIdCount + 1
    /\ t.mapInfo = Put(m.mapInfo, m.nIdCount, r)
    /\ t.mapAddr = Put(m.mapAddr, Ip[r.addr], m.nIdCount)
    /\ t.vRandom = Append(m.vRandom, m.nIdCount)
    /\ t.nTried = m.nTried /\ t.nNew = m.nNew + 1
    /\ t.vvTried = m.vvTried /\ t.vvNew = m.vvNew

LEMMA AddedKeeps ==
    ASSUME NEW m, NEW X, Sound(m, X), NEW r \in Info, ~r.fInTried,
           r.nRandomPos = Len(m.vRandom) + 1, Ip[r.addr] \notin DOMAIN m.mapAddr,
           NEW t, Added(m, r, t)
    PROVE  /\ Sound(t, X \cup {m.nIdCount})
           /\ DOMAIN t.mapInfo = DOMAIN m.mapInfo \cup {m.nIdCount}
           /\ m.nIdCount \notin DOMAIN m.mapInfo /\ t.mapInfo[m.nIdCount] = r
           /\ m.nIdCount \in NewIds(t.mapInfo) /\ BucketsOf(t.vvNew, m.nIdCount) = {}
           /\ \A i \in DOMAIN m.mapInfo : t.mapInfo[i] = m.mapInfo[i]
<1> DEFINE info == m.mapInfo
           id == m.nIdCount
           D == DOMAIN info
           E == D \cup {id}
           new == t.mapInfo
           v == m.vRandom
           n == Len(v)
           w == t.vRandom
           a == Ip[r.addr]
<1>1. /\ Entries(info, id) /\ Found(info, m.mapAddr) /\ Ordered(info, v)
      /\ Flagged(info) /\ Counted(info, v, m.nNew, m.nTried) /\ Placed(info, m.vvTried)
      /\ Referenced(info, m.vvNew, X)
    BY DEF Sound
<1>2. /\ IsMan(t) /\ t.nIdCount = id + 1 /\ new = Put(info, id, r)
      /\ t.mapAddr = Put(m.mapAddr, a, id) /\ w = Append(v, id) /\ t.nTried = m.nTried
      /\ t.nNew = m.nNew + 1 /\ t.vvTried = m.vvTried /\ t.vvNew = m.vvNew
      /\ r.nRandomPos = n + 1 /\ a \notin DOMAIN m.mapAddr
    BY DEF Added
<1> HIDE DEF info, id, new, v, w, a
<1>3. id \in Nat /\ D \subseteq 0 .. id - 1 /\ id \notin D /\ info \in [D -> Info]
    BY <1>1 DEF Entries
<1>4. DOMAIN new = E /\ new[id] = r /\ \A i \in D : new[i] = info[i]
    BY <1>2, <1>3 DEF Put
<1>5. NewIds(new) = NewIds(info) \cup {id} /\ TriedIds(new) = TriedIds(info) /\ id \notin NewIds(info)
    BY <1>3, <1>4 DEF NewIds, TriedIds
<1>6. Entries(new, id + 1)
    <2>1. E \subseteq 0 .. (id + 1) - 1 /\ id + 1 \in Nat
        BY <1>3
    <2>2. new \in [E -> Info]
        <3>1. \A i \in E : new[i] \in Info
            BY <1>3, <1>4
        <3>2. new = [i \in E |-> new[i]]
            BY <1>2, <1>4 DEF Put
        <3> QED
            BY <3>1, <3>2
    <2> QED
        BY <1>4, <2>1, <2>2 DEF Entries
<1>7. Found(new, t.mapAddr)
    <2>1. /\ DOMAIN m.mapAddr = {Ip[info[i].addr] : i \in D}
          /\ \A i \in D : m.mapAddr[Ip[info[i].addr]] = i
        BY <1>1 DEF Found
    <2>2. /\ DOMAIN t.mapAddr = DOMAIN m.mapAddr \cup {a} /\ t.mapAddr[a] = id
          /\ \A x \in DOMAIN m.mapAddr : t.mapAddr[x] = m.mapAddr[x]
        BY <1>2 DEF Put
    <2>3. DOMAIN t.mapAddr = {Ip[new[i].addr] : i \in E}
        <3>1. {Ip[new[i].addr] : i \in E} = {Ip[new[i].addr] : i \in D} \cup {Ip[new[id].addr]}
            OBVIOUS
        <3>2. {Ip[new[i].addr] : i \in D} = {Ip[info[i].addr] : i \in D}
            BY <1>4
        <3> QED
            BY <1>4, <2>1, <2>2, <3>1, <3>2 DEF a
    <2>4. ASSUME NEW i \in E PROVE t.mapAddr[Ip[new[i].addr]] = i
        <3>1. CASE i = id
            BY <1>4, <2>2, <3>1 DEF a
        <3>2. CASE i \in D
            <4>1. Ip[info[i].addr] \in DOMAIN m.mapAddr /\ new[i] = info[i]
                BY <1>4, <2>1, <3>2
            <4> QED
                BY <2>1, <2>2, <3>2, <4>1
        <3> QED
            BY <3>1, <3>2
    <2> QED
        BY <1>4, <2>3, <2>4 DEF Found
<1>8. /\ v \in Seq(D) /\ n \in Nat
      /\ \A i \in D : info[i].nRandomPos \in 1 .. n /\ v[info[i].nRandomPos] = i
      /\ \A p \in 1 .. n : info[v[p]].nRandomPos = p /\ v[p] \in D
    BY <1>1 DEF Ordered
<1>9. w \in Seq(E) /\ Len(w) = n + 1 /\ w[n + 1] = id /\ \A p \in 1 .. n : w[p] = v[p]
    <2>1. v \in Seq(E) /\ id \in E
        BY <1>8
    <2> QED
        BY <1>2, <2>1
<1> HIDE DEF n
<1>10. Ordered(new, w)
    <2>1. ASSUME NEW i \in E
          PROVE  new[i].nRandomPos \in 1 .. Len(w) /\ w[new[i].nRandomPos] = i
        <3>1. CASE i = id
            <4>1. new[i].nRandomPos = n + 1
                BY <1>2, <1>4, <3>1
            <4> QED
                BY <1>8, <1>9, <3>1, <4>1
        <3>2. CASE i \in D
            <4>1. new[i] = info[i] /\ info[i].nRandomPos \in 1 .. n /\ v[info[i].nRandomPos] = i
                BY <1>4, <1>8, <3>2
            <4> QED
                BY <1>8, <1>9, <4>1
        <3> QED
            BY <3>1, <3>2
    <2>2. ASSUME NEW p \in 1 .. Len(w) PROVE new[w[p]].nRandomPos = p
        <3>1. CASE p = n + 1
            BY <1>2, <1>4, <1>9, <3>1
        <3>2. CASE p # n + 1
            <4>1. p \in 1 .. n
                BY <1>8, <1>9, <3>2
            <4>2. w[p] = v[p] /\ v[p] \in D /\ info[v[p]].nRandomPos = p
                BY <1>8, <1>9, <4>1
            <4> QED
                BY <1>4, <4>2
        <3> QED
            BY <3>1, <3>2
    <2> QED
        BY <1>4, <1>9, <2>1, <2>2 DEF Ordered
<1>11. Flagged(new)
    <2>1. \A i \in TriedIds(info) : i \in D /\ new[i] = info[i]
        BY <1>4 DEF TriedIds
    <2> QED
        BY <1>1, <1>5, <2>1 DEF Flagged
<1>12. Counted(new, w, t.nNew, t.nTried)
    <2>1. /\ m.nNew = Cardinality(NewIds(info)) /\ m.nTried = Cardinality(TriedIds(info))
          /\ n = m.nTried + m.nNew
        BY <1>1 DEF Counted, n
    <2>2. /\ IsFiniteSet(NewIds(info)) /\ m.nNew \in Nat /\ m.nTried \in Nat
        <3>1. NewIds(info) \subseteq D /\ TriedIds(info) \subseteq D
            BY DEF NewIds, TriedIds
        <3> QED
            BY <1>1, <2>1, <3>1, IdsFinite
    <2>3. Cardinality(NewIds(new)) = m.nNew + 1
        BY <1>5, <2>1, <2>2, FS_AddElement
    <2>4. Len(w) = m.nTried + (m.nNew + 1)
        BY <1>9, <2>1, <2>2
    <2> QED
        BY <1>2, <1>5, <2>1, <2>3, <2>4 DEF Counted
<1>13. BucketsOf(m.vvNew, id) = {}
    BY <1>1, <1>5 DEF Referenced, BucketsOf
<1>14. Referenced(new, t.vvNew, X \cup {id})
    <2>1. m.vvNew \in [NewBuckets -> SUBSET NewIds(new)]
        BY <1>1, <1>5 DEF Referenced
    <2>2. ASSUME NEW i \in NewIds(new) \ (X \cup {id})
          PROVE  /\ new[i].nRefCount \in 1 .. NewBucketsPerAddress
                 /\ new[i].nRefCount = Cardinality(BucketsOf(m.vvNew, i))
        <3>1. i \in NewIds(info) \ X /\ i \in D
            BY <1>5, <2>2 DEF NewIds
        <3> QED
            BY <1>1, <1>4, <3>1 DEF Referenced
    <2> QED
        BY <1>2, <2>1, <2>2 DEF Referenced
<1>15. Placed(new, t.vvTried)
    BY <1>1, <1>2, <1>5 DEF Placed
<1>16. Sound(t, X \cup {id})
    BY <1>2, <1>6, <1>7, <1>10, <1>11, <1>12, <1>14, <1>15 DEF Sound, new, w
<1> QED
    BY <1>2, <1>3, <1>4, <1>5, <1>13, <1>16 DEF id, new, info

\* The entry that ShrinkNew throws out of bucket b is one of the bucket's.
LEMMA VictimIsInBucket ==
    ASSUME NEW m, NEW X, Sound(m, X), NEW b \in NewBuckets, NEW four \in Fours(m.vvNew[b])
    PROVE  \E id \in m.vvNew[b] : ShrinkNew(m, b, four) = Unref(m, b, id)
<1> DEFINE terrible == {i \in m.vvNew[b] : IsTerrible(m.mapInfo[i])}
           worst == CHOOSE i \in terrible : \A j \in terrible : i <= j
           victim == IF terrible # {} THEN worst ELSE Oldest(m, four)
<1>1. m.vvNew[b] \subseteq NewIds(m.mapInfo) /\ NewIds(m.mapInfo) \subseteq Nat
    BY DEF Sound, Referenced, Entries, NewIds
<1>2. four \subseteq m.vvNew[b] /\ four # {}
    BY DEF Fours
<1>3. ASSUME terrible # {} PROVE worst \in m.vvNew[b]
    <2>1. terrible \in SUBSET Nat /\ terrible \subseteq m.vvNew[b]
        BY <1>1
    <2> HIDE DEF terrible
    <2>2. \E i \in terrible : \A j \in terrible : i <= j
        BY <1>3, <2>1, SmallestExists
    <2>3. worst \in terrible
        BY <2>2
    <2> QED
        BY <2>1, <2>3
<1>4. Oldest(m, four) \in four
    <2> DEFINE time(i) == m.mapInfo[i].nTime
               times == {time(i) : i \in four}
    <2>1. \A i \in four : time(i) \in Nat /\ i \in Nat
        <3>1. \A i \in four : m.mapInfo[i] \in Info /\ i \in Nat
            BY <1>1, <1>2 DEF Sound, Entries, NewIds
        <3> QED
            BY <3>1 DEF Info
    <2> HIDE DEF time
    <2>2. times \in SUBSET Nat /\ times # {}
        BY <1>2, <2>1
    <2>3. PICK x \in times : \A y \in times : x <= y
        <3> HIDE DEF times
        <3> QED
            BY <2>2, SmallestExists
    <2> DEFINE early == {i \in four : time(i) = x}
    <2>4. early \in SUBSET Nat /\ early # {} /\ x \in Nat
        BY <2>1, <2>2, <2>3
    <2>5. PICK i \in early : \A j \in early : i <= j
        <3> HIDE DEF early
        <3> QED
            BY <2>4, SmallestExists
    <2>6. \A j \in four : time(i) < time(j) \/ (time(i) = time(j) /\ i <= j)
        <3> SUFFICES ASSUME NEW j \in four
                     PROVE  time(i) < time(j) \/ (time(i) = time(j) /\ i <= j)
            OBVIOUS
        <3>1. time(i) = x /\ x <= time(j) /\ time(j) \in Nat
            BY <2>1, <2>3, <2>5
        <3>2. time(j) = x => i <= j
            BY <2>5
        <3> QED
            BY <2>4, <3>1, <3>2
    <2>7. \E k \in four : \A j \in four : time(k) < time(j) \/ (time(k) = time(j) /\ k <= j)
        BY <2>5, <2>6
    <2> QED
        BY <2>7 DEF Oldest, time
<1>5. ShrinkNew(m, b, four) = Unref(m, b, victim)
    BY DEF ShrinkNew
<1>6. victim \in m.vvNew[b]
    <2> HIDE DEF terrible, worst
    <2> QED
        BY <1>2, <1>3, <1>4
<1> QED
    BY <1>5, <1>6

\* Room is made in bucket b for the entry id, whose references are counted already.
Filled(r, b, id, four) == Inserted(IF four = {} THEN r ELSE ShrinkNew(r, b, four), b, id)

LEMMA FilledKeeps ==
    ASSUME NEW r, NEW id \in NewIds(r.mapInfo), Sound(r, {id}), Fits(r.vvNew, r.vvTried),
           NEW b \in NewBuckets, id \notin r.vvNew[b],
           r.mapInfo[id].nRefCount = Cardinality(BucketsOf(r.vvNew, id)) + 1,
           r.mapInfo[id].nRefCount <= NewBucketsPerAddress,
           NEW four \in Fours(r.vvNew[b]) \cup {{}},
           four = {} <=> Cardinality(r.vvNew[b]) < NewBucketSize
    PROVE  /\ Sound(Filled(r, b, id, four), {})
           /\ Fits(Filled(r, b, id, four).vvNew, Filled(r, b, id, four).vvTried)
<1> DEFINE V == r.vvNew
           s == IF four = {} THEN r ELSE ShrinkNew(r, b, four)
           W == s.vvNew
           t == Inserted(s, b, id)
<1>1. /\ V \in [NewBuckets -> SUBSET NewIds(r.mapInfo)]
      /\ \A c \in NewBuckets : IsFiniteSet(V[c]) /\ Cardinality(V[c]) \in Nat
    <2>1. V \in [NewBuckets -> SUBSET NewIds(r.mapInfo)]
        BY DEF Sound, Referenced
    <2>2. Entries(r.mapInfo, r.nIdCount)
        BY DEF Sound
    <2>3. \A c \in NewBuckets : V[c] \in SUBSET DOMAIN r.mapInfo
        BY <2>1 DEF NewIds
    <2> HIDE DEF V
    <2> QED
        BY <2>1, <2>2, <2>3, IdsFinite
<1>2. /\ \A c \in NewBuckets : Cardinality(V[c]) <= NewBucketSize
      /\ \A c \in TriedBuckets : Len(r.vvTried[c]) <= TriedBucketSize
    BY DEF Fits
<1>3. NewBucketSize \in Nat /\ NewBucketSize > 0
    BY AddrAssumption DEF AddrAssumption
<1>4. /\ Sound(s, {id}) /\ id \in NewIds(s.mapInfo) /\ s.vvTried = r.vvTried
      /\ s.mapInfo[id].nRefCount = r.mapInfo[id].nRefCount
      /\ W \in [NewBuckets -> SUBSET NewIds(s.mapInfo)] /\ id \notin W[b]
      /\ BucketsOf(W, id) = BucketsOf(V, id)
      /\ Cardinality(W[b]) < NewBucketSize /\ IsFiniteSet(W[b])
      /\ \A c \in NewBuckets \ {b} : W[c] = V[c]
    <2>1. CASE four = {}
        <3>1. s = r
            BY <2>1
        <3> HIDE DEF s
        <3> QED
            BY <1>1, <2>1, <3>1
    <2>2. CASE four # {}
        <3>1. four \in Fours(V[b]) /\ s = ShrinkNew(r, b, four)
            BY <2>2
        <3>2. PICK victim \in V[b] : s = Unref(r, b, victim)
            BY <3>1, VictimIsInBucket
        <3>3. victim # id /\ victim \notin {id} /\ id \in DOMAIN r.mapInfo
            BY DEF NewIds
        <3> HIDE DEF s
        <3>4. /\ Sound(s, {id}) /\ W = [V EXCEPT ![b] = @ \ {victim}] /\ s.vvTried = r.vvTried
              /\ \A i \in DOMAIN r.mapInfo \ {victim} :
                    /\ i \in DOMAIN s.mapInfo
                    /\ s.mapInfo[i].fInTried = r.mapInfo[i].fInTried
                    /\ s.mapInfo[i].nRefCount = r.mapInfo[i].nRefCount
            BY <3>2, <3>3, UnrefKeeps
        <3>5. id \in NewIds(s.mapInfo) /\ s.mapInfo[id].nRefCount = r.mapInfo[id].nRefCount
            BY <3>3, <3>4 DEF NewIds
        <3>6. W \in [NewBuckets -> SUBSET NewIds(s.mapInfo)]
            BY <3>4 DEF Sound, Referenced
        <3>7. \A c \in NewBuckets : W[c] = IF c = b THEN V[c] \ {victim} ELSE V[c]
            BY <1>1, <3>4
        <3> HIDE DEF W, V
        <3>8. BucketsOf(W, id) = BucketsOf(V, id)
            BY <3>3, <3>7 DEF BucketsOf
        <3>9. Cardinality(W[b]) = Cardinality(V[b]) - 1 /\ IsFiniteSet(W[b])
            <4> DEFINE old == V[b]
            <4>1. W[b] = old \ {victim} /\ victim \in old /\ IsFiniteSet(old)
                BY <1>1, <3>2, <3>7
            <4> HIDE DEF old
            <4>2. Cardinality(old \ {victim}) = Cardinality(old) - 1 /\ IsFiniteSet(old \ {victim})
                BY <4>1, FS_RemoveElement
            <4> QED
                BY <4>1, <4>2 DEF old
        <3>10. Cardinality(W[b]) < NewBucketSize
            BY <1>1, <1>2, <1>3, <3>9
        <3>11. id \notin W[b]
            BY <3>7 DEF V
        <3> QED
            BY <3>4, <3>5, <3>6, <3>7, <3>8, <3>9, <3>10, <3>11
    <2> QED
        BY <2>1, <2>2
<1> HIDE DEF s
<1>5. /\ Sound(t, {}) /\ t.vvTried = s.vvTried /\ t.vvNew = [W EXCEPT ![b] = @ \cup {id}]
    <2>1. s.mapInfo[id].nRefCount = Cardinality(BucketsOf(W, id)) + 1
          /\ s.mapInfo[id].nRefCount <= NewBucketsPerAddress
        BY <1>4
    <2> QED
        BY <1>4, <2>1, InsertKeeps
<1>6. Cardinality(W[b] \cup {id}) <= NewBucketSize
    <2>1. Cardinality(W[b] \cup {id}) = Cardinality(W[b]) + 1 /\ Cardinality(W[b]) \in Nat
        BY <1>4, FS_AddElement, FS_CardinalityType
    <2> QED
        BY <1>3, <1>4, <2>1
<1>7. \A c \in NewBuckets : t.vvNew[c] = IF c = b THEN W[b] \cup {id} ELSE V[c]
    BY <1>4, <1>5
<1> HIDE DEF t, W, V
<1>8. Fits(t.vvNew, t.vvTried)
    BY <1>2, <1>4, <1>5, <1>6, <1>7 DEF Fits
<1> QED
    BY <1>5, <1>8 DEF t, s, Filled

\* ShrinkNew makes room by taking a new entry away.
LEMMA FilledStays ==
    ASSUME NEW r, NEW id \in NewIds(r.mapInfo), Sound(r, {id}),
           NEW b \in NewBuckets, id \notin r.vvNew[b],
           NEW four \in Fours(r.vvNew[b]) \cup {{}}
    PROVE  /\ Stays(r.mapInfo, Filled(r, b, id, four).mapInfo, {})
           /\ Filled(r, b, id, four).vvTried = r.vvTried
<1> DEFINE s == IF four = {} THEN r ELSE ShrinkNew(r, b, four)
           t == Inserted(s, b, id)
<1>1. Stays(r.mapInfo, s.mapInfo, {}) /\ IsMan(s) /\ s.vvTried = r.vvTried
    <2>1. CASE four = {}
        <3>1. s = r
            BY <2>1
        <3> HIDE DEF s
        <3> QED
            BY <3>1 DEF Stays, TriedIds, Sound
    <2>2. CASE four # {}
        <3>1. four \in Fours(r.vvNew[b]) /\ s = ShrinkNew(r, b, four)
            BY <2>2
        <3>2. PICK victim \in r.vvNew[b] : s = Unref(r, b, victim)
            BY <3>1, VictimIsInBucket
        <3>3. victim \notin {id} /\ victim \in NewIds(r.mapInfo)
            BY DEF Sound, Referenced
        <3> HIDE DEF s
        <3>4. /\ Sound(s, {id}) /\ s.vvTried = r.vvTried
              /\ \A i \in DOMAIN r.mapInfo \ {victim} :
                    /\ i \in DOMAIN s.mapInfo
                    /\ s.mapInfo[i].addr = r.mapInfo[i].addr
                    /\ s.mapInfo[i].fInTried = r.mapInfo[i].fInTried
                    /\ s.mapInfo[i].nRefCount = r.mapInfo[i].nRefCount
            <4> DEFINE X == {id}
            <4>1. Sound(r, X) /\ victim \notin X
                BY <3>3
            <4> HIDE DEF X
            <4>2. /\ Sound(Unref(r, b, victim), X)
                  /\ Unref(r, b, victim).vvNew = [r.vvNew EXCEPT ![b] = @ \ {victim}]
                  /\ Unref(r, b, victim).vvTried = r.vvTried
                  /\ \A i \in DOMAIN r.mapInfo \ {victim} :
                        /\ i \in DOMAIN Unref(r, b, victim).mapInfo
                        /\ Unref(r, b, victim).mapInfo[i].addr = r.mapInfo[i].addr
                        /\ Unref(r, b, victim).mapInfo[i].fInTried = r.mapInfo[i].fInTried
                        /\ Unref(r, b, victim).mapInfo[i].nRefCount = r.mapInfo[i].nRefCount
                BY <4>1, UnrefKeeps
            <4> QED
                BY <3>2, <4>2 DEF X
        <3>5. TriedIds(r.mapInfo) \subseteq DOMAIN r.mapInfo \ {victim}
            BY <3>3 DEF TriedIds, NewIds
        <3>6. \A i \in TriedIds(r.mapInfo) : r.mapInfo[i].fInTried
            BY DEF TriedIds
        <3> QED
            BY <3>4, <3>5, <3>6 DEF Stays, Sound
    <2> QED
        BY <2>1, <2>2
<1> HIDE DEF s
<1>2. t.mapInfo = s.mapInfo /\ t.vvTried = s.vvTried
    BY <1>1 DEF Inserted, IsMan
<1>3. Filled(r, b, id, four) = t
    BY DEF Filled, s
<1> HIDE DEF t
<1> QED
    BY <1>1, <1>2, <1>3

\* Add_ of an unknown address.
LEMMA AddNewKeeps ==
    ASSUME AddrInv, NEW s \in Services, NEW source \in Sources, NEW nTime \in Nat,
           NEW penalty \in Nat, AddNew(s, source, nTime, penalty)
    PROVE  AddrInv' /\ Stays(am.mapInfo, am'.mapInfo, {}) /\ am'.vvTried = am.vvTried
<1> DEFINE id == am.nIdCount
           b == NewBucketOf[<<s, source>>]
           time == IF nTime > penalty THEN nTime - penalty ELSE 0
           n == Len(am.vRandom) + 1
           i0 == NewInfo(s, source, time)
           e0 == Move(i0, n)
           e == Recount(e0, 1)
           c == Create(am, s, source, time)
           r == [c EXCEPT !.nNew = @ + 1, !.mapInfo[id].nRefCount = 1]
<1>1. PICK four \in Fours(am.vvNew[b]) \cup {{}} :
        /\ four = {} <=> Cardinality(am.vvNew[b]) < NewBucketSize
        /\ am' = [(IF four = {} THEN r ELSE ShrinkNew(r, b, four)) EXCEPT !.vvNew[b] = @ \cup {id}]
    BY DEF AddNew
<1>2. Ip[s] \notin DOMAIN am.mapAddr /\ now' = now
    BY DEF AddNew, Knows
<1>3. b \in NewBuckets /\ NewBucketsPerAddress \in Nat /\ NewBucketsPerAddress >= 1
    <2>1. <<s, source>> \in Services \X Sources
        OBVIOUS
    <2> QED
        BY <2>1, AddrAssumption DEF AddrAssumption
<1>4. IsMan(am) /\ Sound(am, {}) /\ Fits(am.vvNew, am.vvTried) /\ now \in Nat \ {0}
    BY DEF AddrInv, Sound
<1>5. n \in Nat /\ time \in Nat
    <2>1. n \in Nat
        BY <1>4 DEF Sound, Ordered
    <2>2. time \in Nat
        OBVIOUS
    <2> QED
        BY <2>1, <2>2
<1>6. e \in Info /\ ~e.fInTried /\ e.nRandomPos = n /\ e.addr = s /\ e.nRefCount = 1
    <2>1. i0 \in Info /\ ~i0.fInTried /\ i0.addr = s
        <3> HIDE DEF time
        <3> QED
            BY <1>5 DEF NewInfo, Info
    <2> HIDE DEF i0, n
    <2>2. e0 \in Info /\ e0.nRandomPos = n /\ e0.addr = i0.addr /\ e0.fInTried = i0.fInTried
        BY <1>5, <2>1, MoveIs
    <2> HIDE DEF e0
    <2> QED
        BY <2>1, <2>2, RecountIs
<1>7. Added(am, e, r)
    <2> DEFINE M == Put(am.mapInfo, id, e)
               A == Put(am.mapAddr, Ip[s], id)
               W == Append(am.vRandom, id)
    <2>1. c = [am EXCEPT !.nIdCount = id + 1, !.mapInfo = Put(am.mapInfo, id, e0),
                         !.mapAddr = A, !.vRandom = W]
        BY DEF Create, Move
    <2> HIDE DEF c, e0
    <2>2. M = [Put(am.mapInfo, id, e0) EXCEPT ![id].nRefCount = 1]
        BY DEF Put, Recount
    <2>3. /\ c.nIdCount = id + 1 /\ c.mapInfo = Put(am.mapInfo, id, e0) /\ c.mapAddr = A
          /\ c.vRandom = W /\ c.nTried = am.nTried /\ c.nNew = am.nNew
          /\ c.vvTried = am.vvTried /\ c.vvNew = am.vvNew /\ IsMan(c)
        BY <1>4, <2>1 DEF IsMan
    <2>4. r = [c EXCEPT !.nNew = am.nNew + 1, !.mapInfo = M]
        BY <2>2, <2>3 DEF IsMan
    <2> HIDE DEF r, M, A, W, e
    <2>5. /\ r.nIdCount = id + 1 /\ r.mapInfo = M /\ r.mapAddr = A
          /\ r.vRandom = W /\ r.nTried = am.nTried /\ r.nNew = am.nNew + 1
          /\ r.vvTried = am.vvTried /\ r.vvNew = am.vvNew /\ IsMan(r)
        BY <2>3, <2>4 DEF IsMan
    <2> QED
        BY <1>6, <2>5 DEF Added, M, A, W
<1> HIDE DEF e, r
<1>8. /\ Sound(r, {id}) /\ id \in NewIds(r.mapInfo) /\ r.mapInfo[id] = e
      /\ DOMAIN am.mapInfo \subseteq DOMAIN r.mapInfo
      /\ \A i \in DOMAIN am.mapInfo : r.mapInfo[i] = am.mapInfo[i]
      /\ BucketsOf(r.vvNew, id) = {} /\ r.vvNew = am.vvNew /\ r.vvTried = am.vvTried
    <2> DEFINE X == {}
    <2>1. Sound(am, X)
        BY <1>4
    <2> HIDE DEF X
    <2>2. /\ Sound(r, X \cup {am.nIdCount}) /\ am.nIdCount \in NewIds(r.mapInfo)
          /\ r.mapInfo[am.nIdCount] = e /\ BucketsOf(r.vvNew, am.nIdCount) = {}
          /\ DOMAIN am.mapInfo \subseteq DOMAIN r.mapInfo
          /\ \A i \in DOMAIN am.mapInfo : r.mapInfo[i] = am.mapInfo[i]
        <3>1. e.nRandomPos = Len(am.vRandom) + 1 /\ Ip[e.addr] \notin DOMAIN am.mapAddr
              /\ e \in Info /\ ~e.fInTried
            BY <1>2, <1>6
        <3>2. am.nIdCount \in DOMAIN r.mapInfo /\ r.mapInfo[am.nIdCount] = e
            BY <1>7 DEF Added, Put
        <3> HIDE DEF id, b
        <3>3. /\ Sound(r, X \cup {am.nIdCount}) /\ am.nIdCount \in NewIds(r.mapInfo)
              /\ BucketsOf(r.vvNew, am.nIdCount) = {}
            BY <1>7, <2>1, <3>1, AddedKeeps
        <3>4. /\ DOMAIN r.mapInfo = DOMAIN am.mapInfo \cup {am.nIdCount}
              /\ am.nIdCount \notin DOMAIN am.mapInfo
            <4>1. am.nIdCount \notin DOMAIN am.mapInfo
                BY <1>4 DEF Sound, Entries
            <4> QED
                BY <1>7, <4>1 DEF Added, Put
        <3>5. \A i \in DOMAIN am.mapInfo : r.mapInfo[i] = am.mapInfo[i]
            BY <1>7, <3>4 DEF Added, Put
        <3> QED
            BY <3>2, <3>3, <3>4, <3>5
    <2> QED
        BY <1>7, <2>2 DEF X, Added
<1>9. /\ id \notin r.vvNew[b] /\ r.mapInfo[id].nRefCount = Cardinality(BucketsOf(r.vvNew, id)) + 1
      /\ r.mapInfo[id].nRefCount <= NewBucketsPerAddress
    <2>1. Cardinality(BucketsOf(r.vvNew, id)) = 0
        BY <1>8, FS_EmptySet
    <2>2. id \notin r.vvNew[b]
        BY <1>3, <1>8 DEF BucketsOf
    <2> QED
        BY <1>3, <1>6, <1>8, <2>1, <2>2
<1>10. am' = Filled(r, b, id, four)
    BY <1>1 DEF Filled, Inserted
<1>11. Fits(r.vvNew, r.vvTried) /\ four \in Fours(r.vvNew[b]) \cup {{}}
       /\ (four = {} <=> Cardinality(r.vvNew[b]) < NewBucketSize)
    BY <1>1, <1>4, <1>8
<1> HIDE DEF id, b
<1>12. Sound(am', {}) /\ Fits(am'.vvNew, am'.vvTried)
    BY <1>3, <1>8, <1>9, <1>10, <1>11, FilledKeeps
<1>13. Stays(am.mapInfo, r.mapInfo, {})
    BY <1>8 DEF Stays, TriedIds
<1>14. /\ Stays(r.mapInfo, Filled(r, b, id, four).mapInfo, {})
       /\ Filled(r, b, id, four).vvTried = r.vvTried
    BY <1>3, <1>8, <1>9, <1>11, FilledStays
<1>15. Stays(am.mapInfo, am'.mapInfo, {})
    <2> HIDE DEF id, b, r
    <2> DEFINE X == {}
    <2>1. Stays(am.mapInfo, r.mapInfo, {}) /\ Stays(r.mapInfo, am'.mapInfo, X)
        BY <1>10, <1>13, <1>14
    <2> HIDE DEF X
    <2>2. Stays(am.mapInfo, am'.mapInfo, X)
        BY <2>1, StaysOn
    <2> QED
        BY <2>2 DEF X
<1>16. am'.vvTried = am.vvTried
    BY <1>8, <1>10, <1>14
<1> QED
    BY <1>2, <1>4, <1>12, <1>15, <1>16 DEF AddrInv

Retime(r, x) == [r EXCEPT !.nTime = x]

LEMMA RetimeIs ==
    ASSUME NEW r \in Info, NEW x \in Nat
    PROVE  /\ Retime(r, x) \in Info /\ Retime(r, x).nRefCount = r.nRefCount
           /\ Retime(r, x).addr = r.addr /\ Retime(r, x).fInTried = r.fInTried
           /\ Retime(r, x).nLastSuccess = r.nLastSuccess
           /\ Retime(r, x).nRandomPos = r.nRandomPos
    BY DEF Info, Retime

\* One entry changes in what no table depends on.
LEMMA UpdateKeeps ==
    ASSUME NEW m, NEW X, Sound(m, X), NEW id \in DOMAIN m.mapInfo, NEW r \in Info,
           r.addr = m.mapInfo[id].addr, r.fInTried = m.mapInfo[id].fInTried,
           r.nRefCount = m.mapInfo[id].nRefCount, r.nRandomPos = m.mapInfo[id].nRandomPos,
           m.mapInfo[id].nLastSuccess > 0 => r.nLastSuccess > 0,
           NEW t, t = [m EXCEPT !.mapInfo[id] = r]
    PROVE  /\ Sound(t, X) /\ t.vvNew = m.vvNew /\ t.vvTried = m.vvTried
           /\ DOMAIN t.mapInfo = DOMAIN m.mapInfo /\ t.mapInfo[id] = r
           /\ IsMan(t) /\ t.nIdCount = m.nIdCount /\ t.mapAddr = m.mapAddr
           /\ t.vRandom = m.vRandom /\ t.nTried = m.nTried /\ t.nNew = m.nNew
<1> DEFINE info == m.mapInfo
           D == DOMAIN info
           new == [info EXCEPT ![id] = r]
<1>1. /\ IsMan(m) /\ info \in [D -> Info] /\ Ordered(info, m.vRandom)
    BY DEF Sound, Entries
<1>2. t = [m EXCEPT !.mapInfo = new]
    BY <1>1 DEF IsMan
<1>3. /\ new \in [D -> Info] /\ DOMAIN new = D /\ new[id] = r
      /\ \A i \in D \ {id} : new[i] = info[i]
    BY <1>1
<1> HIDE DEF new
<1>4. t.mapInfo = new /\ t.vRandom = m.vRandom /\ IsMan(t)
      /\ t.nIdCount = m.nIdCount /\ t.mapAddr = m.mapAddr /\ t.nTried = m.nTried /\ t.nNew = m.nNew
      /\ t = [m EXCEPT !.mapInfo = t.mapInfo, !.vRandom = t.vRandom]
    BY <1>1, <1>2 DEF IsMan
<1>5. Alike(info, new)
    BY <1>3 DEF Alike
<1>6. Ordered(new, m.vRandom)
    <2>1. \A i \in D : new[i].nRandomPos = info[i].nRandomPos
        BY <1>3
    <2>2. \A p \in 1 .. Len(m.vRandom) : m.vRandom[p] \in D
        BY <1>1 DEF Ordered
    <2> QED
        BY <1>1, <1>3, <2>1, <2>2 DEF Ordered
<1>7. Sound(t, X) /\ t.vvNew = m.vvNew /\ t.vvTried = m.vvTried
    <2>1. Alike(m.mapInfo, t.mapInfo) /\ Ordered(t.mapInfo, t.vRandom)
          /\ Len(t.vRandom) = Len(m.vRandom)
        BY <1>4, <1>5, <1>6
    <2>2. t = [m EXCEPT !.mapInfo = t.mapInfo, !.vRandom = t.vRandom]
        BY <1>4
    <2> QED
        BY <2>1, <2>2, AlikeIsSound
<1> QED
    BY <1>3, <1>4, <1>7

LEMMA KnownIs ==
    ASSUME NEW m, NEW X, Sound(m, X), NEW a \in DOMAIN m.mapAddr
    PROVE  m.mapAddr[a] \in DOMAIN m.mapInfo /\ Ip[m.mapInfo[m.mapAddr[a]].addr] = a
    BY DEF Sound, Found

\* An entry's references are counted one ahead of its buckets.
Ahead(m, id) == [m EXCEPT !.mapInfo[id].nRefCount = @ + 1]

LEMMA CountAhead ==
    ASSUME NEW m, Sound(m, {}), NEW id \in NewIds(m.mapInfo),
           NEW t, t = Ahead(m, id)
    PROVE  /\ Sound(t, {id}) /\ id \in NewIds(t.mapInfo)
           /\ t.vvNew = m.vvNew /\ t.vvTried = m.vvTried
           /\ t.mapInfo[id].nRefCount = m.mapInfo[id].nRefCount + 1
           /\ m.mapInfo[id].nRefCount \in 1 .. NewBucketsPerAddress
           /\ t.mapInfo[id].nRefCount = Cardinality(BucketsOf(m.vvNew, id)) + 1
<1> DEFINE info == m.mapInfo
           n == info[id].nRefCount
           k == n + 1
           more == [info EXCEPT ![id] = Recount(@, k)]
<1>1. IsMan(m) /\ id \in DOMAIN info /\ info \in [DOMAIN info -> Info]
    BY DEF Sound, Entries, NewIds
<1>2. n \in 1 .. NewBucketsPerAddress /\ n = Cardinality(BucketsOf(m.vvNew, id)) /\ k \in Nat
    <2>1. n \in 1 .. NewBucketsPerAddress /\ n = Cardinality(BucketsOf(m.vvNew, id))
        BY DEF Sound, Referenced
    <2> HIDE DEF n
    <2> QED
        BY <2>1
<1>3. t = [m EXCEPT !.mapInfo = more]
    BY <1>1 DEF IsMan, Recount, Ahead
<1> HIDE DEF more, k, n
<1>4. /\ t.mapInfo = more /\ IsMan(t) /\ t.nIdCount = m.nIdCount /\ t.mapAddr = m.mapAddr
      /\ t.vRandom = m.vRandom /\ t.nTried = m.nTried /\ t.nNew = m.nNew
      /\ t.vvTried = m.vvTried /\ t.vvNew = m.vvNew
    BY <1>1, <1>3 DEF IsMan
<1>5. t.mapInfo = [m.mapInfo EXCEPT ![id] = Recount(@, k)]
    BY <1>4 DEF more
<1>6. /\ Recounts(m, t) /\ t.mapInfo[id].nRefCount = k /\ NewIds(t.mapInfo) = NewIds(info)
      /\ \A i \in DOMAIN info \ {id} : t.mapInfo[i] = info[i]
    <2> DEFINE X == {}
    <2>1. Sound(m, X)
        OBVIOUS
    <2> HIDE DEF X
    <2> QED
        BY <1>2, <1>4, <1>5, <2>1, RecountOne
<1>7. Referenced(t.mapInfo, t.vvNew, {id})
    <2>1. ASSUME NEW i \in NewIds(t.mapInfo) \ {id}
          PROVE  /\ t.mapInfo[i].nRefCount \in 1 .. NewBucketsPerAddress
                 /\ t.mapInfo[i].nRefCount = Cardinality(BucketsOf(m.vvNew, i))
        <3>1. i \in NewIds(info) /\ i \in DOMAIN info /\ t.mapInfo[i] = info[i]
            BY <1>6, <2>1 DEF NewIds
        <3> QED
            BY <3>1 DEF Sound, Referenced
    <2>2. m.vvNew \in [NewBuckets -> SUBSET NewIds(t.mapInfo)]
        BY <1>6 DEF Sound, Referenced
    <2> QED
        BY <1>4, <2>1, <2>2 DEF Referenced
<1>8. Sound(t, {id})
    BY <1>6, <1>7, RecountsKeep
<1> QED
    BY <1>2, <1>4, <1>6, <1>8 DEF k, n

\* Add_ of a known address.
LEMMA AddKnownKeeps ==
    ASSUME AddrInv, NEW s \in Services, NEW source \in Sources, NEW nTime \in Nat,
           NEW penalty \in Nat, AddKnown(s, source, nTime, penalty)
    PROVE  AddrInv' /\ Stays(am.mapInfo, am'.mapInfo, {}) /\ am'.vvTried = am.vvTried
<1> DEFINE id == IdOf(s)
           entry == am.mapInfo[id]
           time == TimeAfterAdd(entry, nTime, penalty)
           info == Retime(entry, time)
           b == NewBucketOf[<<info.addr, source>>]
           t == [am EXCEPT !.mapInfo[id] = info]
           r == [t EXCEPT !.mapInfo[id].nRefCount = @ + 1]
<1>1. Knows(s) /\ now' = now
    BY DEF AddKnown
<1>2. \/ am' = t
      \/ /\ MayAddReference(info, nTime) /\ id \notin am.vvNew[b]
         /\ \E four \in Fours(am.vvNew[b]) \cup {{}} :
             /\ four = {} <=> Cardinality(am.vvNew[b]) < NewBucketSize
             /\ am' = [(IF four = {} THEN r ELSE ShrinkNew(r, b, four)) EXCEPT
                         !.vvNew[b] = @ \cup {id}]
    BY DEF AddKnown, Retime
<1>3. Sound(am, {}) /\ Fits(am.vvNew, am.vvTried) /\ now \in Nat \ {0}
    BY DEF AddrInv
<1>4. id \in DOMAIN am.mapInfo
    <2> DEFINE X == {}
    <2>1. Sound(am, X) /\ Ip[s] \in DOMAIN am.mapAddr
        BY <1>1, <1>3 DEF Knows
    <2> HIDE DEF X
    <2> QED
        BY <2>1, KnownIs DEF IdOf
<1>5. entry \in Info
    BY <1>3, <1>4 DEF Sound, Entries
<1>6. time \in Nat
    <2>1. entry.nTime \in Nat
        BY <1>5 DEF Info
    <2> HIDE DEF entry
    <2>2. (IF nTime > penalty THEN nTime - penalty ELSE 0) \in Nat
        OBVIOUS
    <2> QED
        BY <2>1, <2>2 DEF TimeAfterAdd
<1> HIDE DEF entry, time, id
<1>7. /\ info \in Info /\ info.addr = entry.addr /\ info.fInTried = entry.fInTried
      /\ info.nRefCount = entry.nRefCount /\ info.nRandomPos = entry.nRandomPos
      /\ info.nLastSuccess = entry.nLastSuccess
    BY <1>5, <1>6, RetimeIs
<1> HIDE DEF info
<1>8. /\ Sound(t, {}) /\ t.vvNew = am.vvNew /\ t.vvTried = am.vvTried
      /\ DOMAIN t.mapInfo = DOMAIN am.mapInfo /\ t.mapInfo[id] = info
    <2> DEFINE X == {}
    <2>1. Sound(am, X)
        BY <1>3
    <2> HIDE DEF X, t
    <2>2. /\ Sound(t, X) /\ t.vvNew = am.vvNew /\ t.vvTried = am.vvTried
          /\ DOMAIN t.mapInfo = DOMAIN am.mapInfo /\ t.mapInfo[id] = info
        BY <1>4, <1>7, <2>1, UpdateKeeps DEF t, entry
    <2> QED
        BY <2>2 DEF X
<1>9. Stays(am.mapInfo, t.mapInfo, {})
    <2>1. t.mapInfo = [am.mapInfo EXCEPT ![id] = info]
        BY <1>3 DEF Sound, IsMan
    <2> HIDE DEF t
    <2>2. Stays(am.mapInfo, [am.mapInfo EXCEPT ![id] = info], {})
        BY <1>4, <1>7, UpdateStays DEF entry
    <2> QED
        BY <2>1, <2>2
<1>10. CASE am' = t
    BY <1>1, <1>3, <1>8, <1>9, <1>10 DEF AddrInv
<1>11. ASSUME MayAddReference(info, nTime), id \notin am.vvNew[b],
              NEW four \in Fours(am.vvNew[b]) \cup {{}},
              four = {} <=> Cardinality(am.vvNew[b]) < NewBucketSize,
              am' = [(IF four = {} THEN r ELSE ShrinkNew(r, b, four)) EXCEPT
                       !.vvNew[b] = @ \cup {id}]
       PROVE  AddrInv' /\ Stays(am.mapInfo, am'.mapInfo, {}) /\ am'.vvTried = am.vvTried
    <2>1. id \in NewIds(t.mapInfo) /\ t.mapInfo[id].nRefCount # NewBucketsPerAddress
        BY <1>4, <1>8, <1>11 DEF MayAddReference, NewIds
    <2>2. b \in NewBuckets
        <3>1. <<info.addr, source>> \in Services \X Sources
            BY <1>7 DEF Info
        <3> QED
            BY <3>1, AddrAssumption DEF AddrAssumption
    <2>3. NewBucketsPerAddress \in Nat
        BY AddrAssumption DEF AddrAssumption
    <2> HIDE DEF t
    <2>4. /\ Sound(r, {id}) /\ id \in NewIds(r.mapInfo)
          /\ r.vvNew = t.vvNew /\ r.vvTried = t.vvTried
          /\ r.mapInfo[id].nRefCount = t.mapInfo[id].nRefCount + 1
          /\ t.mapInfo[id].nRefCount \in 1 .. NewBucketsPerAddress
          /\ r.mapInfo[id].nRefCount = Cardinality(BucketsOf(t.vvNew, id)) + 1
        BY <1>8, <2>1, CountAhead DEF Ahead
    <2> HIDE DEF r, b
    <2>5. r.mapInfo[id].nRefCount <= NewBucketsPerAddress
        BY <2>1, <2>3, <2>4
    <2>6. am' = Filled(r, b, id, four)
        BY <1>11 DEF Filled, Inserted
    <2>7. Fits(r.vvNew, r.vvTried) /\ four \in Fours(r.vvNew[b]) \cup {{}} /\ id \notin r.vvNew[b]
          /\ (four = {} <=> Cardinality(r.vvNew[b]) < NewBucketSize)
          /\ r.mapInfo[id].nRefCount = Cardinality(BucketsOf(r.vvNew, id)) + 1
        BY <1>3, <1>8, <1>11, <2>4
    <2>8. Sound(am', {}) /\ Fits(am'.vvNew, am'.vvTried)
        BY <2>2, <2>4, <2>5, <2>6, <2>7, FilledKeeps
    <2>9. r.mapInfo = [t.mapInfo EXCEPT ![id].nRefCount = @ + 1]
        BY <1>8 DEF Sound, IsMan, r
    <2>10. Stays(t.mapInfo, r.mapInfo, {})
        BY <2>9 DEF Stays, TriedIds
    <2>11. /\ Stays(r.mapInfo, Filled(r, b, id, four).mapInfo, {})
           /\ Filled(r, b, id, four).vvTried = r.vvTried
        BY <2>2, <2>4, <2>7, FilledStays
    <2>12. Stays(am.mapInfo, am'.mapInfo, {})
        BY <1>9, <2>6, <2>10, <2>11, StaysOn
    <2>13. am'.vvTried = am.vvTried
        BY <1>8, <2>4, <2>6, <2>11
    <2> QED
        BY <1>1, <1>3, <2>8, <2>12, <2>13 DEF AddrInv
<1> QED
    BY <1>2, <1>10, <1>11

-----------------------------------------------------------------------------
\* Updates of one entry

\* One step that updates the entry of a known address.
LEMMA UpdateStep ==
    ASSUME AddrInv, now' = now, NEW s \in Services, KnowsExactly(s), NEW r \in Info,
           r.addr = am.mapInfo[IdOf(s)].addr, r.fInTried = am.mapInfo[IdOf(s)].fInTried,
           r.nRefCount = am.mapInfo[IdOf(s)].nRefCount,
           r.nRandomPos = am.mapInfo[IdOf(s)].nRandomPos,
           am.mapInfo[IdOf(s)].nLastSuccess > 0 => r.nLastSuccess > 0,
           am' = [am EXCEPT !.mapInfo[IdOf(s)] = r]
    PROVE  AddrInv' /\ Stays(am.mapInfo, am'.mapInfo, {}) /\ am'.vvTried = am.vvTried
<1> DEFINE X == {}
           t == [am EXCEPT !.mapInfo[IdOf(s)] = r]
<1>1. Sound(am, X) /\ Fits(am.vvNew, am.vvTried) /\ now \in Nat \ {0}
    BY DEF AddrInv
<1>2. Ip[s] \in DOMAIN am.mapAddr
    BY DEF KnowsExactly, Knows
<1> HIDE DEF X
<1>3. IdOf(s) \in DOMAIN am.mapInfo
    BY <1>1, <1>2, KnownIs DEF IdOf
<1>4. Sound(t, X) /\ t.vvNew = am.vvNew /\ t.vvTried = am.vvTried
    BY <1>1, <1>3, UpdateKeeps
<1>5. am' = t
    OBVIOUS
<1>6. t.mapInfo = [am.mapInfo EXCEPT ![IdOf(s)] = r]
    BY <1>1 DEF Sound, IsMan
<1> HIDE DEF t
<1>7. Stays(am.mapInfo, [am.mapInfo EXCEPT ![IdOf(s)] = r], {})
    BY <1>3, UpdateStays
<1> QED
    BY <1>1, <1>4, <1>5, <1>6, <1>7 DEF AddrInv, X

LEMMA EntryIsInfo ==
    ASSUME AddrInv, NEW s \in Services, KnowsExactly(s)
    PROVE  am.mapInfo[IdOf(s)] \in Info /\ IdOf(s) \in DOMAIN am.mapInfo
           /\ am.mapInfo[IdOf(s)].addr = s
<1> DEFINE X == {}
<1>1. Sound(am, X) /\ Entries(am.mapInfo, am.nIdCount)
    BY DEF AddrInv, Sound
<1>2. Ip[s] \in DOMAIN am.mapAddr /\ am.mapInfo[IdOf(s)].addr = s
    BY DEF KnowsExactly, Knows, IdOf
<1> HIDE DEF X
<1>3. IdOf(s) \in DOMAIN am.mapInfo
    BY <1>1, <1>2, KnownIs DEF IdOf
<1> QED
    BY <1>1, <1>2, <1>3 DEF Entries

Retried(r, t, n) == [r EXCEPT !.nLastTry = t, !.nAttempts = n]

LEMMA RetriedIs ==
    ASSUME NEW r \in Info, NEW t \in Nat, NEW n \in Nat
    PROVE  /\ Retried(r, t, n) \in Info /\ Retried(r, t, n).nRefCount = r.nRefCount
           /\ Retried(r, t, n).addr = r.addr /\ Retried(r, t, n).fInTried = r.fInTried
           /\ Retried(r, t, n).nLastSuccess = r.nLastSuccess
           /\ Retried(r, t, n).nRandomPos = r.nRandomPos
    BY DEF Info, Retried

LEMMA AttemptKeeps ==
    ASSUME AddrInv, NEW s \in Services, Attempt(s)
    PROVE  AddrInv' /\ Stays(am.mapInfo, am'.mapInfo, {}) /\ am'.vvTried = am.vvTried
<1> DEFINE e == am.mapInfo[IdOf(s)]
           n == e.nAttempts + 1
           k == IF n > MaxFailures THEN MaxFailures ELSE n
           r == Retried(e, now, k)
<1>1. KnowsExactly(s) /\ now' = now /\ now \in Nat /\ e \in Info
    BY EntryIsInfo DEF Attempt, AddrInv
<1>2. am' = [am EXCEPT !.mapInfo[IdOf(s)] = r]
    BY DEF Attempt, Retried
<1>3. k \in Nat
    <2>1. e.nAttempts \in Nat /\ MaxFailures \in Nat
        BY <1>1, AddrAssumption DEF Info, AddrAssumption
    <2> HIDE DEF e
    <2> QED
        BY <2>1
<1> HIDE DEF e, k
<1>4. /\ r \in Info /\ r.nRefCount = e.nRefCount /\ r.addr = e.addr
      /\ r.fInTried = e.fInTried /\ r.nLastSuccess = e.nLastSuccess
      /\ r.nRandomPos = e.nRandomPos
    BY <1>1, <1>3, RetriedIs
<1> HIDE DEF r
<1> QED
    BY <1>1, <1>2, <1>4, UpdateStep DEF e

LEMMA ConnectedKeeps ==
    ASSUME AddrInv, NEW s \in Services, Connected(s)
    PROVE  AddrInv' /\ Stays(am.mapInfo, am'.mapInfo, {}) /\ am'.vvTried = am.vvTried
<1> DEFINE e == am.mapInfo[IdOf(s)]
           r == Retime(e, now)
<1>1. KnowsExactly(s) /\ now' = now /\ now \in Nat /\ e \in Info
    BY EntryIsInfo DEF Connected, AddrInv
<1>2. am' = [am EXCEPT !.mapInfo[IdOf(s)] = r]
    BY DEF Connected, Retime
<1> HIDE DEF e
<1>3. /\ r \in Info /\ r.nRefCount = e.nRefCount /\ r.addr = e.addr
      /\ r.fInTried = e.fInTried /\ r.nLastSuccess = e.nLastSuccess
      /\ r.nRandomPos = e.nRandomPos
    BY <1>1, RetimeIs
<1> HIDE DEF r
<1> QED
    BY <1>1, <1>2, <1>3, UpdateStep DEF e

LEMMA GetAddrKeeps ==
    ASSUME AddrInv, GetAddr
    PROVE  AddrInv' /\ Stays(am.mapInfo, am'.mapInfo, {}) /\ am'.vvTried = am.vvTried
<1> DEFINE X == {}
           L == Len(am.vRandom)
<1>1. Sound(am, X) /\ Fits(am.vvNew, am.vvTried) /\ now \in Nat \ {0} /\ L \in Nat /\ IsMan(am)
    BY DEF AddrInv, Sound, Ordered
<1>2. GetAddrPct * L \in Int
    BY <1>1, AddrAssumption DEF AddrAssumption
<1>3. \E n, p \in 1 .. L : am' = SwapRandom(am, n, p)
    <2> DEFINE x == GetAddrPct * L
    <2>1. PICK n \in 1 .. x \div 100 : \E p \in n .. L : am' = SwapRandom(am, n, p)
        BY DEF GetAddr
    <2>2. PICK p \in n .. L : am' = SwapRandom(am, n, p)
        BY <2>1
    <2>3. n \in 1 .. L /\ p \in 1 .. L
        <3>1. x \in Int
            BY <1>2
        <3> HIDE DEF x, L
        <3>2. x \div 100 \in Int
            BY <3>1
        <3> QED
            BY <1>1, <3>2
    <2> QED
        BY <2>2, <2>3
<1>4. PICK n \in 1 .. L, p \in 1 .. L : am' = SwapRandom(am, n, p)
    BY <1>3
<1> HIDE DEF X
<1>5. /\ Sound(am', X) /\ am'.vvNew = am.vvNew /\ am'.vvTried = am.vvTried
      /\ Alike(am.mapInfo, am'.mapInfo)
    <2> DEFINE t == SwapRandom(am, n, p)
    <2>1. /\ Sound(t, X) /\ t.vvNew = am.vvNew /\ t.vvTried = am.vvTried
          /\ Alike(am.mapInfo, t.mapInfo)
        BY <1>1, SwapKeeps DEF Reordered
    <2>2. am' = t
        BY <1>4
    <2> HIDE DEF t
    <2> QED
        BY <2>1, <2>2
<1>6. now' = now
    BY DEF GetAddr
<1>7. Stays(am.mapInfo, am'.mapInfo, {})
    BY <1>5 DEF Alike, Stays, TriedIds
<1> QED
    BY <1>1, <1>5, <1>6, <1>7 DEF AddrInv, X

-----------------------------------------------------------------------------
\* From the new table to the tried table

\* The entries keep their addresses and their places in vRandom.
Reflagged(m, t) ==
    /\ IsMan(t) /\ t.nIdCount = m.nIdCount /\ t.mapAddr = m.mapAddr /\ t.vRandom = m.vRandom
    /\ t.mapInfo \in [DOMAIN m.mapInfo -> Info]
    /\ \A i \in DOMAIN m.mapInfo : /\ t.mapInfo[i].addr = m.mapInfo[i].addr
                                   /\ t.mapInfo[i].nRandomPos = m.mapInfo[i].nRandomPos

LEMMA ReflagKeeps ==
    ASSUME NEW m, NEW X, NEW Y, Sound(m, X), NEW t, Reflagged(m, t),
           Flagged(t.mapInfo), Counted(t.mapInfo, t.vRandom, t.nNew, t.nTried),
           Referenced(t.mapInfo, t.vvNew, Y), Placed(t.mapInfo, t.vvTried)
    PROVE  Sound(t, Y)
<1> DEFINE info == m.mapInfo
           new == t.mapInfo
           D == DOMAIN info
<1>1. /\ new \in [D -> Info] /\ DOMAIN new = D
      /\ \A i \in D : /\ new[i].addr = info[i].addr
                      /\ new[i].nRandomPos = info[i].nRandomPos
      /\ IsMan(t) /\ t.nIdCount = m.nIdCount /\ t.mapAddr = m.mapAddr /\ t.vRandom = m.vRandom
    BY DEF Reflagged
<1>2. Entries(info, m.nIdCount) /\ Found(info, m.mapAddr) /\ Ordered(info, m.vRandom)
    BY DEF Sound
<1> HIDE DEF info, new
<1>3. Entries(new, m.nIdCount)
    BY <1>1, <1>2 DEF Entries
<1>4. Found(new, m.mapAddr)
    <2>1. {Ip[new[i].addr] : i \in DOMAIN new} = {Ip[info[i].addr] : i \in D}
        BY <1>1
    <2> QED
        BY <1>1, <1>2, <2>1 DEF Found
<1>5. Ordered(new, m.vRandom)
    <2>1. /\ m.vRandom \in Seq(D) /\ \A k \in 1 .. Len(m.vRandom) : m.vRandom[k] \in D
        BY <1>2 DEF Ordered
    <2> QED
        BY <1>1, <1>2, <2>1 DEF Ordered
<1> QED
    BY <1>1, <1>3, <1>4, <1>5 DEF Sound, new

\* An entry as MakeTried leaves it.
Settled(e, r) ==
    /\ r \in Info /\ r.addr = e.addr /\ r.nRandomPos = e.nRandomPos
    /\ r.fInTried /\ r.nLastSuccess > 0 /\ r.nRefCount = 0

\* New ids and references when id leaves all new buckets for the tried table.
Left(vvNew, id) == [c \in NewBuckets |-> vvNew[c] \ {id}]

\* The tried bucket b of m has room: id, whose entry will be r, goes to its end.
Pushed(m, id, b, r, t) ==
    /\ Settled(m.mapInfo[id], r) /\ IsMan(t) /\ t.nIdCount = m.nIdCount
    /\ t.mapAddr = m.mapAddr /\ t.vRandom = m.vRandom
    /\ t.nTried = m.nTried + 1 /\ t.nNew = m.nNew - 1
    /\ t.mapInfo = [m.mapInfo EXCEPT ![id] = r] /\ t.vvNew = Left(m.vvNew, id)
    /\ t.vvTried = [m.vvTried EXCEPT ![b] = Append(@, id)]

LEMMA PushKeeps ==
    ASSUME NEW m, NEW id \in NewIds(m.mapInfo), Sound(m, {id}), NEW b \in TriedBuckets,
           NEW r, NEW t, Pushed(m, id, b, r, t)
    PROVE  Sound(t, {})
<1> USE DEF Pushed
<1> DEFINE info == m.mapInfo
           new == t.mapInfo
           D == DOMAIN info
           T == TriedIds(info)
           vv == m.vvTried
<1>1. /\ info \in [D -> Info] /\ id \in D /\ Flagged(info)
      /\ Counted(info, m.vRandom, m.nNew, m.nTried) /\ Referenced(info, m.vvNew, {id})
      /\ Placed(info, vv) /\ Entries(info, m.nIdCount)
    BY DEF Sound, Entries, NewIds
<1>2. /\ r \in Info /\ r.addr = info[id].addr /\ r.nRandomPos = info[id].nRandomPos
      /\ r.fInTried /\ r.nLastSuccess > 0 /\ r.nRefCount = 0
    BY DEF Settled
<1>3. /\ new \in [D -> Info] /\ DOMAIN new = D /\ new[id] = r
      /\ \A i \in D \ {id} : new[i] = info[i]
    BY <1>1, <1>2
<1> HIDE DEF new, info, vv
<1>4. NewIds(new) = NewIds(info) \ {id} /\ TriedIds(new) = T \cup {id} /\ id \notin T
      /\ id \in NewIds(info)
    BY <1>1, <1>2, <1>3 DEF NewIds, TriedIds, info
<1>5. Reflagged(m, t)
    <2>1. \A i \in D : new[i].addr = info[i].addr /\ new[i].nRandomPos = info[i].nRandomPos
        BY <1>2, <1>3
    <2> QED
        BY <1>3, <2>1 DEF Reflagged, new, info
<1>6. Flagged(new)
    <2> SUFFICES ASSUME NEW i \in TriedIds(new)
                 PROVE  new[i].nLastSuccess > 0 /\ new[i].nRefCount = 0
        BY DEF Flagged
    <2>1. CASE i = id
        BY <1>2, <1>3, <2>1
    <2>2. CASE i # id
        <3>1. i \in T /\ i \in D /\ new[i] = info[i]
            BY <1>3, <1>4, <2>2 DEF TriedIds
        <3> QED
            BY <1>1, <3>1 DEF Flagged
    <2> QED
        BY <2>1, <2>2
<1>7. Counted(new, t.vRandom, t.nNew, t.nTried)
    <2>1. /\ m.nNew = Cardinality(NewIds(info)) /\ m.nTried = Cardinality(T)
          /\ Len(m.vRandom) = m.nTried + m.nNew
        BY <1>1 DEF Counted
    <2>2. /\ IsFiniteSet(NewIds(info)) /\ m.nNew \in Nat /\ IsFiniteSet(T) /\ m.nTried \in Nat
        <3>1. NewIds(info) \subseteq D /\ T \subseteq D
            BY DEF NewIds, TriedIds
        <3> QED
            BY <1>1, <2>1, <3>1, IdsFinite
    <2> HIDE DEF T
    <2>3. Cardinality(NewIds(new)) = m.nNew - 1
        BY <1>4, <2>1, <2>2, FS_RemoveElement
    <2>4. Cardinality(TriedIds(new)) = m.nTried + 1
        BY <1>4, <2>1, <2>2, FS_AddElement
    <2>5. Len(m.vRandom) = (m.nTried + 1) + (m.nNew - 1)
        BY <2>1, <2>2
    <2> QED
        BY <2>3, <2>4, <2>5 DEF Counted
<1>8. Referenced(new, t.vvNew, {})
    <2>1. /\ m.vvNew \in [NewBuckets -> SUBSET NewIds(info)]
          /\ \A i \in NewIds(info) \ {id} :
                /\ info[i].nRefCount \in 1 .. NewBucketsPerAddress
                /\ info[i].nRefCount = Cardinality(BucketsOf(m.vvNew, i))
        BY <1>1 DEF Referenced
    <2>2. \A c \in NewBuckets : t.vvNew[c] = m.vvNew[c] \ {id}
        BY DEF Left
    <2>3. t.vvNew \in [NewBuckets -> SUBSET NewIds(new)]
        BY <1>4, <2>1 DEF Left
    <2>4. ASSUME NEW i \in NewIds(new)
          PROVE  /\ new[i].nRefCount \in 1 .. NewBucketsPerAddress
                 /\ new[i].nRefCount = Cardinality(BucketsOf(t.vvNew, i))
        <3>1. i # id /\ i \in NewIds(info) /\ i \in D
            BY <1>3, <1>4 DEF NewIds
        <3>2. BucketsOf(t.vvNew, i) = BucketsOf(m.vvNew, i)
            BY <2>2, <3>1 DEF BucketsOf
        <3> QED
            BY <1>3, <2>1, <3>1, <3>2
    <2> QED
        BY <2>3, <2>4 DEF Referenced
<1>9. Placed(new, t.vvTried)
    <2> DEFINE v == vv[b]
               w == Append(v, id)
               ww == t.vvTried
               U == T \cup {id}
    <2>1. /\ vv \in [TriedBuckets -> Seq(T)]
          /\ \A i \in T : \E c \in TriedBuckets : \E p \in 1 .. Len(vv[c]) : vv[c][p] = i
          /\ \A c, d \in TriedBuckets :
                \A p \in 1 .. Len(vv[c]), q \in 1 .. Len(vv[d]) :
                    vv[c][p] = vv[d][q] => c = d /\ p = q
        BY <1>1 DEF Placed
    <2>2. v \in Seq(T) /\ Len(v) \in Nat
        BY <2>1
    <2>3. w \in Seq(U) /\ Len(w) = Len(v) + 1 /\ w[Len(v) + 1] = id
          /\ \A p \in 1 .. Len(v) : w[p] = v[p]
        <3>1. v \in Seq(U) /\ id \in U
            BY <2>2
        <3> HIDE DEF v, U
        <3> QED
            BY <3>1
    <2>4. /\ \A c \in TriedBuckets : ww[c] = IF c = b THEN w ELSE vv[c]
          /\ DOMAIN ww = TriedBuckets
        BY <2>1 DEF vv
    <2>5. ww \in [TriedBuckets -> Seq(U)]
        <3>1. \A c \in TriedBuckets : ww[c] \in Seq(U)
            <4>1. \A c \in TriedBuckets : vv[c] \in Seq(U)
                BY <2>1
            <4> HIDE DEF ww, w, U
            <4> QED
                BY <2>3, <2>4, <4>1
        <3>2. ww = [c \in TriedBuckets |-> ww[c]]
            BY <2>1 DEF vv
        <3> HIDE DEF ww, U
        <3> QED
            BY <3>1, <3>2
    <2> HIDE DEF ww, w
    <2>6. ASSUME NEW c \in TriedBuckets, NEW p \in 1 .. Len(ww[c])
          PROVE  \/ c = b /\ p = Len(v) + 1 /\ ww[c][p] = id
                 \/ p \in 1 .. Len(vv[c]) /\ ww[c][p] = vv[c][p] /\ ww[c][p] # id
        <3>0. \A x \in 1 .. Len(vv[c]) : vv[c][x] \in T
            BY <2>1
        <3>1. CASE c = b /\ p = Len(v) + 1
            BY <2>3, <2>4, <3>1
        <3>2. CASE c = b /\ p # Len(v) + 1
            <4>1. p \in 1 .. Len(v)
                BY <2>2, <2>3, <2>4, <3>2
            <4> QED
                BY <1>4, <2>3, <2>4, <3>0, <3>2, <4>1
        <3>3. CASE c # b
            BY <1>4, <2>4, <3>0, <3>3
        <3> QED
            BY <3>1, <3>2, <3>3
    <2>7. ASSUME NEW i \in U
          PROVE  \E c \in TriedBuckets : \E p \in 1 .. Len(ww[c]) : ww[c][p] = i
        <3>1. CASE i = id
            <4>1. Len(v) + 1 \in 1 .. Len(ww[b]) /\ ww[b][Len(v) + 1] = id
                BY <2>2, <2>3, <2>4
            <4> QED
                BY <3>1, <4>1
        <3>2. CASE i \in T
            <4>1. PICK c \in TriedBuckets : \E p \in 1 .. Len(vv[c]) : vv[c][p] = i
                BY <2>1, <3>2
            <4>2. PICK p \in 1 .. Len(vv[c]) : vv[c][p] = i
                BY <4>1
            <4>3. p \in 1 .. Len(ww[c]) /\ ww[c][p] = vv[c][p]
                BY <2>2, <2>3, <2>4
            <4> QED
                BY <4>2, <4>3
        <3> QED
            BY <3>1, <3>2
    <2>8. ASSUME NEW c \in TriedBuckets, NEW d \in TriedBuckets,
                 NEW p \in 1 .. Len(ww[c]), NEW q \in 1 .. Len(ww[d]), ww[c][p] = ww[d][q]
          PROVE  c = d /\ p = q
        <3>1. \/ c = b /\ p = Len(v) + 1 /\ ww[c][p] = id
              \/ p \in 1 .. Len(vv[c]) /\ ww[c][p] = vv[c][p] /\ ww[c][p] # id
            BY <2>6
        <3>2. \/ d = b /\ q = Len(v) + 1 /\ ww[d][q] = id
              \/ q \in 1 .. Len(vv[d]) /\ ww[d][q] = vv[d][q] /\ ww[d][q] # id
            BY <2>6
        <3>3. CASE ww[c][p] = id
            BY <2>8, <3>1, <3>2, <3>3
        <3>4. CASE ww[c][p] # id
            <4>1. p \in 1 .. Len(vv[c]) /\ q \in 1 .. Len(vv[d]) /\ vv[c][p] = vv[d][q]
                BY <2>8, <3>1, <3>2, <3>4
            <4>2. \A x \in 1 .. Len(vv[c]), y \in 1 .. Len(vv[d]) :
                    vv[c][x] = vv[d][y] => c = d /\ x = y
                BY <2>1
            <4> QED
                BY <4>1, <4>2
        <3> QED
            BY <3>3, <3>4
    <2> QED
        BY <1>4, <2>5, <2>7, <2>8 DEF Placed, ww
<1> QED
    BY <1>5, <1>6, <1>7, <1>8, <1>9, ReflagKeeps DEF new

-----------------------------------------------------------------------------
\* SelectTried

\* The states of SelectTried's loop.
Turns(g, n, m, draw, vTried) ==
    /\ DOMAIN g = 0 .. n /\ g[0] = [vTried |-> vTried, oldest |-> -1, pos |-> 0]
    /\ \A i \in 1 .. n : g[i] = Inspect(m, draw, g[i - 1], i)

LEMMA SelectTriedIs ==
    ASSUME NEW m, NEW vTried, NEW draw, Len(draw) \in Nat
    PROVE  \E g : Turns(g, Len(draw), m, draw, vTried) /\ SelectTried(m, vTried, draw) = g[Len(draw)]
<1> DEFINE n == Len(draw)
           start == [vTried |-> vTried, oldest |-> -1, pos |-> 0]
           Loop(g, k) == /\ DOMAIN g = 0 .. n /\ g[0] = start
                         /\ \A i \in 1 .. k : g[i] = Inspect(m, draw, g[i - 1], i)
           Body(g) == g = [i \in 0 .. n |-> IF i = 0 THEN start
                                            ELSE Inspect(m, draw, g[i - 1], i)]
           turn == CHOOSE g : Body(g)
           T == {k \in 0 .. n : \E g : Loop(g, k)}
<1>1. SelectTried(m, vTried, draw) = turn[n] /\ n \in Nat
    BY DEF SelectTried
<1> HIDE DEF n, start
<1>2. 0 \in T
    <2> DEFINE g == [i \in 0 .. n |-> start]
    <2>1. Loop(g, 0) /\ 0 \in 0 .. n
        BY <1>1
    <2> HIDE DEF g, Loop
    <2> QED
        BY <2>1
<1>3. ASSUME NEW k \in 0 .. n, k \in T, k < n PROVE k + 1 \in T
    <2>1. PICK g : Loop(g, k)
        BY <1>3
    <2> DEFINE s == Inspect(m, draw, g[k], k + 1)
               h == [i \in 0 .. n |-> IF i = k + 1 THEN s ELSE g[i]]
    <2>2. k \in Nat /\ k + 1 \in 0 .. n /\ 0 \in 0 .. n /\ 0 # k + 1 /\ k < n
        BY <1>1, <1>3
    <2> HIDE DEF s
    <2>3. h[0] = start
        BY <2>1, <2>2
    <2>4. ASSUME NEW i \in 1 .. k + 1 PROVE h[i] = Inspect(m, draw, h[i - 1], i)
        <3>1. i \in 0 .. n /\ i - 1 \in 0 .. n /\ i - 1 # k + 1
            BY <1>1, <2>2
        <3>2. h[i - 1] = g[i - 1]
            BY <3>1
        <3>3. CASE i = k + 1
            <4>1. h[i] = s /\ i - 1 = k
                BY <2>2, <3>1, <3>3
            <4> HIDE DEF h
            <4> QED
                BY <3>2, <3>3, <4>1 DEF s
        <3>4. CASE i # k + 1
            <4>1. i \in 1 .. k
                BY <2>2, <3>4
            <4>2. h[i] = g[i]
                BY <3>1, <3>4
            <4> HIDE DEF h
            <4> QED
                BY <2>1, <3>2, <4>1, <4>2
        <3> QED
            BY <3>3, <3>4
    <2>5. Loop(h, k + 1)
        BY <2>3, <2>4
    <2> HIDE DEF h, Loop
    <2> QED
        BY <2>2, <2>5
<1>4. \E g : Body(g)
    <2>1. n \in T
        <3> HIDE DEF T
        <3>1. 0 .. n \subseteq T
            BY <1>1, <1>2, <1>3, InductionTo
        <3> QED
            BY <1>1, <3>1
    <2>2. PICK g : Loop(g, n)
        BY <2>1
    <2> DEFINE h == [i \in 0 .. n |-> g[i]]
    <2>3. ASSUME NEW i \in 0 .. n
          PROVE  h[i] = IF i = 0 THEN start ELSE Inspect(m, draw, h[i - 1], i)
        <3>1. i # 0 => i \in 1 .. n /\ i - 1 \in 0 .. n
            BY <1>1
        <3> QED
            BY <2>2, <3>1
    <2>4. Body(h)
        BY <2>3
    <2> HIDE DEF h, Body
    <2> QED
        BY <2>4
<1>5. Body(turn)
    <2> HIDE DEF Body
    <2> QED
        BY <1>4
<1> HIDE DEF turn
<1>6. Loop(turn, n)
    <2>1. \A i \in 1 .. n : i # 0 /\ i \in 0 .. n
        BY <1>1
    <2> QED
        BY <1>1, <1>5, <2>1
<1>7. Turns(turn, n, m, draw, vTried)
    BY <1>6 DEF Turns, start
<1> QED
    BY <1>1, <1>7 DEF n

With(vv, b, w) == [vv EXCEPT ![b] = w]

\* Two entries of a bucket change places.
LEMMA SwapPlaced ==
    ASSUME NEW info, NEW vv, Placed(info, vv), NEW b \in TriedBuckets,
           NEW p \in 1 .. Len(vv[b]), NEW q \in 1 .. Len(vv[b])
    PROVE  Placed(info, With(vv, b, Swapped(vv[b], p, q)))
<1> DEFINE T == TriedIds(info)
           v == vv[b]
           w == Swapped(v, p, q)
           ww == With(vv, b, w)
           n == Len(v)
<1>1. /\ vv \in [TriedBuckets -> Seq(T)]
      /\ \A i \in T : \E c \in TriedBuckets : \E x \in 1 .. Len(vv[c]) : vv[c][x] = i
      /\ \A c, d \in TriedBuckets :
            \A x \in 1 .. Len(vv[c]), y \in 1 .. Len(vv[d]) :
                vv[c][x] = vv[d][y] => c = d /\ x = y
    BY DEF Placed
<1>2. v \in Seq(T) /\ n \in Nat /\ p \in 1 .. n /\ q \in 1 .. n
    BY <1>1
<1> HIDE DEF T, v, w
<1>3. w \in Seq(T) /\ Len(w) = n /\ \A k \in 1 .. n :
        w[k] = IF k = q THEN v[p] ELSE IF k = p THEN v[q] ELSE v[k]
    BY <1>2, SwapSeq DEF w
<1>4. ww \in [TriedBuckets -> Seq(T)] /\ \A c \in TriedBuckets : ww[c] = IF c = b THEN w ELSE vv[c]
    BY <1>1, <1>3 DEF With
<1> HIDE DEF ww
<1> DEFINE at(c, k) == IF c # b THEN k ELSE IF k = q THEN p ELSE IF k = p THEN q ELSE k
<1>5. ASSUME NEW c \in TriedBuckets
      PROVE  Len(ww[c]) = Len(vv[c]) /\ \A k \in 1 .. Len(vv[c]) :
                at(c, k) \in 1 .. Len(vv[c]) /\ at(c, at(c, k)) = k
                /\ ww[c][k] = vv[c][at(c, k)]
    <2>1. CASE c = b
        BY <1>2, <1>3, <1>4, <2>1 DEF v
    <2>2. CASE c # b
        BY <1>4, <2>2
    <2> QED
        BY <2>1, <2>2
<1> HIDE DEF at
<1>6. ASSUME NEW i \in T
      PROVE  \E c \in TriedBuckets : \E k \in 1 .. Len(ww[c]) : ww[c][k] = i
    <2>1. PICK c \in TriedBuckets : \E x \in 1 .. Len(vv[c]) : vv[c][x] = i
        BY <1>1
    <2>2. PICK x \in 1 .. Len(vv[c]) : vv[c][x] = i
        BY <2>1
    <2>3. at(c, x) \in 1 .. Len(ww[c]) /\ ww[c][at(c, x)] = i
        BY <1>5, <2>2
    <2> QED
        BY <2>3
<1>7. ASSUME NEW c \in TriedBuckets, NEW d \in TriedBuckets,
             NEW x \in 1 .. Len(ww[c]), NEW y \in 1 .. Len(ww[d]), ww[c][x] = ww[d][y]
      PROVE  c = d /\ x = y
    <2>1. /\ at(c, x) \in 1 .. Len(vv[c]) /\ at(c, at(c, x)) = x /\ ww[c][x] = vv[c][at(c, x)]
          /\ at(d, y) \in 1 .. Len(vv[d]) /\ at(d, at(d, y)) = y /\ ww[d][y] = vv[d][at(d, y)]
        BY <1>5
    <2>2. \A i \in 1 .. Len(vv[c]), j \in 1 .. Len(vv[d]) :
            vv[c][i] = vv[d][j] => c = d /\ i = j
        BY <1>1
    <2>3. vv[c][at(c, x)] = vv[d][at(d, y)]
        BY <1>7, <2>1
    <2>4. c = d /\ at(c, x) = at(d, y)
        BY <2>1, <2>2, <2>3
    <2> QED
        BY <2>1, <2>4
<1> QED
    BY <1>4, <1>6, <1>7 DEF Placed, T, ww, w, v

\* The shuffled bucket has the same entries, and the position returned is one of it.
LEMMA SelectTriedKeeps ==
    ASSUME NEW m, NEW info, NEW vv, Placed(info, vv), NEW b \in TriedBuckets, Len(vv[b]) # 0,
           NEW draw \in Draws(vv[b])
    PROVE  /\ Placed(info, With(vv, b, SelectTried(m, vv[b], draw).vTried))
           /\ Len(SelectTried(m, vv[b], draw).vTried) = Len(vv[b])
           /\ SelectTried(m, vv[b], draw).pos \in 1 .. Len(vv[b])
<1> DEFINE v == vv[b]
           L == Len(v)
           n == Len(draw)
           sel == SelectTried(m, v, draw)
<1>1. v \in Seq(TriedIds(info)) /\ L \in Nat /\ vv \in [TriedBuckets -> Seq(TriedIds(info))]
    BY DEF Placed
<1>2. n \in Nat /\ n >= 1 /\ n <= L /\ \A i \in 1 .. n : draw[i] \in 1 .. L
    <2> DEFINE k == IF L < TriedInspect THEN L ELSE TriedInspect
    <2>1. draw \in [1 .. k -> 1 .. L]
        BY DEF Draws
    <2>2. k \in Nat /\ k >= 1 /\ k <= L
        BY <1>1, AddrAssumption DEF AddrAssumption
    <2> HIDE DEF k, L
    <2>3. Len(draw) = k
        <3> DEFINE R == 1 .. L
        <3>1. draw \in [1 .. k -> R] /\ k \in Nat
            BY <2>1, <2>2
        <3> HIDE DEF R
        <3> QED
            BY <3>1
    <2> QED
        BY <2>1, <2>2, <2>3
<1> HIDE DEF sel, n
<1>3. PICK g : Turns(g, n, m, draw, v) /\ sel = g[n]
    BY <1>2, SelectTriedIs DEF sel, n
<1>4. /\ DOMAIN g = 0 .. n /\ g[0] = [vTried |-> v, oldest |-> -1, pos |-> 0]
      /\ \A i \in 1 .. n : g[i] = Inspect(m, draw, g[i - 1], i)
    BY <1>3 DEF Turns
<1> DEFINE Good1(s, i) == /\ Placed(info, With(vv, b, s.vTried)) /\ Len(s.vTried) = L
                          /\ i # 0 => s.pos \in 1 .. L
           T == {i \in 0 .. n : Good1(g[i], i)}
<1>5. 0 \in T
    <2>1. With(vv, b, v) = vv
        BY <1>1 DEF With
    <2> QED
        BY <1>2, <1>4, <2>1
<1>6. ASSUME NEW k \in 0 .. n, k \in T, k < n PROVE k + 1 \in T
    <2> DEFINE s == g[k]
               i == k + 1
               w == s.vTried
               p == draw[i]
               W == With(vv, b, w)
               t == g[i]
    <2>1. i \in 1 .. n /\ i - 1 = k /\ i \in 1 .. L /\ i # 0 /\ p \in 1 .. L
        BY <1>1, <1>2, <1>6
    <2>2. Placed(info, W) /\ Len(w) = L /\ (k # 0 => s.pos \in 1 .. L)
        BY <1>6
    <2>3. t = Inspect(m, draw, s, i)
        BY <1>4, <2>1
    <2> HIDE DEF s, i, t
    <2>4. t.vTried = Swapped(w, p, i)
        BY <2>3 DEF Inspect, Swapped
    <2>5. t.pos = p \/ (i # 1 /\ t.pos = s.pos)
        BY <2>3 DEF Inspect
    <2>6. t.pos \in 1 .. L
        BY <1>6, <2>1, <2>2, <2>5 DEF i
    <2> HIDE DEF p, w
    <2>7. W[b] = w /\ With(W, b, t.vTried) = With(vv, b, t.vTried)
        BY <1>1 DEF With
    <2>8. w \in Seq(TriedIds(info))
        BY <2>2, <2>7 DEF Placed
    <2> HIDE DEF W, L
    <2>9. Placed(info, With(W, b, t.vTried))
        <3>1. p \in 1 .. Len(W[b]) /\ i \in 1 .. Len(W[b])
            BY <2>1, <2>2, <2>7
        <3> QED
            BY <2>2, <2>4, <2>7, <3>1, SwapPlaced
    <2>10. Len(t.vTried) = L
        BY <2>1, <2>2, <2>4, <2>8, SwapSeq
    <2>11. Good1(t, i)
        BY <2>6, <2>7, <2>9, <2>10
    <2> HIDE DEF Good1
    <2> QED
        BY <2>1, <2>11 DEF t, i
<1>7. Good1(sel, n)
    <2>1. 0 .. n \subseteq T
        <3> HIDE DEF T
        <3> QED
            BY <1>2, <1>5, <1>6, InductionTo
    <2>2. n \in 0 .. n
        BY <1>2
    <2> HIDE DEF Good1
    <2> QED
        BY <1>3, <2>1, <2>2
<1>8. n # 0
    BY <1>2
<1> QED
    BY <1>7, <1>8 DEF sel

\* In place of the entry at position pos of bucket b comes the entry id.
LEMMA ExchangePlaced ==
    ASSUME NEW info, NEW vv, Placed(info, vv), NEW b \in TriedBuckets,
           NEW pos \in 1 .. Len(vv[b]), NEW id, id \notin TriedIds(info),
           NEW new, TriedIds(new) = (TriedIds(info) \ {vv[b][pos]}) \cup {id}
    PROVE  Placed(new, With(vv, b, [vv[b] EXCEPT ![pos] = id]))
<1> DEFINE T == TriedIds(info)
           U == TriedIds(new)
           v == vv[b]
           old == v[pos]
           w == [v EXCEPT ![pos] = id]
           ww == With(vv, b, w)
           n == Len(v)
<1>1. /\ vv \in [TriedBuckets -> Seq(T)]
      /\ \A i \in T : \E c \in TriedBuckets : \E x \in 1 .. Len(vv[c]) : vv[c][x] = i
      /\ \A c, d \in TriedBuckets :
            \A x \in 1 .. Len(vv[c]), y \in 1 .. Len(vv[d]) :
                vv[c][x] = vv[d][y] => c = d /\ x = y
    BY DEF Placed
<1>2. v \in Seq(T) /\ n \in Nat /\ pos \in 1 .. n
    BY <1>1
<1>3. id \notin T /\ U = (T \ {old}) \cup {id}
    OBVIOUS
<1> HIDE DEF T, U, v
<1>4. \A c \in TriedBuckets : \A x \in 1 .. Len(vv[c]) :
        vv[c][x] \in T /\ (vv[c][x] = old => c = b /\ x = pos)
    <2> SUFFICES ASSUME NEW c \in TriedBuckets, NEW x \in 1 .. Len(vv[c])
                 PROVE  vv[c][x] \in T /\ (vv[c][x] = old => c = b /\ x = pos)
        OBVIOUS
    <2>1. vv[c] \in Seq(T) /\ vv[c][x] \in T
        BY <1>1
    <2>2. \A y \in 1 .. n : vv[c][x] = v[y] => c = b /\ x = y
        BY <1>1 DEF v
    <2> QED
        BY <1>2, <2>1, <2>2
<1>5. Len(w) = n /\ \A k \in 1 .. n : w[k] = IF k = pos THEN id ELSE v[k]
    BY <1>2
<1>6. w \in Seq(U)
    <2>1. \A k \in 1 .. n : w[k] \in U
        <3> SUFFICES ASSUME NEW k \in 1 .. n PROVE w[k] \in U
            OBVIOUS
        <3>1. k # pos => v[k] \in T /\ v[k] # old
            BY <1>4 DEF v
        <3> QED
            BY <1>3, <1>5, <3>1
    <2>2. w = [k \in 1 .. n |-> w[k]]
        BY <1>2
    <2> HIDE DEF w, n
    <2> QED
        BY <1>2, <2>1, <2>2
<1> HIDE DEF w
<1>7. ww \in [TriedBuckets -> Seq(U)] /\ \A c \in TriedBuckets : ww[c] = IF c = b THEN w ELSE vv[c]
    <2>1. DOMAIN ww = TriedBuckets /\ \A c \in TriedBuckets : ww[c] = IF c = b THEN w ELSE vv[c]
        BY <1>1 DEF With
    <2>2. ww = [c \in TriedBuckets |-> ww[c]]
        BY <1>1 DEF With
    <2> HIDE DEF ww
    <2>3. ASSUME NEW c \in TriedBuckets PROVE ww[c] \in Seq(U)
        <3>1. CASE c = b
            BY <1>6, <2>1, <3>1
        <3>2. CASE c # b
            <4> DEFINE u == vv[c]
            <4>1. u \in Seq(T) /\ \A x \in 1 .. Len(u) : u[x] \in U
                BY <1>1, <1>3, <1>4, <3>2
            <4>2. ww[c] = u
                BY <2>1, <3>2
            <4> HIDE DEF u
            <4>3. u \in Seq(U)
                BY <4>1
            <4> QED
                BY <4>2, <4>3
        <3> QED
            BY <3>1, <3>2
    <2> QED
        BY <2>1, <2>2, <2>3
<1> HIDE DEF ww
<1>8. ASSUME NEW c \in TriedBuckets
      PROVE  Len(ww[c]) = Len(vv[c]) /\ \A x \in 1 .. Len(vv[c]) :
                \/ c = b /\ x = pos /\ ww[c][x] = id
                \/ ~(c = b /\ x = pos) /\ ww[c][x] = vv[c][x] /\ ww[c][x] # id
    <2>1. CASE c = b
        BY <1>3, <1>4, <1>5, <1>7, <2>1 DEF v
    <2>2. CASE c # b
        BY <1>3, <1>4, <1>7, <2>2
    <2> QED
        BY <2>1, <2>2
<1>9. ASSUME NEW i \in U
      PROVE  \E c \in TriedBuckets : \E k \in 1 .. Len(ww[c]) : ww[c][k] = i
    <2>1. CASE i = id
        BY <1>2, <1>5, <1>7, <2>1
    <2>2. CASE i \in T /\ i # old
        <3>1. PICK c \in TriedBuckets : \E x \in 1 .. Len(vv[c]) : vv[c][x] = i
            BY <1>1, <2>2
        <3>2. PICK x \in 1 .. Len(vv[c]) : vv[c][x] = i
            BY <3>1
        <3>3. ~(c = b /\ x = pos)
            BY <2>2, <3>2 DEF v
        <3>4. x \in 1 .. Len(ww[c]) /\ ww[c][x] = i
            BY <1>8, <3>2, <3>3
        <3> QED
            BY <3>4
    <2> QED
        BY <1>3, <2>1, <2>2
<1>10. ASSUME NEW c \in TriedBuckets, NEW d \in TriedBuckets,
              NEW x \in 1 .. Len(ww[c]), NEW y \in 1 .. Len(ww[d]), ww[c][x] = ww[d][y]
       PROVE  c = d /\ x = y
    <2>1. /\ x \in 1 .. Len(vv[c])
          /\ \/ c = b /\ x = pos /\ ww[c][x] = id
             \/ ~(c = b /\ x = pos) /\ ww[c][x] = vv[c][x] /\ ww[c][x] # id
        BY <1>8
    <2>2. /\ y \in 1 .. Len(vv[d])
          /\ \/ d = b /\ y = pos /\ ww[d][y] = id
             \/ ~(d = b /\ y = pos) /\ ww[d][y] = vv[d][y] /\ ww[d][y] # id
        BY <1>8
    <2>3. \A i \in 1 .. Len(vv[c]), j \in 1 .. Len(vv[d]) :
            vv[c][i] = vv[d][j] => c = d /\ i = j
        BY <1>1
    <2>4. CASE ww[c][x] = id
        BY <1>10, <2>1, <2>2, <2>4
    <2>5. CASE ww[c][x] # id
        <3>1. vv[c][x] = vv[d][y]
            BY <1>10, <2>1, <2>2, <2>5
        <3> QED
            BY <2>1, <2>2, <2>3, <3>1
    <2> QED
        BY <2>4, <2>5
<1> QED
    BY <1>7, <1>9, <1>10 DEF Placed, U, ww, w, v

Back(e) == [e EXCEPT !.fInTried = FALSE, !.nRefCount = 1]

LEMMA BackIs ==
    ASSUME NEW e \in Info
    PROVE  /\ Back(e) \in Info /\ ~Back(e).fInTried /\ Back(e).nRefCount = 1
           /\ Back(e).addr = e.addr /\ Back(e).nRandomPos = e.nRandomPos
    BY DEF Info, Back

\* The tried bucket b of m, with the others in vv, is full: id, whose entry will be r,
\* comes in place of old, which is new again.
Exchanged(m, id, b, vv, pos, r, old, t) ==
    /\ Settled(m.mapInfo[id], r) /\ Placed(m.mapInfo, vv) /\ pos \in 1 .. Len(vv[b])
    /\ old = vv[b][pos] /\ IsMan(t) /\ t.nIdCount = m.nIdCount /\ t.mapAddr = m.mapAddr
    /\ t.vRandom = m.vRandom /\ t.nTried = m.nTried /\ t.nNew = m.nNew
    /\ t.mapInfo = [[m.mapInfo EXCEPT ![old] = Back(@)] EXCEPT ![id] = r]
    /\ t.vvNew = Left(m.vvNew, id)
    /\ t.vvTried = With(vv, b, [vv[b] EXCEPT ![pos] = id])

\* A manager in order, up to the references of one entry.
SoundBut(m, id) == Sound(m, {id})

LEMMA ExchangeKeeps ==
    ASSUME NEW m, NEW id \in NewIds(m.mapInfo), SoundBut(m, id), NEW b \in TriedBuckets,
           NEW vv, NEW pos, NEW r, NEW old, NEW t, Exchanged(m, id, b, vv, pos, r, old, t)
    PROVE  /\ SoundBut(t, old) /\ old \in NewIds(t.mapInfo) /\ BucketsOf(t.vvNew, old) = {}
           /\ t.mapInfo[old].nRefCount = 1
<1> USE DEF Exchanged, SoundBut
<1> DEFINE info == m.mapInfo
           new == t.mapInfo
           D == DOMAIN info
           T == TriedIds(info)
           N == NewIds(info)
<1>1. /\ info \in [D -> Info] /\ id \in D /\ Flagged(info)
      /\ Counted(info, m.vRandom, m.nNew, m.nTried) /\ Referenced(info, m.vvNew, {id})
      /\ Entries(info, m.nIdCount)
    BY DEF Sound, Entries, NewIds
<1>2. /\ r \in Info /\ r.addr = info[id].addr /\ r.nRandomPos = info[id].nRandomPos
      /\ r.fInTried /\ r.nLastSuccess > 0 /\ r.nRefCount = 0
    BY DEF Settled
<1>3. old \in T /\ old \in D /\ id \in N /\ old # id /\ old \notin N
    <2>1. vv \in [TriedBuckets -> Seq(T)]
        BY DEF Placed
    <2>2. vv[b] \in Seq(T)
        BY <2>1
    <2>3. old \in T
        BY <2>2
    <2> QED
        BY <2>3 DEF TriedIds, NewIds
<1>4. /\ info[old] \in Info /\ Back(info[old]) \in Info /\ ~Back(info[old]).fInTried
      /\ Back(info[old]).nRefCount = 1
      /\ Back(info[old]).addr = info[old].addr
      /\ Back(info[old]).nRandomPos = info[old].nRandomPos
    <2>1. info[old] \in Info
        BY <1>1, <1>3
    <2> QED
        BY <2>1, BackIs
<1>5. /\ new \in [D -> Info] /\ DOMAIN new = D /\ new[id] = r /\ new[old] = Back(info[old])
      /\ \A i \in D \ {id, old} : new[i] = info[i]
    <2> DEFINE first == [info EXCEPT ![old] = Back(@)]
    <2>1. /\ first \in [D -> Info] /\ first[old] = Back(info[old])
          /\ \A i \in D \ {old} : first[i] = info[i]
        BY <1>1, <1>3, <1>4
    <2>2. new = [first EXCEPT ![id] = r]
        OBVIOUS
    <2> HIDE DEF first, new
    <2> QED
        BY <1>1, <1>2, <1>3, <2>1, <2>2
<1> HIDE DEF new, info
<1>6. NewIds(new) = (N \ {id}) \cup {old} /\ TriedIds(new) = (T \ {old}) \cup {id} /\ id \notin T
    <2>1. new[id].fInTried /\ ~new[old].fInTried
        BY <1>2, <1>4, <1>5
    <2> QED
        BY <1>1, <1>3, <1>5, <2>1 DEF NewIds, TriedIds
<1>7. Reflagged(m, t)
    <2>1. \A i \in D : new[i].addr = info[i].addr /\ new[i].nRandomPos = info[i].nRandomPos
        BY <1>2, <1>4, <1>5
    <2>2. /\ IsMan(t) /\ t.nIdCount = m.nIdCount /\ t.mapAddr = m.mapAddr
          /\ t.vRandom = m.vRandom
        OBVIOUS
    <2>3. t.mapInfo \in [DOMAIN m.mapInfo -> Info]
        BY <1>5 DEF new, info
    <2>4. \A i \in DOMAIN m.mapInfo : /\ t.mapInfo[i].addr = m.mapInfo[i].addr
                                      /\ t.mapInfo[i].nRandomPos = m.mapInfo[i].nRandomPos
        BY <2>1 DEF new, info
    <2> QED
        BY <2>2, <2>3, <2>4 DEF Reflagged
<1>8. Flagged(new)
    <2> SUFFICES ASSUME NEW i \in TriedIds(new)
                 PROVE  new[i].nLastSuccess > 0 /\ new[i].nRefCount = 0
        BY DEF Flagged
    <2>1. CASE i = id
        BY <1>2, <1>5, <2>1
    <2>2. CASE i # id
        <3>1. i \in T /\ i \in D /\ i # old /\ new[i] = info[i]
            BY <1>5, <1>6, <2>2 DEF TriedIds
        <3> QED
            BY <1>1, <3>1 DEF Flagged
    <2> QED
        BY <2>1, <2>2
<1>9. Counted(new, t.vRandom, t.nNew, t.nTried)
    <2>1. /\ m.nNew = Cardinality(N) /\ m.nTried = Cardinality(T)
          /\ Len(m.vRandom) = m.nTried + m.nNew
        BY <1>1 DEF Counted
    <2>2. IsFiniteSet(N) /\ m.nNew \in Nat /\ IsFiniteSet(T) /\ m.nTried \in Nat
        <3>1. N \subseteq D /\ T \subseteq D
            BY DEF NewIds, TriedIds
        <3> QED
            BY <1>1, <2>1, <3>1, IdsFinite
    <2> HIDE DEF T, N
    <2>3. Cardinality(N \ {id}) = m.nNew - 1 /\ IsFiniteSet(N \ {id})
        BY <1>3, <2>1, <2>2, FS_RemoveElement
    <2>4. Cardinality(T \ {old}) = m.nTried - 1 /\ IsFiniteSet(T \ {old})
        BY <1>3, <2>1, <2>2, FS_RemoveElement
    <2>5. Cardinality(NewIds(new)) = m.nNew
        <3>1. old \notin N \ {id}
            BY <1>3
        <3>2. Cardinality((N \ {id}) \cup {old}) = Cardinality(N \ {id}) + 1
            BY <2>3, <3>1, FS_AddElement
        <3>3. Cardinality(NewIds(new)) = (m.nNew - 1) + 1
            BY <1>6, <2>3, <3>2
        <3> QED
            BY <2>2, <3>3
    <2>6. Cardinality(TriedIds(new)) = m.nTried
        <3>1. id \notin T \ {old}
            BY <1>6
        <3>2. Cardinality((T \ {old}) \cup {id}) = Cardinality(T \ {old}) + 1
            BY <2>4, <3>1, FS_AddElement
        <3>3. Cardinality(TriedIds(new)) = (m.nTried - 1) + 1
            BY <1>6, <2>4, <3>2
        <3> QED
            BY <2>2, <3>3
    <2> QED
        BY <2>1, <2>5, <2>6 DEF Counted
<1>10. /\ m.vvNew \in [NewBuckets -> SUBSET N]
       /\ \A i \in N \ {id} :
            /\ info[i].nRefCount \in 1 .. NewBucketsPerAddress
            /\ info[i].nRefCount = Cardinality(BucketsOf(m.vvNew, i))
    BY <1>1 DEF Referenced
<1>11. \A c \in NewBuckets : t.vvNew[c] = m.vvNew[c] \ {id}
    BY DEF Left
<1>12. Referenced(new, t.vvNew, {old})
    <2>1. t.vvNew \in [NewBuckets -> SUBSET NewIds(new)]
        BY <1>6, <1>10 DEF Left
    <2>2. ASSUME NEW i \in NewIds(new) \ {old}
          PROVE  /\ new[i].nRefCount \in 1 .. NewBucketsPerAddress
                 /\ new[i].nRefCount = Cardinality(BucketsOf(t.vvNew, i))
        <3>1. i # id /\ i \in N /\ i \in D
            BY <1>3, <1>6, <2>2 DEF NewIds
        <3>2. BucketsOf(t.vvNew, i) = BucketsOf(m.vvNew, i)
            BY <1>11, <3>1 DEF BucketsOf
        <3> QED
            BY <1>5, <1>10, <2>2, <3>1, <3>2
    <2> QED
        BY <2>1, <2>2 DEF Referenced
<1>13. Placed(new, t.vvTried)
    <2>1. /\ Placed(info, vv) /\ id \notin TriedIds(info)
          /\ TriedIds(new) = (TriedIds(info) \ {vv[b][pos]}) \cup {id}
        BY <1>6 DEF info
    <2>2. Placed(new, With(vv, b, [vv[b] EXCEPT ![pos] = id]))
        BY <2>1, ExchangePlaced
    <2> QED
        BY <2>2
<1>14. BucketsOf(t.vvNew, old) = {}
    BY <1>3, <1>10, <1>11 DEF BucketsOf
<1>15. Sound(t, {old})
    <2> HIDE DEF T
    <2> QED
        BY <1>7, <1>8, <1>9, <1>12, <1>13, ReflagKeeps DEF new
<1> QED
    BY <1>4, <1>5, <1>6, <1>14, <1>15 DEF new

Marked(e, t) ==
    [e EXCEPT !.nLastSuccess = t, !.nLastTry = t, !.nTime = t, !.nAttempts = 0]

LEMMA MarkedIs ==
    ASSUME NEW e \in Info, NEW t \in Nat
    PROVE  /\ Marked(e, t) \in Info /\ Marked(e, t).nLastSuccess = t
           /\ Marked(e, t).addr = e.addr /\ Marked(e, t).fInTried = e.fInTried
           /\ Marked(e, t).nRefCount = e.nRefCount /\ Marked(e, t).nRandomPos = e.nRandomPos
    BY DEF Info, Marked

Flag(e) == [e EXCEPT !.fInTried = TRUE]

LEMMA FlagIs ==
    ASSUME NEW e \in Info
    PROVE  /\ Flag(e) \in Info /\ Flag(e).fInTried /\ Flag(e).addr = e.addr
           /\ Flag(e).nLastSuccess = e.nLastSuccess
           /\ Flag(e).nRefCount = e.nRefCount /\ Flag(e).nRandomPos = e.nRandomPos
    BY DEF Info, Flag

\* What is left open for more entries.
LEMMA SoundWeakens ==
    ASSUME NEW m, NEW X, NEW Y, Sound(m, X), X \subseteq Y
    PROVE  Sound(m, Y)
    BY DEF Sound, Referenced

\* Good_ of a new entry: what LeaveNew leaves.
LEMMA LeaveNewIs ==
    ASSUME NEW m, Sound(m, {}), NEW id \in NewIds(m.mapInfo), NEW t \in Nat \ {0}, NEW origin,
           NEW g, g = [m EXCEPT !.mapInfo[id] = Marked(@, t)],
           NEW l, l = LeaveNew(g, id, origin),
           NEW e, e = Recount(Marked(m.mapInfo[id], t), 0)
    PROVE  /\ IsMan(l) /\ l.nIdCount = m.nIdCount /\ l.mapAddr = m.mapAddr
           /\ l.vRandom = m.vRandom /\ l.nTried = m.nTried /\ l.nNew = m.nNew - 1
           /\ l.vvTried = m.vvTried /\ l.vvNew = Left(m.vvNew, id)
           /\ l.mapInfo = [m.mapInfo EXCEPT ![id] = e]
           /\ Settled(m.mapInfo[id], Flag(e))
<1> DEFINE info == m.mapInfo
           mark == Marked(info[id], t)
           first == [info EXCEPT ![id] = mark]
           n == Cardinality(BucketsOf(m.vvNew, id))
<1>1. /\ IsMan(m) /\ info \in [DOMAIN info -> Info] /\ id \in DOMAIN info
      /\ info[id].nRefCount = n /\ n \in Nat
    <2>1. id \in DOMAIN info /\ IsMan(m) /\ info \in [DOMAIN info -> Info]
        BY DEF Sound, NewIds, Entries
    <2>2. info[id].nRefCount = n
        BY DEF Sound, Referenced
    <2>3. n \in Nat
        <3>1. IsFiniteSet(BucketsOf(m.vvNew, id))
            BY AddrAssumption, FS_Subset DEF AddrAssumption, BucketsOf
        <3> QED
            BY <3>1, FS_CardinalityType
    <2> QED
        BY <2>1, <2>2, <2>3
<1>2. /\ mark \in Info /\ mark.nLastSuccess = t /\ mark.addr = info[id].addr
      /\ mark.nRefCount = n /\ mark.nRandomPos = info[id].nRandomPos
    <2>1. info[id] \in Info
        BY <1>1
    <2> QED
        BY <1>1, <2>1, MarkedIs
<1> HIDE DEF mark
<1>3. /\ e \in Info /\ e.nRefCount = 0 /\ e.addr = mark.addr /\ e.nRandomPos = mark.nRandomPos
      /\ e.nLastSuccess = mark.nLastSuccess
    <2>1. e = Recount(mark, 0)
        BY DEF mark
    <2> QED
        BY <1>2, <2>1, RecountIs
<1>4. Settled(info[id], Flag(e))
    <2>1. /\ Flag(e) \in Info /\ Flag(e).fInTried /\ Flag(e).addr = e.addr
          /\ Flag(e).nLastSuccess = e.nLastSuccess
          /\ Flag(e).nRefCount = e.nRefCount /\ Flag(e).nRandomPos = e.nRandomPos
        BY <1>3, FlagIs
    <2> QED
        BY <1>2, <1>3, <2>1 DEF Settled
<1>5. /\ g.mapInfo = first /\ IsMan(g) /\ g.nIdCount = m.nIdCount /\ g.mapAddr = m.mapAddr
      /\ g.vRandom = m.vRandom /\ g.nTried = m.nTried /\ g.nNew = m.nNew
      /\ g.vvTried = m.vvTried /\ g.vvNew = m.vvNew
    <2>1. g = [m EXCEPT !.mapInfo = first]
        BY <1>1 DEF IsMan, mark
    <2> HIDE DEF first
    <2> QED
        BY <1>1, <2>1 DEF IsMan
<1>6. first[id] = mark /\ DOMAIN first = DOMAIN info
    BY <1>1
<1> DEFINE less == [first EXCEPT ![id].nRefCount = @ - n]
           V == Left(m.vvNew, id)
<1>7. l = [g EXCEPT !.vvNew = V, !.mapInfo = less, !.nNew = m.nNew - 1]
    <2>1. {b \in NewBuckets : id \in g.vvNew[b]} = BucketsOf(m.vvNew, id)
        BY <1>5 DEF BucketsOf
    <2>2. [b \in NewBuckets |-> g.vvNew[b] \ {id}] = V
        BY <1>5 DEF Left
    <2> HIDE DEF first, V
    <2> QED
        BY <1>5, <2>1, <2>2 DEF LeaveNew, IsMan
<1>8. less = [info EXCEPT ![id] = e]
    <2>1. less = [first EXCEPT ![id] = Recount(mark, mark.nRefCount - n)]
        BY <1>6 DEF Recount
    <2>2. mark.nRefCount - n = 0
        BY <1>1, <1>2
    <2>3. Recount(mark, mark.nRefCount - n) = e
        BY <2>2 DEF mark
    <2> HIDE DEF less
    <2> QED
        BY <1>1, <2>1, <2>3
<1> HIDE DEF less, V
<1>9. /\ IsMan(l) /\ l.nIdCount = g.nIdCount /\ l.mapAddr = g.mapAddr
      /\ l.vRandom = g.vRandom /\ l.nTried = g.nTried /\ l.nNew = m.nNew - 1
      /\ l.vvTried = g.vvTried /\ l.vvNew = V /\ l.mapInfo = less
    BY <1>5, <1>7 DEF IsMan
<1> QED
    BY <1>4, <1>5, <1>8, <1>9 DEF V

\* Leaving all new buckets makes none larger.
LEMMA LeftFits ==
    ASSUME NEW m, NEW X, Sound(m, X), \A c \in NewBuckets : Cardinality(m.vvNew[c]) <= NewBucketSize,
           NEW id
    PROVE  /\ \A c \in NewBuckets : Left(m.vvNew, id)[c] = m.vvNew[c] \ {id}
           /\ \A c \in NewBuckets : /\ IsFiniteSet(m.vvNew[c])
                                    /\ Cardinality(m.vvNew[c]) \in Nat
                                    /\ IsFiniteSet(Left(m.vvNew, id)[c])
                                    /\ Cardinality(Left(m.vvNew, id)[c]) \in Nat
                                    /\ Cardinality(Left(m.vvNew, id)[c]) <= NewBucketSize
<1>1. Entries(m.mapInfo, m.nIdCount) /\ m.vvNew \in [NewBuckets -> SUBSET NewIds(m.mapInfo)]
    BY DEF Sound, Referenced
<1>2. ASSUME NEW c \in NewBuckets
      PROVE  /\ IsFiniteSet(m.vvNew[c]) /\ Cardinality(m.vvNew[c]) \in Nat
             /\ IsFiniteSet(Left(m.vvNew, id)[c]) /\ Cardinality(Left(m.vvNew, id)[c]) \in Nat
             /\ Cardinality(Left(m.vvNew, id)[c]) <= NewBucketSize
             /\ Left(m.vvNew, id)[c] = m.vvNew[c] \ {id}
    <2> DEFINE old == m.vvNew[c]
               new == Left(m.vvNew, id)[c]
    <2>1. old \in SUBSET DOMAIN m.mapInfo
        BY <1>1 DEF NewIds
    <2>2. new = old \ {id} /\ Cardinality(old) <= NewBucketSize
        BY DEF Left
    <2> HIDE DEF old, new
    <2>3. IsFiniteSet(old) /\ Cardinality(old) \in Nat
        BY <1>1, <2>1, IdsFinite
    <2>4. IsFiniteSet(new) /\ Cardinality(new) <= Cardinality(old) /\ Cardinality(new) \in Nat
        BY <2>2, <2>3, FS_Subset, FS_CardinalityType
    <2>5. NewBucketSize \in Nat
        BY AddrAssumption DEF AddrAssumption
    <2>6. Cardinality(new) <= NewBucketSize
        BY <2>2, <2>3, <2>4, <2>5
    <2> QED
        BY <2>2, <2>3, <2>4, <2>6 DEF old, new
<1> QED
    BY <1>2

\* A sequence of at most so many elements gets one more.
Appended(vv, b, id) == [vv EXCEPT ![b] = Append(@, id)]

LEMMA AppendFits ==
    ASSUME NEW S, NEW vv \in [TriedBuckets -> Seq(S)], NEW b \in TriedBuckets, NEW id,
           Len(vv[b]) < TriedBucketSize,
           \A c \in TriedBuckets : Len(vv[c]) <= TriedBucketSize
    PROVE  \A c \in TriedBuckets : Len(Appended(vv, b, id)[c]) <= TriedBucketSize
<1> SUFFICES ASSUME NEW c \in TriedBuckets
             PROVE  Len(Appended(vv, b, id)[c]) <= TriedBucketSize
    OBVIOUS
<1> DEFINE v == vv[c]
<1>1. v \in Seq(S \cup {id}) /\ Len(v) \in Nat /\ Len(v) <= TriedBucketSize
      /\ TriedBucketSize \in Nat
    BY AddrAssumption DEF AddrAssumption
<1>2. CASE c = b
    <2>1. Appended(vv, b, id)[c] = Append(v, id) /\ Len(v) < TriedBucketSize
        BY <1>2 DEF Appended
    <2> HIDE DEF v
    <2>2. Len(Append(v, id)) = Len(v) + 1
        <3> DEFINE T == S \cup {id}
        <3>1. v \in Seq(T) /\ id \in T
            BY <1>1
        <3> HIDE DEF T
        <3> QED
            BY <3>1
    <2>3. Len(v) + 1 <= TriedBucketSize
        BY <1>1, <2>1
    <2> QED
        BY <2>1, <2>2, <2>3
<1>3. CASE c # b
    <2>1. Appended(vv, b, id)[c] = v
        BY <1>3 DEF Appended
    <2> QED
        BY <1>1, <2>1
<1> QED
    BY <1>2, <1>3

LEMMA AppendHomed ==
    ASSUME NEW info, NEW vv, Placed(info, vv), Homed(info, vv), NEW new, NEW X,
           Stays(info, new, X), NEW b \in TriedBuckets, NEW id, TriedBucketOf[new[id].addr] = b
    PROVE  Homed(new, Appended(vv, b, id))
<1> DEFINE ww == Appended(vv, b, id)
<1>1. Homed(new, vv)
    BY HomedOn
<1>2. vv \in [TriedBuckets -> Seq(TriedIds(info))]
    BY DEF Placed
<1>3. ww[b] = Append(vv[b], id) /\ \A c \in TriedBuckets \ {b} : ww[c] = vv[c]
    BY <1>2 DEF Appended
<1>4. Len(ww[b]) = Len(vv[b]) + 1 /\ Len(vv[b]) \in Nat
      /\ \A p \in 1 .. Len(vv[b]) + 1 : ww[b][p] = IF p \in 1 .. Len(vv[b]) THEN vv[b][p] ELSE id
    <2> DEFINE v == vv[b]
               S == TriedIds(info)
    <2>1. v \in Seq(S) /\ ww[b] = Append(v, id)
        BY <1>2, <1>3
    <2> HIDE DEF v, S, ww
    <2>2. Len(v) \in Nat /\ Len(Append(v, id)) = Len(v) + 1
          /\ \A p \in 1 .. Len(v) + 1 : Append(v, id)[p] = IF p \in 1 .. Len(v) THEN v[p] ELSE id
        BY <2>1
    <2> QED
        BY <2>1, <2>2 DEF v
<1> HIDE DEF ww
<1>5. Homed(new, ww)
    <2> SUFFICES ASSUME NEW c \in TriedBuckets, NEW p \in 1 .. Len(ww[c])
                 PROVE  TriedBucketOf[new[ww[c][p]].addr] = c
        BY DEF Homed
    <2>1. CASE c # b
        BY <1>1, <1>3, <2>1 DEF Homed
    <2>2. CASE c = b
        <3>1. ww[b][p] = IF p \in 1 .. Len(vv[b]) THEN vv[b][p] ELSE id
            BY <1>4, <2>2
        <3>2. CASE p \in 1 .. Len(vv[b])
            BY <1>1, <2>2, <3>1, <3>2 DEF Homed
        <3>3. CASE p \notin 1 .. Len(vv[b])
            BY <2>2, <3>1, <3>3
        <3> QED
            BY <3>2, <3>3
    <2> QED
        BY <2>1, <2>2
<1> QED
    BY <1>5 DEF ww

\* Bucket b, shuffled: it still has its own entries.
LEMMA ShuffledHomed ==
    ASSUME NEW info, NEW vv, Placed(info, vv), Homed(info, vv), NEW b \in TriedBuckets,
           NEW ww, Placed(info, ww), \A c \in TriedBuckets \ {b} : ww[c] = vv[c]
    PROVE  Homed(info, ww)
<1> SUFFICES ASSUME NEW c \in TriedBuckets, NEW p \in 1 .. Len(ww[c])
             PROVE  TriedBucketOf[info[ww[c][p]].addr] = c
    BY DEF Homed
<1>1. CASE c # b
    BY <1>1 DEF Homed
<1>2. CASE c = b
    <2> DEFINE i == ww[c][p]
    <2>1. i \in TriedIds(info)
        <3>1. ww[c] \in Seq(TriedIds(info))
            BY DEF Placed
        <3> QED
            BY <3>1
    <2>2. PICK d \in TriedBuckets : \E q \in 1 .. Len(vv[d]) : vv[d][q] = i
        BY <2>1 DEF Placed
    <2>3. PICK q \in 1 .. Len(vv[d]) : vv[d][q] = i
        BY <2>2
    <2>4. TriedBucketOf[info[i].addr] = d
        BY <2>3 DEF Homed
    <2>5. d = b
        <3> SUFFICES ASSUME d # b PROVE FALSE
            OBVIOUS
        <3>1. ww[d] = vv[d]
            OBVIOUS
        <3>2. q \in 1 .. Len(ww[d]) /\ ww[d][q] = ww[c][p]
            BY <2>3, <3>1
        <3>3. d = c
            BY <3>2 DEF Placed
        <3> QED
            BY <1>2, <3>3
    <2> QED
        BY <1>2, <2>4, <2>5
<1> QED
    BY <1>1, <1>2

\* Another entry comes into bucket b.
LEMMA ExchangeHomed ==
    ASSUME NEW info, NEW vv, Placed(info, vv), Homed(info, vv), NEW new, NEW X,
           Stays(info, new, X), NEW b \in TriedBuckets, NEW id, TriedBucketOf[new[id].addr] = b,
           NEW pos
    PROVE  Homed(new, With(vv, b, [vv[b] EXCEPT ![pos] = id]))
<1> DEFINE w == [vv[b] EXCEPT ![pos] = id]
           ww == With(vv, b, w)
<1>1. Homed(new, vv)
    BY HomedOn
<1>2. vv \in [TriedBuckets -> Seq(TriedIds(info))]
    BY DEF Placed
<1>3. Len(w) = Len(vv[b]) /\ \A p \in 1 .. Len(vv[b]) : w[p] = IF p = pos THEN id ELSE vv[b][p]
    <2> DEFINE v == vv[b]
               S == TriedIds(info)
    <2>1. v \in Seq(S) /\ w = [v EXCEPT ![pos] = id]
        BY <1>2
    <2> HIDE DEF v, S, w
    <2>2. Len(w) = Len(v) /\ \A p \in 1 .. Len(v) : w[p] = IF p = pos THEN id ELSE v[p]
        BY <2>1
    <2> QED
        BY <2>2 DEF v
<1> HIDE DEF w
<1>4. ww[b] = w /\ \A c \in TriedBuckets \ {b} : ww[c] = vv[c]
    BY <1>2 DEF With
<1> HIDE DEF ww
<1>5. Homed(new, ww)
    <2> SUFFICES ASSUME NEW c \in TriedBuckets, NEW p \in 1 .. Len(ww[c])
                 PROVE  TriedBucketOf[new[ww[c][p]].addr] = c
        BY DEF Homed
    <2>1. CASE c # b
        BY <1>1, <1>4, <2>1 DEF Homed
    <2>2. CASE c = b
        <3>1. p \in 1 .. Len(vv[b]) /\ ww[c][p] = IF p = pos THEN id ELSE vv[b][p]
            BY <1>3, <1>4, <2>2
        <3>2. CASE p = pos
            BY <2>2, <3>1, <3>2
        <3>3. CASE p # pos
            BY <1>1, <2>2, <3>1, <3>3 DEF Homed
        <3> QED
            BY <3>2, <3>3
    <2> QED
        BY <2>1, <2>2
<1> QED
    BY <1>5 DEF ww, w

\* A manager in order, with buckets of the sizes allowed.
Kept(m) == Sound(m, {}) /\ Fits(m.vvNew, m.vvTried)

\* l is m after id, whose entry is e now, has left the new table.
Departed(m, id, e, l) ==
    /\ IsMan(l) /\ l.nIdCount = m.nIdCount /\ l.mapAddr = m.mapAddr
    /\ l.vRandom = m.vRandom /\ l.nTried = m.nTried /\ l.nNew = m.nNew - 1
    /\ l.vvTried = m.vvTried /\ l.vvNew = Left(m.vvNew, id)
    /\ l.mapInfo = [m.mapInfo EXCEPT ![id] = e]

LEMMA KeptIs ==
    ASSUME NEW m, Kept(m), NEW id \in NewIds(m.mapInfo)
    PROVE  /\ Sound(m, {id}) /\ IsMan(m) /\ id \in DOMAIN m.mapInfo
           /\ m.mapInfo \in [DOMAIN m.mapInfo -> Info] /\ Placed(m.mapInfo, m.vvTried)
           /\ m.vvTried \in [TriedBuckets -> Seq(TriedIds(m.mapInfo))]
           /\ m.vvNew \in [NewBuckets -> SUBSET NewIds(m.mapInfo)] /\ m.nNew \in Nat
           /\ Fits(m.vvNew, m.vvTried)
           /\ \A c \in NewBuckets : Left(m.vvNew, id)[c] = m.vvNew[c] \ {id}
           /\ \A c \in NewBuckets : /\ IsFiniteSet(m.vvNew[c])
                                    /\ Cardinality(m.vvNew[c]) \in Nat
                                    /\ IsFiniteSet(Left(m.vvNew, id)[c])
                                    /\ Cardinality(Left(m.vvNew, id)[c]) \in Nat
                                    /\ Cardinality(Left(m.vvNew, id)[c]) <= NewBucketSize
<1> DEFINE X == {}
           info == m.mapInfo
<1>1. Sound(m, X) /\ Fits(m.vvNew, m.vvTried)
    BY DEF Kept
<1>2. X \subseteq {id}
    OBVIOUS
<1> HIDE DEF X
<1>3. Sound(m, {id})
    BY <1>1, <1>2, SoundWeakens
<1>4. \A c \in NewBuckets : Cardinality(m.vvNew[c]) <= NewBucketSize
    BY <1>1 DEF Fits
<1>5. /\ IsMan(m) /\ id \in DOMAIN info /\ info \in [DOMAIN info -> Info]
      /\ Placed(info, m.vvTried) /\ Entries(info, m.nIdCount)
      /\ m.vvNew \in [NewBuckets -> SUBSET NewIds(info)]
    BY <1>1 DEF Sound, NewIds, Entries, Referenced
<1>6. m.vvTried \in [TriedBuckets -> Seq(TriedIds(info))]
    BY <1>5 DEF Placed
<1>7. m.nNew \in Nat
    <2>1. NewIds(info) \in SUBSET DOMAIN info /\ m.nNew = Cardinality(NewIds(info))
        BY <1>1 DEF NewIds, Sound, Counted
    <2> QED
        BY <1>5, <2>1, IdsFinite
<1>8. /\ \A c \in NewBuckets : Left(m.vvNew, id)[c] = m.vvNew[c] \ {id}
      /\ \A c \in NewBuckets : /\ IsFiniteSet(m.vvNew[c])
                               /\ Cardinality(m.vvNew[c]) \in Nat
                               /\ IsFiniteSet(Left(m.vvNew, id)[c])
                               /\ Cardinality(Left(m.vvNew, id)[c]) \in Nat
                               /\ Cardinality(Left(m.vvNew, id)[c]) <= NewBucketSize
    BY <1>1, <1>4, LeftFits
<1> QED
    BY <1>1, <1>3, <1>5, <1>6, <1>7, <1>8

\* MakeTried of an entry that has left the new table, in a bucket with room ...
LEMMA PushTriedKeeps ==
    ASSUME NEW m, Kept(m), NEW id \in NewIds(m.mapInfo),
           NEW b \in TriedBuckets, Len(m.vvTried[b]) < TriedBucketSize,
           NEW e, Settled(m.mapInfo[id], Flag(e)), NEW l, Departed(m, id, e, l)
    PROVE  /\ Kept(PushTried(l, b, id)) /\ Stays(m.mapInfo, PushTried(l, b, id).mapInfo, {})
           /\ PushTried(l, b, id).mapInfo[id].addr = m.mapInfo[id].addr
           /\ PushTried(l, b, id).vvTried = Appended(m.vvTried, b, id)
<1> DEFINE info == m.mapInfo
           r == Flag(e)
           t == PushTried(l, b, id)
           vv == [m.vvTried EXCEPT ![b] = Append(@, id)]
           new == [info EXCEPT ![id] = r]
<1>1. /\ id \in DOMAIN info /\ m.vvTried \in [TriedBuckets -> Seq(TriedIds(info))]
      /\ info \in [DOMAIN info -> Info] /\ Sound(m, {id}) /\ Fits(m.vvNew, m.vvTried)
      /\ \A c \in NewBuckets : Cardinality(Left(m.vvNew, id)[c]) <= NewBucketSize
    BY KeptIs
<1>2. /\ IsMan(l) /\ l.nIdCount = m.nIdCount /\ l.mapAddr = m.mapAddr
      /\ l.vRandom = m.vRandom /\ l.nTried = m.nTried /\ l.nNew = m.nNew - 1
      /\ l.vvTried = m.vvTried /\ l.vvNew = Left(m.vvNew, id)
      /\ l.mapInfo = [info EXCEPT ![id] = e]
    BY DEF Departed
<1>3. new = [l.mapInfo EXCEPT ![id].fInTried = TRUE]
    BY <1>1, <1>2 DEF Flag
<1> HIDE DEF new, info
<1>4. t = [l EXCEPT !.vvTried = vv, !.nTried = m.nTried + 1, !.mapInfo = new]
    <2>1. vv = [l.vvTried EXCEPT ![b] = Append(@, id)]
        BY <1>2
    <2> HIDE DEF vv
    <2>2. t = [l EXCEPT !.vvTried = vv, !.nTried = l.nTried + 1, !.mapInfo = new]
        BY <1>2, <1>3, <2>1 DEF PushTried, IsMan
    <2> QED
        BY <1>2, <2>2
<1> HIDE DEF t, vv
<1>5. /\ IsMan(t) /\ t.nIdCount = m.nIdCount /\ t.mapAddr = m.mapAddr
      /\ t.vRandom = m.vRandom /\ t.nTried = m.nTried + 1 /\ t.nNew = m.nNew - 1
      /\ t.mapInfo = new /\ t.vvNew = Left(m.vvNew, id) /\ t.vvTried = vv
    BY <1>2, <1>4 DEF IsMan
<1> HIDE DEF r
<1>6. /\ t.mapInfo = [m.mapInfo EXCEPT ![id] = r] /\ Settled(m.mapInfo[id], r)
      /\ t.vvTried = [m.vvTried EXCEPT ![b] = Append(@, id)]
    BY <1>5 DEF new, vv, r, info
<1>7. Sound(t, {})
    <2>1. Pushed(m, id, b, r, t)
        BY <1>5, <1>6 DEF Pushed
    <2> QED
        BY <1>1, <2>1, PushKeeps
<1>8. \A c \in TriedBuckets : Len(t.vvTried[c]) <= TriedBucketSize
    <2>1. \A c \in TriedBuckets : Len(m.vvTried[c]) <= TriedBucketSize
        BY <1>1 DEF Fits
    <2> DEFINE S == TriedIds(info)
    <2>2. m.vvTried \in [TriedBuckets -> Seq(S)]
        BY <1>1
    <2> HIDE DEF S
    <2>3. \A c \in TriedBuckets : Len(Appended(m.vvTried, b, id)[c]) <= TriedBucketSize
        BY <2>1, <2>2, AppendFits
    <2> QED
        BY <1>6, <2>3 DEF Appended
<1>9. \A c \in NewBuckets : Cardinality(t.vvNew[c]) <= NewBucketSize
    BY <1>1, <1>5
<1>10. Stays(m.mapInfo, t.mapInfo, {})
    BY <1>1, <1>6 DEF Stays, TriedIds, NewIds
<1>11. t.mapInfo[id].addr = m.mapInfo[id].addr /\ t.vvTried = Appended(m.vvTried, b, id)
    BY <1>1, <1>6 DEF Settled, Appended
<1> QED
    BY <1>7, <1>8, <1>9, <1>10, <1>11 DEF Fits, Kept, t

\* The entries, and then the manager, when old goes back to the new table and id comes in
\* its place, before old is put into a new bucket.
Changed(info, old, id, r) == [[info EXCEPT ![old] = Back(@)] EXCEPT ![id] = r]

Replacing(l, info, nNew, ww) == [l EXCEPT !.mapInfo = info, !.nNew = nNew, !.vvTried = ww]

LEMMA ReplacingIs ==
    ASSUME NEW l, IsMan(l), NEW info, NEW nNew, NEW ww, NEW x, x = Replacing(l, info, nNew, ww)
    PROVE  /\ IsMan(x) /\ x.nIdCount = l.nIdCount /\ x.mapAddr = l.mapAddr
           /\ x.vRandom = l.vRandom /\ x.nTried = l.nTried /\ x.nNew = nNew
           /\ x.mapInfo = info /\ x.vvNew = l.vvNew /\ x.vvTried = ww
    BY DEF IsMan, Replacing

\* What MakeTried does in a full bucket, one change after the other.
Exchange(l, info, back, old, b, last) ==
    [l EXCEPT !.mapInfo = info, !.vvNew[back] = @ \cup {old}, !.nNew = @ + 1,
              !.vvTried[b] = last]

LEMMA InTurn ==
    ASSUME NEW l, IsMan(l), NEW info, NEW back, NEW old, NEW b, NEW last
    PROVE  Exchange(l, info, back, old, b, last)
             = Inserted(Replacing(l, info, l.nNew + 1, With(l.vvTried, b, last)), back, old)
<1> DEFINE V == [l.vvNew EXCEPT ![back] = @ \cup {old}]
           n == l.nNew + 1
           vv == [l.vvTried EXCEPT ![b] = last]
           z == [l EXCEPT !.mapInfo = info, !.vvNew = V, !.nNew = n, !.vvTried = vv]
           x == Replacing(l, info, n, vv)
           y == [nIdCount |-> l.nIdCount, mapInfo |-> info, mapAddr |-> l.mapAddr,
                 vRandom |-> l.vRandom, nTried |-> l.nTried, nNew |-> n,
                 vvTried |-> vv, vvNew |-> V]
<1>1. Exchange(l, info, back, old, b, last) = z
    BY DEF Exchange
<1>2. z = y
    <2> HIDE DEF V, n, vv
    <2>1. /\ IsMan(z) /\ z.nIdCount = l.nIdCount /\ z.mapAddr = l.mapAddr
          /\ z.vRandom = l.vRandom /\ z.nTried = l.nTried /\ z.nNew = n
          /\ z.mapInfo = info /\ z.vvNew = V /\ z.vvTried = vv
        <3>1. DOMAIN l = {"nIdCount", "mapInfo", "mapAddr", "vRandom", "nTried", "nNew",
                          "vvTried", "vvNew"}
            BY DEF IsMan
        <3>2. DOMAIN z = DOMAIN l
            OBVIOUS
        <3>3. /\ z.nIdCount = l.nIdCount /\ z.mapAddr = l.mapAddr
              /\ z.vRandom = l.vRandom /\ z.nTried = l.nTried /\ z.nNew = n
              /\ z.mapInfo = info /\ z.vvNew = V /\ z.vvTried = vv
            BY <3>1
        <3>4. z = [i \in DOMAIN z |-> z[i]]
            OBVIOUS
        <3> HIDE DEF z
        <3>5. IsMan(z)
            BY <3>1, <3>2, <3>4 DEF IsMan
        <3> QED
            BY <3>3, <3>5
    <2> HIDE DEF z
    <2> QED
        BY <2>1 DEF IsMan
<1>3. Inserted(x, back, old) = y
    <2> HIDE DEF n, vv
    <2>1. /\ IsMan(x) /\ x.nIdCount = l.nIdCount /\ x.mapAddr = l.mapAddr
          /\ x.vRandom = l.vRandom /\ x.nTried = l.nTried /\ x.nNew = n
          /\ x.mapInfo = info /\ x.vvNew = l.vvNew /\ x.vvTried = vv
        BY ReplacingIs
    <2> HIDE DEF x
    <2> QED
        BY <2>1 DEF Inserted, IsMan
<1>4. vv = With(l.vvTried, b, last)
    BY DEF With
<1> HIDE DEF vv, y, z
<1> QED
    BY <1>1, <1>2, <1>3, <1>4

\* ... and in a full one.
LEMMA ReplaceTriedKeeps ==
    ASSUME NEW m, Kept(m), NEW id \in NewIds(m.mapInfo),
           NEW b \in TriedBuckets, ~(Len(m.vvTried[b]) < TriedBucketSize),
           NEW origin \in NewBuckets, id \in m.vvNew[origin],
           NEW draw \in Draws(m.vvTried[b]),
           NEW e, Settled(m.mapInfo[id], Flag(e)), NEW l, Departed(m, id, e, l)
    PROVE  /\ Kept(ReplaceTried(l, b, id, origin, draw))
           /\ \E old \in TriedIds(m.mapInfo) :
                Stays(m.mapInfo, ReplaceTried(l, b, id, origin, draw).mapInfo, {old})
           /\ Homed(m.mapInfo, m.vvTried) /\ TriedBucketOf[m.mapInfo[id].addr] = b =>
                Homed(ReplaceTried(l, b, id, origin, draw).mapInfo,
                      ReplaceTried(l, b, id, origin, draw).vvTried)
<1> DEFINE info == m.mapInfo
           T == TriedIds(info)
           r == Flag(e)
           V == Left(m.vvNew, id)
           w == SelectTried(l, m.vvTried[b], draw).vTried
           pos == SelectTried(l, m.vvTried[b], draw).pos
           old == w[pos]
           home == NewBucket(l.mapInfo[old])
           back == IF Cardinality(V[home]) < NewBucketSize THEN home ELSE origin
           vv == With(m.vvTried, b, w)
           new == Changed(info, old, id, r)
           last == [w EXCEPT ![pos] = id]
           ww == With(vv, b, last)
           x == Replacing(l, new, m.nNew, ww)
           t == ReplaceTried(l, b, id, origin, draw)
<1>1. /\ id \in DOMAIN info /\ m.vvTried \in [TriedBuckets -> Seq(T)]
      /\ info \in [DOMAIN info -> Info] /\ Sound(m, {id}) /\ Placed(info, m.vvTried)
      /\ m.nNew \in Nat /\ Fits(m.vvNew, m.vvTried)
      /\ m.vvNew \in [NewBuckets -> SUBSET NewIds(info)]
    BY KeptIs
<1>2. /\ \A c \in NewBuckets : V[c] = m.vvNew[c] \ {id}
      /\ \A c \in NewBuckets : /\ IsFiniteSet(m.vvNew[c]) /\ Cardinality(m.vvNew[c]) \in Nat
                               /\ IsFiniteSet(V[c]) /\ Cardinality(V[c]) \in Nat
                               /\ Cardinality(V[c]) <= NewBucketSize
    BY KeptIs
<1> HIDE DEF V, w, pos, old, home, back, vv, new, ww, x, t, last, r, T, info
<1>3. TriedBucketSize \in Nat /\ TriedBucketSize > 0 /\ Len(m.vvTried[b]) \in Nat
      /\ Len(m.vvTried[b]) # 0
    <2>1. TriedBucketSize \in Nat /\ TriedBucketSize > 0
        BY AddrAssumption DEF AddrAssumption
    <2>2. m.vvTried[b] \in Seq(T)
        BY <1>1
    <2> QED
        BY <2>1, <2>2
<1>4. Placed(info, vv) /\ Len(w) = Len(m.vvTried[b]) /\ pos \in 1 .. Len(w)
    <2> DEFINE tried == m.vvTried
    <2>1. Placed(info, tried) /\ Len(tried[b]) # 0 /\ draw \in Draws(tried[b])
        BY <1>1, <1>3
    <2> HIDE DEF tried
    <2>2. /\ Placed(info, With(tried, b, SelectTried(l, tried[b], draw).vTried))
          /\ Len(SelectTried(l, tried[b], draw).vTried) = Len(tried[b])
          /\ SelectTried(l, tried[b], draw).pos \in 1 .. Len(tried[b])
        BY <2>1, SelectTriedKeeps
    <2> QED
        BY <2>2 DEF tried, vv, w, pos
<1>5. vv[b] = w /\ vv \in [TriedBuckets -> Seq(T)] /\ w \in Seq(T)
      /\ \A c \in TriedBuckets \ {b} : vv[c] = m.vvTried[c]
    <2>1. vv[b] = w /\ \A c \in TriedBuckets \ {b} : vv[c] = m.vvTried[c]
        BY <1>1 DEF With, vv
    <2>2. vv \in [TriedBuckets -> Seq(T)]
        BY <1>4 DEF Placed, T
    <2> QED
        BY <2>1, <2>2
<1>6. old \in T /\ old \in DOMAIN info /\ old # id
    <2>1. old \in T
        BY <1>4, <1>5 DEF old
    <2> QED
        BY <2>1 DEF TriedIds, NewIds, T, info
<1>7. t = Inserted(x, back, old)
    <2>1. /\ IsMan(l) /\ l.nNew = m.nNew - 1 /\ l.vvTried = m.vvTried /\ l.vvNew = V
          /\ l.mapInfo = [info EXCEPT ![id] = e]
        BY DEF Departed, V, info
    <2>2. new = [l.mapInfo EXCEPT ![old].fInTried = FALSE, ![old].nRefCount = 1,
                                  ![id].fInTried = TRUE]
        BY <1>1, <1>6, <2>1 DEF new, Changed, Back, Flag, r
    <2>3. ww = With(l.vvTried, b, last)
        BY <2>1 DEF ww, vv, With
    <2>4. l.nNew + 1 = m.nNew
        BY <1>1, <2>1
    <2>5. t = Exchange(l, new, back, old, b, last)
        <3> DEFINE sel == SelectTried(l, l.vvTried[b], draw)
                   o == sel.vTried[sel.pos]
                   h == NewBucket(l.mapInfo[o])
                   k == IF Cardinality(l.vvNew[h]) < NewBucketSize THEN h ELSE origin
        <3>1. ReplaceTried(l, b, id, origin, draw)
                = Exchange(l, [l.mapInfo EXCEPT ![o].fInTried = FALSE, ![o].nRefCount = 1,
                                                ![id].fInTried = TRUE],
                           k, o, b, [sel.vTried EXCEPT ![sel.pos] = id])
            BY DEF ReplaceTried, Exchange
        <3>2. sel.vTried = w /\ sel.pos = pos
            BY <2>1 DEF w, pos
        <3> HIDE DEF sel
        <3>3. o = old /\ [sel.vTried EXCEPT ![sel.pos] = id] = last
            BY <3>2 DEF old, last
        <3> HIDE DEF o
        <3>4. k = back
            BY <2>1, <3>3 DEF back, home
        <3> HIDE DEF k
        <3> QED
            BY <2>2, <3>1, <3>3, <3>4 DEF t
    <2>6. Exchange(l, new, back, old, b, last)
            = Inserted(Replacing(l, new, l.nNew + 1, With(l.vvTried, b, last)), back, old)
        <3>1. IsMan(l)
            BY <2>1
        <3> QED
            BY <3>1, InTurn
    <2> QED
        BY <2>3, <2>4, <2>5, <2>6 DEF x
<1>8. /\ IsMan(l) /\ l.nIdCount = m.nIdCount /\ l.mapAddr = m.mapAddr
      /\ l.vRandom = m.vRandom /\ l.nTried = m.nTried /\ l.vvNew = V
      /\ l.mapInfo = [info EXCEPT ![id] = e]
    BY DEF Departed, V, info
<1>9. /\ IsMan(x) /\ x.nIdCount = m.nIdCount /\ x.mapAddr = m.mapAddr
      /\ x.vRandom = m.vRandom /\ x.nTried = m.nTried /\ x.nNew = m.nNew
      /\ x.mapInfo = new /\ x.vvNew = V /\ x.vvTried = ww
    <2>1. IsMan(l)
        BY <1>8
    <2>2. /\ IsMan(x) /\ x.nIdCount = l.nIdCount /\ x.mapAddr = l.mapAddr
          /\ x.vRandom = l.vRandom /\ x.nTried = l.nTried /\ x.nNew = m.nNew
          /\ x.mapInfo = new /\ x.vvNew = l.vvNew /\ x.vvTried = ww
        BY <2>1, ReplacingIs DEF x
    <2> QED
        BY <1>8, <2>2
<1>10. /\ Sound(x, {old}) /\ old \in NewIds(x.mapInfo) /\ BucketsOf(x.vvNew, old) = {}
       /\ x.mapInfo[old].nRefCount = 1
    <2>1. Exchanged(m, id, b, vv, pos, r, old, x)
        <3>1. Settled(info[id], r) /\ Placed(info, vv) /\ pos \in 1 .. Len(vv[b])
            <4>1. Settled(info[id], r)
                BY DEF r, info
            <4>2. Placed(info, vv) /\ pos \in 1 .. Len(vv[b])
                BY <1>4, <1>5
            <4> QED
                BY <4>1, <4>2
        <3>2. old = vv[b][pos] /\ new = [[info EXCEPT ![old] = Back(@)] EXCEPT ![id] = r]
            BY <1>5 DEF old, new, Changed
        <3>3. /\ x.vvNew = Left(m.vvNew, id)
              /\ x.vvTried = With(vv, b, [vv[b] EXCEPT ![pos] = id])
            BY <1>5, <1>9 DEF V, ww, last
        <3> QED
            <4>1. Settled(m.mapInfo[id], r) /\ Placed(m.mapInfo, vv)
                BY <3>1 DEF info
            <4>2. x.mapInfo = [[m.mapInfo EXCEPT ![old] = Back(@)] EXCEPT ![id] = r]
                BY <1>9, <3>2 DEF info
            <4>3. /\ IsMan(x) /\ x.nIdCount = m.nIdCount /\ x.mapAddr = m.mapAddr
                  /\ x.vRandom = m.vRandom /\ x.nTried = m.nTried /\ x.nNew = m.nNew
                BY <1>9
            <4> QED
                BY <3>1, <3>2, <3>3, <4>1, <4>2, <4>3, Zenon DEF Exchanged
    <2>2. id \in NewIds(m.mapInfo) /\ SoundBut(m, id) /\ b \in TriedBuckets
        BY <1>1 DEF SoundBut
    <2>3. /\ SoundBut(x, old) /\ old \in NewIds(x.mapInfo) /\ BucketsOf(x.vvNew, old) = {}
          /\ x.mapInfo[old].nRefCount = 1
        BY <2>1, <2>2, ExchangeKeeps
    <2> QED
        BY <2>3 DEF SoundBut
<1>11. home \in NewBuckets
    <2>1. l.mapInfo[old] = info[old] /\ info[old] \in Info
        BY <1>1, <1>6, <1>8
    <2>2. <<l.mapInfo[old].addr, l.mapInfo[old].source>> \in Services \X Sources
        BY <2>1 DEF Info
    <2> QED
        BY <2>2, AddrAssumption DEF AddrAssumption, NewBucket, home
<1>12. back \in NewBuckets /\ Cardinality(V[back]) < NewBucketSize
    <2>1. CASE Cardinality(V[home]) < NewBucketSize
        BY <1>11, <2>1 DEF back
    <2>2. CASE ~(Cardinality(V[home]) < NewBucketSize)
        <3>1. Cardinality(V[origin]) = Cardinality(m.vvNew[origin]) - 1
            BY <1>2, FS_RemoveElement
        <3>2. Cardinality(m.vvNew[origin]) <= NewBucketSize /\ NewBucketSize \in Nat
            BY <1>1, AddrAssumption DEF AddrAssumption, Fits
        <3>3. Cardinality(m.vvNew[origin]) \in Nat
            BY <1>2
        <3>4. Cardinality(V[origin]) < NewBucketSize
            BY <3>1, <3>2, <3>3
        <3> QED
            BY <2>2, <3>4 DEF back
    <2> QED
        BY <2>1, <2>2
<1>13. /\ Sound(t, {}) /\ t.vvNew = [V EXCEPT ![back] = @ \cup {old}] /\ t.vvTried = ww
    <2>1. /\ old \notin x.vvNew[back]
          /\ x.mapInfo[old].nRefCount = Cardinality(BucketsOf(x.vvNew, old)) + 1
          /\ x.mapInfo[old].nRefCount <= NewBucketsPerAddress
        <3>1. Cardinality(BucketsOf(x.vvNew, old)) = 0
            BY <1>10, FS_EmptySet
        <3>2. old \notin x.vvNew[back]
            BY <1>10, <1>12 DEF BucketsOf
        <3>3. NewBucketsPerAddress \in Nat /\ NewBucketsPerAddress >= 1
            BY AddrAssumption DEF AddrAssumption
        <3> QED
            BY <1>10, <3>1, <3>2, <3>3
    <2>2. /\ Sound(Inserted(x, back, old), {})
          /\ Inserted(x, back, old).vvNew = [x.vvNew EXCEPT ![back] = @ \cup {old}]
          /\ Inserted(x, back, old).vvTried = x.vvTried
        BY <1>10, <1>12, <2>1, InsertKeeps
    <2> QED
        BY <1>7, <1>9, <2>2
<1>14. \A c \in NewBuckets : Cardinality(t.vvNew[c]) <= NewBucketSize
    <2> SUFFICES ASSUME NEW c \in NewBuckets PROVE Cardinality(t.vvNew[c]) <= NewBucketSize
        OBVIOUS
    <2>1. DOMAIN V = NewBuckets
        BY DEF V, Left
    <2>2. CASE c = back
        <3>1. t.vvNew[c] = V[back] \cup {old}
            BY <1>12, <1>13, <2>1, <2>2
        <3>2. Cardinality(V[back] \cup {old}) <= Cardinality(V[back]) + 1
              /\ Cardinality(V[back] \cup {old}) \in Nat
            <4>1. IsFiniteSet(V[back]) /\ Cardinality(V[back]) \in Nat
                BY <1>2, <1>12
            <4>2. IsFiniteSet(V[back] \cup {old})
                BY <4>1, FS_AddElement
            <4>3. Cardinality(V[back] \cup {old}) \in Nat
                BY <4>2, FS_CardinalityType
            <4>4. Cardinality(V[back] \cup {old})
                    = IF old \in V[back] THEN Cardinality(V[back]) ELSE Cardinality(V[back]) + 1
                BY <4>1, FS_AddElement
            <4> QED
                BY <4>1, <4>3, <4>4
        <3>3. NewBucketSize \in Nat /\ Cardinality(V[back]) \in Nat
            BY <1>2, <1>12, AddrAssumption DEF AddrAssumption
        <3> QED
            BY <1>12, <3>1, <3>2, <3>3
    <2>3. CASE c # back
        <3>1. t.vvNew[c] = V[c]
            BY <1>13, <2>1, <2>3
        <3> QED
            BY <1>2, <3>1
    <2> QED
        BY <2>2, <2>3
<1>15. \A c \in TriedBuckets : Len(t.vvTried[c]) <= TriedBucketSize
    <2> SUFFICES ASSUME NEW c \in TriedBuckets PROVE Len(ww[c]) <= TriedBucketSize
        BY <1>13
    <2>1. \A d \in TriedBuckets : Len(m.vvTried[d]) <= TriedBucketSize
        BY <1>1 DEF Fits
    <2>2. Len(last) = Len(w)
        BY <1>5 DEF last
    <2>3. CASE c = b
        <3>1. ww[c] = last
            BY <1>5, <2>3 DEF ww, With
        <3> QED
            BY <1>4, <2>1, <2>2, <3>1
    <2>4. CASE c # b
        <3>1. ww[c] = vv[c] /\ vv[c] = m.vvTried[c]
            BY <1>5, <2>4 DEF ww, With
        <3> QED
            BY <2>1, <3>1
    <2> QED
        BY <2>3, <2>4
<1>16. Stays(info, t.mapInfo, {old})
    <2>1. t.mapInfo = new
        BY <1>7, <1>9 DEF Inserted, IsMan
    <2>2. id \notin TriedIds(info)
        BY DEF TriedIds, NewIds, info
    <2>3. DOMAIN new = DOMAIN info /\ new[old] = Back(info[old])
          /\ \A i \in DOMAIN info \ {old, id} : new[i] = info[i]
        BY <1>1, <1>6 DEF new, Changed
    <2>4. new[old].addr = info[old].addr
        BY <1>1, <1>6, <2>3, BackIs
    <2> QED
        BY <2>1, <2>2, <2>3, <2>4 DEF Stays, TriedIds
<1>17. old \in TriedIds(m.mapInfo) /\ Stays(m.mapInfo, t.mapInfo, {old})
    BY <1>6, <1>16 DEF info, T
<1>18. ASSUME Homed(info, m.vvTried), TriedBucketOf[info[id].addr] = b
       PROVE  Homed(t.mapInfo, t.vvTried)
    <2>1. Homed(info, vv)
        BY <1>1, <1>4, <1>5, <1>18, ShuffledHomed
    <2>2. t.mapInfo[id].addr = info[id].addr
        <3>1. t.mapInfo = new /\ new[id] = r
            BY <1>1, <1>6, <1>7, <1>9 DEF Inserted, IsMan, new, Changed
        <3> QED
            BY <3>1 DEF Settled, r, info
    <2>3. Homed(t.mapInfo, With(vv, b, [vv[b] EXCEPT ![pos] = id]))
        BY <1>4, <1>16, <1>18, <2>1, <2>2, ExchangeHomed
    <2> QED
        BY <1>5, <1>13, <2>3 DEF ww, last
<1> QED
    BY <1>13, <1>14, <1>15, <1>17, <1>18 DEF Fits, Kept, t, info

LEMMA GoodKeeps ==
    ASSUME AddrInv, NEW s \in Services, Good(s)
    PROVE  /\ AddrInv' /\ \E old : Stays(am.mapInfo, am'.mapInfo, {old})
           /\ Homed(am.mapInfo, am.vvTried) => Homed(am'.mapInfo, am'.vvTried)
<1> DEFINE id == IdOf(s)
           b == TriedBucketOf[s]
           g == [am EXCEPT !.mapInfo[id] = Marked(@, now)]
           l(origin) == LeaveNew(g, id, origin)
           e == Recount(Marked(am.mapInfo[id], now), 0)
<1>1. /\ KnowsExactly(s) /\ now' = now /\ now \in Nat \ {0} /\ Kept(am)
      /\ IF am.mapInfo[id].fInTried THEN am' = g
         ELSE \E origin \in {c \in NewBuckets : id \in am.vvNew[c]} :
                IF Len(am.vvTried[b]) < TriedBucketSize THEN am' = PushTried(l(origin), b, id)
                ELSE \E draw \in Draws(am.vvTried[b]) :
                        am' = ReplaceTried(l(origin), b, id, origin, draw)
    <2>1. now \in Nat \ {0} /\ Kept(am)
        BY DEF AddrInv, Kept
    <2>2. g = [am EXCEPT !.mapInfo[id].nLastSuccess = now, !.mapInfo[id].nLastTry = now,
                        !.mapInfo[id].nTime = now, !.mapInfo[id].nAttempts = 0]
        BY DEF Marked
    <2> HIDE DEF g
    <2>3. KnowsExactly(s) /\ now' = now
        BY DEF Good
    <2>4. IF am.mapInfo[id].fInTried THEN am' = g
          ELSE \E origin \in {c \in NewBuckets : id \in am.vvNew[c]} :
                 IF Len(am.vvTried[b]) < TriedBucketSize THEN am' = PushTried(l(origin), b, id)
                 ELSE \E draw \in Draws(am.vvTried[b]) :
                         am' = ReplaceTried(l(origin), b, id, origin, draw)
        BY <2>2 DEF Good
    <2> QED
        BY <2>1, <2>3, <2>4
<1>2. am.mapInfo[id] \in Info /\ id \in DOMAIN am.mapInfo /\ am.mapInfo[id].addr = s
    BY <1>1, EntryIsInfo
<1>3. b \in TriedBuckets
    BY AddrAssumption DEF AddrAssumption
<1> HIDE DEF id, b, g, e
<1>4. CASE am.mapInfo[id].fInTried
    <2> DEFINE r == Marked(am.mapInfo[id], now)
    <2>1. am' = [am EXCEPT !.mapInfo[IdOf(s)] = r]
        BY <1>1, <1>4 DEF g, id
    <2>2. /\ r \in Info /\ r.nLastSuccess = now
          /\ r.addr = am.mapInfo[id].addr /\ r.fInTried = am.mapInfo[id].fInTried
          /\ r.nRefCount = am.mapInfo[id].nRefCount /\ r.nRandomPos = am.mapInfo[id].nRandomPos
        BY <1>1, <1>2, MarkedIs
    <2>3. now > 0
        BY <1>1
    <2> HIDE DEF r
    <2>4. AddrInv' /\ Stays(am.mapInfo, am'.mapInfo, {}) /\ am'.vvTried = am.vvTried
        BY <1>1, <2>1, <2>2, <2>3, UpdateStep DEF id
    <2>5. Placed(am.mapInfo, am.vvTried)
        BY DEF AddrInv, Sound
    <2>6. Homed(am.mapInfo, am.vvTried) => Homed(am'.mapInfo, am'.vvTried)
        BY <2>4, <2>5, HomedOn
    <2>7. \E old : Stays(am.mapInfo, am'.mapInfo, {old})
        BY <2>4 DEF Stays
    <2> QED
        BY <2>4, <2>6, <2>7
<1>5. CASE ~am.mapInfo[id].fInTried
    <2>1. PICK origin \in {c \in NewBuckets : id \in am.vvNew[c]} :
                IF Len(am.vvTried[b]) < TriedBucketSize THEN am' = PushTried(l(origin), b, id)
                ELSE \E draw \in Draws(am.vvTried[b]) :
                        am' = ReplaceTried(l(origin), b, id, origin, draw)
        BY <1>1, <1>5
    <2> DEFINE lo == l(origin)
    <2>2. origin \in NewBuckets /\ id \in am.vvNew[origin] /\ id \in NewIds(am.mapInfo)
        BY <1>2, <1>5 DEF NewIds
    <2>3. Departed(am, id, e, lo) /\ Settled(am.mapInfo[id], Flag(e))
        <3>1. Sound(am, {}) /\ now \in Nat \ {0} /\ g = [am EXCEPT !.mapInfo[id] = Marked(@, now)]
            BY <1>1 DEF Kept, g
        <3>2. lo = LeaveNew(g, id, origin) /\ e = Recount(Marked(am.mapInfo[id], now), 0)
            BY DEF e
        <3> HIDE DEF l
        <3>3. /\ IsMan(lo) /\ lo.nIdCount = am.nIdCount /\ lo.mapAddr = am.mapAddr
              /\ lo.vRandom = am.vRandom /\ lo.nTried = am.nTried /\ lo.nNew = am.nNew - 1
              /\ lo.vvTried = am.vvTried /\ lo.vvNew = Left(am.vvNew, id)
              /\ lo.mapInfo = [am.mapInfo EXCEPT ![id] = e]
              /\ Settled(am.mapInfo[id], Flag(e))
            BY <2>2, <3>1, <3>2, LeaveNewIs
        <3> QED
            BY <3>3 DEF Departed
    <2> HIDE DEF l
    <2>4. CASE Len(am.vvTried[b]) < TriedBucketSize
        <3>1. am' = PushTried(lo, b, id)
            BY <2>1, <2>4
        <3>2. /\ Kept(PushTried(lo, b, id)) /\ Stays(am.mapInfo, PushTried(lo, b, id).mapInfo, {})
              /\ PushTried(lo, b, id).mapInfo[id].addr = am.mapInfo[id].addr
              /\ PushTried(lo, b, id).vvTried = Appended(am.vvTried, b, id)
            BY <1>1, <1>3, <2>2, <2>3, <2>4, PushTriedKeeps
        <3>3. Stays(am.mapInfo, am'.mapInfo, {id})
            BY <3>1, <3>2 DEF Stays
        <3>4. Homed(am.mapInfo, am.vvTried) => Homed(am'.mapInfo, am'.vvTried)
            <4>1. Placed(am.mapInfo, am.vvTried)
                BY DEF AddrInv, Sound
            <4>2. TriedBucketOf[am'.mapInfo[id].addr] = b
                BY <1>2, <3>1, <3>2 DEF b
            <4> QED
                BY <1>3, <3>1, <3>2, <3>3, <4>1, <4>2, AppendHomed
        <3> QED
            BY <1>1, <3>1, <3>2, <3>3, <3>4 DEF Kept, AddrInv
    <2>5. CASE ~(Len(am.vvTried[b]) < TriedBucketSize)
        <3>1. PICK draw \in Draws(am.vvTried[b]) : am' = ReplaceTried(lo, b, id, origin, draw)
            BY <2>1, <2>5
        <3> DEFINE t == ReplaceTried(lo, b, id, origin, draw)
        <3>2. /\ Kept(t) /\ \E old \in TriedIds(am.mapInfo) : Stays(am.mapInfo, t.mapInfo, {old})
              /\ Homed(am.mapInfo, am.vvTried) /\ TriedBucketOf[am.mapInfo[id].addr] = b =>
                    Homed(t.mapInfo, t.vvTried)
            BY <1>1, <1>3, <2>2, <2>3, <2>5, ReplaceTriedKeeps
        <3>3. am' = t
            BY <3>1
        <3>4. TriedBucketOf[am.mapInfo[id].addr] = b
            BY <1>2 DEF b
        <3> HIDE DEF t
        <3> QED
            BY <1>1, <3>2, <3>3, <3>4 DEF Kept, AddrInv
    <2> QED
        BY <2>4, <2>5
<1> QED
    BY <1>4, <1>5

-----------------------------------------------------------------------------
\* peers.dat

LEMMA EmptyManKept == Kept(EmptyMan)
<1> DEFINE m == EmptyMan
<1>1. /\ m.nIdCount = 0 /\ m.mapInfo = <<>> /\ m.mapAddr = <<>> /\ m.vRandom = <<>>
      /\ m.nTried = 0 /\ m.nNew = 0 /\ m.vvTried = [b \in TriedBuckets |-> <<>>]
      /\ m.vvNew = [b \in NewBuckets |-> {}] /\ IsMan(m)
    BY DEF EmptyMan, IsMan
<1> HIDE DEF m
<1>2. DOMAIN m.mapInfo = {} /\ DOMAIN m.mapAddr = {} /\ Len(m.vRandom) = 0
    BY <1>1
<1>3. NewIds(m.mapInfo) = {} /\ TriedIds(m.mapInfo) = {}
    BY <1>2 DEF NewIds, TriedIds
<1>4. Entries(m.mapInfo, m.nIdCount)
    <2>1. m.mapInfo \in [{} -> Info]
        BY <1>1
    <2> QED
        BY <1>1, <1>2, <2>1 DEF Entries
<1>5. Found(m.mapInfo, m.mapAddr)
    BY <1>2 DEF Found
<1>6. Ordered(m.mapInfo, m.vRandom)
    BY <1>1, <1>2 DEF Ordered
<1>7. Flagged(m.mapInfo)
    BY <1>3 DEF Flagged
<1>8. Counted(m.mapInfo, m.vRandom, m.nNew, m.nTried)
    <2>1. m.nNew = 0 /\ m.nTried = 0
        BY <1>1
    <2>2. Cardinality(NewIds(m.mapInfo)) = 0 /\ Cardinality(TriedIds(m.mapInfo)) = 0
        BY <1>3, FS_EmptySet
    <2>3. Len(m.vRandom) = 0 + 0
        BY <1>2
    <2> QED
        BY <2>1, <2>2, <2>3 DEF Counted
<1>9. Referenced(m.mapInfo, m.vvNew, {})
    BY <1>1, <1>3 DEF Referenced
<1>10. \A b \in TriedBuckets : m.vvTried[b] = <<>> /\ Len(m.vvTried[b]) = 0
    BY <1>1
<1>11. Placed(m.mapInfo, m.vvTried)
    <2>1. <<>> \in Seq(TriedIds(m.mapInfo))
        OBVIOUS
    <2>2. m.vvTried \in [TriedBuckets -> Seq(TriedIds(m.mapInfo))]
        BY <1>1, <2>1
    <2>3. \A b \in TriedBuckets : 1 .. Len(m.vvTried[b]) = {}
        BY <1>10
    <2> QED
        BY <1>3, <2>2, <2>3 DEF Placed
<1>12. Fits(m.vvNew, m.vvTried)
    <2>1. NewBucketSize >= 0 /\ TriedBucketSize >= 0
        BY AddrAssumption DEF AddrAssumption
    <2>2. \A b \in NewBuckets : Cardinality(m.vvNew[b]) = 0
        BY <1>1, FS_EmptySet
    <2> QED
        BY <1>10, <2>1, <2>2 DEF Fits
<1>13. Sound(m, {})
    BY <1>1, <1>4, <1>5, <1>6, <1>7, <1>8, <1>9, <1>11 DEF Sound
<1> QED
    BY <1>12, <1>13 DEF Kept, m

\* A finite set of numbers can be listed in their order.
Increasing(f, n) == \A i, j \in 1 .. n : i < j => f[i] < f[j]

LEMMA OrderExists ==
    ASSUME NEW ids \in SUBSET Nat, IsFiniteSet(ids)
    PROVE  \E f \in [1 .. Cardinality(ids) -> ids] : Increasing(f, Cardinality(ids))
<1> DEFINE Listed(S, n) == \E f \in [1 .. n -> S] : Increasing(f, n)
           T == {n \in Nat : \A S \in SUBSET Nat :
                    IsFiniteSet(S) /\ Cardinality(S) = n => Listed(S, n)}
<1>1. 0 \in T
    <2> SUFFICES ASSUME NEW S \in SUBSET Nat, IsFiniteSet(S), Cardinality(S) = 0
                 PROVE  Listed(S, 0)
        OBVIOUS
    <2>1. [i \in 1 .. 0 |-> 0] \in [1 .. 0 -> S] /\ 1 .. 0 = {}
        OBVIOUS
    <2> QED
        BY <2>1 DEF Increasing
<1>2. ASSUME NEW n \in T PROVE n + 1 \in T
    <2>1. n \in Nat /\ \A S \in SUBSET Nat : IsFiniteSet(S) /\ Cardinality(S) = n => Listed(S, n)
        BY <1>2
    <2> SUFFICES ASSUME NEW S \in SUBSET Nat, IsFiniteSet(S), Cardinality(S) = n + 1
                 PROVE  Listed(S, n + 1)
        BY <2>1
    <2>2. S # {}
        BY <2>1, FS_EmptySet
    <2>3. PICK m \in S : \A k \in S : m <= k
        BY <2>2, SmallestExists
    <2> DEFINE R == S \ {m}
    <2>4. IsFiniteSet(R) /\ Cardinality(R) = n
        <3>1. IsFiniteSet(R) /\ Cardinality(R) = Cardinality(S) - 1
            BY <2>3, FS_RemoveElement
        <3> QED
            BY <2>1, <3>1
    <2>5. R \in SUBSET Nat
        OBVIOUS
    <2>6. Listed(R, n)
        <3> HIDE DEF R, Listed
        <3> QED
            BY <2>1, <2>4, <2>5
    <2>7. PICK f \in [1 .. n -> R] : Increasing(f, n)
        BY <2>6
    <2> DEFINE g == [i \in 1 .. n + 1 |-> IF i = 1 THEN m ELSE f[i - 1]]
    <2>8. ASSUME NEW i \in 1 .. n + 1
          PROVE  /\ i # 1 => i - 1 \in 1 .. n /\ g[i] = f[i - 1] /\ f[i - 1] \in R
                 /\ i = 1 => g[i] = m
                 /\ g[i] \in S
        <3>1. i # 1 => i - 1 \in 1 .. n
            BY <2>1
        <3>2. i # 1 => f[i - 1] \in R
            BY <3>1
        <3> QED
            BY <3>1, <3>2
    <2>9. g \in [1 .. n + 1 -> S]
        BY <2>8
    <2>10. Increasing(g, n + 1)
        <3> SUFFICES ASSUME NEW i \in 1 .. n + 1, NEW j \in 1 .. n + 1, i < j PROVE g[i] < g[j]
            BY DEF Increasing
        <3>1. j # 1 /\ i \in Nat /\ j \in Nat
            OBVIOUS
        <3>2. j - 1 \in 1 .. n /\ g[j] = f[j - 1] /\ f[j - 1] \in R
            BY <2>8, <3>1
        <3> HIDE DEF g
        <3>3. CASE i = 1
            <4>1. g[i] = m
                BY <2>8, <3>3
            <4>2. m <= f[j - 1] /\ m # f[j - 1] /\ m \in Nat /\ f[j - 1] \in Nat
                BY <2>3, <3>2
            <4> QED
                BY <3>2, <4>1, <4>2
        <3>4. CASE i # 1
            <4>1. i - 1 \in 1 .. n /\ g[i] = f[i - 1]
                BY <2>8, <3>4
            <4>2. i - 1 < j - 1
                BY <3>1
            <4>3. f[i - 1] < f[j - 1]
                BY <2>7, <3>2, <4>1, <4>2 DEF Increasing
            <4> QED
                BY <3>2, <4>1, <4>3
        <3> QED
            BY <3>3, <3>4
    <2> HIDE DEF g
    <2> QED
        BY <2>9, <2>10
<1>3. Cardinality(ids) \in T
    <2> HIDE DEF T
    <2>1. T \in SUBSET Nat
        BY DEF T
    <2>2. T = Nat
        BY <1>1, <1>2, <2>1, Induction
    <2> QED
        BY <2>2, FS_CardinalityType
<1> QED
    BY <1>3

LEMMA InOrderIs ==
    ASSUME NEW ids \in SUBSET Nat, IsFiniteSet(ids)
    PROVE  /\ Cardinality(ids) \in Nat
           /\ InOrder(ids) \in [1 .. Cardinality(ids) -> ids]
           /\ Len(InOrder(ids)) = Cardinality(ids)
           /\ \A i, j \in 1 .. Cardinality(ids) : InOrder(ids)[i] = InOrder(ids)[j] => i = j
           /\ \A k \in ids : \E i \in 1 .. Cardinality(ids) : InOrder(ids)[i] = k
<1> DEFINE n == Cardinality(ids)
           f == InOrder(ids)
<1>1. n \in Nat
    BY FS_CardinalityType
<1>2. f = CHOOSE g \in [1 .. n -> ids] : Increasing(g, n)
    BY DEF InOrder, Increasing
<1>3. \E g \in [1 .. n -> ids] : Increasing(g, n)
    BY OrderExists
<1> HIDE DEF f, n
<1>4. f \in [1 .. n -> ids] /\ Increasing(f, n)
    BY <1>2, <1>3
<1>5. f \in Seq(ids) /\ Len(f) = n
    BY <1>1, <1>4
<1>6. ASSUME NEW i \in 1 .. n, NEW j \in 1 .. n, f[i] = f[j] PROVE i = j
    <2>1. f[i] \in Nat /\ f[j] \in Nat
        BY <1>4
    <2>2. ~(i < j) /\ ~(j < i)
        BY <1>4, <1>6, <2>1 DEF Increasing
    <2> QED
        BY <1>1, <2>2
<1>7. \A k \in ids : \E i \in 1 .. n : f[i] = k
    <2>1. f \in Injection(1 .. n, ids)
        BY <1>4, <1>6 DEF Injection, IsInjective
    <2>2. Cardinality(1 .. n) = n
        BY <1>1, FS_Interval
    <2>3. f \in Surjection(1 .. n, ids)
        BY <2>1, <2>2, FS_Injection DEF n
    <2> QED
        BY <2>3 DEF Surjection
<1> QED
    BY <1>1, <1>4, <1>5, <1>6, <1>7 DEF f, n

\* What a file has to say of entries and buckets to be read.
Written(file) ==
    /\ file.new \in Seq(Info) /\ file.tried \in Seq(Info)
    /\ \A i \in 1 .. Len(file.new) : ~file.new[i].fInTried
    /\ \A i \in 1 .. Len(file.tried) : /\ ~file.tried[i].fInTried
                                       /\ file.tried[i].nLastSuccess > 0
                                       /\ file.tried[i].nRefCount = 0
    /\ file.buckets \in [NewBuckets -> SUBSET (1 .. Len(file.new))]
    /\ \A b \in NewBuckets : Cardinality(file.buckets[b]) <= NewBucketSize
    /\ \A n \in 1 .. Len(file.new) :
        Cardinality(BucketsOf(file.buckets, n)) \in 1 .. NewBucketsPerAddress

\* No address is there twice.
Distinct(file) ==
    /\ \A i, j \in 1 .. Len(file.new) :
        Ip[file.new[i].addr] = Ip[file.new[j].addr] => i = j
    /\ \A i, j \in 1 .. Len(file.tried) :
        Ip[file.tried[i].addr] = Ip[file.tried[j].addr] => i = j
    /\ \A i \in 1 .. Len(file.new), j \in 1 .. Len(file.tried) :
        Ip[file.new[i].addr] # Ip[file.tried[j].addr]

LEMMA OnDiskIs ==
    ASSUME NEW r \in Info
    PROVE  /\ OnDisk(r) \in Info /\ OnDisk(r).addr = r.addr /\ ~OnDisk(r).fInTried
           /\ OnDisk(r).nLastSuccess = r.nLastSuccess /\ OnDisk(r).nRefCount = 0
    BY DEF Info, OnDisk

\* f lists the elements of S.
Listing(f, S) ==
    /\ Len(f) \in Nat /\ f \in [1 .. Len(f) -> S]
    /\ \A i, j \in 1 .. Len(f) : f[i] = f[j] => i = j
    /\ \A k \in S : \E i \in 1 .. Len(f) : f[i] = k

\* What a file has of manager m, whose new entries and tried ones new and tried list.
Stored(m, file, new, tried) ==
    /\ Listing(new, NewIds(m.mapInfo)) /\ Listing(tried, TriedIds(m.mapInfo))
    /\ file.new = [n \in 1 .. Len(new) |-> OnDisk(m.mapInfo[new[n]])]
    /\ file.tried = [n \in 1 .. Len(tried) |-> OnDisk(m.mapInfo[tried[n]])]
    /\ file.buckets = [b \in NewBuckets |-> {n \in 1 .. Len(new) : new[n] \in m.vvNew[b]}]

LEMMA StoredAs ==
    ASSUME NEW m, Kept(m)
    PROVE  Stored(m, Serialize(m), InOrder(NewIds(m.mapInfo)), InOrder(TriedIds(m.mapInfo)))
<1> DEFINE info == m.mapInfo
           D == DOMAIN info
           N == NewIds(info)
           T == TriedIds(info)
           new == InOrder(N)
           tried == InOrder(T)
           p == Cardinality(N)
           q == Cardinality(T)
           file == Serialize(m)
<1>1. /\ Entries(info, m.nIdCount) /\ info \in [D -> Info] /\ Flagged(info)
      /\ Found(info, m.mapAddr) /\ Referenced(info, m.vvNew, {})
      /\ Fits(m.vvNew, m.vvTried)
    BY DEF Kept, Sound, Entries
<1>2. N \subseteq D /\ T \subseteq D /\ N \cap T = {}
    BY DEF NewIds, TriedIds
<1>3. IsFiniteSet(N) /\ IsFiniteSet(T) /\ D \subseteq Nat
    BY <1>1, <1>2, IdsFinite
<1>4. N \in SUBSET Nat /\ T \in SUBSET Nat
    BY <1>2, <1>3
<1>5. {i \in D : info[i].nRefCount # 0} = N
    <2>1. ASSUME NEW i \in N PROVE info[i].nRefCount # 0
        <3>1. info[i].nRefCount \in 1 .. NewBucketsPerAddress
            BY <1>1 DEF Referenced
        <3>2. NewBucketsPerAddress \in Nat
            BY AddrAssumption DEF AddrAssumption
        <3> QED
            BY <3>1, <3>2
    <2>2. \A i \in T : info[i].nRefCount = 0
        BY <1>1 DEF Flagged
    <2>3. \A i \in D : i \in N \/ i \in T
        BY DEF NewIds, TriedIds
    <2> HIDE DEF N, T
    <2> QED
        BY <1>2, <2>1, <2>2, <2>3
<1>6. {i \in D : info[i].fInTried} = T
    BY DEF TriedIds
<1> HIDE DEF N, T, new, tried, p, q
<1>7. /\ p \in Nat /\ new \in [1 .. p -> N] /\ Len(new) = p
      /\ \A i, j \in 1 .. p : new[i] = new[j] => i = j
      /\ \A k \in N : \E i \in 1 .. p : new[i] = k
    BY <1>3, <1>4, InOrderIs DEF new, p
<1>8. /\ q \in Nat /\ tried \in [1 .. q -> T] /\ Len(tried) = q
      /\ \A i, j \in 1 .. q : tried[i] = tried[j] => i = j
      /\ \A k \in T : \E i \in 1 .. q : tried[i] = k
    BY <1>3, <1>4, InOrderIs DEF tried, q
<1>9. /\ file.new = [n \in 1 .. p |-> OnDisk(info[new[n]])]
      /\ file.tried = [n \in 1 .. q |-> OnDisk(info[tried[n]])]
      /\ file.buckets = [b \in NewBuckets |-> {n \in 1 .. p : new[n] \in m.vvNew[b]}]
    <2>1. Len(new) = p /\ Len(tried) = q
        BY <1>7, <1>8
    <2> QED
        BY <1>5, <1>6, <2>1 DEF Serialize, new, tried
<1> HIDE DEF file, info, D
<1>10. Listing(new, N) /\ Listing(tried, T)
    BY <1>7, <1>8 DEF Listing
<1> QED
    BY <1>7, <1>8, <1>9, <1>10 DEF Stored, new, tried, N, T, info, file

\* The file has the new entries and the tried ones, and the buckets of the new.
LEMMA SerializeIs ==
    ASSUME NEW m, Kept(m)
    PROVE  Written(Serialize(m)) /\ Distinct(Serialize(m))
<1> DEFINE info == m.mapInfo
           D == DOMAIN info
           N == NewIds(info)
           T == TriedIds(info)
           new == InOrder(N)
           tried == InOrder(T)
           p == Len(new)
           q == Len(tried)
           file == Serialize(m)
<1>1. /\ Entries(info, m.nIdCount) /\ info \in [D -> Info] /\ Flagged(info)
      /\ Found(info, m.mapAddr) /\ Referenced(info, m.vvNew, {})
      /\ Fits(m.vvNew, m.vvTried)
    BY DEF Kept, Sound, Entries
<1>2. N \subseteq D /\ T \subseteq D /\ N \cap T = {}
    BY DEF NewIds, TriedIds
<1>3. IsFiniteSet(N)
    BY <1>1, <1>2, IdsFinite
<1>4. Stored(m, file, new, tried)
    BY StoredAs
<1> HIDE DEF N, T, new, tried, p, q, file, info, D
<1>7. /\ p \in Nat /\ new \in [1 .. p -> N] /\ Len(new) = p
      /\ \A i, j \in 1 .. p : new[i] = new[j] => i = j
    BY <1>4 DEF Stored, Listing, p, N, info
<1>8. /\ q \in Nat /\ tried \in [1 .. q -> T] /\ Len(tried) = q
      /\ \A i, j \in 1 .. q : tried[i] = tried[j] => i = j
    BY <1>4 DEF Stored, Listing, q, T, info
<1>9. /\ file.new = [n \in 1 .. p |-> OnDisk(info[new[n]])]
      /\ file.tried = [n \in 1 .. q |-> OnDisk(info[tried[n]])]
      /\ file.buckets = [b \in NewBuckets |-> {n \in 1 .. p : new[n] \in m.vvNew[b]}]
    BY <1>4 DEF Stored, info, p, q
<1>10. ASSUME NEW i \in D
       PROVE  /\ OnDisk(info[i]) \in Info /\ OnDisk(info[i]).addr = info[i].addr
              /\ ~OnDisk(info[i]).fInTried
              /\ OnDisk(info[i]).nLastSuccess = info[i].nLastSuccess
              /\ OnDisk(info[i]).nRefCount = 0
    <2>1. info[i] \in Info
        BY <1>1
    <2> QED
        BY <2>1, OnDiskIs
<1>11. /\ \A n \in 1 .. p : new[n] \in D /\ file.new[n] = OnDisk(info[new[n]])
       /\ \A n \in 1 .. q : tried[n] \in D /\ file.tried[n] = OnDisk(info[tried[n]])
    BY <1>2, <1>7, <1>8, <1>9
<1>12. file.new \in Seq(Info) /\ Len(file.new) = p
    <2>1. file.new \in [1 .. p -> Info]
        BY <1>9, <1>10, <1>11
    <2> QED
        BY <1>7, <2>1
<1>13. file.tried \in Seq(Info) /\ Len(file.tried) = q
    <2>1. file.tried \in [1 .. q -> Info]
        BY <1>9, <1>10, <1>11
    <2> QED
        BY <1>8, <2>1
<1>14. ASSUME NEW i \in 1 .. q
       PROVE  /\ ~file.tried[i].fInTried /\ file.tried[i].nLastSuccess > 0
              /\ file.tried[i].nRefCount = 0
    <2>1. tried[i] \in T /\ tried[i] \in D /\ file.tried[i] = OnDisk(info[tried[i]])
        BY <1>8, <1>11
    <2>2. info[tried[i]].nLastSuccess > 0
        BY <1>1, <2>1 DEF Flagged, T
    <2> QED
        BY <1>10, <2>1, <2>2
<1>15. /\ m.vvNew \in [NewBuckets -> SUBSET N]
       /\ \A i \in N : /\ info[i].nRefCount \in 1 .. NewBucketsPerAddress
                       /\ info[i].nRefCount = Cardinality(BucketsOf(m.vvNew, i))
    BY <1>1 DEF Referenced, N
<1>16. /\ file.buckets \in [NewBuckets -> SUBSET (1 .. p)]
       /\ \A b \in NewBuckets : file.buckets[b] = {n \in 1 .. p : new[n] \in m.vvNew[b]}
    BY <1>9
<1>17. ASSUME NEW b \in NewBuckets PROVE Cardinality(file.buckets[b]) <= NewBucketSize
    <2> DEFINE S == file.buckets[b]
               V == m.vvNew[b]
               f == [n \in S |-> new[n]]
    <2>1. V \subseteq N /\ S \subseteq 1 .. p /\ \A n \in S : new[n] \in V
        BY <1>15, <1>16
    <2> HIDE DEF S, V
    <2>2. IsFiniteSet(V) /\ Cardinality(V) \in Nat
        BY <1>3, <2>1, FS_Subset, FS_CardinalityType
    <2>3. f \in Injection(S, V)
        <3>1. f \in [S -> V]
            BY <2>1
        <3>2. ASSUME NEW i \in S, NEW j \in S, f[i] = f[j] PROVE i = j
            BY <1>7, <2>1, <3>2
        <3> QED
            BY <3>1, <3>2 DEF Injection, IsInjective
    <2>4. IsFiniteSet(S) /\ Cardinality(S) <= Cardinality(V)
        BY <2>2, <2>3, FS_Injection
    <2>5. Cardinality(S) \in Nat /\ NewBucketSize \in Nat /\ Cardinality(V) <= NewBucketSize
        BY <1>1, <2>4, FS_CardinalityType, AddrAssumption DEF Fits, V, AddrAssumption
    <2> QED
        BY <2>2, <2>4, <2>5 DEF S
<1>18. ASSUME NEW n \in 1 .. p
       PROVE  Cardinality(BucketsOf(file.buckets, n)) \in 1 .. NewBucketsPerAddress
    <2>1. new[n] \in N
        BY <1>7
    <2>2. BucketsOf(file.buckets, n) = BucketsOf(m.vvNew, new[n])
        BY <1>16 DEF BucketsOf
    <2>3. /\ info[new[n]].nRefCount \in 1 .. NewBucketsPerAddress
          /\ info[new[n]].nRefCount = Cardinality(BucketsOf(m.vvNew, new[n]))
        BY <1>15, <2>1
    <2> QED
        BY <2>2, <2>3
<1>19. Written(file)
    <2>1. \A i \in 1 .. p : ~file.new[i].fInTried
        BY <1>10, <1>11
    <2> QED
        BY <1>12, <1>13, <1>14, <1>16, <1>17, <1>18, <2>1 DEF Written
<1>20. \A i, j \in D : Ip[info[i].addr] = Ip[info[j].addr] => i = j
    BY <1>1 DEF Found, D
<1>21. Distinct(file)
    <2>1. ASSUME NEW i \in 1 .. p, NEW j \in 1 .. p,
                 Ip[file.new[i].addr] = Ip[file.new[j].addr]
          PROVE  i = j
        <3>1. /\ new[i] \in D /\ new[j] \in D
              /\ file.new[i].addr = info[new[i]].addr /\ file.new[j].addr = info[new[j]].addr
            BY <1>10, <1>11
        <3>2. new[i] = new[j]
            BY <1>20, <2>1, <3>1
        <3> QED
            BY <1>7, <3>2
    <2>2. ASSUME NEW i \in 1 .. q, NEW j \in 1 .. q,
                 Ip[file.tried[i].addr] = Ip[file.tried[j].addr]
          PROVE  i = j
        <3>1. /\ tried[i] \in D /\ tried[j] \in D
              /\ file.tried[i].addr = info[tried[i]].addr
              /\ file.tried[j].addr = info[tried[j]].addr
            BY <1>10, <1>11
        <3>2. tried[i] = tried[j]
            BY <1>20, <2>2, <3>1
        <3> QED
            BY <1>8, <3>2
    <2>3. ASSUME NEW i \in 1 .. p, NEW j \in 1 .. q,
                 Ip[file.new[i].addr] = Ip[file.tried[j].addr]
          PROVE  FALSE
        <3>1. /\ new[i] \in D /\ tried[j] \in D
              /\ file.new[i].addr = info[new[i]].addr
              /\ file.tried[j].addr = info[tried[j]].addr
            BY <1>10, <1>11
        <3>2. new[i] = tried[j]
            BY <1>20, <2>3, <3>1
        <3>3. new[i] \in N /\ tried[j] \in T
            BY <1>7, <1>8
        <3> QED
            BY <1>2, <3>2, <3>3
    <2> QED
        BY <1>12, <1>13, <2>1, <2>2, <2>3 DEF Distinct
<1> QED
    BY <1>19, <1>21 DEF file

\* The states of LoadNew's loop, and of LoadTried's.
NewTurns(g, n, file) ==
    /\ DOMAIN g = 0 .. n /\ g[0] = EmptyMan
    /\ \A i \in 1 .. n : g[i] = ReadNew(g[i - 1], file, i)

LEMMA LoadNewIs ==
    ASSUME NEW file, Len(file.new) \in Nat
    PROVE  \E g : NewTurns(g, Len(file.new), file) /\ LoadNew(file) = g[Len(file.new)]
<1> DEFINE n == Len(file.new)
           start == EmptyMan
           Loop(g, k) == /\ DOMAIN g = 0 .. n /\ g[0] = start
                         /\ \A i \in 1 .. k : g[i] = ReadNew(g[i - 1], file, i)
           Body(g) == g = [i \in 0 .. n |-> IF i = 0 THEN start
                                            ELSE ReadNew(g[i - 1], file, i)]
           turn == CHOOSE g : Body(g)
           T == {k \in 0 .. n : \E g : Loop(g, k)}
<1>1. LoadNew(file) = turn[n] /\ n \in Nat
    BY DEF LoadNew
<1> HIDE DEF n, start
<1>2. 0 \in T
    <2> DEFINE g == [i \in 0 .. n |-> start]
    <2>1. Loop(g, 0) /\ 0 \in 0 .. n
        BY <1>1
    <2> HIDE DEF g, Loop
    <2> QED
        BY <2>1
<1>3. ASSUME NEW k \in 0 .. n, k \in T, k < n PROVE k + 1 \in T
    <2>1. PICK g : Loop(g, k)
        BY <1>3
    <2> DEFINE s == ReadNew(g[k], file, k + 1)
               h == [i \in 0 .. n |-> IF i = k + 1 THEN s ELSE g[i]]
    <2>2. k \in Nat /\ k + 1 \in 0 .. n /\ 0 \in 0 .. n /\ 0 # k + 1 /\ k < n
        BY <1>1, <1>3
    <2> HIDE DEF s
    <2>3. h[0] = start
        BY <2>1, <2>2
    <2>4. ASSUME NEW i \in 1 .. k + 1 PROVE h[i] = ReadNew(h[i - 1], file, i)
        <3>1. i \in 0 .. n /\ i - 1 \in 0 .. n /\ i - 1 # k + 1
            BY <1>1, <2>2
        <3>2. h[i - 1] = g[i - 1]
            BY <3>1
        <3>3. CASE i = k + 1
            <4>1. h[i] = s /\ i - 1 = k
                BY <2>2, <3>1, <3>3
            <4> HIDE DEF h
            <4> QED
                BY <3>2, <3>3, <4>1 DEF s
        <3>4. CASE i # k + 1
            <4>1. i \in 1 .. k
                BY <2>2, <3>4
            <4>2. h[i] = g[i]
                BY <3>1, <3>4
            <4> HIDE DEF h
            <4> QED
                BY <2>1, <3>2, <4>1, <4>2
        <3> QED
            BY <3>3, <3>4
    <2>5. Loop(h, k + 1)
        BY <2>3, <2>4
    <2> HIDE DEF h, Loop
    <2> QED
        BY <2>2, <2>5
<1>4. \E g : Body(g)
    <2>1. n \in T
        <3> HIDE DEF T
        <3>1. 0 .. n \subseteq T
            BY <1>1, <1>2, <1>3, InductionTo
        <3> QED
            BY <1>1, <3>1
    <2>2. PICK g : Loop(g, n)
        BY <2>1
    <2> DEFINE h == [i \in 0 .. n |-> g[i]]
    <2>3. ASSUME NEW i \in 0 .. n
          PROVE  h[i] = IF i = 0 THEN start ELSE ReadNew(h[i - 1], file, i)
        <3>1. i # 0 => i \in 1 .. n /\ i - 1 \in 0 .. n
            BY <1>1
        <3> QED
            BY <2>2, <3>1
    <2>4. Body(h)
        BY <2>3
    <2> HIDE DEF h, Body
    <2> QED
        BY <2>4
<1>5. Body(turn)
    <2> HIDE DEF Body
    <2> QED
        BY <1>4
<1> HIDE DEF turn
<1>6. Loop(turn, n)
    <2>1. \A i \in 1 .. n : i # 0 /\ i \in 0 .. n
        BY <1>1
    <2> QED
        BY <1>1, <1>5, <2>1
<1>7. NewTurns(turn, n, file)
    BY <1>6 DEF NewTurns, start
<1> QED
    BY <1>1, <1>7 DEF n

TriedTurns(g, n, m, infos) ==
    /\ DOMAIN g = 0 .. n /\ g[0] = m
    /\ \A i \in 1 .. n : g[i] = ReadTried(g[i - 1], infos[i])

LEMMA LoadTriedIs ==
    ASSUME NEW m, NEW infos, Len(infos) \in Nat
    PROVE  \E g : TriedTurns(g, Len(infos), m, infos) /\ LoadTried(m, infos) = g[Len(infos)]
<1> DEFINE n == Len(infos)
           start == m
           Loop(g, k) == /\ DOMAIN g = 0 .. n /\ g[0] = start
                         /\ \A i \in 1 .. k : g[i] = ReadTried(g[i - 1], infos[i])
           Body(g) == g = [i \in 0 .. n |-> IF i = 0 THEN start
                                            ELSE ReadTried(g[i - 1], infos[i])]
           turn == CHOOSE g : Body(g)
           T == {k \in 0 .. n : \E g : Loop(g, k)}
<1>1. LoadTried(m, infos) = turn[n] /\ n \in Nat
    BY DEF LoadTried
<1> HIDE DEF n, start
<1>2. 0 \in T
    <2> DEFINE g == [i \in 0 .. n |-> start]
    <2>1. Loop(g, 0) /\ 0 \in 0 .. n
        BY <1>1
    <2> HIDE DEF g, Loop
    <2> QED
        BY <2>1
<1>3. ASSUME NEW k \in 0 .. n, k \in T, k < n PROVE k + 1 \in T
    <2>1. PICK g : Loop(g, k)
        BY <1>3
    <2> DEFINE s == ReadTried(g[k], infos[k + 1])
               h == [i \in 0 .. n |-> IF i = k + 1 THEN s ELSE g[i]]
    <2>2. k \in Nat /\ k + 1 \in 0 .. n /\ 0 \in 0 .. n /\ 0 # k + 1 /\ k < n
        BY <1>1, <1>3
    <2> HIDE DEF s
    <2>3. h[0] = start
        BY <2>1, <2>2
    <2>4. ASSUME NEW i \in 1 .. k + 1 PROVE h[i] = ReadTried(h[i - 1], infos[i])
        <3>1. i \in 0 .. n /\ i - 1 \in 0 .. n /\ i - 1 # k + 1
            BY <1>1, <2>2
        <3>2. h[i - 1] = g[i - 1]
            BY <3>1
        <3>3. CASE i = k + 1
            <4>1. h[i] = s /\ i - 1 = k
                BY <2>2, <3>1, <3>3
            <4> HIDE DEF h
            <4> QED
                BY <3>2, <3>3, <4>1 DEF s
        <3>4. CASE i # k + 1
            <4>1. i \in 1 .. k
                BY <2>2, <3>4
            <4>2. h[i] = g[i]
                BY <3>1, <3>4
            <4> HIDE DEF h
            <4> QED
                BY <2>1, <3>2, <4>1, <4>2
        <3> QED
            BY <3>3, <3>4
    <2>5. Loop(h, k + 1)
        BY <2>3, <2>4
    <2> HIDE DEF h, Loop
    <2> QED
        BY <2>2, <2>5
<1>4. \E g : Body(g)
    <2>1. n \in T
        <3> HIDE DEF T
        <3>1. 0 .. n \subseteq T
            BY <1>1, <1>2, <1>3, InductionTo
        <3> QED
            BY <1>1, <3>1
    <2>2. PICK g : Loop(g, n)
        BY <2>1
    <2> DEFINE h == [i \in 0 .. n |-> g[i]]
    <2>3. ASSUME NEW i \in 0 .. n
          PROVE  h[i] = IF i = 0 THEN start ELSE ReadTried(h[i - 1], infos[i])
        <3>1. i # 0 => i \in 1 .. n /\ i - 1 \in 0 .. n
            BY <1>1
        <3> QED
            BY <2>2, <3>1
    <2>4. Body(h)
        BY <2>3
    <2> HIDE DEF h, Body
    <2> QED
        BY <2>4
<1>5. Body(turn)
    <2> HIDE DEF Body
    <2> QED
        BY <1>4
<1> HIDE DEF turn
<1>6. Loop(turn, n)
    <2>1. \A i \in 1 .. n : i # 0 /\ i \in 0 .. n
        BY <1>1
    <2> QED
        BY <1>1, <1>5, <2>1
<1>7. TriedTurns(turn, n, m, infos)
    BY <1>6 DEF TriedTurns, start
<1> QED
    BY <1>1, <1>7 DEF n

\* An entry of the file, as it is read.
Numbered(r, k, pos) == [r EXCEPT !.nRefCount = k, !.nRandomPos = pos]

\* What a restart keeps of an entry.
Gist(r) == [r EXCEPT !.nLastTry = 0, !.nRandomPos = 0]

\* What is loaded after k new entries.
NewLoaded(m, file, k) ==
    /\ Sound(m, 0 .. k - 1) /\ m.nIdCount = k /\ DOMAIN m.mapInfo = 0 .. k - 1
    /\ TriedIds(m.mapInfo) = {} /\ m.vvTried = EmptyMan.vvTried
    /\ \A i \in 0 .. k - 1 :
        /\ m.mapInfo[i].addr = file.new[i + 1].addr
        /\ m.mapInfo[i].nRefCount = Cardinality(BucketsOf(file.buckets, i + 1))
        /\ Gist(m.mapInfo[i])
             = Gist(Recount(file.new[i + 1], Cardinality(BucketsOf(file.buckets, i + 1))))

\* Map new is old with one more key.
Extends(new, old, id) ==
    /\ DOMAIN new = DOMAIN old \cup {id} /\ id \notin DOMAIN old
    /\ \A i \in DOMAIN old : new[i] = old[i]

\* t is m with one more new entry, entry e of the file with c references.
OneMore(t, m, X, e, c) ==
    /\ Sound(t, X \cup {m.nIdCount}) /\ t.nIdCount = m.nIdCount + 1 /\ t.vvTried = m.vvTried
    /\ Extends(t.mapInfo, m.mapInfo, m.nIdCount)
    /\ t.mapInfo[m.nIdCount].addr = e.addr /\ t.mapInfo[m.nIdCount].nRefCount = c
    /\ Gist(t.mapInfo[m.nIdCount]) = Gist(Recount(e, c))
    /\ ~t.mapInfo[m.nIdCount].fInTried

LEMMA ReadNewIs ==
    ASSUME NEW m, NEW X, Sound(m, X), NEW file, NEW n, file.new[n] \in Info,
           ~file.new[n].fInTried, Ip[file.new[n].addr] \notin DOMAIN m.mapAddr,
           Cardinality(BucketsOf(file.buckets, n)) \in Nat
    PROVE  OneMore(ReadNew(m, file, n), m, X, file.new[n],
                   Cardinality(BucketsOf(file.buckets, n)))
<1> DEFINE pos == Len(m.vRandom) + 1
           t == ReadNew(m, file, n)
           c == Cardinality(BucketsOf(file.buckets, n))
           r == Numbered(file.new[n], c, pos)
           info == Put(m.mapInfo, m.nIdCount, r)
           addrs == Put(m.mapAddr, Ip[file.new[n].addr], m.nIdCount)
           v == Append(m.vRandom, m.nIdCount)
<1>1. c = Cardinality({b \in NewBuckets : n \in file.buckets[b]}) /\ IsMan(m) /\ pos \in Nat
      /\ c \in Nat
    BY DEF BucketsOf, Sound, Ordered
<1>2. t = [m EXCEPT !.mapInfo = info, !.mapAddr = addrs, !.vRandom = v,
                    !.nIdCount = m.nIdCount + 1, !.nNew = m.nNew + 1]
    BY <1>1 DEF ReadNew, Numbered
<1> HIDE DEF pos, t, c
<1>3. /\ r \in Info /\ r.nRefCount = c /\ r.nRandomPos = pos /\ r.addr = file.new[n].addr
      /\ ~r.fInTried /\ Gist(r) = Gist(Recount(file.new[n], c))
    <2>1. file.new[n] \in Info /\ ~file.new[n].fInTried /\ c \in Nat /\ pos \in Nat
        BY <1>1
    <2> HIDE DEF info, addrs, v
    <2>2. Gist(r) = Gist(Recount(file.new[n], c))
        BY <2>1 DEF Numbered, Info, Recount, Gist
    <2> QED
        BY <2>1, <2>2 DEF Numbered, Info
<1> HIDE DEF info, addrs, v, r
<1>4. DOMAIN m = {"nIdCount", "mapInfo", "mapAddr", "vRandom", "nTried", "nNew", "vvTried",
                  "vvNew"}
    BY <1>1 DEF IsMan
<1>5. /\ t.mapInfo = info /\ t.mapAddr = addrs /\ t.vRandom = v /\ t.nIdCount = m.nIdCount + 1
      /\ t.nNew = m.nNew + 1 /\ t.nTried = m.nTried /\ t.vvTried = m.vvTried
      /\ t.vvNew = m.vvNew
    BY <1>2, <1>4
<1>6. DOMAIN t = DOMAIN m /\ t = [i \in DOMAIN t |-> t[i]]
    BY <1>2
<1>7. IsMan(t)
    BY <1>4, <1>6 DEF IsMan
<1>8. info = Put(m.mapInfo, m.nIdCount, r) /\ addrs = Put(m.mapAddr, Ip[r.addr], m.nIdCount)
      /\ v = Append(m.vRandom, m.nIdCount)
    BY <1>3 DEF info, addrs, v
<1>9. Added(m, r, t)
    BY <1>5, <1>7, <1>8 DEF Added
<1>10. r.nRandomPos = Len(m.vRandom) + 1 /\ Ip[r.addr] \notin DOMAIN m.mapAddr
    BY <1>3 DEF pos
<1>11. Sound(t, X \cup {m.nIdCount})
    <2>1. r \in Info /\ ~r.fInTried
        BY <1>3
    <2> QED
        BY <1>9, <1>10, <2>1, AddedKeeps
<1>12. m.nIdCount \notin DOMAIN m.mapInfo
    <2>1. m.nIdCount \in Nat /\ DOMAIN m.mapInfo \subseteq 0 .. m.nIdCount - 1
        BY DEF Sound, Entries
    <2> QED
        BY <2>1
<1>13. /\ DOMAIN t.mapInfo = DOMAIN m.mapInfo \cup {m.nIdCount} /\ t.mapInfo[m.nIdCount] = r
       /\ \A i \in DOMAIN m.mapInfo : t.mapInfo[i] = m.mapInfo[i]
    BY <1>5, <1>8, <1>12 DEF Put
<1>14. Extends(t.mapInfo, m.mapInfo, m.nIdCount)
    BY <1>12, <1>13 DEF Extends
<1>15. OneMore(t, m, X, file.new[n], c)
    BY <1>3, <1>5, <1>11, <1>13, <1>14 DEF OneMore
<1> QED
    BY <1>15 DEF t, c

LEMMA ReadNewKeeps ==
    ASSUME NEW file, Written(file), Distinct(file), NEW k \in Nat, k + 1 <= Len(file.new),
           NEW m, NewLoaded(m, file, k)
    PROVE  NewLoaded(ReadNew(m, file, k + 1), file, k + 1)
<1> DEFINE n == k + 1
           t == ReadNew(m, file, n)
           c == Cardinality(BucketsOf(file.buckets, n))
           X == 0 .. k - 1
           L == Len(file.new)
<1>1. /\ file.new \in Seq(Info) /\ L \in Nat /\ n \in 1 .. L
    BY DEF Written
<1>2. file.new[n] \in Info /\ ~file.new[n].fInTried
    BY <1>1 DEF Written
<1>3. c \in 1 .. NewBucketsPerAddress /\ c \in Nat
    BY <1>1, AddrAssumption DEF Written, AddrAssumption
<1>4. /\ Sound(m, X) /\ m.nIdCount = k /\ DOMAIN m.mapInfo = X
      /\ TriedIds(m.mapInfo) = {} /\ m.vvTried = EmptyMan.vvTried
      /\ \A i \in X :
            /\ m.mapInfo[i].addr = file.new[i + 1].addr
            /\ m.mapInfo[i].nRefCount = Cardinality(BucketsOf(file.buckets, i + 1))
            /\ Gist(m.mapInfo[i])
                 = Gist(Recount(file.new[i + 1], Cardinality(BucketsOf(file.buckets, i + 1))))
    BY DEF NewLoaded
<1> HIDE DEF c, X, t, L, n
<1>5. Found(m.mapInfo, m.mapAddr)
    BY <1>4 DEF Sound
<1>8. Ip[file.new[n].addr] \notin DOMAIN m.mapAddr
    <2> SUFFICES ASSUME Ip[file.new[n].addr] \in DOMAIN m.mapAddr PROVE FALSE
        OBVIOUS
    <2>1. PICK i \in X : Ip[file.new[n].addr] = Ip[m.mapInfo[i].addr]
        BY <1>4, <1>5 DEF Found
    <2>2. Ip[file.new[n].addr] = Ip[file.new[i + 1].addr]
        BY <1>4, <2>1
    <2>3. i + 1 \in 1 .. L /\ i + 1 # n
        BY <1>1 DEF X, n
    <2> QED
        BY <1>1, <2>2, <2>3 DEF Distinct, L
<1>9. /\ Sound(t, X \cup {k}) /\ DOMAIN t.mapInfo = X \cup {k} /\ k \notin X
      /\ t.mapInfo[k].addr = file.new[n].addr /\ t.mapInfo[k].nRefCount = c
      /\ Gist(t.mapInfo[k]) = Gist(Recount(file.new[n], c))
      /\ ~t.mapInfo[k].fInTried /\ t.nIdCount = k + 1 /\ t.vvTried = EmptyMan.vvTried
      /\ \A i \in X : t.mapInfo[i] = m.mapInfo[i]
    <2>1. Sound(m, X) /\ m.nIdCount = k
        BY <1>4
    <2>2. c = Cardinality(BucketsOf(file.buckets, n)) /\ c \in Nat /\ t = ReadNew(m, file, n)
        BY <1>3 DEF c, t
    <2>3. OneMore(t, m, X, file.new[n], c)
        BY <1>2, <1>8, <2>1, <2>2, ReadNewIs
    <2> QED
        BY <1>4, <2>3 DEF Extends, OneMore
<1>10. X \cup {k} = 0 .. (k + 1) - 1
    BY DEF X
<1>12. TriedIds(t.mapInfo) = {}
    <2>1. ASSUME NEW i \in DOMAIN t.mapInfo PROVE ~t.mapInfo[i].fInTried
        <3>1. CASE i = k
            BY <1>9, <3>1
        <3>2. CASE i \in X
            BY <1>4, <1>9, <3>2 DEF TriedIds
        <3> QED
            BY <1>9, <3>1, <3>2
    <2> QED
        BY <2>1 DEF TriedIds
<1>13. ASSUME NEW i \in X \cup {k}
       PROVE  /\ t.mapInfo[i].addr = file.new[i + 1].addr
              /\ t.mapInfo[i].nRefCount = Cardinality(BucketsOf(file.buckets, i + 1))
              /\ Gist(t.mapInfo[i])
                   = Gist(Recount(file.new[i + 1], Cardinality(BucketsOf(file.buckets, i + 1))))
    <2>1. CASE i = k
        BY <1>9, <2>1 DEF c, n
    <2>2. CASE i \in X
        BY <1>4, <1>9, <2>2
    <2> QED
        BY <2>1, <2>2
<1>14. NewLoaded(t, file, k + 1)
    BY <1>9, <1>10, <1>12, <1>13 DEF NewLoaded
<1> QED
    BY <1>14 DEF t, n

LEMMA LoadNewKeeps ==
    ASSUME NEW file, Written(file), Distinct(file)
    PROVE  NewLoaded(LoadNew(file), file, Len(file.new))
<1> DEFINE n == Len(file.new)
<1>1. n \in Nat
    BY DEF Written
<1>2. PICK g : NewTurns(g, n, file) /\ LoadNew(file) = g[n]
    BY <1>1, LoadNewIs
<1> HIDE DEF n
<1> DEFINE T == {k \in 0 .. n : NewLoaded(g[k], file, k)}
<1>3. 0 \in T
    <2> DEFINE m == EmptyMan
    <2>1. Kept(m)
        BY EmptyManKept
    <2>2. 0 .. 0 - 1 = {} /\ 0 \in 0 .. n
        BY <1>1
    <2>3. Sound(m, 0 .. 0 - 1)
        BY <2>1, <2>2 DEF Kept
    <2>4. m.nIdCount = 0 /\ DOMAIN m.mapInfo = {}
        BY DEF EmptyMan
    <2>5. TriedIds(m.mapInfo) = {}
        BY <2>4 DEF TriedIds
    <2> HIDE DEF m
    <2>6. NewLoaded(m, file, 0)
        BY <2>2, <2>3, <2>4, <2>5 DEF NewLoaded, m
    <2> QED
        BY <1>2, <2>2, <2>6 DEF NewTurns, m
<1>4. ASSUME NEW k \in 0 .. n, k \in T, k < n PROVE k + 1 \in T
    <2>1. k \in Nat /\ k + 1 \in 1 .. n /\ k + 1 <= Len(file.new) /\ NewLoaded(g[k], file, k)
        BY <1>1, <1>4 DEF n
    <2>2. g[k + 1] = ReadNew(g[k], file, k + 1)
        <3>1. \A i \in 1 .. n : g[i] = ReadNew(g[i - 1], file, i)
            BY <1>2 DEF NewTurns
        <3>2. (k + 1) - 1 = k
            BY <2>1
        <3> QED
            BY <2>1, <3>1, <3>2
    <2>3. NewLoaded(ReadNew(g[k], file, k + 1), file, k + 1)
        BY <2>1, ReadNewKeeps
    <2> QED
        BY <1>1, <2>1, <2>2, <2>3
<1>5. n \in T
    <2> HIDE DEF T
    <2>1. 0 .. n \subseteq T
        BY <1>1, <1>3, <1>4, InductionTo
    <2> QED
        BY <1>1, <2>1
<1> QED
    BY <1>2, <1>5 DEF n

\* The new buckets, as the file gives them.
Buckets(file) == [b \in NewBuckets |-> {n - 1 : n \in file.buckets[b]}]

Rebucketed(m, file) == [m EXCEPT !.vvNew = Buckets(file)]

LEMMA RebucketKeeps ==
    ASSUME NEW file, Written(file), NEW m, NewLoaded(m, file, Len(file.new))
    PROVE  Kept(Rebucketed(m, file)) /\ Rebucketed(m, file).mapAddr = m.mapAddr
           /\ Rebucketed(m, file).mapInfo = m.mapInfo
<1> DEFINE n == Len(file.new)
           X == 0 .. n - 1
           V == Buckets(file)
           t == Rebucketed(m, file)
           info == m.mapInfo
<1>1. /\ Sound(m, X) /\ DOMAIN info = X /\ TriedIds(info) = {}
      /\ m.vvTried = EmptyMan.vvTried
      /\ \A i \in X : info[i].nRefCount = Cardinality(BucketsOf(file.buckets, i + 1))
    BY DEF NewLoaded
<1>2. /\ n \in Nat /\ file.buckets \in [NewBuckets -> SUBSET (1 .. n)]
      /\ \A b \in NewBuckets : Cardinality(file.buckets[b]) <= NewBucketSize
      /\ \A k \in 1 .. n : Cardinality(BucketsOf(file.buckets, k)) \in 1 .. NewBucketsPerAddress
    BY DEF Written
<1>3. \A b \in NewBuckets : /\ V[b] = {k - 1 : k \in file.buckets[b]}
                            /\ file.buckets[b] \subseteq 1 .. n
    BY <1>2 DEF Buckets
<1>4. /\ IsMan(t) /\ t.nIdCount = m.nIdCount /\ t.mapAddr = m.mapAddr
      /\ t.vRandom = m.vRandom /\ t.nTried = m.nTried /\ t.nNew = m.nNew
      /\ t.mapInfo = info /\ t.vvTried = m.vvTried /\ t.vvNew = V
    BY <1>1 DEF Sound, IsMan, Rebucketed
<1> HIDE DEF n, X, V, t, info
<1>5. NewIds(info) = X
    BY <1>1 DEF NewIds, TriedIds
<1>6. \A b \in NewBuckets : V[b] \subseteq X
    <2> SUFFICES ASSUME NEW b \in NewBuckets, NEW k \in file.buckets[b] PROVE k - 1 \in X
        BY <1>3
    <2>1. k \in 1 .. n
        BY <1>3
    <2> QED
        BY <1>2, <2>1 DEF X
<1>7. Referenced(info, V, {})
    <2>1. V \in [NewBuckets -> SUBSET NewIds(info)]
        <3>1. V = [b \in NewBuckets |-> V[b]]
            BY DEF V, Buckets
        <3> QED
            BY <1>5, <1>6, <3>1
    <2>2. ASSUME NEW i \in X
          PROVE  /\ info[i].nRefCount \in 1 .. NewBucketsPerAddress
                 /\ info[i].nRefCount = Cardinality(BucketsOf(V, i))
        <3>1. i + 1 \in 1 .. n /\ i \in Nat
            BY <1>2 DEF X
        <3>2. ASSUME NEW b \in NewBuckets PROVE i + 1 \in file.buckets[b] <=> i \in V[b]
            <4>1. ASSUME i + 1 \in file.buckets[b] PROVE i \in V[b]
                <5>1. i = (i + 1) - 1
                    BY <3>1
                <5> QED
                    BY <1>3, <4>1, <5>1
            <4>2. ASSUME i \in V[b] PROVE i + 1 \in file.buckets[b]
                <5>1. PICK k \in file.buckets[b] : i = k - 1
                    BY <1>3, <4>2
                <5>2. k \in 1 .. n
                    BY <1>3
                <5>3. k = i + 1
                    BY <5>1, <5>2
                <5> QED
                    BY <5>3
            <4> QED
                BY <4>1, <4>2
        <3>3. BucketsOf(file.buckets, i + 1) = BucketsOf(V, i)
            BY <3>2 DEF BucketsOf
        <3> QED
            BY <1>1, <1>2, <3>1, <3>3
    <2> QED
        BY <1>5, <2>1, <2>2 DEF Referenced
<1>8. \A b \in NewBuckets : Cardinality(V[b]) <= NewBucketSize
    <2> SUFFICES ASSUME NEW b \in NewBuckets PROVE Cardinality(V[b]) <= NewBucketSize
        OBVIOUS
    <2> DEFINE S == file.buckets[b]
               U == V[b]
               f == [k \in S |-> k - 1]
    <2>1. S \subseteq 1 .. n /\ U = {k - 1 : k \in S} /\ Cardinality(S) <= NewBucketSize
        BY <1>2, <1>3
    <2>2. IsFiniteSet(S)
        <3>1. IsFiniteSet(1 .. n)
            BY <1>2, FS_Interval
        <3> QED
            BY <2>1, <3>1, FS_Subset
    <2> HIDE DEF S, U
    <2>3. f \in Surjection(S, U)
        <3>1. f \in [S -> U] /\ \A u \in U : \E k \in S : f[k] = u
            BY <2>1
        <3> QED
            BY <3>1 DEF Surjection
    <2>4. IsFiniteSet(U) /\ Cardinality(U) <= Cardinality(S)
        BY <2>2, <2>3, FS_Surjection
    <2>5. Cardinality(U) \in Nat /\ Cardinality(S) \in Nat /\ NewBucketSize \in Nat
        BY <2>2, <2>4, FS_CardinalityType, AddrAssumption DEF AddrAssumption
    <2> QED
        BY <2>1, <2>4, <2>5 DEF U
<1>9. \A b \in TriedBuckets : Len(t.vvTried[b]) <= TriedBucketSize
    <2>1. Kept(EmptyMan)
        BY EmptyManKept
    <2> QED
        BY <1>1, <1>4, <2>1 DEF Kept, Fits
<1>10. Sound(t, {})
    BY <1>1, <1>4, <1>7 DEF Sound, info
<1>11. Kept(t)
    BY <1>4, <1>8, <1>9, <1>10 DEF Kept, Fits
<1> QED
    BY <1>4, <1>11 DEF t, info

\* An entry put among the new ones, before it is moved to the tried ones.
AsNew(m, r) ==
    [m EXCEPT !.mapInfo = Put(@, m.nIdCount, r), !.mapAddr = Put(@, Ip[r.addr], m.nIdCount),
              !.vRandom = Append(@, m.nIdCount), !.nIdCount = @ + 1, !.nNew = @ + 1]

LEMMA PutIs ==
    ASSUME NEW f, NEW k, NEW x, NEW y
    PROVE  [Put(f, k, x) EXCEPT ![k] = y] = Put(f, k, y) /\ Put(f, k, x)[k] = x
    BY DEF Put

LEMMA AsNewIs ==
    ASSUME NEW m, IsMan(m), NEW r
    PROVE  Added(m, r, AsNew(m, r))
<1> DEFINE t == AsNew(m, r)
           info == Put(m.mapInfo, m.nIdCount, r)
           addrs == Put(m.mapAddr, Ip[r.addr], m.nIdCount)
           v == Append(m.vRandom, m.nIdCount)
<1>1. t = [m EXCEPT !.mapInfo = info, !.mapAddr = addrs, !.vRandom = v,
                    !.nIdCount = m.nIdCount + 1, !.nNew = m.nNew + 1]
    BY DEF AsNew
<1> HIDE DEF t, info, addrs, v
<1>2. DOMAIN m = {"nIdCount", "mapInfo", "mapAddr", "vRandom", "nTried", "nNew", "vvTried",
                  "vvNew"}
    BY DEF IsMan
<1>3. /\ t.mapInfo = info /\ t.mapAddr = addrs /\ t.vRandom = v /\ t.nIdCount = m.nIdCount + 1
      /\ t.nNew = m.nNew + 1 /\ t.nTried = m.nTried /\ t.vvTried = m.vvTried
      /\ t.vvNew = m.vvNew
    BY <1>1, <1>2
<1>4. DOMAIN t = DOMAIN m /\ t = [i \in DOMAIN t |-> t[i]]
    BY <1>1
<1>5. IsMan(t)
    BY <1>2, <1>4 DEF IsMan
<1> QED
    BY <1>3, <1>5 DEF Added, t, info, addrs, v

\* A tried entry that is read into a bucket with room.
LEMMA ReadTriedIs ==
    ASSUME NEW m, IsMan(m), NEW e \in Info, NEW b, b = TriedBucketOf[e.addr],
           ~(Len(m.vvTried[b]) >= TriedBucketSize),
           NEW r, r = Flag(Move(e, Len(m.vRandom) + 1)), NEW id, id = m.nIdCount,
           NEW t, t = ReadTried(m, e)
    PROVE  /\ IsMan(t) /\ t.nIdCount = id + 1 /\ t.mapInfo = Put(m.mapInfo, id, r)
           /\ t.mapAddr = Put(m.mapAddr, Ip[e.addr], id) /\ t.vRandom = Append(m.vRandom, id)
           /\ t.nTried = m.nTried + 1 /\ t.nNew = m.nNew /\ t.vvNew = m.vvNew
           /\ t.vvTried = [m.vvTried EXCEPT ![b] = Append(@, id)]
<1> DEFINE pos == Len(m.vRandom) + 1
           info == Put(m.mapInfo, id, r)
           addrs == Put(m.mapAddr, Ip[e.addr], id)
           v == Append(m.vRandom, id)
           vv == [m.vvTried EXCEPT ![b] = Append(@, id)]
<1>1. r = [e EXCEPT !.fInTried = TRUE, !.nRandomPos = pos]
    BY DEF Flag, Move, Info
<1>2. t = [m EXCEPT !.mapInfo = info, !.mapAddr = addrs, !.vRandom = v, !.vvTried = vv,
                    !.nIdCount = id + 1, !.nTried = m.nTried + 1]
    BY <1>1 DEF ReadTried
<1> HIDE DEF info, addrs, v, vv
<1>3. DOMAIN m = {"nIdCount", "mapInfo", "mapAddr", "vRandom", "nTried", "nNew", "vvTried",
                  "vvNew"}
    BY DEF IsMan
<1>4. /\ t.mapInfo = info /\ t.mapAddr = addrs /\ t.vRandom = v /\ t.nIdCount = id + 1
      /\ t.nNew = m.nNew /\ t.nTried = m.nTried + 1 /\ t.vvTried = vv /\ t.vvNew = m.vvNew
    BY <1>2, <1>3
<1>5. DOMAIN t = DOMAIN m /\ t = [i \in DOMAIN t |-> t[i]]
    BY <1>2
<1>6. IsMan(t)
    BY <1>3, <1>5 DEF IsMan
<1> QED
    BY <1>4, <1>6 DEF info, addrs, v, vv

\* What LoadTried needs of an entry in the file.
WasTried(e) == e \in Info /\ ~e.fInTried /\ e.nLastSuccess > 0 /\ e.nRefCount = 0

LEMMA ReadTriedKeeps ==
    ASSUME NEW m, Kept(m), NEW e, WasTried(e), Ip[e.addr] \notin DOMAIN m.mapAddr
    PROVE  Kept(ReadTried(m, e))
           /\ DOMAIN ReadTried(m, e).mapAddr \subseteq DOMAIN m.mapAddr \cup {Ip[e.addr]}
<1> DEFINE t == ReadTried(m, e)
           b == TriedBucketOf[e.addr]
           pos == Len(m.vRandom) + 1
           id == m.nIdCount
           r0 == Move(e, pos)
           r == Flag(r0)
           a == AsNew(m, r0)
           T == TriedIds(m.mapInfo)
<1>1. CASE Len(m.vvTried[b]) >= TriedBucketSize
    <2>1. t = m
        BY <1>1 DEF ReadTried
    <2> QED
        BY <2>1
<1>2. CASE ~(Len(m.vvTried[b]) >= TriedBucketSize)
    <2>1. /\ e \in Info /\ ~e.fInTried /\ e.nLastSuccess > 0 /\ e.nRefCount = 0
          /\ IsMan(m) /\ pos \in Nat /\ Sound(m, {}) /\ Fits(m.vvNew, m.vvTried)
          /\ m.vvTried \in [TriedBuckets -> Seq(T)]
        BY DEF Kept, Sound, Ordered, WasTried, Placed
    <2>2. b \in TriedBuckets
        <3>1. e.addr \in Services
            BY <2>1 DEF Info
        <3> QED
            BY <3>1, AddrAssumption DEF AddrAssumption
    <2>3. /\ IsMan(t) /\ t.nIdCount = id + 1 /\ t.mapInfo = Put(m.mapInfo, id, r)
          /\ t.mapAddr = Put(m.mapAddr, Ip[e.addr], id) /\ t.vRandom = Append(m.vRandom, id)
          /\ t.nTried = m.nTried + 1 /\ t.nNew = m.nNew /\ t.vvNew = m.vvNew
          /\ t.vvTried = [m.vvTried EXCEPT ![b] = Append(@, id)]
        BY <1>2, <2>1, ReadTriedIs
    <2> HIDE DEF t, b, pos, T
    <2>4. /\ r0 \in Info /\ r0.nRandomPos = pos /\ r0.addr = e.addr /\ ~r0.fInTried
          /\ r0.nRefCount = 0 /\ r0.nLastSuccess > 0
        BY <2>1, MoveIs
    <2> HIDE DEF r0
    <2>5. Settled(r0, r)
        <3>1. /\ r \in Info /\ r.fInTried /\ r.addr = r0.addr
              /\ r.nLastSuccess = r0.nLastSuccess
              /\ r.nRefCount = r0.nRefCount /\ r.nRandomPos = r0.nRandomPos
            BY <2>4, FlagIs
        <3> HIDE DEF r
        <3> QED
            BY <2>4, <3>1 DEF Settled
    <2> HIDE DEF r, a
    <2>6. Added(m, r0, a)
        BY <2>1, AsNewIs DEF a
    <2>7. /\ IsMan(a) /\ a.nIdCount = id + 1 /\ a.mapInfo = Put(m.mapInfo, id, r0)
          /\ a.mapAddr = Put(m.mapAddr, Ip[e.addr], id) /\ a.vRandom = Append(m.vRandom, id)
          /\ a.nTried = m.nTried /\ a.nNew = m.nNew + 1
          /\ a.vvTried = m.vvTried /\ a.vvNew = m.vvNew
        BY <2>4, <2>6 DEF Added
    <2>8. Sound(a, {id}) /\ id \in NewIds(a.mapInfo) /\ BucketsOf(a.vvNew, id) = {}
        <3> DEFINE X == {}
        <3>1. Sound(m, X)
            BY <2>1
        <3> HIDE DEF X
        <3>2. r0 \in Info /\ ~r0.fInTried /\ r0.nRandomPos = Len(m.vRandom) + 1
              /\ Ip[r0.addr] \notin DOMAIN m.mapAddr
            BY <2>4 DEF pos
        <3> HIDE DEF id
        <3>3. Sound(a, X \cup {m.nIdCount}) /\ m.nIdCount \in NewIds(a.mapInfo)
              /\ BucketsOf(a.vvNew, m.nIdCount) = {}
            BY <2>6, <3>1, <3>2, AddedKeeps
        <3>4. X \cup {m.nIdCount} = {id}
            BY DEF X, id
        <3> QED
            BY <3>3, <3>4 DEF id
    <2>9. Sound(t, {})
        <3>1. t.mapInfo = [a.mapInfo EXCEPT ![id] = r] /\ a.mapInfo[id] = r0
            <4> DEFINE M == m.mapInfo
            <4>1. t.mapInfo = Put(M, id, r) /\ a.mapInfo = Put(M, id, r0)
                BY <2>3, <2>7
            <4> HIDE DEF M, id
            <4>2. [Put(M, id, r0) EXCEPT ![id] = r] = Put(M, id, r) /\ Put(M, id, r0)[id] = r0
                BY DEF Put
            <4> QED
                BY <4>1, <4>2
        <3>2. t.vvNew = Left(a.vvNew, id)
            <4>1. a.vvNew \in [NewBuckets -> SUBSET NewIds(a.mapInfo)]
                BY <2>8 DEF Sound, Referenced
            <4>2. \A c \in NewBuckets : a.vvNew[c] \ {id} = a.vvNew[c]
                BY <2>8 DEF BucketsOf
            <4>3. Left(a.vvNew, id) = a.vvNew
                BY <4>1, <4>2 DEF Left
            <4> QED
                BY <2>3, <2>7, <4>3
        <3>3. t.nNew = a.nNew - 1
            <4>1. m.nNew \in Nat
                <5>1. m.nNew = Cardinality(NewIds(m.mapInfo)) /\ Entries(m.mapInfo, m.nIdCount)
                    BY <2>1 DEF Sound, Counted
                <5>2. NewIds(m.mapInfo) \in SUBSET DOMAIN m.mapInfo
                    BY DEF NewIds
                <5> QED
                    BY <5>1, <5>2, IdsFinite
            <4> QED
                BY <2>3, <2>7, <4>1
        <3>4. /\ t.nIdCount = a.nIdCount /\ t.mapAddr = a.mapAddr /\ t.vRandom = a.vRandom
              /\ t.nTried = a.nTried + 1 /\ Settled(a.mapInfo[id], r)
              /\ t.vvTried = [a.vvTried EXCEPT ![b] = Append(@, id)]
            BY <2>3, <2>5, <2>7, <3>1
        <3>5. Pushed(a, id, b, r, t)
            BY <2>3, <3>1, <3>2, <3>3, <3>4 DEF Pushed
        <3> HIDE DEF id
        <3> QED
            BY <2>2, <2>8, <3>5, PushKeeps
    <2>10. Fits(t.vvNew, t.vvTried)
        <3>1. /\ \A c \in TriedBuckets : Len(m.vvTried[c]) <= TriedBucketSize
              /\ \A c \in NewBuckets : Cardinality(m.vvNew[c]) <= NewBucketSize
            BY <2>1 DEF Fits
        <3>2. Len(m.vvTried[b]) < TriedBucketSize
            <4>1. m.vvTried[b] \in Seq(T) /\ TriedBucketSize \in Nat
                BY <2>1, <2>2, AddrAssumption DEF AddrAssumption
            <4>2. Len(m.vvTried[b]) \in Nat
                BY <4>1
            <4> QED
                BY <1>2, <4>1, <4>2
        <3>3. \A c \in TriedBuckets : Len(Appended(m.vvTried, b, id)[c]) <= TriedBucketSize
            BY <2>1, <2>2, <3>1, <3>2, AppendFits
        <3> QED
            BY <2>3, <3>1, <3>3 DEF Fits, Appended
    <2>11. DOMAIN t.mapAddr = DOMAIN m.mapAddr \cup {Ip[e.addr]}
        BY <2>3 DEF Put
    <2> QED
        BY <2>9, <2>10, <2>11 DEF Kept, t
<1> QED
    BY <1>1, <1>2


\* What is loaded after k tried entries: the addresses of the rest are still unknown.
TriedLoaded(m, infos, k) ==
    /\ Kept(m)
    /\ \A j \in k + 1 .. Len(infos) : Ip[infos[j].addr] \notin DOMAIN m.mapAddr

\* The tried entries of a file.
Triable(infos) ==
    /\ Len(infos) \in Nat
    /\ \A i \in 1 .. Len(infos) : WasTried(infos[i])
    /\ \A i, j \in 1 .. Len(infos) : Ip[infos[i].addr] = Ip[infos[j].addr] => i = j

LEMMA TriedLoadedOn ==
    ASSUME NEW infos, Triable(infos), NEW k \in Nat, k < Len(infos),
           NEW m, TriedLoaded(m, infos, k)
    PROVE  TriedLoaded(ReadTried(m, infos[k + 1]), infos, k + 1)
<1> DEFINE n == Len(infos)
           e == infos[k + 1]
           y == ReadTried(m, e)
<1>1. n \in Nat /\ k + 1 \in 1 .. n /\ k + 1 \in k + 1 .. n
    BY DEF Triable
<1>2. Kept(m) /\ WasTried(e) /\ Ip[e.addr] \notin DOMAIN m.mapAddr
    BY <1>1 DEF TriedLoaded, Triable
<1> HIDE DEF n, e, y
<1>3. Kept(y) /\ DOMAIN y.mapAddr \subseteq DOMAIN m.mapAddr \cup {Ip[e.addr]}
    BY <1>2, ReadTriedKeeps DEF y
<1>4. ASSUME NEW j \in (k + 1) + 1 .. n PROVE Ip[infos[j].addr] \notin DOMAIN y.mapAddr
    <2>1. j \in 1 .. n /\ j # k + 1 /\ j \in k + 1 .. n
        BY <1>1
    <2>2. Ip[infos[j].addr] \notin DOMAIN m.mapAddr
        BY <2>1 DEF TriedLoaded, n
    <2>3. Ip[infos[j].addr] # Ip[e.addr]
        BY <1>1, <2>1 DEF Triable, n, e
    <2> QED
        BY <1>3, <2>2, <2>3
<1>5. TriedLoaded(y, infos, k + 1)
    BY <1>3, <1>4 DEF TriedLoaded, n
<1> QED
    BY <1>5 DEF y, e

LEMMA LoadTriedKeeps ==
    ASSUME NEW m, NEW infos, Triable(infos), TriedLoaded(m, infos, 0)
    PROVE  Kept(LoadTried(m, infos))
<1> DEFINE n == Len(infos)
<1>1. n \in Nat
    BY DEF Triable
<1>2. PICK g : TriedTurns(g, n, m, infos) /\ LoadTried(m, infos) = g[n]
    BY <1>1, LoadTriedIs
<1> HIDE DEF n
<1> DEFINE T == {k \in 0 .. n : TriedLoaded(g[k], infos, k)}
<1>3. 0 \in T
    BY <1>1, <1>2 DEF TriedTurns
<1>4. ASSUME NEW k \in 0 .. n, k \in T, k < n PROVE k + 1 \in T
    <2>1. /\ k \in Nat /\ k + 1 \in 1 .. n /\ k + 1 \in 0 .. n /\ (k + 1) - 1 = k
          /\ TriedLoaded(g[k], infos, k)
        BY <1>1, <1>4
    <2>2. g[k + 1] = ReadTried(g[k], infos[k + 1])
        BY <1>2, <2>1 DEF TriedTurns
    <2>3. TriedLoaded(ReadTried(g[k], infos[k + 1]), infos, k + 1)
        BY <1>4, <2>1, TriedLoadedOn DEF n
    <2> QED
        BY <2>1, <2>2, <2>3
<1>5. n \in T
    <2> HIDE DEF T
    <2>1. 0 .. n \subseteq T
        BY <1>1, <1>3, <1>4, InductionTo
    <2> QED
        BY <1>1, <2>1
<1> QED
    BY <1>2, <1>5 DEF TriedLoaded

\* The tried entries of a file may be read after the new ones.
LEMMA FileIsTriable ==
    ASSUME NEW file, Written(file), Distinct(file)
    PROVE  /\ Triable(file.tried)
           /\ TriedLoaded(Rebucketed(LoadNew(file), file), file.tried, 0)
<1> DEFINE m == LoadNew(file)
           x == Rebucketed(m, file)
           n == Len(file.new)
           infos == file.tried
<1>1. NewLoaded(m, file, n)
    BY LoadNewKeeps
<1> HIDE DEF m
<1>3. Kept(x) /\ x.mapAddr = m.mapAddr
    BY <1>1, RebucketKeeps
<1>4. n \in Nat /\ Len(infos) \in Nat
    BY DEF Written
<1>5. Triable(infos)
    <2>1. ASSUME NEW i \in 1 .. Len(infos) PROVE WasTried(infos[i])
        <3>1. infos[i] \in Info
            BY DEF Written
        <3> QED
            BY <3>1 DEF Written, WasTried
    <2> QED
        BY <1>4, <2>1 DEF Triable, Distinct
<1>6. ASSUME NEW j \in 0 + 1 .. Len(infos) PROVE Ip[infos[j].addr] \notin DOMAIN x.mapAddr
    <2>1. j \in 1 .. Len(infos)
        OBVIOUS
    <2>2. DOMAIN m.mapAddr = {Ip[m.mapInfo[i].addr] : i \in 0 .. n - 1}
        BY <1>1 DEF NewLoaded, Sound, Found
    <2>3. ASSUME NEW i \in 0 .. n - 1 PROVE Ip[m.mapInfo[i].addr] # Ip[infos[j].addr]
        <3>1. m.mapInfo[i].addr = file.new[i + 1].addr
            BY <1>1 DEF NewLoaded
        <3>2. i + 1 \in 1 .. n
            BY <1>4
        <3> QED
            BY <2>1, <3>1, <3>2 DEF Distinct
    <2> QED
        BY <1>3, <2>2, <2>3
<1>7. TriedLoaded(x, infos, 0)
    BY <1>3, <1>6 DEF TriedLoaded
<1> QED
    BY <1>5, <1>7 DEF m

\* Whatever is loaded from what a manager in order has written is in order.
LEMMA UnserializeKeeps ==
    ASSUME NEW file, Written(file), Distinct(file)
    PROVE  Kept(Unserialize(file))
<1> DEFINE x == Rebucketed(LoadNew(file), file)
           infos == file.tried
<1>1. Unserialize(file) = LoadTried(x, infos)
    BY DEF Unserialize, Rebucketed, Buckets
<1>2. Triable(infos) /\ TriedLoaded(x, infos, 0)
    BY FileIsTriable
<1> HIDE DEF x, infos
<1> QED
    BY <1>1, <1>2, LoadTriedKeeps

LEMMA ReloadedIsKept ==
    ASSUME NEW m, Kept(m)
    PROVE  Kept(Unserialize(Serialize(m)))
<1> DEFINE file == Serialize(m)
<1>1. Written(file) /\ Distinct(file)
    BY SerializeIs
<1> HIDE DEF file
<1> QED
    BY <1>1, UnserializeKeeps DEF file

-----------------------------------------------------------------------------
\* What a restart loads

\* Different positions of a bucket stand for different elements of S.
LEMMA NoMoreThan ==
    ASSUME NEW n \in Nat, NEW S, IsFiniteSet(S), NEW f \in [1 .. n -> S],
           \A i, j \in 1 .. n : f[i] = f[j] => i = j
    PROVE  n <= Cardinality(S)
<1>1. f \in Injection(1 .. n, S)
    BY DEF Injection, IsInjective
<1>2. Cardinality(1 .. n) = n
    BY FS_Interval
<1>3. Cardinality(1 .. n) <= Cardinality(S)
    BY <1>1, FS_Injection
<1> QED
    BY <1>2, <1>3

\* The other way round: the elements of S have different positions.
LEMMA NoMoreIn ==
    ASSUME NEW n \in Nat, NEW S, NEW f \in [S -> 1 .. n],
           \A x, y \in S : f[x] = f[y] => x = y
    PROVE  IsFiniteSet(S) /\ Cardinality(S) <= n
<1>1. f \in Injection(S, 1 .. n)
    BY DEF Injection, IsInjective
<1>2. Cardinality(1 .. n) = n /\ IsFiniteSet(1 .. n)
    BY FS_Interval
<1> QED
    BY <1>1, <1>2, FS_Injection

\* The first k tried entries of a file that go to bucket b.
AtHome(infos, k, b) == {j \in 1 .. k : TriedBucketOf[infos[j].addr] = b}

LEMMA AtHomeIs ==
    ASSUME NEW infos, NEW n \in Nat, NEW k \in 0 .. n, NEW b
    PROVE  /\ IsFiniteSet(AtHome(infos, k, b))
           /\ Cardinality(AtHome(infos, k, b)) <= Cardinality(AtHome(infos, n, b))
           /\ k < n /\ TriedBucketOf[infos[k + 1].addr] = b =>
                Cardinality(AtHome(infos, k, b)) < Cardinality(AtHome(infos, n, b))
<1> DEFINE S == AtHome(infos, k, b)
           U == AtHome(infos, n, b)
<1>1. IsFiniteSet(1 .. n)
    BY FS_Interval
<1>2. U \in SUBSET (1 .. n) /\ S \in SUBSET U
    BY DEF AtHome
<1>3. k < n /\ TriedBucketOf[infos[k + 1].addr] = b => k + 1 \in U /\ k + 1 \notin S
    BY DEF AtHome
<1> HIDE DEF S, U
<1>4. IsFiniteSet(U)
    BY <1>1, <1>2, FS_Subset
<1>5. /\ IsFiniteSet(S) /\ Cardinality(S) <= Cardinality(U)
      /\ Cardinality(S) = Cardinality(U) => U = S
    BY <1>2, <1>4, FS_Subset
<1>6. Cardinality(S) \in Nat /\ Cardinality(U) \in Nat
    BY <1>4, <1>5, FS_CardinalityType
<1> QED
    BY <1>3, <1>5, <1>6 DEF S, U

\* The id that tried entry j gets.
IdAt(x, j) == x.nIdCount + (j - 1)

\* What k tried entries have been added to x: none was lost.
AllRead(m, x, infos, k) ==
    /\ m.nIdCount = x.nIdCount + k /\ m.vvNew = x.vvNew
    /\ DOMAIN m.mapInfo = DOMAIN x.mapInfo \cup {IdAt(x, j) : j \in 1 .. k}
    /\ \A i \in DOMAIN x.mapInfo : m.mapInfo[i] = x.mapInfo[i]
    /\ \A j \in 1 .. k : /\ m.mapInfo[IdAt(x, j)].addr = infos[j].addr
                         /\ Gist(m.mapInfo[IdAt(x, j)]) = Gist(Flag(infos[j]))
    /\ \A b \in TriedBuckets :
        Range(m.vvTried[b]) = {IdAt(x, j) : j \in AtHome(infos, k, b)}

\* No bucket gets more than it has room for.
RoomFor(infos) ==
    \A b \in TriedBuckets : Cardinality(AtHome(infos, Len(infos), b)) <= TriedBucketSize

LEMMA RoomForNext ==
    ASSUME NEW x, x.nIdCount \in Nat, NEW infos, Triable(infos), RoomFor(infos),
           NEW k \in Nat, k < Len(infos), NEW m, Kept(m), AllRead(m, x, infos, k),
           NEW b \in TriedBuckets, b = TriedBucketOf[infos[k + 1].addr]
    PROVE  ~(Len(m.vvTried[b]) >= TriedBucketSize)
<1> DEFINE v == m.vvTried[b]
           S == AtHome(infos, k, b)
           T == TriedIds(m.mapInfo)
           n == Len(infos)
<1>1. v \in Seq(T) /\ \A p, q \in 1 .. Len(v) : v[p] = v[q] => p = q
    BY DEF Kept, Sound, Placed
<1>2. Range(v) = {IdAt(x, j) : j \in S}
    BY DEF AllRead
<1>3. n \in Nat /\ k \in 0 .. n
    BY DEF Triable
<1>4. /\ IsFiniteSet(S) /\ Cardinality(S) < Cardinality(AtHome(infos, n, b))
      /\ Cardinality(AtHome(infos, n, b)) <= TriedBucketSize
    BY <1>3, AtHomeIs DEF RoomFor
<1> HIDE DEF v, S, T, n
<1>5. Len(v) \in Nat /\ DOMAIN v = 1 .. Len(v)
    BY <1>1
<1> DEFINE f == [p \in 1 .. Len(v) |-> CHOOSE j \in S : v[p] = IdAt(x, j)]
<1>6. ASSUME NEW p \in 1 .. Len(v) PROVE f[p] \in S /\ v[p] = IdAt(x, f[p])
    <2>1. v[p] \in Range(v)
        BY <1>5 DEF Range
    <2>2. \E j \in S : v[p] = IdAt(x, j)
        BY <1>2, <2>1
    <2> QED
        BY <2>2
<1>7. f \in [1 .. Len(v) -> S]
    BY <1>6
<1> HIDE DEF f
<1>8. \A p, q \in 1 .. Len(v) : f[p] = f[q] => p = q
    BY <1>1, <1>6
<1>9. Len(v) <= Cardinality(S)
    BY <1>4, <1>5, <1>7, <1>8, NoMoreThan
<1>10. TriedBucketSize \in Nat /\ Cardinality(S) \in Nat
    BY <1>4, FS_CardinalityType, AddrAssumption DEF AddrAssumption
<1>11. Cardinality(AtHome(infos, n, b)) \in Nat
    <2>1. n \in 0 .. n
        BY <1>3
    <2>2. IsFiniteSet(AtHome(infos, n, b))
        BY <1>3, <2>1, AtHomeIs
    <2> QED
        BY <2>2, FS_CardinalityType
<1> QED
    BY <1>4, <1>5, <1>9, <1>10, <1>11 DEF v

\* A bucket's elements after one more.
LEMMA RangeAppend ==
    ASSUME NEW S, NEW v \in Seq(S), NEW y
    PROVE  Range(Append(v, y)) = Range(v) \cup {y}
<1> DEFINE w == Append(v, y)
<1>1. /\ Len(v) \in Nat /\ DOMAIN v = 1 .. Len(v)
      /\ DOMAIN w = 1 .. Len(v) + 1 /\ w[Len(v) + 1] = y
      /\ \A i \in 1 .. Len(v) : w[i] = v[i]
    <2>1. v \in Seq(S \cup {y}) /\ y \in S \cup {y}
        OBVIOUS
    <2> HIDE DEF w
    <2> DEFINE U == S \cup {y}
    <2> HIDE DEF U
    <2>3. v \in Seq(U) /\ y \in U
        BY <2>1 DEF U
    <2> QED
        BY <2>3 DEF w
<1> HIDE DEF w
<1>2. \A i \in 1 .. Len(v) + 1 : i \in 1 .. Len(v) \/ i = Len(v) + 1
    BY <1>1
<1>3. \A i \in 1 .. Len(v) : i \in 1 .. Len(v) + 1
    BY <1>1
<1>4. Len(v) + 1 \in 1 .. Len(v) + 1
    BY <1>1
<1>5. Range(w) = {w[i] : i \in 1 .. Len(v) + 1} /\ Range(v) = {v[i] : i \in 1 .. Len(v)}
    BY <1>1 DEF Range
<1> QED
    BY <1>1, <1>2, <1>3, <1>4, <1>5 DEF w

LEMMA GistIs ==
    ASSUME NEW e \in Info, NEW pos \in Nat
    PROVE  /\ Gist(Flag(Move(e, pos))) = Gist(Flag(e))
           /\ Flag(Move(e, pos)).addr = e.addr
    BY DEF Gist, Flag, Move, Info

\* One more tried entry is read, into a bucket that has room.
LEMMA ReadOn ==
    ASSUME NEW x, x.nIdCount \in Nat, NEW infos, Triable(infos), RoomFor(infos),
           NEW k \in Nat, k < Len(infos), NEW m, Kept(m), AllRead(m, x, infos, k)
    PROVE  AllRead(ReadTried(m, infos[k + 1]), x, infos, k + 1)
<1> DEFINE e == infos[k + 1]
           t == ReadTried(m, e)
           b == TriedBucketOf[e.addr]
           pos == Len(m.vRandom) + 1
           id == m.nIdCount
           r == Flag(Move(e, pos))
           D == DOMAIN m.mapInfo
           T == TriedIds(m.mapInfo)
<1>1. k + 1 \in 1 .. Len(infos) /\ 1 .. k + 1 = 1 .. k \cup {k + 1} /\ k + 1 \notin 1 .. k
    BY DEF Triable
<1>2. e \in Info /\ b \in TriedBuckets
    <2>1. e \in Info
        BY <1>1 DEF Triable, WasTried
    <2>2. e.addr \in Services
        BY <2>1 DEF Info
    <2> QED
        BY <2>1, <2>2, AddrAssumption DEF AddrAssumption
<1>3. /\ IsMan(m) /\ Entries(m.mapInfo, id) /\ m.vRandom \in Seq(D)
      /\ m.vvTried \in [TriedBuckets -> Seq(T)]
    BY DEF Kept, Sound, Ordered, Placed
<1>4. pos \in Nat /\ id \in Nat /\ id \notin D
    BY <1>3 DEF Entries
<1>5. ~(Len(m.vvTried[b]) >= TriedBucketSize)
    BY <1>2, RoomForNext
<1> HIDE DEF e
<1>6. /\ IsMan(t) /\ t.nIdCount = id + 1 /\ t.mapInfo = Put(m.mapInfo, id, r)
      /\ t.mapAddr = Put(m.mapAddr, Ip[e.addr], id) /\ t.vRandom = Append(m.vRandom, id)
      /\ t.nTried = m.nTried + 1 /\ t.nNew = m.nNew /\ t.vvNew = m.vvNew
      /\ t.vvTried = [m.vvTried EXCEPT ![b] = Append(@, id)]
    <2>1. IsMan(m) /\ e \in Info
        BY <1>2, <1>3
    <2> QED
        BY <2>1, <1>5, ReadTriedIs
<1>7. r.addr = e.addr /\ Gist(r) = Gist(Flag(e))
    BY <1>2, <1>4, GistIs
<1>8. id = IdAt(x, k + 1) /\ t.nIdCount = x.nIdCount + (k + 1)
    <2>1. m.nIdCount = x.nIdCount + k
        BY DEF AllRead
    <2>2. IdAt(x, k + 1) = x.nIdCount + k
        BY DEF IdAt
    <2>3. t.nIdCount = id + 1
        BY <1>6
    <2> HIDE DEF t
    <2> QED
        BY <2>1, <2>2, <2>3
<1> HIDE DEF t, b, pos, r, D, T
<1>9. /\ DOMAIN t.mapInfo = D \cup {id} /\ t.mapInfo[id] = r
      /\ \A i \in D : t.mapInfo[i] = m.mapInfo[i]
    BY <1>4, <1>6 DEF Put, D
<1>10. /\ D = DOMAIN x.mapInfo \cup {IdAt(x, j) : j \in 1 .. k}
       /\ \A i \in DOMAIN x.mapInfo : m.mapInfo[i] = x.mapInfo[i]
       /\ \A j \in 1 .. k : /\ m.mapInfo[IdAt(x, j)].addr = infos[j].addr
                            /\ Gist(m.mapInfo[IdAt(x, j)]) = Gist(Flag(infos[j]))
       /\ \A c \in TriedBuckets :
            Range(m.vvTried[c]) = {IdAt(x, j) : j \in AtHome(infos, k, c)}
       /\ m.vvNew = x.vvNew
    BY DEF AllRead, D
<1>11. DOMAIN t.mapInfo = DOMAIN x.mapInfo \cup {IdAt(x, j) : j \in 1 .. k + 1}
    <2> HIDE DEF id
    <2>1. {IdAt(x, j) : j \in 1 .. k + 1} = {IdAt(x, j) : j \in 1 .. k} \cup {IdAt(x, k + 1)}
        BY <1>1, Zenon
    <2> QED
        BY <1>8, <1>9, <1>10, <2>1
<1>12. \A i \in DOMAIN x.mapInfo : t.mapInfo[i] = x.mapInfo[i]
    BY <1>9, <1>10
<1>13. ASSUME NEW j \in 1 .. k + 1
       PROVE  /\ t.mapInfo[IdAt(x, j)].addr = infos[j].addr
              /\ Gist(t.mapInfo[IdAt(x, j)]) = Gist(Flag(infos[j]))
    <2>1. CASE j = k + 1
        BY <1>7, <1>8, <1>9, <2>1 DEF e
    <2>2. CASE j \in 1 .. k
        <3>1. IdAt(x, j) \in D
            BY <1>10, <2>2
        <3>2. t.mapInfo[IdAt(x, j)] = m.mapInfo[IdAt(x, j)]
            BY <1>9, <3>1
        <3> QED
            BY <1>10, <2>2, <3>2
    <2> QED
        BY <1>1, <2>1, <2>2
<1>14. ASSUME NEW c \in TriedBuckets
       PROVE  Range(t.vvTried[c]) = {IdAt(x, j) : j \in AtHome(infos, k + 1, c)}
    <2>1. CASE c = b
        <3>1. AtHome(infos, k + 1, c) = AtHome(infos, k, c) \cup {k + 1}
            BY <1>1, <2>1 DEF AtHome, b, e
        <3>2. m.vvTried[c] \in Seq(T) /\ t.vvTried[c] = Append(m.vvTried[c], id)
            BY <1>3, <1>6, <2>1
        <3> HIDE DEF id
        <3>3. Range(t.vvTried[c]) = Range(m.vvTried[c]) \cup {id}
            BY <3>2, RangeAppend
        <3>4. {IdAt(x, j) : j \in AtHome(infos, k + 1, c)}
                = {IdAt(x, j) : j \in AtHome(infos, k, c)} \cup {IdAt(x, k + 1)}
            BY <3>1, Zenon
        <3> QED
            BY <1>8, <1>10, <3>3, <3>4
    <2>2. CASE c # b
        <3>1. AtHome(infos, k + 1, c) = AtHome(infos, k, c)
            BY <1>1, <2>2 DEF AtHome, b, e
        <3>2. t.vvTried[c] = m.vvTried[c]
            BY <1>3, <1>6, <2>2
        <3> QED
            BY <1>10, <3>1, <3>2
    <2> QED
        BY <2>1, <2>2
<1>15. AllRead(t, x, infos, k + 1)
    BY <1>6, <1>8, <1>10, <1>11, <1>12, <1>13, <1>14 DEF AllRead
<1> QED
    BY <1>15 DEF t, e

\* All of them are.
LEMMA LoadAll ==
    ASSUME NEW x, x.nIdCount \in Nat, NEW infos, Triable(infos), RoomFor(infos),
           TriedLoaded(x, infos, 0), x.vvTried = EmptyMan.vvTried
    PROVE  AllRead(LoadTried(x, infos), x, infos, Len(infos))
<1> DEFINE n == Len(infos)
<1>1. n \in Nat
    BY DEF Triable
<1>2. PICK g : TriedTurns(g, n, x, infos) /\ LoadTried(x, infos) = g[n]
    BY <1>1, LoadTriedIs
<1> DEFINE T == {k \in 0 .. n : TriedLoaded(g[k], infos, k) /\ AllRead(g[k], x, infos, k)}
<1>3. 0 \in T
    <2>1. g[0] = x /\ 0 \in 0 .. n
        BY <1>1, <1>2 DEF TriedTurns
    <2>2. 1 .. 0 = {}
        OBVIOUS
    <2>3. \A b \in TriedBuckets : Range(x.vvTried[b]) = {} /\ AtHome(infos, 0, b) = {}
        <3>1. \A b \in TriedBuckets : x.vvTried[b] = <<>>
            BY DEF EmptyMan
        <3> QED
            BY <2>2, <3>1 DEF Range, AtHome
    <2>4. AllRead(x, x, infos, 0)
        BY <2>2, <2>3 DEF AllRead
    <2> QED
        BY <2>1, <2>4
<1> HIDE DEF n
<1>4. ASSUME NEW k \in 0 .. n, k \in T, k < n PROVE k + 1 \in T
    <2>1. /\ k \in Nat /\ k + 1 \in 1 .. n /\ k + 1 \in 0 .. n /\ (k + 1) - 1 = k
          /\ TriedLoaded(g[k], infos, k) /\ AllRead(g[k], x, infos, k)
        BY <1>1, <1>4
    <2>2. g[k + 1] = ReadTried(g[k], infos[k + 1])
        BY <1>2, <2>1 DEF TriedTurns
    <2>3. TriedLoaded(ReadTried(g[k], infos[k + 1]), infos, k + 1)
        BY <1>4, <2>1, TriedLoadedOn DEF n
    <2>4. Kept(g[k])
        BY <2>1 DEF TriedLoaded
    <2>5. AllRead(ReadTried(g[k], infos[k + 1]), x, infos, k + 1)
        BY <1>4, <2>1, <2>4, ReadOn DEF n
    <2> QED
        BY <2>1, <2>2, <2>3, <2>5
<1>5. n \in T
    <2> HIDE DEF T
    <2>1. 0 .. n \subseteq T
        BY <1>1, <1>3, <1>4, InductionTo
    <2> QED
        BY <1>1, <2>1
<1> QED
    BY <1>2, <1>5 DEF n

\* A tried entry is in the bucket of its address and in no other.
LEMMA HomeOfTried ==
    ASSUME NEW m, Kept(m), Homed(m.mapInfo, m.vvTried), NEW i \in TriedIds(m.mapInfo),
           NEW b \in TriedBuckets
    PROVE  /\ TriedBucketOf[m.mapInfo[i].addr] = b <=> i \in Range(m.vvTried[b])
           /\ Len(m.vvTried[b]) \in Nat
           /\ i \in Range(m.vvTried[b]) <=> \E p \in 1 .. Len(m.vvTried[b]) : m.vvTried[b][p] = i
<1>1. Placed(m.mapInfo, m.vvTried)
    BY DEF Kept, Sound
<1>2. \A c \in TriedBuckets : /\ Len(m.vvTried[c]) \in Nat
                              /\ DOMAIN m.vvTried[c] = 1 .. Len(m.vvTried[c])
    <2> DEFINE T == TriedIds(m.mapInfo)
    <2>1. m.vvTried \in [TriedBuckets -> Seq(T)]
        BY <1>1 DEF Placed
    <2> HIDE DEF T
    <2> QED
        BY <2>1
<1>3. \A c \in TriedBuckets :
        i \in Range(m.vvTried[c]) <=> \E p \in 1 .. Len(m.vvTried[c]) : m.vvTried[c][p] = i
    BY <1>2 DEF Range
<1>4. PICK c \in TriedBuckets : \E p \in 1 .. Len(m.vvTried[c]) : m.vvTried[c][p] = i
    BY <1>1 DEF Placed
<1>5. TriedBucketOf[m.mapInfo[i].addr] = c
    BY <1>4 DEF Homed
<1>6. \A d \in TriedBuckets : i \in Range(m.vvTried[d]) => TriedBucketOf[m.mapInfo[i].addr] = d
    BY <1>3 DEF Homed
<1> QED
    BY <1>2, <1>3, <1>4, <1>5, <1>6

\* A file has no more entries for a tried bucket than the bucket had.
LEMMA RoomInFile ==
    ASSUME NEW m, Kept(m), Homed(m.mapInfo, m.vvTried), NEW file, NEW new, NEW tried,
           Stored(m, file, new, tried)
    PROVE  RoomFor(file.tried)
<1> SUFFICES ASSUME NEW b \in TriedBuckets
             PROVE  Cardinality(AtHome(file.tried, Len(file.tried), b)) <= TriedBucketSize
    BY DEF RoomFor
<1> DEFINE v == m.vvTried[b]
           q == Len(tried)
           S == AtHome(file.tried, q, b)
           T == TriedIds(m.mapInfo)
<1>1. /\ q \in Nat /\ tried \in [1 .. q -> T]
      /\ \A i, j \in 1 .. q : tried[i] = tried[j] => i = j
    BY DEF Stored, Listing
<1>2. file.tried = [n \in 1 .. q |-> OnDisk(m.mapInfo[tried[n]])]
    BY DEF Stored
<1>3. Len(file.tried) = q
    BY <1>1, <1>2
<1>4. ASSUME NEW j \in S PROVE j \in 1 .. q /\ \E p \in 1 .. Len(v) : v[p] = tried[j]
    <2>1. j \in 1 .. q /\ TriedBucketOf[file.tried[j].addr] = b
        BY DEF AtHome
    <2>2. file.tried[j].addr = m.mapInfo[tried[j]].addr /\ tried[j] \in T
        <3>1. tried[j] \in T
            BY <1>1, <2>1
        <3>2. m.mapInfo[tried[j]] \in Info
            BY <3>1 DEF Kept, Sound, Entries, TriedIds
        <3>3. file.tried[j] = OnDisk(m.mapInfo[tried[j]])
            BY <1>2, <2>1
        <3> QED
            BY <3>1, <3>2, <3>3, OnDiskIs
    <2> QED
        BY <2>1, <2>2, HomeOfTried
<1>5. Len(v) \in Nat /\ Len(v) <= TriedBucketSize
    <2>1. m.vvTried \in [TriedBuckets -> Seq(T)] /\ Len(v) <= TriedBucketSize
        BY DEF Kept, Sound, Placed, Fits
    <2> HIDE DEF T
    <2> QED
        BY <2>1
<1> HIDE DEF v, q, S, T
<1> DEFINE f == [j \in S |-> CHOOSE p \in 1 .. Len(v) : v[p] = tried[j]]
<1>6. \A j \in S : f[j] \in 1 .. Len(v) /\ v[f[j]] = tried[j]
    BY <1>4
<1>7. f \in [S -> 1 .. Len(v)]
    BY <1>6
<1> HIDE DEF f
<1>8. \A i, j \in S : f[i] = f[j] => i = j
    BY <1>1, <1>4, <1>6
<1>9. IsFiniteSet(S) /\ Cardinality(S) <= Len(v)
    BY <1>5, <1>7, <1>8, NoMoreIn
<1>10. Cardinality(S) \in Nat /\ TriedBucketSize \in Nat
    BY <1>9, FS_CardinalityType, AddrAssumption DEF AddrAssumption
<1> QED
    BY <1>3, <1>5, <1>9, <1>10 DEF S

\* Two entries that a restart does not tell apart.
Same(r, s) == r.addr = s.addr /\ Gist(r) = Gist(s)

\* y has what m has; new and tried list the entries of m in the order of their ids in y,
\* where the tried ones come after those of x.
Copies(y, x, m, new, tried) ==
    /\ DOMAIN y.mapInfo = {n - 1 : n \in 1 .. Len(new)} \cup {IdAt(x, j) : j \in 1 .. Len(tried)}
    /\ \A n \in 1 .. Len(new) : Same(y.mapInfo[n - 1], m.mapInfo[new[n]])
    /\ \A j \in 1 .. Len(tried) : Same(y.mapInfo[IdAt(x, j)], m.mapInfo[tried[j]])
    /\ \A b \in NewBuckets :
        y.vvNew[b] = {n - 1 : n \in {k \in 1 .. Len(new) : new[k] \in m.vvNew[b]}}
    /\ \A b \in TriedBuckets :
        Range(y.vvTried[b]) =
            {IdAt(x, j) : j \in {k \in 1 .. Len(tried) : tried[k] \in Range(m.vvTried[b])}}

\* The entries that are listed are the same as those of the set.
LEMMA ImageOnto ==
    ASSUME NEW info, NEW f, NEW K, NEW S, \A k \in K : f[k] \in S,
           \A i \in S : \E k \in K : f[k] = i
    PROVE  /\ {info[f[k]].addr : k \in K} = {info[i].addr : i \in S}
           /\ {Gist(info[f[k]]) : k \in K} = {Gist(info[i]) : i \in S}
<1> DEFINE A == {info[f[k]].addr : k \in K}
           B == {info[i].addr : i \in S}
           C == {Gist(info[f[k]]) : k \in K}
           D == {Gist(info[i]) : i \in S}
<1>1. A \subseteq B
    OBVIOUS
<1>2. ASSUME NEW z \in B PROVE z \in A
    <2>1. PICK i \in S : z = info[i].addr
        OBVIOUS
    <2>2. PICK k \in K : f[k] = i
        OBVIOUS
    <2> QED
        BY <2>1, <2>2
<1>3. C \subseteq D
    OBVIOUS
<1>4. ASSUME NEW z \in D PROVE z \in C
    <2>1. PICK i \in S : z = Gist(info[i])
        OBVIOUS
    <2>2. PICK k \in K : f[k] = i
        OBVIOUS
    <2> QED
        BY <2>1, <2>2
<1> HIDE DEF A, B, C, D
<1>5. A = B /\ C = D
    BY <1>1, <1>2, <1>3, <1>4
<1> QED
    BY <1>5 DEF A, B, C, D

LEMMA CopiesSame ==
    ASSUME NEW m, Kept(m), NEW new, Listing(new, NewIds(m.mapInfo)), NEW tried,
           Listing(tried, TriedIds(m.mapInfo)), NEW x, NEW y, Copies(y, x, m, new, tried)
    PROVE  Contents(y) = Contents(m)
<1> DEFINE info == m.mapInfo
           N == NewIds(info)
           T == TriedIds(info)
           addrs(z, ids) == {z.mapInfo[i].addr : i \in ids}
           infos(z) == {Gist(z.mapInfo[i]) : i \in DOMAIN z.mapInfo}
<1>1. /\ m.vvNew \in [NewBuckets -> SUBSET N]
      /\ m.vvTried \in [TriedBuckets -> Seq(T)]
    BY DEF Kept, Sound, Referenced, Placed
<1>2. DOMAIN info = N \cup T
    BY DEF NewIds, TriedIds
<1>3. /\ \A n \in 1 .. Len(new) : new[n] \in N
      /\ \A k \in N : \E i \in 1 .. Len(new) : new[i] = k
      /\ \A j \in 1 .. Len(tried) : tried[j] \in T
      /\ \A k \in T : \E i \in 1 .. Len(tried) : tried[i] = k
    BY DEF Listing
<1>4. \A b \in TriedBuckets : Range(m.vvTried[b]) \subseteq T
    <2> HIDE DEF T
    <2> QED
        BY <1>1 DEF Range
<1> HIDE DEF N, T
<1>5. ASSUME NEW b \in NewBuckets PROVE addrs(y, y.vvNew[b]) = addrs(m, m.vvNew[b])
    <2> DEFINE K == {k \in 1 .. Len(new) : new[k] \in m.vvNew[b]}
    <2>1. y.vvNew[b] = {n - 1 : n \in K}
        BY DEF Copies
    <2>2. \A n \in K : y.mapInfo[n - 1].addr = info[new[n]].addr
        BY DEF Copies, Same
    <2>3. \A i \in m.vvNew[b] : \E n \in K : new[n] = i
        BY <1>1, <1>3
    <2>4. \A n \in K : new[n] \in m.vvNew[b]
        OBVIOUS
    <2> HIDE DEF K
    <2>5. addrs(y, y.vvNew[b]) = {y.mapInfo[n - 1].addr : n \in K}
        BY <2>1
    <2>6. addrs(y, y.vvNew[b]) = {info[new[n]].addr : n \in K}
        BY <2>2, <2>5
    <2>7. {info[new[n]].addr : n \in K} = {info[i].addr : i \in m.vvNew[b]}
        BY <2>3, <2>4, ImageOnto
    <2> QED
        BY <2>6, <2>7
<1>6. ASSUME NEW b \in TriedBuckets
      PROVE  addrs(y, Range(y.vvTried[b])) = addrs(m, Range(m.vvTried[b]))
    <2> DEFINE K == {k \in 1 .. Len(tried) : tried[k] \in Range(m.vvTried[b])}
    <2>1. Range(y.vvTried[b]) = {IdAt(x, j) : j \in K}
        BY DEF Copies
    <2>2. \A j \in K : y.mapInfo[IdAt(x, j)].addr = info[tried[j]].addr
        BY DEF Copies, Same
    <2>3. \A i \in Range(m.vvTried[b]) : \E j \in K : tried[j] = i
        BY <1>3, <1>4
    <2>4. \A j \in K : tried[j] \in Range(m.vvTried[b])
        OBVIOUS
    <2> HIDE DEF K
    <2>5. addrs(y, Range(y.vvTried[b])) = {y.mapInfo[IdAt(x, j)].addr : j \in K}
        BY <2>1
    <2>6. addrs(y, Range(y.vvTried[b])) = {info[tried[j]].addr : j \in K}
        BY <2>2, <2>5
    <2>7. {info[tried[j]].addr : j \in K} = {info[i].addr : i \in Range(m.vvTried[b])}
        BY <2>3, <2>4, ImageOnto
    <2> QED
        BY <2>6, <2>7
<1>7. infos(y) = infos(m)
    <2> DEFINE A == {n - 1 : n \in 1 .. Len(new)}
               B == {IdAt(x, j) : j \in 1 .. Len(tried)}
    <2>1. DOMAIN y.mapInfo = A \cup B
        BY DEF Copies
    <2>2. /\ \A n \in 1 .. Len(new) : Gist(y.mapInfo[n - 1]) = Gist(info[new[n]])
          /\ \A j \in 1 .. Len(tried) : Gist(y.mapInfo[IdAt(x, j)]) = Gist(info[tried[j]])
        BY DEF Copies, Same
    <2>3. infos(y) = {Gist(y.mapInfo[i]) : i \in A} \cup {Gist(y.mapInfo[i]) : i \in B}
        BY <2>1
    <2>4. infos(m) = {Gist(info[i]) : i \in N} \cup {Gist(info[i]) : i \in T}
        BY <1>2
    <2>5. {Gist(y.mapInfo[i]) : i \in A} = {Gist(info[i]) : i \in N}
        <3>1. {Gist(y.mapInfo[i]) : i \in A} = {Gist(y.mapInfo[n - 1]) : n \in 1 .. Len(new)}
            OBVIOUS
        <3>2. {Gist(y.mapInfo[i]) : i \in A} = {Gist(info[new[n]]) : n \in 1 .. Len(new)}
            BY <2>2, <3>1
        <3> DEFINE K == 1 .. Len(new)
        <3>3. (\A k \in K : new[k] \in N) /\ (\A i \in N : \E k \in K : new[k] = i)
            BY <1>3
        <3> HIDE DEF A, K
        <3>4. {Gist(info[new[n]]) : n \in K} = {Gist(info[i]) : i \in N}
            BY <3>3, ImageOnto
        <3> QED
            BY <3>2, <3>4 DEF K
    <2>6. {Gist(y.mapInfo[i]) : i \in B} = {Gist(info[i]) : i \in T}
        <3>1. {Gist(y.mapInfo[i]) : i \in B} = {Gist(y.mapInfo[IdAt(x, j)]) : j \in 1 .. Len(tried)}
            OBVIOUS
        <3>2. {Gist(y.mapInfo[i]) : i \in B} = {Gist(info[tried[j]]) : j \in 1 .. Len(tried)}
            BY <2>2, <3>1
        <3> DEFINE K == 1 .. Len(tried)
        <3>3. (\A k \in K : tried[k] \in T) /\ (\A i \in T : \E k \in K : tried[k] = i)
            BY <1>3
        <3> HIDE DEF B, K
        <3>4. {Gist(info[tried[j]]) : j \in K} = {Gist(info[i]) : i \in T}
            BY <3>3, ImageOnto
        <3> QED
            BY <3>2, <3>4 DEF K
    <2> QED
        BY <2>3, <2>4, <2>5, <2>6
<1> QED
    BY <1>5, <1>6, <1>7 DEF Contents, Gist

LEMMA GistOnDisk ==
    ASSUME NEW r \in Info
    PROVE  /\ ~r.fInTried => Gist(Recount(OnDisk(r), r.nRefCount)) = Gist(r)
           /\ r.fInTried /\ r.nRefCount = 0 => Gist(Flag(OnDisk(r))) = Gist(r)
    BY DEF Gist, Recount, OnDisk, Flag, Info

\* What LoadNew makes of a file, and the buckets of the file.
LEMMA RebucketedIs ==
    ASSUME NEW m, IsMan(m), NEW file
    PROVE  /\ Rebucketed(m, file).mapInfo = m.mapInfo
           /\ Rebucketed(m, file).nIdCount = m.nIdCount
           /\ Rebucketed(m, file).vvTried = m.vvTried
           /\ Rebucketed(m, file).vvNew = Buckets(file)
<1> DEFINE B == Buckets(file)
<1>1. Rebucketed(m, file) = [m EXCEPT !.vvNew = B]
    BY DEF Rebucketed
<1> HIDE DEF B
<1>2. DOMAIN m = {"nIdCount", "mapInfo", "mapAddr", "vRandom", "nTried", "nNew", "vvTried",
                  "vvNew"}
    BY DEF IsMan
<1> QED
    BY <1>1, <1>2 DEF B

\* The new entries that are loaded are those of m, with the same references.
LEMMA NewCopied ==
    ASSUME NEW m, Kept(m), NEW file, NEW new, NEW tried, Stored(m, file, new, tried),
           NEW z, NewLoaded(z, file, Len(file.new)), NEW n \in 1 .. Len(new)
    PROVE  Same(z.mapInfo[n - 1], m.mapInfo[new[n]])
<1> DEFINE i == new[n]
           r == m.mapInfo[i]
           N == NewIds(m.mapInfo)
           p == Len(new)
<1>1. p \in Nat /\ new \in [1 .. p -> N] /\ i \in N
    BY DEF Stored, Listing
<1>2. /\ file.new = [k \in 1 .. p |-> OnDisk(m.mapInfo[new[k]])]
      /\ file.buckets = [b \in NewBuckets |-> {k \in 1 .. p : new[k] \in m.vvNew[b]}]
    BY DEF Stored
<1>3. r \in Info /\ ~r.fInTried /\ r.nRefCount = Cardinality(BucketsOf(m.vvNew, i))
    <2>1. i \in DOMAIN m.mapInfo /\ ~r.fInTried
        BY <1>1 DEF NewIds
    <2>2. m.mapInfo \in [DOMAIN m.mapInfo -> Info]
        BY DEF Kept, Sound, Entries
    <2>3. \A j \in N \ {} : m.mapInfo[j].nRefCount = Cardinality(BucketsOf(m.vvNew, j))
        BY DEF Kept, Sound, Referenced
    <2> HIDE DEF N, i
    <2> QED
        BY <1>1, <2>1, <2>2, <2>3
<1>4. Len(file.new) = p /\ n - 1 \in 0 .. Len(file.new) - 1 /\ (n - 1) + 1 = n
    BY <1>1, <1>2
<1>5. /\ z.mapInfo[n - 1].addr = file.new[n].addr
      /\ Gist(z.mapInfo[n - 1])
            = Gist(Recount(file.new[n], Cardinality(BucketsOf(file.buckets, n))))
    <2> DEFINE k == n - 1
    <2>1. k \in 0 .. Len(file.new) - 1 /\ k + 1 = n
        BY <1>4
    <2> HIDE DEF k
    <2>2. /\ z.mapInfo[k].addr = file.new[k + 1].addr
          /\ Gist(z.mapInfo[k])
                = Gist(Recount(file.new[k + 1], Cardinality(BucketsOf(file.buckets, k + 1))))
        BY <2>1 DEF NewLoaded
    <2> QED
        BY <2>1, <2>2 DEF k
<1>6. BucketsOf(file.buckets, n) = BucketsOf(m.vvNew, i)
    BY <1>1, <1>2 DEF BucketsOf
<1>7. file.new[n] = OnDisk(r)
    BY <1>2
<1> HIDE DEF i, r
<1> QED
    BY <1>3, <1>5, <1>6, <1>7, OnDiskIs, GistOnDisk DEF Same, i, r

\* Saving and loading copies.
LEMMA ReloadCopies ==
    ASSUME NEW m, Kept(m), Homed(m.mapInfo, m.vvTried), NEW file, Written(file), Distinct(file),
           NEW new, NEW tried, Stored(m, file, new, tried)
    PROVE  \E x : Copies(Unserialize(file), x, m, new, tried)
<1> DEFINE z == LoadNew(file)
           x == Rebucketed(z, file)
           y == Unserialize(file)
           infos == file.tried
           p == Len(new)
           q == Len(tried)
           T == TriedIds(m.mapInfo)
<1>1. NewLoaded(z, file, Len(file.new))
    BY LoadNewKeeps
<1>2. y = LoadTried(x, infos)
    BY DEF Unserialize, Rebucketed, Buckets
<1> HIDE DEF z, y
<1>3. Triable(infos) /\ TriedLoaded(x, infos, 0)
    BY FileIsTriable DEF z
<1>4. /\ p \in Nat /\ q \in Nat /\ tried \in [1 .. q -> T]
    BY DEF Stored, Listing
<1>5. /\ file.new = [n \in 1 .. p |-> OnDisk(m.mapInfo[new[n]])]
      /\ infos = [n \in 1 .. q |-> OnDisk(m.mapInfo[tried[n]])]
      /\ file.buckets = [b \in NewBuckets |-> {n \in 1 .. p : new[n] \in m.vvNew[b]}]
    BY DEF Stored
<1>6. Len(file.new) = p /\ Len(infos) = q
    BY <1>4, <1>5
<1>7. /\ x.mapInfo = z.mapInfo /\ x.nIdCount = p /\ x.vvTried = EmptyMan.vvTried
      /\ x.vvNew = Buckets(file) /\ DOMAIN x.mapInfo = 0 .. p - 1
    <2>1. IsMan(z)
        BY <1>1 DEF NewLoaded, Sound
    <2>2. /\ x.mapInfo = z.mapInfo /\ x.nIdCount = z.nIdCount /\ x.vvTried = z.vvTried
          /\ x.vvNew = Buckets(file)
        BY <2>1, RebucketedIs
    <2> HIDE DEF x
    <2>3. z.nIdCount = p /\ DOMAIN z.mapInfo = 0 .. p - 1 /\ z.vvTried = EmptyMan.vvTried
        BY <1>1, <1>6 DEF NewLoaded
    <2> QED
        BY <2>2, <2>3
<1>8. AllRead(y, x, infos, q)
    <2>1. RoomFor(infos)
        BY RoomInFile
    <2>2. x.nIdCount \in Nat
        BY <1>4, <1>7
    <2> HIDE DEF x, infos
    <2> QED
        BY <1>2, <1>3, <1>6, <1>7, <2>1, <2>2, LoadAll
<1> HIDE DEF x, infos, p, q, T
<1>9. DOMAIN y.mapInfo = {n - 1 : n \in 1 .. p} \cup {IdAt(x, j) : j \in 1 .. q}
    <2>1. 0 .. p - 1 = {n - 1 : n \in 1 .. p}
        <3>1. \A i \in 0 .. p - 1 : i + 1 \in 1 .. p /\ i = (i + 1) - 1
            BY <1>4
        <3>2. \A n \in 1 .. p : n - 1 \in 0 .. p - 1
            BY <1>4
        <3> QED
            BY <3>1, <3>2
    <2> QED
        BY <1>7, <1>8, <2>1 DEF AllRead
<1>10. ASSUME NEW n \in 1 .. p PROVE Same(y.mapInfo[n - 1], m.mapInfo[new[n]])
    <2>1. Same(z.mapInfo[n - 1], m.mapInfo[new[n]])
        BY <1>1, NewCopied DEF p
    <2>2. n - 1 \in DOMAIN x.mapInfo
        BY <1>4, <1>7
    <2>3. y.mapInfo[n - 1] = z.mapInfo[n - 1]
        BY <1>7, <1>8, <2>2 DEF AllRead
    <2> QED
        BY <2>1, <2>3
<1>11. ASSUME NEW j \in 1 .. q
       PROVE  /\ m.mapInfo[tried[j]] \in Info /\ tried[j] \in T
              /\ infos[j] = OnDisk(m.mapInfo[tried[j]])
              /\ infos[j].addr = m.mapInfo[tried[j]].addr
    <2>1. tried[j] \in T
        BY <1>4
    <2>2. m.mapInfo[tried[j]] \in Info
        BY <2>1 DEF Kept, Sound, Entries, TriedIds, T
    <2>3. infos[j] = OnDisk(m.mapInfo[tried[j]])
        BY <1>5
    <2> QED
        BY <2>1, <2>2, <2>3, OnDiskIs
<1>12. ASSUME NEW j \in 1 .. q PROVE Same(y.mapInfo[IdAt(x, j)], m.mapInfo[tried[j]])
    <2> DEFINE r == m.mapInfo[tried[j]]
    <2>1. r \in Info /\ infos[j] = OnDisk(r) /\ infos[j].addr = r.addr
        BY <1>11
    <2>2. r.fInTried /\ r.nRefCount = 0
        BY <1>11 DEF Kept, Sound, Flagged, TriedIds, T
    <2>3. /\ y.mapInfo[IdAt(x, j)].addr = infos[j].addr
          /\ Gist(y.mapInfo[IdAt(x, j)]) = Gist(Flag(infos[j]))
        BY <1>8 DEF AllRead
    <2> HIDE DEF r
    <2> QED
        BY <2>1, <2>2, <2>3, GistOnDisk DEF Same, r
<1>13. ASSUME NEW b \in NewBuckets
       PROVE  y.vvNew[b] = {n - 1 : n \in {k \in 1 .. p : new[k] \in m.vvNew[b]}}
    <2>1. y.vvNew = Buckets(file)
        BY <1>7, <1>8 DEF AllRead
    <2> QED
        BY <1>5, <2>1 DEF Buckets
<1>14. ASSUME NEW b \in TriedBuckets
       PROVE  Range(y.vvTried[b]) =
                {IdAt(x, j) : j \in {k \in 1 .. q : tried[k] \in Range(m.vvTried[b])}}
    <2>1. Range(y.vvTried[b]) = {IdAt(x, j) : j \in AtHome(infos, q, b)}
        BY <1>8 DEF AllRead
    <2>2. ASSUME NEW j \in 1 .. q
          PROVE  TriedBucketOf[infos[j].addr] = b <=> tried[j] \in Range(m.vvTried[b])
        <3> DEFINE i == tried[j]
        <3>1. i \in TriedIds(m.mapInfo) /\ infos[j].addr = m.mapInfo[i].addr
            BY <1>11 DEF T
        <3> HIDE DEF i
        <3>2. TriedBucketOf[m.mapInfo[i].addr] = b <=> i \in Range(m.vvTried[b])
            BY <3>1, HomeOfTried
        <3> QED
            BY <3>1, <3>2 DEF i
    <2>3. AtHome(infos, q, b) = {k \in 1 .. q : tried[k] \in Range(m.vvTried[b])}
        BY <2>2 DEF AtHome
    <2> QED
        BY <2>1, <2>3
<1>15. Copies(y, x, m, new, tried)
    BY <1>9, <1>10, <1>12, <1>13, <1>14 DEF Copies, p, q
<1> QED
    BY <1>15 DEF y

\* Entries that are copied are at home as those of m were.
LEMMA CopiesHomed ==
    ASSUME NEW m, Kept(m), Homed(m.mapInfo, m.vvTried), NEW new, NEW tried,
           Listing(tried, TriedIds(m.mapInfo)), NEW x, NEW y, Kept(y), Copies(y, x, m, new, tried)
    PROVE  Homed(y.mapInfo, y.vvTried)
<1> SUFFICES ASSUME NEW b \in TriedBuckets, NEW p \in 1 .. Len(y.vvTried[b])
             PROVE  TriedBucketOf[y.mapInfo[y.vvTried[b][p]].addr] = b
    BY DEF Homed
<1> DEFINE v == y.vvTried[b]
           U == TriedIds(y.mapInfo)
<1>1. v \in Seq(U)
    BY DEF Kept, Sound, Placed
<1> HIDE DEF v, U
<1>2. v[p] \in Range(v)
    <2>1. DOMAIN v = 1 .. Len(v)
        BY <1>1
    <2> QED
        BY <2>1 DEF Range, v
<1>3. PICK j \in 1 .. Len(tried) : v[p] = IdAt(x, j) /\ tried[j] \in Range(m.vvTried[b])
    BY <1>2 DEF Copies, v
<1> DEFINE i == tried[j]
<1>4. y.mapInfo[v[p]].addr = m.mapInfo[i].addr
    BY <1>3 DEF Copies, Same
<1>5. i \in TriedIds(m.mapInfo) /\ i \in Range(m.vvTried[b])
    BY <1>3 DEF Listing
<1> HIDE DEF i
<1>6. TriedBucketOf[m.mapInfo[i].addr] = b
    BY <1>5, HomeOfTried
<1> QED
    BY <1>4, <1>6 DEF v

\* Saving and loading a manager in order changes nothing, whatever the ids are.
LEMMA Reloaded ==
    ASSUME NEW m, Kept(m), Homed(m.mapInfo, m.vvTried)
    PROVE  LET y == Unserialize(Serialize(m))
           IN  Kept(y) /\ Homed(y.mapInfo, y.vvTried) /\ Contents(y) = Contents(m)
<1> DEFINE file == Serialize(m)
           new == InOrder(NewIds(m.mapInfo))
           tried == InOrder(TriedIds(m.mapInfo))
           y == Unserialize(file)
<1>1. Stored(m, file, new, tried) /\ Written(file) /\ Distinct(file)
    BY StoredAs, SerializeIs
<1>2. Kept(y)
    BY ReloadedIsKept
<1> HIDE DEF file, new, tried
<1>3. PICK x : Copies(y, x, m, new, tried)
    BY <1>1, ReloadCopies
<1>4. Listing(new, NewIds(m.mapInfo)) /\ Listing(tried, TriedIds(m.mapInfo))
    BY <1>1 DEF Stored
<1> HIDE DEF y
<1>5. Contents(y) = Contents(m)
    BY <1>3, <1>4, CopiesSame
<1>6. Homed(y.mapInfo, y.vvTried)
    BY <1>2, <1>3, <1>4, CopiesHomed
<1> QED
    BY <1>2, <1>5, <1>6 DEF y, file

-----------------------------------------------------------------------------
\* The specification

LEMMA InitIsSound == Init => AddrInv
<1> SUFFICES ASSUME Init PROVE AddrInv
    OBVIOUS
<1>1. Kept(am) /\ now \in Nat \ {0}
    BY EmptyManKept DEF Init
<1> QED
    BY <1>1 DEF Kept, AddrInv

LEMMA RestartKeeps ==
    ASSUME AddrInv, Restart
    PROVE  AddrInv'
<1>1. Kept(am)
    BY DEF Kept, AddrInv
<1>2. Kept(EmptyMan) /\ Kept(Unserialize(Serialize(am)))
    BY <1>1, EmptyManKept, ReloadedIsKept
<1>3. Kept(am') /\ now' = now
    BY <1>2 DEF Restart
<1> QED
    BY <1>3 DEF Kept, AddrInv

LEMMA StepKeeps == AddrInv /\ [Next]_vars => AddrInv'
<1> SUFFICES ASSUME AddrInv, [Next]_vars PROVE AddrInv'
    OBVIOUS
<1>1. CASE \E told \in Told, nTime \in 1 .. now, penalty \in Penalties :
                \/ AddNew(told[1], told[2], nTime, penalty)
                \/ AddKnown(told[1], told[2], nTime, penalty)
    <2>1. PICK told \in Told, nTime \in 1 .. now, penalty \in Penalties :
                \/ AddNew(told[1], told[2], nTime, penalty)
                \/ AddKnown(told[1], told[2], nTime, penalty)
        BY <1>1
    <2>2. told[1] \in Services /\ told[2] \in Sources /\ penalty \in Nat
        BY AddrAssumption DEF AddrAssumption
    <2>3. nTime \in Nat
        BY DEF AddrInv
    <2> QED
        BY <2>1, <2>2, <2>3, AddNewKeeps, AddKnownKeeps
<1>2. CASE \E s \in Services : Good(s) \/ Attempt(s) \/ Connected(s)
    BY <1>2, GoodKeeps, AttemptKeeps, ConnectedKeeps
<1>3. CASE GetAddr
    BY <1>3, GetAddrKeeps
<1>4. CASE Restart
    BY <1>4, RestartKeeps
<1>5. CASE Tick
    BY <1>5 DEF Tick, AddrInv
<1>6. CASE UNCHANGED vars
    BY <1>6 DEF vars, AddrInv
<1> QED
    BY <1>1, <1>2, <1>3, <1>4, <1>5, <1>6 DEF Next

\* Each of the tests of Check_ passes on a manager in order.
LEMMA SoundIsChecked ==
    ASSUME NEW m, Sound(m, {})
    PROVE  Check(m)
<1> DEFINE info == m.mapInfo
           new == {i \in DOMAIN info : ~info[i].fInTried}
           tried == DOMAIN info \ new
           inTried == UNION {Range(m.vvTried[b]) : b \in TriedBuckets}
<1>1. /\ Entries(info, m.nIdCount) /\ Found(info, m.mapAddr) /\ Ordered(info, m.vRandom)
      /\ Flagged(info) /\ Counted(info, m.vRandom, m.nNew, m.nTried)
      /\ Referenced(info, m.vvNew, {}) /\ Placed(info, m.vvTried)
    BY DEF Sound
<1>2. new = NewIds(info)
    BY DEF NewIds
<1>3. tried = TriedIds(info)
    <2>1. info \in [DOMAIN info -> Info]
        BY <1>1 DEF Entries
    <2> QED
        BY <2>1 DEF TriedIds, Info
<1> HIDE DEF info
<1>4. ASSUME NEW i \in DOMAIN info
      PROVE  /\ info[i].fInTried => info[i].nLastSuccess > 0 /\ info[i].nRefCount = 0
             /\ ~info[i].fInTried => info[i].nRefCount \in 1 .. NewBucketsPerAddress
             /\ m.mapAddr[Ip[info[i].addr]] = i
             /\ info[i].nRandomPos \in DOMAIN m.vRandom
             /\ m.vRandom[info[i].nRandomPos] = i
             /\ ~info[i].fInTried => info[i].nRefCount =
                    Cardinality({b \in NewBuckets : i \in m.vvNew[b]})
    <2>1. info[i].fInTried => i \in TriedIds(info)
        BY DEF TriedIds
    <2>2. ~info[i].fInTried => i \in NewIds(info) \ {}
        BY DEF NewIds
    <2>3. info[i].fInTried => info[i].nLastSuccess > 0 /\ info[i].nRefCount = 0
        BY <1>1, <2>1 DEF Flagged
    <2>4. ~info[i].fInTried =>
            /\ info[i].nRefCount \in 1 .. NewBucketsPerAddress
            /\ info[i].nRefCount = Cardinality({b \in NewBuckets : i \in m.vvNew[b]})
        BY <1>1, <2>2 DEF Referenced, BucketsOf
    <2>5. /\ info[i].nRandomPos \in 1 .. Len(m.vRandom) /\ m.vRandom[info[i].nRandomPos] = i
          /\ m.vRandom \in Seq(DOMAIN info)
        BY <1>1 DEF Ordered
    <2>6. DOMAIN m.vRandom = 1 .. Len(m.vRandom)
        BY <2>5
    <2>7. m.mapAddr[Ip[info[i].addr]] = i
        BY <1>1 DEF Found
    <2> QED
        BY <2>3, <2>4, <2>5, <2>6, <2>7
<1>5. inTried = TriedIds(info)
    <2>1. m.vvTried \in [TriedBuckets -> Seq(TriedIds(info))]
        BY <1>1 DEF Placed
    <2>2. ASSUME NEW b \in TriedBuckets
          PROVE  Range(m.vvTried[b]) = {m.vvTried[b][p] : p \in 1 .. Len(m.vvTried[b])}
                 /\ Range(m.vvTried[b]) \subseteq TriedIds(info)
        <3> DEFINE v == m.vvTried[b]
                   S == TriedIds(info)
        <3>1. v \in Seq(S)
            BY <2>1
        <3> HIDE DEF v, S
        <3>2. DOMAIN v = 1 .. Len(v) /\ \A p \in 1 .. Len(v) : v[p] \in S
            BY <3>1
        <3> QED
            BY <3>2 DEF Range, v, S
    <2>3. ASSUME NEW i \in TriedIds(info) PROVE i \in inTried
        <3>1. PICK b \in TriedBuckets : \E p \in 1 .. Len(m.vvTried[b]) : m.vvTried[b][p] = i
            BY <1>1 DEF Placed
        <3>2. i \in Range(m.vvTried[b])
            BY <2>2, <3>1
        <3> QED
            BY <3>2
    <2> QED
        BY <2>2, <2>3
<1>6. UNION {m.vvNew[b] : b \in NewBuckets} \subseteq NewIds(info)
    BY <1>1 DEF Referenced
<1>7. /\ Len(m.vRandom) = m.nTried + m.nNew
      /\ Cardinality(TriedIds(info)) = m.nTried /\ Cardinality(NewIds(info)) = m.nNew
    BY <1>1 DEF Counted
<1> QED
    BY <1>2, <1>3, <1>4, <1>5, <1>6, <1>7 DEF Check, info

\* Select_ has something to choose from in each table it may choose.
LEMMA SomethingToSelect ==
    ASSUME Sound(am, {}), am.vRandom # <<>>
    PROVE  {} \notin SelectFrom
<1> DEFINE info == am.mapInfo
           inTried == UNION {Range(am.vvTried[b]) : b \in TriedBuckets}
           inNew == UNION {am.vvNew[b] : b \in NewBuckets}
<1>1. /\ Entries(info, am.nIdCount) /\ Ordered(info, am.vRandom)
      /\ Counted(info, am.vRandom, am.nNew, am.nTried)
      /\ Referenced(info, am.vvNew, {}) /\ Placed(info, am.vvTried)
    BY DEF Sound
<1> HIDE DEF info
<1>2. /\ am.nTried = Cardinality(TriedIds(info)) /\ am.nNew = Cardinality(NewIds(info))
      /\ IsFiniteSet(TriedIds(info)) /\ IsFiniteSet(NewIds(info))
      /\ am.nTried \in Nat /\ am.nNew \in Nat /\ Len(am.vRandom) = am.nTried + am.nNew
    <2>1. TriedIds(info) \in SUBSET DOMAIN info /\ NewIds(info) \in SUBSET DOMAIN info
        BY DEF TriedIds, NewIds
    <2> QED
        BY <1>1, <2>1, IdsFinite DEF Counted
<1>3. ASSUME am.nTried > 0 PROVE inTried # {}
    <2>1. PICK i \in TriedIds(info) : TRUE
        BY <1>2, <1>3, FS_EmptySet
    <2>2. PICK b \in TriedBuckets : \E p \in 1 .. Len(am.vvTried[b]) : am.vvTried[b][p] = i
        BY <1>1 DEF Placed
    <2>3. i \in Range(am.vvTried[b])
        <3> DEFINE v == am.vvTried[b]
        <3>1. v \in Seq(TriedIds(info))
            BY <1>1 DEF Placed
        <3>2. DOMAIN v = 1 .. Len(v)
            BY <3>1
        <3> QED
            BY <2>2, <3>2 DEF Range
    <2> QED
        BY <2>3
<1>4. ASSUME am.nNew > 0 PROVE inNew # {}
    <2>1. PICK i \in NewIds(info) : TRUE
        BY <1>2, <1>4, FS_EmptySet
    <2> DEFINE B == BucketsOf(am.vvNew, i)
    <2>2. Cardinality(B) \in 1 .. NewBucketsPerAddress
        BY <1>1 DEF Referenced
    <2>3. B # {}
        <3>1. Cardinality(B) # 0
            BY <2>2, AddrAssumption DEF AddrAssumption
        <3> HIDE DEF B
        <3> QED
            BY <3>1, FS_EmptySet
    <2>4. PICK b \in NewBuckets : i \in am.vvNew[b]
        BY <2>3 DEF BucketsOf
    <2> QED
        BY <2>4
<1>5. am.nTried > 0 \/ am.nNew > 0
    <2>1. am.vRandom \in Seq(DOMAIN info)
        BY <1>1 DEF Ordered
    <2>2. Len(am.vRandom) # 0
        BY <2>1
    <2> QED
        BY <1>2, <2>2
<1>6. SelectFrom = (IF am.nTried > 0 THEN {inTried} ELSE {})
                   \cup (IF am.nNew > 0 \/ am.nTried = 0 THEN {inNew} ELSE {})
    BY DEF SelectFrom
<1> HIDE DEF inTried, inNew
<1> QED
    BY <1>2, <1>3, <1>4, <1>5, <1>6

LEMMA InvIsConsistent == AddrInv => Consistent
<1> SUFFICES ASSUME AddrInv PROVE Consistent
    OBVIOUS
<1>1. Kept(am) /\ Sound(am, {}) /\ Fits(am.vvNew, am.vvTried)
    BY DEF AddrInv, Kept
<1>2. Check(am)
    BY <1>1, SoundIsChecked
<1> DEFINE x == Unserialize(Serialize(am))
<1>3. Sound(x, {})
    BY <1>1, ReloadedIsKept DEF Kept
<1> HIDE DEF x
<1>4. Check(x)
    BY <1>3, SoundIsChecked
<1> QED
    BY <1>1, <1>2, <1>4, SomethingToSelect DEF Consistent, Fits, x

\* The maps, the vector and the buckets of the address manager always agree: every test of
\* Check_() passes, in the running manager and in the one that a restart would load, no
\* bucket is overfull and Select_ never draws from a table without entries.
THEOREM AddressesAreConsistent == Spec => []Consistent
<1>1. Init => AddrInv
    BY InitIsSound
<1>2. AddrInv /\ [Next]_vars => AddrInv'
    BY StepKeeps
<1>3. AddrInv => Consistent
    BY InvIsConsistent
<1> QED
    BY <1>1, <1>2, <1>3, PTL DEF Spec

\* Every step keeps the tried entries but for one, or restarts.
LEMMA StepStays ==
    ASSUME AddrInv, Next
    PROVE  \/ \E old : Stays(am.mapInfo, am'.mapInfo, {old})
           \/ am' \in {EmptyMan, Unserialize(Serialize(am))}
<1>1. ASSUME Stays(am.mapInfo, am'.mapInfo, {}) PROVE \E old : Stays(am.mapInfo, am'.mapInfo, {old})
    BY <1>1 DEF Stays
<1>2. CASE \E told \in Told, nTime \in 1 .. now, penalty \in Penalties :
                \/ AddNew(told[1], told[2], nTime, penalty)
                \/ AddKnown(told[1], told[2], nTime, penalty)
    <2>1. PICK told \in Told, nTime \in 1 .. now, penalty \in Penalties :
                \/ AddNew(told[1], told[2], nTime, penalty)
                \/ AddKnown(told[1], told[2], nTime, penalty)
        BY <1>2
    <2>2. told[1] \in Services /\ told[2] \in Sources /\ penalty \in Nat
        BY AddrAssumption DEF AddrAssumption
    <2>3. nTime \in Nat
        BY DEF AddrInv
    <2> QED
        BY <1>1, <2>1, <2>2, <2>3, AddNewKeeps, AddKnownKeeps
<1>3. CASE \E s \in Services : Good(s) \/ Attempt(s) \/ Connected(s)
    BY <1>1, <1>3, GoodKeeps, AttemptKeeps, ConnectedKeeps
<1>4. CASE GetAddr
    BY <1>1, <1>4, GetAddrKeeps
<1>5. CASE Restart
    BY <1>5 DEF Restart
<1>6. CASE Tick
    BY <1>1, <1>6 DEF Tick, Stays, TriedIds
<1> QED
    BY <1>2, <1>3, <1>4, <1>5, <1>6 DEF Next

\* Of the addresses of tried entries, all are still known and all but one still tried.
LEMMA AddressesStay ==
    ASSUME NEW old, Stays(am.mapInfo, am'.mapInfo, {old})
    PROVE  /\ TriedAddrs \subseteq {am'.mapInfo[i].addr : i \in DOMAIN am'.mapInfo}
           /\ Cardinality(TriedAddrs \ TriedAddrs') <= 1
<1> DEFINE lost == TriedAddrs \ TriedAddrs'
           last == am.mapInfo[old].addr
<1>1. TriedAddrs = {am.mapInfo[i].addr : i \in TriedIds(am.mapInfo)}
      /\ TriedAddrs' = {am'.mapInfo[i].addr : i \in TriedIds(am'.mapInfo)}
    BY DEF TriedAddrs, TriedIds
<1>2. ASSUME NEW i \in TriedIds(am.mapInfo)
      PROVE  /\ i \in DOMAIN am'.mapInfo /\ am'.mapInfo[i].addr = am.mapInfo[i].addr
             /\ i = old \/ i \in TriedIds(am'.mapInfo)
    BY DEF Stays, TriedIds
<1>3. lost \subseteq {last}
    BY <1>1, <1>2
<1>4. TriedAddrs \subseteq {am'.mapInfo[i].addr : i \in DOMAIN am'.mapInfo}
    BY <1>1, <1>2
<1> HIDE DEF lost, last
<1>5. Cardinality(lost) <= 1
    <2>1. IsFiniteSet({last}) /\ Cardinality({last}) = 1
        BY FS_Singleton
    <2> QED
        BY <1>3, <2>1, FS_Subset
<1> QED
    BY <1>4, <1>5 DEF lost

\* An address that was tried is not forgotten while the program runs, and it leaves the
\* tried table only when it is evicted, one address at a time; a restart has no other
\* addresses than those of the file.
THEOREM TriedAddressesStay == Spec => TriedStays
<1>1. Init => AddrInv
    BY InitIsSound
<1>2. AddrInv /\ [Next]_vars => AddrInv'
    BY StepKeeps
<1>3. AddrInv /\ [Next]_vars =>
        [\/ /\ TriedAddrs \subseteq {am'.mapInfo[i].addr : i \in DOMAIN am'.mapInfo}
            /\ Cardinality(TriedAddrs \ TriedAddrs') <= 1
         \/ am' \in {EmptyMan, Unserialize(Serialize(am))}]_vars
    <2> SUFFICES ASSUME AddrInv, [Next]_vars, ~UNCHANGED vars
                 PROVE  \/ /\ TriedAddrs \subseteq {am'.mapInfo[i].addr : i \in DOMAIN am'.mapInfo}
                           /\ Cardinality(TriedAddrs \ TriedAddrs') <= 1
                        \/ am' \in {EmptyMan, Unserialize(Serialize(am))}
        OBVIOUS
    <2>1. \/ \E old : Stays(am.mapInfo, am'.mapInfo, {old})
          \/ am' \in {EmptyMan, Unserialize(Serialize(am))}
        BY StepStays
    <2> QED
        BY <2>1, AddressesStay
<1> QED
    BY <1>1, <1>2, <1>3, PTL DEF Spec, TriedStays

-----------------------------------------------------------------------------
\* What a restart loads, for every state that is reached

HomeInv == AddrInv /\ Homed(am.mapInfo, am.vvTried)

LEMMA InitIsHome == Init => HomeInv
<1> SUFFICES ASSUME Init PROVE HomeInv
    OBVIOUS
<1>1. \A b \in TriedBuckets : am.vvTried[b] = <<>>
    BY DEF Init, EmptyMan
<1>2. Homed(am.mapInfo, am.vvTried)
    BY <1>1 DEF Homed
<1> QED
    BY <1>2, InitIsSound DEF HomeInv

\* A step that leaves the tried buckets alone.
LEMMA SameHome ==
    ASSUME HomeInv, Stays(am.mapInfo, am'.mapInfo, {}), am'.vvTried = am.vvTried
    PROVE  Homed(am.mapInfo, am.vvTried)'
<1> DEFINE X == {}
<1>1. Placed(am.mapInfo, am.vvTried) /\ Homed(am.mapInfo, am.vvTried)
      /\ Stays(am.mapInfo, am'.mapInfo, X)
    BY DEF HomeInv, AddrInv, Sound
<1> HIDE DEF X
<1>2. Homed(am'.mapInfo, am.vvTried)
    BY <1>1, HomedOn
<1> QED
    BY <1>2

LEMMA StepIsHome == HomeInv /\ [Next]_vars => HomeInv'
<1> SUFFICES ASSUME HomeInv, [Next]_vars PROVE Homed(am.mapInfo, am.vvTried)'
    BY StepKeeps DEF HomeInv
<1>1. AddrInv /\ Homed(am.mapInfo, am.vvTried)
    BY DEF HomeInv
<1>2. CASE \E told \in Told, nTime \in 1 .. now, penalty \in Penalties :
                \/ AddNew(told[1], told[2], nTime, penalty)
                \/ AddKnown(told[1], told[2], nTime, penalty)
    <2>1. PICK told \in Told, nTime \in 1 .. now, penalty \in Penalties :
                \/ AddNew(told[1], told[2], nTime, penalty)
                \/ AddKnown(told[1], told[2], nTime, penalty)
        BY <1>2
    <2>2. told[1] \in Services /\ told[2] \in Sources /\ penalty \in Nat
        BY AddrAssumption DEF AddrAssumption
    <2>3. nTime \in Nat
        BY <1>1 DEF AddrInv
    <2>4. Stays(am.mapInfo, am'.mapInfo, {}) /\ am'.vvTried = am.vvTried
        BY <1>1, <2>1, <2>2, <2>3, AddNewKeeps, AddKnownKeeps
    <2> QED
        BY <2>4, SameHome
<1>3. ASSUME NEW s \in Services, Good(s) PROVE Homed(am.mapInfo, am.vvTried)'
    <2>1. Homed(am.mapInfo, am.vvTried) => Homed(am'.mapInfo, am'.vvTried)
        BY <1>1, <1>3, GoodKeeps
    <2> QED
        BY <1>1, <2>1
<1>4. ASSUME NEW s \in Services, Attempt(s) \/ Connected(s)
      PROVE  Homed(am.mapInfo, am.vvTried)'
    <2>1. Stays(am.mapInfo, am'.mapInfo, {}) /\ am'.vvTried = am.vvTried
        BY <1>1, <1>4, AttemptKeeps, ConnectedKeeps
    <2> QED
        BY <2>1, SameHome
<1>5. CASE GetAddr
    <2>1. Stays(am.mapInfo, am'.mapInfo, {}) /\ am'.vvTried = am.vvTried
        BY <1>1, <1>5, GetAddrKeeps
    <2> QED
        BY <2>1, SameHome
<1>6. CASE Restart
    <2>1. CASE am' = EmptyMan
        <3>1. \A b \in TriedBuckets : am'.vvTried[b] = <<>>
            BY <2>1 DEF EmptyMan
        <3> QED
            BY <3>1 DEF Homed
    <2>2. CASE am' = Unserialize(Serialize(am))
        <3> DEFINE y == Unserialize(Serialize(am))
        <3>1. Kept(am)
            BY <1>1 DEF AddrInv, Kept
        <3>2. Homed(y.mapInfo, y.vvTried)
            BY <1>1, <3>1, Reloaded
        <3> HIDE DEF y
        <3>3. am' = y
            BY <2>2 DEF y
        <3> QED
            BY <3>2, <3>3
    <2> QED
        BY <1>6, <2>1, <2>2 DEF Restart
<1>7. CASE Tick \/ UNCHANGED vars
    <2>1. am' = am
        BY <1>7 DEF Tick, vars
    <2> QED
        BY <1>1, <2>1
<1> QED
    BY <1>2, <1>3, <1>4, <1>5, <1>6, <1>7 DEF Next

\* What the manager has at any time is what a restart would load from a file that is written
\* then: every entry with its source and times, every new bucket and every tried bucket.  No
\* tried entry is lost to a full bucket, since each is in the bucket of its address.
THEOREM SavingLosesNothing == Spec => []SavedIsLoaded
<1>1. Init => HomeInv
    BY InitIsHome
<1>2. HomeInv /\ [Next]_vars => HomeInv'
    BY StepIsHome
<1>3. HomeInv => SavedIsLoaded
    <2> SUFFICES ASSUME HomeInv PROVE SavedIsLoaded
        OBVIOUS
    <2>1. Kept(am) /\ Homed(am.mapInfo, am.vvTried)
        BY DEF HomeInv, AddrInv, Kept
    <2> QED
        BY <2>1, Reloaded DEF SavedIsLoaded
<1> QED
    BY <1>1, <1>2, <1>3, PTL DEF Spec

===============================================================================
