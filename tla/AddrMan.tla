-------------------------------- MODULE AddrMan --------------------------------
(***************************************************************************)
(* The address manager (addrman.h, addrman.cpp) and its file peers.dat     *)
(* (CAddrDB in db.cpp).  Every public operation runs under CAddrMan::cs    *)
(* and is one action; am holds the tables they change.  The secret key and *)
(* the hashes that choose buckets are the constants NewBucketOf and        *)
(* TriedBucketOf.  Positions in vectors count from 1.                      *)
(***************************************************************************)
EXTENDS Integers, Sequences, SequencesExt

CONSTANTS
    Services,       \* CService: an address with a port
    Ip,             \* its CNetAddr, the key of mapAddr
    Sources,        \* who told of an address
    Told,           \* which service each of them tells of
    IsRoutable,     \* the services that are
    NewBuckets, TriedBuckets,
    NewBucketOf,    \* GetNewBucket, of a service and a source
    TriedBucketOf,  \* GetTriedBucket
    NewBucketSize, TriedBucketSize,
    NewBucketsPerAddress,
    TriedInspect,   \* ADDRMAN_TRIED_ENTRIES_INSPECT_ON_EVICT
    Retries, MaxFailures, HorizonDays, MinFailDays,
    GetAddrPct,
    Penalties,      \* nTimePenalty: two hours for the addresses of an "addr" message
    Minute, Hour, Day,  \* in units of the clock
    MaxTime, MaxId      \* bounds of the clock and of nIdCount

ASSUME AddrAssumption ==
    /\ IsFiniteSet(NewBuckets) /\ IsFiniteSet(TriedBuckets)
    /\ IsRoutable \subseteq Services /\ Told \subseteq Services \X Sources
    /\ NewBucketOf \in [Services \X Sources -> NewBuckets]
    /\ TriedBucketOf \in [Services -> TriedBuckets]
    /\ {NewBucketSize, TriedBucketSize, NewBucketsPerAddress, TriedInspect} \subseteq Nat \ {0}
    /\ {Retries, MaxFailures, HorizonDays, MinFailDays, MaxTime, MaxId} \subseteq Nat \ {0}
    /\ {Minute, Hour, Day} \cup Penalties \subseteq Nat
    /\ GetAddrPct \in 0 .. 100

VARIABLES
    am,         \* the CAddrMan
    now         \* GetAdjustedTime()

vars == <<am, now>>

EmptyMan ==
    [nIdCount |-> 0, mapInfo |-> <<>>, mapAddr |-> <<>>, vRandom |-> <<>>, nTried |-> 0,
     nNew |-> 0, vvTried |-> [b \in TriedBuckets |-> <<>>], vvNew |-> [b \in NewBuckets |-> {}]]

Init == am = EmptyMan /\ now = 1

Put(f, k, v) == [x \in DOMAIN f \cup {k} |-> IF x = k THEN v ELSE f[x]]

Erase(f, k) == [x \in DOMAIN f \ {k} |-> f[x]]

-----------------------------------------------------------------------------
\* Entries

\* CAddrInfo::Init
NewInfo(s, source, nTime) ==
    [addr |-> s, source |-> source, nTime |-> nTime, nLastSuccess |-> 0, nLastTry |-> 0,
     nAttempts |-> 0, nRefCount |-> 0, fInTried |-> FALSE, nRandomPos |-> 0]

\* "bad enough so that it can just be deleted"
IsTerrible(info) ==
    /\ info.nLastTry = 0 \/ info.nLastTry < now - Minute
    /\ \/ info.nTime > now + 10 * Minute
       \/ info.nTime = 0 \/ now - info.nTime > HorizonDays * Day
       \/ info.nLastSuccess = 0 /\ info.nAttempts >= Retries
       \/ now - info.nLastSuccess > MinFailDays * Day /\ info.nAttempts >= MaxFailures

NewBucket(info) == NewBucketOf[<<info.addr, info.source>>]

\* Find, and the test for "the exact same CService (including same port)".
Knows(s) == Ip[s] \in DOMAIN am.mapAddr

KnowsExactly(s) == Knows(s) /\ am.mapInfo[am.mapAddr[Ip[s]]].addr = s

IdOf(s) == am.mapAddr[Ip[s]]

Create(m, s, source, nTime) ==
    LET id == m.nIdCount
    IN  [m EXCEPT !.nIdCount = id + 1,
                  !.mapInfo = Put(@, id, [NewInfo(s, source, nTime) EXCEPT
                                            !.nRandomPos = Len(m.vRandom) + 1]),
                  !.mapAddr = Put(@, Ip[s], id),
                  !.vRandom = Append(@, id)]

SwapRandom(m, p, q) ==
    LET v == m.vRandom
    IN  [m EXCEPT !.mapInfo[v[p]].nRandomPos = q,
                  !.mapInfo[v[q]].nRandomPos = p,
                  !.vRandom = [@ EXCEPT ![p] = v[q], ![q] = v[p]]]

\* "This is the only place where actual deletes occur."
Delete(m, id) ==
    LET s == SwapRandom(m, m.mapInfo[id].nRandomPos, Len(m.vRandom))
    IN  [s EXCEPT !.vRandom = Front(@), !.mapAddr = Erase(@, Ip[s.mapInfo[id].addr]),
                  !.mapInfo = Erase(@, id), !.nNew = @ - 1]

\* One reference less, from new bucket b.
Unref(m, b, id) ==
    LET u == [m EXCEPT !.mapInfo[id].nRefCount = @ - 1, !.vvNew[b] = @ \ {id}]
    IN  IF u.mapInfo[id].nRefCount = 0 THEN Delete(u, id) ELSE u

\* The first of ids, in their order, that has the least nTime.
Oldest(m, ids) ==
    CHOOSE i \in ids : \A j \in ids : \/ m.mapInfo[i].nTime < m.mapInfo[j].nTime
                                      \/ m.mapInfo[i].nTime = m.mapInfo[j].nTime /\ i <= j

\* ShrinkNew: the first terrible entry goes, or else the oldest of the random four.
ShrinkNew(m, b, four) ==
    LET terrible == {i \in m.vvNew[b] : IsTerrible(m.mapInfo[i])}
    IN  Unref(m, b, IF terrible # {} THEN CHOOSE i \in terrible : \A j \in terrible : i <= j
                                     ELSE Oldest(m, four))

\* What GetRandInt may pick four times.
Fours(ids) == {four \in SUBSET ids : four # {} /\ Cardinality(four) <= 4}

-----------------------------------------------------------------------------
\* Moving to the tried table

\* The random positions SelectTried may draw.
Draws(vTried) ==
    LET n == IF Len(vTried) < TriedInspect THEN Len(vTried) ELSE TriedInspect
    IN  {d \in [1 .. n -> 1 .. Len(vTried)] : \A i \in 1 .. n : d[i] >= i}

\* Turn i of SelectTried's loop: the entry at the drawn position and the i-th are swapped;
\* pos is where the oldest one was before it was swapped.
Inspect(m, draw, s, i) ==
    LET success(id) == m.mapInfo[id].nLastSuccess
        pos == draw[i]
        id  == s.vTried[pos]
        better == i = 1 \/ success(id) < success(s.oldest)
    IN  [vTried |-> [s.vTried EXCEPT ![pos] = s.vTried[i], ![i] = id],
         oldest |-> IF better THEN id ELSE s.oldest,
         pos    |-> IF better THEN pos ELSE s.pos]

\* The shuffled bucket and the position SelectTried returns.
SelectTried(m, vTried, draw) ==
    LET turn[i \in 0 .. Len(draw)] ==
            IF i = 0 THEN [vTried |-> vTried, oldest |-> -1, pos |-> 0]
            ELSE Inspect(m, draw, turn[i - 1], i)
    IN  turn[Len(draw)]

\* Mutant: the entry leaves only the bucket it was found in.
LeaveNew_OneBucket(m, id, origin) ==
    [m EXCEPT !.vvNew[origin] = @ \ {id}, !.mapInfo[id].nRefCount = @ - 1, !.nNew = @ - 1]

\* "remove the entry from all new buckets"
LeaveNew(m, id, origin) ==
    [m EXCEPT !.vvNew = [b \in NewBuckets |-> @[b] \ {id}],
              !.mapInfo[id].nRefCount = @ - Cardinality({b \in NewBuckets : id \in m.vvNew[b]}),
              !.nNew = @ - 1]

\* MakeTried, when the tried bucket has room ...
PushTried(m, b, id) ==
    [m EXCEPT !.vvTried[b] = Append(@, id), !.nTried = @ + 1, !.mapInfo[id].fInTried = TRUE]

\* ... and when an entry must go back to the new table first.
ReplaceTried(m, b, id, origin, draw) ==
    LET sel  == SelectTried(m, m.vvTried[b], draw)
        old  == sel.vTried[sel.pos]
        home == NewBucket(m.mapInfo[old])
        back == IF Cardinality(m.vvNew[home]) < NewBucketSize THEN home ELSE origin
    IN  [m EXCEPT !.mapInfo = [@ EXCEPT ![old].fInTried = FALSE, ![old].nRefCount = 1,
                                        ![id].fInTried = TRUE],
                  !.vvNew[back] = @ \cup {old}, !.nNew = @ + 1,
                  !.vvTried[b] = [sel.vTried EXCEPT ![sel.pos] = id]]

-----------------------------------------------------------------------------
\* peers.dat

\* The order of a map's iterator.
InOrder(ids) ==
    CHOOSE f \in [1 .. Cardinality(ids) -> ids] :
        \A i, j \in 1 .. Cardinality(ids) : i < j => f[i] < f[j]

\* What the file has of an entry.
OnDisk(info) ==
    [info EXCEPT !.nLastTry = 0, !.nRefCount = 0, !.fInTried = FALSE, !.nRandomPos = 0]

\* CAddrMan's serialization: infos in the order of their ids, buckets as indices.
Serialize(m) ==
    LET new   == InOrder({i \in DOMAIN m.mapInfo : m.mapInfo[i].nRefCount # 0})
        tried == InOrder({i \in DOMAIN m.mapInfo : m.mapInfo[i].fInTried})
    IN  [new     |-> [n \in 1 .. Len(new) |-> OnDisk(m.mapInfo[new[n]])],
         tried   |-> [n \in 1 .. Len(tried) |-> OnDisk(m.mapInfo[tried[n]])],
         buckets |-> [b \in NewBuckets |-> {n \in 1 .. Len(new) : new[n] \in m.vvNew[b]}]]

\* Mutant: an entry read into the tried table gets the id of one read before.
ReadTried_SameId(m, info) ==
    LET b == TriedBucketOf[info.addr]
        id == IF m.nIdCount > 0 THEN m.nIdCount - 1 ELSE 0
    IN  IF Len(m.vvTried[b]) >= TriedBucketSize THEN m
        ELSE [m EXCEPT !.mapInfo = Put(@, id, [info EXCEPT !.fInTried = TRUE,
                                                           !.nRandomPos = Len(m.vRandom) + 1]),
                       !.mapAddr = Put(@, Ip[info.addr], id), !.vRandom = Append(@, id),
                       !.vvTried[b] = Append(@, id), !.nIdCount = @ + 1, !.nTried = @ + 1]

\* One tried entry of the file; it is lost if its bucket is full.
ReadTried(m, info) ==
    LET b == TriedBucketOf[info.addr]
        id == m.nIdCount
    IN  IF Len(m.vvTried[b]) >= TriedBucketSize THEN m
        ELSE [m EXCEPT !.mapInfo = Put(@, id, [info EXCEPT !.fInTried = TRUE,
                                                           !.nRandomPos = Len(m.vRandom) + 1]),
                       !.mapAddr = Put(@, Ip[info.addr], id), !.vRandom = Append(@, id),
                       !.vvTried[b] = Append(@, id), !.nIdCount = @ + 1, !.nTried = @ + 1]

\* Entry n of the file, which is new.  The buckets come later in the file; no entry in it
\* has more references than are allowed.
ReadNew(m, file, n) ==
    LET info == file.new[n]
        id == m.nIdCount
    IN  [m EXCEPT !.mapInfo = Put(@, id, [info EXCEPT
                        !.nRefCount = Cardinality({b \in NewBuckets : n \in file.buckets[b]}),
                        !.nRandomPos = Len(m.vRandom) + 1]),
                  !.mapAddr = Put(@, Ip[info.addr], id), !.vRandom = Append(@, id),
                  !.nIdCount = @ + 1, !.nNew = @ + 1]

LoadNew(file) ==
    LET new[n \in 0 .. Len(file.new)] ==
            IF n = 0 THEN EmptyMan ELSE ReadNew(new[n - 1], file, n)
    IN  new[Len(file.new)]

LoadTried(m, infos) ==
    LET tried[n \in 0 .. Len(infos)] ==
            IF n = 0 THEN m ELSE ReadTried(tried[n - 1], infos[n])
    IN  tried[Len(infos)]

\* The tables the file gives: ids are numbered again, from 0.  The number of buckets
\* never changes.
Unserialize(file) ==
    LoadTried([LoadNew(file) EXCEPT
                !.vvNew = [b \in NewBuckets |-> {n - 1 : n \in file.buckets[b]}]], file.tried)

-----------------------------------------------------------------------------
\* Operations

\* Add_ of an address the manager does not know.
AddNew(s, source, nTime, penalty) ==
    /\ s \in IsRoutable /\ ~Knows(s) /\ am.nIdCount < MaxId
    /\ LET c == Create(am, s, source, IF nTime > penalty THEN nTime - penalty ELSE 0)
           id == am.nIdCount
           b == NewBucketOf[<<s, source>>]
           r == [c EXCEPT !.nNew = @ + 1, !.mapInfo[id].nRefCount = 1]
       IN  \E four \in Fours(am.vvNew[b]) \cup {{}} :
            /\ four = {} <=> Cardinality(am.vvNew[b]) < NewBucketSize
            /\ am' = [(IF four = {} THEN r ELSE ShrinkNew(r, b, four)) EXCEPT
                        !.vvNew[b] = @ \cup {id}]
    /\ UNCHANGED now

\* "periodically update nTime"
TimeAfterAdd(info, nTime, penalty) ==
    LET interval == IF now - nTime < Day THEN Hour ELSE Day
    IN  IF nTime # 0 /\ (info.nTime = 0 \/ info.nTime < nTime - interval - penalty)
        THEN IF nTime > penalty THEN nTime - penalty ELSE 0
        ELSE info.nTime

\* Mutant: tried entries get references too.
MayAddReference_Tried(info, nTime) ==
    /\ nTime # 0 /\ (info.nTime = 0 \/ nTime > info.nTime)
    /\ info.nRefCount # NewBucketsPerAddress

\* Whether a known address may get one more bucket; the stochastic test comes after.
MayAddReference(info, nTime) ==
    /\ nTime # 0 /\ (info.nTime = 0 \/ nTime > info.nTime)
    /\ ~info.fInTried
    /\ info.nRefCount # NewBucketsPerAddress

\* Add_ of an address it knows, perhaps with another port; the bucket depends on the
\* entry and the source.
AddKnown(s, source, nTime, penalty) ==
    /\ s \in IsRoutable /\ Knows(s)
    /\ LET id   == IdOf(s)
           info == [am.mapInfo[id] EXCEPT
                        !.nTime = TimeAfterAdd(am.mapInfo[id], nTime, penalty)]
           b    == NewBucketOf[<<info.addr, source>>]
           t    == [am EXCEPT !.mapInfo[id] = info]
           r    == [t EXCEPT !.mapInfo[id].nRefCount = @ + 1]
       IN  \/ am' = t
           \/ /\ MayAddReference(info, nTime)
              /\ id \notin am.vvNew[b]
              /\ \E four \in Fours(am.vvNew[b]) \cup {{}} :
                  /\ four = {} <=> Cardinality(am.vvNew[b]) < NewBucketSize
                  /\ am' = [(IF four = {} THEN r ELSE ShrinkNew(r, b, four)) EXCEPT
                              !.vvNew[b] = @ \cup {id}]
    /\ UNCHANGED now

\* Good_: "Mark an entry good, possibly moving it from new to tried."
Good(s) ==
    /\ KnowsExactly(s)
    /\ LET id == IdOf(s)
           b == TriedBucketOf[s]
           g == [am EXCEPT !.mapInfo[id].nLastSuccess = now, !.mapInfo[id].nLastTry = now,
                           !.mapInfo[id].nTime = now, !.mapInfo[id].nAttempts = 0]
       IN  IF am.mapInfo[id].fInTried THEN am' = g
           ELSE \E origin \in {c \in NewBuckets : id \in am.vvNew[c]} :
                LET l == LeaveNew(g, id, origin)
                IN  IF Len(am.vvTried[b]) < TriedBucketSize THEN am' = PushTried(l, b, id)
                    ELSE \E draw \in Draws(am.vvTried[b]) :
                            am' = ReplaceTried(l, b, id, origin, draw)
    /\ UNCHANGED now

\* Attempt_.  Past MaxFailures the number of attempts makes no difference.
Attempt(s) ==
    /\ KnowsExactly(s)
    /\ LET n == am.mapInfo[IdOf(s)].nAttempts + 1
       IN  am' = [am EXCEPT !.mapInfo[IdOf(s)].nLastTry = now,
                            !.mapInfo[IdOf(s)].nAttempts =
                                IF n > MaxFailures THEN MaxFailures ELSE n]
    /\ UNCHANGED now

\* Connected_, when a peer disconnects.
Connected(s) ==
    /\ KnowsExactly(s)
    /\ now - am.mapInfo[IdOf(s)].nTime > 20 * Minute
    /\ am' = [am EXCEPT !.mapInfo[IdOf(s)].nTime = now]
    /\ UNCHANGED now

\* GetAddr_: one round of the shuffle over the first elements of vRandom.
GetAddr ==
    /\ \E n \in 1 .. (GetAddrPct * Len(am.vRandom)) \div 100 :
        \E p \in n .. Len(am.vRandom) : am' = SwapRandom(am, n, p)
    /\ UNCHANGED now

\* Select_ with 0 < nUnkBias < 100: the tables it may choose from.
SelectFrom ==
    (IF am.nTried > 0 THEN {UNION {Range(am.vvTried[b]) : b \in TriedBuckets}} ELSE {})
    \cup (IF am.nNew > 0 \/ am.nTried = 0 THEN {UNION {am.vvNew[b] : b \in NewBuckets}} ELSE {})

\* CAddrDB::Write replaces peers.dat in one step, by a rename, every 100 seconds and
\* at shutdown; CAddrDB::Read loads it.  A process that ends here comes back with what
\* the last dump saved: a step that goes back to the state of an earlier dump has the
\* same effect as one right after that dump, so that the file is not kept apart.
Restart ==
    /\ am' \in {EmptyMan, Unserialize(Serialize(am))}
    /\ UNCHANGED now

Tick == now < MaxTime /\ now' = now + 1 /\ UNCHANGED am

Next ==
    \/ \E told \in Told, nTime \in 1 .. now, penalty \in Penalties :
        \/ AddNew(told[1], told[2], nTime, penalty)
        \/ AddKnown(told[1], told[2], nTime, penalty)
    \/ \E s \in Services : Good(s) \/ Attempt(s) \/ Connected(s)
    \/ GetAddr \/ Restart \/ Tick

Spec == Init /\ [][Next]_vars

-----------------------------------------------------------------------------
\* Properties

TypeOK ==
    /\ DOMAIN am = DOMAIN EmptyMan
    /\ DOMAIN am.mapInfo \subseteq 0 .. MaxId - 1
    /\ now \in 1 .. MaxTime

\* What Check_() verifies, whose return value is the number of the failed test.
Check(m) ==
    LET new == {i \in DOMAIN m.mapInfo : ~m.mapInfo[i].fInTried}
        tried == DOMAIN m.mapInfo \ new
        inTried == UNION {Range(m.vvTried[b]) : b \in TriedBuckets}
    IN  /\ Len(m.vRandom) = m.nTried + m.nNew                                   \* -7
        /\ \A i \in DOMAIN m.mapInfo :
            LET info == m.mapInfo[i]
            IN  /\ info.fInTried => info.nLastSuccess > 0 /\ info.nRefCount = 0 \* -1, -2
                /\ ~info.fInTried => info.nRefCount \in 1 .. NewBucketsPerAddress \* -3, -4
                /\ m.mapAddr[Ip[info.addr]] = i                                 \* -5
                /\ info.nRandomPos \in DOMAIN m.vRandom                         \* -14
                /\ m.vRandom[info.nRandomPos] = i
                /\ ~info.fInTried => info.nRefCount =
                        Cardinality({b \in NewBuckets : i \in m.vvNew[b]})      \* -12, -15
        /\ Cardinality(tried) = m.nTried /\ Cardinality(new) = m.nNew           \* -9, -10
        /\ inTried = tried                                                      \* -11, -13
        /\ UNION {m.vvNew[b] : b \in NewBuckets} \subseteq new                  \* -12

\* Check_ finds nothing, in the running manager or in what a restart would load;
\* buckets keep their sizes, and Select_ has something to choose from.
Consistent ==
    /\ Check(am)
    /\ Check(Unserialize(Serialize(am)))
    /\ \A b \in NewBuckets : Cardinality(am.vvNew[b]) <= NewBucketSize
    /\ \A b \in TriedBuckets : Len(am.vvTried[b]) <= TriedBucketSize
    /\ am.vRandom # <<>> => {} \notin SelectFrom

\* What tables say, whatever the ids.
Contents(m) ==
    LET addrs(ids) == {m.mapInfo[i].addr : i \in ids}
    IN  [new   |-> [b \in NewBuckets |-> addrs(m.vvNew[b])],
         tried |-> [b \in TriedBuckets |-> addrs(Range(m.vvTried[b]))],
         infos |-> {[m.mapInfo[i] EXCEPT !.nLastTry = 0, !.nRandomPos = 0] :
                        i \in DOMAIN m.mapInfo}]

\* Saving and loading loses nothing but the time of the last try: no tried entry is
\* lost, and every entry is in the same buckets.
SavedIsLoaded == Contents(Unserialize(Serialize(am))) = Contents(am)

TriedAddrs == {am.mapInfo[i].addr : i \in {j \in DOMAIN am.mapInfo : am.mapInfo[j].fInTried}}

\* Entries "are never deleted while in the "tried" table, only possibly evicted back
\* to the "new" table", and an eviction evicts one.
TriedStays ==
    [][\/ /\ TriedAddrs \subseteq {am'.mapInfo[i].addr : i \in DOMAIN am'.mapInfo}
          /\ Cardinality(TriedAddrs \ TriedAddrs') <= 1
       \/ am' \in {EmptyMan, Unserialize(Serialize(am))}]_vars

=============================================================================
